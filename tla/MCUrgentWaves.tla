--------------------------- MODULE MCUrgentWaves ---------------------------
(* Instances of UrgentWaves for TLC; no symmetry, because liveness is        *)
(* checked.                                                                  *)
EXTENDS UrgentWaves, TLC
=============================================================================
