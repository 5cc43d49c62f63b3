------------------------ MODULE MCUrgentAssignment -------------------------
(* Instances of UrgentAssignment for TLC. *)
EXTENDS UrgentAssignment, TLC

Symmetry == Permutations(Request) \cup Permutations(Provider)

AllOps == {"ACCEPT", "REJECT", "NOTICE", "CANCEL", "EXPIRE", "EXHAUST", "GIVE_UP", "NO_SHOW",
           "VISIT", "CHANGE"}
=============================================================================
