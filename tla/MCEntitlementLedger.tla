------------------------ MODULE MCEntitlementLedger ------------------------
(* Instances of EntitlementLedger for TLC. *)
EXTENDS EntitlementLedger, TLC

Symmetry == Permutations(Request) \cup Permutations(Booking)

AllOps == {"RESERVE", "CONSUME", "RELEASE", "ADJUST"}
=============================================================================
