---------------------- MODULE MCCarePlanSubscription ----------------------
(* Instances of CarePlanSubscription for TLC. *)
EXTENDS CarePlanSubscription, TLC

Symmetry == Permutations(Proc) \cup Permutations(Sub)
=============================================================================
