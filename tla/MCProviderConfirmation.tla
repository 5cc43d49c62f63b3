---------------------- MODULE MCProviderConfirmation ----------------------
(* Instances of ProviderConfirmation for TLC. *)
EXTENDS ProviderConfirmation, TLC

Symmetry == Permutations(Proc)
=============================================================================
