----------------------- MODULE MCPaymentSettlement -----------------------
(* PaymentSettlement on small instances. *)
EXTENDS PaymentSettlement, TLC

Symmetry == Permutations(Proc)
=============================================================================
