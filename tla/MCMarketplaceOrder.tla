------------------------ MODULE MCMarketplaceOrder -------------------------
(* Instances of MarketplaceOrder for TLC. *)
EXTENDS MarketplaceOrder, TLC

CONSTANTS First, Second

\* A cart whose second line may be refused, and one that takes that unit away.
SomeCarts == {<<First, Second>>, <<Second>>}

Symmetry == Permutations(Proc) \cup Permutations(Order)
=============================================================================
