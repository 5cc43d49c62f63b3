------------------------- MODULE MCSlotReservation -------------------------
(* Instances of SlotReservation for TLC. *)
EXTENDS SlotReservation, TLC

Symmetry == Permutations(Request) \cup Permutations(Reservation)
=============================================================================
