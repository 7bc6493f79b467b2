------------------------- MODULE MCDeliveryJournal --------------------------
(* Finite instances of DeliveryJournal. *)
EXTENDS DeliveryJournal, TLC

CONSTANTS c1, c2

ConsumerSymmetry == Permutations({c1, c2})
=============================================================================
