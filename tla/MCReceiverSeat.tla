--------------------------- MODULE MCReceiverSeat ---------------------------
(* Model-checking instances of ReceiverSeat. *)
EXTENDS ReceiverSeat, TLC

Symmetry == Permutations(Install) \cup Permutations(Activation) \cup Permutations(Challenge)
=============================================================================
