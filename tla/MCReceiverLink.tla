--------------------------- MODULE MCReceiverLink ---------------------------
(* Model-checking instance of ReceiverLink. *)
EXTENDS ReceiverLink
=============================================================================
