-------------------------- MODULE MCPlayPurchases --------------------------
(* Model-checking instance of PlayPurchases. *)
EXTENDS PlayPurchases
=============================================================================
