------------------------ MODULE MCSubscriptionLedger ------------------------
(* Model-checking instances of SubscriptionLedger. *)
EXTENDS SubscriptionLedger
=============================================================================
