------------------------- MODULE MCProviderTransport -------------------------
(* Model-checking instance of ProviderTransport. *)
EXTENDS ProviderTransport
=============================================================================
