---------------------------- MODULE MCGroundWarm ----------------------------
(* Instances of GroundWarm for TLC.                                         *)
EXTENDS GroundWarm

\* A forced job for some airports; an operator's unforced full one is as the loop's.
SomeForced == {[full |-> FALSE, force |-> TRUE]}
=============================================================================
