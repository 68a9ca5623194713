---------------------------- MODULE MCMailOutbox ----------------------------
(* Model-checking instances of MailOutbox. *)
EXTENDS MailOutbox, TLC

\* The delay before the next attempt grows with the attempts made.
Growing == [n \in 1..MaxTries |-> n]
=============================================================================
