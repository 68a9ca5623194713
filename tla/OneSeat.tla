------------------------------ MODULE OneSeat ------------------------------
(***************************************************************************)
(* What a licence promises about its single receiver: at every moment at   *)
(* most one credential holds the seat, the seat passes from a credential   *)
(* to its successor in one step, and a credential that has held the seat   *)
(* and lost it never holds it again.                                       *)
(***************************************************************************)
CONSTANTS Credential, None

VARIABLES
  holder,   \* the credential that holds the seat, or None
  spent     \* the credentials that have held it, its holder included

vars == <<holder, spent>>

Init ==
  /\ holder = None
  /\ spent = {}

\* A credential that never held the seat takes it, free or not.
Take(a) ==
  /\ a \notin spent
  /\ holder' = a
  /\ spent' = spent \cup {a}

\* The holder gives the seat up or loses it.
Leave ==
  /\ holder # None
  /\ holder' = None
  /\ UNCHANGED spent

Next == Leave \/ \E a \in Credential : Take(a)

Spec == Init /\ [][Next]_vars
=============================================================================
