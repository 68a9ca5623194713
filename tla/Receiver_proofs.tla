--------------------------- MODULE Receiver_proofs ---------------------------
(***************************************************************************)
(* Proofs about a receiver, on the relay (ReceiverSeat: any sets of           *)
(* installations, activations and challenges, any lifetime) and on the        *)
(* desktop (ReceiverLink: any sets of credentials and routes, any bounds).    *)
(* The two specifications share nothing; each has a part of this module.      *)
(*                                                                         *)
(* The seat.  Every operation has one of three shapes: it seats and prepares  *)
(* nobody (Quiet), it prepares one activation (Prepares), or it seats one     *)
(* (Takes).  The invariant is proved once for each shape.                     *)
(*                                                                         *)
(* The link.  A request carries its credential with it, and what the relay    *)
(* told of it cannot be taken back (Carried); a change of route passes its    *)
(* steps in one order, so its phase says what is in the journal               *)
(* (ChangeInOrder) and, as long as no write of the journal was lost for good,  *)
(* which of keys and route is ahead of the other (KeysInStep).                *)
(***************************************************************************)
EXTENDS ReceiverSeat, ReceiverLink, TLAPS

USE SeatAssumption

-----------------------------------------------------------------------------
(* The seat.                                                               *)

SeatOf(rows) == IF \E a \in Activation : rows[a].status = "active"
                THEN CHOOSE a \in Activation : rows[a].status = "active"
                ELSE None

\* The seat is read off the rows, before a step and after it.
LEMMA SeatIsSeatOf == Seat = SeatOf(act) /\ Seat' = SeatOf(act')
  BY Zenon DEF Seat, SeatOf, Active

\* Whichever row is active has the seat; without one there is none.
LEMMA SeatOfFacts ==
  ASSUME NEW rows
  PROVE  \/ /\ SeatOf(rows) \in Activation
            /\ rows[SeatOf(rows)].status = "active"
         \/ /\ SeatOf(rows) = None
            /\ \A a \in Activation : rows[a].status # "active"
  BY DEF SeatOf

\* The same of the model's seat.
LEMMA SeatFacts ==
  /\ \/ Seat \in Activation /\ Active(Seat)
     \/ Seat = None /\ \A a \in Activation : ~Active(a)
  /\ \/ Seat' \in Activation /\ act'[Seat'].status = "active"
     \/ Seat' = None /\ \A a \in Activation : act'[a].status # "active"
<1>1. \/ Seat \in Activation /\ Active(Seat)
      \/ Seat = None /\ \A a \in Activation : ~Active(a)
  BY SeatIsSeatOf, SeatOfFacts DEF Active
<1>2. \/ Seat' \in Activation /\ act'[Seat'].status = "active"
      \/ Seat' = None /\ \A a \in Activation : act'[a].status # "active"
  BY SeatIsSeatOf, SeatOfFacts
<1>3. QED BY <1>1, <1>2

-----------------------------------------------------------------------------
(* Every state has its type.                                               *)

\* Zero and the whole lifetime are times left.
LEMMA Bounds == 0 \in 0..Lifetime /\ Lifetime \in 0..Lifetime
<1>1. Lifetime \in Nat
  BY SeatAssumption DEF SeatAssumption
<1>2. QED BY <1>1


ActivationRow == [status: Status, install: Install \cup {None},
                  expected: Activation \cup {None}, grant: Challenge \cup {None},
                  move: Challenge \cup {None}, left: 0..Lifetime]
ChallengeRow == [purpose: Purpose, install: Install \cup {None},
                 subject: Activation \cup {None}, consumed: BOOLEAN, left: 0..Lifetime]

\* What closing a row and consuming a challenge leave of them.
LEMMA RowFacts ==
  ASSUME TypeOK
  PROVE  /\ \A a \in Activation, s \in Status :
              /\ Closed(a, s).status = s
              /\ Closed(a, s).install = act[a].install
              /\ Closed(a, s).expected = act[a].expected
              /\ Closed(a, s).grant = act[a].grant
              /\ Closed(a, s).move = act[a].move
         /\ \A c \in Challenge : /\ Consumed(c).purpose = ch[c].purpose
                                 /\ Consumed(c).install = ch[c].install
                                 /\ Consumed(c).consumed
  BY DEF TypeOK, Closed, Consumed

\* An update that keeps a row in its type, with the deadline as a variable: the
\* provers do not see it for a literal.
LEMMA RowUpdates ==
  ASSUME NEW n \in 0..Lifetime
  PROVE  /\ \A r \in ActivationRow, s \in Status :
              [r EXCEPT !.status = s, !.left = n] \in ActivationRow
         /\ \A r \in ChallengeRow :
              [r EXCEPT !.consumed = TRUE, !.left = n] \in ChallengeRow
  BY DEF ActivationRow, ChallengeRow

\* The rows the operations write have their types.
LEMMA NewRowFacts ==
  ASSUME TypeOK
  PROVE  /\ Unused \in ActivationRow /\ Unissued \in ChallengeRow
         /\ \A a \in Activation : act[a] \in ActivationRow
         /\ \A c \in Challenge : ch[c] \in ChallengeRow
         /\ \A a \in Activation, s \in Status : Closed(a, s) \in ActivationRow
         /\ \A c \in Challenge : Consumed(c) \in ChallengeRow
         /\ \A i \in Install, g, m \in Challenge \cup {None}, s \in Status :
              Prepared(i, g, m, s) \in ActivationRow
         /\ \A a \in Activation :
              [act[a] EXCEPT !.status = "active", !.left = 0] \in ActivationRow
         /\ \A a \in Activation : act[a].left > 0 =>
              [act[a] EXCEPT !.left = @ - 1] \in ActivationRow
         /\ \A c \in Challenge : ch[c].left > 0 =>
              [ch[c] EXCEPT !.left = @ - 1] \in ChallengeRow
         /\ Seat \in Activation \cup {None}
<1>1. Unused \in ActivationRow /\ Unissued \in ChallengeRow
  BY DEF Unused, Unissued, ActivationRow, ChallengeRow, Status, Purpose
<1>2. /\ \A a \in Activation : act[a] \in ActivationRow
      /\ \A c \in Challenge : ch[c] \in ChallengeRow
  BY DEF TypeOK, ActivationRow, ChallengeRow
<1>3. /\ \A a \in Activation, s \in Status : Closed(a, s) \in ActivationRow
      /\ \A c \in Challenge : Consumed(c) \in ChallengeRow
  BY <1>2, RowUpdates, Bounds DEF Closed, Consumed
<1>4. Seat \in Activation \cup {None}
  BY SeatFacts
<1>5. ASSUME NEW i \in Install, NEW g \in Challenge \cup {None},
             NEW m \in Challenge \cup {None}, NEW s \in Status
      PROVE  Prepared(i, g, m, s) \in ActivationRow
  BY <1>4 DEF Prepared, ActivationRow
<1>6. ASSUME NEW a \in Activation
      PROVE  /\ [act[a] EXCEPT !.status = "active", !.left = 0] \in ActivationRow
             /\ act[a].left > 0 => [act[a] EXCEPT !.left = @ - 1] \in ActivationRow
  <2>1. "active" \in Status
    BY DEF Status
  <2>2. [act[a] EXCEPT !.status = "active", !.left = 0] \in ActivationRow
    BY <1>2, <2>1, RowUpdates, Bounds
  <2>3. act[a].left > 0 => [act[a] EXCEPT !.left = @ - 1] \in ActivationRow
    BY <1>2 DEF ActivationRow
  <2>4. QED BY <2>2, <2>3
<1>7. ASSUME NEW c \in Challenge, ch[c].left > 0
      PROVE  [ch[c] EXCEPT !.left = @ - 1] \in ChallengeRow
  BY <1>2, <1>7 DEF ChallengeRow
<1>8. QED BY <1>1, <1>2, <1>3, <1>4, <1>5, <1>6, <1>7

\* Every step keeps the types.
LEMMA TypeStep == TypeOK /\ [Next]_vars => TypeOK'
<1> SUFFICES ASSUME TypeOK, [Next]_vars PROVE TypeOK'
  OBVIOUS
<1> USE NewRowFacts
<1>1. CASE UNCHANGED vars
  BY <1>1 DEF vars, TypeOK
<1>2. ASSUME Next PROVE seated' \subseteq Activation /\ disturbed' \subseteq Activation
  BY <1>2 DEF Next, Observe, TypeOK
<1>3. ASSUME entitled' \in BOOLEAN, act' \in [Activation -> ActivationRow],
             ch' \in [Challenge -> ChallengeRow],
             voided' \subseteq Activation \cup Challenge, Next
      PROVE  TypeOK'
  BY <1>2, <1>3 DEF TypeOK, ActivationRow, ChallengeRow
<1>4. ASSUME Step
      PROVE  /\ entitled' \in BOOLEAN /\ act' \in [Activation -> ActivationRow]
             /\ ch' \in [Challenge -> ChallengeRow]
             /\ voided' \subseteq Activation \cup Challenge
  <2>0. /\ entitled \in BOOLEAN /\ act \in [Activation -> ActivationRow]
        /\ ch \in [Challenge -> ChallengeRow]
        /\ voided \subseteq Activation \cup Challenge
    BY DEF TypeOK, ActivationRow, ChallengeRow
  <2>1. ASSUME NEW c \in Challenge, NEW i \in Install \cup {None}, CreateGrant(c, i)
        PROVE  ch' \in [Challenge -> ChallengeRow] /\ UNCHANGED <<entitled, act, voided>>
    <3>1. [purpose |-> "activation_grant", install |-> i, subject |-> None,
           consumed |-> FALSE, left |-> Lifetime] \in ChallengeRow
      BY Bounds DEF ChallengeRow, Purpose
    <3>2. QED BY <2>0, <2>1, <3>1 DEF CreateGrant
  <2>2. ASSUME NEW i \in Install, NEW g \in Challenge \cup {None},
               NEW c \in Challenge, OfferMove(i, g, c)
        PROVE  /\ act' \in [Activation -> ActivationRow]
               /\ ch' \in [Challenge -> ChallengeRow] /\ UNCHANGED <<entitled, voided>>
    <3>1. [purpose |-> "confirm_move", install |-> i, subject |-> Seat,
           consumed |-> FALSE, left |-> Lifetime] \in ChallengeRow
      BY Bounds DEF ChallengeRow, Purpose
    <3>2. "revoked" \in Status
      BY DEF Status
    <3>3. QED BY <2>0, <2>2, <3>1, <3>2 DEF OfferMove
  <2>3. ASSUME NEW i \in Install, NEW g \in Challenge \cup {None},
               NEW m \in Challenge \cup {None}, NEW a \in Activation, Prepare(i, g, m, a)
        PROVE  act' \in [Activation -> ActivationRow] /\ UNCHANGED <<entitled, ch, voided>>
    <3>1. {"revoked", "pending_commit"} \subseteq Status
      BY DEF Status
    <3>2. QED BY <2>0, <2>3, <3>1 DEF Prepare
  <2>4. ASSUME NEW i \in Install, NEW g \in Challenge \cup {None},
               NEW m \in Challenge \cup {None}, NEW a \in Activation, Activate(i, g, m, a)
        PROVE  /\ act' \in [Activation -> ActivationRow]
               /\ ch' \in [Challenge -> ChallengeRow] /\ UNCHANGED <<entitled, voided>>
    <3>1. {"revoked", "replaced", "active"} \subseteq Status
      BY DEF Status
    <3>2. QED BY <2>0, <2>4, <3>1 DEF Activate, Consume
  <2>5. ASSUME NEW a \in Activation, Commit(a)
        PROVE  /\ act' \in [Activation -> ActivationRow]
               /\ ch' \in [Challenge -> ChallengeRow] /\ UNCHANGED <<entitled, voided>>
    <3>1. "replaced" \in Status
      BY DEF Status
    <3>2. QED BY <2>0, <2>5, <3>1 DEF Commit, Consume
  <2>6. ASSUME NEW a \in Activation, Deactivate(a)
        PROVE  act' \in [Activation -> ActivationRow] /\ UNCHANGED <<entitled, ch, voided>>
    <3>1. "deactivated" \in Status
      BY DEF Status
    <3>2. QED BY <2>0, <2>6, <3>1 DEF Deactivate
  <2>7. ASSUME Revoked PROVE act' \in [Activation -> ActivationRow]
    <3>1. "revoked" \in Status
      BY DEF Status
    <3>2. QED BY <2>0, <2>7, <3>1 DEF Revoked
  <2>8. CASE RevokeReceivers
    BY <2>0, <2>7, <2>8 DEF RevokeReceivers, Open
  <2>9. CASE OperatorInvalidate
    BY <2>0, <2>7, <2>9 DEF OperatorInvalidate, Open
  <2>10. CASE Entitle
    BY <2>0, <2>10 DEF Entitle
  <2>11. CASE Tick
    <3>1. act' \in [Activation -> ActivationRow]
      BY <2>0, <2>11 DEF Tick
    <3>2. ch' \in [Challenge -> ChallengeRow]
      BY <2>0, <2>11 DEF Tick
    <3>3. QED BY <2>0, <2>11, <3>1, <3>2 DEF Tick
  <2>12. QED BY <1>4, <2>0, <2>1, <2>2, <2>3, <2>4, <2>5, <2>6, <2>8, <2>9, <2>10, <2>11
            DEF Step
<1>5. QED BY <1>1, <1>3, <1>4 DEF Next

-----------------------------------------------------------------------------
(* The three shapes of an operation.                                       *)

Gone == {"replaced", "deactivated", "revoked"}

\* The row keeps what its preparation wrote into it.
SameTerms(b) == /\ act'[b].install = act[b].install
                /\ act'[b].expected = act[b].expected
                /\ act'[b].grant = act[b].grant
                /\ act'[b].move = act[b].move

Keeps(b) == act'[b].status = act[b].status /\ SameTerms(b)
Closes(b) == (Active(b) \/ Pending(b)) /\ act'[b].status \in Gone /\ SameTerms(b)

\* Spent challenges stay spent, issued ones stay what they are.
ChallengesKept ==
  \A c \in Challenge :
    /\ ch[c].consumed => ch'[c].consumed
    /\ ch'[c].purpose = "confirm_move" => ch'[c].install # None

Quiet ==
  /\ \A b \in Activation : Keeps(b) \/ Closes(b)
  /\ ChallengesKept
  /\ \A v \in voided' :
       \/ v \in voided
       \/ v \in Activation /\ (Active(v) \/ Pending(v)) /\ act'[v].status \in Gone
       \/ v \in Challenge /\ ~ch[v].consumed /\ ch'[v].consumed

Prepares(a) ==
  /\ act[a].status = "unused" /\ act'[a].status = "pending_commit"
  /\ act'[a].expected = Seat
  /\ act'[a].move = None => Seat = None \/ act[Seat].install = act'[a].install
  /\ \A b \in Activation \ {a} : (Keeps(b) /\ ~Pending(b)) \/ (Closes(b) /\ Pending(b))
  /\ UNCHANGED <<ch, voided>>

Takes(a) ==
  /\ act[a].status = "unused" \/ (Pending(a) /\ act[a].expected = Seat)
  /\ act'[a].status = "active"
  /\ \A b \in Activation \ {a} : (Keeps(b) /\ ~Active(b) /\ ~Pending(b)) \/ Closes(b)
  /\ \A c \in {act'[a].grant, act'[a].move} \ {None} :
       c \in Challenge /\ ~ch[c].consumed /\ ch'[c].consumed
  /\ ChallengesKept
  /\ UNCHANGED voided

\* Consuming a grant and a token only spends them.
LEMMA ConsumeKeeps ==
  ASSUME TypeOK, MoveRecord, NEW g \in Challenge \cup {None}, NEW m \in Challenge \cup {None},
         Consume(g, m)
  PROVE  /\ ChallengesKept
         /\ \A c \in {g, m} \ {None} : c \in Challenge /\ ch'[c].consumed
<1>1. ASSUME NEW c \in Challenge
      PROVE  /\ ch[c].consumed => ch'[c].consumed
             /\ ch'[c].purpose = ch[c].purpose /\ ch'[c].install = ch[c].install
             /\ c \in {g, m} => ch'[c].consumed
  <2>1. ch'[c] = IF c \in {g, m} THEN Consumed(c) ELSE ch[c]
    BY DEF Consume
  <2>2. QED BY <2>1, RowFacts
<1>2. QED BY <1>1 DEF ChallengesKept, MoveRecord

\* A grant is issued: no row of an activation changes.
LEMMA GrantShape ==
  ASSUME TypeOK, MoveRecord, NEW c \in Challenge, NEW i \in Install \cup {None}, CreateGrant(c, i)
  PROVE  Quiet
<1>1. ASSUME NEW d \in Challenge
      PROVE  /\ ch[d].consumed => ch'[d].consumed
             /\ ch'[d].purpose = "confirm_move" => ch'[d].install # None
  BY DEF CreateGrant, TypeOK, MoveRecord, Unissued
<1>2. QED BY <1>1 DEF CreateGrant, Quiet, Keeps, SameTerms, ChallengesKept

\* A move is offered: no row of an activation changes.
LEMMA OfferShape ==
  ASSUME TypeOK, MoveRecord, NEW i \in Install, NEW g \in Challenge \cup {None},
         NEW c \in Challenge, OfferMove(i, g, c)
  PROVE  Quiet
<1>1. ASSUME NEW d \in Challenge
      PROVE  /\ ch[d].consumed => ch'[d].consumed
             /\ ch'[d].purpose = "confirm_move" => ch'[d].install # None
  BY DEF OfferMove, TypeOK, MoveRecord, Unissued
<1>2. "revoked" \in Status \cap Gone
  BY DEF Status, Gone
<1>3. ASSUME NEW b \in Activation PROVE Keeps(b) \/ Closes(b)
  BY <1>2, RowFacts DEF OfferMove, Keeps, Closes, SameTerms, Expired
<1>4. QED BY <1>1, <1>3 DEF OfferMove, Quiet, ChallengesKept

\* A preparation closes the other pending rows and opens one.
LEMMA PrepareShape ==
  ASSUME TypeOK, NEW i \in Install, NEW g \in Challenge \cup {None},
         NEW m \in Challenge \cup {None}, NEW a \in Activation, Prepare(i, g, m, a)
  PROVE  Prepares(a)
<1>1. "revoked" \in Status \cap Gone
  BY DEF Status, Gone
<1>2. /\ act[a].status = "unused" /\ act'[a].status = "pending_commit"
      /\ act'[a].expected = Seat /\ act'[a].move = m /\ act'[a].install = i
  BY DEF Prepare, Prepared, Unused, TypeOK
<1>3. m = None => Seat = None \/ act[Seat].install = i
  BY DEF Prepare, Confirmed, Moving
<1>4. ASSUME NEW b \in Activation \ {a}
      PROVE  (Keeps(b) /\ ~Pending(b)) \/ (Closes(b) /\ Pending(b))
  <2>1. act'[b] = IF Pending(b) THEN Closed(b, "revoked") ELSE act[b]
    BY DEF Prepare
  <2>2. CASE Pending(b)
    BY <1>1, <2>1, <2>2, RowFacts DEF Closes, SameTerms
  <2>3. CASE ~Pending(b)
    BY <2>1, <2>3 DEF Keeps, SameTerms
  <2>4. QED BY <2>2, <2>3
<1>5. QED BY <1>2, <1>3, <1>4 DEF Prepares, Prepare

\* An activation without the two steps seats its row at once.
LEMMA ActivateShape ==
  ASSUME TypeOK, MoveRecord, NEW i \in Install, NEW g \in Challenge \cup {None},
         NEW m \in Challenge \cup {None}, NEW a \in Activation, Activate(i, g, m, a)
  PROVE  Takes(a)
<1>1. {"revoked", "replaced"} \subseteq Status \cap Gone
  BY DEF Status, Gone
<1>2. /\ act[a].status = "unused" /\ act'[a].status = "active"
      /\ act'[a].grant = g /\ act'[a].move = m
  BY DEF Activate, Prepared, Unused, TypeOK
<1>3. \A c \in {g, m} \ {None} : ~ch[c].consumed
  BY DEF Activate, Authorised, Confirmed, Valid
<1>4. ASSUME NEW b \in Activation \ {a}
      PROVE  (Keeps(b) /\ ~Active(b) /\ ~Pending(b)) \/ Closes(b)
  BY <1>1, RowFacts DEF Activate, Keeps, Closes, SameTerms
<1>5. Consume(g, m) /\ UNCHANGED voided
  BY DEF Activate
<1>6. ChallengesKept /\ \A c \in {g, m} \ {None} : c \in Challenge /\ ch'[c].consumed
  BY <1>5, ConsumeKeeps
<1>7. QED BY <1>2, <1>3, <1>4, <1>5, <1>6 DEF Takes

\* A commit seats the prepared row, and replaces whoever had the seat.
LEMMA CommitShape ==
  ASSUME TypeOK, SeatInv, MoveRecord, NEW a \in Activation, Commit(a)
  PROVE  Takes(a)
<1>1. "replaced" \in Status \cap Gone
  BY DEF Status, Gone
<1>2. /\ Pending(a) /\ act[a].expected = Seat /\ act'[a].status = "active"
      /\ act'[a].grant = act[a].grant /\ act'[a].move = act[a].move
  <2>1. act'[a] = [act[a] EXCEPT !.status = "active", !.left = 0]
    BY DEF Commit
  <2>2. /\ act'[a].status = "active"
        /\ act'[a].grant = act[a].grant /\ act'[a].move = act[a].move
    BY <2>1 DEF TypeOK
  <2>3. QED BY <2>2 DEF Commit, Committable, StillExpected
<1>3. \A c \in {act[a].grant, act[a].move} \ {None} : ~ch[c].consumed
  <2>1. /\ act[a].grant # None => ~ch[act[a].grant].consumed
        /\ act[a].move # None => ~ch[act[a].move].consumed
    BY DEF Commit, StillAuthorised, Valid
  <2>2. QED BY <2>1
<1>4. ASSUME NEW b \in Activation \ {a}
      PROVE  (Keeps(b) /\ ~Active(b) /\ ~Pending(b)) \/ Closes(b)
  <2>1. ~Pending(b)
    BY <1>2 DEF SeatInv
  <2>2. QED BY <1>1, <2>1, RowFacts DEF Commit, Keeps, Closes, SameTerms
<1>5. act[a].grant \in Challenge \cup {None} /\ act[a].move \in Challenge \cup {None}
  BY DEF TypeOK
<1>6. Consume(act[a].grant, act[a].move) /\ UNCHANGED voided
  BY DEF Commit
<1>7. QED BY <1>2, <1>3, <1>4, <1>5, <1>6, ConsumeKeeps DEF Takes

\* A deactivation closes rows.
LEMMA DeactivateShape ==
  ASSUME TypeOK, MoveRecord, NEW a \in Activation, Deactivate(a)
  PROVE  Quiet
<1>1. "deactivated" \in Status \cap Gone
  BY DEF Status, Gone
<1>2. ASSUME NEW b \in Activation PROVE Keeps(b) \/ Closes(b)
  BY <1>1, RowFacts DEF Deactivate, Keeps, Closes, SameTerms, TypeOK
<1>3. QED BY <1>2 DEF Deactivate, Quiet, ChallengesKept, MoveRecord

\* A revocation leaves no row open.
LEMMA RevokedShape ==
  ASSUME TypeOK, Revoked
  PROVE  /\ \A b \in Activation : Keeps(b) \/ Closes(b)
         /\ \A b \in Open : (Active(b) \/ Pending(b)) /\ act'[b].status \in Gone
<1>1. "revoked" \in Status \cap Gone
  BY DEF Status, Gone
<1>2. ASSUME NEW b \in Activation
      PROVE  /\ Keeps(b) \/ Closes(b)
             /\ b \in Open => (Active(b) \/ Pending(b)) /\ act'[b].status \in Gone
  BY <1>1, RowFacts DEF Revoked, Keeps, Closes, SameTerms, Open
<1>3. Open \subseteq Activation
  BY DEF Open
<1>4. QED BY <1>2, <1>3

\* So do the operations that revoke.
LEMMA RevokeShape ==
  ASSUME TypeOK, MoveRecord, RevokeReceivers \/ OperatorInvalidate
  PROVE  Quiet
<1>1. /\ \A b \in Activation : Keeps(b) \/ Closes(b)
      /\ \A b \in Open : (Active(b) \/ Pending(b)) /\ act'[b].status \in Gone
  BY RevokedShape DEF RevokeReceivers, OperatorInvalidate
<1>2. Open \subseteq Activation
  BY DEF Open
<1>3. CASE RevokeReceivers
  BY <1>1, <1>2, <1>3 DEF RevokeReceivers, Quiet, ChallengesKept, MoveRecord
<1>4. CASE OperatorInvalidate
  <2>1. ASSUME NEW c \in Challenge
        PROVE  /\ ch[c].consumed => ch'[c].consumed
               /\ ch[c] # Unissued => ch'[c].consumed
               /\ ch'[c].purpose = ch[c].purpose /\ ch'[c].install = ch[c].install
    <3>1. ch'[c] = IF ch[c] = Unissued THEN ch[c] ELSE Consumed(c)
      BY <1>4 DEF OperatorInvalidate
    <3>2. QED BY <3>1, RowFacts
  <2>2. ChallengesKept
    BY <2>1 DEF ChallengesKept, MoveRecord
  <2>3. \A v \in voided' :
          \/ v \in voided
          \/ v \in Open
          \/ v \in Challenge /\ ~ch[v].consumed /\ ch'[v].consumed
    BY <1>4, <2>1 DEF OperatorInvalidate
  <2>4. QED BY <1>1, <1>2, <2>2, <2>3 DEF Quiet
<1>5. QED BY <1>3, <1>4

\* Time passes, and rows only close.
LEMMA TickShape ==
  ASSUME TypeOK, MoveRecord, Tick
  PROVE  Quiet
<1>1. ASSUME NEW b \in Activation PROVE Keeps(b)
  BY DEF Tick, Keeps, SameTerms, TypeOK
<1>2. ASSUME NEW c \in Challenge
      PROVE  /\ ch'[c].consumed = ch[c].consumed
             /\ ch'[c].purpose = ch[c].purpose /\ ch'[c].install = ch[c].install
  BY DEF Tick, TypeOK
<1>3. QED BY <1>1, <1>2 DEF Tick, Quiet, ChallengesKept, MoveRecord

\* Every operation has one of the three shapes.
LEMMA Shapes ==
  ASSUME TypeOK, SeatInv, MoveRecord, Step
  PROVE  Quiet \/ \E a \in Activation : Prepares(a) \/ Takes(a)
<1>1. CASE Entitle
  BY <1>1 DEF Entitle, Quiet, Keeps, SameTerms, ChallengesKept, MoveRecord
<1>2. QED BY <1>1, GrantShape, OfferShape, PrepareShape, ActivateShape, CommitShape,
             DeactivateShape, RevokeShape, TickShape DEF Step

-----------------------------------------------------------------------------
(* The invariant.                                                          *)

\* The invariant holds when nothing was issued yet.
LEMMA InvInit == Init => ReceiverInv
<1> SUFFICES ASSUME Init PROVE ReceiverInv
  OBVIOUS
<1>1. TypeOK
  <2>1. Unused \in ActivationRow /\ Unissued \in ChallengeRow
    BY Bounds DEF Unused, Unissued, ActivationRow, ChallengeRow, Status, Purpose
  <2>2. QED BY <2>1 DEF Init, TypeOK, ActivationRow, ChallengeRow
<1>2. \A a \in Activation : ~Active(a) /\ ~Pending(a)
  BY DEF Init, Active, Pending, Unused
<1>3. \A c \in Challenge : ch[c].purpose # "confirm_move"
  BY DEF Init, Unissued
<1>4. seated = {} /\ disturbed = {} /\ voided = {}
  BY DEF Init
<1>5. QED BY <1>1, <1>2, <1>3, <1>4 DEF ReceiverInv, SeatInv, SeatedRecord, WaitRecord,
             MoveRecord, VoidRecord, NothingSurvivesRevocation, AuthorisationsSpentOnce,
             UndisturbedCommit

\* What a shape says of a row's status.
LEMMA ReceiverStatus ==
  ASSUME NEW b \in Activation
  PROVE  /\ Active(b)' <=> act'[b].status = "active"
         /\ Pending(b)' <=> act'[b].status = "pending_commit"
         /\ Keeps(b) => (Active(b)' <=> Active(b)) /\ (Pending(b)' <=> Pending(b))
         /\ Closes(b) => ~Active(b)' /\ ~Pending(b)' /\ act'[b].status # "unused"
  BY DEF Active, Pending, Keeps, Closes, Gone

\* Steps in which nobody is seated or prepared.
LEMMA QuietInv ==
  ASSUME ReceiverInv, Quiet, Observe, TypeOK'
  PROVE  ReceiverInv'
<1> USE DEF ReceiverInv
<1>1. \A b \in Activation : (Active(b)' => Active(b)) /\ (Pending(b)' => Pending(b) /\ Keeps(b))
  BY ReceiverStatus DEF Quiet
<1>2. SeatInv'
  BY <1>1 DEF SeatInv
<1>3. seated' = seated
  BY <1>1 DEF Observe, SeatedRecord
<1>4. \A b \in Activation : SameTerms(b)
  BY DEF Quiet, Keeps, Closes
<1>5. SeatedRecord'
  <2>1. \A a \in Activation : Active(a)' => a \in seated'
    BY <1>1, <1>3 DEF SeatedRecord
  <2>2. ASSUME NEW a \in seated
        PROVE  /\ act'[a].status \in {"active", "replaced", "deactivated", "revoked"}
               /\ \A c \in {act'[a].grant, act'[a].move} \ {None} : ch'[c].consumed
    <3>1. a \in Activation
      BY DEF TypeOK
    <3>2. act'[a].status \in {"active", "replaced", "deactivated", "revoked"}
      BY <3>1 DEF Quiet, Keeps, Closes, Gone, SeatedRecord
    <3>3. act[a].grant \in Challenge \cup {None} /\ act[a].move \in Challenge \cup {None}
      BY <3>1 DEF TypeOK
    <3>4. ASSUME NEW c \in {act[a].grant, act[a].move} \ {None} PROVE ch'[c].consumed
      BY <3>3 DEF SeatedRecord, Quiet, ChallengesKept
    <3>5. QED BY <1>4, <3>1, <3>2, <3>4 DEF SameTerms
  <2>3. QED BY <1>3, <2>1, <2>2 DEF SeatedRecord
<1>6. Seat' = Seat \/ (Seat' = None /\ Seat \in Activation /\ Active(Seat)
                                   /\ act'[Seat].status # "active")
  <2>1. CASE Seat' \in Activation /\ act'[Seat'].status = "active"
    <3>1. Active(Seat')
      BY <1>1, <2>1, ReceiverStatus
    <3>2. Seat \in Activation /\ Active(Seat)
      BY <2>1, <3>1, SeatFacts
    <3>3. QED BY <2>1, <3>1, <3>2 DEF SeatInv
  <2>2. CASE Seat' = None /\ \A a \in Activation : act'[a].status # "active"
    BY <2>2, SeatFacts, ReceiverStatus
  <2>3. QED BY <2>1, <2>2, SeatFacts
<1>7. WaitRecord'
  <2>1. ASSUME NEW a \in disturbed' PROVE act'[a].status # "unused"
    <3>1. a \in Activation
      BY DEF TypeOK
    <3>2. act[a].status # "unused"
      BY DEF Observe, WaitRecord, Pending
    <3>3. QED BY <3>1, <3>2, ReceiverStatus DEF Quiet, Keeps
  <2>2. ASSUME NEW a \in Activation, Pending(a)', a \in disturbed'
        PROVE  act'[a].expected \in seated' /\ ~(act'[act'[a].expected].status = "active")
    <3>1. Pending(a) /\ act'[a].expected = act[a].expected
      BY <1>1, <1>4, <2>2 DEF SameTerms
    <3>2. CASE a \in disturbed
      <4>1. act[a].expected \in seated /\ ~Active(act[a].expected)
        BY <3>1, <3>2 DEF WaitRecord
      <4>2. act[a].expected \in Activation
        BY <4>1 DEF TypeOK
      <4>3. QED BY <1>1, <1>3, <3>1, <4>1, <4>2, ReceiverStatus
    <3>3. CASE a \notin disturbed
      <4>1. Seat' # Seat
        BY <2>2, <3>3 DEF Observe
      <4>2. act[a].expected = Seat
        BY <3>1, <3>3 DEF WaitRecord
      <4>3. Seat \in Activation /\ Active(Seat) /\ act'[Seat].status # "active"
        BY <1>6, <4>1
      <4>4. Seat \in seated
        BY <4>3 DEF SeatedRecord
      <4>5. QED BY <1>3, <3>1, <4>2, <4>3, <4>4
    <3>4. QED BY <3>2, <3>3
  <2>3. ASSUME NEW a \in Activation, Pending(a)', a \notin disturbed'
        PROVE  act'[a].expected = Seat'
    <3>1. Pending(a) /\ act'[a].expected = act[a].expected
      BY <1>1, <1>4, <2>3 DEF SameTerms
    <3>2. a \notin disturbed /\ Seat' = Seat
      BY <2>3, <3>1 DEF Observe
    <3>3. QED BY <3>1, <3>2 DEF WaitRecord
  <2>4. QED BY <2>1, <2>2, <2>3 DEF WaitRecord, Active
<1>8. MoveRecord'
  <2>1. ASSUME NEW a \in Activation, Pending(a)', act'[a].expected # None,
               act'[act'[a].expected].install # act'[a].install
        PROVE  act'[a].move # None
    <3>1. act[a].expected \in Activation \cup {None}
      BY DEF TypeOK
    <3>2. QED BY <1>1, <1>4, <2>1, <3>1 DEF SameTerms, MoveRecord
  <2>2. QED BY <2>1 DEF MoveRecord, Quiet, ChallengesKept
<1>9. VoidRecord'
  <2>1. ASSUME NEW a \in voided' \cap Activation PROVE act'[a].status \in Gone
    <3>1. CASE a \in voided
      BY <3>1 DEF VoidRecord, Quiet, Keeps, Closes, Gone, Active, Pending
    <3>2. CASE a \notin voided
      BY <3>2, SeatAssumption DEF Quiet, SeatAssumption
    <3>3. QED BY <3>1, <3>2
  <2>2. ASSUME NEW c \in voided' \cap Challenge PROVE ch'[c].consumed
    <3>1. c \notin Activation
      BY SeatAssumption DEF SeatAssumption
    <3>2. QED BY <3>1 DEF VoidRecord, Quiet, ChallengesKept
  <2>3. QED BY <2>1, <2>2 DEF VoidRecord, Gone
<1>10. NothingSurvivesRevocation'
  <2>1. ASSUME NEW a \in Activation, act'[a].status = "active", NEW v \in voided',
               v \in {a, act'[a].grant, act'[a].move}
        PROVE  FALSE
    <3>1. Active(a)
      BY <1>1, <2>1, ReceiverStatus
    <3>2. v \notin voided
      BY <1>4, <2>1, <3>1 DEF NothingSurvivesRevocation, SameTerms
    <3>3. CASE v = a
      BY <2>1, <3>2, <3>3, SeatAssumption DEF Quiet, Gone, SeatAssumption
    <3>4. CASE v # a
      <4>1. v \in {act[a].grant, act[a].move}
        BY <1>4, <2>1, <3>4 DEF SameTerms
      <4>2. v \in Challenge \/ v = None
        BY <4>1 DEF TypeOK
      <4>3. v # None /\ v \notin Activation
        BY <3>2, <4>2, SeatAssumption DEF Quiet, SeatAssumption
      <4>4. ch[v].consumed
        BY <3>1, <4>1, <4>3 DEF SeatedRecord
      <4>5. QED BY <3>2, <4>3, <4>4 DEF Quiet
    <3>5. QED BY <3>3, <3>4
  <2>2. QED BY <2>1 DEF NothingSurvivesRevocation, Active
<1>11. AuthorisationsSpentOnce'
  <2>1. \A a \in seated : act'[a].grant = act[a].grant /\ act'[a].move = act[a].move
    BY <1>4 DEF SameTerms, TypeOK
  <2>2. QED BY <1>3, <2>1 DEF AuthorisationsSpentOnce
<1>12. UndisturbedCommit'
  BY <1>1 DEF UndisturbedCommit, Observe, Active, Pending
<1>13. QED BY <1>2, <1>5, <1>7, <1>8, <1>9, <1>10, <1>11, <1>12

\* Steps that prepare an activation.
LEMMA PreparesInv ==
  ASSUME ReceiverInv, NEW a \in Activation, Prepares(a), Observe, TypeOK'
  PROVE  ReceiverInv'
<1> USE DEF ReceiverInv
<1>1. \A b \in Activation : Active(b)' <=> Active(b)
  BY ReceiverStatus DEF Prepares, Active, Pending
<1>2. \A b \in Activation : Pending(b)' <=> b = a
  BY ReceiverStatus DEF Prepares, Pending
<1>3. SeatInv'
  BY <1>1, <1>2 DEF SeatInv
<1>4. seated' = seated
  BY <1>1 DEF Observe, SeatedRecord
<1>5. \A b \in Activation \ {a} : SameTerms(b)
  BY DEF Prepares, Keeps, Closes
<1>6. a \notin seated /\ a \notin voided /\ a \notin disturbed
  BY DEF SeatedRecord, VoidRecord, WaitRecord, Prepares
<1>7. Seat' = Seat
  <2>1. CASE Seat \in Activation /\ Active(Seat)
    <3>1. act'[Seat].status = "active"
      BY <1>1, <2>1, ReceiverStatus
    <3>2. Seat' \in Activation /\ act'[Seat'].status = "active"
      BY <2>1, <3>1, SeatFacts
    <3>3. Active(Seat')
      BY <1>1, <3>2, ReceiverStatus
    <3>4. QED BY <2>1, <3>2, <3>3 DEF SeatInv
  <2>2. CASE Seat = None /\ \A b \in Activation : ~Active(b)
    BY <1>1, <2>2, SeatFacts, ReceiverStatus
  <2>3. QED BY <2>1, <2>2, SeatFacts
<1>8. disturbed' = disturbed
  BY <1>7 DEF Observe
<1>9. SeatedRecord'
  <2>1. ASSUME NEW b \in seated
        PROVE  /\ act'[b].status \in {"active", "replaced", "deactivated", "revoked"}
               /\ \A c \in {act'[b].grant, act'[b].move} \ {None} : ch'[c].consumed
    <3>1. b \in Activation \ {a}
      BY <1>6 DEF TypeOK
    <3>2. act'[b].status \in {"active", "replaced", "deactivated", "revoked"}
      BY <3>1 DEF Prepares, Keeps, Closes, Gone, SeatedRecord
    <3>3. QED BY <1>5, <3>1, <3>2 DEF SameTerms, SeatedRecord, Prepares
  <2>2. QED BY <1>1, <1>4, <2>1 DEF SeatedRecord
<1>10. WaitRecord'
  <2>1. ASSUME NEW b \in disturbed' PROVE act'[b].status # "unused"
    <3>1. b \in Activation \ {a} /\ act[b].status # "unused"
      BY <1>6, <1>8 DEF TypeOK, WaitRecord
    <3>2. QED BY <3>1, ReceiverStatus DEF Prepares, Keeps
  <2>2. act'[a].expected = Seat' /\ a \notin disturbed'
    BY <1>6, <1>7, <1>8 DEF Prepares
  <2>3. QED BY <1>2, <2>1, <2>2 DEF WaitRecord
<1>11. MoveRecord'
  <2>1. act'[a].move = None => Seat = None \/ act[Seat].install = act'[a].install
    BY DEF Prepares
  <2>2. Seat # None => Seat \in Activation \ {a}
    BY SeatFacts DEF Prepares, Active
  <2>3. act'[a].expected = Seat
    BY DEF Prepares
  <2>4. act'[a].expected # None /\ act'[act'[a].expected].install # act'[a].install
          => act'[a].move # None
    BY <1>5, <2>1, <2>2, <2>3 DEF SameTerms
  <2>5. ch' = ch
    BY DEF Prepares
  <2>6. QED BY <1>2, <2>4, <2>5 DEF MoveRecord
<1>12. VoidRecord'
  BY <1>6 DEF VoidRecord, Prepares, Keeps, Closes, Gone, Active, Pending
<1>13. NothingSurvivesRevocation'
  <2>1. ASSUME NEW b \in Activation, act'[b].status = "active"
        PROVE  voided \cap {b, act'[b].grant, act'[b].move} = {}
    <3>1. Active(b) /\ b # a
      BY <1>1, <1>2, <2>1, ReceiverStatus
    <3>2. QED BY <1>5, <3>1 DEF NothingSurvivesRevocation, SameTerms
  <2>2. QED BY <2>1 DEF NothingSurvivesRevocation, Prepares, Active
<1>14. AuthorisationsSpentOnce'
  <2>1. \A b \in seated : act'[b].grant = act[b].grant /\ act'[b].move = act[b].move
    BY <1>5, <1>6 DEF SameTerms, TypeOK
  <2>2. QED BY <1>4, <2>1 DEF AuthorisationsSpentOnce
<1>15. UndisturbedCommit'
  BY <1>1, <1>8 DEF UndisturbedCommit
<1>16. QED BY <1>3, <1>9, <1>10, <1>11, <1>12, <1>13, <1>14, <1>15

\* Steps that give the seat to an activation.
LEMMA TakesInv ==
  ASSUME ReceiverInv, NEW a \in Activation, Takes(a), Observe, TypeOK'
  PROVE  ReceiverInv'
<1> USE DEF ReceiverInv
<1>1. \A b \in Activation : Active(b)' <=> b = a
  BY ReceiverStatus DEF Takes, Active
<1>2. \A b \in Activation : ~Pending(b)'
  BY ReceiverStatus DEF Takes, Pending
<1>3. SeatInv'
  BY <1>1, <1>2 DEF SeatInv
<1>4. seated' = seated \cup {a} /\ disturbed' = disturbed
  BY <1>1, <1>2 DEF Observe
<1>5. \A b \in Activation \ {a} : SameTerms(b)
  BY DEF Takes, Keeps, Closes
<1>6. a \notin seated /\ a \notin voided
  BY DEF SeatedRecord, VoidRecord, Takes, Pending
<1>7. a \notin disturbed
  <2>1. CASE act[a].status = "unused"
    BY <2>1 DEF WaitRecord
  <2>2. CASE Pending(a) /\ act[a].expected = Seat
    <3>1. SUFFICES ASSUME a \in disturbed PROVE FALSE
      OBVIOUS
    <3>2. Seat \in seated /\ ~Active(Seat)
      BY <2>2, <3>1 DEF WaitRecord
    <3>3. Seat # None
      BY <3>2, SeatAssumption DEF TypeOK, SeatAssumption
    <3>4. QED BY <3>2, <3>3, SeatFacts
  <2>3. QED BY <2>1, <2>2 DEF Takes
<1>8. \A c \in {act'[a].grant, act'[a].move} \ {None} :
        c \in Challenge /\ ~ch[c].consumed /\ ch'[c].consumed
  BY DEF Takes
<1>9. ASSUME NEW b \in seated
      PROVE  /\ b \in Activation \ {a}
             /\ act'[b].grant = act[b].grant /\ act'[b].move = act[b].move
             /\ act[b].grant \in Challenge \cup {None} /\ act[b].move \in Challenge \cup {None}
             /\ \A c \in {act[b].grant, act[b].move} \ {None} : ch[c].consumed /\ ch'[c].consumed
  <2>1. b \in Activation \ {a}
    BY <1>6 DEF TypeOK
  <2>2. act[b].grant \in Challenge \cup {None} /\ act[b].move \in Challenge \cup {None}
    BY <2>1 DEF TypeOK
  <2>3. \A c \in {act[b].grant, act[b].move} \ {None} : ch[c].consumed
    BY DEF SeatedRecord
  <2>4. ChallengesKept
    BY DEF Takes
  <2>5. \A c \in {act[b].grant, act[b].move} \ {None} : ch'[c].consumed
    BY <2>2, <2>3, <2>4 DEF ChallengesKept
  <2>6. QED BY <1>5, <2>1, <2>2, <2>3, <2>5 DEF SameTerms
<1>10. SeatedRecord'
  <2>1. ASSUME NEW b \in seated
        PROVE  /\ act'[b].status \in {"active", "replaced", "deactivated", "revoked"}
               /\ \A c \in {act'[b].grant, act'[b].move} \ {None} : ch'[c].consumed
    <3>1. act'[b].status \in {"active", "replaced", "deactivated", "revoked"}
      BY <1>9, <2>1 DEF Takes, Keeps, Closes, Gone, SeatedRecord
    <3>2. QED BY <1>9, <2>1, <3>1
  <2>2. act'[a].status = "active"
    BY DEF Takes
  <2>3. QED BY <1>1, <1>4, <1>8, <2>1, <2>2 DEF SeatedRecord
<1>11. WaitRecord'
  <2>1. ASSUME NEW b \in disturbed' PROVE act'[b].status # "unused"
    <3>1. b \in Activation \ {a} /\ act[b].status # "unused"
      BY <1>4, <1>7 DEF TypeOK, WaitRecord
    <3>2. QED BY <3>1, ReceiverStatus DEF Takes, Keeps
  <2>2. QED BY <1>2, <2>1 DEF WaitRecord
<1>12. MoveRecord'
  BY <1>2 DEF MoveRecord, Takes, ChallengesKept
<1>13. VoidRecord'
  <2>1. voided' = voided
    BY DEF Takes
  <2>2. \A b \in voided \cap Activation : act'[b].status \in Gone
    BY <1>6 DEF VoidRecord, Takes, Keeps, Closes, Gone
  <2>3. \A c \in voided \cap Challenge : ch'[c].consumed
    BY DEF VoidRecord, Takes, ChallengesKept
  <2>4. QED BY <2>1, <2>2, <2>3 DEF VoidRecord, Gone
<1>14. NothingSurvivesRevocation'
  <2>1. ASSUME NEW v \in voided PROVE v \notin {a, act'[a].grant, act'[a].move}
    <3>1. v # a /\ v # None
      BY <1>6, SeatAssumption DEF TypeOK, SeatAssumption
    <3>2. v \in Challenge => ch[v].consumed
      BY DEF VoidRecord
    <3>3. QED BY <1>8, <3>1, <3>2
  <2>2. voided' = voided
    BY DEF Takes
  <2>3. QED BY <1>1, <2>1, <2>2 DEF NothingSurvivesRevocation
<1>15. AuthorisationsSpentOnce'
  <2>1. ASSUME NEW b \in seated
        PROVE  {act'[a].grant, act'[a].move} \cap {act'[b].grant, act'[b].move} \subseteq {None}
    BY <1>8, <1>9, <2>1
  <2>2. ASSUME NEW b \in seated, NEW d \in seated, b # d
        PROVE  {act'[b].grant, act'[b].move} \cap {act'[d].grant, act'[d].move} \subseteq {None}
    BY <1>9, <2>2 DEF AuthorisationsSpentOnce
  <2>3. QED BY <1>4, <2>1, <2>2 DEF AuthorisationsSpentOnce
<1>16. UndisturbedCommit'
  BY <1>1, <1>4, <1>7 DEF UndisturbedCommit
<1>17. QED BY <1>3, <1>10, <1>11, <1>12, <1>13, <1>14, <1>15, <1>16

\* Every step keeps the invariant: one proof for each part and shape.
LEMMA InvStep == ReceiverInv /\ [Next]_vars => ReceiverInv'
<1> SUFFICES ASSUME ReceiverInv, [Next]_vars PROVE ReceiverInv'
  OBVIOUS
<1>1. TypeOK'
  BY TypeStep DEF ReceiverInv
<1>2. CASE Next
  BY <1>1, <1>2, Shapes, QuietInv, PreparesInv, TakesInv DEF Next, ReceiverInv
<1>3. CASE UNCHANGED vars
  <2>1. Seat' = Seat
    BY <1>3 DEF vars, Seat, Active
  <2>2. QED BY <1>1, <1>3, <2>1 DEF vars, ReceiverInv, SeatInv, SeatedRecord, WaitRecord,
         MoveRecord, VoidRecord, NothingSurvivesRevocation, AuthorisationsSpentOnce,
         UndisturbedCommit, Active, Pending
<1>4. QED BY <1>2, <1>3

\* Every state has its type.
THEOREM TypeCorrect == Spec => []TypeOK
<1>1. ReceiverInv => TypeOK
  BY DEF ReceiverInv
<1>2. QED BY InvInit, InvStep, <1>1, PTL DEF Spec

\* The inductive invariant of the receiver seat.
THEOREM ReceiverHolds == Spec => []ReceiverInv
  BY InvInit, InvStep, PTL DEF Spec

\* One receiver and one preparation: the unique indexes never refuse a write.
THEOREM SeatHolds == Spec => []SeatInv
<1>1. ReceiverInv => SeatInv
  BY DEF ReceiverInv
<1>2. QED BY ReceiverHolds, <1>1, PTL

\* No credential prepared before a revocation, and no challenge an operator
\* voided, gets the seat.
THEOREM RevocationHolds == Spec => []NothingSurvivesRevocation
<1>1. ReceiverInv => NothingSurvivesRevocation
  BY DEF ReceiverInv
<1>2. QED BY ReceiverHolds, <1>1, PTL

\* A grant or move token seats one activation.
THEOREM SpentOnceHolds == Spec => []AuthorisationsSpentOnce
<1>1. ReceiverInv => AuthorisationsSpentOnce
  BY DEF ReceiverInv
<1>2. QED BY ReceiverHolds, <1>1, PTL

\* A preparation that saw the seat change never commits.
THEOREM UndisturbedHolds == Spec => []UndisturbedCommit
<1>1. ReceiverInv => UndisturbedCommit
  BY DEF ReceiverInv
<1>2. QED BY ReceiverHolds, <1>1, PTL

-----------------------------------------------------------------------------
(* Steps that seat an activation.                                          *)

\* A step that seats somebody is of no other shape.
LEMMA NobodySeated ==
  ASSUME NEW a \in Activation, Seats(a)
  PROVE  ~Quiet /\ \A b \in Activation : ~Prepares(b)
<1>1. ~Keeps(a) /\ ~Closes(a)
  BY ReceiverStatus DEF Seats
<1>2. \A b \in Activation : Prepares(b) => a # b
  BY ReceiverStatus DEF Prepares, Seats
<1>3. QED BY <1>1, <1>2 DEF Quiet, Prepares

\* The seat is taken by an activation prepared in the same step or by one that
\* commits, and then by itself.
LEMMA SeatedBy ==
  ASSUME ReceiverInv, Step, NEW a \in Activation, Seats(a)
  PROVE  \/ Commit(a)
         \/ \E i \in Install, g, m \in Challenge \cup {None} : Activate(i, g, m, a)
<1> USE DEF ReceiverInv
<1>1. ~Quiet /\ \A b \in Activation : ~Prepares(b)
  BY NobodySeated
<1>2. ~(Entitle \/ Tick \/ RevokeReceivers \/ OperatorInvalidate)
  <2>1. Entitle => Quiet
    BY DEF Entitle, Quiet, Keeps, SameTerms, ChallengesKept, MoveRecord
  <2>2. QED BY <1>1, <2>1, RevokeShape, TickShape
<1>3. ASSUME NEW b \in Activation, Takes(b) PROVE b = a
  BY <1>3, ReceiverStatus DEF Takes, Seats, Active
<1>4. \A b \in Activation : Commit(b) => b = a
  BY <1>3, CommitShape
<1>5. \A b \in Activation, i \in Install, g, m \in Challenge \cup {None} :
        Activate(i, g, m, b) => b = a
  BY <1>3, ActivateShape
<1>6. \A b \in Activation : ~Deactivate(b)
  BY <1>1, DeactivateShape
<1>7. \A c \in Challenge, i \in Install \cup {None} : ~CreateGrant(c, i)
  BY <1>1, GrantShape
<1>8. \A i \in Install, g \in Challenge \cup {None}, c \in Challenge : ~OfferMove(i, g, c)
  BY <1>1, OfferShape
<1>9. \A i \in Install, g, m \in Challenge \cup {None}, b \in Activation : ~Prepare(i, g, m, b)
  BY <1>1, PrepareShape
<1>10. QED BY <1>2, <1>4, <1>5, <1>6, <1>7, <1>8, <1>9 DEF Step

Moves(a, b) == Seats(a) /\ Active(b) /\ act[b].install # act[a]'.install

\* Who takes the seat from another has a valid token that names both.
LEMMA ConsentStep ==
  ASSUME ReceiverInv, Step, NEW a \in Activation, NEW b \in Activation, Moves(a, b)
  PROVE  LET m == act[a]'.move IN
         /\ m # None
         /\ Valid(m, "confirm_move")
         /\ ch[m].install = act[a]'.install
         /\ ch[m].subject = b
<1> USE DEF ReceiverInv
<1>1. Seat = b
  BY SeatFacts DEF SeatInv, Moves
<1>2. b \in Activation /\ b # None
  BY <1>1, SeatFacts DEF Moves
<1>3. CASE Commit(a)
  <2>1. act'[a] = [act[a] EXCEPT !.status = "active", !.left = 0]
    BY <1>3 DEF Commit
  <2>2. act'[a].move = act[a].move /\ act'[a].install = act[a].install
    BY <2>1 DEF TypeOK
  <2>3. Pending(a) /\ act[a].expected = b /\ StillAuthorised(a)
    BY <1>1, <1>3 DEF Commit, Committable, StillExpected
  <2>4. act[a].move # None
    BY <1>2, <2>2, <2>3 DEF MoveRecord, Moves
  <2>5. /\ Valid(act[a].move, "confirm_move")
        /\ ch[act[a].move].install \in {None, act[a].install}
        /\ ch[act[a].move].subject = b
    BY <2>3, <2>4 DEF StillAuthorised
  <2>6. act[a].move \in Challenge
    BY <2>4 DEF TypeOK
  <2>7. ch[act[a].move].install # None
    BY <2>5, <2>6 DEF MoveRecord, Valid
  <2>8. QED BY <2>2, <2>4, <2>5, <2>7
<1>4. ASSUME NEW i \in Install, NEW g \in Challenge \cup {None},
             NEW m \in Challenge \cup {None}, Activate(i, g, m, a)
      PROVE  /\ act[a]'.move # None
             /\ Valid(act[a]'.move, "confirm_move")
             /\ ch[act[a]'.move].install = act[a]'.install
             /\ ch[act[a]'.move].subject = b
  <2>1. act'[a].move = m /\ act'[a].install = i
    BY <1>4 DEF Activate, Prepared, TypeOK
  <2>2. Moving(i)
    BY <1>1, <1>2, <2>1 DEF Moving, Moves
  <2>3. QED BY <1>1, <1>4, <2>1, <2>2 DEF Activate, Confirmed
<1>5. QED BY <1>3, <1>4, SeatedBy DEF Moves

\* Who is seated by a grant has a valid one.
LEMMA GrantStep ==
  ASSUME ReceiverInv, Step, NEW a \in Activation, Seats(a), act'[a].grant # None
  PROVE  Valid(act'[a].grant, "activation_grant")
<1> USE DEF ReceiverInv
<1>1. CASE Commit(a)
  <2>1. act'[a] = [act[a] EXCEPT !.status = "active", !.left = 0]
    BY <1>1 DEF Commit
  <2>2. act'[a].grant = act[a].grant
    BY <2>1 DEF TypeOK
  <2>3. QED BY <1>1, <2>2 DEF Commit, StillAuthorised
<1>2. ASSUME NEW i \in Install, NEW g \in Challenge \cup {None},
             NEW m \in Challenge \cup {None}, Activate(i, g, m, a)
      PROVE  Valid(act'[a].grant, "activation_grant")
  <2>1. act'[a].grant = g
    BY <1>2 DEF Activate, Prepared, TypeOK
  <2>2. QED BY <1>2, <2>1 DEF Activate, Authorised
<1>3. QED BY <1>1, <1>2, SeatedBy

\* An installation takes another one's seat only with an open token of its own
\* that names the activation which loses it.
THEOREM ConsentHolds == Spec => MovedByConsent
<1>1. ReceiverInv /\ [Next]_vars =>
        [\A a, b \in Activation :
           Seats(a) /\ Active(b) /\ act[b].install # act[a]'.install =>
             LET m == act[a]'.move IN
             /\ m # None
             /\ Valid(m, "confirm_move")
             /\ ch[m].install = act[a]'.install
             /\ ch[m].subject = b]_vars
  BY ConsentStep DEF Next, Moves
<1>2. QED BY ReceiverHolds, <1>1, PTL DEF Spec, MovedByConsent

\* A grant is open when it seats an activation, not only when it was shown.
THEOREM OpenGrantHolds == Spec => SeatedOnOpenGrant
<1>1. ReceiverInv /\ [Next]_vars =>
        [\A a \in Activation : Seats(a) /\ act[a]'.grant # None =>
           Valid(act[a]'.grant, "activation_grant")]_vars
  BY GrantStep DEF Next
<1>2. QED BY ReceiverHolds, <1>1, PTL DEF Spec, SeatedOnOpenGrant

-----------------------------------------------------------------------------
(* The seat is handled as OneSeat says.                                    *)

\* The seat is empty at first, and nobody has held it.
LEMMA AbstractInit == Init => Abstract!Init
<1> SUFFICES ASSUME Init PROVE Abstract!Init
  OBVIOUS
<1>1. \A a \in Activation : ~Active(a)
  BY DEF Init, Active, Unused
<1>2. Seat = None
  BY <1>1, SeatFacts
<1>3. QED BY <1>2 DEF Init, Abstract!Init

\* A seating is the abstract step of taking the seat.
LEMMA AbstractTake ==
  ASSUME ReceiverInv, NEW a \in Activation, Takes(a), Observe
  PROVE  Abstract!Take(a)
<1> USE DEF ReceiverInv
<1>1. a \notin seated
  BY DEF SeatedRecord, Takes, Pending
<1>2. \A b \in Activation : act'[b].status = "active" <=> b = a
  BY ReceiverStatus DEF Takes, Active
<1>3. Seat' = a
  BY <1>2, SeatFacts
<1>4. seated' = seated \cup {a}
  BY <1>2, ReceiverStatus DEF Observe
<1>5. QED BY <1>1, <1>3, <1>4 DEF Abstract!Take

\* Any other step leaves the seat as it is, or empties it.
LEMMA AbstractQuiet ==
  ASSUME ReceiverInv, Observe, \A b \in Activation : ~Seats(b)
  PROVE  UNCHANGED <<Seat, seated>> \/ Abstract!Leave
<1> USE DEF ReceiverInv
<1>1. \A b \in Activation : act'[b].status = "active" => Active(b)
  BY ReceiverStatus DEF Seats
<1>2. seated' = seated
  BY <1>1, ReceiverStatus DEF Observe, SeatedRecord
<1>3. CASE Seat' = None
  BY <1>2, <1>3 DEF Abstract!Leave
<1>4. CASE Seat' # None
  <2>1. Seat' \in Activation /\ Active(Seat')
    <3>1. Seat' \in Activation /\ act'[Seat'].status = "active"
      BY <1>4, SeatFacts
    <3>2. QED BY <1>1, <3>1
  <2>2. Seat \in Activation /\ Active(Seat)
    BY <2>1, SeatFacts
  <2>3. QED BY <1>2, <2>1, <2>2 DEF SeatInv
<1>5. QED BY <1>3, <1>4

\* Every step is a step of OneSeat, or none.
LEMMA AbstractStep ==
  ReceiverInv /\ [Next]_vars => [Abstract!Next]_<<Seat, seated>>
<1> SUFFICES ASSUME ReceiverInv, [Next]_vars PROVE [Abstract!Next]_<<Seat, seated>>
  OBVIOUS
<1>1. CASE UNCHANGED vars
  BY <1>1 DEF vars, Seat, Active
<1>2. CASE Next
  <2>1. Step /\ Observe
    BY <1>2 DEF Next
  <2>2. CASE \E a \in Activation : Takes(a)
    BY <2>1, <2>2, AbstractTake DEF Abstract!Next
  <2>3. CASE Quiet \/ \E a \in Activation : Prepares(a)
    BY <2>1, <2>3, NobodySeated, AbstractQuiet DEF Abstract!Next
  <2>4. QED BY <2>1, <2>2, <2>3, Shapes DEF ReceiverInv
<1>3. QED BY <1>1, <1>2

\* The seat of the licence implements OneSeat: nobody holds it twice, and it
\* passes from a receiver to its successor in one step.
THEOREM OneSeatImplemented == Spec => ImplementsOneSeat
  BY AbstractInit, AbstractStep, ReceiverHolds, PTL
     DEF Spec, ImplementsOneSeat, Abstract!Spec, Abstract!vars

HIDE SeatAssumption
-----------------------------------------------------------------------------
(* ReceiverLink.                                                           *)

USE LinkAssumption
-----------------------------------------------------------------------------
(* The inductive invariant.                                                 *)

\* The requests of each actor.  An idle actor remembers nothing, the loop only
\* releases, and nothing survives the process.
JobsInPlace ==
    /\ \A a \in Actor : job[a].phase = "idle" => job[a] = Idle
    /\ ~up => job["wizard"] = Idle /\ job["loop"] = Idle
    /\ job["loop"].phase \in {"idle", "read", "release", "released"}
    /\ job["loop"].goal = Null
    /\ job["wizard"].phase \in {"check", "checked", "prepare", "prepared", "commit", "committed"}
       => job["wizard"].goal \in {Null, Relay}

\* The request that an actor carries through names a credential.
Phase == {"idle", "check", "checked", "prepare", "prepared", "commit", "committed",
          "undo", "undone", "begin", "keys", "keys_saved", "route", "route_saved",
          "read", "release", "released", "close"}
Carrying == {"check", "commit", "committed", "undo", "undone", "release", "released"}

\* A credential that an actor carries was issued; one that is being installed
\* is in the file unless the loop cleared it; and an answered release or
\* undoing has ended its receiver.
Carried ==
    \A a \in Actor :
      LET j == job[a] IN
      /\ j.phase \in Carrying => j.cred # Null
      /\ j.phase = "prepared" /\ j.answer = "ok" => j.cred # Null
      /\ j.cred # Null => receiver[j.cred] # "unissued"
      /\ j.phase \in {"commit", "committed"} => file \in {j.cred, Null}
      /\ j.phase \in {"undo", "undone"} /\ j.goal # "storage" => file \in {j.cred, Null}
      /\ j.phase = "committed" => j.answer \in {"ok", "refused", "limited", "lost"}
      /\ j.phase \in {"released", "undone"} /\ j.answer = "ok" => receiver[j.cred] = "over"

\* The steps of a change: what its phase says of the journal, of the route and
\* of the credential.
ChangeInOrder ==
    LET j == job["wizard"] IN
    /\ j.phase \in {"begin", "keys", "keys_saved", "route", "route_saved", "close"}
       => /\ j.goal \in Route
          /\ j.goal # Relay /\ j.cred = Null => file = Null
    /\ j.phase \in {"keys", "route", "close"} /\ ~j.changing
       => j.goal = route /\ (j.goal = Relay \/ j.cred = Null)
    /\ j.phase = "keys" => j.was \in Route
    /\ j.phase = "keys" /\ j.changing => journal = <<j.goal, "started">>
    /\ j.phase = "keys_saved" =>
         j.changing /\ j.was \in Route /\ journal = <<j.goal, "started">>
    /\ j.phase = "route" => j.was \in Route
    /\ j.phase = "route" /\ j.changing => journal = <<j.goal, "provider_saved">>
    /\ j.phase = "route_saved" =>
         j.changing /\ route = j.goal /\ journal = <<j.goal, "provider_saved">>
    /\ j.phase = "close" /\ j.changing => journal = <<j.goal, "route_saved">> /\ route = j.goal
    /\ j.phase \in {"read", "release", "released"} =>
         \/ j.goal = Null
         \/ /\ j.goal \in FreeRoute /\ j.changing
            /\ journal = <<j.goal, "route_saved">> /\ route = j.goal
    /\ j.phase = "close" /\ j.goal # Relay => file = Null \/ state = "release_pending"

\* Keys and route agree, and a journal that tells of new keys tells of these.
KeysSettled ==
    /\ keys = route
    /\ journal[2] \in {"provider_saved", "route_saved"} => journal[1] = route

\* Which of keys and route is ahead.
KeysInStep ==
    LET j == job["wizard"] IN
    ~torn =>
      /\ up /\ j.phase \notin {"keys_saved", "route"} => KeysSettled
      /\ up /\ j.phase \in {"keys_saved", "route"} => keys = j.goal /\ j.was = route
      /\ up /\ j.phase = "route" /\ ~j.changing => KeysSettled
      /\ up /\ j.phase = "keys" => j.was = keys
      /\ ~up => keys = IF journal[2] \in {"provider_saved", "route_saved"}
                       THEN journal[1] ELSE route

\* One receiver at most is in the seat.
OneReceiver ==
    \A c, d \in Credential :
      receiver[c] = "active" /\ receiver[d] = "active" => c = d

\* What is stored was issued.
FileIssued == file # Null => receiver[file] # "unissued"

\* The invariants of the receiver's link together.
LinkIInv ==
    /\ LinkTypeOK
    /\ JobsInPlace
    /\ Carried
    /\ ChangeInOrder
    /\ KeysInStep
    /\ OneReceiver
    /\ FileIssued
-----------------------------------------------------------------------------
(* What a step leaves of the requests.                                      *)

\* The request of actor a is r afterwards, and the other actor's is unchanged.
Now(a, r) ==
    /\ job' \in [Actor -> Job]
    /\ job'[a] = r
    /\ \A b \in Actor : b # a => job'[b] = job[b]

\* A request at phase p, with answer x.
Rec(p, c, x, g, w, d) ==
    [phase |-> p, cred |-> c, answer |-> x, goal |-> g, was |-> w, changing |-> d]
To(j, p) == Rec(p, j.cred, j.answer, j.goal, j.was, j.changing)
Told(j, p, x) == Rec(p, j.cred, x, j.goal, j.was, j.changing)

\* Each field of a request can be set on its own.
LEMMA SetPhase ==
    \A p, c, x, g, w, d, v :
      [Rec(p, c, x, g, w, d) EXCEPT !.phase = v] = Rec(v, c, x, g, w, d)
BY DEF Rec

\* The credential of a request.
LEMMA SetCred ==
    \A p, c, x, g, w, d, v :
      [Rec(p, c, x, g, w, d) EXCEPT !.cred = v] = Rec(p, v, x, g, w, d)
BY DEF Rec

\* Its answer.
LEMMA SetAnswer ==
    \A p, c, x, g, w, d, v :
      [Rec(p, c, x, g, w, d) EXCEPT !.answer = v] = Rec(p, c, v, g, w, d)
BY DEF Rec

\* Its goal.
LEMMA SetGoal ==
    \A p, c, x, g, w, d, v :
      [Rec(p, c, x, g, w, d) EXCEPT !.goal = v] = Rec(p, c, x, v, w, d)
BY DEF Rec

\* The route it found.
LEMMA SetWas ==
    \A p, c, x, g, w, d, v :
      [Rec(p, c, x, g, w, d) EXCEPT !.was = v] = Rec(p, c, x, g, v, d)
BY DEF Rec

\* Whether it changes the route.
LEMMA SetChanging ==
    \A p, c, x, g, w, d, v :
      [Rec(p, c, x, g, w, d) EXCEPT !.changing = v] = Rec(p, c, x, g, w, v)
BY DEF Rec

\* The phase and the answer of any request.
LEMMA JobFields ==
    ASSUME NEW j \in Job, NEW v
    PROVE  /\ [j EXCEPT !.phase = v] = Rec(v, j.cred, j.answer, j.goal, j.was, j.changing)
           /\ [j EXCEPT !.answer = v] = Rec(j.phase, j.cred, v, j.goal, j.was, j.changing)
BY DEF Job, Rec

\* An idle actor has a request of the right type.
LEMMA IdleJob == Idle \in Job
BY DEF Idle, Job

\* The updates the steps make.
LEMMA SetStart ==
    ASSUME NEW j \in Job, NEW p, NEW c, NEW g
    PROVE  [j EXCEPT !.phase = p, !.cred = c, !.goal = g]
             = Rec(p, c, j.answer, g, j.was, j.changing)
<1>1. [j EXCEPT !.phase = p] = To(j, p)
  BY JobFields DEF To
<1>2. [To(j, p) EXCEPT !.cred = c] = Rec(p, c, j.answer, j.goal, j.was, j.changing)
  BY SetCred DEF To
<1>3. [Rec(p, c, j.answer, j.goal, j.was, j.changing) EXCEPT !.goal = g]
        = Rec(p, c, j.answer, g, j.was, j.changing)
  BY SetGoal
<1>. QED  BY <1>1, <1>2, <1>3

\* A request turns to undoing.
LEMMA SetUndo ==
    ASSUME NEW j \in Job, NEW p, NEW g
    PROVE  [j EXCEPT !.phase = p, !.goal = g] = Rec(p, j.cred, j.answer, g, j.was, j.changing)
<1>1. [j EXCEPT !.phase = p] = To(j, p)
  BY JobFields DEF To
<1>2. [To(j, p) EXCEPT !.goal = g] = Rec(p, j.cred, j.answer, g, j.was, j.changing)
  BY SetGoal DEF To
<1>. QED  BY <1>1, <1>2

\* A request turns to a release.
LEMMA SetRelease ==
    ASSUME NEW j \in Job, NEW p, NEW c
    PROVE  [j EXCEPT !.phase = p, !.cred = c] = Rec(p, c, j.answer, j.goal, j.was, j.changing)
<1>1. [j EXCEPT !.phase = p] = To(j, p)
  BY JobFields DEF To
<1>2. [To(j, p) EXCEPT !.cred = c] = Rec(p, c, j.answer, j.goal, j.was, j.changing)
  BY SetCred DEF To
<1>. QED  BY <1>1, <1>2

\* A preparation is answered.
LEMMA SetPrepared ==
    ASSUME NEW j \in Job, NEW p, NEW c, NEW x
    PROVE  [j EXCEPT !.phase = p, !.cred = c, !.answer = x]
             = Rec(p, c, x, j.goal, j.was, j.changing)
<1>1. [j EXCEPT !.phase = p, !.cred = c] = Rec(p, c, j.answer, j.goal, j.was, j.changing)
  BY SetRelease
<1>2. [Rec(p, c, j.answer, j.goal, j.was, j.changing) EXCEPT !.answer = x]
        = Rec(p, c, x, j.goal, j.was, j.changing)
  BY SetAnswer
<1>. QED  BY <1>1, <1>2

\* A change finds its route.
LEMMA SetKeys ==
    ASSUME NEW j \in Job, NEW p, NEW w, NEW d
    PROVE  [j EXCEPT !.phase = p, !.was = w, !.changing = d]
             = Rec(p, j.cred, j.answer, j.goal, w, d)
<1>1. [j EXCEPT !.phase = p] = To(j, p)
  BY JobFields DEF To
<1>2. [To(j, p) EXCEPT !.was = w] = Rec(p, j.cred, j.answer, j.goal, w, j.changing)
  BY SetWas DEF To
<1>3. [Rec(p, j.cred, j.answer, j.goal, w, j.changing) EXCEPT !.changing = d]
        = Rec(p, j.cred, j.answer, j.goal, w, d)
  BY SetChanging
<1>. QED  BY <1>1, <1>2, <1>3

\* An actor's request is replaced as a whole.
LEMMA NowSet ==
    ASSUME LinkTypeOK, NEW a \in Actor, NEW r \in Job, job' = [job EXCEPT ![a] = r]
    PROVE  Now(a, r)
BY DEF Now, LinkTypeOK

\* An actor's request ends.
LEMMA NowIdle ==
    ASSUME LinkTypeOK, NEW a \in Actor, Stop(a)
    PROVE  Now(a, Idle)
BY NowSet, Idle \in Job DEF Stop, Idle, Job

\* An actor's request goes on to another phase.
LEMMA NowAt ==
    ASSUME LinkTypeOK, NEW a \in Actor, NEW p \in Phase, Go(a, p)
    PROVE  Now(a, To(job[a], p))
<1>. DEFINE j == job[a]
<1>1. j \in Job
  BY DEF LinkTypeOK
<1>2. To(j, p) \in Job
  BY <1>1 DEF To, Rec, Job, Phase
<1>3. [j EXCEPT !.phase = p] = To(j, p)
  BY <1>1, JobFields DEF To
<1>4. job' = [job EXCEPT ![a] = To(j, p)]
  BY <1>3 DEF Go
<1>. QED  BY <1>2, <1>4, NowSet

\* An actor is told an answer.
LEMMA NowTold ==
    ASSUME LinkTypeOK, NEW a \in Actor, NEW p \in Phase, NEW x \in {"ok", "refused", "limited", "lost"},
           job' = [job EXCEPT ![a].phase = p, ![a].answer = x]
    PROVE  Now(a, Told(job[a], p, x))
<1>. DEFINE j == job[a]
<1>1. j \in Job
  BY DEF LinkTypeOK
<1>2. Told(j, p, x) \in Job
  BY <1>1 DEF Told, Rec, Job, Phase
<1>3. [j EXCEPT !.phase = p, !.answer = x] = Told(j, p, x)
  <2>1. [j EXCEPT !.phase = p] = To(j, p)
    BY <1>1, JobFields DEF To
  <2>2. [To(j, p) EXCEPT !.answer = x] = Told(j, p, x)
    BY SetAnswer DEF To, Told
  <2>. QED  BY <2>1, <2>2
<1>4. job' = [job EXCEPT ![a] = Told(j, p, x)]
  BY <1>1, <1>3 DEF LinkTypeOK
<1>. QED  BY <1>2, <1>4, NowSet

\* A request carried out in one step and answered in another: the relay did what
\* it was asked or nothing, and the actor is told so, told nothing, or told to wait.
LEMMA RequestAnswered ==
    ASSUME LinkTypeOK, NEW a \in Actor, NEW p \in Phase, NEW after, NEW answer \in {"ok", "refused"},
           Served(a, p, after, answer)
    PROVE  /\ \E x \in {answer, "limited", "lost"} :
                Now(a, Told(job[a], p, x)) /\ (x = answer => receiver' = after)
           /\ receiver' \in {after, receiver}
           /\ UNCHANGED <<deviceVars, up, torn, crashes>>
           /\ faults' \in 0..MaxFaults
<1>1. PICK x \in {answer, "limited", "lost"} :
        /\ job' = [job EXCEPT ![a].phase = p, ![a].answer = x]
        /\ x = answer => receiver' = after
  BY DEF Served
<1>2. Now(a, Told(job[a], p, x))
  BY <1>1, NowTold
<1>. QED  BY <1>1, <1>2 DEF Served, Fault, NoFault, LinkTypeOK

-----------------------------------------------------------------------------
(* What a step does to the receivers.                                       *)

\* A credential that was issued stays so, and a receiver that is over stays over.
Onward ==
    /\ receiver' \in [Credential -> {"unissued", "pending", "active", "over"}]
    /\ \A c \in Credential :
         /\ receiver[c] # "unissued" => receiver'[c] # "unissued"
         /\ receiver[c] = "over" => receiver'[c] = "over"

\* The seat goes to the receiver that is committed.
Seated(c) ==
    [d \in Credential |->
       IF d = c THEN "active" ELSE IF receiver[d] = "active" THEN "over" ELSE receiver[d]]

\* A receiver that ends never comes back.
LEMMA OverOnward ==
    ASSUME LinkTypeOK, NEW c \in Credential, receiver' = Over(c)
    PROVE  /\ Onward
           /\ receiver[c] # "unissued" => receiver'[c] = "over"
           /\ \A d \in Credential : receiver'[d] = "active" => receiver[d] = "active"
BY DEF Over, LinkTypeOK, Onward

\* A receiver that takes the seat ends the others.
LEMMA SeatedOnward ==
    ASSUME LinkTypeOK, NEW c \in Credential, receiver[c] \in {"pending", "active"},
           receiver' = Seated(c)
    PROVE  /\ Onward
           /\ \A d \in Credential : receiver'[d] = "active" => d = c
BY DEF Seated, LinkTypeOK, Onward

\* After a release a change goes on to its end, and everything else stops.
LEMMA ReleaseEnds ==
    ASSUME LinkTypeOK, NEW a \in Actor, job' = [job EXCEPT ![a] = Ended(a)]
    PROVE  Now(a, IF job[a].goal \in FreeRoute THEN To(job[a], "close") ELSE Idle)
<1>. DEFINE j == job[a]
<1>1. j \in Job
  BY DEF LinkTypeOK
<1>2. [j EXCEPT !.phase = "close"] = To(j, "close") /\ To(j, "close") \in Job
  BY <1>1, JobFields DEF To, Rec, Job
<1>3. Ended(a) = IF j.goal \in FreeRoute THEN To(j, "close") ELSE Idle
  BY <1>2 DEF Ended, AfterRelease
<1>. QED  BY <1>2, <1>3, NowSet, IdleJob

\* A relay that does nothing moves no receiver back.
LEMMA SameOnward ==
    ASSUME LinkTypeOK, receiver' = receiver
    PROVE  Onward
BY DEF LinkTypeOK, Onward

\* The wizard starts to check its credential.
LEMMA StartCheckKeeps ==
    ASSUME LinkIInv, NEW goal \in {Null, Relay}, StartCheck(goal)
    PROVE  LinkIInv'
<1>. DEFINE j == job["wizard"]
<1>1. /\ up /\ j.phase = "idle" /\ file # Null
      /\ Now("wizard", Rec("check", file, Idle.answer, goal, Idle.was, Idle.changing))
      /\ UNCHANGED <<receiver, deviceVars, up, torn, boundVars>>
  <2>. DEFINE r == Rec("check", file, Idle.answer, goal, Idle.was, Idle.changing)
  <2>1. r \in Job
    BY DEF StartCheck, LinkIInv, LinkTypeOK, Rec, Job, Idle, Route
  <2>2. [Idle EXCEPT !.phase = "check", !.cred = file, !.goal = goal] = r
    BY IdleJob, SetStart
  <2>3. Now("wizard", r)
    BY <2>1, <2>2, NowSet DEF StartCheck, LinkIInv, Actor
  <2>. QED  BY <2>3 DEF StartCheck, At
<1>2. LinkTypeOK'
  BY <1>1 DEF LinkIInv, LinkTypeOK, Now, deviceVars, boundVars, Route
<1>3. JobsInPlace'
  BY <1>1 DEF LinkIInv, JobsInPlace, Now, Actor, Rec, Idle
<1>4. Carried'
  BY <1>1 DEF LinkIInv, Carried, FileIssued, Now, Actor, Rec, Idle, deviceVars
<1>5. ChangeInOrder'
  BY <1>1 DEF ChangeInOrder, Now, Rec, Idle
<1>6. KeysInStep'
  BY <1>1 DEF LinkIInv, KeysInStep, KeysSettled, Now, Rec, Idle, deviceVars
<1>7. OneReceiver'
  BY <1>1 DEF LinkIInv, OneReceiver
<1>8. FileIssued'
  BY <1>1 DEF LinkIInv, FileIssued, deviceVars
<1>. QED  BY <1>2, <1>3, <1>4, <1>5, <1>6, <1>7, <1>8 DEF LinkIInv

\* The wizard starts an activation.
LEMMA StartActivateKeeps ==
    ASSUME LinkIInv, StartActivate
    PROVE  LinkIInv'
<1>. DEFINE j == job["wizard"]
<1>1. /\ up /\ j = Idle
      /\ Now("wizard", To(Idle, "prepare"))
      /\ UNCHANGED <<receiver, deviceVars, up, torn, boundVars>>
  BY "wizard" \in Actor, "loop" \in Actor, NowAt
  DEF StartActivate, At, Go, Stop, deviceVars, boundVars, Actor, LinkIInv, LinkTypeOK,
      JobsInPlace, Phase, Job, Idle, To, Told
<1>2. LinkTypeOK'
  BY <1>1 DEF LinkIInv, LinkTypeOK, Now, deviceVars, boundVars, Route
<1>3. JobsInPlace'
  BY <1>1 DEF LinkIInv, JobsInPlace, Now, Actor, To, Rec, Idle
<1>4. Carried'
  BY <1>1 DEF LinkIInv, Carried, Carrying, Now, To, Rec, Idle, deviceVars
<1>5. ChangeInOrder'
  BY <1>1 DEF ChangeInOrder, Now, To, Rec
<1>6. KeysInStep'
  BY <1>1 DEF LinkIInv, KeysInStep, KeysSettled, Now, To, Rec, Idle, deviceVars
<1>7. OneReceiver'
  BY <1>1 DEF LinkIInv, OneReceiver
<1>8. FileIssued'
  BY <1>1 DEF LinkIInv, FileIssued, deviceVars
<1>. QED  BY <1>2, <1>3, <1>4, <1>5, <1>6, <1>7, <1>8 DEF LinkIInv

\* The wizard starts a release.
LEMMA StartReleaseKeeps ==
    ASSUME LinkIInv, StartRelease
    PROVE  LinkIInv'
<1>. DEFINE j == job["wizard"]
<1>1. /\ up /\ j = Idle
      /\ Now("wizard", To(Idle, "read"))
      /\ UNCHANGED <<receiver, deviceVars, up, torn, boundVars>>
  BY "wizard" \in Actor, "loop" \in Actor, NowAt
  DEF StartRelease, At, Go, Stop, deviceVars, boundVars, Actor, LinkIInv, LinkTypeOK,
      JobsInPlace, Phase, Job, Idle, To, Told
<1>2. LinkTypeOK'
  BY <1>1 DEF LinkIInv, LinkTypeOK, Now, deviceVars, boundVars, Route
<1>3. JobsInPlace'
  BY <1>1 DEF LinkIInv, JobsInPlace, Now, Actor, To, Rec, Idle
<1>4. Carried'
  BY <1>1 DEF LinkIInv, Carried, Carrying, Now, To, Rec, Idle, deviceVars
<1>5. ChangeInOrder'
  BY <1>1 DEF ChangeInOrder, Now, To, Rec, Idle, deviceVars, Route
<1>6. KeysInStep'
  BY <1>1 DEF LinkIInv, KeysInStep, KeysSettled, Now, To, Rec, Idle, deviceVars
<1>7. OneReceiver'
  BY <1>1 DEF LinkIInv, OneReceiver
<1>8. FileIssued'
  BY <1>1 DEF LinkIInv, FileIssued, deviceVars
<1>. QED  BY <1>2, <1>3, <1>4, <1>5, <1>6, <1>7, <1>8 DEF LinkIInv

\* The wizard starts a change to a free route.
LEMMA StartFreeKeeps ==
    ASSUME LinkIInv, NEW target \in FreeRoute, StartFree(target)
    PROVE  LinkIInv'
<1>. DEFINE j == job["wizard"]
<1>1. /\ up /\ j.phase = "idle"
      /\ Now("wizard", Rec("begin", file, Idle.answer, target, Idle.was, Idle.changing))
      /\ UNCHANGED <<receiver, deviceVars, up, torn, boundVars>>
  <2>. DEFINE r == Rec("begin", file, Idle.answer, target, Idle.was, Idle.changing)
  <2>1. r \in Job
    BY DEF StartFree, LinkIInv, LinkTypeOK, Rec, Job, Idle, Route
  <2>2. [Idle EXCEPT !.phase = "begin", !.cred = file, !.goal = target] = r
    BY IdleJob, SetStart
  <2>3. Now("wizard", r)
    BY <2>1, <2>2, NowSet DEF StartFree, LinkIInv, Actor
  <2>. QED  BY <2>3 DEF StartFree, At
<1>2. LinkTypeOK'
  BY <1>1 DEF LinkIInv, LinkTypeOK, Now, deviceVars, boundVars, Route
<1>3. JobsInPlace'
  BY <1>1 DEF LinkIInv, JobsInPlace, Now, Actor, Rec, Idle
<1>4. Carried'
  BY <1>1 DEF LinkIInv, Carried, FileIssued, Carrying, Now, Actor, Rec, Idle, deviceVars
<1>5. ChangeInOrder'
  BY <1>1 DEF ChangeInOrder, Now, Rec, Idle, deviceVars, Route
<1>6. KeysInStep'
  BY <1>1 DEF LinkIInv, KeysInStep, KeysSettled, Now, Rec, Idle, deviceVars
<1>7. OneReceiver'
  BY <1>1 DEF LinkIInv, OneReceiver
<1>8. FileIssued'
  BY <1>1 DEF LinkIInv, FileIssued, deviceVars
<1>. QED  BY <1>2, <1>3, <1>4, <1>5, <1>6, <1>7, <1>8 DEF LinkIInv

\* The relay checks the receiver, or the request or its answer is lost.
LEMMA RelayChecksKeeps ==
    ASSUME LinkIInv, RelayChecks
    PROVE  LinkIInv'
<1>. DEFINE j == job["wizard"]
<1>1. /\ up /\ j.phase = "check"
      /\ \E x \in {"ok", "refused", "limited", "lost"} : Now("wizard", Told(j, "checked", x))
      /\ UNCHANGED <<receiver, deviceVars, up, torn, crashes>>
      /\ faults' \in 0..MaxFaults
  <2>1. \E answer \in {"ok", "refused"} : Served("wizard", "checked", receiver, answer)
    BY DEF RelayChecks
  <2>. QED  BY <2>1, RequestAnswered DEF RelayChecks, At, LinkIInv, Actor, Phase
<1>2. LinkTypeOK'
  BY <1>1 DEF LinkIInv, LinkTypeOK, Now, deviceVars, Route, Actor, Job
<1>3. JobsInPlace'
  BY <1>1 DEF LinkIInv, JobsInPlace, Now, Actor, Told, Rec, Idle
<1>4. Carried'
  BY <1>1 DEF LinkIInv, Carried, Carrying, Now, Told, Rec, deviceVars, Job
<1>5. ChangeInOrder'
  BY <1>1 DEF ChangeInOrder, Now, Told, Rec
<1>6. KeysInStep'
  BY <1>1 DEF LinkIInv, KeysInStep, KeysSettled, Now, Told, Rec, deviceVars
<1>7. OneReceiver'
  BY <1>1 DEF LinkIInv, OneReceiver
<1>8. FileIssued'
  BY <1>1 DEF LinkIInv, FileIssued, deviceVars
<1>. QED  BY <1>2, <1>3, <1>4, <1>5, <1>6, <1>7, <1>8 DEF LinkIInv

\* The wizard takes the answer to a check.
LEMMA CheckedKeeps ==
    ASSUME LinkIInv, Checked
    PROVE  LinkIInv'
<1>. DEFINE j == job["wizard"]
<1>1. /\ up /\ j.phase = "checked"
      /\ state' \in {"active", "inactive", "unreachable", "release_pending"}
      /\ \/ Now("wizard", To(j, "begin")) /\ j.goal # Null
         \/ Now("wizard", Idle)
      /\ UNCHANGED <<receiver, file, held, route, keys, journal, up, torn, boundVars>>
  BY "wizard" \in Actor, "loop" \in Actor, NowAt, NowIdle
  DEF Checked, At, Go, Stop, deviceVars, boundVars, Actor, LinkIInv, LinkTypeOK,
      JobsInPlace, Phase, Job, Idle, To, Told, Rec, Carried, Carrying, Failed, Shown
<1>2. LinkTypeOK'
  BY <1>1 DEF LinkIInv, LinkTypeOK, Now, boundVars, Route, Actor, Job
<1>3. JobsInPlace'
  BY <1>1 DEF LinkIInv, JobsInPlace, Now, Actor, To, Rec, Idle
<1>4. Carried'
  BY <1>1 DEF LinkIInv, Carried, Carrying, Now, To, Rec, Idle, Job
<1>5. ChangeInOrder'
  BY <1>1 DEF LinkIInv, JobsInPlace, ChangeInOrder, Now, To, Rec, Idle, Route
<1>6. KeysInStep'
  BY <1>1 DEF LinkIInv, KeysInStep, KeysSettled, Now, To, Rec, Idle
<1>7. OneReceiver'
  BY <1>1 DEF LinkIInv, OneReceiver
<1>8. FileIssued'
  BY <1>1 DEF LinkIInv, FileIssued, deviceVars
<1>. QED  BY <1>2, <1>3, <1>4, <1>5, <1>6, <1>7, <1>8 DEF LinkIInv

\* The relay prepares a receiver it had not issued, or refuses.
LEMMA RelayPreparesKeeps ==
    ASSUME LinkIInv, RelayPrepares
    PROVE  LinkIInv'
<1>. DEFINE j == job["wizard"]
<1>1. /\ up /\ j.phase = "prepare"
      /\ Onward
      /\ \A d \in Credential : receiver'[d] = "active" => receiver[d] = "active"
      /\ \E c, x :
           /\ Now("wizard", Rec("prepared", c, x, j.goal, j.was, j.changing))
           /\ x = "ok" => c \in Credential /\ receiver'[c] # "unissued"
           /\ x # "ok" => c = j.cred
      /\ UNCHANGED <<deviceVars, up, torn, crashes>>
      /\ faults' \in 0..MaxFaults
  <2>1. CASE Served("wizard", "prepared", receiver, "refused")
    BY <2>1, RequestAnswered, SameOnward
    DEF RelayPrepares, At, LinkIInv, Actor, Phase, Told
  <2>2. CASE ~Served("wizard", "prepared", receiver, "refused")
    <3>1. PICK c \in Credential :
            /\ receiver[c] = "unissued"
            /\ receiver' = [d \in Credential |->
                 IF d = c THEN "pending"
                 ELSE IF receiver[d] = "pending" THEN "over" ELSE receiver[d]]
            /\ \/ job' = [job EXCEPT !["wizard"].phase = "prepared",
                            !["wizard"].cred = c, !["wizard"].answer = "ok"]
               \/ job' = [job EXCEPT !["wizard"].phase = "prepared",
                            !["wizard"].answer = "lost"]
            /\ UNCHANGED <<deviceVars, up, torn, crashes>>
            /\ NoFault \/ Fault
      BY <2>2 DEF RelayPrepares
    <3>1b. faults' \in 0..MaxFaults
      BY <3>1 DEF Fault, NoFault, LinkIInv, LinkTypeOK
    <3>1a. /\ Onward /\ receiver'[c] # "unissued"
           /\ \A d \in Credential : receiver'[d] = "active" => receiver[d] = "active"
      BY <3>1 DEF Onward, LinkIInv, LinkTypeOK
    <3>. DEFINE r == Rec("prepared", c, "ok", j.goal, j.was, j.changing)
    <3>2. j \in Job /\ r \in Job
      BY DEF LinkIInv, LinkTypeOK, Actor, Rec, Job
    <3>3. [j EXCEPT !.phase = "prepared", !.cred = c, !.answer = "ok"] = r
      BY <3>2, SetPrepared
    <3>4. CASE job' = [job EXCEPT !["wizard"].phase = "prepared",
                         !["wizard"].cred = c, !["wizard"].answer = "ok"]
      <4>1. job' = [job EXCEPT !["wizard"] = r]
        BY <3>3, <3>4 DEF LinkIInv, LinkTypeOK
      <4>2. Now("wizard", r)
        BY <3>2, <4>1, NowSet DEF LinkIInv, Actor
      <4>. QED  BY <3>1, <3>1a, <3>1b, <4>2 DEF RelayPrepares, At
    <3>5. CASE job' = [job EXCEPT !["wizard"].phase = "prepared",
                         !["wizard"].answer = "lost"]
      <4>1. Now("wizard", Told(j, "prepared", "lost"))
        BY <3>5, NowTold DEF LinkIInv, Actor, Phase
      <4>2. Now("wizard", Rec("prepared", j.cred, "lost", j.goal, j.was, j.changing))
        BY <4>1 DEF Told
      <4>3. up /\ j.phase = "prepare"
        BY DEF RelayPrepares, At
      <4>. QED  BY <3>1, <3>1a, <3>1b, <4>2, <4>3
    <3>. QED  BY <3>1, <3>4, <3>5
  <2>. QED  BY <2>1, <2>2
<1>1a. PICK c, x :
        /\ Now("wizard", Rec("prepared", c, x, j.goal, j.was, j.changing))
        /\ x = "ok" => c \in Credential /\ receiver'[c] # "unissued"
        /\ x # "ok" => c = j.cred
  BY <1>1
<1>2. LinkTypeOK'
  BY <1>1, <1>1a DEF LinkIInv, LinkTypeOK, Now, deviceVars, Onward
<1>3. JobsInPlace'
  BY <1>1, <1>1a DEF LinkIInv, JobsInPlace, Now, Actor, Rec, Idle
<1>4. Carried'
  BY <1>1, <1>1a DEF LinkIInv, Carried, Carrying, Now, Rec, deviceVars, Onward, Job
<1>5. ChangeInOrder'
  BY <1>1, <1>1a DEF LinkIInv, ChangeInOrder, Now, Actor, Rec, deviceVars, Route
<1>6. KeysInStep'
  BY <1>1, <1>1a DEF LinkIInv, KeysInStep, KeysSettled, Now, Actor, Rec, deviceVars
<1>7. OneReceiver'
  BY <1>1, <1>1a DEF LinkIInv, OneReceiver
<1>8. FileIssued'
  BY <1>1, <1>1a DEF LinkIInv, LinkTypeOK, FileIssued, Actor, deviceVars, Onward
<1>. QED  BY <1>2, <1>3, <1>4, <1>5, <1>6, <1>7, <1>8 DEF LinkIInv

\* The wizard takes the refusal of a preparation.
LEMMA PrepareFailedKeeps ==
    ASSUME LinkIInv, PrepareFailed
    PROVE  LinkIInv'
<1>. DEFINE j == job["wizard"]
<1>1. /\ up /\ j.phase = "prepared"
      /\ state' \in {state, "inactive", "unreachable", "release_pending"}
      /\ Now("wizard", Idle)
      /\ UNCHANGED <<receiver, file, held, route, keys, journal, up, torn, boundVars>>
  BY "wizard" \in Actor, "loop" \in Actor, NowIdle
  DEF PrepareFailed, At, Actor, LinkIInv, Carrying, Failed, Shown, Route
<1>2. LinkTypeOK'
  BY <1>1 DEF LinkIInv, LinkTypeOK, Now, boundVars, Route, Actor, Job
<1>3. JobsInPlace'
  BY <1>1 DEF LinkIInv, JobsInPlace, Now, Actor, Idle
<1>4. Carried'
  BY <1>1 DEF LinkIInv, Carried, Carrying, Now, Actor, Idle, Job
<1>5. ChangeInOrder'
  BY <1>1 DEF LinkIInv, ChangeInOrder, Now, Actor, Idle, Route
<1>6. KeysInStep'
  BY <1>1 DEF LinkIInv, KeysInStep, KeysSettled, Now, Actor, Idle
<1>7. OneReceiver'
  BY <1>1 DEF LinkIInv, OneReceiver
<1>8. FileIssued'
  BY <1>1 DEF LinkIInv, FileIssued, deviceVars
<1>. QED  BY <1>2, <1>3, <1>4, <1>5, <1>6, <1>7, <1>8 DEF LinkIInv

\* The new credential is written to the file.
LEMMA StoreKeeps ==
    ASSUME LinkIInv, Store
    PROVE  LinkIInv'
<1>. DEFINE j == job["wizard"]
<1>1. /\ up /\ j.phase = "prepared" /\ j.answer = "ok"
      /\ file' = j.cred
      /\ Now("wizard", To(j, "commit"))
      /\ UNCHANGED <<receiver, state, held, route, keys, journal, up, torn, boundVars>>
  BY "wizard" \in Actor, "loop" \in Actor, NowAt
  DEF Store, At, Go, Stop, deviceVars, boundVars, Actor, LinkIInv, LinkTypeOK, JobsInPlace,
      Phase, Job, Idle, To, Told
<1>2. LinkTypeOK'
  BY <1>1 DEF LinkIInv, LinkTypeOK, Now, boundVars, Route, Actor, Job
<1>3. JobsInPlace'
  BY <1>1 DEF LinkIInv, JobsInPlace, Now, Actor, To, Rec, Idle
<1>4. Carried'
  BY <1>1 DEF LinkIInv, LinkTypeOK, JobsInPlace, Carried, Now, Actor, To, Rec
<1>5. ChangeInOrder'
  BY <1>1 DEF LinkIInv, ChangeInOrder, Now, Actor, To, Rec, Route
<1>6. KeysInStep'
  BY <1>1 DEF LinkIInv, KeysInStep, KeysSettled, Now, Actor, To, Rec
<1>7. OneReceiver'
  BY <1>1 DEF LinkIInv, OneReceiver
<1>8. FileIssued'
  BY <1>1 DEF LinkIInv, LinkTypeOK, FileIssued, Carried, Actor, deviceVars, Onward
<1>. QED  BY <1>2, <1>3, <1>4, <1>5, <1>6, <1>7, <1>8 DEF LinkIInv

\* The file cannot be written: the preparation is undone.
LEMMA StoreFailsKeeps ==
    ASSUME LinkIInv, StoreFails
    PROVE  LinkIInv'
<1>. DEFINE j == job["wizard"]
<1>1. /\ up /\ j.phase = "prepared" /\ j.answer = "ok"
      /\ file' = Null /\ state' = "none" /\ held' = FALSE
      /\ Now("wizard", Rec("undo", j.cred, j.answer, "storage", j.was, j.changing))
      /\ UNCHANGED <<receiver, route, keys, journal, up, torn, crashes>>
      /\ faults' \in 0..MaxFaults
  <2>. DEFINE r == Rec("undo", j.cred, j.answer, "storage", j.was, j.changing)
  <2>1. j \in Job
    BY DEF LinkIInv, LinkTypeOK, Actor
  <2>2. r \in Job
    BY <2>1 DEF Rec, Job
  <2>3. [j EXCEPT !.phase = "undo", !.goal = "storage"] = r
    BY <2>1, SetUndo
  <2>4. job' = [job EXCEPT !["wizard"] = r]
    BY <2>3 DEF StoreFails, LinkIInv, LinkTypeOK
  <2>5. Now("wizard", r)
    BY <2>2, <2>4, NowSet DEF LinkIInv, Actor
  <2>. QED  BY <2>5 DEF StoreFails, At, Fault, LinkIInv, LinkTypeOK
<1>2. LinkTypeOK'
  BY <1>1 DEF LinkIInv, LinkTypeOK, Now, Route, Actor, Job
<1>3. JobsInPlace'
  BY <1>1 DEF LinkIInv, JobsInPlace, Now, Actor, Rec, Idle
<1>4. Carried'
  BY <1>1 DEF LinkIInv, Carried, Carrying, Now, Actor, Rec, Job
<1>5. ChangeInOrder'
  BY <1>1 DEF LinkIInv, ChangeInOrder, Now, Actor, Rec, Route
<1>6. KeysInStep'
  BY <1>1 DEF LinkIInv, KeysInStep, KeysSettled, Now, Actor, Rec
<1>7. OneReceiver'
  BY <1>1 DEF LinkIInv, OneReceiver
<1>8. FileIssued'
  BY <1>1 DEF LinkIInv, FileIssued, deviceVars
<1>. QED  BY <1>2, <1>3, <1>4, <1>5, <1>6, <1>7, <1>8 DEF LinkIInv

\* The relay seats the prepared receiver.
LEMMA RelayCommitsKeeps ==
    ASSUME LinkIInv, RelayCommits
    PROVE  LinkIInv'
<1>. DEFINE j == job["wizard"]
<1>1. /\ up /\ j.phase = "commit"
      /\ Onward
      /\ receiver' = receiver \/ \A d \in Credential : receiver'[d] = "active" => d = j.cred
      /\ \E x \in {"ok", "refused", "limited", "lost"} : Now("wizard", Told(j, "committed", x))
      /\ UNCHANGED <<deviceVars, up, torn, crashes>>
      /\ faults' \in 0..MaxFaults
  <2>1. j.cred \in Credential
    BY DEF RelayCommits, At, LinkIInv, LinkTypeOK, Actor, Job, Carried, Carrying
  <2>2. CASE receiver[j.cred] \in {"pending", "active"}
    <3>1. Served("wizard", "committed", Seated(j.cred), "ok")
      BY <2>2 DEF RelayCommits, Seated
    <3>2. PICK x \in {"ok", "limited", "lost"} : Now("wizard", Told(j, "committed", x))
      BY <3>1, RequestAnswered DEF LinkIInv, Actor, Phase
    <3>3. /\ receiver' \in {Seated(j.cred), receiver}
          /\ UNCHANGED <<deviceVars, up, torn, crashes>>
          /\ faults' \in 0..MaxFaults
      BY <3>1, RequestAnswered DEF LinkIInv, Actor, Phase
    <3>4. \/ receiver' = receiver /\ Onward
          \/ Onward /\ \A d \in Credential : receiver'[d] = "active" => d = j.cred
      BY <2>1, <2>2, <3>3, SeatedOnward, SameOnward DEF LinkIInv
    <3>. QED  BY <3>2, <3>3, <3>4 DEF RelayCommits, At
  <2>3. CASE receiver[j.cred] \notin {"pending", "active"}
    <3>1. Served("wizard", "committed", receiver, "refused")
      BY <2>3 DEF RelayCommits
    <3>. QED
      BY <3>1, RequestAnswered, SameOnward DEF RelayCommits, At, LinkIInv, Actor, Phase
  <2>. QED  BY <2>2, <2>3
<1>1a. PICK x \in {"ok", "refused", "limited", "lost"} :
        Now("wizard", Told(j, "committed", x))
  BY <1>1
<1>2. LinkTypeOK'
  BY <1>1, <1>1a DEF LinkIInv, LinkTypeOK, Now, deviceVars, Onward
<1>3. JobsInPlace'
  BY <1>1, <1>1a DEF LinkIInv, JobsInPlace, Now, Actor, Told, Rec, Idle
<1>4. Carried'
  BY <1>1, <1>1a
  DEF LinkIInv, Carried, Carrying, Now, Told, Rec, deviceVars, Onward, Job
<1>5. ChangeInOrder'
  BY <1>1, <1>1a DEF ChangeInOrder, Now, Told, Rec
<1>6. KeysInStep'
  BY <1>1, <1>1a DEF LinkIInv, KeysInStep, KeysSettled, Now, Told, Rec, deviceVars
<1>7. OneReceiver'
  BY <1>1, <1>1a DEF LinkIInv, OneReceiver
<1>8. FileIssued'
  BY <1>1, <1>1a DEF LinkIInv, LinkTypeOK, FileIssued, Actor, deviceVars, Onward
<1>. QED  BY <1>2, <1>3, <1>4, <1>5, <1>6, <1>7, <1>8 DEF LinkIInv

\* The wizard takes the answer to a commit: it is done, or undoes.
LEMMA CommittedKeeps ==
    ASSUME LinkIInv, Committed
    PROVE  LinkIInv'
<1>. DEFINE j == job["wizard"]
<1>1. /\ up /\ j.phase = "committed"
      /\ \/ state' = "active" /\ Now("wizard", Idle)
         \/ /\ state' = state
            /\ Now("wizard", Rec("undo", j.cred, j.answer, j.answer, j.was, j.changing))
      /\ UNCHANGED <<receiver, file, held, route, keys, journal, up, torn, boundVars>>
  <2>. DEFINE r == Rec("undo", j.cred, j.answer, j.answer, j.was, j.changing)
  <2>1. j \in Job /\ j.answer \in {"ok", "refused", "limited", "lost"}
    BY DEF Committed, At, LinkIInv, LinkTypeOK, Actor, Carried, Job
  <2>2. CASE j.answer = "ok"
    BY <2>2, NowIdle DEF Committed, At, LinkIInv, Actor
  <2>3. CASE j.answer # "ok"
    <3>1. r \in Job
      BY <2>1, <2>3 DEF Rec, Job
    <3>2. [j EXCEPT !.phase = "undo", !.goal = j.answer] = r
      BY <2>1, SetUndo
    <3>3. job' = [job EXCEPT !["wizard"] = r]
      BY <2>3, <3>2 DEF Committed, LinkIInv, LinkTypeOK
    <3>4. Now("wizard", r)
      BY <3>1, <3>3, NowSet DEF LinkIInv, Actor
    <3>. QED  BY <2>3, <3>4 DEF Committed, At
  <2>. QED  BY <2>2, <2>3
<1>2. LinkTypeOK'
  BY <1>1 DEF LinkIInv, LinkTypeOK, Now, boundVars, Route, Actor, Job
<1>3. JobsInPlace'
  BY <1>1 DEF LinkIInv, JobsInPlace, Now, Actor, Rec, Idle
<1>4. Carried'
  BY <1>1 DEF LinkIInv, Carried, Carrying, Now, Rec, Idle, Job
<1>5. ChangeInOrder'
  BY <1>1 DEF LinkIInv, ChangeInOrder, Now, Actor, Rec, Idle, Route
<1>6. KeysInStep'
  BY <1>1 DEF LinkIInv, KeysInStep, KeysSettled, Now, Actor, Rec, Idle
<1>7. OneReceiver'
  BY <1>1 DEF LinkIInv, OneReceiver
<1>8. FileIssued'
  BY <1>1 DEF LinkIInv, FileIssued, deviceVars
<1>. QED  BY <1>2, <1>3, <1>4, <1>5, <1>6, <1>7, <1>8 DEF LinkIInv

\* The relay ends a receiver whose activation failed.
LEMMA RelayUndoesKeeps ==
    ASSUME LinkIInv, RelayUndoes
    PROVE  LinkIInv'
<1>. DEFINE j == job["wizard"]
<1>1. /\ up /\ j.phase = "undo"
      /\ \E x \in {"ok", "limited", "lost"} :
           Now("wizard", Told(j, "undone", x)) /\ (x = "ok" => receiver'[j.cred] = "over")
      /\ Onward
      /\ \A d \in Credential : receiver'[d] = "active" => receiver[d] = "active"
      /\ UNCHANGED <<deviceVars, up, torn, crashes>>
      /\ faults' \in 0..MaxFaults
  <2>1. j.cred \in Credential /\ receiver[j.cred] # "unissued"
    BY DEF RelayUndoes, At, LinkIInv, LinkTypeOK, Actor, Job, Carried, Carrying
  <2>2. Served("wizard", "undone", Over(j.cred), "ok")
    BY DEF RelayUndoes
  <2>3. PICK x \in {"ok", "limited", "lost"} :
          Now("wizard", Told(j, "undone", x)) /\ (x = "ok" => receiver' = Over(j.cred))
    BY <2>2, RequestAnswered DEF LinkIInv, Actor, Phase
  <2>4. /\ receiver' \in {Over(j.cred), receiver}
        /\ UNCHANGED <<deviceVars, up, torn, crashes>>
        /\ faults' \in 0..MaxFaults
    BY <2>2, RequestAnswered DEF LinkIInv, Actor, Phase
  <2>5. CASE receiver' = Over(j.cred)
    BY <2>1, <2>3, <2>4, <2>5, OverOnward DEF RelayUndoes, At, LinkIInv
  <2>6. CASE receiver' # Over(j.cred)
    BY <2>3, <2>4, <2>6, SameOnward DEF RelayUndoes, At, LinkIInv
  <2>. QED  BY <2>5, <2>6
<1>2. LinkTypeOK'
  BY <1>1 DEF LinkIInv, LinkTypeOK, Now, deviceVars, Onward
<1>3. JobsInPlace'
  BY <1>1 DEF LinkIInv, JobsInPlace, Now, Actor, Told, Rec, Idle
<1>4. Carried'
  BY <1>1 DEF LinkIInv, Carried, Carrying, Now, Told, Rec, deviceVars, Onward, Job
<1>5. ChangeInOrder'
  BY <1>1 DEF ChangeInOrder, Now, Told, Rec
<1>6. KeysInStep'
  BY <1>1 DEF LinkIInv, KeysInStep, KeysSettled, Now, Told, Rec, deviceVars
<1>7. OneReceiver'
  BY <1>1 DEF LinkIInv, OneReceiver
<1>8. FileIssued'
  BY <1>1 DEF LinkIInv, LinkTypeOK, FileIssued, Actor, deviceVars, Onward
<1>. QED  BY <1>2, <1>3, <1>4, <1>5, <1>6, <1>7, <1>8 DEF LinkIInv

\* The wizard takes the answer to an undoing.
LEMMA UndoneKeeps ==
    ASSUME LinkIInv, Undone
    PROVE  LinkIInv'
<1>. DEFINE j == job["wizard"]
<1>1. /\ up /\ j.phase = "undone"
      /\ file' \in {file, Null} /\ held' \in BOOLEAN
      /\ state' \in {state, "inactive", "unreachable"}
      /\ Now("wizard", Idle)
      /\ UNCHANGED <<receiver, route, keys, journal, up, torn, boundVars>>
  BY "wizard" \in Actor, "loop" \in Actor, NowIdle
  DEF Undone, At, Actor, LinkIInv, LinkTypeOK, Job
<1>2. LinkTypeOK'
  BY <1>1 DEF LinkIInv, LinkTypeOK, Now, boundVars, Route, Actor, Job
<1>3. JobsInPlace'
  BY <1>1 DEF LinkIInv, JobsInPlace, Now, Actor, Idle
<1>4. Carried'
  BY <1>1 DEF LinkIInv, Carried, Carrying, Now, Actor, Idle, Job
<1>5. ChangeInOrder'
  BY <1>1 DEF LinkIInv, ChangeInOrder, Now, Actor, Idle, Route
<1>6. KeysInStep'
  BY <1>1 DEF LinkIInv, KeysInStep, KeysSettled, Now, Actor, Idle
<1>7. OneReceiver'
  BY <1>1 DEF LinkIInv, OneReceiver
<1>8. FileIssued'
  BY <1>1 DEF LinkIInv, FileIssued, deviceVars
<1>. QED  BY <1>2, <1>3, <1>4, <1>5, <1>6, <1>7, <1>8 DEF LinkIInv

\* A release reads the credential in the file, or finds none.
LEMMA ReadCredentialKeeps ==
    ASSUME LinkIInv, NEW a \in Actor, ReadCredential(a)
    PROVE  LinkIInv'
<1>. DEFINE k == job[a]
<1>1. /\ up /\ k.phase = "read"
      /\ \/ /\ file = Null /\ state' = "none"
            /\ Now(a, IF k.goal \in FreeRoute THEN To(k, "close") ELSE Idle)
         \/ /\ file # Null /\ state' = state
            /\ Now(a, Rec("release", file, k.answer, k.goal, k.was, k.changing))
      /\ UNCHANGED <<receiver, file, held, route, keys, journal, up, torn, boundVars>>
  <2>. DEFINE r == Rec("release", file, k.answer, k.goal, k.was, k.changing)
  <2>1. k \in Job
    BY DEF LinkIInv, LinkTypeOK
  <2>2. CASE file = Null
    BY <2>1, <2>2, ReleaseEnds DEF ReadCredential, At, LinkIInv
  <2>3. CASE file # Null
    <3>1. r \in Job
      BY <2>1, <2>3 DEF LinkIInv, LinkTypeOK, Rec, Job
    <3>2. [k EXCEPT !.phase = "release", !.cred = file] = r
      BY <2>1, SetRelease
    <3>3. job' = [job EXCEPT ![a] = r]
      BY <2>3, <3>2 DEF ReadCredential, LinkIInv, LinkTypeOK
    <3>4. Now(a, r)
      BY <3>1, <3>3, NowSet DEF LinkIInv
    <3>. QED  BY <2>3, <3>4 DEF ReadCredential, At
  <2>. QED  BY <2>2, <2>3
<1>2. LinkTypeOK'
  BY <1>1 DEF LinkIInv, LinkTypeOK, Now, boundVars, Route, Actor, Job
<1>3. JobsInPlace'
  BY <1>1 DEF LinkIInv, JobsInPlace, Now, Actor, To, Rec, Idle
<1>4. Carried'
  BY <1>1 DEF LinkIInv, Carried, FileIssued, Carrying, Now, Actor, To, Rec, Idle
<1>5. ChangeInOrder'
  BY <1>1 DEF LinkIInv, ChangeInOrder, Now, Actor, To, Rec, Idle, Route
<1>6. KeysInStep'
  BY <1>1 DEF LinkIInv, KeysInStep, KeysSettled, Now, Actor, To, Rec, Idle
<1>7. OneReceiver'
  BY <1>1 DEF LinkIInv, OneReceiver
<1>8. FileIssued'
  BY <1>1 DEF LinkIInv, FileIssued, deviceVars
<1>. QED  BY <1>2, <1>3, <1>4, <1>5, <1>6, <1>7, <1>8 DEF LinkIInv

\* The relay ends the receiver that is released.
LEMMA RelayReleasesKeeps ==
    ASSUME LinkIInv, NEW a \in Actor, RelayReleases(a)
    PROVE  LinkIInv'
<1>. DEFINE k == job[a]
<1>1. /\ up /\ k.phase = "release"
      /\ \E x \in {"ok", "limited", "lost"} :
           Now(a, Told(k, "released", x)) /\ (x = "ok" => receiver'[k.cred] = "over")
      /\ Onward
      /\ \A d \in Credential : receiver'[d] = "active" => receiver[d] = "active"
      /\ UNCHANGED <<deviceVars, up, torn, crashes>>
      /\ faults' \in 0..MaxFaults
  <2>1. k.cred \in Credential /\ receiver[k.cred] # "unissued"
    BY DEF RelayReleases, At, LinkIInv, LinkTypeOK, Job, Carried, Carrying
  <2>2. Served(a, "released", Over(k.cred), "ok")
    BY DEF RelayReleases
  <2>3. PICK x \in {"ok", "limited", "lost"} :
          Now(a, Told(k, "released", x)) /\ (x = "ok" => receiver' = Over(k.cred))
    BY <2>2, RequestAnswered DEF LinkIInv, Actor, Phase
  <2>4. /\ receiver' \in {Over(k.cred), receiver}
        /\ UNCHANGED <<deviceVars, up, torn, crashes>>
        /\ faults' \in 0..MaxFaults
    BY <2>2, RequestAnswered DEF LinkIInv, Actor, Phase
  <2>5. CASE receiver' = Over(k.cred)
    BY <2>1, <2>3, <2>4, <2>5, OverOnward DEF RelayReleases, At, LinkIInv
  <2>6. CASE receiver' # Over(k.cred)
    BY <2>3, <2>4, <2>6, SameOnward DEF RelayReleases, At, LinkIInv
  <2>. QED  BY <2>5, <2>6
<1>2. LinkTypeOK'
  BY <1>1 DEF LinkIInv, LinkTypeOK, Now, deviceVars, Onward
<1>3. JobsInPlace'
  BY <1>1 DEF LinkIInv, JobsInPlace, Now, Actor, Told, Rec, Idle
<1>4. Carried'
  BY <1>1 DEF LinkIInv, Carried, Carrying, Now, Told, Rec, deviceVars, Onward, Job
<1>5. ChangeInOrder'
  BY <1>1 DEF LinkIInv, ChangeInOrder, Now, Actor, Told, Rec, deviceVars, Route
<1>6. KeysInStep'
  BY <1>1 DEF LinkIInv, KeysInStep, KeysSettled, Now, Actor, Told, Rec, deviceVars
<1>7. OneReceiver'
  BY <1>1 DEF LinkIInv, OneReceiver
<1>8. FileIssued'
  BY <1>1 DEF LinkIInv, LinkTypeOK, FileIssued, Actor, deviceVars, Onward
<1>. QED  BY <1>2, <1>3, <1>4, <1>5, <1>6, <1>7, <1>8 DEF LinkIInv

\* The actor takes the answer to a release: it forgets the credential, or the
\* release waits.
LEMMA ReleasedKeeps ==
    ASSUME LinkIInv, NEW a \in Actor, Released(a)
    PROVE  LinkIInv'
<1>. DEFINE k == job[a]
<1>1. /\ up /\ k.phase = "released"
      /\ \/ k.answer = "ok" /\ file' = Null /\ held' = FALSE /\ state' = "inactive"
         \/ file' = file /\ held' = TRUE /\ state' = "release_pending"
      /\ Now(a, IF k.goal \in FreeRoute THEN To(k, "close") ELSE Idle)
      /\ UNCHANGED <<receiver, route, keys, journal, up, torn, boundVars>>
  <2>1. Now(a, IF k.goal \in FreeRoute THEN To(k, "close") ELSE Idle)
    BY ReleaseEnds DEF Released, LinkIInv
  <2>. QED  BY <2>1 DEF Released, At
<1>2. LinkTypeOK'
  BY <1>1 DEF LinkIInv, LinkTypeOK, Now, boundVars, Route, Actor, Job
<1>3. JobsInPlace'
  BY <1>1 DEF LinkIInv, JobsInPlace, Now, Actor, To, Rec, Idle
<1>4. Carried'
  BY <1>1 DEF LinkIInv, Carried, Carrying, Now, To, Rec, Idle, Job
<1>5. ChangeInOrder'
  <2>1. CASE a = "wizard"
    BY <1>1, <2>1
    DEF LinkIInv, Carried, Carrying, ChangeInOrder, Now, Actor, To, Rec, Idle, Route
  <2>2. CASE a = "loop"
    BY <1>1, <2>2 DEF LinkIInv, JobsInPlace, ChangeInOrder, Now, Actor
  <2>. QED  BY <2>1, <2>2 DEF Actor
<1>6. KeysInStep'
  BY <1>1 DEF LinkIInv, KeysInStep, KeysSettled, Now, Actor, To, Rec, Idle
<1>7. OneReceiver'
  BY <1>1 DEF LinkIInv, OneReceiver
<1>8. FileIssued'
  BY <1>1 DEF LinkIInv, FileIssued, deviceVars
<1>. QED  BY <1>2, <1>3, <1>4, <1>5, <1>6, <1>7, <1>8 DEF LinkIInv

\* A change starts: its journal is written, or it ends there.
LEMMA BeginKeeps ==
    ASSUME LinkIInv, Begin
    PROVE  LinkIInv'
<1>. DEFINE j == job["wizard"]
<1>1. /\ up /\ j.phase = "begin"
      /\ UNCHANGED <<receiver, file, state, held, route, keys, up, torn, crashes>>
      /\ faults' \in 0..MaxFaults
  BY DEF Begin, At, Fault, NoFault, LinkIInv, LinkTypeOK
<1>1a. \/ journal' = journal /\ Now("wizard", Idle)
       \/ \E r \in Job :
            /\ Now("wizard", r)
            /\ journal' = IF Starts THEN <<j.goal, "started">> ELSE journal
            /\ r.phase = "keys" /\ r.cred = j.cred /\ r.goal = j.goal /\ r.was = keys
            /\ r.changing <=> Starts
  <2>1. j \in Job
    BY DEF LinkIInv, LinkTypeOK, Actor
  <2>2. CASE Stop("wizard") /\ journal' = journal
    BY <2>2, NowIdle DEF LinkIInv, Actor
  <2>3. CASE ~(Stop("wizard") /\ journal' = journal)
    <3>. DEFINE r == [j EXCEPT !.phase = "keys", !.was = keys, !.changing = Starts]
    <3>1. [j EXCEPT !.phase = "keys"] \in Job
      BY <2>1 DEF Job
    <3>2. [[j EXCEPT !.phase = "keys"] EXCEPT !.was = keys] \in Job
      BY <3>1 DEF LinkIInv, LinkTypeOK, Job
    <3>3. r \in Job
      BY <3>2 DEF Job, Starts
    <3>4. job' = [job EXCEPT !["wizard"] = r]
      BY <2>3 DEF Begin, LinkIInv, LinkTypeOK
    <3>5. Now("wizard", r)
      BY <3>3, <3>4, NowSet DEF LinkIInv, Actor
    <3>6. r.phase = "keys" /\ r.cred = j.cred /\ r.goal = j.goal /\ r.was = keys
      BY <2>1 DEF Job
    <3>7. r.changing <=> Starts
      BY <2>1 DEF Job
    <3>. QED  BY <2>3, <3>3, <3>5, <3>6, <3>7 DEF Begin
  <2>. QED  BY <2>2, <2>3
<1>2. LinkTypeOK'
  BY <1>1, <1>1a DEF LinkIInv, LinkTypeOK, Now, ChangeInOrder, Job
<1>3. JobsInPlace'
  BY <1>1, <1>1a DEF LinkIInv, JobsInPlace, Now, Actor, Idle
<1>4. Carried'
  BY <1>1, <1>1a DEF LinkIInv, Carried, Carrying, Now, Actor, Idle, Job
<1>5. ChangeInOrder'
  BY <1>1, <1>1a
  DEF LinkIInv, LinkTypeOK, ChangeInOrder, Now, Idle, Route, Starts, NoJournal
<1>6. KeysInStep'
  BY <1>1, <1>1a DEF LinkIInv, KeysInStep, KeysSettled, Now, Actor, Idle
<1>7. OneReceiver'
  BY <1>1, <1>1a DEF LinkIInv, OneReceiver
<1>8. FileIssued'
  BY <1>1, <1>1a DEF LinkIInv, FileIssued, deviceVars
<1>. QED  BY <1>2, <1>3, <1>4, <1>5, <1>6, <1>7, <1>8 DEF LinkIInv

\* The provider's keys are saved, or the change ends.
LEMMA SaveKeysKeeps ==
    ASSUME LinkIInv, SaveKeys
    PROVE  LinkIInv'
<1>. DEFINE j == job["wizard"]
<1>1. /\ up /\ j.phase = "keys"
      /\ \/ /\ keys' = j.goal /\ journal' = journal
            /\ Now("wizard", To(j, IF j.changing THEN "keys_saved" ELSE "route"))
         \/ /\ keys' = keys /\ Now("wizard", Idle)
            /\ journal' \in {journal, NoJournal}
      /\ UNCHANGED <<receiver, file, state, held, route, up, torn, crashes>>
      /\ faults' \in 0..MaxFaults
  BY "wizard" \in Actor, "loop" \in Actor, NowIdle, NowAt
  DEF SaveKeys, At, Go, Stop, deviceVars, boundVars, Actor, LinkIInv, LinkTypeOK,
      JobsInPlace, Phase, Job, Idle, To, Told, Changing, AfterRelease, Ended, Route,
      ChangeInOrder, Fault, NoFault, Starts, Seated, Recover
<1>2. LinkTypeOK'
  BY <1>1 DEF LinkIInv, LinkTypeOK, Now, ChangeInOrder, Job
<1>3. JobsInPlace'
  BY <1>1 DEF LinkIInv, JobsInPlace, Now, Actor, To, Rec, Idle
<1>4. Carried'
  BY <1>1 DEF LinkIInv, Carried, Carrying, Now, To, Rec, Idle, Job
<1>5. ChangeInOrder'
  BY <1>1 DEF LinkIInv, ChangeInOrder, Now, To, Rec, Idle, Route, NoJournal
<1>6. KeysInStep'
  BY <1>1
  DEF LinkIInv, ChangeInOrder, KeysInStep, KeysSettled, Now, Actor, To, Rec, Idle,
      NoJournal
<1>7. OneReceiver'
  BY <1>1 DEF LinkIInv, OneReceiver
<1>8. FileIssued'
  BY <1>1 DEF LinkIInv, FileIssued, deviceVars
<1>. QED  BY <1>2, <1>3, <1>4, <1>5, <1>6, <1>7, <1>8 DEF LinkIInv

\* The journal is told of the keys; when it cannot be, keys and route are apart
\* (torn).
LEMMA MarkKeysKeeps ==
    ASSUME LinkIInv, MarkKeys
    PROVE  LinkIInv'
<1>. DEFINE j == job["wizard"]
<1>1. /\ up /\ j.phase = "keys_saved"
      /\ \/ /\ journal' = <<j.goal, "provider_saved">> /\ torn' = torn
            /\ Now("wizard", To(j, "route"))
         \/ journal' = journal /\ torn' = TRUE /\ Now("wizard", Idle)
      /\ UNCHANGED <<receiver, file, state, held, route, keys, up, crashes>>
      /\ faults' \in 0..MaxFaults
  BY "wizard" \in Actor, "loop" \in Actor, NowIdle, NowAt
  DEF MarkKeys, At, Go, Stop, deviceVars, boundVars, Actor, LinkIInv, LinkTypeOK,
      JobsInPlace, Phase, Job, Idle, To, Told, Fault, NoFault, Starts, Seated, Recover
<1>1a. torn' \in BOOLEAN
  BY <1>1 DEF LinkIInv, LinkTypeOK
<1>1b. journal' \in Route \X {"started", "provider_saved", "route_saved"}
  <2>1. j.goal \in Route /\ journal = <<j.goal, "started">>
    BY <1>1 DEF LinkIInv, ChangeInOrder
  <2>2. journal' \in {journal, <<j.goal, "provider_saved">>}
    BY <1>1
  <2>. QED  BY <2>1, <2>2
<1>2. LinkTypeOK'
  BY <1>1, <1>1a, <1>1b DEF LinkIInv, LinkTypeOK, Now, Route, Actor, Job
<1>3. JobsInPlace'
  BY <1>1 DEF LinkIInv, JobsInPlace, Now, Actor, To, Rec, Idle
<1>4. Carried'
  BY <1>1 DEF LinkIInv, Carried, Carrying, Now, To, Rec, Idle, Job
<1>5. ChangeInOrder'
  BY <1>1 DEF LinkIInv, ChangeInOrder, Now, To, Rec, Idle, Route
<1>6. KeysInStep'
  BY <1>1 DEF LinkIInv, ChangeInOrder, KeysInStep, Now, Actor, To, Rec
<1>7. OneReceiver'
  BY <1>1 DEF LinkIInv, OneReceiver
<1>8. FileIssued'
  BY <1>1 DEF LinkIInv, FileIssued, deviceVars
<1>. QED  BY <1>2, <1>3, <1>4, <1>5, <1>6, <1>7, <1>8 DEF LinkIInv

\* The route is saved; when it cannot be, the old keys are put back, or keys and
\* route are apart.
LEMMA SaveRouteKeeps ==
    ASSUME LinkIInv, SaveRoute
    PROVE  LinkIInv'
<1>. DEFINE j == job["wizard"]
<1>1. /\ up /\ j.phase = "route"
      /\ \/ /\ route' = j.goal /\ UNCHANGED <<keys, journal, torn>>
            /\ Now("wizard", To(j, IF j.changing THEN "route_saved" ELSE "close"))
         \/ /\ route' = route /\ Now("wizard", Idle)
            /\ \/ keys' = j.was /\ journal' = NoJournal /\ torn' = torn
               \/ torn' = TRUE /\ UNCHANGED <<keys, journal>>
      /\ UNCHANGED <<receiver, file, state, held, up, crashes>>
      /\ faults' \in 0..MaxFaults
  BY "wizard" \in Actor, "loop" \in Actor, NowIdle, NowAt
  DEF SaveRoute, At, Go, Stop, deviceVars, boundVars, Actor, LinkIInv, LinkTypeOK,
      JobsInPlace, Phase, Job, Idle, To, Told, Changing, AfterRelease, Ended, Route,
      ChangeInOrder, Fault, NoFault, Starts, Seated, Recover
<1>2. LinkTypeOK'
  BY <1>1 DEF LinkIInv, LinkTypeOK, Now, ChangeInOrder, Job
<1>3. JobsInPlace'
  BY <1>1 DEF LinkIInv, JobsInPlace, Now, Actor, To, Rec, Idle
<1>4. Carried'
  BY <1>1 DEF LinkIInv, Carried, Carrying, Now, To, Rec, Idle, Job
<1>5. ChangeInOrder'
  BY <1>1 DEF LinkIInv, ChangeInOrder, Now, To, Rec, Idle, Route, NoJournal
<1>6. KeysInStep'
  BY <1>1
  DEF LinkIInv, ChangeInOrder, KeysInStep, KeysSettled, Now, Actor, To, Rec, Idle,
      NoJournal
<1>7. OneReceiver'
  BY <1>1 DEF LinkIInv, OneReceiver
<1>8. FileIssued'
  BY <1>1 DEF LinkIInv, FileIssued, deviceVars
<1>. QED  BY <1>2, <1>3, <1>4, <1>5, <1>6, <1>7, <1>8 DEF LinkIInv

\* The journal is told of the route.
LEMMA MarkRouteKeeps ==
    ASSUME LinkIInv, MarkRoute
    PROVE  LinkIInv'
<1>. DEFINE j == job["wizard"]
<1>1. /\ up /\ j.phase = "route_saved"
      /\ \/ /\ journal' = <<j.goal, "route_saved">>
            /\ Now("wizard", To(j, IF j.goal # Relay /\ j.cred # Null
                                   THEN "read" ELSE "close"))
         \/ journal' = journal /\ Now("wizard", Idle)
      /\ UNCHANGED <<receiver, file, state, held, route, keys, up, torn, crashes>>
      /\ faults' \in 0..MaxFaults
  BY "wizard" \in Actor, "loop" \in Actor, NowIdle, NowAt
  DEF MarkRoute, At, Go, Stop, deviceVars, boundVars, Actor, LinkIInv, LinkTypeOK,
      JobsInPlace, Phase, Job, Idle, To, Told, Fault, NoFault, Starts, Seated, Recover
<1>2. LinkTypeOK'
  BY <1>1 DEF LinkIInv, LinkTypeOK, Now, ChangeInOrder, Job
<1>3. JobsInPlace'
  BY <1>1 DEF LinkIInv, JobsInPlace, Now, Actor, To, Rec, Idle
<1>4. Carried'
  BY <1>1 DEF LinkIInv, Carried, Carrying, Now, To, Rec, Idle, Job
<1>5. ChangeInOrder'
  BY <1>1 DEF LinkIInv, ChangeInOrder, Now, To, Rec, Idle, Route
<1>6. KeysInStep'
  BY <1>1
  DEF LinkIInv, ChangeInOrder, KeysInStep, KeysSettled, Now, Actor, To, Rec, Idle
<1>7. OneReceiver'
  BY <1>1 DEF LinkIInv, OneReceiver
<1>8. FileIssued'
  BY <1>1 DEF LinkIInv, FileIssued, deviceVars
<1>. QED  BY <1>2, <1>3, <1>4, <1>5, <1>6, <1>7, <1>8 DEF LinkIInv

\* The journal is removed, and the change is over.
LEMMA CloseKeeps ==
    ASSUME LinkIInv, Close
    PROVE  LinkIInv'
<1>. DEFINE j == job["wizard"]
<1>1. /\ up /\ j.phase = "close"
      /\ journal' = IF j.changing THEN NoJournal ELSE journal
      /\ Now("wizard", Idle)
      /\ UNCHANGED <<receiver, file, state, held, route, keys, up, torn, boundVars>>
  BY "wizard" \in Actor, "loop" \in Actor, NowIdle
  DEF Close, At, Actor, LinkIInv, Carrying, Changing
<1>2. LinkTypeOK'
  BY <1>1 DEF LinkIInv, LinkTypeOK, Now, boundVars, Route, Actor, Job
<1>3. JobsInPlace'
  BY <1>1 DEF LinkIInv, JobsInPlace, Now, Actor, Idle
<1>4. Carried'
  BY <1>1 DEF LinkIInv, Carried, Carrying, Now, Actor, Idle, Job
<1>5. ChangeInOrder'
  BY <1>1 DEF LinkIInv, ChangeInOrder, Now, Actor, Idle, Route, NoJournal
<1>6. KeysInStep'
  BY <1>1 DEF LinkIInv, KeysInStep, KeysSettled, Now, Actor, Idle, NoJournal
<1>7. OneReceiver'
  BY <1>1 DEF LinkIInv, OneReceiver
<1>8. FileIssued'
  BY <1>1 DEF LinkIInv, FileIssued, deviceVars
<1>. QED  BY <1>2, <1>3, <1>4, <1>5, <1>6, <1>7, <1>8 DEF LinkIInv

\* The release loop comes round.
LEMMA LoopStartsKeeps ==
    ASSUME LinkIInv, LoopStarts
    PROVE  LinkIInv'
<1>. DEFINE j == job["wizard"]
<1>1. /\ up /\ job["loop"] = Idle
      /\ Now("loop", To(Idle, "read"))
      /\ UNCHANGED <<receiver, deviceVars, up, torn, boundVars>>
  BY "wizard" \in Actor, "loop" \in Actor, NowAt
  DEF LoopStarts, At, Go, Stop, deviceVars, boundVars, Actor, LinkIInv, LinkTypeOK,
      JobsInPlace, Phase, Job, Idle, To, Told
<1>2. LinkTypeOK'
  BY <1>1 DEF LinkIInv, LinkTypeOK, Now, deviceVars, boundVars, Route
<1>3. JobsInPlace'
  BY <1>1 DEF LinkIInv, JobsInPlace, Now, Actor, To, Rec, Idle
<1>4. Carried'
  BY <1>1 DEF LinkIInv, Carried, Carrying, Now, To, Rec, Idle, deviceVars
<1>5. ChangeInOrder'
  BY <1>1 DEF LinkIInv, ChangeInOrder, Now, Actor, Idle, deviceVars, Route
<1>6. KeysInStep'
  BY <1>1 DEF LinkIInv, KeysInStep, KeysSettled, Now, Actor, Rec, Idle, deviceVars
<1>7. OneReceiver'
  BY <1>1 DEF LinkIInv, OneReceiver
<1>8. FileIssued'
  BY <1>1 DEF LinkIInv, FileIssued, deviceVars
<1>. QED  BY <1>2, <1>3, <1>4, <1>5, <1>6, <1>7, <1>8 DEF LinkIInv

\* The process ends: its requests are gone, its files stay.
LEMMA CrashKeeps ==
    ASSUME LinkIInv, Crash
    PROVE  LinkIInv'
<1>. DEFINE j == job["wizard"]
<1>1. /\ up
      /\ up' = FALSE
      /\ job' = [a \in Actor |-> Idle]
      /\ torn' \in BOOLEAN
      /\ ~torn' => ~torn /\ j.phase # "keys_saved"
      /\ crashes' \in 0..MaxCrashes
      /\ UNCHANGED <<receiver, deviceVars, faults>>
  BY "wizard" \in Actor, "loop" \in Actor
  DEF Crash, deviceVars, Actor, LinkIInv, LinkTypeOK, JobsInPlace, Job, Idle, Route,
      ChangeInOrder
<1>2. LinkTypeOK'
  BY <1>1 DEF LinkIInv, LinkTypeOK, deviceVars, Route, Actor, Job, Idle
<1>3. JobsInPlace'
  BY <1>1 DEF LinkIInv, JobsInPlace, Now, Actor, Idle
<1>4. Carried'
  BY <1>1 DEF LinkIInv, Carried, Carrying, Actor, Idle, deviceVars
<1>5. ChangeInOrder'
  BY <1>1 DEF LinkIInv, ChangeInOrder, Actor, Idle, deviceVars, Route
<1>6. KeysInStep'
  BY <1>1 DEF LinkIInv, ChangeInOrder, KeysInStep, KeysSettled, Actor, Idle, deviceVars
<1>7. OneReceiver'
  BY <1>1 DEF LinkIInv, OneReceiver
<1>8. FileIssued'
  BY <1>1 DEF LinkIInv, FileIssued, deviceVars
<1>. QED  BY <1>2, <1>3, <1>4, <1>5, <1>6, <1>7, <1>8 DEF LinkIInv

\* The next start completes the change its journal tells of, or takes it as not
\* begun.
LEMMA RestartKeeps ==
    ASSUME LinkIInv, Restart
    PROVE  LinkIInv'
<1>. DEFINE j == job["wizard"]
<1>1. /\ ~up
      /\ up' = TRUE
      /\ torn' \in BOOLEAN /\ (torn => torn')
      /\ \/ /\ UNCHANGED <<journal, route, state, held>>
            /\ journal = NoJournal \/ torn'
         \/ /\ journal # NoJournal /\ journal' = NoJournal
            /\ \/ /\ journal[2] = "started" /\ route # journal[1]
                  /\ UNCHANGED <<route, state, held>>
               \/ /\ route' = journal[1] /\ (journal[2] = "started" => route = journal[1])
                  /\ state' \in {state, "release_pending"} /\ held' \in {held, FALSE}
      /\ faults' \in 0..MaxFaults
      /\ UNCHANGED <<receiver, file, keys, job, crashes>>
  <2>1. /\ ~up /\ up' = TRUE
        /\ faults' \in 0..MaxFaults
        /\ UNCHANGED <<receiver, file, keys, job, crashes>>
    BY DEF Restart, Fault, NoFault, LinkIInv, LinkTypeOK
  <2>2. CASE journal # NoJournal /\ Recover /\ journal' = NoJournal /\ torn' = torn
    BY <2>1, <2>2 DEF Recover, LinkIInv, LinkTypeOK
  <2>3. CASE journal = NoJournal /\ UNCHANGED <<journal, route, state, held, torn>>
    BY <2>1, <2>3 DEF LinkIInv, LinkTypeOK
  <2>4. CASE torn' = TRUE /\ UNCHANGED <<journal, route, state, held>>
    BY <2>1, <2>4
  <2>. QED  BY <2>2, <2>3, <2>4 DEF Restart
<1>1a. journal # NoJournal => journal[1] \in Route
  BY DEF LinkIInv, LinkTypeOK
<1>1b. route' \in Route
  BY <1>1, <1>1a DEF LinkIInv, LinkTypeOK
<1>1c. journal' \in {NoJournal, journal}
  BY <1>1
<1>1d. journal = NoJournal \/ journal[2] \in {"started", "provider_saved", "route_saved"}
  BY DEF LinkIInv, LinkTypeOK
<1>2. LinkTypeOK'
  BY <1>1, <1>1b, <1>1c DEF LinkIInv, LinkTypeOK, Route, Actor, Job
<1>3. JobsInPlace'
  BY <1>1 DEF LinkIInv, JobsInPlace, Now, Actor, Idle
<1>4. Carried'
  BY <1>1 DEF LinkIInv, Carried, FileIssued, Carrying, Actor, deviceVars
<1>5. ChangeInOrder'
  BY <1>1 DEF LinkIInv, JobsInPlace, ChangeInOrder, Actor, Idle, Route, NoJournal
<1>6. KeysInStep'
  <2>1. job'["wizard"].phase = "idle"
    BY <1>1 DEF LinkIInv, JobsInPlace, Idle
  <2>2. CASE torn'
    BY <2>2 DEF KeysInStep
  <2>3. CASE ~torn'
    <3>1. ~torn /\ keys = IF journal[2] \in {"provider_saved", "route_saved"}
                          THEN journal[1] ELSE route
      BY <1>1, <2>3 DEF LinkIInv, KeysInStep
    <3>2. journal' = NoJournal
      BY <1>1, <2>3
    <3>3. journal = NoJournal => keys' = route'
      BY <1>1, <2>3, <3>1 DEF NoJournal
    <3>4. journal # NoJournal => keys' = route'
      BY <1>1, <1>1d, <2>3, <3>1
    <3>5. keys' = route'
      BY <3>3, <3>4
    <3>. QED  BY <1>1, <2>1, <3>2, <3>5 DEF KeysInStep, KeysSettled, NoJournal
  <2>. QED  BY <2>2, <2>3
<1>7. OneReceiver'
  BY <1>1 DEF LinkIInv, OneReceiver
<1>8. FileIssued'
  BY <1>1 DEF LinkIInv, FileIssued, deviceVars
<1>. QED  BY <1>2, <1>3, <1>4, <1>5, <1>6, <1>7, <1>8 DEF LinkIInv

\* The waiting period of a release is over.
LEMMA WaitKeeps ==
    ASSUME LinkIInv, Wait
    PROVE  LinkIInv'
<1>. DEFINE j == job["wizard"]
<1>1. /\ held' = FALSE
      /\ UNCHANGED <<receiver, file, state, route, keys, journal, job, up, torn, boundVars>>
  BY DEF Wait
<1>2. LinkTypeOK'
  BY <1>1 DEF LinkIInv, LinkTypeOK, boundVars, Route, Actor, Job
<1>3. JobsInPlace'
  BY <1>1 DEF LinkIInv, JobsInPlace, Now, Actor, Idle
<1>4. Carried'
  BY <1>1 DEF LinkIInv, Carried, FileIssued, Carrying, Actor, deviceVars
<1>5. ChangeInOrder'
  BY <1>1 DEF LinkIInv, ChangeInOrder, Now, deviceVars, Route
<1>6. KeysInStep'
  BY <1>1 DEF LinkIInv, KeysInStep, KeysSettled, deviceVars
<1>7. OneReceiver'
  BY <1>1 DEF LinkIInv, OneReceiver
<1>8. FileIssued'
  BY <1>1 DEF LinkIInv, FileIssued, deviceVars
<1>. QED  BY <1>2, <1>3, <1>4, <1>5, <1>6, <1>7, <1>8 DEF LinkIInv

\* Somebody else ends a receiver.
LEMMA RelayEndsKeeps ==
    ASSUME LinkIInv, NEW c \in Credential, RelayEnds(c)
    PROVE  LinkIInv'
<1>. DEFINE j == job["wizard"]
<1>1. /\ Onward
      /\ \A d \in Credential : receiver'[d] = "active" => receiver[d] = "active"
      /\ UNCHANGED <<deviceVars, job, up, torn, boundVars>>
  BY OverOnward DEF RelayEnds, LinkIInv
<1>2. LinkTypeOK'
  BY <1>1 DEF LinkIInv, LinkTypeOK, deviceVars, boundVars, Onward
<1>3. JobsInPlace'
  BY <1>1 DEF LinkIInv, JobsInPlace, Now, Actor, Idle
<1>4. Carried'
  BY <1>1 DEF LinkIInv, LinkTypeOK, Carried, Carrying, deviceVars, Onward, Job
<1>5. ChangeInOrder'
  BY <1>1 DEF LinkIInv, ChangeInOrder, Now, deviceVars, Route
<1>6. KeysInStep'
  BY <1>1 DEF LinkIInv, KeysInStep, KeysSettled, deviceVars
<1>7. OneReceiver'
  BY <1>1 DEF LinkIInv, OneReceiver
<1>8. FileIssued'
  BY <1>1 DEF LinkIInv, LinkTypeOK, FileIssued, Actor, deviceVars, Onward
<1>. QED  BY <1>2, <1>3, <1>4, <1>5, <1>6, <1>7, <1>8 DEF LinkIInv
-----------------------------------------------------------------------------
(* The invariant.                                                           *)

\* At first nothing is installed and nothing is under way.
LEMMA StartsWell == LinkInit => LinkIInv
<1>. SUFFICES ASSUME LinkInit PROVE LinkIInv
  OBVIOUS
<1>. USE DEF LinkInit
<1>1. LinkTypeOK
  <2>1. job \in [Actor -> Job]
    BY IdleJob
  <2>2. receiver \in [Credential -> {"unissued", "pending", "active", "over"}]
    OBVIOUS
  <2>3. held \in BOOLEAN /\ up \in BOOLEAN /\ torn \in BOOLEAN
    OBVIOUS
  <2>4. faults \in 0..MaxFaults /\ crashes \in 0..MaxCrashes
    OBVIOUS
  <2>5. /\ file \in Credential \cup {Null}
        /\ state \in {"none", "active", "inactive", "unreachable", "release_pending"}
        /\ route \in Route /\ keys \in Route
        /\ journal \in {NoJournal} \cup (Route \X {"started", "provider_saved", "route_saved"})
    OBVIOUS
  <2>. QED  BY <2>1, <2>2, <2>3, <2>4, <2>5 DEF LinkTypeOK
<1>2. JobsInPlace
  BY DEF JobsInPlace, Actor, Idle
<1>3. Carried
  BY DEF Carried, Carrying, Idle
<1>4. ChangeInOrder
  BY DEF ChangeInOrder, Idle, Actor
<1>5. KeysInStep
  BY DEF KeysInStep, KeysSettled, Idle, Actor, NoJournal
<1>6. OneReceiver
  BY DEF OneReceiver
<1>7. FileIssued
  BY DEF FileIssued
<1>. QED  BY <1>1, <1>2, <1>3, <1>4, <1>5, <1>6, <1>7 DEF LinkIInv

\* Every step keeps the invariant: one case per action of LinkNext.
LEMMA StepKeeps == LinkIInv /\ [LinkNext]_linkVars => LinkIInv'
<1>. SUFFICES ASSUME LinkIInv, [LinkNext]_linkVars PROVE LinkIInv'
  OBVIOUS
<1>1. CASE StartCheck(Null) \/ StartCheck(Relay)
  BY <1>1, StartCheckKeeps
<1>2. CASE StartActivate \/ StartRelease \/ \E target \in FreeRoute : StartFree(target)
  BY <1>2, StartActivateKeeps, StartReleaseKeeps, StartFreeKeeps
<1>3. CASE RelayChecks \/ Checked
  BY <1>3, RelayChecksKeeps, CheckedKeeps
<1>4. CASE RelayPrepares \/ PrepareFailed \/ Store \/ StoreFails
  BY <1>4, RelayPreparesKeeps, PrepareFailedKeeps, StoreKeeps, StoreFailsKeeps
<1>5. CASE RelayCommits \/ Committed \/ RelayUndoes \/ Undone
  BY <1>5, RelayCommitsKeeps, CommittedKeeps, RelayUndoesKeeps, UndoneKeeps
<1>6. CASE \E a \in Actor : ReadCredential(a) \/ RelayReleases(a) \/ Released(a)
  BY <1>6, ReadCredentialKeeps, RelayReleasesKeeps, ReleasedKeeps
<1>7. CASE Begin \/ SaveKeys \/ MarkKeys
  BY <1>7, BeginKeeps, SaveKeysKeeps, MarkKeysKeeps
<1>8. CASE SaveRoute \/ MarkRoute \/ Close
  BY <1>8, SaveRouteKeeps, MarkRouteKeeps, CloseKeeps
<1>9. CASE LoopStarts \/ Wait \/ Crash \/ Restart
  BY <1>9, LoopStartsKeeps, WaitKeeps, CrashKeeps, RestartKeeps
<1>10. CASE \E c \in Credential : RelayEnds(c)
  BY <1>10, RelayEndsKeeps
<1>11. CASE UNCHANGED linkVars
  BY <1>11
  DEF linkVars, deviceVars, boundVars, LinkIInv, LinkTypeOK, JobsInPlace, Carried,
      ChangeInOrder, KeysInStep, KeysSettled, OneReceiver, FileIssued
<1>. QED
  BY <1>1, <1>2, <1>3, <1>4, <1>5, <1>6, <1>7, <1>8, <1>9, <1>10, <1>11
  DEF LinkNext, WizardGoesOn, LoopStep, Actor

\* The device with what its proof needs, in every reachable state.
LEMMA InnerInvariant == LinkSpec => []LinkIInv
BY StartsWell, StepKeeps, PTL DEF LinkSpec

\* Whatever writes of a route change fail and wherever the process ends, the
\* saved route has its own provider keys once nothing is under way.
LEMMA KeysAgree == LinkIInv => KeysFollowRoute
BY DEF LinkIInv, KeysInStep, KeysSettled, KeysFollowRoute, AtRest, Actor

\* This installation never holds two receivers, never stores a credential the
\* relay did not issue, and its keys belong to its route, whatever requests,
\* answers and writes are lost and wherever the process ends.
THEOREM LinkCorrect == LinkSpec => []LinkInv
<1>1. LinkIInv => LinkInv
  BY KeysAgree DEF LinkIInv, LinkInv, OneReceiver, FileIssued
<1>. QED  BY <1>1, InnerInvariant, PTL
-----------------------------------------------------------------------------
(* What a step may never do.                                                *)

\* A change to a free route closes with no credential, or with one that waits for
\* its release.
LEMMA CloseReleases ==
    ASSUME LinkIInv, [LinkNext]_linkVars, journal[1] \in FreeRoute, journal' = NoJournal, Completes,
           route' = journal[1]
    PROVE  file' = Null \/ state' = "release_pending"
<1>1. journal # NoJournal
  BY DEF NoJournal
<1>2. CASE ~up
  <2>1. Restart
    BY <1>1, <1>2
    DEF LinkNext, WizardGoesOn, LoopStep, LoopStarts, ReadCredential, RelayReleases,
        Released, At, StartCheck, StartActivate, StartRelease, StartFree, RelayChecks,
        Checked, RelayPrepares, PrepareFailed, Store, StoreFails, RelayCommits,
        Committed, RelayUndoes, Undone, Begin, SaveKeys, MarkKeys, SaveRoute, MarkRoute,
        Close, Crash, Wait, RelayEnds, linkVars, deviceVars
  <2>. QED  BY <1>1, <2>1 DEF Restart, Recover
<1>3. CASE up /\ job["wizard"].phase = "close"
  <2>1. Close
    BY <1>1, <1>3
    DEF LinkNext, WizardGoesOn, LoopStep, LoopStarts, ReadCredential, RelayReleases,
        Released, At, StartCheck, StartActivate, StartRelease, StartFree, RelayChecks,
        Checked, RelayPrepares, PrepareFailed, Store, StoreFails, RelayCommits,
        Committed, RelayUndoes, Undone, Begin, SaveKeys, MarkKeys, SaveRoute, MarkRoute,
        Served, Crash, Restart, Wait, RelayEnds, linkVars, deviceVars
  <2>2. job["wizard"].goal = journal[1]
    BY <1>1, <1>3, <2>1 DEF Close, Changing, LinkIInv, ChangeInOrder
  <2>. QED  BY <1>3, <2>1, <2>2 DEF Close, LinkIInv, ChangeInOrder
<1>. QED  BY <1>2, <1>3 DEF Completes

\* A change to a free route that is completed, by its request or by the next
\* start, leaves no credential, or one that waits for its release.
THEOREM SwitchIsClean == LinkSpec => SwitchLeavesNoReceiver
<1>1. LinkIInv /\ [LinkNext]_linkVars
      => [/\ journal[1] \in FreeRoute /\ journal' = NoJournal /\ Completes
          /\ route' = journal[1]
          => file' = Null \/ state' = "release_pending"]_linkVars
  BY CloseReleases
<1>. QED  BY <1>1, InnerInvariant, PTL DEF LinkSpec, SwitchLeavesNoReceiver

\* A step that empties the file has released its receiver, or is one of the
\* exceptions.
LEMMA ForgetsReleased ==
    ASSUME LinkIInv, [LinkNext]_linkVars, file # Null, file' = Null
    PROVE  receiver[file] = "over" \/ ComesHomeToAnother \/ UndoUnheard \/ StorageFailed
<1>1. \/ StoreFails \/ Undone \/ Store
      \/ \E a \in Actor : Released(a)
  BY DEF LinkNext, WizardGoesOn, LoopStep, LoopStarts, ReadCredential, RelayReleases, Actor,
      StartCheck, StartActivate, StartRelease, StartFree, RelayChecks, Checked,
      RelayPrepares, PrepareFailed, RelayCommits, Committed, RelayUndoes, Served, Begin,
      SaveKeys, MarkKeys, SaveRoute, MarkRoute, Close, Crash, Restart, Wait, RelayEnds,
      linkVars, deviceVars
<1>2. CASE StoreFails \/ Store
  BY <1>2 DEF StoreFails, Store, At, StorageFailed
<1>3. CASE Undone
  BY <1>3 DEF Undone, At, UndoUnheard, LinkIInv, Carried, Actor
<1>4. ASSUME NEW a \in Actor, Released(a)
      PROVE  receiver[file] = "over" \/ ComesHomeToAnother
  BY <1>4 DEF Released, At, ComesHomeToAnother, LinkIInv, Carried
<1>. QED  BY <1>1, <1>2, <1>3, <1>4

\* The desktop forgets a credential only when the relay has let go of its
\* receiver, but for the three exceptions the property names.
THEOREM ReleasedFirst == LinkSpec => ReleasedBeforeForgotten
<1>1. LinkIInv /\ [LinkNext]_linkVars
      => [file # Null /\ file' = Null =>
            \/ receiver[file] = "over"
            \/ ComesHomeToAnother \/ UndoUnheard \/ StorageFailed]_linkVars
  BY ForgetsReleased
<1>. QED  BY <1>1, InnerInvariant, PTL DEF LinkSpec, ReleasedBeforeForgotten
=============================================================================
