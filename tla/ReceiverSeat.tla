---------------------------- MODULE ReceiverSeat ----------------------------
(***************************************************************************)
(* The single receiver seat of one Relay Access licence                    *)
(* (relay/access/service.py and operator.py): the rows of relay_activations *)
(* and the activation_grant and confirm_move rows of access_challenges.    *)
(*                                                                         *)
(* An installation prepares an activation, stores its credential and       *)
(* commits it; moving the seat from another installation needs a token     *)
(* that names the receiver to be replaced.  Holders, administrators,       *)
(* operators and the purchase authority revoke receivers meanwhile.  Every *)
(* operation is one SQLite transaction, so it is one action; an operation  *)
(* that raises is rolled back and is no action at all, and so is the       *)
(* replay of a commit that succeeded.                                      *)
(*                                                                         *)
(* A stored deadline is kept as the time left until it; Tick moves them.   *)
(* The kind and name a move token also has to match are left out: a caller *)
(* that sends others is refused, like one that never calls.                *)
(***************************************************************************)
EXTENDS Integers, FiniteSets

CONSTANTS
  Install,      \* installations
  Activation,   \* bound: activation ids that may be drawn
  Challenge,    \* bound: challenge ids that may be drawn
  Lifetime,     \* ten minutes
  None          \* no activation, challenge or installation

ASSUME SeatAssumption ==
  /\ Lifetime \in Nat \ {0}
  /\ None \notin Install \cup Activation \cup Challenge
  /\ Activation \cap Challenge = {}

VARIABLES
  entitled,   \* the licence is active and so is its purchase authority
  act,        \* relay_activations
  ch,         \* access_challenges
  seated,     \* history: activations that have held the seat
  disturbed,  \* history: preparations that saw the seat change while they waited
  voided      \* history: activations open at a revocation, and challenges open
              \* when an operator invalidated the licence

vars == <<entitled, act, ch, seated, disturbed, voided>>

-----------------------------------------------------------------------------
Status == {"unused", "pending_commit", "active", "replaced", "deactivated", "revoked"}
Purpose == {"unused", "activation_grant", "confirm_move"}

Unused == [status |-> "unused", install |-> None, expected |-> None,
           grant |-> None, move |-> None, left |-> 0]
Unissued == [purpose |-> "unused", install |-> None, subject |-> None,
             consumed |-> FALSE, left |-> 0]

TypeOK ==
  /\ entitled \in BOOLEAN
  /\ act \in [Activation -> [status: Status, install: Install \cup {None},
                             expected: Activation \cup {None},
                             grant: Challenge \cup {None},
                             move: Challenge \cup {None}, left: 0..Lifetime]]
  /\ ch \in [Challenge -> [purpose: Purpose, install: Install \cup {None},
                           subject: Activation \cup {None},
                           consumed: BOOLEAN, left: 0..Lifetime]]
  /\ seated \subseteq Activation
  /\ disturbed \subseteq Activation
  /\ voided \subseteq Activation \cup Challenge

Init ==
  /\ entitled = TRUE
  /\ act = [a \in Activation |-> Unused]
  /\ ch = [c \in Challenge |-> Unissued]
  /\ seated = {}
  /\ disturbed = {}
  /\ voided = {}

Pending(a) == act[a].status = "pending_commit"
Active(a) == act[a].status = "active"

\* The activation that holds the seat.
Seat == IF \E a \in Activation : Active(a) THEN CHOOSE a \in Activation : Active(a)
                                           ELSE None

\* _validate_challenge_row, for a row of the given purpose.
Valid(c, purpose) ==
  /\ ch[c].purpose = purpose
  /\ ~ch[c].consumed
  /\ ch[c].left > 0

\* A challenge with consumed_at set; its deadline means nothing more.
Consumed(c) == [ch[c] EXCEPT !.consumed = TRUE, !.left = 0]

-----------------------------------------------------------------------------
(* Preparing.                                                              *)

\* create_activation_grant: for a given installation or for any.
CreateGrant(c, i) ==
  /\ entitled
  /\ ch[c] = Unissued
  /\ ch' = [ch EXCEPT ![c] = [purpose |-> "activation_grant", install |-> i,
                              subject |-> None, consumed |-> FALSE, left |-> Lifetime]]
  /\ UNCHANGED <<entitled, act, voided>>

\* The caller shows a licence key or a verified store proof (None) or a grant.
Authorised(i, g) ==
  /\ entitled
  /\ g # None => Valid(g, "activation_grant") /\ ch[g].install \in {None, i}

\* Another installation holds the seat.
Moving(i) == Seat # None /\ act[Seat].install # i

Expired(a) == Pending(a) /\ act[a].left = 0

\* A row that leaves pending_commit or active; its deadline means nothing more.
Closed(a, status) == [act[a] EXCEPT !.status = status, !.left = 0]

\* activate without a token while another installation holds the seat: the
\* caller learns who holds it and gets a token to confirm the move.
OfferMove(i, g, c) ==
  /\ Authorised(i, g)
  /\ Moving(i)
  /\ ch[c] = Unissued
  /\ ch' = [ch EXCEPT ![c] = [purpose |-> "confirm_move", install |-> i,
                              subject |-> Seat, consumed |-> FALSE, left |-> Lifetime]]
  /\ act' = [a \in Activation |-> IF Expired(a)
                                  THEN Closed(a, "revoked") ELSE act[a]]
  /\ UNCHANGED <<entitled, voided>>

\* Mutated form of Confirmed: any open move token of this installation.
ConfirmedForAnyone(i, m) ==
  /\ m # None <=> Moving(i)
  /\ m # None => Valid(m, "confirm_move") /\ ch[m].install = i

\* A move, and nothing else, shows a token that was issued to this
\* installation and names the receiver that holds the seat now.
Confirmed(i, m) ==
  /\ m # None <=> Moving(i)
  /\ m # None => /\ Valid(m, "confirm_move")
                 /\ ch[m].install = i
                 /\ ch[m].subject = Seat

Prepared(i, g, m, status) ==
  [status |-> status, install |-> i, expected |-> Seat, grant |-> g, move |-> m,
   left |-> IF status = "active" THEN 0 ELSE Lifetime]

\* _activate_license_conn up to its end: earlier preparations, of whichever
\* installation, are revoked and a new credential waits for its commit.
Prepare(i, g, m, a) ==
  /\ Authorised(i, g)
  /\ Confirmed(i, m)
  /\ act[a] = Unused
  /\ act' = [b \in Activation |->
               IF b = a THEN Prepared(i, g, m, "pending_commit")
               ELSE IF Pending(b) THEN Closed(b, "revoked")
               ELSE act[b]]
  /\ UNCHANGED <<entitled, ch, voided>>

-----------------------------------------------------------------------------
(* Committing.                                                             *)

Consume(g, m) ==
  ch' = [c \in Challenge |-> IF c \in {g, m} THEN Consumed(c) ELSE ch[c]]

\* activate without prepare_only: _commit_prepared_activation_conn commits in
\* the transaction that prepared, with the seat and the challenges as just read.
Activate(i, g, m, a) ==
  /\ Authorised(i, g)
  /\ Confirmed(i, m)
  /\ act[a] = Unused
  /\ act' = [b \in Activation |->
               IF b = a THEN Prepared(i, g, m, "active")
               ELSE IF Pending(b) THEN Closed(b, "revoked")
               ELSE IF Active(b) THEN Closed(b, "replaced")
               ELSE act[b]]
  /\ Consume(g, m)
  /\ UNCHANGED <<entitled, voided>>

\* Mutated form of StillExpected: a seat that fell vacant is free for the taking.
StillExpectedOrVacant(a) == Seat \in {act[a].expected, None}

\* The seat is as the preparation found it.
StillExpected(a) == Seat = act[a].expected

\* Mutated form of StillAuthorised: the grant is not looked at again.
MoveStillAuthorised(a) ==
  act[a].move # None =>
    /\ Valid(act[a].move, "confirm_move")
    /\ ch[act[a].move].install = act[a].install
    /\ ch[act[a].move].subject = act[a].expected

\* The challenges the preparation rested on are read again.
StillAuthorised(a) ==
  /\ act[a].grant # None =>
       /\ Valid(act[a].grant, "activation_grant")
       /\ ch[act[a].grant].install \in {None, act[a].install}
  /\ act[a].move # None =>
       /\ Valid(act[a].move, "confirm_move")
       /\ ch[act[a].move].install \in {None, act[a].install}
       /\ ch[act[a].move].subject = act[a].expected

\* Mutated form of Committable: only a revoked or replaced row is refused.
CommittableAfterRelease(a) ==
  \/ Pending(a) /\ act[a].left > 0
  \/ act[a].status = "deactivated"

Committable(a) == Pending(a) /\ act[a].left > 0

\* commit_activation, called with a's credential by a's installation.
Commit(a) ==
  /\ Committable(a)
  /\ entitled
  /\ StillExpected(a)
  /\ StillAuthorised(a)
  /\ act' = [b \in Activation |->
               IF b = a THEN [act[b] EXCEPT !.status = "active", !.left = 0]
               ELSE IF Active(b) THEN Closed(b, "replaced")
               ELSE act[b]]
  /\ Consume(act[a].grant, act[a].move)
  /\ UNCHANGED <<entitled, voided>>

-----------------------------------------------------------------------------
(* Giving up and losing the seat.                                          *)

\* deactivate, called with a's credential by a's installation.
Deactivate(a) ==
  /\ Active(a) \/ Pending(a)
  /\ act' = [act EXCEPT ![a] = Closed(a, "deactivated")]
  /\ UNCHANGED <<entitled, ch, voided>>

\* UPDATE ... SET status='revoked' WHERE status IN ('active','pending_commit').
Revoked ==
  act' = [a \in Activation |-> IF Active(a) \/ Pending(a)
                               THEN Closed(a, "revoked")
                               ELSE act[a]]

Open == {a \in Activation : Active(a) \/ Pending(a)}

\* revoke_activation, admin_revoke_activation, rotate_license_key and
\* admin_rotate_license_key leave the licence active; admin_set_license_status
\* and a purchase that ends do not.  Challenges stay open.
RevokeReceivers ==
  /\ Revoked
  /\ voided' = voided \cup Open
  /\ entitled' \in {entitled, FALSE}
  /\ UNCHANGED ch

\* The operator console's invalidation closes the licence's challenges too.
OperatorInvalidate ==
  /\ Revoked
  /\ ch' = [c \in Challenge |-> IF ch[c] = Unissued THEN ch[c] ELSE Consumed(c)]
  /\ voided' = voided \cup Open
                      \cup {c \in Challenge : ch[c] # Unissued /\ ~ch[c].consumed}
  /\ entitled' \in {entitled, FALSE}

\* A subscription lapses and is paid again, an operator reactivates: the
\* activations stay as they are.
Entitle ==
  /\ entitled' = ~entitled
  /\ UNCHANGED <<act, ch, voided>>

\* Time passes; only steps that bring a deadline nearer are taken.
Tick ==
  /\ \/ \E a \in Activation : act[a].left > 0
     \/ \E c \in Challenge : ch[c].left > 0
  /\ act' = [a \in Activation |-> IF act[a].left > 0
                                  THEN [act[a] EXCEPT !.left = @ - 1] ELSE act[a]]
  /\ ch' = [c \in Challenge |-> IF ch[c].left > 0
                                THEN [ch[c] EXCEPT !.left = @ - 1] ELSE ch[c]]
  /\ UNCHANGED <<entitled, voided>>

Step ==
  \/ \E c \in Challenge, i \in Install \cup {None} : CreateGrant(c, i)
  \/ \E i \in Install, g \in Challenge \cup {None} :
       \/ \E c \in Challenge : OfferMove(i, g, c)
       \/ \E m \in Challenge \cup {None}, a \in Activation :
            Prepare(i, g, m, a) \/ Activate(i, g, m, a)
  \/ \E a \in Activation : Commit(a) \/ Deactivate(a)
  \/ RevokeReceivers \/ OperatorInvalidate \/ Entitle \/ Tick

\* Who has held the seat, and which preparations wait on while it changes.
Observe ==
  /\ seated' = seated \cup {a \in Activation : Active(a)'}
  /\ disturbed' = disturbed \cup {a \in Activation : Pending(a) /\ Pending(a)' /\ Seat' # Seat}

Next == Step /\ Observe

Spec == Init /\ [][Next]_vars

-----------------------------------------------------------------------------
(* Properties.                                                             *)

\* One receiver holds the seat and one preparation waits for it, at most: the
\* two unique indexes never refuse a row the code writes.
SeatInv ==
  \A a, b \in Activation : a # b =>
    /\ ~(Active(a) /\ Active(b))
    /\ ~(Pending(a) /\ Pending(b))

\* A credential prepared before a revocation never gets the seat after it, and
\* a grant or move token that an operator's invalidation found open seats nobody.
NothingSurvivesRevocation ==
  \A a \in Activation : Active(a) => voided \cap {a, act[a].grant, act[a].move} = {}

\* A grant or a move token seats one activation, however many preparations it
\* was shown for.
AuthorisationsSpentOnce ==
  \A a, b \in seated : a # b =>
    {act[a].grant, act[a].move} \cap {act[b].grant, act[b].move} \subseteq {None}

\* A preparation commits only if nobody else took or left the seat since.
UndisturbedCommit == \A a \in Activation : Active(a) => a \notin disturbed

Seats(a) == ~Active(a) /\ Active(a)'

\* An installation takes the seat of another one only with an open token that
\* was issued to it and names the activation that loses the seat.
MovedByConsent ==
  [][\A a, b \in Activation :
       Seats(a) /\ Active(b) /\ act[b].install # act[a]'.install =>
         LET m == act[a]'.move IN
         /\ m # None
         /\ Valid(m, "confirm_move")
         /\ ch[m].install = act[a]'.install
         /\ ch[m].subject = b]_vars

\* A grant that was open at preparation is open when the seat is taken on it.
SeatedOnOpenGrant ==
  [][\A a \in Activation : Seats(a) /\ act[a]'.grant # None =>
       Valid(act[a]'.grant, "activation_grant")]_vars

-----------------------------------------------------------------------------
(* What makes the properties above inductive.                              *)

\* Holders, and only activations that are past waiting, have been seated; each
\* used up what authorised it.
SeatedRecord ==
  /\ \A a \in Activation : Active(a) => a \in seated
  /\ \A a \in seated :
       /\ act[a].status \in {"active", "replaced", "deactivated", "revoked"}
       /\ \A c \in {act[a].grant, act[a].move} \ {None} : ch[c].consumed

\* A preparation the seat was quiet for still names the seat; one that saw the
\* seat change names a receiver that has lost it for good.
WaitRecord ==
  /\ \A a \in disturbed : act[a].status # "unused"
  /\ \A a \in Activation : Pending(a) =>
       IF a \in disturbed THEN /\ act[a].expected \in seated
                              /\ ~Active(act[a].expected)
                         ELSE act[a].expected = Seat

\* A preparation that would move the seat rests on a move token, and a move
\* token names its installation.
MoveRecord ==
  /\ \A a \in Activation :
       Pending(a) /\ act[a].expected # None
                  /\ act[act[a].expected].install # act[a].install => act[a].move # None
  /\ \A c \in Challenge : ch[c].purpose = "confirm_move" => ch[c].install # None

\* Whatever was voided is closed.
VoidRecord ==
  /\ \A a \in voided \cap Activation :
       act[a].status \in {"replaced", "deactivated", "revoked"}
  /\ \A c \in voided \cap Challenge : ch[c].consumed

\* The inductive invariant.
ReceiverInv ==
  /\ TypeOK
  /\ SeatInv
  /\ SeatedRecord
  /\ WaitRecord
  /\ MoveRecord
  /\ VoidRecord
  /\ NothingSurvivesRevocation
  /\ AuthorisationsSpentOnce
  /\ UndisturbedCommit

-----------------------------------------------------------------------------
Abstract == INSTANCE OneSeat WITH
  Credential <- Activation, holder <- Seat, spent <- seated

\* The seat is handled as OneSeat says.
ImplementsOneSeat == Abstract!Spec
=============================================================================
