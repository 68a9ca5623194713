----------------------- MODULE RemoteCompanion_proofs -----------------------
(***************************************************************************)
(* Proofs about RemoteCompanion, for every set of requests, calls and        *)
(* activations, and every value of the limits and bounds.  An answer that     *)
(* says a request was carried out is traced back from the call through its    *)
(* future, the message under its id and the host's reply to a run the host      *)
(* counted; and a run is counted only for a request that the host had not       *)
(* seen since it last lost its id, by a restart or after ten minutes.           *)
(***************************************************************************)
EXTENDS RemoteCompanion, FiniteSetTheorems, TLAPS

\* The numbers among the constants, and None.
LEMMA Bounds ==
    /\ MaxSessions \in Nat /\ MaxPending \in Nat \ {0}
    /\ MaxChanges \in Nat /\ MaxFaults \in Nat /\ MaxLapses \in Nat
    /\ None \notin Activation /\ None \notin Call /\ None \notin Request
    /\ None \notin Session
BY CompanionAssumption DEF Session

USE Bounds
-----------------------------------------------------------------------------
(* The inductive invariant.                                                 *)

\* Whoever says that a request was carried out has it from the host that did.
Earned ==
    /\ \A c \in Call : future[c] = "done" => runs[id[c]] > 0
    /\ \A s \in Session : \A i \in DOMAIN up[s] :
          up[s][i].kind = "done" => runs[up[s][i].id] > 0
    /\ work.phase = "reply" /\ work.kind = "done" => runs[work.id] > 0

\* What the host is at is a request it has, or an answer to one.
AtARequest ==
    /\ work.phase # "none" => work.id \in Request
    /\ work.phase = "reply" => work.kind \in {"done", "rejected"}

\* A request whose id the host does not remember was carried out no more often than
\* the host lost its id, and so was the one it is about to carry out, whose id it has
\* just taken in.
Remembered ==
    /\ \A r \in Request : r \notin seen => runs[r] <= lapses[r]
    /\ work.phase = "run" => work.id \in seen /\ runs[work.id] <= lapses[work.id]

\* The ids in a session's pending can be counted.
Countable == \A s \in Session : IsFiniteSet(Entries(s))

\* The invariants of the companion, and what they need.
CompanionIInv ==
    /\ CompanionInv
    /\ Earned
    /\ AtARequest
    /\ Remembered
    /\ Countable
-----------------------------------------------------------------------------
(* The entries of a session.                                                *)

\* Entries that are only taken out stay few.
LEMMA FewerEntries ==
    ASSUME Countable, PendingBounded, \A s \in Session : Entries(s)' \subseteq Entries(s)
    PROVE  Countable' /\ PendingBounded'
<1>. SUFFICES ASSUME NEW s \in Session
              PROVE  IsFiniteSet(Entries(s)') /\ Cardinality(Entries(s)') <= MaxPending
  BY DEF Countable, PendingBounded, Unanswered
<1>1. IsFiniteSet(Entries(s)) /\ Cardinality(Entries(s)) <= MaxPending
  BY DEF Countable, PendingBounded, Unanswered
<1>2. Entries(s)' \subseteq Entries(s)
  OBVIOUS
<1>. HIDE DEF Entries
<1>3. /\ IsFiniteSet(Entries(s)')
      /\ Cardinality(Entries(s)') <= Cardinality(Entries(s))
      /\ Cardinality(Entries(s)) \in Nat /\ Cardinality(Entries(s)') \in Nat
  BY <1>1, <1>2, FS_Subset, FS_CardinalityType
<1>. QED  BY <1>1, <1>3

\* One entry more is room enough for one that had room.
LEMMA OneEntryMore ==
    ASSUME Countable, PendingBounded, NEW t \in Session, Room(t), NEW r,
           Entries(t)' \subseteq Entries(t) \cup {r},
           \A s \in Session : s # t => Entries(s)' = Entries(s)
    PROVE  Countable' /\ PendingBounded'
<1>1. /\ IsFiniteSet(Entries(t)) /\ Cardinality(Entries(t)) < MaxPending
  BY DEF Countable, Room, Unanswered
<1>2. /\ IsFiniteSet(Entries(t) \cup {r}) /\ IsFiniteSet(Entries(t)')
      /\ Cardinality(Entries(t)') <= Cardinality(Entries(t) \cup {r})
  BY <1>1, FS_AddElement, FS_Subset
<1>3. Cardinality(Entries(t) \cup {r}) <= Cardinality(Entries(t)) + 1
  <2>1. CASE r \in Entries(t)
    <3>1. Entries(t) \cup {r} = Entries(t)
      BY <2>1
    <3>2. Cardinality(Entries(t) \cup {r}) = Cardinality(Entries(t))
      BY <3>1, Zenon
    <3>. QED  BY <1>1, <3>2, FS_CardinalityType
  <2>2. CASE r \notin Entries(t)
    <3>1. Cardinality(Entries(t) \cup {r}) = Cardinality(Entries(t)) + 1
      BY <1>1, <2>2, FS_AddElement
    <3>. QED  BY <1>1, <3>1, FS_CardinalityType
  <2>. QED  BY <2>1, <2>2
<1>4. /\ Cardinality(Entries(t)) \in Nat /\ Cardinality(Entries(t)') \in Nat
      /\ Cardinality(Entries(t) \cup {r}) \in Nat
  BY <1>1, <1>2, FS_CardinalityType
<1>5. Cardinality(Entries(t)') <= MaxPending
  BY <1>1, <1>2, <1>3, <1>4
<1>. QED
  BY <1>2, <1>5 DEF Countable, PendingBounded, Unanswered

\* What a session's pending holds after one entry is set.
LEMMA EntrySet ==
    ASSUME TypeOK, NEW t \in Session, NEW q \in Request, NEW v \in Call \cup {None},
           pending' = [pending EXCEPT ![t][q] = v]
    PROVE  /\ pending' \in [Session -> [Request -> Call \cup {None}]]
           /\ \A s \in Session, r \in Request :
                 pending'[s][r] = IF s = t /\ r = q THEN v ELSE pending[s][r]
BY DEF TypeOK
-----------------------------------------------------------------------------
(* Every step keeps the invariant.                                          *)

\* The seat passes to another activation, or to none: sessions and calls stand as
\* they are until they look at it.
LEMMA ChangeSeatKeeps ==
    ASSUME CompanionIInv, NEW a \in Activation \cup {None}, ChangeSeat(a)
    PROVE  CompanionIInv'
<1>1. TypeOK'
  BY DEF ChangeSeat, relayVars, callVars, hostVars, netVars, CompanionIInv,
      CompanionInv, TypeOK
<1>2. SessionsKnown'
  BY DEF ChangeSeat, relayVars, callVars, netVars, CompanionIInv, CompanionInv,
      SessionsKnown
<1>3. NoLeftovers'
  BY DEF ChangeSeat, callVars, CompanionIInv, CompanionInv, NoLeftovers
<1>4. PlaceKept'
  BY DEF ChangeSeat, callVars, CompanionIInv, CompanionInv, PlaceKept, Undisturbed
<1>5. LatestServes'
  BY DEF ChangeSeat, relayVars, CompanionIInv, CompanionInv, LatestServes
<1>6. PendingBounded'
  BY DEF ChangeSeat, callVars, CompanionIInv, CompanionInv, PendingBounded, Unanswered,
      Entries
<1>7. AnswersEarned'
  BY DEF ChangeSeat, callVars, hostVars, CompanionIInv, CompanionInv, AnswersEarned
<1>8. CarriedOutOnce'
  BY DEF ChangeSeat, hostVars, CompanionIInv, CompanionInv, CarriedOutOnce
<1>9. Earned'
  BY DEF ChangeSeat, callVars, hostVars, netVars, CompanionIInv, CompanionInv, Earned
<1>10. AtARequest'
  BY DEF ChangeSeat, callVars, hostVars, CompanionIInv, CompanionInv, AtARequest
<1>11. Remembered'
  BY DEF ChangeSeat, callVars, hostVars, CompanionIInv, CompanionInv, Remembered
<1>12. Countable'
  BY DEF ChangeSeat, callVars, CompanionIInv, CompanionInv, Countable, Entries
<1>. QED
  BY <1>1, <1>2, <1>3, <1>4, <1>5, <1>6, <1>7, <1>8, <1>9, <1>10, <1>11, <1>12
  DEF CompanionIInv, CompanionInv

\* A session comes in and replaces the registered one (remote_companion_host_ws
\* before its first await): the replaced one keeps its own futures.
LEMMA AcceptKeeps ==
    ASSUME CompanionIInv, NEW s \in Session, Accept(s)
    PROVE  CompanionIInv'
<1>1. TypeOK'
  BY DEF Accept, Register, Fail, hostVars, CompanionIInv, CompanionInv, TypeOK
<1>2. SessionsKnown'
  BY DEF Accept, Register, Fail, CompanionIInv, CompanionInv, TypeOK, SessionsKnown
<1>3. NoLeftovers'
  BY DEF Accept, callVars, CompanionIInv, CompanionInv, NoLeftovers
<1>4. PlaceKept'
  BY DEF Accept, Register, Fail, CompanionIInv, CompanionInv, PlaceKept, Undisturbed
<1>5. LatestServes'
  BY DEF Accept, Register, Fail, CompanionIInv, CompanionInv, TypeOK, LatestServes
<1>6. PendingBounded'
  BY DEF Accept, CompanionIInv, CompanionInv, PendingBounded, Unanswered, Entries
<1>7. AnswersEarned'
  BY DEF Accept, callVars, hostVars, CompanionIInv, CompanionInv, AnswersEarned
<1>8. CarriedOutOnce'
  BY DEF Accept, hostVars, CompanionIInv, CompanionInv, CarriedOutOnce
<1>9. Earned'
  BY DEF Accept, Register, Fail, hostVars, CompanionIInv, CompanionInv, Earned
<1>10. AtARequest'
  BY DEF Accept, callVars, hostVars, CompanionIInv, CompanionInv, AtARequest
<1>11. Remembered'
  BY DEF Accept, callVars, hostVars, CompanionIInv, CompanionInv, Remembered
<1>12. Countable'
  BY DEF Accept, callVars, CompanionIInv, CompanionInv, Countable, Entries
<1>. QED
  BY <1>1, <1>2, <1>3, <1>4, <1>5, <1>6, <1>7, <1>8, <1>9, <1>10, <1>11, <1>12
  DEF CompanionIInv, CompanionInv

\* The registration fails half way, and leaves a session that is known but serves
\* nothing.
LEMMA AcceptFailsKeeps ==
    ASSUME CompanionIInv, NEW s \in Session, AcceptFails(s)
    PROVE  CompanionIInv'
<1>1. TypeOK'
  BY DEF AcceptFails, Register, Fail, Fault, hostVars, CompanionIInv, CompanionInv,
      TypeOK
<1>2. SessionsKnown'
  BY DEF AcceptFails, Register, CompanionIInv, CompanionInv, TypeOK, SessionsKnown
<1>3. NoLeftovers'
  BY DEF AcceptFails, callVars, CompanionIInv, CompanionInv, NoLeftovers
<1>4. PlaceKept'
  BY DEF AcceptFails, Register, Fail, CompanionIInv, CompanionInv, PlaceKept,
      Undisturbed
<1>5. LatestServes'
  BY DEF AcceptFails, Register, Fail, Fault, CompanionIInv, CompanionInv, LatestServes
<1>6. PendingBounded'
  BY DEF AcceptFails, CompanionIInv, CompanionInv, PendingBounded, Unanswered, Entries
<1>7. AnswersEarned'
  BY DEF AcceptFails, callVars, hostVars, CompanionIInv, CompanionInv, AnswersEarned
<1>8. CarriedOutOnce'
  BY DEF AcceptFails, hostVars, CompanionIInv, CompanionInv, CarriedOutOnce
<1>9. Earned'
  BY DEF AcceptFails, Register, Fail, hostVars, CompanionIInv, CompanionInv, Earned
<1>10. AtARequest'
  BY DEF AcceptFails, callVars, hostVars, CompanionIInv, CompanionInv, AtARequest
<1>11. Remembered'
  BY DEF AcceptFails, Fault, hostVars, CompanionIInv, CompanionInv, TypeOK, Remembered
<1>12. Countable'
  BY DEF AcceptFails, callVars, CompanionIInv, CompanionInv, Countable, Entries
<1>. QED
  BY <1>1, <1>2, <1>3, <1>4, <1>5, <1>6, <1>7, <1>8, <1>9, <1>10, <1>11, <1>12
  DEF CompanionIInv, CompanionInv

\* A ticket that is never used: it ran out, or its handshake was lost.
LEMMA LostKeeps ==
    ASSUME CompanionIInv, NEW s \in Session, Lost(s), faults' \in faults..MaxFaults
    PROVE  CompanionIInv'
<1>1. TypeOK'
  BY DEF Lost, callVars, hostVars, CompanionIInv, CompanionInv, TypeOK
<1>2. SessionsKnown'
  BY DEF Lost, relayVars, callVars, netVars, CompanionIInv, CompanionInv, SessionsKnown
<1>3. NoLeftovers'
  BY DEF Lost, callVars, CompanionIInv, CompanionInv, NoLeftovers
<1>4. PlaceKept'
  BY DEF Lost, callVars, CompanionIInv, CompanionInv, PlaceKept, Undisturbed
<1>5. LatestServes'
  BY DEF Lost, relayVars, CompanionIInv, CompanionInv, LatestServes
<1>6. PendingBounded'
  BY DEF Lost, callVars, CompanionIInv, CompanionInv, PendingBounded, Unanswered,
      Entries
<1>7. AnswersEarned'
  BY DEF Lost, callVars, hostVars, CompanionIInv, CompanionInv, AnswersEarned
<1>8. CarriedOutOnce'
  BY DEF Lost, hostVars, CompanionIInv, CompanionInv, CarriedOutOnce
<1>9. Earned'
  BY DEF Lost, callVars, hostVars, netVars, CompanionIInv, CompanionInv, Earned
<1>10. AtARequest'
  BY DEF Lost, callVars, hostVars, CompanionIInv, CompanionInv, AtARequest
<1>11. Remembered'
  BY DEF Lost, callVars, hostVars, CompanionIInv, CompanionInv, TypeOK, Remembered
<1>12. Countable'
  BY DEF Lost, callVars, CompanionIInv, CompanionInv, Countable, Entries
<1>. QED
  BY <1>1, <1>2, <1>3, <1>4, <1>5, <1>6, <1>7, <1>8, <1>9, <1>10, <1>11, <1>12
  DEF CompanionIInv, CompanionInv

\* The relay reads the oldest answer of a session and settles the future filed under
\* its id, if there is one: the answer reaches the call of that id or nobody.
LEMMA ReceiveKeeps ==
    ASSUME CompanionIInv, NEW s \in Session, Receive(s)
    PROVE  CompanionIInv'
<1>. DEFINE m == Head(up[s])
            c == pending[s][m.id]
<1>a. /\ up[s] \in Seq(Answer) /\ up[s] # <<>> /\ Tail(up[s]) \in Seq(Answer)
      /\ m \in Answer /\ m.id \in Request /\ m.kind \in {"done", "rejected"}
      /\ 1 \in DOMAIN up[s] /\ m = up[s][1]
      /\ m.kind = "done" => runs[m.id] > 0
  <2>1. up[s] \in Seq(Answer) /\ up[s] # <<>>
    BY DEF Receive, CompanionIInv, CompanionInv, TypeOK
  <2>2. m \in Answer /\ Tail(up[s]) \in Seq(Answer) /\ 1 \in DOMAIN up[s] /\ m = up[s][1]
    BY <2>1
  <2>. QED  BY <2>1, <2>2 DEF Answer, CompanionIInv, Earned
<1>b. /\ up' = [up EXCEPT ![s] = Tail(up[s])]
      /\ UNCHANGED <<seat, act, registered, latest, late, id, at, via, agent, work, seen,
                     runs, lapses, cut, down, changes, faults>>
  BY DEF Receive, hostVars
<1>c. /\ pending \in [Session -> [Request -> Call \cup {None}]]
      /\ future \in [Call -> {"open", "done", "rejected", "lost"}]
      /\ c \in Call \cup {None}
  BY <1>a DEF CompanionIInv, CompanionInv, TypeOK
<1>d. \/ UNCHANGED <<pending, future>>
      \/ /\ c \in Call
         /\ pending' = [pending EXCEPT ![s][m.id] = None]
         /\ future' = IF future[c] = "open" THEN [future EXCEPT ![c] = m.kind] ELSE future
  BY <1>c DEF Receive, Resolve
<1>e. /\ pending' \in [Session -> [Request -> Call \cup {None}]]
      /\ \A t \in Session, r \in Request :
            pending'[t][r] = pending[t][r] \/ (pending'[t][r] = None /\ t = s /\ r = m.id)
  BY <1>c, <1>d, EntrySet DEF CompanionIInv, CompanionInv
<1>f. /\ future' \in [Call -> {"open", "done", "rejected", "lost"}]
      /\ \A d \in Call : \/ future'[d] = future[d]
                         \/ d = c /\ future'[d] = m.kind
  BY <1>a, <1>c, <1>d
<1>g. pending' = pending \/ (c \in Call /\ future'[c] # "open")
  BY <1>a, <1>c, <1>d
<1>. HIDE DEF m
<1>1. TypeOK'
  <2>1. up' \in [Session -> Seq(Answer)]
    BY <1>a, <1>b DEF CompanionIInv, CompanionInv, TypeOK
  <2>2. coro' \in [Session -> {"free", "ticket", "loop", "closing", "ended"}]
    BY DEF Receive, CompanionIInv, CompanionInv, TypeOK
  <2>. QED  BY <1>b, <1>e, <1>f, <2>1, <2>2 DEF CompanionIInv, CompanionInv, TypeOK
<1>2. SessionsKnown'
  BY DEF Receive, Resolve, Answer, CompanionIInv, CompanionInv, TypeOK, SessionsKnown
<1>3. NoLeftovers'
  BY <1>b, <1>e DEF CompanionIInv, CompanionInv, NoLeftovers
<1>4. PlaceKept'
  <2>1. SUFFICES ASSUME NEW d \in Call, at[d] \in {"send", "wait"}, future'[d] = "open",
                        Undisturbed(d)
                 PROVE  pending'[via[d]][id[d]] = d
    BY <1>b DEF PlaceKept, Undisturbed
  <2>2. future[d] = "open"
    BY <1>a, <1>f, <2>1
  <2>3. pending[via[d]][id[d]] = d /\ via[d] \in Session /\ id[d] \in Request
    BY <2>1, <2>2 DEF CompanionIInv, CompanionInv, PlaceKept, TypeOK, SessionsKnown
  <2>4. CASE pending' = pending
    BY <2>3, <2>4
  <2>5. CASE c \in Call /\ future'[c] # "open"
    <3>1. d # c
      BY <2>1, <2>5
    <3>2. ~(via[d] = s /\ id[d] = m.id)
      BY <2>3, <3>1
    <3>. QED  BY <1>e, <2>3, <3>2
  <2>. QED  BY <1>g, <2>4, <2>5
<1>5. LatestServes'
  BY DEF Receive, Resolve, Answer, CompanionIInv, CompanionInv, TypeOK, LatestServes
<1>6. PendingBounded'
  BY FewerEntries, <1>e DEF Entries, CompanionIInv, CompanionInv
<1>7. AnswersEarned'
  BY DEF Receive, callVars, hostVars, CompanionIInv, CompanionInv, AnswersEarned
<1>8. CarriedOutOnce'
  BY DEF Receive, hostVars, CompanionIInv, CompanionInv, CarriedOutOnce
<1>9. Earned'
  <2>1. \A d \in Call : future'[d] = "done" => runs[id[d]] > 0
    <3>1. c \in Call => id[c] = m.id
      BY <1>a, <1>c DEF CompanionIInv, CompanionInv, NoLeftovers
    <3>. QED  BY <1>a, <1>f, <3>1 DEF CompanionIInv, Earned
  <2>2. \A t \in Session : \A i \in DOMAIN up'[t] :
           up'[t][i].kind = "done" => runs[up'[t][i].id] > 0
    <3>1. \A i \in DOMAIN Tail(up[s]) : i + 1 \in DOMAIN up[s] /\ Tail(up[s])[i] = up[s][i + 1]
      BY <1>a
    <3>2. up'[s] = Tail(up[s]) /\ \A t \in Session : t # s => up'[t] = up[t]
      BY <1>b DEF CompanionIInv, CompanionInv, TypeOK
    <3>3. \A i \in DOMAIN up[s] : up[s][i].kind = "done" => runs[up[s][i].id] > 0
      BY DEF CompanionIInv, Earned
    <3>4. \A i \in DOMAIN up'[s] : up'[s][i].kind = "done" => runs[up'[s][i].id] > 0
      BY <3>1, <3>2, <3>3
    <3>. QED  BY <3>2, <3>4 DEF CompanionIInv, Earned
  <2>. QED  BY <1>b, <2>1, <2>2 DEF CompanionIInv, Earned
<1>10. AtARequest'
  BY DEF Receive, callVars, hostVars, CompanionIInv, CompanionInv, AtARequest
<1>11. Remembered'
  BY DEF Receive, callVars, hostVars, CompanionIInv, CompanionInv, Remembered
<1>12. Countable'
  BY FewerEntries, <1>e DEF Entries, CompanionIInv, CompanionInv
<1>. QED
  BY <1>1, <1>2, <1>3, <1>4, <1>5, <1>6, <1>7, <1>8, <1>9, <1>10, <1>11, <1>12
  DEF CompanionIInv, CompanionInv

\* A heartbeat finds a session whose authority is gone.
LEMMA BeatKeeps ==
    ASSUME CompanionIInv, NEW s \in Session, Beat(s)
    PROVE  CompanionIInv'
<1>1. TypeOK'
  BY DEF Beat, callVars, hostVars, netVars, CompanionIInv, CompanionInv, TypeOK
<1>2. SessionsKnown'
  BY DEF Beat, relayVars, callVars, netVars, CompanionIInv, CompanionInv, SessionsKnown
<1>3. NoLeftovers'
  BY DEF Beat, callVars, CompanionIInv, CompanionInv, NoLeftovers
<1>4. PlaceKept'
  BY DEF Beat, callVars, CompanionIInv, CompanionInv, PlaceKept, Undisturbed
<1>5. LatestServes'
  BY DEF Beat, relayVars, CompanionIInv, CompanionInv, LatestServes
<1>6. PendingBounded'
  BY DEF Beat, callVars, CompanionIInv, CompanionInv, PendingBounded, Unanswered,
      Entries
<1>7. AnswersEarned'
  BY DEF Beat, callVars, hostVars, CompanionIInv, CompanionInv, AnswersEarned
<1>8. CarriedOutOnce'
  BY DEF Beat, hostVars, CompanionIInv, CompanionInv, CarriedOutOnce
<1>9. Earned'
  BY DEF Beat, callVars, hostVars, netVars, CompanionIInv, CompanionInv, Earned
<1>10. AtARequest'
  BY DEF Beat, callVars, hostVars, CompanionIInv, CompanionInv, AtARequest
<1>11. Remembered'
  BY DEF Beat, callVars, hostVars, CompanionIInv, CompanionInv, Remembered
<1>12. Countable'
  BY DEF Beat, callVars, CompanionIInv, CompanionInv, Countable, Entries
<1>. QED
  BY <1>1, <1>2, <1>3, <1>4, <1>5, <1>6, <1>7, <1>8, <1>9, <1>10, <1>11, <1>12
  DEF CompanionIInv, CompanionInv

\* A session ends: its futures are lost, and it is the registered one no more.
LEMMA EndKeeps ==
    ASSUME CompanionIInv, NEW s \in Session, End(s), faults' \in faults..MaxFaults
    PROVE  CompanionIInv'
<1>1. TypeOK'
  BY DEF End, Fail, hostVars, CompanionIInv, CompanionInv, TypeOK
<1>2. SessionsKnown'
  BY DEF End, relayVars, callVars, netVars, CompanionIInv, CompanionInv, SessionsKnown
<1>3. NoLeftovers'
  BY DEF End, callVars, CompanionIInv, CompanionInv, NoLeftovers
<1>4. PlaceKept'
  BY DEF End, Fail, callVars, CompanionIInv, CompanionInv, PlaceKept, Undisturbed
<1>5. LatestServes'
  BY DEF End, Fail, relayVars, CompanionIInv, CompanionInv, TypeOK, LatestServes
<1>6. PendingBounded'
  BY DEF End, Fail, CompanionIInv, CompanionInv, PendingBounded, Unanswered, Entries
<1>7. AnswersEarned'
  BY DEF End, callVars, hostVars, CompanionIInv, CompanionInv, AnswersEarned
<1>8. CarriedOutOnce'
  BY DEF End, hostVars, CompanionIInv, CompanionInv, CarriedOutOnce
<1>9. Earned'
  BY DEF End, Fail, hostVars, CompanionIInv, CompanionInv, Earned
<1>10. AtARequest'
  BY DEF End, callVars, hostVars, CompanionIInv, CompanionInv, AtARequest
<1>11. Remembered'
  BY DEF End, Fail, hostVars, CompanionIInv, CompanionInv, TypeOK, Remembered
<1>12. Countable'
  BY DEF End, callVars, CompanionIInv, CompanionInv, Countable, Entries
<1>. QED
  BY <1>1, <1>2, <1>3, <1>4, <1>5, <1>6, <1>7, <1>8, <1>9, <1>10, <1>11, <1>12
  DEF CompanionIInv, CompanionInv

\* A socket breaks, and what was under way in it is lost.
LEMMA BreakKeeps ==
    ASSUME CompanionIInv, NEW s \in Session, Break(s)
    PROVE  CompanionIInv'
<1>1. TypeOK'
  BY DEF Break, Fault, relayVars, callVars, hostVars, CompanionIInv, CompanionInv,
      TypeOK
<1>2. SessionsKnown'
  BY DEF Break, relayVars, callVars, netVars, CompanionIInv, CompanionInv, SessionsKnown
<1>3. NoLeftovers'
  BY DEF Break, callVars, CompanionIInv, CompanionInv, NoLeftovers
<1>4. PlaceKept'
  BY DEF Break, callVars, CompanionIInv, CompanionInv, PlaceKept, Undisturbed
<1>5. LatestServes'
  BY DEF Break, relayVars, CompanionIInv, CompanionInv, LatestServes
<1>6. PendingBounded'
  BY DEF Break, callVars, CompanionIInv, CompanionInv, PendingBounded, Unanswered,
      Entries
<1>7. AnswersEarned'
  BY DEF Break, callVars, hostVars, CompanionIInv, CompanionInv, AnswersEarned
<1>8. CarriedOutOnce'
  BY DEF Break, hostVars, CompanionIInv, CompanionInv, CarriedOutOnce
<1>9. Earned'
  BY DEF Break, callVars, hostVars, netVars, CompanionIInv, CompanionInv, Earned
<1>10. AtARequest'
  BY DEF Break, callVars, hostVars, CompanionIInv, CompanionInv, AtARequest
<1>11. Remembered'
  BY DEF Break, Fault, hostVars, CompanionIInv, CompanionInv, TypeOK, Remembered
<1>12. Countable'
  BY DEF Break, callVars, CompanionIInv, CompanionInv, Countable, Entries
<1>. QED
  BY <1>1, <1>2, <1>3, <1>4, <1>5, <1>6, <1>7, <1>8, <1>9, <1>10, <1>11, <1>12
  DEF CompanionIInv, CompanionInv

\* A call is filed under its id in the registered session, unless it is refused.
LEMMA SubmitKeeps ==
    ASSUME CompanionIInv, NEW c \in Call, Submit(c)
    PROVE  CompanionIInv'
<1>a. /\ at[c] = "idle"
      /\ UNCHANGED <<seat, coro, act, registered, latest, late, id, future, agent, work,
                     seen, runs, lapses, cut, down, up, changes, faults>>
  BY DEF Submit, Refuse, relayVars, hostVars, netVars
<1>b. /\ id[c] \in Request
      /\ registered # None => registered \in Session
      /\ pending \in [Session -> [Request -> Call \cup {None}]]
      /\ at \in [Call -> {"idle", "send", "wait"} \cup Outcome]
      /\ via \in [Call -> Session \cup {None}]
  BY DEF CompanionIInv, CompanionInv, TypeOK
<1>c. \/ /\ UNCHANGED <<via, pending>>
         /\ \E o \in {"offline", "refused", "busy"} : at' = [at EXCEPT ![c] = o]
      \/ /\ registered \in Session
         /\ Room(registered)
         /\ at' = [at EXCEPT ![c] = "send"]
         /\ via' = [via EXCEPT ![c] = registered]
         /\ pending' = [pending EXCEPT ![registered][id[c]] = c]
  BY <1>b DEF Submit, Refuse
<1>d. /\ at' \in [Call -> {"idle", "send", "wait"} \cup Outcome]
      /\ via' \in [Call -> Session \cup {None}]
      /\ \A d \in Call : d # c => at'[d] = at[d] /\ via'[d] = via[d]
  BY <1>b, <1>c DEF Outcome
<1>e. ASSUME NEW t \in Session, t = registered, pending' = [pending EXCEPT ![t][id[c]] = c]
      PROVE  /\ pending' \in [Session -> [Request -> Call \cup {None}]]
             /\ \A s \in Session, r \in Request :
                   pending'[s][r] = IF s = t /\ r = id[c] THEN c ELSE pending[s][r]
  BY <1>b, <1>e, EntrySet DEF CompanionIInv, CompanionInv
<1>f. \/ /\ UNCHANGED pending
         /\ at'[c] \notin {"idle", "send", "wait"}
         /\ via'[c] = via[c]
      \/ /\ registered \in Session
         /\ Room(registered)
         /\ at'[c] = "send"
         /\ via'[c] = registered
         /\ pending' \in [Session -> [Request -> Call \cup {None}]]
         /\ \A s \in Session, r \in Request :
               pending'[s][r] = IF s = registered /\ r = id[c] THEN c ELSE pending[s][r]
  BY <1>b, <1>c, <1>e
<1>g. Countable' /\ PendingBounded'
  <2>1. CASE UNCHANGED pending
    BY <2>1, FewerEntries DEF Entries, CompanionIInv, CompanionInv
  <2>2. ASSUME NEW t \in Session, Room(t),
               \A s \in Session, r \in Request :
                  pending'[s][r] = IF s = t /\ r = id[c] THEN c ELSE pending[s][r]
        PROVE  Countable' /\ PendingBounded'
    <3>1. /\ Entries(t)' \subseteq Entries(t) \cup {id[c]}
          /\ \A s \in Session : s # t => Entries(s)' = Entries(s)
      BY <2>2 DEF Entries
    <3>. QED  BY <2>2, <3>1, OneEntryMore DEF CompanionIInv, CompanionInv
  <2>. QED  BY <1>f, <2>1, <2>2
<1>1. TypeOK'
  <2>1. pending' \in [Session -> [Request -> Call \cup {None}]]
    BY <1>b, <1>f
  <2>. QED  BY <1>a, <1>d, <2>1 DEF CompanionIInv, CompanionInv, TypeOK
<1>2. SessionsKnown'
  BY <1>a, <1>d, <1>f DEF CompanionIInv, CompanionInv, SessionsKnown
<1>3. NoLeftovers'
  <2>1. \A s \in Session, r \in Request : pending[s][r] # c
    BY <1>a DEF CompanionIInv, CompanionInv, NoLeftovers
  <2>2. \A s \in Session, r \in Request :
           \/ pending'[s][r] = pending[s][r]
           \/ pending'[s][r] = c /\ at'[c] = "send" /\ via'[c] = s /\ id[c] = r
    BY <1>f
  <2>3. SUFFICES ASSUME NEW s \in Session, NEW r \in Request, pending'[s][r] # None
                 PROVE  LET e == pending'[s][r]
                        IN  id[e] = r /\ via'[e] = s /\ at'[e] \in {"send", "wait"}
    BY <1>a DEF NoLeftovers
  <2>4. CASE pending'[s][r] = pending[s][r]
    <3>1. pending[s][r] \in Call /\ pending[s][r] # c
      BY <1>b, <2>1, <2>3, <2>4
    <3>. QED  BY <1>d, <2>3, <2>4, <3>1 DEF CompanionIInv, CompanionInv, NoLeftovers
  <2>. QED  BY <2>2, <2>4
<1>4. PlaceKept'
  <2>1. SUFFICES ASSUME NEW d \in Call, at'[d] \in {"send", "wait"}, future'[d] = "open",
                        Undisturbed(d)'
                 PROVE  pending'[via'[d]][id[d]] = d
    BY <1>a DEF PlaceKept
  <2>2. CASE d = c
    BY <1>b, <1>f, <2>1, <2>2
  <2>3. CASE d # c
    <3>1. at'[c] # "idle"
      BY <1>f
    <3>2. id[d] # id[c]
      BY <1>a, <2>1, <2>3, <3>1 DEF Undisturbed
    <3>3. /\ Undisturbed(d) /\ at[d] \in {"send", "wait"} /\ future[d] = "open"
          /\ via'[d] = via[d]
      BY <1>a, <1>d, <2>1, <2>3, <3>2 DEF Undisturbed
    <3>4. pending[via[d]][id[d]] = d
      BY <3>3 DEF CompanionIInv, CompanionInv, PlaceKept
    <3>5. via[d] \in Session /\ id[d] \in Request
      BY <3>3 DEF CompanionIInv, CompanionInv, TypeOK, SessionsKnown
    <3>. QED  BY <1>f, <3>2, <3>3, <3>4, <3>5
  <2>. QED  BY <2>2, <2>3
<1>5. LatestServes'
  BY DEF Submit, relayVars, CompanionIInv, CompanionInv, LatestServes
<1>6. PendingBounded'
  BY <1>g
<1>7. AnswersEarned'
  BY DEF Submit, Refuse, hostVars, CompanionIInv, CompanionInv, TypeOK, AnswersEarned
<1>8. CarriedOutOnce'
  BY DEF Submit, hostVars, CompanionIInv, CompanionInv, CarriedOutOnce
<1>9. Earned'
  BY DEF Submit, Refuse, hostVars, netVars, CompanionIInv, CompanionInv, Earned
<1>10. AtARequest'
  BY DEF Submit, callVars, hostVars, CompanionIInv, CompanionInv, AtARequest
<1>11. Remembered'
  BY DEF Submit, callVars, hostVars, CompanionIInv, CompanionInv, Remembered
<1>12. Countable'
  BY <1>g
<1>. QED
  BY <1>1, <1>2, <1>3, <1>4, <1>5, <1>6, <1>7, <1>8, <1>9, <1>10, <1>11, <1>12
  DEF CompanionIInv, CompanionInv

\* A filed call goes to the host.
LEMMA SendKeeps ==
    ASSUME CompanionIInv, NEW c \in Call, Send(c)
    PROVE  CompanionIInv'
<1>1. TypeOK'
  <2>1. id[c] \in Request /\ at' = [at EXCEPT ![c] = "wait"]
    BY DEF Send, CompanionIInv, CompanionInv, TypeOK
  <2>2. \A s \in Session : down[s] \in Seq(Request) /\ Append(down[s], id[c]) \in Seq(Request)
    BY <2>1 DEF CompanionIInv, CompanionInv, TypeOK
  <2>3. down' \in [Session -> Seq(Request)]
    BY <2>2 DEF Send, CompanionIInv, CompanionInv, TypeOK
  <2>4. at' \in [Call -> {"idle", "send", "wait"} \cup Outcome]
    BY <2>1 DEF CompanionIInv, CompanionInv, TypeOK
  <2>. QED
    BY <2>3, <2>4 DEF Send, relayVars, hostVars, CompanionIInv, CompanionInv, TypeOK
<1>2. SessionsKnown'
  BY DEF Send, relayVars, callVars, netVars, CompanionIInv, CompanionInv, SessionsKnown
<1>3. NoLeftovers'
  BY DEF Send, callVars, CompanionIInv, CompanionInv, NoLeftovers
<1>4. PlaceKept'
  BY DEF Send, callVars, CompanionIInv, CompanionInv, PlaceKept, Undisturbed
<1>5. LatestServes'
  BY DEF Send, relayVars, CompanionIInv, CompanionInv, LatestServes
<1>6. PendingBounded'
  BY DEF Send, callVars, CompanionIInv, CompanionInv, PendingBounded, Unanswered,
      Entries
<1>7. AnswersEarned'
  BY DEF Send, callVars, hostVars, CompanionIInv, CompanionInv, AnswersEarned
<1>8. CarriedOutOnce'
  BY DEF Send, hostVars, CompanionIInv, CompanionInv, CarriedOutOnce
<1>9. Earned'
  BY DEF Send, callVars, hostVars, netVars, CompanionIInv, CompanionInv, Earned
<1>10. AtARequest'
  BY DEF Send, callVars, hostVars, CompanionIInv, CompanionInv, AtARequest
<1>11. Remembered'
  BY DEF Send, callVars, hostVars, CompanionIInv, CompanionInv, Remembered
<1>12. Countable'
  BY DEF Send, callVars, CompanionIInv, CompanionInv, Countable, Entries
<1>. QED
  BY <1>1, <1>2, <1>3, <1>4, <1>5, <1>6, <1>7, <1>8, <1>9, <1>10, <1>11, <1>12
  DEF CompanionIInv, CompanionInv

\* A call ends, however it does, and takes its entry out: an outcome that says the
\* request was carried out is its future's.
LEMMA DoneKeeps ==
    ASSUME CompanionIInv, NEW c \in Call, NEW outcome \in Outcome, at[c] \in {"send", "wait"},
           outcome = "done" => future[c] = "done", Done(c, outcome),
           UNCHANGED <<seat, relayVars, hostVars, netVars, changes, faults>>
    PROVE  CompanionIInv'
<1>1. TypeOK'
  BY DEF Done, relayVars, hostVars, netVars, CompanionIInv, CompanionInv, TypeOK
<1>2. SessionsKnown'
  BY DEF Done, Outcome, relayVars, netVars, CompanionIInv, CompanionInv, TypeOK,
      SessionsKnown
<1>3. NoLeftovers'
  BY DEF Done, Outcome, callVars, CompanionIInv, CompanionInv, TypeOK, NoLeftovers
<1>4. PlaceKept'
  BY DEF Done, Outcome, CompanionIInv, CompanionInv, TypeOK, PlaceKept, Undisturbed
<1>5. LatestServes'
  BY DEF relayVars, CompanionIInv, CompanionInv, LatestServes
<1>6. PendingBounded'
  <2>1. \A s \in Session, r \in Request : pending'[s][r] \in {pending[s][r], None}
    BY DEF Done, CompanionIInv, CompanionInv, TypeOK
  <2>. QED  BY <2>1, FewerEntries DEF Entries, CompanionIInv, CompanionInv
<1>7. AnswersEarned'
  BY DEF Done, hostVars, CompanionIInv, CompanionInv, AnswersEarned, Earned, AtARequest
<1>8. CarriedOutOnce'
  BY DEF hostVars, CompanionIInv, CompanionInv, CarriedOutOnce
<1>9. Earned'
  BY DEF Done, callVars, hostVars, netVars, CompanionIInv, CompanionInv, Earned
<1>10. AtARequest'
  BY DEF callVars, hostVars, CompanionIInv, CompanionInv, AtARequest
<1>11. Remembered'
  BY DEF callVars, hostVars, CompanionIInv, CompanionInv, Remembered
<1>12. Countable'
  <2>1. \A s \in Session, r \in Request : pending'[s][r] \in {pending[s][r], None}
    BY DEF Done, CompanionIInv, CompanionInv, TypeOK
  <2>. QED  BY <2>1, FewerEntries DEF Entries, CompanionIInv, CompanionInv
<1>. QED
  BY <1>1, <1>2, <1>3, <1>4, <1>5, <1>6, <1>7, <1>8, <1>9, <1>10, <1>11, <1>12
  DEF CompanionIInv, CompanionInv

\* The host asks for a ticket and opens its next session.
LEMMA GetTicketKeeps ==
    ASSUME CompanionIInv, NEW s \in Session, GetTicket(s)
    PROVE  CompanionIInv'
<1>1. TypeOK'
  BY DEF GetTicket, callVars, netVars, CompanionIInv, CompanionInv, TypeOK
<1>2. SessionsKnown'
  BY DEF GetTicket, relayVars, callVars, netVars, CompanionIInv, CompanionInv,
      SessionsKnown
<1>3. NoLeftovers'
  BY DEF GetTicket, callVars, CompanionIInv, CompanionInv, NoLeftovers
<1>4. PlaceKept'
  BY DEF GetTicket, callVars, CompanionIInv, CompanionInv, PlaceKept, Undisturbed
<1>5. LatestServes'
  BY DEF GetTicket, relayVars, CompanionIInv, CompanionInv, LatestServes
<1>6. PendingBounded'
  BY DEF GetTicket, callVars, CompanionIInv, CompanionInv, PendingBounded, Unanswered,
      Entries
<1>7. AnswersEarned'
  BY DEF GetTicket, callVars, hostVars, CompanionIInv, CompanionInv, AnswersEarned
<1>8. CarriedOutOnce'
  BY DEF GetTicket, hostVars, CompanionIInv, CompanionInv, CarriedOutOnce
<1>9. Earned'
  BY DEF GetTicket, callVars, hostVars, netVars, CompanionIInv, CompanionInv, Earned
<1>10. AtARequest'
  BY DEF GetTicket, callVars, hostVars, CompanionIInv, CompanionInv, AtARequest
<1>11. Remembered'
  BY DEF GetTicket, callVars, hostVars, CompanionIInv, CompanionInv, Remembered
<1>12. Countable'
  BY DEF GetTicket, callVars, CompanionIInv, CompanionInv, Countable, Entries
<1>. QED
  BY <1>1, <1>2, <1>3, <1>4, <1>5, <1>6, <1>7, <1>8, <1>9, <1>10, <1>11, <1>12
  DEF CompanionIInv, CompanionInv

\* The host leaves a session and forgets the request it was at.
LEMMA GiveUpKeeps ==
    ASSUME CompanionIInv, GiveUp
    PROVE  CompanionIInv'
<1>1. TypeOK'
  BY DEF GiveUp, Work, Free, relayVars, callVars, CompanionIInv, CompanionInv, TypeOK
<1>2. SessionsKnown'
  BY DEF GiveUp, relayVars, callVars, netVars, CompanionIInv, CompanionInv,
      SessionsKnown
<1>3. NoLeftovers'
  BY DEF GiveUp, callVars, CompanionIInv, CompanionInv, NoLeftovers
<1>4. PlaceKept'
  BY DEF GiveUp, callVars, CompanionIInv, CompanionInv, PlaceKept, Undisturbed
<1>5. LatestServes'
  BY DEF GiveUp, relayVars, CompanionIInv, CompanionInv, LatestServes
<1>6. PendingBounded'
  BY DEF GiveUp, callVars, CompanionIInv, CompanionInv, PendingBounded, Unanswered,
      Entries
<1>7. AnswersEarned'
  BY DEF GiveUp, callVars, hostVars, CompanionIInv, CompanionInv, AnswersEarned
<1>8. CarriedOutOnce'
  BY DEF GiveUp, hostVars, CompanionIInv, CompanionInv, CarriedOutOnce
<1>9. Earned'
  BY DEF GiveUp, Free, callVars, CompanionIInv, CompanionInv, Earned
<1>10. AtARequest'
  BY DEF GiveUp, Free, callVars, CompanionIInv, CompanionInv, AtARequest
<1>11. Remembered'
  BY DEF GiveUp, Free, callVars, CompanionIInv, CompanionInv, Remembered
<1>12. Countable'
  BY DEF GiveUp, callVars, CompanionIInv, CompanionInv, Countable, Entries
<1>. QED
  BY <1>1, <1>2, <1>3, <1>4, <1>5, <1>6, <1>7, <1>8, <1>9, <1>10, <1>11, <1>12
  DEF CompanionIInv, CompanionInv

\* The host stops waiting for a handshake, which may still come in.
LEMMA HandshakeTimeoutKeeps ==
    ASSUME CompanionIInv, HandshakeTimeout
    PROVE  CompanionIInv'
<1>1. TypeOK'
  BY DEF HandshakeTimeout, Fault, relayVars, callVars, CompanionIInv, CompanionInv,
      TypeOK
<1>2. SessionsKnown'
  BY DEF HandshakeTimeout, relayVars, callVars, netVars, CompanionIInv, CompanionInv,
      SessionsKnown
<1>3. NoLeftovers'
  BY DEF HandshakeTimeout, callVars, CompanionIInv, CompanionInv, NoLeftovers
<1>4. PlaceKept'
  BY DEF HandshakeTimeout, callVars, CompanionIInv, CompanionInv, PlaceKept, Undisturbed
<1>5. LatestServes'
  BY DEF HandshakeTimeout, relayVars, CompanionIInv, CompanionInv, LatestServes
<1>6. PendingBounded'
  BY DEF HandshakeTimeout, callVars, CompanionIInv, CompanionInv, PendingBounded,
      Unanswered, Entries
<1>7. AnswersEarned'
  BY DEF HandshakeTimeout, callVars, hostVars, CompanionIInv, CompanionInv,
      AnswersEarned
<1>8. CarriedOutOnce'
  BY DEF HandshakeTimeout, hostVars, CompanionIInv, CompanionInv, CarriedOutOnce
<1>9. Earned'
  BY DEF HandshakeTimeout, callVars, hostVars, netVars, CompanionIInv, CompanionInv,
      Earned
<1>10. AtARequest'
  BY DEF HandshakeTimeout, callVars, hostVars, CompanionIInv, CompanionInv, AtARequest
<1>11. Remembered'
  BY DEF HandshakeTimeout, Fault, callVars, CompanionIInv, CompanionInv, TypeOK,
      Remembered
<1>12. Countable'
  BY DEF HandshakeTimeout, callVars, CompanionIInv, CompanionInv, Countable, Entries
<1>. QED
  BY <1>1, <1>2, <1>3, <1>4, <1>5, <1>6, <1>7, <1>8, <1>9, <1>10, <1>11, <1>12
  DEF CompanionIInv, CompanionInv

\* The host takes the next request, and remembers it before it carries it out
\* (_handle_remote_request): an id it has seen is answered as rejected.
LEMMA TakeKeeps ==
    ASSUME CompanionIInv, Take
    PROVE  CompanionIInv'
<1>1. TypeOK'
  <2>1. /\ agent \in Session /\ Head(down[agent]) \in Request
        /\ Tail(down[agent]) \in Seq(Request)
    BY DEF Take, CompanionIInv, CompanionInv, TypeOK
  <2>2. down' \in [Session -> Seq(Request)]
    BY <2>1 DEF Take, CompanionIInv, CompanionInv, TypeOK
  <2>3. work' \in Work /\ seen' \subseteq Request
    BY <2>1 DEF Take, Work, CompanionIInv, CompanionInv, TypeOK
  <2>. QED
    BY <2>2, <2>3 DEF Take, relayVars, callVars, CompanionIInv, CompanionInv, TypeOK
<1>2. SessionsKnown'
  BY DEF Take, relayVars, callVars, netVars, CompanionIInv, CompanionInv, SessionsKnown
<1>3. NoLeftovers'
  BY DEF Take, callVars, CompanionIInv, CompanionInv, NoLeftovers
<1>4. PlaceKept'
  BY DEF Take, callVars, CompanionIInv, CompanionInv, PlaceKept, Undisturbed
<1>5. LatestServes'
  BY DEF Take, relayVars, CompanionIInv, CompanionInv, LatestServes
<1>6. PendingBounded'
  BY DEF Take, callVars, CompanionIInv, CompanionInv, PendingBounded, Unanswered,
      Entries
<1>7. AnswersEarned'
  BY DEF Take, callVars, hostVars, CompanionIInv, CompanionInv, AnswersEarned
<1>8. CarriedOutOnce'
  BY DEF Take, hostVars, CompanionIInv, CompanionInv, CarriedOutOnce
<1>9. Earned'
  BY DEF Take, callVars, hostVars, netVars, CompanionIInv, CompanionInv, Earned
<1>10. AtARequest'
  BY DEF Take, CompanionIInv, CompanionInv, TypeOK, AtARequest
<1>11. Remembered'
  BY DEF Take, CompanionIInv, CompanionInv, TypeOK, Remembered
<1>12. Countable'
  BY DEF Take, callVars, CompanionIInv, CompanionInv, Countable, Entries
<1>. QED
  BY <1>1, <1>2, <1>3, <1>4, <1>5, <1>6, <1>7, <1>8, <1>9, <1>10, <1>11, <1>12
  DEF CompanionIInv, CompanionInv

\* The host carries the request out: once for each time it was seen first.
LEMMA RunKeeps ==
    ASSUME CompanionIInv, Run
    PROVE  CompanionIInv'
<1>a. /\ work.phase = "run" /\ work.id \in Request
      /\ runs[work.id] \in Nat /\ runs[work.id] <= lapses[work.id]
      /\ lapses[work.id] \in Nat
      /\ work' \in Work
      /\ work'.phase = "reply" /\ work'.id = work.id
  <2>1. work \in Work /\ work.phase = "run"
    BY DEF Run, CompanionIInv, CompanionInv, TypeOK
  <2>2. work' \in Work /\ work'.phase = "reply" /\ work'.id = work.id
    BY <2>1 DEF Run, Work
  <2>. QED
    BY <2>1, <2>2 DEF CompanionIInv, CompanionInv, TypeOK, AtARequest, Remembered
<1>b. UNCHANGED <<seat, coro, act, registered, latest, late, id, at, via, future, pending,
                 agent, seen, lapses, cut, down, up, changes, faults>>
  BY DEF Run, relayVars, callVars, netVars
<1>c. runs' \in [Request -> Nat]
  <2>1. runs' = runs \/ runs' = [runs EXCEPT ![work.id] = runs[work.id] + 1]
    BY DEF Run
  <2>2. runs \in [Request -> Nat]
    BY DEF CompanionIInv, CompanionInv, TypeOK
  <2>. QED  BY <1>a, <2>1, <2>2
<1>d. /\ \A r \in Request : /\ runs[r] \in Nat /\ runs'[r] \in Nat /\ runs'[r] >= runs[r]
                            /\ r # work.id => runs'[r] = runs[r]
      /\ runs'[work.id] <= 1 + lapses[work.id]
      /\ work'.kind = "done" => runs'[work.id] > 0
  <2>0. runs \in [Request -> Nat] /\ work \in Work
    BY DEF CompanionIInv, CompanionInv, TypeOK
  <2>1. CASE runs' = [runs EXCEPT ![work.id] = runs[work.id] + 1]
    BY <1>a, <2>0, <2>1
  <2>2. CASE runs' = runs /\ work' = [work EXCEPT !.phase = "reply", !.kind = "rejected"]
    <3>1. work'.kind = "rejected"
      BY <2>0, <2>2
    <3>. QED  BY <1>a, <2>0, <2>2, <3>1
  <2>. QED  BY <2>1, <2>2 DEF Run
<1>1. TypeOK'
  BY <1>a, <1>b, <1>c DEF CompanionIInv, CompanionInv, TypeOK
<1>2. SessionsKnown'
  BY DEF Run, relayVars, callVars, netVars, CompanionIInv, CompanionInv, SessionsKnown
<1>3. NoLeftovers'
  BY DEF Run, callVars, CompanionIInv, CompanionInv, NoLeftovers
<1>4. PlaceKept'
  BY DEF Run, callVars, CompanionIInv, CompanionInv, PlaceKept, Undisturbed
<1>5. LatestServes'
  BY DEF Run, relayVars, CompanionIInv, CompanionInv, LatestServes
<1>6. PendingBounded'
  BY DEF Run, callVars, CompanionIInv, CompanionInv, PendingBounded, Unanswered, Entries
<1>7. AnswersEarned'
  BY <1>b, <1>d DEF CompanionIInv, CompanionInv, AnswersEarned, TypeOK
<1>8. CarriedOutOnce'
  BY <1>a, <1>b, <1>d DEF CompanionIInv, CompanionInv, CarriedOutOnce
<1>9. Earned'
  <2>1. \A c \in Call : future[c] = "done" => runs'[id[c]] > 0
    BY <1>d DEF CompanionIInv, CompanionInv, TypeOK, Earned
  <2>2. \A s \in Session : \A i \in DOMAIN up[s] :
          up[s][i].kind = "done" => runs'[up[s][i].id] > 0
    <3>1. \A s \in Session : \A i \in DOMAIN up[s] : up[s][i].id \in Request
      <4>1. ASSUME NEW s \in Session, NEW i \in DOMAIN up[s]
            PROVE  up[s][i] \in Answer
        <5>1. up[s] \in Seq(Answer)
          BY DEF CompanionIInv, CompanionInv, TypeOK
        <5>. QED  BY <4>1, <5>1
      <4>. QED  BY <4>1 DEF Answer
    <3>2. \A s \in Session : \A i \in DOMAIN up[s] :
             up[s][i].kind = "done" => runs[up[s][i].id] > 0
      BY DEF CompanionIInv, Earned
    <3>3. ASSUME NEW s \in Session, NEW i \in DOMAIN up[s], up[s][i].kind = "done"
          PROVE  runs'[up[s][i].id] > 0
      <4>1. PICK r \in Request : r = up[s][i].id
        BY <3>1
      <4>2. runs[r] > 0
        BY <3>2, <3>3, <4>1
      <4>. QED  BY <1>d, <4>1, <4>2
    <3>. QED  BY <3>3
  <2>. QED  BY <1>a, <1>b, <1>d, <2>1, <2>2 DEF Earned
<1>10. AtARequest'
  BY DEF Run, Work, callVars, CompanionIInv, CompanionInv, TypeOK, AtARequest
<1>11. Remembered'
  BY DEF Run, Work, callVars, CompanionIInv, CompanionInv, TypeOK, Remembered
<1>12. Countable'
  BY DEF Run, callVars, CompanionIInv, CompanionInv, Countable, Entries
<1>. QED
  BY <1>1, <1>2, <1>3, <1>4, <1>5, <1>6, <1>7, <1>8, <1>9, <1>10, <1>11, <1>12
  DEF CompanionIInv, CompanionInv

\* The host's reply goes to the relay.
LEMMA ReplyKeeps ==
    ASSUME CompanionIInv, Reply
    PROVE  CompanionIInv'
<1>1. TypeOK'
  <2>1. [id |-> work.id, kind |-> work.kind] \in Answer
    BY DEF Reply, Answer, CompanionIInv, AtARequest
  <2>2. up' \in [Session -> Seq(Answer)]
    <3>1. \A s \in Session : /\ up[s] \in Seq(Answer)
                            /\ Append(up[s], [id |-> work.id, kind |-> work.kind]) \in Seq(Answer)
      BY <2>1 DEF CompanionIInv, CompanionInv, TypeOK
    <3>2. up' = [up EXCEPT ![agent] = Append(up[agent], [id |-> work.id, kind |-> work.kind])]
      BY DEF Reply
    <3>. QED  BY <3>1, <3>2 DEF CompanionIInv, CompanionInv, TypeOK
  <2>3. work' \in Work
    BY DEF Reply, Free, Work
  <2>. QED
    BY <2>2, <2>3 DEF Reply, relayVars, callVars, CompanionIInv, CompanionInv, TypeOK
<1>2. SessionsKnown'
  BY DEF Reply, relayVars, callVars, netVars, CompanionIInv, CompanionInv, SessionsKnown
<1>3. NoLeftovers'
  BY DEF Reply, callVars, CompanionIInv, CompanionInv, NoLeftovers
<1>4. PlaceKept'
  BY DEF Reply, callVars, CompanionIInv, CompanionInv, PlaceKept, Undisturbed
<1>5. LatestServes'
  BY DEF Reply, relayVars, CompanionIInv, CompanionInv, LatestServes
<1>6. PendingBounded'
  BY DEF Reply, callVars, CompanionIInv, CompanionInv, PendingBounded, Unanswered,
      Entries
<1>7. AnswersEarned'
  BY DEF Reply, callVars, hostVars, CompanionIInv, CompanionInv, AnswersEarned
<1>8. CarriedOutOnce'
  BY DEF Reply, hostVars, CompanionIInv, CompanionInv, CarriedOutOnce
<1>9. Earned'
  BY DEF Reply, Free, callVars, CompanionIInv, CompanionInv, Earned
<1>10. AtARequest'
  BY DEF Reply, Free, callVars, CompanionIInv, CompanionInv, AtARequest
<1>11. Remembered'
  BY DEF Reply, Free, callVars, CompanionIInv, CompanionInv, Remembered
<1>12. Countable'
  BY DEF Reply, callVars, CompanionIInv, CompanionInv, Countable, Entries
<1>. QED
  BY <1>1, <1>2, <1>3, <1>4, <1>5, <1>6, <1>7, <1>8, <1>9, <1>10, <1>11, <1>12
  DEF CompanionIInv, CompanionInv

\* Ten minutes are over for an id: its request may be carried out once more.
LEMMA LapseKeeps ==
    ASSUME CompanionIInv, NEW q \in Request, Lapse(q)
    PROVE  CompanionIInv'
<1>a. /\ \A r \in Request :
            /\ runs[r] \in Nat /\ lapses[r] \in Nat /\ lapses'[r] \in Nat
            /\ lapses'[r] = IF r = q THEN lapses[r] + 1 ELSE lapses[r]
      /\ lapses' \in [Request -> Nat] /\ seen' = seen \ {q}
      /\ runs' = runs /\ work' = work /\ work.id # q
  BY DEF Lapse, CompanionIInv, CompanionInv, TypeOK
<1>1. TypeOK'
  BY <1>a DEF Lapse, relayVars, callVars, netVars, CompanionIInv, CompanionInv, TypeOK
<1>2. SessionsKnown'
  BY DEF Lapse, relayVars, callVars, netVars, CompanionIInv, CompanionInv, SessionsKnown
<1>3. NoLeftovers'
  BY DEF Lapse, callVars, CompanionIInv, CompanionInv, NoLeftovers
<1>4. PlaceKept'
  BY DEF Lapse, callVars, CompanionIInv, CompanionInv, PlaceKept, Undisturbed
<1>5. LatestServes'
  BY DEF Lapse, relayVars, CompanionIInv, CompanionInv, LatestServes
<1>6. PendingBounded'
  BY DEF Lapse, callVars, CompanionIInv, CompanionInv, PendingBounded, Unanswered,
      Entries
<1>7. AnswersEarned'
  BY DEF Lapse, callVars, CompanionIInv, CompanionInv, AnswersEarned
<1>8. CarriedOutOnce'
  BY <1>a DEF CompanionIInv, CompanionInv, CarriedOutOnce
<1>9. Earned'
  BY DEF Lapse, callVars, netVars, CompanionIInv, CompanionInv, Earned
<1>10. AtARequest'
  BY DEF Lapse, CompanionIInv, CompanionInv, AtARequest
<1>11. Remembered'
  <2>1. \A r \in Request : r \notin seen' => runs'[r] <= lapses'[r]
    BY <1>a DEF CompanionIInv, CompanionInv, CarriedOutOnce, Remembered
  <2>2. work.phase = "run" => work.id \in Request
    BY DEF CompanionIInv, AtARequest
  <2>. QED  BY <1>a, <2>1, <2>2 DEF CompanionIInv, Remembered
<1>12. Countable'
  BY DEF Lapse, callVars, CompanionIInv, CompanionInv, Countable, Entries
<1>. QED
  BY <1>1, <1>2, <1>3, <1>4, <1>5, <1>6, <1>7, <1>8, <1>9, <1>10, <1>11, <1>12
  DEF CompanionIInv, CompanionInv

\* The host starts again with an empty replay cache: each request it remembered may
\* be carried out once more.
LEMMA HostRestartsKeeps ==
    ASSUME CompanionIInv, HostRestarts
    PROVE  CompanionIInv'
<1>1. TypeOK'
  <2>1. work' \in Work
    BY DEF HostRestarts, Free, Work
  <2>2. down' \in [Session -> Seq(Request)] /\ cut' \subseteq Session
    BY DEF HostRestarts, CompanionIInv, CompanionInv, TypeOK
  <2>3. lapses' \in [Request -> Nat] /\ faults' \in 0..MaxFaults
    BY DEF HostRestarts, Fault, CompanionIInv, CompanionInv, TypeOK
  <2>. QED
    BY <2>1, <2>2, <2>3
    DEF HostRestarts, relayVars, callVars, CompanionIInv, CompanionInv, TypeOK
<1>2. SessionsKnown'
  BY DEF HostRestarts, relayVars, callVars, netVars, CompanionIInv, CompanionInv,
      SessionsKnown
<1>3. NoLeftovers'
  BY DEF HostRestarts, callVars, CompanionIInv, CompanionInv, NoLeftovers
<1>4. PlaceKept'
  BY DEF HostRestarts, callVars, CompanionIInv, CompanionInv, PlaceKept, Undisturbed
<1>5. LatestServes'
  BY DEF HostRestarts, relayVars, CompanionIInv, CompanionInv, LatestServes
<1>6. PendingBounded'
  BY DEF HostRestarts, callVars, CompanionIInv, CompanionInv, PendingBounded,
      Unanswered, Entries
<1>7. AnswersEarned'
  BY DEF HostRestarts, callVars, hostVars, CompanionIInv, CompanionInv, AnswersEarned
<1>8. CarriedOutOnce'
  BY DEF HostRestarts, CompanionIInv, CompanionInv, TypeOK, CarriedOutOnce
<1>9. Earned'
  BY DEF HostRestarts, Fault, Free, callVars, CompanionIInv, CompanionInv, Earned
<1>10. AtARequest'
  BY DEF HostRestarts, Fault, Free, callVars, CompanionIInv, CompanionInv, AtARequest
<1>11. Remembered'
  <2>1. \A r \in Request :
           /\ runs[r] \in Nat /\ lapses[r] \in Nat
           /\ runs[r] <= 1 + lapses[r]
           /\ r \notin seen => runs[r] <= lapses[r]
    BY DEF CompanionIInv, CompanionInv, TypeOK, CarriedOutOnce, Remembered
  <2>2. /\ runs' = runs /\ work'.phase = "none"
        /\ \A r \in Request : lapses'[r] = IF r \in seen THEN lapses[r] + 1 ELSE lapses[r]
    BY DEF HostRestarts, Free
  <2>. QED  BY <2>1, <2>2 DEF Remembered
<1>12. Countable'
  BY DEF HostRestarts, callVars, CompanionIInv, CompanionInv, Countable, Entries
<1>. QED
  BY <1>1, <1>2, <1>3, <1>4, <1>5, <1>6, <1>7, <1>8, <1>9, <1>10, <1>11, <1>12
  DEF CompanionIInv, CompanionInv

\* The relay starts again: its sessions and futures are gone.
LEMMA RelayRestartsKeeps ==
    ASSUME CompanionIInv, RelayRestarts
    PROVE  CompanionIInv'
<1>1. TypeOK'
  BY DEF RelayRestarts, Fault, Outcome, hostVars, CompanionIInv, CompanionInv, TypeOK
<1>2. SessionsKnown'
  BY DEF RelayRestarts, relayVars, callVars, netVars, CompanionIInv, CompanionInv,
      SessionsKnown
<1>3. NoLeftovers'
  BY DEF RelayRestarts, callVars, CompanionIInv, CompanionInv, NoLeftovers
<1>4. PlaceKept'
  BY DEF RelayRestarts, callVars, CompanionIInv, CompanionInv, PlaceKept, Undisturbed
<1>5. LatestServes'
  BY DEF RelayRestarts, Fault, Outcome, CompanionIInv, CompanionInv, TypeOK,
      LatestServes
<1>6. PendingBounded'
  <2>1. \A s \in Session, r \in Request : pending'[s][r] \in {pending[s][r], None}
    BY DEF RelayRestarts, CompanionIInv, CompanionInv, TypeOK
  <2>. QED  BY <2>1, FewerEntries DEF Entries, CompanionIInv, CompanionInv
<1>7. AnswersEarned'
  BY DEF RelayRestarts, callVars, hostVars, CompanionIInv, CompanionInv, AnswersEarned
<1>8. CarriedOutOnce'
  BY DEF RelayRestarts, hostVars, CompanionIInv, CompanionInv, CarriedOutOnce
<1>9. Earned'
  BY DEF RelayRestarts, callVars, hostVars, netVars, CompanionIInv, CompanionInv, Earned
<1>10. AtARequest'
  BY DEF RelayRestarts, callVars, hostVars, CompanionIInv, CompanionInv, AtARequest
<1>11. Remembered'
  BY DEF RelayRestarts, Fault, hostVars, CompanionIInv, CompanionInv, TypeOK, Remembered
<1>12. Countable'
  <2>1. \A s \in Session, r \in Request : pending'[s][r] \in {pending[s][r], None}
    BY DEF RelayRestarts, CompanionIInv, CompanionInv, TypeOK
  <2>. QED  BY <2>1, FewerEntries DEF Entries, CompanionIInv, CompanionInv
<1>. QED
  BY <1>1, <1>2, <1>3, <1>4, <1>5, <1>6, <1>7, <1>8, <1>9, <1>10, <1>11, <1>12
  DEF CompanionIInv, CompanionInv
-----------------------------------------------------------------------------
(* The theorems.                                                            *)

\* At first nobody is connected, and nothing was carried out.
LEMMA InitHolds == Init => CompanionIInv
<1>. SUFFICES ASSUME Init PROVE CompanionIInv
  OBVIOUS
<1>1. seat \in Activation
  BY CompanionAssumption DEF Init
<1>2. TypeOK
  <2>1. work \in Work
    BY DEF Init, Work, Free
  <2>2. /\ down \in [Session -> Seq(Request)] /\ up \in [Session -> Seq(Answer)]
        /\ pending \in [Session -> [Request -> Call \cup {None}]]
    BY DEF Init
  <2>3. /\ latest \in Session \cup {0} /\ lapses \in [Request -> Nat]
        /\ changes \in 0..MaxChanges /\ faults \in 0..MaxFaults
    BY DEF Init
  <2>. QED  BY <1>1, <2>1, <2>2, <2>3 DEF Init, TypeOK
<1>3. SessionsKnown /\ NoLeftovers /\ PlaceKept /\ LatestServes
  BY DEF Init, SessionsKnown, NoLeftovers, PlaceKept, LatestServes
<1>4. \A s \in Session : Entries(s) = {}
  BY DEF Init, Entries
<1>5. PendingBounded /\ Countable
  BY <1>4, FS_EmptySet DEF PendingBounded, Unanswered, Countable, Entries
<1>6. AnswersEarned /\ CarriedOutOnce /\ Earned /\ AtARequest /\ Remembered
  BY DEF Init, AnswersEarned, CarriedOutOnce, Earned, AtARequest, Remembered, Free
<1>. QED
  BY <1>2, <1>3, <1>5, <1>6 DEF CompanionIInv, CompanionInv

\* A step that changes nothing.
LEMMA StutterKeeps == CompanionIInv /\ UNCHANGED vars => CompanionIInv'
BY DEF vars, relayVars, callVars, hostVars, netVars, CompanionIInv, CompanionInv,
    TypeOK, SessionsKnown, NoLeftovers, PlaceKept, Undisturbed, LatestServes,
    PendingBounded, Unanswered, AnswersEarned, CarriedOutOnce, Earned, AtARequest,
    Remembered, Countable, Entries

\* Every step keeps the invariant: one case per action of Next.
LEMMA StepKeeps == CompanionIInv /\ [Next]_vars => CompanionIInv'
<1>. SUFFICES ASSUME CompanionIInv, [Next]_vars PROVE CompanionIInv'
  OBVIOUS
<1>0. faults \in 0..MaxFaults
  BY DEF CompanionIInv, CompanionInv, TypeOK
<1>1. ASSUME NEW a \in Activation \cup {None}, ChangeSeat(a)
      PROVE  CompanionIInv'
  BY <1>1, ChangeSeatKeeps
<1>2. ASSUME NEW s \in Session, SessionStep(s)
      PROVE  CompanionIInv'
  BY <1>0, <1>2, AcceptKeeps, LostKeeps, ReceiveKeeps, BeatKeeps, EndKeeps
  DEF SessionStep, TicketExpires, Close, Disconnect
<1>3. ASSUME NEW s \in Session, SessionFault(s)
      PROVE  CompanionIInv'
  BY <1>0, <1>3, AcceptFailsKeeps, LostKeeps, EndKeeps, BreakKeeps
  DEF SessionFault, HandshakeLost, LoopFails, Fault
<1>4. ASSUME NEW c \in Call, Submit(c)
      PROVE  CompanionIInv'
  BY <1>4, SubmitKeeps
<1>5. ASSUME NEW c \in Call, Send(c) \/ SendFails(c) \/ Finish(c) \/ Timeout(c)
      PROVE  CompanionIInv'
  <2>1. CASE Send(c)
    BY <2>1, SendKeeps
  <2>2. CASE SendFails(c)
    BY <2>2, DoneKeeps DEF SendFails, Outcome
  <2>3. CASE Finish(c)
    <3>1. future[c] \in {"done", "rejected", "lost"}
      BY <2>3 DEF Finish, CompanionIInv, CompanionInv, TypeOK
    <3>2. PICK outcome \in {future[c], "error"} : outcome # "lost" /\ Done(c, outcome)
      BY <2>3 DEF Finish
    <3>. QED  BY <2>3, <3>1, <3>2, DoneKeeps DEF Finish, Outcome
  <2>4. CASE Timeout(c)
    BY <2>4, DoneKeeps DEF Timeout, Outcome
  <2>. QED  BY <1>5, <2>1, <2>2, <2>3, <2>4
<1>6. CASE HostStep
  BY <1>6, GetTicketKeeps, GiveUpKeeps, TakeKeeps, RunKeeps, ReplyKeeps DEF HostStep
<1>7. CASE (\E r \in Request : Lapse(r)) \/ HandshakeTimeout \/ HostRestarts \/ RelayRestarts
  BY <1>7, LapseKeeps, HandshakeTimeoutKeeps, HostRestartsKeeps, RelayRestartsKeeps
<1>8. CASE UNCHANGED vars
  BY <1>8, StutterKeeps
<1>. QED
  BY <1>1, <1>2, <1>3, <1>4, <1>5, <1>6, <1>7, <1>8 DEF Next, CallStep

\* The companion with what its proof needs, in every reachable state.
THEOREM InnerInvariant == Spec => []CompanionIInv
<1>. QED  BY InitHolds, StepKeeps, PTL DEF Spec

\* Whatever breaks, is repeated, late or restarted: a call's answer is its own, an
\* answer that says so was earned, the latest session is the one that is found, and
\* the host carries a request out once, or once more each time it lost its id
\* (remote_companion_host_ws, remote_companion_request, _handle_remote_request).
THEOREM CompanionCorrect == Spec => []CompanionInv
<1>1. CompanionIInv => CompanionInv
  BY DEF CompanionIInv
<1>. QED  BY <1>1, InnerInvariant, PTL

\* A call that waits is answered only by Finish, which asks for the authority of the
\* activation its session was opened for.
THEOREM AnsweredByItsReceiverHolds == Spec => AnsweredByItsReceiver
<1>1. ASSUME CompanionIInv, [Next]_vars, NEW c \in Call,
             at[c] = "wait", at'[c] \in {"done", "rejected"}
      PROVE  act[via[c]] = seat
  <2>. USE <1>1
  <2>0. /\ at \in [Call -> {"idle", "send", "wait"} \cup Outcome]
        /\ \A d \in Call : future[d] \in {"open", "done", "rejected", "lost"}
    BY DEF CompanionIInv, CompanionInv, TypeOK
  <2>1. at' # at
    OBVIOUS
  <2>2. ~(\E a \in Activation \cup {None} : ChangeSeat(a))
    BY <2>1 DEF ChangeSeat, callVars
  <2>3. \A s \in Session : ~SessionStep(s) /\ ~SessionFault(s)
    BY <2>1
    DEF SessionStep, SessionFault, Accept, TicketExpires, Receive, Beat, Close,
        Disconnect, AcceptFails, HandshakeLost, LoopFails, Break, Lost, End, callVars
  <2>4. /\ ~HostStep /\ ~HandshakeTimeout /\ ~HostRestarts
        /\ ~(\E r \in Request : Lapse(r))
    BY <2>1
    DEF HostStep, GetTicket, GiveUp, Take, Run, Reply, HandshakeTimeout, HostRestarts,
        Lapse, callVars
  <2>5. ~RelayRestarts
    BY DEF RelayRestarts
  <2>6. ~UNCHANGED vars
    BY <2>1 DEF vars, callVars
  <2>7. \A d \in Call : ~Submit(d) /\ ~Send(d)
    BY <2>0 DEF Submit, Refuse, Send
  <2>8. \A d \in Call : ~SendFails(d) /\ ~Timeout(d)
    BY <2>0 DEF SendFails, Timeout, Done
  <2>9. PICK d \in Call : Finish(d)
    BY <2>2, <2>3, <2>4, <2>5, <2>6, <2>7, <2>8 DEF Next, CallStep
  <2>10. d = c
    BY <2>0, <2>9 DEF Finish, Done
  <2>11. at'[c] = IF future[c] # "lost" /\ Authorised(via[c]) THEN future[c] ELSE "error"
    BY <2>0, <2>9, <2>10 DEF Finish, Done
  <2>12. Authorised(via[c])
    BY <2>11
  <2>. QED  BY <2>12 DEF Authorised
<1>2. CompanionIInv /\ [Next]_vars
      => [\A c \in Call :
            at[c] = "wait" /\ at'[c] \in {"done", "rejected"}
                => act[via[c]] = seat]_vars
  BY <1>1
<1>. QED
  BY <1>2, InnerInvariant, PTL DEF Spec, AnsweredByItsReceiver
=============================================================================
