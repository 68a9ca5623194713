----------------------- MODULE ScheduleRefresh_proofs -----------------------
(***************************************************************************)
(* Proofs about ScheduleRefresh, for any number of processes, slots and    *)
(* generations and any timing constants.                                   *)
(***************************************************************************)
EXTENDS ScheduleRefresh, TLAPS

USE ScheduleAssumption

-----------------------------------------------------------------------------
(* Rows.                                                                   *)

\* The rows the code writes have their type.
LEMMA RowFacts ==
  /\ NoRow \in Row
  /\ \A p \in Provider, b \in Board, g \in Nat : Fetched(p, b, g) \in Row
  /\ \A r \in Row : Older(r) \in Row
  /\ \A n \in Nat : Down(n) \in Nat
  BY DEF NoRow, Row, Fetched, Provider, Board, Older, Down

\* A provider's boards are boards.
LEMMA BoardOfFacts ==
  \A p \in Provider : BoardOf(p) \subseteq Board
  BY DEF BoardOf, Board

\* A worker is a slot of a process.
LEMMA WorkerFacts ==
  /\ \A w \in Worker : w[1] \in Process
  /\ \A p \in Process, i \in 1..Slots : <<p, i>> \in Worker
  BY DEF Worker

-----------------------------------------------------------------------------
(* Every state has its type.                                               *)
LEMMA TypeInit == Init => TypeOK
<1> SUFFICES ASSUME Init PROVE TypeOK
  OBVIOUS
<1>1. /\ Idle \in [phase: RefreshPhase, generation: Nat, payload: Row, delay: Nat]
      /\ NoFill \in [phase: EnrichPhase, generation: Nat, payload: Row]
  BY RowFacts DEF Idle, NoFill, RefreshPhase, EnrichPhase
<1>2. "idle" \in ReaderPhase
  BY DEF ReaderPhase
<1>3. cache \in [Lane -> Row]
  BY RowFacts DEF Init
<1>4. QED BY <1>1, <1>2, <1>3 DEF Init, TypeOK

\* A claim keeps the types.
LEMMA ClaimType ==
  ASSUME TypeOK, NEW w \in Worker, Claim(w)
  PROVE  /\ generation' \in Nat /\ lease' \in Nat /\ wait' \in Nat
         /\ enrichWait' \in Nat /\ lastError' \in BOOLEAN
         /\ confirmations' \in {0, 1} /\ emptySeen' \in Nat
         /\ cache' \in [Lane -> Row]
         /\ refresh' \in [Worker -> [phase: RefreshPhase, generation: Nat,
                             payload: Row, delay: Nat]]
         /\ enrich' \in [Process -> [phase: EnrichPhase, generation: Nat, payload: Row]]
  BY RowFacts DEF Claim, TypeOK, RefreshPhase

\* Every step keeps the types.
LEMMA TypeStep == TypeOK /\ [Next]_vars => TypeOK'
<1> SUFFICES ASSUME TypeOK, [Next]_vars PROVE TypeOK'
  OBVIOUS
<1>1. CASE UNCHANGED vars
  BY <1>1 DEF vars, TypeOK
<1>2. ASSUME NEW p \in Process, ReaderStep(p) PROVE TypeOK'
  <2>1. CASE Read(p)
    BY <2>1 DEF Read, TypeOK, stateRow, ReaderPhase
  <2>2. CASE Schedule(p)
    <3>1. reader' \in [Process -> ReaderPhase]
      BY <2>2 DEF Schedule, TypeOK, ReaderPhase, AfterSchedule
    <3>2. CASE \E i \in 1..Slots : Claim(<<p, i>>)
      BY <3>1, <3>2, ClaimType, WorkerFacts DEF TypeOK
    <3>3. CASE UNCHANGED <<stateRow, cache, refresh, enrich, emptySeen>>
      BY <3>1, <3>3 DEF TypeOK, stateRow
    <3>4. QED BY <2>2, <3>2, <3>3 DEF Schedule
  <2>3. CASE PollServe(p) \/ PollRefuse(p) \/ ColdWaitOver(p)
    BY <2>3 DEF PollServe, PollRefuse, ColdWaitOver, TypeOK, stateRow, ReaderPhase
  <2>4. CASE PollSchedule(p)
    <3>1. reader' \in [Process -> ReaderPhase]
      BY <2>4 DEF PollSchedule, TypeOK
    <3>2. PICK i \in 1..Slots : Claim(<<p, i>>)
      BY <2>4 DEF PollSchedule
    <3>3. QED BY <3>1, <3>2, ClaimType, WorkerFacts DEF TypeOK
  <2>5. QED BY <1>2, <2>1, <2>2, <2>3, <2>4 DEF ReaderStep
<1>3. ASSUME NEW w \in Worker, RefreshStep(w) PROVE TypeOK'
  <2>1. ASSUME NEW p \in Provider, NEW b \in BoardOf(p), FetchReturns(w, p, b)
        PROVE TypeOK'
    <3>1. PICK r \in Row : r = Fetched(p, b, refresh[w].generation)
      BY RowFacts, BoardOfFacts DEF TypeOK
    <3>2. refresh' = [refresh EXCEPT ![w].phase = "fetched", ![w].payload = r]
      BY <2>1, <3>1 DEF FetchReturns
    <3>3. UNCHANGED <<stateRow, cache, enrich, reader, emptySeen>>
      BY <2>1 DEF FetchReturns
    <3>4. QED BY <3>2, <3>3 DEF TypeOK, stateRow, RefreshPhase
  <2>2. ASSUME NEW d \in RetryAfters, FetchFails(w, d) PROVE TypeOK'
    BY <2>2 DEF FetchFails, TypeOK, stateRow, RefreshPhase
  <2>3. CASE PublishFenced(w)
    BY <2>3, RowFacts DEF PublishFenced, TypeOK, stateRow, RefreshPhase
  <2>4. CASE PublishRejected(w)
    <3>1. confirmations' \in {0, 1} /\ emptySeen' \in Nat
      BY <2>4 DEF PublishRejected, CountEmpty, ValidatedEmpty, TypeOK, Row
    <3>2. QED BY <2>4, <3>1, RowFacts DEF PublishRejected, TypeOK, RefreshPhase
  <2>5. CASE Publish(w)
    BY <2>5, RowFacts DEF Publish, TypeOK, RefreshPhase, Lane
  <2>6. CASE RecordFailure(w)
    BY <2>6, RowFacts DEF RecordFailure, TypeOK, RefreshPhase
  <2>7. CASE QueueEnrichment(w)
    <3>1. /\ UNCHANGED <<generation, lease, wait, lastError, confirmations,
                        cache, reader, emptySeen>>
          /\ refresh' = [refresh EXCEPT ![w].phase = "closing", ![w].payload = NoRow]
      BY <2>7 DEF QueueEnrichment
    <3>2. CASE UNCHANGED <<enrichWait, enrich>>
      BY <3>1, <3>2, RowFacts DEF TypeOK, RefreshPhase
    <3>3. CASE /\ enrichWait' = EnrichInterval
               /\ enrich' = [enrich EXCEPT ![w[1]] = [phase |-> "fetching",
                    generation |-> refresh[w].generation, payload |-> NoRow]]
      <4>1. PICK p \in Process : p = w[1]
        BY WorkerFacts
      <4>2. [phase |-> "fetching", generation |-> refresh[w].generation, payload |-> NoRow]
              \in [phase: EnrichPhase, generation: Nat, payload: Row]
        BY RowFacts DEF TypeOK, EnrichPhase
      <4>3. enrich' \in [Process -> [phase: EnrichPhase, generation: Nat, payload: Row]]
        BY <3>3, <4>1, <4>2 DEF TypeOK
      <4>4. enrichWait' \in Nat
        BY <3>3
      <4>5. refresh' \in [Worker -> [phase: RefreshPhase, generation: Nat,
                                     payload: Row, delay: Nat]]
        BY <3>1, RowFacts DEF TypeOK, RefreshPhase
      <4>6. QED BY <3>1, <4>3, <4>4, <4>5 DEF TypeOK
    <3>4. QED BY <2>7, <3>2, <3>3 DEF QueueEnrichment
  <2>8. CASE Finish(w)
    BY <2>8, RowFacts DEF Finish, TypeOK, RefreshPhase, Idle
  <2>9. QED BY <1>3, <2>1, <2>2, <2>3, <2>4, <2>5, <2>6, <2>7, <2>8 DEF RefreshStep
<1>4. ASSUME NEW w \in Worker, Renew(w) PROVE TypeOK'
  BY <1>4 DEF Renew, TypeOK
<1>5. ASSUME NEW p \in Process, EnrichStep(p) PROVE TypeOK'
  <2>1. ASSUME NEW b \in BoardOf("aviationstack"), EnrichReturns(p, b) PROVE TypeOK'
    <3>1. PICK r \in Row : r = Fetched("aviationstack", b, enrich[p].generation)
      BY RowFacts, BoardOfFacts DEF TypeOK, Provider
    <3>2. enrich' = [enrich EXCEPT ![p].phase = "fetched", ![p].payload = r]
      BY <2>1, <3>1 DEF EnrichReturns
    <3>3. UNCHANGED <<stateRow, cache, refresh, reader, emptySeen>>
      BY <2>1 DEF EnrichReturns
    <3>4. QED BY <3>2, <3>3 DEF TypeOK, stateRow, EnrichPhase
  <2>2. CASE EnrichFails(p)
    BY <2>2, RowFacts DEF EnrichFails, TypeOK, stateRow, EnrichPhase, NoFill
  <2>3. CASE EnrichPublish(p)
    <3>1. confirmations' \in {0, 1} /\ emptySeen' \in Nat
      BY <2>3 DEF EnrichPublish, CountEmpty, ValidatedEmpty, TypeOK, Row
    <3>2. cache' \in [Lane -> Row]
      BY <2>3 DEF EnrichPublish, TypeOK, Lane
    <3>3. /\ UNCHANGED <<generation, lease, wait, enrichWait, lastError, refresh, reader>>
          /\ enrich' = [enrich EXCEPT ![p] = NoFill]
      BY <2>3 DEF EnrichPublish
    <3>4. NoFill \in [phase: EnrichPhase, generation: Nat, payload: Row]
      BY RowFacts DEF NoFill, EnrichPhase
    <3>5. QED BY <3>1, <3>2, <3>3, <3>4 DEF TypeOK
  <2>4. QED BY <1>5, <2>1, <2>2, <2>3 DEF EnrichStep
<1>6. ASSUME NEW p \in Process, Crash(p) PROVE TypeOK'
  BY <1>6, RowFacts DEF Crash, TypeOK, stateRow, Idle, NoFill, RefreshPhase,
     EnrichPhase, ReaderPhase
<1>7. CASE Tick
  BY <1>7, RowFacts DEF Tick, TypeOK
<1>8. QED BY <1>1, <1>2, <1>3, <1>4, <1>5, <1>6, <1>7 DEF Next

\* Every reachable state of a lane, its threads and its readers has its type.
THEOREM TypeCorrect == Spec => []TypeOK
  BY TypeInit, TypeStep, PTL DEF Spec

-----------------------------------------------------------------------------
(* The fence.  FenceInv is inductive relative to TypeOK.                   *)

\* The fence holds before the first claim.
LEMMA FenceInit == Init => FenceInv
  BY DEF Init, FenceInv, GenerationsIssued, PayloadsOwned, SingleFlight,
     SingleEnrichment, HolderStoredNothing, FailedNotPublished, NoFillBeforeQueue,
     EnrichmentStoredNothing, CountedEmptyIsEvidence, CurrentBoardHasNoError,
     Holder, Idle, NoFill, NoRow, published, Lane

\* Steps that change nothing FenceInv speaks of.
LEMMA FenceFrame ==
  ASSUME FenceInv,
         UNCHANGED <<generation, lastError, confirmations, cache, refresh, enrich, emptySeen>>
  PROVE  FenceInv'
  BY DEF FenceInv, GenerationsIssued, PayloadsOwned, SingleFlight,
     SingleEnrichment, HolderStoredNothing, FailedNotPublished, NoFillBeforeQueue,
     EnrichmentStoredNothing, CountedEmptyIsEvidence, CurrentBoardHasNoError,
     Holder, published

\* A claim numbers its thread past everything in use.
LEMMA FenceClaim ==
  ASSUME TypeOK, FenceInv, NEW w \in Worker, Claim(w)
  PROVE  FenceInv'
<1>1. /\ \A v \in Worker : v # w => refresh'[v] = refresh[v]
      /\ refresh'[w].phase = "fetching"
      /\ refresh'[w].generation = generation + 1
      /\ generation' = generation + 1
      /\ generation \in Nat
      /\ UNCHANGED <<lastError, confirmations, cache, enrich, emptySeen>>
  BY DEF Claim, TypeOK
<1>2. /\ \A v \in Worker : refresh[v].generation \in Nat
      /\ \A p \in Process : enrich[p].generation \in Nat
      /\ \A k \in Lane : cache[k].generation \in Nat
      /\ emptySeen \in Nat
  BY DEF TypeOK, Row
<1>3. GenerationsIssued' /\ PayloadsOwned' /\ SingleFlight' /\ SingleEnrichment'
  BY <1>1, <1>2 DEF FenceInv, GenerationsIssued, PayloadsOwned, SingleFlight, SingleEnrichment
<1>4. HolderStoredNothing' /\ FailedNotPublished' /\ NoFillBeforeQueue'
  BY <1>1, <1>2 DEF FenceInv, GenerationsIssued, HolderStoredNothing,
     FailedNotPublished, NoFillBeforeQueue, Holder, published, Lane
<1>5. EnrichmentStoredNothing' /\ CountedEmptyIsEvidence' /\ CurrentBoardHasNoError'
  BY <1>1, <1>2 DEF FenceInv, GenerationsIssued, EnrichmentStoredNothing,
     CountedEmptyIsEvidence, CurrentBoardHasNoError, published, Lane
<1>6. QED BY <1>3, <1>4, <1>5 DEF FenceInv

\* A fetch hands its thread the board of its own generation.
LEMMA FenceFetch ==
  ASSUME TypeOK, FenceInv, NEW w \in Worker,
         NEW p \in Provider, NEW b \in BoardOf(p), FetchReturns(w, p, b)
  PROVE  FenceInv'
<1>1. /\ \A v \in Worker : v # w => refresh'[v] = refresh[v]
      /\ refresh[w].phase = "fetching"
      /\ refresh'[w].phase = "fetched"
      /\ refresh'[w].generation = refresh[w].generation
      /\ refresh'[w].payload.generation = refresh[w].generation
      /\ refresh'[w].payload.provider = p
      /\ UNCHANGED <<generation, lastError, confirmations, cache, enrich, emptySeen>>
  BY DEF FetchReturns, TypeOK, stateRow, Fetched
<1>2. GenerationsIssued' /\ PayloadsOwned' /\ SingleFlight' /\ SingleEnrichment'
  BY <1>1 DEF FenceInv, GenerationsIssued, PayloadsOwned, SingleFlight, SingleEnrichment
<1>3. HolderStoredNothing' /\ FailedNotPublished' /\ NoFillBeforeQueue'
  BY <1>1 DEF FenceInv, HolderStoredNothing, FailedNotPublished, NoFillBeforeQueue,
     Holder, published
<1>4. EnrichmentStoredNothing' /\ CountedEmptyIsEvidence' /\ CurrentBoardHasNoError'
  BY <1>1 DEF FenceInv, EnrichmentStoredNothing, CountedEmptyIsEvidence,
     CurrentBoardHasNoError, Holder, published
<1>5. QED BY <1>2, <1>3, <1>4 DEF FenceInv

\* A thread gives its publication up: the fetch failed, or the fence refused it.
LEMMA FenceGiveUp ==
  ASSUME TypeOK, FenceInv, NEW w \in Worker,
         (\E d \in RetryAfters : FetchFails(w, d)) \/ PublishFenced(w)
  PROVE  FenceInv'
<1>1. /\ \A v \in Worker : v # w => refresh'[v] = refresh[v]
      /\ refresh[w].phase \in {"fetching", "fetched"}
      /\ refresh'[w].phase \in {"failed", "closing"}
      /\ refresh'[w].generation = refresh[w].generation
      /\ UNCHANGED <<generation, lastError, confirmations, cache, enrich, emptySeen>>
  BY DEF FetchFails, PublishFenced, TypeOK, stateRow
<1>2. GenerationsIssued' /\ PayloadsOwned' /\ SingleFlight' /\ SingleEnrichment'
  BY <1>1 DEF FenceInv, GenerationsIssued, PayloadsOwned, SingleFlight, SingleEnrichment
<1>3. HolderStoredNothing' /\ FailedNotPublished' /\ NoFillBeforeQueue'
  BY <1>1 DEF FenceInv, HolderStoredNothing, FailedNotPublished, NoFillBeforeQueue,
     Holder, published, Lane
<1>4. EnrichmentStoredNothing' /\ CountedEmptyIsEvidence' /\ CurrentBoardHasNoError'
  BY <1>1 DEF FenceInv, EnrichmentStoredNothing, CountedEmptyIsEvidence,
     CurrentBoardHasNoError, Holder, published
<1>5. QED BY <1>2, <1>3, <1>4 DEF FenceInv

\* A thread past the fence works for the current generation and carries its board.
LEMMA UnfencedIsHolder ==
  ASSUME TypeOK, FenceInv, NEW w \in Worker,
         refresh[w].phase = "fetched", ~Fenced(w)
  PROVE  /\ Holder(w)
         /\ refresh[w].generation = generation
         /\ refresh[w].payload.generation = generation
         /\ refresh[w].payload.provider \in Provider
         /\ refresh[w].payload \in Row
         /\ generation \in Nat \ {0}
         /\ \A v \in Worker : v # w => ~Holder(v)
         /\ \A v \in Worker : v # w /\ refresh[v].phase # "idle" =>
              refresh[v].generation # generation
         /\ \A k \in Lane : cache[k].generation < generation
         /\ \A p \in Process : enrich[p].phase # "idle" => enrich[p].generation # generation
  BY DEF Fenced, Holder, FenceInv, GenerationsIssued, PayloadsOwned, SingleFlight,
     HolderStoredNothing, TypeOK

\* A rejection counts an empty board as evidence, or clears the count.
LEMMA FenceRejected ==
  ASSUME TypeOK, FenceInv, NEW w \in Worker, PublishRejected(w)
  PROVE  FenceInv'
<1>1. /\ \A v \in Worker : v # w => refresh'[v] = refresh[v]
      /\ refresh'[w].phase = "failed"
      /\ refresh'[w].generation = refresh[w].generation
      /\ UNCHANGED <<generation, lastError, cache, enrich>>
  BY DEF PublishRejected, TypeOK
<1>2. /\ confirmations' = 1 => emptySeen' = refresh[w].payload.generation
      /\ refresh[w].phase = "fetched" /\ ~Fenced(w)
  BY DEF PublishRejected, CountEmpty, ValidatedEmpty
<1>3. GenerationsIssued' /\ PayloadsOwned' /\ SingleFlight' /\ SingleEnrichment'
  BY <1>1, <1>2 DEF FenceInv, GenerationsIssued, PayloadsOwned, SingleFlight, SingleEnrichment
<1>4. HolderStoredNothing' /\ FailedNotPublished' /\ NoFillBeforeQueue'
  BY <1>1, <1>2, UnfencedIsHolder DEF FenceInv, HolderStoredNothing, FailedNotPublished,
     NoFillBeforeQueue, Holder, published, Lane
<1>5. CountedEmptyIsEvidence'
  BY <1>1, <1>2, UnfencedIsHolder DEF CountedEmptyIsEvidence, Holder, published
<1>6. EnrichmentStoredNothing' /\ CurrentBoardHasNoError'
  BY <1>1 DEF FenceInv, EnrichmentStoredNothing, CurrentBoardHasNoError, published
<1>7. QED BY <1>3, <1>4, <1>5, <1>6 DEF FenceInv

\* A publication stores the first rows of its generation.
LEMMA FencePublish ==
  ASSUME TypeOK, FenceInv, NEW w \in Worker, Publish(w)
  PROVE  FenceInv'
<1>1. /\ \A v \in Worker : v # w => refresh'[v] = refresh[v]
      /\ refresh'[w].phase = "published"
      /\ refresh'[w].generation = refresh[w].generation
      /\ refresh'[w].payload = refresh[w].payload
      /\ confirmations' = 0 /\ lastError' = FALSE
      /\ UNCHANGED <<generation, enrich>>
      /\ refresh[w].phase = "fetched" /\ ~Fenced(w)
  BY DEF Publish, TypeOK
<1>2. \A k \in Lane : IF k \in {refresh[w].payload.provider, "published"}
                      THEN cache'[k] = refresh[w].payload
                      ELSE cache'[k] = cache[k]
  BY UnfencedIsHolder, <1>1 DEF Publish, TypeOK, Lane
<1>3. GenerationsIssued'
  BY <1>1, <1>2, UnfencedIsHolder DEF FenceInv, GenerationsIssued, Lane
<1>4. PayloadsOwned' /\ SingleFlight' /\ SingleEnrichment'
  BY <1>1 DEF FenceInv, PayloadsOwned, SingleFlight, SingleEnrichment
<1>5. HolderStoredNothing'
  BY <1>1, UnfencedIsHolder DEF HolderStoredNothing, Holder
<1>6. FailedNotPublished'
  BY <1>1, UnfencedIsHolder DEF FailedNotPublished
<1>7. NoFillBeforeQueue'
  BY <1>1, <1>2, UnfencedIsHolder DEF NoFillBeforeQueue, Lane, Provider
<1>8. EnrichmentStoredNothing' /\ CountedEmptyIsEvidence' /\ CurrentBoardHasNoError'
  BY <1>1, UnfencedIsHolder DEF EnrichmentStoredNothing, CountedEmptyIsEvidence,
     CurrentBoardHasNoError
<1>9. QED BY <1>3, <1>4, <1>5, <1>6, <1>7, <1>8 DEF FenceInv

\* A recorded failure marks no board of the current generation.
LEMMA FenceRecordFailure ==
  ASSUME TypeOK, FenceInv, NEW w \in Worker, RecordFailure(w)
  PROVE  FenceInv'
<1>1. /\ \A v \in Worker : v # w => refresh'[v] = refresh[v]
      /\ refresh[w].phase = "failed"
      /\ refresh'[w].phase = "closing"
      /\ refresh'[w].generation = refresh[w].generation
      /\ refresh[w].generation # generation => lastError' = lastError
      /\ UNCHANGED <<generation, confirmations, cache, enrich, emptySeen>>
  BY DEF RecordFailure, TypeOK
<1>2. GenerationsIssued' /\ PayloadsOwned' /\ SingleFlight' /\ SingleEnrichment'
  BY <1>1 DEF FenceInv, GenerationsIssued, PayloadsOwned, SingleFlight, SingleEnrichment
<1>3. HolderStoredNothing' /\ FailedNotPublished' /\ NoFillBeforeQueue'
  BY <1>1 DEF FenceInv, HolderStoredNothing, FailedNotPublished, NoFillBeforeQueue,
     Holder, published
<1>4. EnrichmentStoredNothing' /\ CountedEmptyIsEvidence'
  BY <1>1 DEF FenceInv, EnrichmentStoredNothing, CountedEmptyIsEvidence, Holder
<1>5. CurrentBoardHasNoError'
  <2>1. published' = published /\ generation \in Nat /\ published.generation \in Nat
    BY <1>1 DEF published, TypeOK, Row, Lane
  <2>2. CASE refresh[w].generation = generation
    <3>1. published.generation < generation
      BY <1>1, <2>2 DEF FenceInv, FailedNotPublished
    <3>2. QED BY <1>1, <2>1, <3>1 DEF CurrentBoardHasNoError
  <2>3. CASE refresh[w].generation # generation
    BY <1>1, <2>1, <2>3 DEF FenceInv, CurrentBoardHasNoError
  <2>4. QED BY <2>2, <2>3
<1>6. QED BY <1>2, <1>3, <1>4, <1>5 DEF FenceInv

\* A queued enrichment is the only one of its generation.
LEMMA FenceQueue ==
  ASSUME TypeOK, FenceInv, NEW w \in Worker, QueueEnrichment(w)
  PROVE  FenceInv'
<1>1. /\ \A v \in Worker : v # w => refresh'[v] = refresh[v]
      /\ refresh[w].phase = "published"
      /\ refresh[w].payload.provider = "aerodatabox"
      /\ refresh'[w].phase = "closing"
      /\ refresh'[w].generation = refresh[w].generation
      /\ UNCHANGED <<generation, lastError, confirmations, cache, emptySeen>>
  BY DEF QueueEnrichment, TypeOK
<1>2. PICK q \in Process : q = w[1]
  BY WorkerFacts
<1>3. \A p \in Process :
        \/ enrich'[p] = enrich[p]
        \/ /\ p = q /\ refresh[w].generation = generation
           /\ enrich'[p].phase = "fetching"
           /\ enrich'[p].generation = refresh[w].generation
  BY <1>2 DEF QueueEnrichment, TypeOK
<1>4. refresh[w].generation = generation =>
        /\ cache["aviationstack"].generation < generation
        /\ \A p \in Process : enrich[p].phase # "idle" => enrich[p].generation # generation
        /\ \A v \in Worker : v # w /\ refresh[v].phase # "idle" =>
             refresh[v].generation # generation
  BY <1>1 DEF FenceInv, NoFillBeforeQueue, SingleFlight
<1>5. GenerationsIssued' /\ PayloadsOwned' /\ SingleFlight' /\ SingleEnrichment'
  BY <1>1, <1>3, <1>4 DEF FenceInv, GenerationsIssued, PayloadsOwned, SingleFlight,
     SingleEnrichment
<1>6. HolderStoredNothing' /\ FailedNotPublished' /\ NoFillBeforeQueue'
  BY <1>1, <1>3, <1>4 DEF FenceInv, HolderStoredNothing, FailedNotPublished,
     NoFillBeforeQueue, Holder, published
<1>7. EnrichmentStoredNothing' /\ CountedEmptyIsEvidence' /\ CurrentBoardHasNoError'
  BY <1>1, <1>3, <1>4 DEF FenceInv, EnrichmentStoredNothing, CountedEmptyIsEvidence,
     CurrentBoardHasNoError, Holder, published
<1>8. QED BY <1>5, <1>6, <1>7 DEF FenceInv

\* Threads that vanish and rows that expire take nothing away from the fence.
LEMMA FenceFinish ==
  ASSUME TypeOK, FenceInv, NEW w \in Worker, Finish(w)
  PROVE  FenceInv'
<1>1. /\ \A v \in Worker : v # w => refresh'[v] = refresh[v]
      /\ refresh'[w].phase = "idle"
      /\ \A k \in Lane : cache'[k].generation \in {0, cache[k].generation}
      /\ UNCHANGED <<generation, lastError, confirmations, enrich, emptySeen>>
  BY DEF Finish, TypeOK, Idle, NoRow
<1>2. \A k \in Lane : cache'[k].generation <= cache[k].generation
  BY <1>1 DEF TypeOK, Row
<1>3. /\ \A k \in Lane : cache[k].generation \in Nat /\ cache'[k].generation \in Nat
      /\ generation \in Nat
      /\ emptySeen \in Nat
  BY <1>1 DEF TypeOK, Row
<1>4. GenerationsIssued' /\ PayloadsOwned' /\ SingleFlight' /\ SingleEnrichment'
  BY <1>1, <1>2, <1>3 DEF FenceInv, GenerationsIssued, PayloadsOwned, SingleFlight,
     SingleEnrichment
<1>5. HolderStoredNothing' /\ FailedNotPublished' /\ NoFillBeforeQueue'
  BY <1>1, <1>2, <1>3 DEF FenceInv, HolderStoredNothing, FailedNotPublished,
     NoFillBeforeQueue, Holder, published, Lane, Provider
<1>6. EnrichmentStoredNothing' /\ CountedEmptyIsEvidence'
  BY <1>1, <1>2, <1>3 DEF FenceInv, EnrichmentStoredNothing, CountedEmptyIsEvidence,
     Holder, Lane, Provider
<1>7. CurrentBoardHasNoError'
  <2>1. published'.generation \in {0, published.generation}
    BY <1>1 DEF published, Lane
  <2>2. QED BY <1>1, <2>1 DEF FenceInv, CurrentBoardHasNoError
<1>8. QED BY <1>4, <1>5, <1>6, <1>7 DEF FenceInv

\* A process that ends takes its threads with it and changes no row.
LEMMA FenceCrash ==
  ASSUME TypeOK, FenceInv, NEW p \in Process, Crash(p)
  PROVE  FenceInv'
<1>1. /\ \A v \in Worker : refresh'[v] = refresh[v] \/ refresh'[v].phase = "idle"
      /\ \A q \in Process : enrich'[q] = enrich[q] \/ enrich'[q].phase = "idle"
      /\ UNCHANGED <<generation, lastError, confirmations, cache, emptySeen>>
  BY DEF Crash, TypeOK, Idle, NoFill, stateRow
<1>2. GenerationsIssued' /\ PayloadsOwned' /\ SingleFlight' /\ SingleEnrichment'
  BY <1>1 DEF FenceInv, GenerationsIssued, PayloadsOwned, SingleFlight, SingleEnrichment
<1>3. HolderStoredNothing' /\ FailedNotPublished' /\ NoFillBeforeQueue'
  BY <1>1 DEF FenceInv, HolderStoredNothing, FailedNotPublished, NoFillBeforeQueue,
     Holder, published
<1>4. EnrichmentStoredNothing' /\ CountedEmptyIsEvidence' /\ CurrentBoardHasNoError'
  BY <1>1 DEF FenceInv, EnrichmentStoredNothing, CountedEmptyIsEvidence,
     CurrentBoardHasNoError, Holder, published
<1>5. QED BY <1>2, <1>3, <1>4 DEF FenceInv

\* The clock changes ages only.
LEMMA OlderKeeps ==
  \A r \in Row : /\ Older(r).generation = r.generation
                 /\ Older(r).provider = r.provider
                 /\ Older(r).board = r.board
                 /\ Older(r).age >= r.age
  BY DEF Older, Row

\* Time passes: only the lease, the waits and the ages of rows change.
LEMMA FenceTick ==
  ASSUME TypeOK, FenceInv, Tick
  PROVE  FenceInv'
<1>1. /\ \A v \in Worker : /\ refresh'[v].phase = refresh[v].phase
                           /\ refresh'[v].generation = refresh[v].generation
                           /\ refresh'[v].payload = Older(refresh[v].payload)
                           /\ refresh[v].payload \in Row
      /\ \A q \in Process : /\ enrich'[q].phase = enrich[q].phase
                            /\ enrich'[q].generation = enrich[q].generation
                            /\ enrich'[q].payload = Older(enrich[q].payload)
                            /\ enrich[q].payload \in Row
      /\ \A k \in Lane : cache'[k] = Older(cache[k]) /\ cache[k] \in Row
      /\ UNCHANGED <<generation, lastError, confirmations, emptySeen>>
  BY DEF Tick, TypeOK
<1>2. /\ \A v \in Worker : /\ refresh'[v].payload.generation = refresh[v].payload.generation
                           /\ refresh'[v].payload.provider = refresh[v].payload.provider
      /\ \A q \in Process : /\ enrich'[q].payload.generation = enrich[q].payload.generation
                            /\ enrich'[q].payload.provider = enrich[q].payload.provider
                            /\ enrich'[q].payload.board = enrich[q].payload.board
      /\ \A k \in Lane : cache'[k].generation = cache[k].generation
  BY <1>1, OlderKeeps
<1>3. GenerationsIssued' /\ PayloadsOwned' /\ SingleFlight' /\ SingleEnrichment'
  BY <1>1, <1>2 DEF FenceInv, GenerationsIssued, PayloadsOwned, SingleFlight, SingleEnrichment
<1>4. HolderStoredNothing' /\ FailedNotPublished' /\ NoFillBeforeQueue'
  BY <1>1, <1>2 DEF FenceInv, HolderStoredNothing, FailedNotPublished, NoFillBeforeQueue,
     Holder, published, Lane, Provider
<1>5. EnrichmentStoredNothing' /\ CountedEmptyIsEvidence' /\ CurrentBoardHasNoError'
  BY <1>1, <1>2 DEF FenceInv, EnrichmentStoredNothing, CountedEmptyIsEvidence,
     CurrentBoardHasNoError, Holder, published, Lane, Provider
<1>6. QED BY <1>3, <1>4, <1>5 DEF FenceInv

-----------------------------------------------------------------------------
(* Enrichment threads.                                                     *)

\* An enrichment comes home, and has stored nothing yet.
LEMMA FenceEnrichMoves ==
  ASSUME TypeOK, FenceInv, NEW p \in Process,
         \/ \E b \in BoardOf("aviationstack") : EnrichReturns(p, b)
         \/ EnrichFails(p)
  PROVE  FenceInv'
<1>1. /\ \A q \in Process : q # p => enrich'[q] = enrich[q]
      /\ \/ enrich'[p].phase = "idle"
         \/ /\ enrich[p].phase = "fetching"
            /\ enrich'[p].phase = "fetched"
            /\ enrich'[p].generation = enrich[p].generation
            /\ enrich'[p].payload.generation = enrich[p].generation
            /\ enrich'[p].payload.provider = "aviationstack"
            /\ enrich'[p].payload.board # "empty"
      /\ UNCHANGED <<generation, lastError, confirmations, cache, refresh, emptySeen>>
  BY DEF EnrichReturns, EnrichFails, TypeOK, stateRow, Fetched, NoFill, BoardOf
<1>2. GenerationsIssued' /\ PayloadsOwned' /\ SingleFlight' /\ SingleEnrichment'
  BY <1>1 DEF FenceInv, GenerationsIssued, PayloadsOwned, SingleFlight, SingleEnrichment
<1>3. HolderStoredNothing' /\ FailedNotPublished' /\ NoFillBeforeQueue'
  BY <1>1 DEF FenceInv, HolderStoredNothing, FailedNotPublished, NoFillBeforeQueue,
     Holder, published
<1>4. EnrichmentStoredNothing' /\ CountedEmptyIsEvidence' /\ CurrentBoardHasNoError'
  BY <1>1 DEF FenceInv, EnrichmentStoredNothing, CountedEmptyIsEvidence,
     CurrentBoardHasNoError, Holder, published
<1>5. QED BY <1>2, <1>3, <1>4 DEF FenceInv

\* What a fill changes: nothing, or the AviationStack row of its generation.
LEMMA FillEffect ==
  ASSUME TypeOK, FenceInv, NEW p \in Process, EnrichPublish(p)
  PROVE  /\ \A q \in Process : q # p => enrich'[q] = enrich[q]
         /\ enrich[p].phase = "fetched" /\ enrich'[p].phase = "idle"
         /\ UNCHANGED <<generation, lastError, refresh>>
         /\ \/ UNCHANGED <<cache, confirmations, emptySeen>>
            \/ confirmations' = 0 /\ UNCHANGED cache
            \/ /\ confirmations' = 0
               /\ enrich[p].generation = generation
               /\ ~Rejected(enrich[p].payload)
               /\ \A k \in Lane : k # "aviationstack" => cache'[k] = cache[k]
               /\ cache'["aviationstack"] = enrich[p].payload
               /\ enrich[p].payload.generation = generation
<1>1. enrich[p].phase = "fetched" /\ enrich[p].payload.board # "empty"
      /\ enrich[p].payload.generation = enrich[p].generation
  BY DEF EnrichPublish, FenceInv, PayloadsOwned
<1>2. /\ \A q \in Process : q # p => enrich'[q] = enrich[q]
      /\ enrich'[p].phase = "idle"
      /\ UNCHANGED <<generation, lastError, refresh>>
  BY DEF EnrichPublish, NoFill, TypeOK
<1>3. CASE UNCHANGED <<confirmations, emptySeen, cache>>
  BY <1>1, <1>2, <1>3
<1>4. CASE CountEmpty(enrich[p].payload) /\ UNCHANGED cache
  BY <1>1, <1>2, <1>4 DEF CountEmpty, ValidatedEmpty
<1>5. CASE /\ enrich[p].generation = generation
           /\ ~Rejected(enrich[p].payload)
           /\ confirmations' = 0
           /\ cache' = [cache EXCEPT !["aviationstack"] = enrich[p].payload]
  BY <1>1, <1>2, <1>5 DEF TypeOK, Lane, Provider
<1>6. QED BY <1>3, <1>4, <1>5 DEF EnrichPublish

\* An enrichment stores its board, for the generation it belongs to.
LEMMA FenceEnrichPublish ==
  ASSUME TypeOK, FenceInv, NEW p \in Process, EnrichPublish(p)
  PROVE  FenceInv'
<1>1. /\ \A q \in Process : q # p => enrich'[q] = enrich[q]
      /\ enrich[p].phase = "fetched" /\ enrich'[p].phase = "idle"
      /\ UNCHANGED <<generation, lastError, refresh>>
  BY FillEffect
<1>2. published' = published
  BY FillEffect DEF published, Lane
<1>3. \/ UNCHANGED cache
      \/ /\ enrich[p].generation = generation
         /\ \A k \in Lane : k # "aviationstack" => cache'[k] = cache[k]
         /\ cache'["aviationstack"].generation = generation
  BY FillEffect
<1>4. PayloadsOwned' /\ SingleFlight' /\ SingleEnrichment'
  BY <1>1 DEF FenceInv, PayloadsOwned, SingleFlight, SingleEnrichment
<1>5. GenerationsIssued'
  BY <1>1, <1>3 DEF FenceInv, GenerationsIssued, TypeOK
<1>6. HolderStoredNothing' /\ FailedNotPublished' /\ CurrentBoardHasNoError'
  BY <1>1, <1>2, <1>3 DEF FenceInv, HolderStoredNothing, FailedNotPublished,
     CurrentBoardHasNoError, Holder
<1>7. NoFillBeforeQueue'
  BY <1>1, <1>3 DEF FenceInv, NoFillBeforeQueue
<1>8. EnrichmentStoredNothing'
  BY <1>1, <1>3 DEF FenceInv, EnrichmentStoredNothing, SingleEnrichment
<1>9. CountedEmptyIsEvidence'
  <2>1. CASE UNCHANGED <<cache, confirmations, emptySeen>>
    BY <1>1, <2>1 DEF FenceInv, CountedEmptyIsEvidence, Holder
  <2>2. CASE confirmations' = 0
    BY <2>2 DEF CountedEmptyIsEvidence
  <2>3. QED BY <2>1, <2>2, FillEffect
<1>10. QED BY <1>4, <1>5, <1>6, <1>7, <1>8, <1>9 DEF FenceInv

-----------------------------------------------------------------------------
\* Every step keeps the fence.
LEMMA FenceStep == TypeOK /\ FenceInv /\ [Next]_vars => FenceInv'
<1> SUFFICES ASSUME TypeOK, FenceInv, [Next]_vars PROVE FenceInv'
  OBVIOUS
<1>1. CASE UNCHANGED vars
  BY <1>1, FenceFrame DEF vars
<1>2. ASSUME NEW p \in Process, ReaderStep(p) PROVE FenceInv'
  <2>1. CASE Read(p) \/ PollServe(p) \/ PollRefuse(p) \/ ColdWaitOver(p)
    BY <2>1, FenceFrame DEF Read, PollServe, PollRefuse, ColdWaitOver, stateRow
  <2>2. CASE Schedule(p)
    <3>1. CASE \E i \in 1..Slots : Claim(<<p, i>>)
      BY <3>1, FenceClaim, WorkerFacts
    <3>2. CASE UNCHANGED <<stateRow, cache, refresh, enrich, emptySeen>>
      BY <3>2, FenceFrame DEF stateRow
    <3>3. QED BY <2>2, <3>1, <3>2 DEF Schedule
  <2>3. CASE PollSchedule(p)
    BY <2>3, FenceClaim, WorkerFacts DEF PollSchedule
  <2>4. QED BY <1>2, <2>1, <2>2, <2>3 DEF ReaderStep
<1>3. ASSUME NEW w \in Worker, RefreshStep(w) PROVE FenceInv'
  BY <1>3, FenceFetch, FenceGiveUp, FenceRejected, FencePublish, FenceRecordFailure,
     FenceQueue, FenceFinish DEF RefreshStep
<1>4. ASSUME NEW w \in Worker, Renew(w) PROVE FenceInv'
  BY <1>4, FenceFrame DEF Renew
<1>5. ASSUME NEW p \in Process, EnrichStep(p) PROVE FenceInv'
  BY <1>5, FenceEnrichMoves, FenceEnrichPublish DEF EnrichStep
<1>6. QED BY <1>1, <1>2, <1>3, <1>4, <1>5, FenceCrash, FenceTick DEF Next

\* The fence holds in every reachable state: claims are numbered, each number has
\* one thread and one enrichment, and what a thread may still store is newer than
\* everything stored.
THEOREM FenceHolds == Spec => []FenceInv
<1>1. FenceInv /\ TypeOK /\ [Next]_vars => FenceInv'
  BY FenceStep
<1>2. QED BY FenceInit, TypeCorrect, <1>1, PTL DEF Spec

\* The type and the fence of a lane hold in every reachable state.
THEOREM ScheduleHolds == Spec => []ScheduleInv
<1>1. TypeOK /\ FenceInv => ScheduleInv
  BY DEF ScheduleInv
<1>2. QED BY TypeCorrect, FenceHolds, <1>1, PTL

\* No two threads, of however many processes, fetch for the same claim.
THEOREM SingleFlightHolds == Spec => []SingleFlight
<1>1. FenceInv => SingleFlight
  BY DEF FenceInv
<1>2. QED BY FenceHolds, <1>1, PTL

\* A failure never marks a board the current generation published.
THEOREM CurrentBoardHasNoErrorHolds == Spec => []CurrentBoardHasNoError
<1>1. FenceInv => CurrentBoardHasNoError
  BY DEF FenceInv
<1>2. QED BY FenceHolds, <1>1, PTL

-----------------------------------------------------------------------------
(* What a step does to the stored rows.                                    *)

\* A step leaves a row, lets it age, deletes it, or stores a board that passed
\* the suspicion test and is newer than every row of its provider.
Stored(k, payload) ==
  /\ payload \in Row
  /\ payload.generation = generation
  /\ payload.provider \in Provider
  /\ k \in {payload.provider, "published"}
  /\ cache[k].generation < generation
  /\ ~Rejected(payload)
  /\ Pending \/ payload.board # "empty"

RowStep(k) ==
  \/ cache'[k] = cache[k]
  \/ cache'[k] = Older(cache[k])
  \/ cache'[k] = NoRow
  \/ Stored(k, cache'[k])

\* A claim stores no board.
LEMMA ClaimRows ==
  ASSUME NEW w \in Worker, Claim(w) PROVE UNCHANGED cache
  BY DEF Claim

\* A publication moves the rows it writes forward.
LEMMA PublishRows ==
  ASSUME TypeOK, FenceInv, NEW w \in Worker, Publish(w), NEW k \in Lane
  PROVE  RowStep(k)
<1>1. refresh[w].phase = "fetched" /\ ~Fenced(w) /\ ~Rejected(refresh[w].payload)
  BY DEF Publish
<1>2. IF k \in {refresh[w].payload.provider, "published"}
      THEN cache'[k] = refresh[w].payload
      ELSE cache'[k] = cache[k]
  BY UnfencedIsHolder, <1>1 DEF Publish, TypeOK, Lane
<1>3. QED BY <1>1, <1>2, UnfencedIsHolder DEF RowStep, Stored, Pending

\* So does an enrichment.
LEMMA EnrichPublishRows ==
  ASSUME TypeOK, FenceInv, NEW p \in Process, EnrichPublish(p), NEW k \in Lane
  PROVE  RowStep(k)
<1>1. CASE cache'[k] = cache[k]
  BY <1>1 DEF RowStep
<1>2. CASE /\ k = "aviationstack"
           /\ enrich[p].generation = generation
           /\ ~Rejected(enrich[p].payload)
           /\ cache'[k] = enrich[p].payload
           /\ enrich[p].payload.generation = generation
  <2>1. enrich[p].phase = "fetched"
    BY FillEffect
  <2>2. /\ enrich[p].payload \in Row
        /\ enrich[p].payload.provider = "aviationstack"
        /\ enrich[p].payload.board # "empty"
    BY <2>1 DEF TypeOK, FenceInv, PayloadsOwned
  <2>3. cache[k].generation < generation
    BY <1>2, <2>1 DEF FenceInv, EnrichmentStoredNothing
  <2>4. QED BY <1>2, <2>2, <2>3 DEF RowStep, Stored, Provider
<1>3. QED BY <1>1, <1>2, FillEffect DEF Lane

\* Every step leaves a row as it is, lets it age, drops it, or stores a later board.
LEMMA RowSteps ==
  ASSUME TypeOK, FenceInv, [Next]_vars, NEW k \in Lane
  PROVE  RowStep(k)
<1>1. CASE UNCHANGED cache
  BY <1>1 DEF RowStep
<1>2. ASSUME NEW p \in Process, ReaderStep(p) PROVE UNCHANGED cache
  BY <1>2, ClaimRows, WorkerFacts DEF ReaderStep, Read, Schedule, PollServe, PollRefuse,
     PollSchedule, ColdWaitOver
<1>3. ASSUME NEW w \in Worker, RefreshStep(w) PROVE RowStep(k)
  <2>1. CASE Publish(w)
    BY <2>1, PublishRows
  <2>2. CASE Finish(w)
    BY <2>2 DEF Finish, RowStep
  <2>3. CASE UNCHANGED cache
    BY <2>3 DEF RowStep
  <2>4. QED BY <1>3, <2>1, <2>2, <2>3 DEF RefreshStep, FetchReturns, FetchFails,
       PublishFenced, PublishRejected, RecordFailure, QueueEnrichment
<1>4. ASSUME NEW p \in Process, EnrichStep(p) PROVE RowStep(k)
  BY <1>1, <1>4, EnrichPublishRows DEF EnrichStep, EnrichReturns, EnrichFails
<1>5. CASE Tick
  BY <1>5 DEF Tick, RowStep
<1>6. QED BY <1>1, <1>2, <1>3, <1>4, <1>5 DEF Next, Renew, Crash, vars

\* However late a refresh or an enrichment comes home, no stored row steps back to
\* an earlier fetch or changes in place.
THEOREM RowsMoveForwardHolds == Spec => RowsMoveForward
<1>1. ASSUME TypeOK, FenceInv, [Next]_vars, NEW k \in Lane
      PROVE  \/ cache'[k] = NoRow
             \/ cache'[k].generation > cache[k].generation
             \/ /\ cache'[k].generation = cache[k].generation
                /\ cache'[k].provider = cache[k].provider
                /\ cache'[k].board = cache[k].board
                /\ cache'[k].age >= cache[k].age
  <2>1. cache[k] \in Row /\ generation \in Nat
    BY <1>1 DEF TypeOK
  <2>2. RowStep(k)
    BY <1>1, RowSteps
  <2>3. CASE cache'[k] = cache[k]
    BY <2>1, <2>3 DEF Row
  <2>4. CASE cache'[k] = Older(cache[k])
    BY <2>1, <2>4, OlderKeeps
  <2>5. CASE Stored(k, cache'[k])
    BY <2>1, <2>5 DEF Stored, Row
  <2>6. QED BY <2>2, <2>3, <2>4, <2>5 DEF RowStep
<1>2. TypeOK /\ FenceInv /\ [Next]_vars =>
        [\A k \in Lane :
           LET old == cache[k]  new == cache'[k] IN
           \/ new = NoRow
           \/ new.generation > old.generation
           \/ /\ new.generation = old.generation
              /\ new.provider = old.provider /\ new.board = old.board
              /\ new.age >= old.age]_vars
  BY <1>1
<1>3. QED BY TypeCorrect, FenceHolds, <1>2, PTL DEF Spec, RowsMoveForward

\* A provider's busy board is replaced by one without its flights only after an
\* independent fetch, later than that board, came back empty too.
THEOREM ProviderBoardLossHolds == Spec => ProviderBoardLossConfirmed
<1>1. ASSUME TypeOK, FenceInv, [Next]_vars, NEW k \in Provider, LostBusy(cache[k], cache'[k])
      PROVE  Confirmed(cache[k], cache'[k])
  <2>1. k \in Lane /\ k # "published"
    BY DEF Lane, Provider
  <2>2. cache[k] \in Row /\ cache[k].generation > 0 /\ cache'[k].generation > cache[k].generation
    BY <1>1, <2>1 DEF TypeOK, LostBusy, Loadable
  <2>3. Stored(k, cache'[k])
    BY <1>1, <2>1, <2>2, RowSteps, OlderKeeps DEF RowStep, NoRow, Row
  <2>4. cache'[k].provider = k
    BY <2>1, <2>3 DEF Stored
  <2>5. suspicious(cache'[k], cache[k])
    BY <1>1 DEF LostBusy, suspicious
  <2>6. ValidatedEmpty(cache'[k]) /\ ~(confirmations < 1)
    BY <2>3, <2>4, <2>5 DEF Stored, Rejected
  <2>7. confirmations = 1
    BY <1>1, <2>6 DEF TypeOK
  <2>8. cache'[k].generation = generation
    BY <2>3 DEF Stored
  <2>9. Pending
    BY <2>3, <2>6 DEF Stored, ValidatedEmpty
  <2>10. cache[k].generation < emptySeen /\ emptySeen < generation
    BY <1>1, <2>1, <2>7, <2>9 DEF FenceInv, CountedEmptyIsEvidence, Pending
  <2>11. QED BY <2>6, <2>8, <2>10 DEF Confirmed
<1>2. TypeOK /\ FenceInv /\ [Next]_vars =>
        [\A k \in Provider :
           LostBusy(cache[k], cache'[k]) => Confirmed(cache[k], cache'[k])]_vars
  BY <1>1
<1>3. QED BY TypeCorrect, FenceHolds, <1>2, PTL DEF Spec, ProviderBoardLossConfirmed

-----------------------------------------------------------------------------
(* Refinement: the published board is an abstract fenced board.            *)

Settled == IF Pending THEN generation - 1 ELSE generation

\* Every step shows the next snapshot, abandons one, expires, or stutters.
LEMMA FenceStepImplemented ==
  ASSUME TypeOK, FenceInv, [Next]_vars
  PROVE  [Fence!Next]_<<published.generation, Settled>>
<1> DEFINE board == published.generation
<1>0. generation \in Nat /\ board \in Nat
  BY DEF TypeOK, published, Row, Lane
<1>1. CASE UNCHANGED <<generation, refresh, cache>>
  BY <1>1 DEF Settled, Pending, Holder, published
<1>2. ASSUME NEW w \in Worker, Claim(w) PROVE [Fence!Next]_<<published.generation, Settled>>
  <2>1. /\ generation' = generation + 1
        /\ UNCHANGED cache
        /\ refresh'[w].phase = "fetching" /\ refresh'[w].generation = generation'
    BY <1>2 DEF Claim, TypeOK
  <2>2. Settled' = generation /\ board' = board
    BY <1>0, <2>1 DEF Settled, Pending, Holder, published
  <2>3. QED BY <1>0, <2>2 DEF Settled, Fence!Next, Fence!Abandon
<1>3. ASSUME NEW w \in Worker, Publish(w) PROVE [Fence!Next]_<<published.generation, Settled>>
  <2>1. refresh[w].phase = "fetched" /\ ~Fenced(w)
    BY <1>3 DEF Publish
  <2>2. /\ \A v \in Worker : v # w => refresh'[v] = refresh[v]
        /\ refresh'[w].phase = "published"
        /\ generation' = generation
        /\ cache'["published"] = refresh[w].payload
    BY <1>3 DEF Publish, TypeOK, Lane
  <2>3. Pending /\ ~Pending' /\ board' = generation
    BY <2>1, <2>2, UnfencedIsHolder DEF Pending, Holder, published
  <2>4. QED BY <1>0, <2>2, <2>3 DEF Settled, Fence!Next, Fence!Show
<1>4. ASSUME NEW w \in Worker, Finish(w) PROVE [Fence!Next]_<<published.generation, Settled>>
  <2>1. /\ \A v \in Worker : v # w => refresh'[v] = refresh[v]
        /\ refresh[w].phase \notin {"fetching", "fetched"}
        /\ refresh'[w].phase = "idle"
        /\ generation' = generation
    BY <1>4 DEF Finish, TypeOK, Idle
  <2>2. Settled' = Settled
    BY <2>1 DEF Settled, Pending, Holder
  <2>3. board' \in {0, board}
    BY <1>4 DEF Finish, published, Lane, NoRow
  <2>4. QED BY <2>2, <2>3 DEF Fence!Next, Fence!Expire, Settled
<1>5. CASE UNCHANGED <<generation, cache>> /\ (Pending' => Pending)
  <2>1. board' = board
    BY <1>5 DEF published
  <2>2. Settled' \in {Settled, Settled + 1}
    BY <1>0, <1>5 DEF Settled
  <2>3. QED BY <2>1, <2>2 DEF Fence!Next, Fence!Abandon, Settled
<1>6. ASSUME NEW p \in Process, EnrichPublish(p)
      PROVE  [Fence!Next]_<<published.generation, Settled>>
  BY <1>6, FillEffect DEF Settled, Pending, Holder, published, Lane
<1>7. CASE Tick
  <2>1. /\ \A v \in Worker : /\ refresh'[v].phase = refresh[v].phase
                             /\ refresh'[v].generation = refresh[v].generation
        /\ generation' = generation
        /\ cache'["published"] = Older(cache["published"])
    BY <1>7 DEF Tick, TypeOK, Lane
  <2>2. board' = board
    BY <2>1, OlderKeeps DEF published, TypeOK, Lane
  <2>3. QED BY <2>1, <2>2 DEF Settled, Pending, Holder
<1>8. ASSUME NEW p \in Process, ReaderStep(p)
      PROVE  [Fence!Next]_<<published.generation, Settled>>
  BY <1>1, <1>2, <1>8, WorkerFacts DEF ReaderStep, Read, Schedule, PollServe, PollRefuse,
     PollSchedule, ColdWaitOver, stateRow
<1>9. ASSUME NEW w \in Worker, RefreshStep(w)
      PROVE  [Fence!Next]_<<published.generation, Settled>>
  <2>1. ASSUME UNCHANGED <<generation, cache>>,
               \A v \in Worker : v # w => refresh'[v] = refresh[v],
               refresh'[w].generation = refresh[w].generation,
               refresh'[w].phase \in {"fetching", "fetched"} =>
                 refresh[w].phase \in {"fetching", "fetched"}
        PROVE  [Fence!Next]_<<published.generation, Settled>>
    BY <1>5, <2>1 DEF Pending, Holder
  <2>2. CASE \E p \in Provider : \E b \in BoardOf(p) : FetchReturns(w, p, b)
    BY <2>1, <2>2 DEF FetchReturns, TypeOK, stateRow
  <2>3. CASE (\E d \in RetryAfters : FetchFails(w, d)) \/ PublishFenced(w)
             \/ PublishRejected(w) \/ RecordFailure(w) \/ QueueEnrichment(w)
    BY <2>1, <2>3 DEF FetchFails, PublishFenced, PublishRejected, RecordFailure,
       QueueEnrichment, TypeOK, stateRow
  <2>4. QED BY <1>3, <1>4, <1>9, <2>2, <2>3 DEF RefreshStep
<1>10. ASSUME NEW p \in Process, Crash(p)
       PROVE  [Fence!Next]_<<published.generation, Settled>>
  BY <1>5, <1>10 DEF Crash, Pending, Holder, Idle, stateRow, TypeOK
<1>11. ASSUME NEW p \in Process, EnrichStep(p)
       PROVE  [Fence!Next]_<<published.generation, Settled>>
  BY <1>1, <1>6, <1>11 DEF EnrichStep, EnrichReturns, EnrichFails, stateRow
<1>12. CASE UNCHANGED vars \/ \E w \in Worker : Renew(w)
  BY <1>1, <1>12 DEF vars, Renew
<1>13. QED BY <1>7, <1>8, <1>9, <1>10, <1>11, <1>12 DEF Next

\* At first nothing is published and no refresh was handed out.
LEMMA FenceInitImplemented == Init => Fence!Init
  BY DEF Init, Fence!Init, published, Pending, Holder, Idle, NoRow, Lane

\* The published board implements SnapshotFence: every claim is shown once, in
\* order, or abandoned for good, whatever crashes, stalls and expiries happen.
THEOREM SnapshotFenceImplemented == Spec => ImplementsSnapshotFence
<1>1. TypeOK /\ FenceInv /\ [Next]_vars =>
        [Fence!Next]_<<published.generation, IF Pending THEN generation - 1 ELSE generation>>
  BY FenceStepImplemented DEF Settled
<1>2. QED BY FenceInitImplemented, TypeCorrect, FenceHolds, <1>1, PTL
     DEF Spec, ImplementsSnapshotFence, Fence!Spec
-----------------------------------------------------------------------------
(* The lease.                                                              *)

\* Only the clock, a claim, a renewal and the end of a thread touch the lease.
LEMMA LeaseSteps ==
  ASSUME [Next]_vars
  PROVE  \/ UNCHANGED lease
         \/ lease = 0
         \/ lease' = Lease
         \/ lease' = Down(lease)
         \/ \E v \in Worker : Finish(v)
<1>1. CASE UNCHANGED vars
  BY <1>1 DEF vars
<1>2. ASSUME NEW p \in Process, ReaderStep(p) PROVE UNCHANGED lease \/ lease = 0
  BY <1>2 DEF ReaderStep, Read, Schedule, PollServe, PollRefuse, PollSchedule,
              ColdWaitOver, Claim, stateRow
<1>3. ASSUME NEW p \in Process, EnrichStep(p) \/ Crash(p) PROVE UNCHANGED lease
  BY <1>3 DEF EnrichStep, EnrichReturns, EnrichFails, EnrichPublish, Crash, stateRow
<1>4. ASSUME NEW w \in Worker, RefreshStep(w) PROVE UNCHANGED lease \/ Finish(w)
  BY <1>4 DEF RefreshStep, FetchReturns, FetchFails, PublishFenced, PublishRejected,
              Publish, RecordFailure, QueueEnrichment, stateRow
<1>5. ASSUME NEW w \in Worker, Renew(w) PROVE lease' = Lease
  BY <1>5 DEF Renew
<1>6. CASE Tick
  BY <1>6 DEF Tick
<1>7. QED BY <1>1, <1>2, <1>3, <1>4, <1>5, <1>6 DEF Next

\* A thread at work for the current generation loses its lease to the clock alone:
\* the thread that ends is another, and so works for another generation.
THEOREM LeaseLostToTheClockOnlyHolds == Spec => LeaseLostToTheClockOnly
<1>1. ASSUME TypeOK, FenceInv, [Next]_vars, NEW w \in Worker,
             Holder(w), Holder(w)', lease > 1
      PROVE  lease' > 0
  <2>1. lease \in Nat
    BY <1>1 DEF TypeOK
  <2>2. ASSUME NEW v \in Worker, Finish(v)
        PROVE  lease' = lease
    <3>1. v # w /\ refresh[v].phase # "idle" /\ refresh[w].phase # "idle"
      BY <1>1, <2>2 DEF Finish, Holder
    <3>2. refresh[v].generation # generation
      BY <1>1, <3>1 DEF FenceInv, SingleFlight, Holder
    <3>3. QED BY <2>2, <3>2 DEF Finish
  <2>3. QED BY <1>1, <2>1, <2>2, LeaseSteps DEF Down
<1>2. TypeOK /\ FenceInv /\ [Next]_vars
      => [\A w \in Worker : Holder(w) /\ Holder(w)' /\ lease > 1 => lease' > 0]_vars
  BY <1>1
<1>3. QED
  BY TypeCorrect, FenceHolds, <1>2, PTL DEF Spec, LeaseLostToTheClockOnly
=============================================================================
