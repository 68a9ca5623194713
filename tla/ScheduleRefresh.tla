-------------------------- MODULE ScheduleRefresh --------------------------
(***************************************************************************)
(* Demand-driven airport boards of the relay (relay/schedule_service.py).  *)
(*                                                                         *)
(* One lane, that is one airport under one provider policy.  Its row of    *)
(* schedule_refresh_state and its rows of schedule_provider_cache live in  *)
(* an SQLite file shared by several relay processes.  A reader that finds  *)
(* the lane due claims a new generation and a lease; a refresh thread      *)
(* fetches, publishes under that generation and lease, may queue an        *)
(* enrichment, and lets the lease go.  Threads stall, processes die, and   *)
(* a stalled thread wakes up after the lane has moved on.                  *)
(*                                                                         *)
(* A stored deadline (lease_until, next_at, enrichment_at + 3600) is kept  *)
(* as the time left until it, which is 0 once the deadline has passed; a   *)
(* stored time of fetch is kept as an age.  Tick moves all of them.        *)
(***************************************************************************)
EXTENDS Integers, FiniteSets

CONSTANTS
  Process,          \* relay processes that share the database
  Slots,            \* refresh threads of one process (workers)
  Lease,            \* lease_seconds
  Interval,         \* interval, at least 900 s
  EnrichInterval,   \* 3600 s between two enrichments of a lane
  Coverage,         \* how far past its fetch a board covers
  Retention,        \* retention_seconds: a row of this age has expired
  RetryAfters,      \* delays a provider's Retry-After header may ask for
  MaxGeneration     \* bound: generations a model may claim

ASSUME ScheduleAssumption ==
  /\ Slots \in Nat \ {0}
  /\ Lease \in Nat \ {0}
  /\ Interval \in Nat \ {0}
  /\ EnrichInterval \in Nat \ {0}
  /\ Coverage \in Nat \ {0}
  /\ Retention \in Nat \ {0}
  /\ RetryAfters \subseteq Nat
  /\ MaxGeneration \in Nat

Worker == Process \X (1..Slots)

VARIABLES
  generation,     \* schedule_refresh_state.generation
  lease,          \* time left until lease_until
  wait,           \* time left until next_at
  enrichWait,     \* time left until enrichment_at is an hour old
  lastError,      \* last_error is not empty
  confirmations,  \* empty_confirmations
  cache,          \* schedule_provider_cache, one row per provider and "published"
  refresh,        \* the refresh thread in each slot
  enrich,         \* the enrichment thread of each process
  reader,         \* a request thread of each process inside read()
  emptySeen       \* history: generation of the rejected empty board that
                  \* confirmations stands for, 0 when there is none

stateRow == <<generation, lease, wait, enrichWait, lastError, confirmations>>
vars == <<generation, lease, wait, enrichWait, lastError, confirmations,
          cache, refresh, enrich, reader, emptySeen>>

-----------------------------------------------------------------------------
(* Boards.  "busy" has at least eight flights in the window two boards     *)
(* share; "thin" has so few that losing the others is suspicious; "empty"  *)
(* has none and the provider's adapter validated that, which only the one  *)
(* for AeroDataBox does.                                                   *)

Provider == {"aerodatabox", "aviationstack"}
Lane == Provider \cup {"published"}
Board == {"busy", "thin", "empty"}

Row == [provider: Provider \cup {"none"}, board: Board,
        generation: Nat, age: 0..Retention]

NoRow == [provider |-> "none", board |-> "empty", generation |-> 0, age |-> 0]

Fetched(p, b, g) == [provider |-> p, board |-> b, generation |-> g, age |-> 0]

\* _load returns a row only while it has not expired.
Loadable(row) == row.generation > 0 /\ row.age < Retention

\* _usable: recent enough and its coverage still reaches past now.
Usable(row) == Loadable(row) /\ row.age < Coverage

Overlaps(payload, previous) == previous.age - payload.age < Coverage

suspicious(payload, previous) ==
  /\ Loadable(previous)
  /\ Overlaps(payload, previous)
  /\ previous.board = "busy"
  /\ payload.board # "busy"

ValidatedEmpty(payload) == payload.board = "empty"

BoardOf(p) == IF p = "aerodatabox" THEN Board ELSE {"busy", "thin"}

-----------------------------------------------------------------------------
RefreshPhase == {"idle", "fetching", "fetched", "failed", "published", "closing"}
EnrichPhase == {"idle", "fetching", "fetched"}
ReaderPhase == {"idle", "refresh_then_serve", "refresh_then_wait", "waiting"}

Idle == [phase |-> "idle", generation |-> 0, payload |-> NoRow, delay |-> 0]
NoFill == [phase |-> "idle", generation |-> 0, payload |-> NoRow]

TypeOK ==
  /\ generation \in Nat
  /\ lease \in Nat
  /\ wait \in Nat
  /\ enrichWait \in Nat
  /\ lastError \in BOOLEAN
  /\ confirmations \in {0, 1}
  /\ cache \in [Lane -> Row]
  /\ refresh \in [Worker -> [phase: RefreshPhase, generation: Nat,
                             payload: Row, delay: Nat]]
  /\ enrich \in [Process -> [phase: EnrichPhase, generation: Nat, payload: Row]]
  /\ reader \in [Process -> ReaderPhase]
  /\ emptySeen \in Nat

Init ==
  /\ generation = 0
  /\ lease = 0
  /\ wait = 0
  /\ enrichWait = 0
  /\ lastError = FALSE
  /\ confirmations = 0
  /\ cache = [k \in Lane |-> NoRow]
  /\ refresh = [w \in Worker |-> Idle]
  /\ enrich = [p \in Process |-> NoFill]
  /\ reader = [p \in Process |-> "idle"]
  /\ emptySeen = 0

-----------------------------------------------------------------------------
(* Readers.                                                                *)

published == cache["published"]

\* Mutated form of Due: an empty cache is not due.
DueOnlyWhenStale == wait = 0 /\ Loadable(published) /\ published.age >= Interval

\* The lane is due for this reader: next_at has passed and the board it
\* loaded, if any, is at least an interval old.
Due == wait = 0 /\ (Loadable(published) => published.age >= Interval)

\* read(), first transaction: load the board and decide what to do with it.
Read(p) ==
  /\ reader[p] = "idle"
  /\ \/ /\ Due
        /\ reader' = [reader EXCEPT ![p] = IF Usable(published)
                                           THEN "refresh_then_serve"
                                           ELSE "refresh_then_wait"]
     \/ /\ ~Due /\ ~Usable(published)
        /\ reader' = [reader EXCEPT ![p] = "waiting"]
  /\ UNCHANGED <<stateRow, cache, refresh, enrich, emptySeen>>

\* _schedule's transaction: claim the next generation for an idle slot.
Claim(w) ==
  /\ refresh[w] = Idle
  /\ lease = 0 /\ wait = 0
  /\ generation < MaxGeneration
  /\ generation' = generation + 1
  /\ lease' = Lease
  /\ wait' = Interval
  /\ refresh' = [refresh EXCEPT ![w] = [phase |-> "fetching",
                   generation |-> generation + 1, payload |-> NoRow, delay |-> 0]]
  /\ UNCHANGED <<enrichWait, lastError, confirmations, cache, enrich, emptySeen>>

AfterSchedule(phase) == IF phase = "refresh_then_serve" THEN "idle" ELSE "waiting"

\* _schedule called by read(): a claim, or an early return because no slot
\* is free, a lease runs or next_at lies ahead.
Schedule(p) ==
  /\ reader[p] \in {"refresh_then_serve", "refresh_then_wait"}
  /\ reader' = [reader EXCEPT ![p] = AfterSchedule(@)]
  /\ \/ \E i \in 1..Slots : Claim(<<p, i>>)
     \/ /\ \/ lease > 0 \/ wait > 0 \/ generation = MaxGeneration
           \/ \A i \in 1..Slots : refresh[<<p, i>>].phase # "idle"
        /\ UNCHANGED <<stateRow, cache, refresh, enrich, emptySeen>>

\* One turn of the cold-wait loop that does something: serve, give up on a
\* recorded failure, schedule again, or run into the cold_wait deadline.
PollServe(p) ==
  /\ reader[p] = "waiting"
  /\ Usable(published)
  /\ reader' = [reader EXCEPT ![p] = "idle"]
  /\ UNCHANGED <<stateRow, cache, refresh, enrich, emptySeen>>

PollRefuse(p) ==
  /\ reader[p] = "waiting"
  /\ ~Usable(published)
  /\ lease = 0 /\ lastError
  /\ reader' = [reader EXCEPT ![p] = "idle"]
  /\ UNCHANGED <<stateRow, cache, refresh, enrich, emptySeen>>

PollSchedule(p) ==
  /\ reader[p] = "waiting"
  /\ ~Usable(published)
  /\ ~lastError
  /\ \E i \in 1..Slots : Claim(<<p, i>>)
  /\ UNCHANGED reader

ColdWaitOver(p) ==
  /\ reader[p] = "waiting"
  /\ reader' = [reader EXCEPT ![p] = "idle"]
  /\ UNCHANGED <<stateRow, cache, refresh, enrich, emptySeen>>

-----------------------------------------------------------------------------
(* A refresh thread.                                                       *)

\* _renew: the renewer of a running refresh extends the lease of its own
\* generation while that lease has not run out.
Renew(w) ==
  /\ refresh[w].phase # "idle"
  /\ refresh[w].generation = generation
  /\ lease > 0
  /\ lease' = Lease
  /\ UNCHANGED <<generation, wait, enrichWait, lastError, confirmations,
                 cache, refresh, enrich, reader, emptySeen>>

\* backend.fetch returns a board, of the primary or of the fallback provider.
FetchReturns(w, p, b) ==
  /\ refresh[w].phase = "fetching"
  /\ refresh' = [refresh EXCEPT ![w].phase = "fetched",
                   ![w].payload = Fetched(p, b, refresh[w].generation)]
  /\ UNCHANGED <<stateRow, cache, enrich, reader, emptySeen>>

\* backend.fetch raises, with the delay its Retry-After header asks for.
FetchFails(w, delay) ==
  /\ refresh[w].phase = "fetching"
  /\ refresh' = [refresh EXCEPT ![w].phase = "failed", ![w].delay = delay]
  /\ UNCHANGED <<stateRow, cache, enrich, reader, emptySeen>>

\* Mutated form of Fenced: any running lease will do.
FencedByLeaseOnly(w) == lease = 0

\* _publish refuses a thread whose generation or lease is gone.
Fenced(w) == refresh[w].generation # generation \/ lease = 0

PublishFenced(w) ==
  /\ refresh[w].phase = "fetched"
  /\ Fenced(w)
  /\ refresh' = [refresh EXCEPT ![w].phase = "closing", ![w].payload = NoRow]
  /\ UNCHANGED <<stateRow, cache, enrich, reader, emptySeen>>

\* A suspicious board needs an earlier validated-empty rejection.
Rejected(payload) ==
  /\ suspicious(payload, cache[payload.provider])
  /\ ~ValidatedEmpty(payload) \/ confirmations < 1

\* Mutated form of CountEmpty: any rejection counts.
CountAnyRejection(payload) ==
  /\ confirmations' = 1
  /\ emptySeen' = IF ValidatedEmpty(payload) THEN payload.generation ELSE 0

\* What a rejection leaves behind: int(empty).
CountEmpty(payload) ==
  /\ confirmations' = IF ValidatedEmpty(payload) THEN 1 ELSE 0
  /\ emptySeen' = IF ValidatedEmpty(payload) THEN payload.generation ELSE 0

PublishRejected(w) ==
  /\ refresh[w].phase = "fetched"
  /\ ~Fenced(w)
  /\ Rejected(refresh[w].payload)
  /\ CountEmpty(refresh[w].payload)
  /\ refresh' = [refresh EXCEPT ![w].phase = "failed", ![w].payload = NoRow]
  /\ UNCHANGED <<generation, lease, wait, enrichWait, lastError,
                 cache, enrich, reader>>

Publish(w) ==
  /\ refresh[w].phase = "fetched"
  /\ ~Fenced(w)
  /\ ~Rejected(refresh[w].payload)
  /\ cache' = [cache EXCEPT ![refresh[w].payload.provider] = refresh[w].payload,
                            !["published"] = refresh[w].payload]
  /\ confirmations' = 0
  /\ emptySeen' = 0
  /\ lastError' = FALSE
  /\ refresh' = [refresh EXCEPT ![w].phase = "published"]
  /\ UNCHANGED <<generation, lease, wait, enrichWait, enrich, reader>>

\* The except branch: the failure is recorded only for the current generation.
RecordFailure(w) ==
  /\ refresh[w].phase = "failed"
  /\ IF refresh[w].generation = generation
     THEN /\ lastError' = TRUE
          /\ wait' = IF wait < refresh[w].delay THEN refresh[w].delay ELSE wait
     ELSE UNCHANGED <<lastError, wait>>
  /\ refresh' = [refresh EXCEPT ![w].phase = "closing", ![w].delay = 0]
  /\ UNCHANGED <<generation, lease, enrichWait, confirmations,
                 cache, enrich, reader, emptySeen>>

\* _queue_enrichment: one enrichment an hour, for the current generation, when
\* the enrichment slot of the process is free.
QueueEnrichment(w) ==
  /\ refresh[w].phase = "published"
  /\ refresh[w].payload.provider = "aerodatabox"
  /\ IF enrich[w[1]].phase = "idle" /\ enrichWait = 0
          /\ refresh[w].generation = generation
     THEN /\ enrichWait' = EnrichInterval
          /\ enrich' = [enrich EXCEPT ![w[1]] = [phase |-> "fetching",
               generation |-> refresh[w].generation, payload |-> NoRow]]
     ELSE UNCHANGED <<enrichWait, enrich>>
  /\ refresh' = [refresh EXCEPT ![w].phase = "closing", ![w].payload = NoRow]
  /\ UNCHANGED <<generation, lease, wait, lastError, confirmations,
                 cache, reader, emptySeen>>

\* Mutated form of Finish: it lets the lease go, whoever holds it.
FinishAnyLease(w) ==
  /\ refresh[w].phase \in {"published", "closing"}
  /\ lease' = 0
  /\ cache' = [k \in Lane |-> IF Loadable(cache[k]) THEN cache[k] ELSE NoRow]
  /\ refresh' = [refresh EXCEPT ![w] = Idle]
  /\ UNCHANGED <<generation, wait, enrichWait, lastError, confirmations,
                 enrich, reader, emptySeen>>

\* The finally branch: stop the renewer, let the lease of this generation go,
\* delete expired rows, free the slot.  A board whose flights need no
\* enrichment comes here straight from publication.
Finish(w) ==
  /\ refresh[w].phase \in {"published", "closing"}
  /\ lease' = IF refresh[w].generation = generation THEN 0 ELSE lease
  /\ cache' = [k \in Lane |-> IF Loadable(cache[k]) THEN cache[k] ELSE NoRow]
  /\ refresh' = [refresh EXCEPT ![w] = Idle]
  /\ UNCHANGED <<generation, wait, enrichWait, lastError, confirmations,
                 enrich, reader, emptySeen>>

-----------------------------------------------------------------------------
(* An enrichment thread.                                                   *)

EnrichReturns(p, b) ==
  /\ enrich[p].phase = "fetching"
  /\ enrich' = [enrich EXCEPT ![p].phase = "fetched",
       ![p].payload = Fetched("aviationstack", b, enrich[p].generation)]
  /\ UNCHANGED <<stateRow, cache, refresh, reader, emptySeen>>

\* backend.enrich raises: swallowed, the slot is freed.
EnrichFails(p) ==
  /\ enrich[p].phase = "fetching"
  /\ enrich' = [enrich EXCEPT ![p] = NoFill]
  /\ UNCHANGED <<stateRow, cache, refresh, reader, emptySeen>>

\* _publish(published=False): fenced by the generation alone, stored beside the
\* published board and never over it.
EnrichPublish(p) ==
  /\ enrich[p].phase = "fetched"
  /\ enrich' = [enrich EXCEPT ![p] = NoFill]
  /\ \/ /\ enrich[p].generation # generation
        /\ UNCHANGED <<confirmations, emptySeen, cache>>
     \/ /\ enrich[p].generation = generation
        /\ Rejected(enrich[p].payload)
        /\ CountEmpty(enrich[p].payload)
        /\ UNCHANGED cache
     \/ /\ enrich[p].generation = generation
        /\ ~Rejected(enrich[p].payload)
        /\ confirmations' = 0
        /\ emptySeen' = 0
        /\ cache' = [cache EXCEPT !["aviationstack"] = enrich[p].payload]
  /\ UNCHANGED <<generation, lease, wait, enrichWait, lastError, refresh, reader>>

-----------------------------------------------------------------------------
(* The environment.                                                        *)

\* A process dies: its threads vanish, the database stays as it was.
Crash(p) ==
  /\ refresh' = [w \in Worker |-> IF w[1] = p THEN Idle ELSE refresh[w]]
  /\ enrich' = [enrich EXCEPT ![p] = NoFill]
  /\ reader' = [reader EXCEPT ![p] = "idle"]
  /\ UNCHANGED <<stateRow, cache, emptySeen>>

Down(n) == IF n > 0 THEN n - 1 ELSE 0

Older(row) == IF row.generation > 0 /\ row.age < Retention
              THEN [row EXCEPT !.age = row.age + 1] ELSE row

\* Time passes, whatever the threads are doing.
Tick ==
  /\ lease' = Down(lease)
  /\ wait' = Down(wait)
  /\ enrichWait' = Down(enrichWait)
  /\ cache' = [k \in Lane |-> Older(cache[k])]
  /\ refresh' = [w \in Worker |->
                   [refresh[w] EXCEPT !.payload = Older(refresh[w].payload)]]
  /\ enrich' = [p \in Process |->
                  [enrich[p] EXCEPT !.payload = Older(enrich[p].payload)]]
  /\ UNCHANGED <<generation, lastError, confirmations, reader, emptySeen>>

-----------------------------------------------------------------------------
ReaderStep(p) == \/ Read(p) \/ Schedule(p) \/ PollServe(p) \/ PollRefuse(p)
                 \/ PollSchedule(p) \/ ColdWaitOver(p)

RefreshStep(w) ==
  \/ \E p \in Provider : \E b \in BoardOf(p) : FetchReturns(w, p, b)
  \/ \E d \in RetryAfters : FetchFails(w, d)
  \/ PublishFenced(w) \/ PublishRejected(w) \/ Publish(w)
  \/ RecordFailure(w) \/ QueueEnrichment(w) \/ Finish(w)

EnrichStep(p) == \/ \E b \in BoardOf("aviationstack") : EnrichReturns(p, b)
                 \/ EnrichFails(p) \/ EnrichPublish(p)

Next ==
  \/ \E p \in Process : ReaderStep(p) \/ EnrichStep(p) \/ Crash(p)
  \/ \E w \in Worker : RefreshStep(w) \/ Renew(w)
  \/ Tick

Spec == Init /\ [][Next]_vars

\* The clock moves, clients keep asking, and every thread's next call returns
\* (HTTP and SQLite calls have timeouts).  Processes may crash, but not for
\* ever.  Nothing is assumed of the renewer.
Fairness ==
  /\ <>[][\A p \in Process : ~Crash(p)]_vars
  /\ WF_vars(Tick)
  /\ \A p \in Process : WF_vars(Read(p) \/ Schedule(p) \/ PollSchedule(p) \/ PollRefuse(p))
  /\ \A w \in Worker : WF_vars(RefreshStep(w))

FairSpec == Spec /\ Fairness
-----------------------------------------------------------------------------
(* Properties.                                                             *)

\* w works for the current generation and has not come to its publication.
Holder(w) == /\ refresh[w].phase \in {"fetching", "fetched"}
             /\ refresh[w].generation = generation

\* No two threads, of one process or of two, fetch for the same claim: the
\* BEGIN IMMEDIATE of _schedule hands a generation out once, whatever stalled
\* threads and crashed processes are around (schedule_service.py:181-189).
SingleFlight ==
  \A v, w \in Worker :
    /\ v # w
    /\ refresh[v].phase # "idle" /\ refresh[w].phase # "idle"
    => refresh[v].generation # refresh[w].generation

\* No two processes spend an enrichment on the same generation: the claim of
\* enrichment_at is taken once (schedule_service.py:294-299).
SingleEnrichment ==
  \A p, q \in Process :
    /\ p # q
    /\ enrich[p].phase # "idle" /\ enrich[q].phase # "idle"
    => enrich[p].generation # enrich[q].generation

\* A failure recorded by a thread that lost the lane never marks a board that
\* the current generation has published (schedule_service.py:235 and 271).
CurrentBoardHasNoError ==
  published.generation = generation /\ generation > 0 => ~lastError

\* No stored row, the published board or a provider's, is overwritten by an
\* earlier fetch or altered in place, however late a refresh or an enrichment
\* comes home (the fence of schedule_service.py:219-221).
RowsMoveForward ==
  [][\A k \in Lane :
       LET old == cache[k]  new == cache'[k] IN
       \/ new = NoRow
       \/ new.generation > old.generation
       \/ /\ new.generation = old.generation
          /\ new.provider = old.provider /\ new.board = old.board
          /\ new.age >= old.age]_vars

\* A provider's busy board is replaced by one without its flights only when the
\* new one is a validated empty, and another fetch, later than the busy board,
\* had already come back empty ("needs a second independently fetched empty
\* result before replacement", schedule_service.py:79-81 and 222-229).
LostBusy(old, new) ==
  /\ Loadable(old) /\ old.board = "busy"
  /\ new.generation > old.generation /\ new.board # "busy"
  /\ Overlaps(new, old)

Confirmed(old, new) ==
  ValidatedEmpty(new) /\ old.generation < emptySeen /\ emptySeen < new.generation

ProviderBoardLossConfirmed ==
  [][\A k \in Provider :
       LostBusy(cache[k], cache'[k]) => Confirmed(cache[k], cache'[k])]_vars

\* The same of the board readers see, as the comment at schedule_service.py:79
\* has it.
PublishedBoardLossConfirmed ==
  [][LostBusy(published, published') => Confirmed(published, published')]_vars

\* A thread that still works for the current generation loses its lease to the
\* clock alone: no other thread's end, failure or renewal takes it away
\* (the generation test of schedule_service.py:200 and 281).
LeaseLostToTheClockOnly ==
  [][\A w \in Worker : Holder(w) /\ Holder(w)' /\ lease > 1 => lease' > 0]_vars

\* A lease ends, by the finally branch of its thread or, after a crash, by
\* running out: no renewer keeps a lane for good (schedule_service.py:196-204
\* and 276-286).
LeaseLetGo == lease > 0 ~> lease = 0

\* A lane without a usable board is claimed again as long as clients ask,
\* whatever failed, was fenced off or died before.
ColdLaneRefreshed ==
  \A g \in 0..(MaxGeneration - 1) :
    generation = g /\ ~Usable(published) ~> generation > g \/ Usable(published)

\* The board as an abstract fenced board.  The number of the running claim is
\* settled once its thread cannot publish any more.
Pending == \E w \in Worker : Holder(w)

Fence == INSTANCE SnapshotFence WITH
  board <- published.generation,
  settled <- IF Pending THEN generation - 1 ELSE generation

\* The published board is an abstract fenced board: every claim is shown once,
\* in order, or abandoned for good.
ImplementsSnapshotFence == Fence!Spec
-----------------------------------------------------------------------------
(* The inductive invariant behind the properties above, in named parts.    *)

\* No generation in use lies ahead of the counter.
GenerationsIssued ==
  /\ \A w \in Worker : refresh[w].phase # "idle" =>
       refresh[w].generation \in 1..generation
  /\ \A p \in Process : enrich[p].phase # "idle" =>
       enrich[p].generation \in 1..generation
  /\ \A k \in Lane : cache[k].generation <= generation

\* A thread carries the board of its own generation.
PayloadsOwned ==
  /\ \A w \in Worker : refresh[w].phase \in {"fetched", "published"} =>
       /\ refresh[w].payload.generation = refresh[w].generation
       /\ refresh[w].payload.provider \in Provider
  /\ \A p \in Process : enrich[p].phase = "fetched" =>
       /\ enrich[p].payload.generation = enrich[p].generation
       /\ enrich[p].payload.provider = "aviationstack"
       /\ enrich[p].payload.board # "empty"

\* Until its publication the current generation has stored nothing, and has
\* no enrichment.
HolderStoredNothing ==
  \A w \in Worker : Holder(w) =>
    /\ \A k \in Lane : cache[k].generation < generation
    /\ \A p \in Process : enrich[p].phase # "idle" => enrich[p].generation # generation

\* A refresh that failed has not published.
FailedNotPublished ==
  \A w \in Worker :
    refresh[w].phase = "failed" /\ refresh[w].generation = generation =>
      published.generation < generation

\* Between a publication from AeroDataBox and its call of _queue_enrichment no
\* fill of that generation exists.
NoFillBeforeQueue ==
  \A w \in Worker :
    /\ refresh[w].phase = "published" /\ refresh[w].generation = generation
    /\ refresh[w].payload.provider = "aerodatabox"
    => /\ cache["aviationstack"].generation < generation
       /\ \A p \in Process : enrich[p].phase # "idle" => enrich[p].generation # generation

\* A running enrichment of the current generation has stored nothing yet.
EnrichmentStoredNothing ==
  \A p \in Process :
    enrich[p].phase # "idle" /\ enrich[p].generation = generation =>
      cache["aviationstack"].generation < generation

\* A counted empty board is later than every stored row, and its own thread
\* is past publication.
CountedEmptyIsEvidence ==
  confirmations = 1 =>
    /\ emptySeen \in 1..generation
    /\ \A k \in Lane : cache[k].generation < emptySeen
    /\ (\E w \in Worker : Holder(w)) => emptySeen < generation

FenceInv ==
  /\ GenerationsIssued
  /\ PayloadsOwned
  /\ SingleFlight
  /\ SingleEnrichment
  /\ HolderStoredNothing
  /\ FailedNotPublished
  /\ NoFillBeforeQueue
  /\ EnrichmentStoredNothing
  /\ CountedEmptyIsEvidence
  /\ CurrentBoardHasNoError

\* A lane has its type, and its fence holds: every claim has one thread and one
\* enrichment, and stale threads change nothing of a newer generation.
ScheduleInv == TypeOK /\ FenceInv
=============================================================================
