---------------------------- MODULE RelayWork_proofs ----------------------------
(***************************************************************************)
(* Proofs about two kinds of work of the relay: requests to a schedule        *)
(* provider (ProviderTransport: any set of workers, any interval, delay and    *)
(* budget) and the ground layers (GroundWarm: any finite set of processes,     *)
(* any airports and jobs).  The two specifications share nothing; each has a   *)
(* part of this module.                                                      *)
(*                                                                         *)
(* The provider.  The invariant the runs check is inductive as it stands.     *)
(* That few workers wait is counted: each waiting worker keeps an interval's   *)
(* ticks for itself, and all of them lie in the longest delay.                *)
(*                                                                         *)
(* The ground layers.  A job is carried by one thread or stands once in one    *)
(* queue (CarriedOnce), its row tells what its carrier is about to do          *)
(* (JobsTold), a lock tells who fetches (LocksHeld), and the stores of a       *)
(* layer are counted together with the processes still at one (StoresCounted). *)
(* Steps of one shape are proved together: of a thread that has a job          *)
(* (ThreadKeeps), of one that takes a job (TakeKeeps), at a layer (LayerKeeps). *)
(***************************************************************************)
EXTENDS ProviderTransport, GroundWarm, FiniteSetTheorems, TLAPS

USE TransportAssumption
-----------------------------------------------------------------------------
(* The provider: slots.                                                    *)

\* The ticks in which slots of waiting workers can lie.
Room == 1..(MaxDelay + Interval - 1)

\* Every waiting worker keeps a slot of Interval ticks for itself.
SlotAt == [x \in Waiting \X (0..(Interval - 1)) |-> sleep[x[1]] + x[2]]

\* No two waiting workers' slots overlap, and all lie in the longest delay and a slot.
LEMMA SlotAtInjection ==
  ASSUME TypeOK, SlotsApart
  PROVE  SlotAt \in Injection(Waiting \X (0..(Interval - 1)), Room)
<1>1. ASSUME NEW w \in Waiting PROVE w \in Worker /\ sleep[w] \in 1..MaxDelay
  BY DEF TypeOK, Waiting
<1>2. ASSUME NEW w \in Waiting, NEW i \in 0..(Interval - 1)
      PROVE  sleep[w] + i \in Room
  BY <1>1 DEF Room
<1>3. ASSUME NEW v \in Waiting, NEW w \in Waiting, NEW i \in 0..(Interval - 1),
             NEW k \in 0..(Interval - 1), sleep[v] + i = sleep[w] + k
      PROVE  v = w /\ i = k
  <2>1. sleep[v] \in Nat /\ sleep[w] \in Nat
    BY <1>1
  <2>2. v = w
    BY <1>3, <2>1 DEF SlotsApart
  <2>. QED  BY <1>3, <2>1, <2>2
<1>4. SlotAt \in [Waiting \X (0..(Interval - 1)) -> Room]
  BY <1>2 DEF SlotAt
<1>5. ASSUME NEW x \in Waiting \X (0..(Interval - 1)), NEW y \in Waiting \X (0..(Interval - 1)),
             SlotAt[x] = SlotAt[y]
      PROVE  x = y
  <2>1. PICK v \in Waiting, i \in 0..(Interval - 1) : x = <<v, i>>
    OBVIOUS
  <2>2. PICK w \in Waiting, k \in 0..(Interval - 1) : y = <<w, k>>
    OBVIOUS
  <2>3. sleep[v] + i = sleep[w] + k
    BY <1>5, <2>1, <2>2 DEF SlotAt
  <2>. QED  BY <1>3, <2>1, <2>2, <2>3
<1>. QED  BY <1>4, <1>5 DEF Injection, IsInjective

\* Slots an interval apart leave room for so many waiting workers only, of however many
\* there are: together their slots fill no more ticks than there are.
LEMMA WaitersFew == TypeOK /\ SlotsApart => WaitersBounded
<1> SUFFICES ASSUME TypeOK, SlotsApart PROVE WaitersBounded
  OBVIOUS
<1> DEFINE slots == Waiting \X (0..(Interval - 1))
<1>1. IsFiniteSet(Room) /\ Cardinality(Room) = MaxDelay + Interval - 1
  <2>1. 1 \in Int /\ MaxDelay + Interval - 1 \in Int /\ MaxDelay + Interval - 1 >= 0
    OBVIOUS
  <2>2. /\ IsFiniteSet(Room)
        /\ Cardinality(Room) = IF 1 > MaxDelay + Interval - 1 THEN 0
                               ELSE MaxDelay + Interval - 1 - 1 + 1
    BY <2>1, FS_Interval DEF Room
  <2>. QED  BY <2>1, <2>2
<1>2. IsFiniteSet(slots) /\ Cardinality(slots) <= MaxDelay + Interval - 1
  BY <1>1, SlotAtInjection, FS_Injection
<1>3. IsFiniteSet(Waiting)
  <2>1. [w \in Waiting |-> sleep[w]] \in Injection(Waiting, 1..MaxDelay)
    <3>1. \A w \in Waiting : sleep[w] \in 1..MaxDelay
      BY DEF TypeOK, Waiting
    <3>2. \A v, w \in Waiting : sleep[v] = sleep[w] => v = w
      BY <3>1 DEF SlotsApart
    <3>. QED  BY <3>1, <3>2 DEF Injection, IsInjective
  <2>2. IsFiniteSet(1..MaxDelay)
    BY FS_Interval
  <2>. QED  BY <2>1, <2>2, FS_Injection
<1>4. IsFiniteSet(0..(Interval - 1)) /\ Cardinality(0..(Interval - 1)) = Interval
  BY FS_Interval
<1>5. Cardinality(slots) = Cardinality(Waiting) * Interval
  BY <1>3, <1>4, FS_Product
<1>6. Cardinality(Waiting) \in Nat
  BY <1>3, FS_CardinalityType
<1>. HIDE DEF slots
<1>7. \A n, m \in Nat : (n - 1) * m = n * m - m
  OBVIOUS
<1>8. (Cardinality(Waiting) - 1) * Interval = Cardinality(Waiting) * Interval - Interval
  BY <1>6, <1>7
<1>9. Cardinality(Waiting) * Interval <= MaxDelay + Interval - 1
  BY <1>2, <1>5
<1>10. Cardinality(Waiting) * Interval \in Int
  BY <1>6
<1>. QED  BY <1>8, <1>9, <1>10 DEF WaitersBounded

\* At first nobody waits, nothing is reserved and nobody is blocked.
LEMMA TransportStart == Init => TransportInv
<1> SUFFICES ASSUME Init PROVE TransportInv
  OBVIOUS
<1>1. TypeOK
  <2>1. /\ 0 \in 0..Limit /\ 0 \in 0..Share /\ 0 \in 0..Cooldown /\ 0 \in 0..MaxDelay
        /\ 0 \in 0..MaxPages /\ 0 \in 0..MaxRetries /\ 0 \in 0..MaxMoods /\ 0 \in 0..1
    OBVIOUS
  <2>. QED  BY <2>1 DEF Init, TypeOK, Step
<1>2. SlotsApart
  BY DEF Init, SlotsApart, Waiting
<1>3. PaidAhead /\ PaidFor /\ BlockedInNext /\ StoppedForAll
  BY DEF Init, PaidAhead, PaidFor, BlockedInNext, StoppedForAll
<1>. QED  BY <1>1, <1>2, <1>3, WaitersFew DEF TransportInv
-----------------------------------------------------------------------------
(* The provider: a worker moves.                                           *)

\* The types of what belongs to the workers.
WorkersTyped ==
    /\ at \in [Worker -> Step]
    /\ sleep \in [Worker -> 0..MaxDelay]
    /\ pages \in [Worker -> 0..MaxPages]
    /\ retries \in [Worker -> 0..MaxRetries]
    /\ rich \in [Worker -> BOOLEAN]
    /\ credit \in [Worker -> 0..1]

\* Of where workers are and what they reserved, only w's may change; nobody's slot does.
Alone(w) ==
    /\ \A v \in Worker \ {w} : at'[v] = at[v] /\ credit'[v] = credit[v]
    /\ sleep' = sleep

\* A step of one worker that changes where it is only.
LEMMA StepOnFacts ==
  ASSUME TypeOK, NEW w \in Worker, NEW s \in Step, StepOn(w, s)
  PROVE  WorkersTyped' /\ Alone(w) /\ at'[w] = s /\ credit'[w] = credit[w]
  BY DEF TypeOK, StepOn, Go, WorkersTyped, Alone

\* The end of one worker's operation.
LEMMA OverFacts ==
  ASSUME TypeOK, NEW w \in Worker, Over(w)
  PROVE  WorkersTyped' /\ Alone(w) /\ at'[w] = "idle" /\ credit'[w] = 0
  BY DEF TypeOK, Over, Go, WorkersTyped, Alone, Step

\* The steps of one worker that takes no slot: it pays for the slot it goes to, requests if
\* welcome only, and may push the row's times forward if it takes note of who requests.
LEMMA MoveKeeps ==
  ASSUME TransportInv, NEW w \in Worker, TypeOK', Alone(w),
         at'[w] \notin {"sleep"}, next' >= next, blocked' <= next',
         credit'[w] = 1 => at'[w] \in {"slot", "failed"},
         at'[w] = "slot" => credit'[w] = 1,
         \/ /\ UNCHANGED <<blocked, paused, flight>>
            /\ at'[w] = "request" => Welcome
         \/ flight' = {v \in Worker \ {w} : at[v] = "request"} /\ at'[w] # "request"
  PROVE  TransportInv'
<1>1. SlotsApart'
  <2>1. Waiting' \subseteq Waiting /\ \A v \in Waiting' : sleep'[v] = sleep[v]
    BY DEF Alone, Waiting
  <2>2. \A v \in Waiting : sleep[v] \in Nat
    BY DEF TransportInv, TypeOK, Waiting
  <2>3. next \in Nat /\ next' \in Nat
    BY DEF TransportInv, TypeOK
  <2>. QED  BY <2>1, <2>2, <2>3 DEF TransportInv, SlotsApart
<1>2. PaidAhead' /\ PaidFor'
  BY DEF Alone, TransportInv, PaidAhead, PaidFor
<1>3. BlockedInNext'
  BY DEF BlockedInNext
<1>4. StoppedForAll'
  BY DEF Alone, TransportInv, TypeOK, StoppedForAll, Welcome
<1>5. WaitersBounded'
  BY <1>1, WaitersFew, PTL
<1>. QED  BY <1>1, <1>2, <1>3, <1>4, <1>5 DEF TransportInv

\* Of these, the ones that leave the row alone.
LEMMA QuietKeeps ==
  ASSUME TransportInv, NEW w \in Worker, WorkersTyped', Alone(w),
         UNCHANGED <<rowVars, providerVars>>,
         used' \in 0..Limit, shared' \in 0..Share, failures' \in Nat, open' \in 0..Cooldown,
         at'[w] # "sleep", at'[w] = "request" => Welcome,
         credit'[w] = 1 => at'[w] \in {"slot", "failed"},
         at'[w] = "slot" => credit'[w] = 1
  PROVE  TransportInv'
<1>1. TypeOK'
  BY DEF TransportInv, TypeOK, WorkersTyped, rowVars, providerVars
<1>2. next' >= next /\ blocked' <= next'
  BY DEF TransportInv, TypeOK, BlockedInNext, rowVars
<1>. QED  BY <1>1, <1>2, MoveKeeps DEF rowVars

\* The types of the counters and of the breaker.
LEMMA CountersTyped ==
  TransportInv => /\ used \in 0..Limit /\ shared \in 0..Share
                  /\ failures \in Nat /\ open \in 0..Cooldown
  BY DEF TransportInv, TypeOK

\* A worker with no slot to come and none behind it has reserved no unit.
LEMMA NoCredit ==
  ASSUME TransportInv, NEW w \in Worker, at[w] \notin {"slot", "sleep", "failed"}
  PROVE  credit[w] = 0
  BY DEF TransportInv, TypeOK, PaidAhead

\* A new operation.
LEMMA BeginKeeps ==
  ASSUME TransportInv, NEW w \in Worker, Begin(w) PROVE TransportInv'
<1>1. WorkersTyped' /\ Alone(w) /\ at'[w] = "start" /\ credit'[w] = credit[w]
  BY DEF Begin, Go, TransportInv, TypeOK, WorkersTyped, Alone, Step
<1>2. credit[w] = 0
  BY NoCredit DEF Begin
<1>. QED
  BY <1>1, <1>2, CountersTyped, QuietKeeps DEF Begin, budgetVars, breakerVars

\* The breaker lets an operation on or ends it.
LEMMA CheckCircuitKeeps ==
  ASSUME TransportInv, NEW w \in Worker, CheckCircuit(w) PROVE TransportInv'
<1>1. credit[w] = 0
  BY NoCredit DEF CheckCircuit
<1>2. WorkersTyped' /\ Alone(w) /\ at'[w] \in {"closed", "idle"} /\ credit'[w] = 0
  BY <1>1, StepOnFacts, OverFacts DEF CheckCircuit, Step, TransportInv
<1>. QED
  BY <1>2, CountersTyped, QuietKeeps DEF CheckCircuit, budgetVars, breakerVars

\* The row lets an operation on or ends it.
LEMMA CheckAvailableKeeps ==
  ASSUME TransportInv, NEW w \in Worker, CheckAvailable(w) PROVE TransportInv'
<1>1. credit[w] = 0
  BY NoCredit DEF CheckAvailable
<1>2. WorkersTyped' /\ Alone(w) /\ at'[w] \in {"available", "idle"} /\ credit'[w] = 0
  BY <1>1, StepOnFacts, OverFacts DEF CheckAvailable, Step, TransportInv
<1>. QED
  BY <1>2, CountersTyped, QuietKeeps DEF CheckAvailable, budgetVars, breakerVars

\* A unit is paid for one slot, and only while there are units.
LEMMA PayFacts ==
  ASSUME TransportInv, NEW w \in Worker, at[w] \in {"available", "backoff"},
         Pay(w), Go(w, "slot"), UNCHANGED <<sleep, pages, retries, rich>>
  PROVE  /\ WorkersTyped' /\ Alone(w) /\ at'[w] = "slot" /\ credit'[w] = 1
         /\ used' \in 0..Limit /\ shared' \in 0..Share
<1>1. credit[w] = 0
  BY NoCredit
<1>2. WorkersTyped' /\ Alone(w) /\ at'[w] = "slot" /\ credit'[w] = 1
  BY <1>1 DEF Pay, Go, TransportInv, TypeOK, WorkersTyped, Alone, Step
<1>3. used' \in 0..Limit /\ shared' \in 0..Share
  BY DEF Pay, Affordable, TransportInv, TypeOK
<1>. QED  BY <1>2, <1>3

\* An operation reserves its first unit or ends.
LEMMA ReserveKeeps ==
  ASSUME TransportInv, NEW w \in Worker, Reserve(w) PROVE TransportInv'
<1>1. CASE Pay(w) /\ Go(w, "slot") /\ UNCHANGED <<sleep, pages, retries, rich>>
  BY <1>1, PayFacts, CountersTyped, QuietKeeps DEF Reserve, breakerVars
<1>2. CASE Over(w) /\ UNCHANGED budgetVars
  BY <1>2, OverFacts, CountersTyped, QuietKeeps DEF Reserve, breakerVars, budgetVars,
     TransportInv
<1>. QED  BY <1>1, <1>2 DEF Reserve

\* A retry reserves a unit of its own or fails.
LEMMA ReserveRetryKeeps ==
  ASSUME TransportInv, NEW w \in Worker, ReserveRetry(w) PROVE TransportInv'
<1>1. CASE Pay(w) /\ Go(w, "slot") /\ UNCHANGED <<sleep, pages, retries, rich>>
  BY <1>1, PayFacts, CountersTyped, QuietKeeps DEF ReserveRetry, breakerVars
<1>2. CASE StepOn(w, "failed") /\ UNCHANGED budgetVars
  BY <1>2, StepOnFacts, CountersTyped, QuietKeeps DEF ReserveRetry, breakerVars, budgetVars,
     TransportInv, Step
<1>. QED  BY <1>1, <1>2 DEF ReserveRetry

\* A slot is the next one free: an interval after all that others wait for.
LEMMA SlotKeeps ==
  ASSUME TransportInv, NEW w \in Worker, Slot(w) PROVE TransportInv'
<1>1. CASE Available
  <2>1. /\ next' = next + Interval /\ sleep' = [sleep EXCEPT ![w] = next] /\ Go(w, "sleep")
        /\ UNCHANGED <<pages, retries, rich, credit>>
        /\ UNCHANGED <<blocked, paused, flight, budgetVars, breakerVars, providerVars>>
        /\ at[w] = "slot" /\ next \in 0..MaxDelay
    BY <1>1 DEF Slot, Following, Available, TransportInv, TypeOK
  <2>2. /\ at' \in [Worker -> Step] /\ at'[w] = "sleep"
        /\ sleep' \in [Worker -> 0..MaxDelay] /\ sleep'[w] = next
        /\ \A v \in Worker \ {w} : at'[v] = at[v] /\ sleep'[v] = sleep[v]
    BY <2>1 DEF Go, TransportInv, TypeOK, Step
  <2>3. TypeOK'
    BY <2>1, <2>2 DEF TransportInv, TypeOK, budgetVars, breakerVars, providerVars
  <2>4. SlotsApart'
    <3>1. ASSUME NEW v \in Waiting', v # w
          PROVE  /\ v \in Waiting /\ sleep'[v] = sleep[v] /\ sleep[v] \in Nat
                 /\ sleep[v] + Interval <= next
      BY <2>2, <3>1 DEF Waiting, TransportInv, TypeOK, SlotsApart
    <3>2. ASSUME NEW v \in Waiting' PROVE sleep'[v] + Interval <= next'
      BY <2>1, <2>2, <3>1
    <3>3. ASSUME NEW v \in Waiting', NEW u \in Waiting', v # u
          PROVE  sleep'[v] + Interval <= sleep'[u] \/ sleep'[u] + Interval <= sleep'[v]
      <4>1. CASE v # w /\ u # w
        BY <3>1, <3>3, <4>1 DEF TransportInv, SlotsApart
      <4>2. CASE v = w \/ u = w
        BY <2>2, <3>1, <3>3, <4>2
      <4>. QED  BY <4>1, <4>2
    <3>. QED  BY <3>2, <3>3 DEF SlotsApart
  <2>5. PaidAhead' /\ PaidFor'
    BY <2>1, <2>2 DEF TransportInv, PaidAhead, PaidFor
  <2>6. BlockedInNext'
    BY <2>1 DEF TransportInv, TypeOK, BlockedInNext
  <2>7. StoppedForAll'
    BY <2>1, <2>2 DEF TransportInv, StoppedForAll
  <2>8. WaitersBounded'
    BY <2>3, <2>4, WaitersFew, PTL
  <2>. QED  BY <2>3, <2>4, <2>5, <2>6, <2>7, <2>8 DEF TransportInv
<1>2. CASE ~Available
  BY <1>2, StepOnFacts, CountersTyped, QuietKeeps
  DEF Slot, Step, rowVars, budgetVars, breakerVars, TransportInv
<1>. QED  BY <1>1, <1>2

\* After its wait a worker spends its unit on a request, if still welcome, or fails.
LEMMA RecheckKeeps ==
  ASSUME TransportInv, NEW w \in Worker, Recheck(w) PROVE TransportInv'
<1>1. CASE Welcome
  <2>1. credit[w] = 1
    BY DEF Recheck, TransportInv, PaidFor
  <2>2. WorkersTyped' /\ Alone(w) /\ at'[w] = "request" /\ credit'[w] = 0
    BY <1>1, <2>1 DEF Recheck, Go, TransportInv, TypeOK, WorkersTyped, Alone, Step
  <2>. QED
    BY <1>1, <2>2, CountersTyped, QuietKeeps DEF Recheck, budgetVars, breakerVars
<1>2. CASE ~Welcome
  BY <1>2, StepOnFacts, CountersTyped, QuietKeeps
  DEF Recheck, Step, budgetVars, breakerVars, TransportInv
<1>. QED  BY <1>1, <1>2

\* A deferral moves both times forward and notes who else requests at that moment.
LEMMA DeferKeeps ==
  ASSUME TransportInv, NEW w \in Worker, NEW t \in Nat, NEW r \in BOOLEAN, Defer(w, t, r),
         StepOn(w, "failed"), UNCHANGED <<budgetVars, breakerVars, providerVars>>
  PROVE  TransportInv'
<1>1. WorkersTyped' /\ Alone(w) /\ at'[w] = "failed"
  BY StepOnFacts DEF Step, TransportInv
<1>2. /\ next' \in Nat /\ blocked' \in Nat /\ paused' \in BOOLEAN
      /\ next' >= next /\ blocked' <= next'
  BY DEF Defer, Larger, TransportInv, TypeOK, BlockedInNext
<1>3. flight' = {v \in Worker \ {w} : at[v] = "request"}
  BY DEF Defer
<1>4. TypeOK'
  BY <1>1, <1>2, <1>3
  DEF TransportInv, TypeOK, WorkersTyped, budgetVars, breakerVars, providerVars
<1>. QED  BY <1>1, <1>2, <1>3, <1>4, MoveKeeps

\* Whatever the provider answers.
LEMMA ResponseKeeps ==
  ASSUME TransportInv, NEW w \in Worker, Response(w) PROVE TransportInv'
<1>1. at[w] = "request" /\ credit[w] = 0
  BY NoCredit DEF Response, Answered, RateLimited, Rejected, GoesWrong, Unusable
<1>2. ASSUME NEW s \in {"served", "failed"}, StepOn(w, s),
             UNCHANGED <<rowVars, budgetVars, breakerVars, providerVars>>
      PROVE  TransportInv'
  BY <1>1, <1>2, StepOnFacts, CountersTyped, QuietKeeps
  DEF Step, budgetVars, breakerVars, TransportInv
<1>3. CASE RateLimited(w)
  BY <1>3, DeferKeeps DEF RateLimited
<1>4. CASE Rejected(w)
  BY <1>4, DeferKeeps DEF Rejected
<1>5. CASE GoesWrong(w)
  <2>1. CASE retries[w] >= MaxRetries
    BY <1>2, <1>5, <2>1 DEF GoesWrong
  <2>2. CASE ~(retries[w] >= MaxRetries)
    <3>1. WorkersTyped' /\ Alone(w) /\ at'[w] = "backoff" /\ credit'[w] = 0
      BY <1>1, <1>5, <2>2 DEF GoesWrong, Go, TransportInv, TypeOK, WorkersTyped, Alone, Step
    <3>. QED
      BY <1>5, <3>1, CountersTyped, QuietKeeps DEF GoesWrong, budgetVars, breakerVars
  <2>. QED  BY <2>1, <2>2
<1>6. CASE Answered(w) \/ Unusable(w)
  BY <1>2, <1>6 DEF Answered, Unusable
<1>. QED  BY <1>3, <1>4, <1>5, <1>6 DEF Response

\* A success goes to the next page or ends the operation.
LEMMA RecordSuccessKeeps ==
  ASSUME TransportInv, NEW w \in Worker, RecordSuccess(w) PROVE TransportInv'
<1>1. credit[w] = 0
  BY NoCredit DEF RecordSuccess
<1>2. /\ WorkersTyped' /\ Alone(w) /\ at'[w] \in {"start", "idle"} /\ credit'[w] = 0
  <2>1. CASE pages[w] > 1
    BY <1>1, <2>1 DEF RecordSuccess, Go, TransportInv, TypeOK, WorkersTyped, Alone, Step
  <2>2. CASE ~(pages[w] > 1)
    BY <2>2, OverFacts DEF RecordSuccess, TransportInv
  <2>. QED  BY <2>1, <2>2
<1>3. failures' \in Nat /\ open' \in 0..Cooldown
  BY DEF RecordSuccess
<1>. QED  BY <1>2, <1>3, CountersTyped, QuietKeeps DEF RecordSuccess, budgetVars

\* A failure ends the operation.
LEMMA RecordFailureKeeps ==
  ASSUME TransportInv, NEW w \in Worker, RecordFailure(w) PROVE TransportInv'
<1>1. WorkersTyped' /\ Alone(w) /\ at'[w] = "idle" /\ credit'[w] = 0
  BY OverFacts DEF RecordFailure, TransportInv
<1>2. failures' \in Nat /\ open' \in 0..Cooldown
  BY DEF RecordFailure, Smaller, TransportInv, TypeOK
<1>. QED  BY <1>1, <1>2, CountersTyped, QuietKeeps DEF RecordFailure, budgetVars

\* Time brings all slots nearer alike, and no slot before the row's next one.
LEMMA TickKeeps == ASSUME TransportInv, Tick PROVE TransportInv'
<1>1. /\ next' \in Nat /\ blocked' \in Nat /\ open' \in 0..Cooldown
      /\ sleep' \in [Worker -> 0..MaxDelay]
  BY DEF Tick, Down, TransportInv, TypeOK
<1>2. TypeOK'
  BY <1>1 DEF Tick, TransportInv, TypeOK, budgetVars, providerVars
<1>3. SlotsApart'
  <2>1. ASSUME NEW w \in Waiting'
        PROVE  w \in Waiting /\ sleep[w] \in Nat /\ sleep[w] > 1 /\ sleep'[w] = sleep[w] - 1
    BY DEF Waiting, Tick, Down, TransportInv, TypeOK
  <2>2. next \in Nat /\ next' = Down(next)
    BY DEF Tick, TransportInv, TypeOK
  <2>3. ASSUME NEW w \in Waiting' PROVE sleep'[w] + Interval <= next'
    <3>1. sleep[w] + Interval <= next
      BY <2>1 DEF TransportInv, SlotsApart
    <3>. QED  BY <2>1, <2>2, <3>1 DEF Down
  <2>4. ASSUME NEW v \in Waiting', NEW w \in Waiting', v # w
        PROVE  sleep'[v] + Interval <= sleep'[w] \/ sleep'[w] + Interval <= sleep'[v]
    <3>1. sleep[v] + Interval <= sleep[w] \/ sleep[w] + Interval <= sleep[v]
      BY <2>1, <2>4 DEF TransportInv, SlotsApart
    <3>. QED  BY <2>1, <3>1
  <2>. QED  BY <2>3, <2>4 DEF SlotsApart
<1>4. PaidAhead' /\ PaidFor'
  BY DEF Tick, TransportInv, PaidAhead, PaidFor
<1>5. BlockedInNext' /\ StoppedForAll'
  BY DEF Tick, Down, TransportInv, TypeOK, BlockedInNext, StoppedForAll
<1>6. WaitersBounded'
  BY <1>2, <1>3, WaitersFew, PTL
<1>. QED  BY <1>2, <1>3, <1>4, <1>5, <1>6 DEF TransportInv

\* What touches neither the row nor a worker.
LEMMA RestKeeps ==
  ASSUME TransportInv, TypeOK', UNCHANGED <<rowVars, workerVars>>
  PROVE  TransportInv'
<1>1. SlotsApart'
  BY DEF TransportInv, SlotsApart, Waiting, rowVars, workerVars
<1>2. PaidAhead' /\ PaidFor' /\ BlockedInNext' /\ StoppedForAll'
  BY DEF TransportInv, PaidAhead, PaidFor, BlockedInNext, StoppedForAll, rowVars, workerVars
<1>3. WaitersBounded'
  BY <1>1, WaitersFew, PTL
<1>. QED  BY <1>1, <1>2, <1>3 DEF TransportInv

\* Every step keeps the invariant: one lemma for each action.
LEMMA TransportKeeps == TransportInv /\ [Next]_vars => TransportInv'
<1> SUFFICES ASSUME TransportInv, [Next]_vars PROVE TransportInv'
  OBVIOUS
<1>1. ASSUME NEW w \in Worker, WorkerStep(w) PROVE TransportInv'
  BY <1>1, BeginKeeps, CheckCircuitKeeps, CheckAvailableKeeps, ReserveKeeps, SlotKeeps,
     RecheckKeeps, ResponseKeeps, ReserveRetryKeeps, RecordSuccessKeeps, RecordFailureKeeps
  DEF WorkerStep
<1>2. CASE NewPeriod
  <2>1. TypeOK'
    BY <1>2 DEF NewPeriod, TransportInv, TypeOK, rowVars, breakerVars, workerVars, providerVars
  <2>. QED  BY <1>2, <2>1, RestKeeps DEF NewPeriod
<1>3. ASSUME NEW m \in {"well", "failing", "limiting", "rejecting"}, ChangeMood(m)
      PROVE  TransportInv'
  <2>1. TypeOK'
    BY <1>3 DEF ChangeMood, TransportInv, TypeOK, rowVars, budgetVars, breakerVars, workerVars
  <2>. QED  BY <1>3, <2>1, RestKeeps DEF ChangeMood
<1>4. CASE UNCHANGED vars
  <2>1. TypeOK'
    BY <1>4 DEF TransportInv, TypeOK, vars, rowVars, budgetVars, breakerVars, workerVars,
                providerVars
  <2>. QED  BY <1>4, <2>1, RestKeeps DEF vars
<1>. QED  BY <1>1, <1>2, <1>3, <1>4, TickKeeps DEF Next

\* However many workers share the provider: their slots are an interval apart and few
\* wait, every request is paid for ahead, and once the provider asked for a pause only
\* those already under way request.
THEOREM TransportHolds == Spec => []TransportInv
  BY TransportStart, TransportKeeps, PTL DEF Spec

HIDE TransportAssumption
USE GroundAssumption
-----------------------------------------------------------------------------
(* The ground layers: the invariant.                                       *)

\* A thread's record.
WarmThread ==
    [phase : {"idle", "blocked", "start", "next", "lock", "fetch", "failed", "release"},
     job : Job \cup {None}, asked : Request \cup {None}, on : Airport \cup {None},
     todo : SUBSET Airport]

\* A thread has a job with a request exactly when it is not idle, and an airport when at one.
WarmInPlace ==
    \A p \in Process :
      /\ In(p, "idle") => warm[p] = Idle
      /\ ~In(p, "idle") => warm[p].job \in Job /\ warm[p].asked \in Request
      /\ In(p, "lock") \/ In(p, "fetch") => warm[p].on \in Airport

\* A job is in one thread, or once in one queue.
CarriedOnce ==
    \A p, q \in Process :
      /\ warm[p].job # None =>
           /\ warm[q].job = warm[p].job => p = q
           /\ \A i \in DOMAIN queue[q] : queue[q][i][1] # warm[p].job
      /\ \A i \in DOMAIN queue[p], k \in DOMAIN queue[q] :
           queue[p][i][1] = queue[q][k][1] => p = q /\ i = k

\* The job's row says s, unless a start settled it beside its carrier; before a step and
\* after it.
Told(j, s) == status[j] = s \/ j \in beside
ToldNext(j, s) == status'[j] = s \/ j \in beside'

\* The row of a carried job says queued until it starts, then running until its end is
\* recorded.
JobsTold ==
    \A p \in Process :
      /\ \A i \in DOMAIN queue[p] : Told(queue[p][i][1], "queued")
      /\ warm[p].phase \in {"blocked", "start"} => Told(warm[p].job, "queued")
      /\ warm[p].phase \in {"next", "lock", "fetch", "failed"} =>
           Told(warm[p].job, "running")

\* A layer's lock is held by the thread or the task that fetches it.
LocksHeld ==
    \A p \in Process, a \in Airport :
      /\ task[p][a] = "fetch" <=> lock[p][a] = "task"
      /\ In(p, "fetch") /\ warm[p].on = a <=> lock[p][a] = "warm"

\* Processes that hold the layer's lock for an unforced refresh.
Bringing(a) ==
    {p \in Process : lock[p][a] = "task" \/ (lock[p][a] = "warm" /\ ~warm[p].asked.force)}

\* What was stored and what may still be, together, are once for each process.
StoresCounted ==
    \A a \in Airport :
      /\ layer[a] = "old" => stores[a] = 0
      /\ stores[a] + Cardinality(Bringing(a)) <= Cardinality(Process)

\* The inductive invariant.
GroundIInv ==
    /\ GroundInv /\ WarmInPlace /\ CarriedOnce /\ JobsTold /\ LocksHeld /\ StoresCounted

-----------------------------------------------------------------------------
(* The ground layers: initial states and counts.                           *)

\* At first nothing is queued, nobody works and no layer is locked.
LEMMA GroundStart == GroundInit => GroundIInv
<1> SUFFICES ASSUME GroundInit PROVE GroundIInv
  OBVIOUS
<1>1. GroundTypeOK
  BY DEF GroundInit, GroundTypeOK, NoLease, Idle
<1>2. HoldsLease /\ OneActive /\ WarmInPlace
  BY DEF GroundInit, HoldsLease, Working, OneActive, WarmInPlace, In, Idle, Active
<1>3. CarriedOnce /\ JobsTold
  BY DEF GroundInit, CarriedOnce, JobsTold, Idle
<1>4. LocksHeld
  BY DEF GroundInit, LocksHeld, In, Idle
<1>5. StoresCounted
  <2>1. ASSUME NEW a \in Airport PROVE Bringing(a) = {}
    BY DEF GroundInit, Bringing
  <2>2. Cardinality({}) = 0 /\ Cardinality(Process) \in Nat
    BY FS_EmptySet, FS_CardinalityType
  <2>3. ASSUME NEW a \in Airport PROVE stores[a] = 0
    BY DEF GroundInit
  <2>. QED  BY <2>1, <2>2, <2>3 DEF StoresCounted
<1>6. StoredOnce
  BY FS_CardinalityType DEF GroundInit, StoredOnce
<1>. QED  BY <1>1, <1>2, <1>3, <1>4, <1>5, <1>6 DEF GroundIInv, GroundInv

\* The processes at a layer are some of all processes.
LEMMA BringingFinite ==
  ASSUME NEW a \in Airport
  PROVE  /\ IsFiniteSet(Bringing(a)) /\ Cardinality(Bringing(a)) \in Nat
         /\ Cardinality(Bringing(a)) <= Cardinality(Process)
         /\ Cardinality(Process) \in Nat
<1>1. Bringing(a) \subseteq Process
  BY DEF Bringing
<1>. QED  BY <1>1, FS_Subset, FS_CardinalityType

\* A layer is stored once by each process, if those that bring it are counted with it.
LEMMA StoredFromCount == GroundTypeOK /\ StoresCounted => StoredOnce
  BY BringingFinite DEF GroundTypeOK, StoresCounted, StoredOnce

-----------------------------------------------------------------------------
(* The ground layers: what a thread's step leaves alone.                   *)

\* Of the warm threads only p's may change.
Moves(p) ==
    /\ warm' \in [Process -> WarmThread]
    /\ \A q \in Process \ {p} : warm'[q] = warm[q]

\* A new record for p's thread moves no other thread.
LEMMA MovesSoon ==
  ASSUME GroundTypeOK, NEW p \in Process, NEW r \in WarmThread, warm' = [warm EXCEPT ![p] = r]
  PROVE  Moves(p) /\ warm'[p] = r
  BY DEF GroundTypeOK, Moves, WarmThread

\* An idle thread is a thread.
LEMMA IdleThread == Idle \in WarmThread
  BY DEF Idle, WarmThread

\* A thread that keeps its job or drops it gives it to nobody else.
LEMMA CarriedKept ==
  ASSUME GroundIInv, NEW p \in Process, Moves(p), warm'[p].job \in {None, warm[p].job},
         queue' = queue
  PROVE  CarriedOnce'
  BY DEF GroundIInv, CarriedOnce, Moves

\* A thread that is at no layer before or after leaves the locks and the counts alone.
LEMMA LayersKept ==
  ASSUME GroundIInv, NEW p \in Process, Moves(p), ~In(p, "fetch"), warm'[p].phase # "fetch",
         UNCHANGED layerVars
  PROVE  LocksHeld' /\ StoresCounted'
<1>1. LocksHeld'
  BY DEF GroundIInv, LocksHeld, Moves, layerVars, In
<1>2. ASSUME NEW a \in Airport PROVE Bringing(a)' = Bringing(a)
  <2>1. lock[p][a] # "warm" /\ lock' = lock
    BY DEF GroundIInv, LocksHeld, layerVars
  <2>2. ASSUME NEW q \in Process
        PROVE  lock'[q][a] = "warm" => warm'[q] = warm[q]
    BY <2>1 DEF Moves
  <2>. QED  BY <2>1, <2>2 DEF Bringing
<1>. QED  BY <1>1, <1>2 DEF GroundIInv, StoresCounted, layerVars

\* A thread that stops working, or goes on with its job, leaves every lease in place.
LEMMA LeaseKept ==
  ASSUME GroundIInv, NEW p \in Process, Moves(p), lease' = lease,
         \A q \in Process \ {p} : q \in lost => q \in lost',
         \/ warm'[p].phase \in {"idle", "blocked"}
         \/ Working(p) /\ warm'[p].job = warm[p].job /\ lost' = lost
  PROVE  HoldsLease'
  BY DEF GroundIInv, GroundInv, HoldsLease, Working, Moves

\* A thread that writes to its job's row, and moves on as it has written, changes what is
\* told of no other job.
LEMMA ToldKept ==
  ASSUME GroundIInv, NEW p \in Process, Moves(p), UNCHANGED <<queue, beside>>,
         NEW s, status' = [status EXCEPT ![warm[p].job] = s] \/ status' = status,
         warm[p].job \in Job,
         warm'[p].phase \in {"blocked", "start"} => ToldNext(warm[p].job, "queued"),
         warm'[p].phase \in {"next", "lock", "fetch", "failed"} =>
           ToldNext(warm[p].job, "running"),
         warm'[p].phase # "idle" => warm'[p].job = warm[p].job
  PROVE  JobsTold'
<1>1. warm[p].job # None
  OBVIOUS
<1>2. ASSUME NEW j \in Job, j # warm[p].job PROVE status'[j] = status[j]
  BY <1>2 DEF GroundIInv, GroundInv, GroundTypeOK
<1>3. ASSUME NEW q \in Process, NEW i \in DOMAIN queue'[q]
      PROVE  Told(queue[q][i][1], "queued")'
  <2>1. queue[q][i][1] # warm[p].job /\ Told(queue[q][i][1], "queued")
    BY <1>1 DEF GroundIInv, CarriedOnce, JobsTold
  <2>2. queue[q][i][1] \in Job
    BY DEF GroundIInv, GroundInv, GroundTypeOK
  <2>. QED  BY <1>2, <2>1, <2>2 DEF Told
<1>4. ASSUME NEW q \in Process \ {p}, warm'[q].phase # "idle"
      PROVE  warm'[q] = warm[q] /\ warm[q].job \in Job /\ status'[warm[q].job] = status[warm[q].job]
  <2>1. warm'[q] = warm[q] /\ warm[q].job \in Job /\ warm[q].job # warm[p].job
    BY <1>1, <1>4 DEF Moves, GroundIInv, WarmInPlace, CarriedOnce, In
  <2>. QED  BY <1>2, <2>1
<1>5. ASSUME NEW q \in Process
      PROVE /\ warm'[q].phase \in {"blocked", "start"} => ToldNext(warm[q].job, "queued")
            /\ warm'[q].phase \in {"next", "lock", "fetch", "failed"} =>
                 ToldNext(warm[q].job, "running")
            /\ warm'[q].phase # "idle" => warm'[q].job = warm[q].job
  BY <1>4 DEF GroundIInv, JobsTold, Told, ToldNext
<1>. QED  BY <1>3, <1>5 DEF JobsTold, Told, ToldNext

\* A job becomes active by a thread's write only if it was active.
LEMMA OneKept ==
  ASSUME GroundIInv, NEW p \in Process, beside' = beside, NEW s,
         \/ status' = status
         \/ /\ status' = [status EXCEPT ![warm[p].job] = s]
            /\ s \in Active => Told(warm[p].job, "queued")
  PROVE  OneActive'
  BY DEF GroundIInv, GroundInv, GroundTypeOK, OneActive, Told, Active
-----------------------------------------------------------------------------
(* The ground layers: a thread goes on with its job.                       *)

\* The steps of a thread that has a job and is not at a layer: it goes on with the job or
\* drops it, and may write its row, give back its lease or lose it.
LEMMA ThreadKeeps ==
  ASSUME GroundIInv, NEW p \in Process, NEW r \in WarmThread, NEW s \in Active \cup Settled,
         warm' = [warm EXCEPT ![p] = r],
         warm[p].phase \notin {"idle", "fetch"}, r.phase # "fetch",
         \/ r = Idle
         \/ /\ r.phase # "idle" /\ r.job = warm[p].job /\ r.asked = warm[p].asked
            /\ r.phase = "lock" => r.on \in Airport,
         UNCHANGED <<up, queue, layerVars, beside>>,
         \/ status' = status
         \/ /\ status' = [status EXCEPT ![warm[p].job] = s]
            /\ s \in Active => Told(warm[p].job, "queued"),
         r.phase \in {"blocked", "start"} => ToldNext(warm[p].job, "queued"),
         r.phase \in {"next", "lock", "failed"} => ToldNext(warm[p].job, "running"),
         \/ HoldsLease'
         \/ /\ lease' = lease
            /\ \/ r = Idle /\ lost' = lost \ {p}
               \/ (r = Idle \/ Working(p)) /\ lost' = lost,
         lost' \subseteq Process,
         lease' \in {lease, NoLease}, dueIn' \in 0..WarmInterval,
         manual' \in 0..MaxManual, faults' \in 0..MaxFaults
  PROVE  GroundIInv'
<1>1. Moves(p) /\ warm'[p] = r
  BY MovesSoon DEF GroundIInv, GroundInv
<1>2. warm[p].job \in Job /\ warm[p].asked \in Request
  BY DEF GroundIInv, WarmInPlace, In
<1>3. GroundTypeOK'
  <2>1. status' \in [Job -> {"none"} \cup Active \cup Settled]
    BY <1>2 DEF GroundIInv, GroundInv, GroundTypeOK
  <2>2. warm' \in [Process -> WarmThread]
          /\ lease' \in [holder : Job \cup {None}, left : 0..Lease]
    BY <1>1 DEF Moves, GroundIInv, GroundInv, GroundTypeOK, NoLease
  <2>. QED
    BY <2>1, <2>2 DEF GroundIInv, GroundInv, GroundTypeOK, WarmThread, layerVars
<1>4. WarmInPlace'
  <2>1. Idle.phase = "idle"
    BY DEF Idle
  <2>2. ASSUME NEW q \in Process, q # p
        PROVE  warm'[q] = warm[q]
    BY <1>1, <2>2 DEF Moves
  <2>3. warm'[p] = Idle \/ (warm'[p].phase # "idle" /\ warm'[p].job \in Job /\ warm'[p].asked \in Request)
    BY <1>1, <1>2
  <2>4. warm'[p].phase = "lock" => warm'[p].on \in Airport
    BY <1>1, <2>1
  <2>. QED  BY <1>1, <2>1, <2>2, <2>3, <2>4 DEF GroundIInv, WarmInPlace, In
<1>5. CarriedOnce'
  BY <1>1, CarriedKept DEF Idle
<1>6. JobsTold'
  <2>1. r.phase # "idle" => r.job = warm[p].job
    BY DEF Idle
  <2>2. status' = [status EXCEPT ![warm[p].job] = s] \/ status' = status
    OBVIOUS
  <2>3. /\ warm'[p].phase \in {"blocked", "start"} => ToldNext(warm[p].job, "queued")
        /\ warm'[p].phase \in {"next", "lock", "fetch", "failed"} =>
             ToldNext(warm[p].job, "running")
    BY <1>1 DEF Moves
  <2>. QED  BY <1>1, <1>2, <2>1, <2>2, <2>3, ToldKept
<1>7. LocksHeld' /\ StoresCounted'
  BY <1>1, LayersKept DEF In
<1>8. HoldsLease'
  <2>1. CASE lease' = lease /\ r = Idle /\ lost' \in {lost, lost \ {p}}
    BY <1>1, <2>1, LeaseKept DEF Idle
  <2>2. CASE lease' = lease /\ r # Idle /\ Working(p) /\ lost' = lost
    BY <1>1, <2>2, LeaseKept
  <2>. QED  BY <2>1, <2>2
<1>9. OneActive'
  BY OneKept
<1>10. StoredOnce'
  BY <1>3, <1>7, StoredFromCount, PTL
<1>. QED
  BY <1>3, <1>4, <1>5, <1>6, <1>7, <1>8, <1>9, <1>10 DEF GroundIInv, GroundInv

\* What the steps of a thread need of the types.
LEMMA ThreadFacts ==
  ASSUME GroundIInv, NEW p \in Process
  PROVE  /\ warm[p] \in WarmThread /\ lost \subseteq Process
         /\ \A q \in lost : lost \ {q} \subseteq Process
         /\ dueIn \in 0..WarmInterval /\ WarmInterval \in 0..WarmInterval
         /\ manual \in 0..MaxManual /\ faults \in 0..MaxFaults
         /\ Fault => faults' \in 0..MaxFaults
         /\ \A ph \in {"next", "failed", "release"} :
              /\ [warm[p] EXCEPT !.phase = ph] \in WarmThread
              /\ [warm[p] EXCEPT !.phase = ph].phase = ph
              /\ [warm[p] EXCEPT !.phase = ph].job = warm[p].job
              /\ [warm[p] EXCEPT !.phase = ph].asked = warm[p].asked
<1>1. warm[p] \in WarmThread
  BY DEF GroundIInv, GroundInv, GroundTypeOK, WarmThread
<1>2. Fault => faults' \in 0..MaxFaults
  BY DEF GroundIInv, GroundInv, GroundTypeOK, Fault
<1>3. ASSUME NEW ph \in {"next", "failed", "release"}
      PROVE  /\ [warm[p] EXCEPT !.phase = ph] \in WarmThread
             /\ [warm[p] EXCEPT !.phase = ph].phase = ph
             /\ [warm[p] EXCEPT !.phase = ph].job = warm[p].job
             /\ [warm[p] EXCEPT !.phase = ph].asked = warm[p].asked
  BY <1>1 DEF WarmThread
<1>. QED
  BY <1>1, <1>2, <1>3 DEF GroundIInv, GroundInv, GroundTypeOK

\* A job refused the lease is settled as blocked, and its thread is free.
LEMMA BlockedKeeps ==
  ASSUME GroundIInv, NEW p \in Process, Blocked(p) PROVE GroundIInv'
  BY ThreadFacts, IdleThread, ThreadKeeps
  DEF Blocked, In, Write, Settled, Active, Idle, layerVars, historyVars, boundVars

\* A thread whose write fails before the work drops the job.
LEMMA StatusFailsKeeps ==
  ASSUME GroundIInv, NEW p \in Process, StatusFails(p) PROVE GroundIInv'
  BY ThreadFacts, IdleThread, ThreadKeeps
  DEF StatusFails, In, Settled, Active, Idle, bookVars

\* A job that has the lease is told to run.
LEMMA StartKeeps ==
  ASSUME GroundIInv, NEW p \in Process, Start(p) PROVE GroundIInv'
<1> DEFINE r == [warm[p] EXCEPT !.phase = "next", !.todo = Airport]
<1>0. warm[p] \in WarmThread
  BY ThreadFacts
<1>1. /\ r \in WarmThread /\ warm' = [warm EXCEPT ![p] = r]
      /\ r.phase = "next" /\ r.job = warm[p].job /\ r.asked = warm[p].asked
  <2>1. warm' = [warm EXCEPT ![p] = r]
    BY DEF Start
  <2>2. /\ r \in WarmThread
        /\ r.phase = "next" /\ r.job = warm[p].job /\ r.asked = warm[p].asked
    BY <1>0 DEF WarmThread
  <2>. QED  BY <2>1, <2>2
<1>2. warm[p].phase = "start" /\ warm[p].job \in Job /\ Told(warm[p].job, "queued")
  BY DEF Start, In, GroundIInv, WarmInPlace, JobsTold
<1>3. status' = [status EXCEPT ![warm[p].job] = "running"] /\ status'[warm[p].job] = "running"
  BY <1>2 DEF Start, Write, GroundIInv, GroundInv, GroundTypeOK
<1>. HIDE DEF r
<1>4. ToldNext(warm[p].job, "running") /\ Working(p) /\ "running" \in Active \cup Settled
  BY <1>2, <1>3 DEF Told, ToldNext, Working, Active, Start, historyVars
<1>5. /\ UNCHANGED <<up, queue, layerVars, beside, lease, lost, dueIn, manual, faults>>
      /\ r.phase \notin {"blocked", "start"}
  BY <1>1 DEF Start, historyVars, boundVars
<1>. QED
  BY <1>1, <1>2, <1>3, <1>4, <1>5, ThreadFacts, ThreadKeeps

\* A job goes to its next airport, or passes it by.
LEMMA NextAirportKeeps ==
  ASSUME GroundIInv, NEW p \in Process, NextAirport(p) PROVE GroundIInv'
<1>0. warm[p] \in WarmThread /\ warm[p].todo \subseteq Airport
  BY ThreadFacts DEF WarmThread
<1>1. PICK a \in warm[p].todo :
         warm' = IF UpToDate(p, a, "warm")
                 THEN [warm EXCEPT ![p].todo = @ \ {a}]
                 ELSE [warm EXCEPT ![p].phase = "lock", ![p].on = a, ![p].todo = @ \ {a}]
  BY DEF NextAirport
<1> DEFINE r == IF UpToDate(p, a, "warm") THEN [warm[p] EXCEPT !.todo = @ \ {a}]
                ELSE [warm[p] EXCEPT !.phase = "lock", !.on = a, !.todo = @ \ {a}]
<1>2. warm[p].phase = "next" /\ Told(warm[p].job, "running")
  BY DEF NextAirport, In, GroundIInv, JobsTold
<1>3. /\ r \in WarmThread /\ r.phase \in {"next", "lock"} /\ r.job = warm[p].job
      /\ r.asked = warm[p].asked
      /\ r.phase = "lock" => r.on \in Airport
  <2>1. a \in Airport
    BY <1>0
  <2>2. CASE UpToDate(p, a, "warm")
    <3>1. r = [warm[p] EXCEPT !.todo = @ \ {a}]
      BY <2>2
    <3>. QED  BY <1>0, <1>2, <2>1, <3>1 DEF WarmThread
  <2>3. CASE ~UpToDate(p, a, "warm")
    <3>1. r = [warm[p] EXCEPT !.phase = "lock", !.on = a, !.todo = @ \ {a}]
      BY <2>3
    <3>. QED  BY <1>0, <1>2, <2>1, <3>1 DEF WarmThread
  <2>. QED  BY <2>2, <2>3
<1>5. warm' = [warm EXCEPT ![p] = r]
  BY <1>1
<1>. HIDE DEF r
<1>4. /\ UNCHANGED <<up, queue, layerVars, beside, status, lease, lost, dueIn, manual, faults>>
      /\ "running" \in Active \cup Settled
           /\ Working(p) /\ ToldNext(warm[p].job, "running")
  BY <1>2 DEF NextAirport, Active, Told, ToldNext, Working, bookVars, historyVars, boundVars
<1>. QED
  BY <1>2, <1>3, <1>4, <1>5, ThreadFacts, ThreadKeeps

\* A job that went through its airports is told done.
LEMMA CompletesKeeps ==
  ASSUME GroundIInv, NEW p \in Process, Completes(p) PROVE GroundIInv'
<1> DEFINE r == [warm[p] EXCEPT !.phase = "release"]
<1>1. /\ r \in WarmThread /\ warm' = [warm EXCEPT ![p] = r]
      /\ r.phase = "release" /\ r.job = warm[p].job /\ r.asked = warm[p].asked
  BY ThreadFacts DEF Completes, Enter
<1>2. warm[p].phase = "next"
  BY DEF Completes, In, GroundIInv, JobsTold
<1>. HIDE DEF r
<1>. QED
  BY <1>1, <1>2, ThreadFacts, ThreadKeeps
  DEF Completes, Write, Active, Settled, Working, historyVars, boundVars

\* A job whose write fails is to be told failed.
LEMMA WriteFailsKeeps ==
  ASSUME GroundIInv, NEW p \in Process, WriteFails(p) PROVE GroundIInv'
<1> DEFINE r == [warm[p] EXCEPT !.phase = "failed"]
<1>1. /\ r \in WarmThread /\ warm' = [warm EXCEPT ![p] = r]
      /\ r.phase = "failed" /\ r.job = warm[p].job /\ r.asked = warm[p].asked
  BY ThreadFacts DEF WriteFails, Enter
<1>2. warm[p].phase = "next" /\ Told(warm[p].job, "running")
  BY DEF WriteFails, In, GroundIInv, JobsTold
<1>. HIDE DEF r
<1>3. /\ UNCHANGED <<up, queue, layerVars, beside, status, lease, lost, dueIn, manual>>
      /\ "failed" \in Active \cup Settled
           /\ Working(p) /\ ToldNext(warm[p].job, "running")
      /\ Fault
  BY <1>2 DEF WriteFails, Settled, Told, ToldNext, Working, bookVars, historyVars
<1>. QED
  BY <1>1, <1>2, <1>3, ThreadFacts, ThreadKeeps

\* A failed job is told so.
LEMMA RecordFailedKeeps ==
  ASSUME GroundIInv, NEW p \in Process, RecordFailed(p) PROVE GroundIInv'
<1> DEFINE r == [warm[p] EXCEPT !.phase = "release"]
<1>1. /\ r \in WarmThread /\ warm' = [warm EXCEPT ![p] = r]
      /\ r.phase = "release" /\ r.job = warm[p].job /\ r.asked = warm[p].asked
  BY ThreadFacts DEF RecordFailed, Enter
<1>2. warm[p].phase = "failed"
  BY DEF RecordFailed, In, GroundIInv, JobsTold
<1>. HIDE DEF r
<1>. QED
  BY <1>1, <1>2, ThreadFacts, ThreadKeeps
  DEF RecordFailed, Write, Active, Settled, Working, historyVars, boundVars

\* A failed job that cannot be told so goes on to give back its lease.
LEMMA RecordFailsKeeps ==
  ASSUME GroundIInv, NEW p \in Process, RecordFails(p) PROVE GroundIInv'
<1> DEFINE r == [warm[p] EXCEPT !.phase = "release"]
<1>1. /\ r \in WarmThread /\ warm' = [warm EXCEPT ![p] = r]
      /\ r.phase = "release" /\ r.job = warm[p].job /\ r.asked = warm[p].asked
  BY ThreadFacts DEF RecordFails, Enter
<1>2. warm[p].phase = "failed"
  BY DEF RecordFails, In, GroundIInv, JobsTold
<1>. HIDE DEF r
<1>. QED
  BY <1>1, <1>2, ThreadFacts, ThreadKeeps
  DEF RecordFails, Active, Working, bookVars, historyVars, boundVars

\* A job gives back its own lease and no other: no other job at work has the same id.
LEMMA ReleaseKeeps ==
  ASSUME GroundIInv, NEW p \in Process, Release(p) PROVE GroundIInv'
<1>1. Moves(p) /\ warm'[p] = Idle
  BY IdleThread, MovesSoon DEF Release, GroundIInv, GroundInv
<1>2. HoldsLease'
  <2>1. ASSUME NEW q \in Process, Working(q)'
        PROVE  lease'.holder = warm'[q].job \/ q \in lost'
    <3>1. q # p /\ warm'[q] = warm[q]
      BY <1>1, <2>1 DEF Moves, Working, Idle
    <3>2. warm[q].job # warm[p].job
      BY <2>1, <3>1 DEF Release, In, Working, GroundIInv, WarmInPlace, CarriedOnce
    <3>. QED
      BY <2>1, <3>1, <3>2
      DEF Release, Released, Working, GroundIInv, GroundInv, HoldsLease
  <2>. QED  BY <2>1 DEF HoldsLease
<1>. QED
  BY <1>2, ThreadFacts, IdleThread, ThreadKeeps
  DEF Release, Released, In, Active, Settled, Idle, boundVars

\* A job that cannot give back its lease ends without it.
LEMMA ReleaseFailsKeeps ==
  ASSUME GroundIInv, NEW p \in Process, ReleaseFails(p) PROVE GroundIInv'
  BY ThreadFacts, IdleThread, ThreadKeeps
  DEF ReleaseFails, In, Active, Settled, Idle, bookVars

-----------------------------------------------------------------------------
(* The ground layers: a free thread takes a job.                           *)

\* What is left of a queue without its first element.
LEMMA TailFacts ==
  ASSUME NEW S, NEW c \in Seq(S), c # <<>>
  PROVE  /\ Tail(c) \in Seq(S) /\ Head(c) = c[1] /\ Head(c) \in S /\ 1 \in DOMAIN c
         /\ \A i \in DOMAIN Tail(c) :
              i \in Nat \ {0} /\ i + 1 \in DOMAIN c /\ Tail(c)[i] = c[i + 1]
  OBVIOUS

\* What is in a queue after another element came.
LEMMA AppendFacts ==
  ASSUME NEW S, NEW c \in Seq(S), NEW e \in S
  PROVE  /\ Append(c, e) \in Seq(S)
         /\ \A i \in DOMAIN Append(c, e) :
              \/ i \in DOMAIN c /\ Append(c, e)[i] = c[i]
              \/ i = Len(c) + 1 /\ i \notin DOMAIN c /\ Append(c, e)[i] = e
  OBVIOUS

\* Where an entry of a queue was before p took its first.
Later(p, q, i) == IF q = p THEN i + 1 ELSE i

\* Every queue is as it was, p's without its first entry.
Shifted(p) ==
    \A q \in Process : \A i \in DOMAIN queue'[q] :
      /\ Later(p, q, i) \in DOMAIN queue[q]
      /\ queue'[q][i] = queue[q][Later(p, q, i)]
      /\ q = p => Later(p, q, i) # 1
      /\ \A k \in DOMAIN queue'[q] : Later(p, q, i) = Later(p, q, k) => i = k

\* Taking the first job moves the others of p's queue up by one, and no other queue's.
LEMMA QueueTail ==
  ASSUME GroundIInv, NEW p \in Process, queue[p] # <<>>,
    queue' = [queue EXCEPT ![p] = Tail(@)]
  PROVE  /\ queue' \in [Process -> Seq(Job \X Request)]
         /\ Head(queue[p]) \in Job \X Request /\ Head(queue[p]) = queue[p][1]
         /\ 1 \in DOMAIN queue[p]
         /\ Shifted(p)
<1>1. queue \in [Process -> Seq(Job \X Request)]
  BY DEF GroundIInv, GroundInv, GroundTypeOK
<1>2. /\ queue'[p] = Tail(queue[p]) /\ \A q \in Process \ {p} : queue'[q] = queue[q]
      /\ queue[p] \in Seq(Job \X Request)
  BY <1>1
<1>3. /\ Tail(queue[p]) \in Seq(Job \X Request) /\ Head(queue[p]) = queue[p][1]
      /\ Head(queue[p]) \in Job \X Request /\ 1 \in DOMAIN queue[p]
      /\ \A i \in DOMAIN Tail(queue[p]) :
           /\ i \in Nat \ {0} /\ i + 1 \in DOMAIN queue[p]
           /\ Tail(queue[p])[i] = queue[p][i + 1]
  BY <1>2, TailFacts
<1>4. ASSUME NEW q \in Process, NEW i \in DOMAIN queue'[q]
      PROVE  /\ Later(p, q, i) \in DOMAIN queue[q] /\ queue'[q][i] = queue[q][Later(p, q, i)]
             /\ q = p => Later(p, q, i) # 1
             /\ \A k \in DOMAIN queue'[q] : Later(p, q, i) = Later(p, q, k) => i = k
  <2>1. CASE q = p
    <3>1. queue'[q] = Tail(queue[p]) /\ i \in DOMAIN Tail(queue[p])
      BY <1>2, <2>1
    <3>2. \A k \in DOMAIN Tail(queue[p]) : Later(p, q, k) = k + 1 /\ k \in Nat \ {0}
      BY <1>3, <2>1 DEF Later
    <3>3. \A k \in DOMAIN Tail(queue[p]) : i + 1 = k + 1 => i = k
      BY <3>1, <3>2
    <3>4. i + 1 # 1
      BY <3>1, <3>2
    <3>. QED  BY <1>3, <2>1, <3>1, <3>2, <3>3, <3>4
  <2>2. CASE q # p
    BY <1>2, <2>2 DEF Later
  <2>. QED  BY <2>1, <2>2
<1>5. queue' \in [Process -> Seq(Job \X Request)]
  BY <1>1, <1>2, <1>3
<1>6. Shifted(p)
  BY <1>4 DEF Shifted
<1>. QED  BY <1>3, <1>5, <1>6

\* A job taken from the queue is in the thread only, and a job dropped from it nowhere.
LEMMA TailKeepsCarried ==
  ASSUME GroundIInv, NEW p \in Process, queue[p] # <<>>,
    queue' = [queue EXCEPT ![p] = Tail(@)],
         Moves(p), In(p, "idle"), warm'[p].job \in {None, Head(queue[p])[1]}
  PROVE  CarriedOnce'
<1>q. Shifted(p)
  BY QueueTail
<1>1. ASSUME NEW q \in Process, NEW s \in Process, NEW i \in DOMAIN queue'[q],
             NEW k \in DOMAIN queue'[s], queue'[q][i][1] = queue'[s][k][1]
      PROVE  q = s /\ i = k
  <2>1. /\ Later(p, q, i) \in DOMAIN queue[q] /\ Later(p, s, k) \in DOMAIN queue[s]
        /\ queue[q][Later(p, q, i)][1] = queue[s][Later(p, s, k)][1]
    BY <1>q, <1>1 DEF Shifted
  <2>2. q = s /\ Later(p, q, i) = Later(p, s, k)
    BY <2>1 DEF GroundIInv, CarriedOnce
  <2>. QED  BY <1>q, <2>2 DEF Shifted
<1>2. ASSUME NEW q \in Process, NEW s \in Process, warm'[q].job # None
      PROVE  /\ warm'[s].job = warm'[q].job => q = s
             /\ \A i \in DOMAIN queue'[s] : queue'[s][i][1] # warm'[q].job
  <2>1. warm[p].job = None
    BY DEF GroundIInv, WarmInPlace, Idle
  <2>2. Head(queue[p])[1] = queue[p][1][1] /\ 1 \in DOMAIN queue[p]
    BY QueueTail
  <2>3. \A r \in Process \ {p} : warm'[r] = warm[r]
    BY DEF Moves
  <2>5. \A r \in Process \ {p} : warm[r].job # None => warm[r].job # Head(queue[p])[1]
    BY <2>2 DEF GroundIInv, CarriedOnce
  <2>6. warm'[s].job = warm'[q].job => q = s
    BY <1>2, <2>1, <2>3, <2>5 DEF GroundIInv, CarriedOnce
  <2>7. ASSUME NEW i \in DOMAIN queue'[s] PROVE queue'[s][i][1] # warm'[q].job
    <3>1. CASE q = p
      BY <1>2, <1>q, <2>1, <2>2, <3>1 DEF Shifted, GroundIInv, CarriedOnce
    <3>2. CASE q # p
      BY <1>2, <1>q, <2>3, <3>2 DEF Shifted, GroundIInv, CarriedOnce
    <3>. QED  BY <3>1, <3>2
  <2>. QED  BY <2>6, <2>7
<1>. QED  BY <1>1, <1>2 DEF CarriedOnce

\* The steps of a free thread: it takes the first job of its queue, or drops it.
LEMMA TakeKeeps ==
  ASSUME GroundIInv, NEW p \in Process, queue[p] # <<>>, In(p, "idle"),
         queue' = [queue EXCEPT ![p] = Tail(@)],
         NEW r \in WarmThread, warm' = [warm EXCEPT ![p] = r],
         \/ r = Idle
         \/ /\ r.phase \in {"blocked", "start"} /\ r.job = Head(queue[p])[1]
            /\ r.asked = Head(queue[p])[2],
         UNCHANGED <<up, status, dueIn, layerVars, beside>>,
         lease' \in [holder : Job \cup {None}, left : 0..Lease], lost' \subseteq Process,
         manual' \in 0..MaxManual, faults' \in 0..MaxFaults,
         HoldsLease'
  PROVE  GroundIInv'
<1>1. Moves(p) /\ warm'[p] = r /\ Idle.phase = "idle" /\ Idle.job = None
  BY MovesSoon DEF GroundIInv, GroundInv, Idle
<1>2. /\ Shifted(p) /\ queue' \in [Process -> Seq(Job \X Request)]
      /\ Head(queue[p])[1] \in Job /\ Head(queue[p])[2] \in Request
      /\ Head(queue[p])[1] = queue[p][1][1] /\ 1 \in DOMAIN queue[p]
  BY QueueTail
<1>3. GroundTypeOK'
  BY <1>1, <1>2 DEF GroundIInv, GroundInv, GroundTypeOK, WarmThread, Moves, layerVars
<1>4. WarmInPlace'
  BY <1>1, <1>2 DEF GroundIInv, WarmInPlace, In, Moves
<1>5. CarriedOnce'
  BY <1>1, TailKeepsCarried
<1>6. JobsTold'
  <2>1. ASSUME NEW q \in Process, NEW i \in DOMAIN queue'[q]
        PROVE  ToldNext(queue'[q][i][1], "queued")
    BY <1>2, <2>1 DEF Shifted, GroundIInv, JobsTold, Told, ToldNext
  <2>2. r # Idle => ToldNext(r.job, "queued")
    BY <1>2 DEF GroundIInv, JobsTold, Told, ToldNext
  <2>3. ASSUME NEW q \in Process
        PROVE  /\ warm'[q].phase \in {"blocked", "start"} =>
                    ToldNext(warm'[q].job, "queued")
               /\ warm'[q].phase \in {"next", "lock", "fetch", "failed"} =>
                    ToldNext(warm'[q].job, "running")
    BY <1>1, <2>2 DEF Moves, GroundIInv, JobsTold, Told, ToldNext
  <2>. QED  BY <2>1, <2>3 DEF JobsTold, Told, ToldNext
<1>7. LocksHeld' /\ StoresCounted'
  BY <1>1, LayersKept DEF In
<1>8. OneActive'
  BY DEF GroundIInv, GroundInv, OneActive
<1>9. StoredOnce'
  BY <1>3, <1>7, StoredFromCount, PTL
<1>. QED
  BY <1>3, <1>4, <1>5, <1>6, <1>7, <1>8, <1>9 DEF GroundIInv, GroundInv

\* The record of a thread that has just taken a job.
LEMMA TakeFacts ==
  ASSUME GroundIInv, NEW p \in Process, Waits(p), NEW ph \in {"blocked", "start"}
  PROVE  LET r == [Idle EXCEPT !.phase = ph, !.job = Head(queue[p])[1],
                               !.asked = Head(queue[p])[2]]
         IN  /\ r \in WarmThread /\ r.phase = ph /\ r.job = Head(queue[p])[1]
             /\ r.asked = Head(queue[p])[2] /\ Head(queue[p])[1] \in Job
             /\ In(p, "idle") /\ queue[p] # <<>>
             /\ warm[p] = Idle /\ warm[p].job = None
<1>1. queue[p] \in Seq(Job \X Request) /\ queue[p] # <<>> /\ In(p, "idle") /\ warm[p] = Idle
  BY DEF Waits, GroundIInv, GroundInv, GroundTypeOK, WarmInPlace
<1>2. Head(queue[p]) \in Job \X Request
  BY <1>1
<1> DEFINE r == [Idle EXCEPT !.phase = ph, !.job = Head(queue[p])[1],
                             !.asked = Head(queue[p])[2]]
<1>3. Head(queue[p])[1] \in Job /\ Head(queue[p])[2] \in Request
  BY <1>2
<1>4. Idle.job = None
  BY DEF Idle
<1>5. /\ r \in WarmThread /\ r.phase = ph /\ r.job = Head(queue[p])[1]
      /\ r.asked = Head(queue[p])[2]
  BY <1>3, IdleThread DEF WarmThread
<1>. QED  BY <1>1, <1>3, <1>4, <1>5

\* A job that takes a lease that ran out takes it from whoever held it.
LEMMA AcquireKeeps ==
  ASSUME GroundIInv, NEW p \in Process, Acquire(p) PROVE GroundIInv'
<1> DEFINE r == [Idle EXCEPT !.phase = "start", !.job = Head(queue[p])[1],
                             !.asked = Head(queue[p])[2]]
<1>1. /\ r \in WarmThread /\ r.phase = "start" /\ r.job = Head(queue[p])[1]
      /\ r.asked = Head(queue[p])[2] /\ r.job \in Job
      /\ In(p, "idle") /\ queue[p] # <<>> /\ warm[p].job = None
  BY TakeFacts DEF Acquire
<1>2. /\ warm' = [warm EXCEPT ![p] = r] /\ queue' = [queue EXCEPT ![p] = Tail(@)]
      /\ lease' = [holder |-> r.job, left |-> Lease]
  BY <1>1 DEF Acquire, Take
<1>3. lost' = (lost \ {p}) \cup
              {q \in Process \ {p} : warm[q].job # None /\ warm[q].job = lease.holder}
  BY DEF Acquire
<1>. HIDE DEF r
<1>4. Moves(p) /\ warm'[p] = r
  BY <1>1, <1>2, MovesSoon DEF GroundIInv, GroundInv
<1>5. HoldsLease'
  <2>1. ASSUME NEW q \in Process \ {p}, Working(q)'
        PROVE  q \in lost'
    <3>1. Working(q) /\ warm[q].job # None
      BY <1>4, <2>1 DEF Moves, Working, GroundIInv, WarmInPlace, In
    <3>. QED  BY <1>3, <3>1 DEF GroundIInv, GroundInv, HoldsLease
  <2>. QED  BY <1>2, <1>4, <2>1 DEF HoldsLease
<1>6. lease' \in [holder : Job \cup {None}, left : 0..Lease] /\ lost' \subseteq Process
  BY <1>1, <1>2, <1>3 DEF GroundIInv, GroundInv, GroundTypeOK
<1>. QED
  BY <1>1, <1>2, <1>5, <1>6, ThreadFacts, TakeKeeps DEF Acquire, boundVars

\* A job that finds the lease held goes to be blocked.
LEMMA RefusedKeeps ==
  ASSUME GroundIInv, NEW p \in Process, Refused(p) PROVE GroundIInv'
<1> DEFINE r == [Idle EXCEPT !.phase = "blocked", !.job = Head(queue[p])[1],
                             !.asked = Head(queue[p])[2]]
<1>1. /\ r \in WarmThread /\ r.phase = "blocked" /\ r.job = Head(queue[p])[1]
      /\ r.asked = Head(queue[p])[2]
      /\ In(p, "idle") /\ queue[p] # <<>>
  BY TakeFacts DEF Refused
<1>2. warm' = [warm EXCEPT ![p] = r] /\ queue' = [queue EXCEPT ![p] = Tail(@)]
  BY <1>1 DEF Refused, Take
<1>. HIDE DEF r
<1>3. Moves(p) /\ warm'[p] = r
  BY <1>1, <1>2, MovesSoon DEF GroundIInv, GroundInv
<1>4. UNCHANGED <<up, status, dueIn, layerVars, beside, lease, lost, manual, faults>>
  BY DEF Refused, bookVars, historyVars, boundVars
<1>5. HoldsLease'
  BY <1>1, <1>3, <1>4, LeaseKept
<1>. QED
  BY <1>1, <1>2, <1>4, <1>5, ThreadFacts, TakeKeeps DEF GroundIInv, GroundInv, GroundTypeOK

\* A job whose lease could not be asked for is dropped as it is.
LEMMA LeaseFailsKeeps ==
  ASSUME GroundIInv, NEW p \in Process, LeaseFails(p) PROVE GroundIInv'
<1>1. warm[p] = Idle /\ In(p, "idle") /\ queue[p] # <<>>
  BY TakeFacts DEF LeaseFails
<1>2. warm' = [warm EXCEPT ![p] = Idle] /\ queue' = [queue EXCEPT ![p] = Tail(@)]
  BY <1>1 DEF LeaseFails, GroundIInv, GroundInv, GroundTypeOK
<1>3. UNCHANGED <<up, status, dueIn, layerVars, beside, lease, lost, warm, manual>>
  BY DEF LeaseFails, bookVars
<1>4. HoldsLease'
  BY <1>3 DEF GroundIInv, GroundInv, HoldsLease, Working
<1>5. /\ lease' \in [holder : Job \cup {None}, left : 0..Lease]
      /\ lost' \subseteq Process /\ manual' \in 0..MaxManual /\ faults' \in 0..MaxFaults
  BY <1>3, ThreadFacts DEF LeaseFails, GroundIInv, GroundInv, GroundTypeOK
<1>. QED
  BY <1>1, <1>2, <1>3, <1>4, <1>5, IdleThread, TakeKeeps

-----------------------------------------------------------------------------
(* The ground layers: a new job.                                           *)

\* A job is created if none is active, with an id nobody carries, at the end of a queue.
LEMMA CreateKeeps ==
  ASSUME GroundIInv, NEW p \in Process, NEW request \in Request, Create(p, request),
         manual' \in 0..MaxManual
  PROVE  GroundIInv'
<1>1. PICK j \in Job :
        /\ ~AnyActive /\ Forgotten(j)
        /\ status' = [status EXCEPT ![j] = "queued"]
        /\ queue' = [queue EXCEPT ![p] = Append(@, <<j, request>>)]
        /\ beside' = beside \ {j}
        /\ UNCHANGED <<up, lease, dueIn, warm, layerVars, lost, faults>>
  BY DEF Create
<1>2. /\ queue \in [Process -> Seq(Job \X Request)]
           /\ status \in [Job -> {"none"} \cup Active \cup Settled]
      /\ status'[j] = "queued" /\ \A i \in Job \ {j} : status'[i] = status[i]
      /\ status' \in [Job -> {"none"} \cup Active \cup Settled]
  BY <1>1 DEF GroundIInv, GroundInv, GroundTypeOK, Active
<1>3. /\ queue'[p] = Append(queue[p], <<j, request>>) /\ queue[p] \in Seq(Job \X Request)
      /\ \A q \in Process \ {p} : queue'[q] = queue[q]
  BY <1>1, <1>2
<1>4. /\ queue'[p] \in Seq(Job \X Request)
      /\ \A i \in DOMAIN queue'[p] :
           \/ i \in DOMAIN queue[p] /\ queue'[p][i] = queue[p][i]
           \/ i = Len(queue[p]) + 1 /\ i \notin DOMAIN queue[p] /\ queue'[p][i] = <<j, request>>
  BY <1>3, AppendFacts
<1>5. \A q \in Process : \A i \in DOMAIN queue'[q] :
        \/ i \in DOMAIN queue[q] /\ queue'[q][i] = queue[q][i] /\ queue[q][i][1] # j
        \/ q = p /\ i = Len(queue[p]) + 1 /\ queue'[q][i][1] = j
  BY <1>1, <1>3, <1>4 DEF Forgotten, Carried
<1>6. \A q \in Process : warm[q].job # j
  BY <1>1 DEF Forgotten, Carried
<1>7. GroundTypeOK'
  <2>1. queue' \in [Process -> Seq(Job \X Request)]
    BY <1>1, <1>2, <1>4
  <2>. QED
    BY <1>1, <1>2, <2>1 DEF GroundIInv, GroundInv, GroundTypeOK, layerVars
<1>8. CarriedOnce'
  <2>1. ASSUME NEW q \in Process, NEW s \in Process, NEW i \in DOMAIN queue'[q],
               NEW k \in DOMAIN queue'[s], queue'[q][i][1] = queue'[s][k][1]
        PROVE  q = s /\ i = k
    BY <1>5, <2>1 DEF GroundIInv, CarriedOnce
  <2>2. ASSUME NEW q \in Process, NEW s \in Process, warm'[q].job # None
        PROVE  /\ warm'[s].job = warm'[q].job => q = s
               /\ \A i \in DOMAIN queue'[s] : queue'[s][i][1] # warm'[q].job
    BY <1>1, <1>5, <1>6, <2>2 DEF GroundIInv, CarriedOnce
  <2>. QED  BY <2>1, <2>2 DEF CarriedOnce
<1>9. JobsTold'
  <2>1. \A i \in Job \ {j}, s \in Active : Told(i, s) => ToldNext(i, s)
    BY <1>1, <1>2 DEF Told, ToldNext
  <2>2. ToldNext(j, "queued") /\ {"queued", "running"} \subseteq Active
    BY <1>2 DEF ToldNext, Active
  <2>3. ASSUME NEW q \in Process, NEW i \in DOMAIN queue'[q]
        PROVE  ToldNext(queue'[q][i][1], "queued")
    <3>1. CASE i \in DOMAIN queue[q] /\ queue'[q][i] = queue[q][i] /\ queue[q][i][1] # j
      <4>1. queue[q][i][1] \in Job
        BY <1>2, <3>1
      <4>. QED  BY <2>1, <2>2, <3>1, <4>1 DEF GroundIInv, JobsTold
    <3>. QED  BY <1>5, <2>2, <3>1
  <2>4. ASSUME NEW q \in Process, warm[q].phase # "idle"
        PROVE  warm[q].job \in Job \ {j}
    BY <1>6, <2>4 DEF GroundIInv, WarmInPlace, In
  <2>5. ASSUME NEW q \in Process
        PROVE  /\ warm[q].phase \in {"blocked", "start"} =>
                    ToldNext(warm[q].job, "queued")
               /\ warm[q].phase \in {"next", "lock", "fetch", "failed"} =>
                    ToldNext(warm[q].job, "running")
    BY <2>1, <2>2, <2>4 DEF GroundIInv, JobsTold
  <2>. QED  BY <1>1, <2>3, <2>5 DEF JobsTold, Told, ToldNext
<1>10. OneActive'
  BY <1>1, <1>2 DEF AnyActive, OneActive
<1>11. WarmInPlace' /\ HoldsLease' /\ LocksHeld' /\ StoresCounted' /\ StoredOnce'
  BY <1>1 DEF GroundIInv, GroundInv, WarmInPlace, In, HoldsLease, Working, LocksHeld,
              StoresCounted, Bringing, StoredOnce, layerVars
<1>. QED
  BY <1>7, <1>8, <1>9, <1>10, <1>11 DEF GroundIInv, GroundInv

\* An operator's job is a new job.
LEMMA AskKeeps ==
  ASSUME GroundIInv, NEW p \in Process, Ask(p) PROVE GroundIInv'
<1>1. manual' \in 0..MaxManual
  BY DEF Ask, GroundIInv, GroundInv, GroundTypeOK
<1>. QED  BY <1>1, CreateKeeps, GroundAssumption DEF Ask

\* The loop's job is a new job.
LEMMA WarmWhenDueKeeps ==
  ASSUME GroundIInv, NEW p \in Process, WarmWhenDue(p) PROVE GroundIInv'
<1>1. manual' \in 0..MaxManual /\ [full |-> TRUE, force |-> FALSE] \in Request
  BY DEF WarmWhenDue, GroundIInv, GroundInv, GroundTypeOK, Request
<1>. QED  BY <1>1, CreateKeeps DEF WarmWhenDue

-----------------------------------------------------------------------------
(* The ground layers: refreshes.                                           *)

\* Who refreshes a layer.
Who == {"warm", "task"}
TaskSteps == [Process -> [Airport -> {"idle", "lock", "fetch"}]]
Locks == [Process -> [Airport -> {"free", "warm", "task"}]]

\* p's thread or its tasks move at a layer.
LayerMove(p) ==
    /\ Moves(p)
    /\ task' \in TaskSteps
    /\ \/ warm'[p] = warm[p]
       \/ /\ warm[p].phase \in {"lock", "fetch"} /\ warm'[p].phase \in {"fetch", "next"}
          /\ warm'[p].job = warm[p].job /\ warm'[p].asked = warm[p].asked
          /\ warm'[p].phase = "fetch" => warm'[p].on \in Airport

\* Whoever goes on to fetch a layer is at its fetch afterwards, and nobody else comes.
LEMMA GoesOnFacts ==
  ASSUME GroundIInv, NEW p \in Process, NEW a \in Airport, NEW who \in Who,
         AtLayer(p, a, who, "lock"), GoesOn(p, a, who)
  PROVE  /\ LayerMove(p)
         /\ \A q \in Process, b \in Airport, w \in Who :
              AtLayer(q, b, w, "fetch")' <=>
                AtLayer(q, b, w, "fetch") \/ (q = p /\ b = a /\ w = who)
<1>t. /\ task \in TaskSteps /\ warm \in [Process -> WarmThread]
  BY DEF GroundIInv, GroundInv, GroundTypeOK, WarmThread, TaskSteps
<1>1. CASE who = "task"
  <2>1. warm' = warm /\ task' = [task EXCEPT ![p][a] = "fetch"]
    BY <1>1 DEF GoesOn
  <2>2. /\ task' \in TaskSteps
        /\ \A q \in Process, b \in Airport :
             task'[q][b] = IF q = p /\ b = a THEN "fetch" ELSE task[q][b]
    BY <1>t, <2>1 DEF TaskSteps
  <2>3. LayerMove(p)
    BY <1>t, <2>1, <2>2 DEF LayerMove, Moves
  <2>. QED  BY <1>1, <2>1, <2>2, <2>3 DEF AtLayer, In, Who
<1>2. CASE who = "warm"
  <2> DEFINE r == [warm[p] EXCEPT !.phase = "fetch"]
  <2>1. /\ r \in WarmThread /\ r.phase = "fetch" /\ r.job = warm[p].job
        /\ r.asked = warm[p].asked /\ r.on = warm[p].on
    BY <1>t DEF WarmThread
  <2>2. warm' = [warm EXCEPT ![p] = r] /\ task' = task
    BY <1>2 DEF GoesOn, Enter
  <2>. HIDE DEF r
  <2>3. Moves(p) /\ warm'[p] = r
    BY <2>1, <2>2, MovesSoon DEF GroundIInv, GroundInv
  <2>4. warm[p].phase = "lock" /\ warm[p].on = a
    BY <1>2 DEF AtLayer, In
  <2>5. LayerMove(p)
    BY <1>t, <2>1, <2>2, <2>3, <2>4 DEF LayerMove
  <2>6. ASSUME NEW q \in Process, NEW b \in Airport, NEW w \in Who
        PROVE  AtLayer(q, b, w, "fetch")' <=>
                 AtLayer(q, b, w, "fetch") \/ (q = p /\ b = a /\ w = who)
    <3>1. CASE q = p
      BY <1>2, <2>1, <2>2, <2>3, <2>4, <3>1 DEF AtLayer, In, Who
    <3>2. CASE q # p
      BY <1>2, <2>2, <2>3, <3>2 DEF AtLayer, In, Who, Moves
    <3>. QED  BY <3>1, <3>2
  <2>. QED  BY <2>5, <2>6
<1>. QED  BY <1>1, <1>2 DEF Who

\* Whoever ends at a layer is not at its fetch afterwards, and nobody else leaves.
LEMMA EndsFacts ==
  ASSUME GroundIInv, NEW p \in Process, NEW a \in Airport, NEW who \in Who,
         AtLayer(p, a, who, "lock") \/ AtLayer(p, a, who, "fetch"), Ends(p, a, who)
  PROVE  /\ LayerMove(p)
         /\ \A q \in Process, b \in Airport, w \in Who :
              AtLayer(q, b, w, "fetch")' <=>
                AtLayer(q, b, w, "fetch") /\ ~(q = p /\ b = a /\ w = who)
<1>t. /\ task \in TaskSteps /\ warm \in [Process -> WarmThread]
  BY DEF GroundIInv, GroundInv, GroundTypeOK, WarmThread, TaskSteps
<1>1. CASE who = "task"
  <2>1. warm' = warm /\ task' = [task EXCEPT ![p][a] = "idle"]
    BY <1>1 DEF Ends
  <2>2. /\ task' \in TaskSteps
        /\ \A q \in Process, b \in Airport :
             task'[q][b] = IF q = p /\ b = a THEN "idle" ELSE task[q][b]
    BY <1>t, <2>1 DEF TaskSteps
  <2>3. LayerMove(p)
    BY <1>t, <2>1, <2>2 DEF LayerMove, Moves
  <2>. QED  BY <1>1, <2>1, <2>2, <2>3 DEF AtLayer, In, Who
<1>2. CASE who = "warm"
  <2> DEFINE r == [warm[p] EXCEPT !.phase = "next", !.on = None]
  <2>1. /\ r \in WarmThread /\ r.phase = "next" /\ r.job = warm[p].job
        /\ r.asked = warm[p].asked
    BY <1>t DEF WarmThread
  <2>2. warm' = [warm EXCEPT ![p] = r] /\ task' = task
    BY <1>2 DEF Ends
  <2>. HIDE DEF r
  <2>3. Moves(p) /\ warm'[p] = r
    BY <2>1, <2>2, MovesSoon DEF GroundIInv, GroundInv
  <2>4. warm[p].phase \in {"lock", "fetch"} /\ warm[p].on = a
    BY <1>2 DEF AtLayer, In
  <2>5. LayerMove(p)
    BY <1>t, <2>1, <2>2, <2>3, <2>4 DEF LayerMove
  <2>6. ASSUME NEW q \in Process, NEW b \in Airport, NEW w \in Who
        PROVE  AtLayer(q, b, w, "fetch")' <=>
                 AtLayer(q, b, w, "fetch") /\ ~(q = p /\ b = a /\ w = who)
    <3>1. CASE q = p
      BY <1>2, <2>1, <2>2, <2>3, <2>4, <3>1 DEF AtLayer, In, Who
    <3>2. CASE q # p
      BY <1>2, <2>2, <2>3, <3>2 DEF AtLayer, In, Who, Moves
    <3>. QED  BY <3>1, <3>2
  <2>. QED  BY <2>5, <2>6
<1>. QED  BY <1>1, <1>2 DEF Who

\* A layer's lock is with the one who fetches it.
LEMMA LockedBy ==
  LocksHeld <=> \A q \in Process, b \in Airport, w \in Who :
                  AtLayer(q, b, w, "fetch") <=> lock[q][b] = w
  BY DEF LocksHeld, AtLayer, Who

\* The steps at a layer touch no job, no queue and no lease: what is left to show for
\* each is that the locks and the counts stay right.
LEMMA LayerKeeps ==
  ASSUME GroundIInv, NEW p \in Process, LayerMove(p),
         UNCHANGED <<up, bookVars, queue, historyVars, boundVars>>,
         lock' \in Locks, layer' \in [Airport -> {"old", "fresh"}],
         stores' \in [Airport -> Nat], LocksHeld', StoresCounted'
  PROVE  GroundIInv'
<1>1. GroundTypeOK'
  BY DEF GroundIInv, GroundInv, GroundTypeOK, LayerMove, Moves, WarmThread, TaskSteps, Locks,
         bookVars, historyVars, boundVars
<1>2. ASSUME NEW q \in Process
      PROVE  warm'[q].job = warm[q].job /\ (warm'[q].phase = "idle" <=> warm[q].phase = "idle")
  BY DEF LayerMove, Moves
<1>3. WarmInPlace'
  <2>1. ASSUME NEW q \in Process, warm'[q] = warm[q]
        PROVE  /\ In(q, "idle")' => warm'[q] = Idle
               /\ ~In(q, "idle")' => warm'[q].job \in Job /\ warm'[q].asked \in Request
               /\ In(q, "lock")' \/ In(q, "fetch")' => warm'[q].on \in Airport
    BY <2>1 DEF GroundIInv, WarmInPlace, In
  <2>2. ASSUME warm'[p] # warm[p]
        PROVE  /\ ~In(p, "idle")'
               /\ ~In(p, "idle")' => warm'[p].job \in Job /\ warm'[p].asked \in Request
               /\ In(p, "lock")' \/ In(p, "fetch")' => warm'[p].on \in Airport
    BY <2>2 DEF LayerMove, GroundIInv, WarmInPlace, In
  <2>. QED  BY <2>1, <2>2 DEF WarmInPlace, LayerMove, Moves
<1>4. CarriedOnce'
  BY CarriedKept DEF LayerMove, bookVars
<1>5. JobsTold'
  BY DEF LayerMove, Moves, GroundIInv, JobsTold, Told, bookVars, historyVars
<1>6. HoldsLease'
  BY DEF LayerMove, Moves, GroundIInv, GroundInv, HoldsLease, Working, bookVars, historyVars
<1>7. OneActive'
  BY DEF GroundIInv, GroundInv, OneActive, bookVars, historyVars
<1>8. StoredOnce'
  BY <1>1, StoredFromCount, PTL
<1>. QED
  BY <1>1, <1>3, <1>4, <1>5, <1>6, <1>7, <1>8 DEF GroundIInv, GroundInv

\* A step at a layer changes no request, so that the locks tell who brings a layer in.
LEMMA AskedKept ==
  ASSUME NEW p \in Process, LayerMove(p), NEW b \in Airport
  PROVE  Bringing(b)' = {q \in Process : lock'[q][b] = "task"
                                         \/ (lock'[q][b] = "warm" /\ ~warm[q].asked.force)}
<1>1. ASSUME NEW q \in Process PROVE warm'[q].asked = warm[q].asked
  BY DEF LayerMove, Moves
<1>. QED  BY <1>1 DEF Bringing

\* A step that takes and gives back no lock, and stores nothing.
LEMMA LocksKept ==
  ASSUME GroundIInv, NEW p \in Process, LayerMove(p),
         UNCHANGED <<up, bookVars, queue, lock, layer, stores, historyVars, boundVars>>,
         \A q \in Process, b \in Airport, w \in Who :
            AtLayer(q, b, w, "fetch")' <=> AtLayer(q, b, w, "fetch")
  PROVE  GroundIInv'
<1>1. LocksHeld'
  <2>1. \A q \in Process, b \in Airport, w \in Who : AtLayer(q, b, w, "fetch") <=>
          lock[q][b] = w
    BY LockedBy DEF GroundIInv
  <2>2. \A q \in Process, b \in Airport, w \in Who : AtLayer(q, b, w, "fetch")' <=>
          lock'[q][b] = w
    BY <2>1
  <2>. QED  BY <2>2 DEF LocksHeld, AtLayer, Who
<1>2. ASSUME NEW b \in Airport PROVE Bringing(b)' = Bringing(b)
  BY AskedKept DEF Bringing
<1>3. StoresCounted'
  BY <1>2 DEF GroundIInv, StoresCounted
<1>. QED
  BY <1>1, <1>3, LayerKeeps DEF GroundIInv, GroundInv, GroundTypeOK, Locks

\* Whoever waited too long for the lock of a layer leaves it.
LEMMA BusyKeeps ==
  ASSUME GroundIInv, NEW p \in Process, NEW a \in Airport,
    NEW who \in Who, Busy(p, a, who)
  PROVE  GroundIInv'
<1>1. ~AtLayer(p, a, who, "fetch")
  BY DEF Busy, AtLayer, In, Who
<1>. QED
  BY <1>1, EndsFacts, LocksKept DEF Busy

\* Whoever takes the lock finds the layer stored meanwhile, and leaves it, or finds it old:
\* then nothing was stored yet, and each process has one at it at most.
LEMMA TakeLockKeeps ==
  ASSUME GroundIInv, NEW p \in Process, NEW a \in Airport,
    NEW who \in Who, TakeLock(p, a, who)
  PROVE  GroundIInv'
<1>1. ~AtLayer(p, a, who, "fetch") /\ AtLayer(p, a, who, "lock")
  BY DEF TakeLock, AtLayer, In, Who
<1>2. CASE DoneMeanwhile(p, a, who)
  BY <1>1, <1>2, EndsFacts, LocksKept DEF TakeLock
<1>3. CASE ~DoneMeanwhile(p, a, who)
  <2>1. /\ lock[p][a] = "free" /\ lock' = [lock EXCEPT ![p][a] = who]
        /\ UNCHANGED <<up, bookVars, queue, layer, stores, historyVars, boundVars>>
        /\ GoesOn(p, a, who)
    BY <1>3 DEF TakeLock
  <2>2. /\ lock' \in Locks
        /\ \A q \in Process, b \in Airport :
             lock'[q][b] = IF q = p /\ b = a THEN who ELSE lock[q][b]
    BY <2>1 DEF GroundIInv, GroundInv, GroundTypeOK, Locks, Who
  <2>3. /\ LayerMove(p)
        /\ \A q \in Process, b \in Airport, w \in Who :
             AtLayer(q, b, w, "fetch")' <=>
               AtLayer(q, b, w, "fetch") \/ (q = p /\ b = a /\ w = who)
    BY <1>1, <2>1, GoesOnFacts
  <2>4. LocksHeld'
    <3>1. \A q \in Process, b \in Airport, w \in Who :
            AtLayer(q, b, w, "fetch") <=> lock[q][b] = w
      BY LockedBy DEF GroundIInv
    <3>2. \A q \in Process, b \in Airport, w \in Who :
            AtLayer(q, b, w, "fetch")' <=> lock'[q][b] = w
      BY <2>1, <2>2, <2>3, <3>1 DEF Who
    <3>. QED  BY <3>2 DEF LocksHeld, AtLayer, Who
  <2>5. StoresCounted'
    <3>1. ASSUME NEW b \in Airport, b # a PROVE Bringing(b)' = Bringing(b)
      BY <2>2, <2>3, <3>1, AskedKept DEF Bringing
    <3>2. CASE Forced(p, who)
      <4>1. Bringing(a)' = Bringing(a)
        BY <2>1, <2>2, <2>3, <3>2, AskedKept DEF Bringing, Forced
      <4>. QED  BY <2>1, <3>1, <4>1 DEF GroundIInv, StoresCounted
    <3>3. CASE ~Forced(p, who)
      <4>1. layer[a] = "old" /\ stores[a] = 0
        BY <1>3, <3>3 DEF DoneMeanwhile, UpToDate, GroundIInv, GroundInv, GroundTypeOK,
                          StoresCounted
      <4>2. Bringing(a)' \subseteq Process
        BY DEF Bringing
      <4>3. /\ Cardinality(Bringing(a)') \in Nat
            /\ Cardinality(Bringing(a)') <= Cardinality(Process)
        BY <4>2, FS_Subset, FS_CardinalityType, GroundAssumption
      <4>. QED  BY <2>1, <3>1, <4>1, <4>3 DEF GroundIInv, StoresCounted
    <3>. QED  BY <3>2, <3>3
  <2>. QED
    BY <2>1, <2>2, <2>3, <2>4, <2>5, LayerKeeps DEF GroundIInv, GroundInv, GroundTypeOK
<1>. QED  BY <1>2, <1>3

\* The end of a fetch gives back the lock, and takes its process from those that bring in.
LEMMA GivenBack ==
  ASSUME GroundIInv, NEW p \in Process, NEW a \in Airport, NEW who \in Who,
         AtLayer(p, a, who, "fetch"), Ends(p, a, who),
         lock' = [lock EXCEPT ![p][a] = "free"]
  PROVE  /\ LayerMove(p) /\ lock' \in Locks /\ LocksHeld'
         /\ p \in Bringing(a) <=> ~Forced(p, who)
         /\ Bringing(a)' = Bringing(a) \ {p}
         /\ \A b \in Airport \ {a} : Bringing(b)' = Bringing(b)
<1>1. /\ lock' \in Locks
      /\ \A q \in Process, b \in Airport :
           lock'[q][b] = IF q = p /\ b = a THEN "free" ELSE lock[q][b]
  BY DEF GroundIInv, GroundInv, GroundTypeOK, Locks, Who
<1>2. /\ LayerMove(p)
      /\ \A q \in Process, b \in Airport, w \in Who :
           AtLayer(q, b, w, "fetch")' <=>
             AtLayer(q, b, w, "fetch") /\ ~(q = p /\ b = a /\ w = who)
  BY EndsFacts
<1>3. \A q \in Process, b \in Airport, w \in Who :
        AtLayer(q, b, w, "fetch") <=> lock[q][b] = w
  BY LockedBy DEF GroundIInv
<1>4. LocksHeld'
  <2>1. \A q \in Process, b \in Airport, w \in Who :
          AtLayer(q, b, w, "fetch")' <=> lock'[q][b] = w
    BY <1>1, <1>2, <1>3 DEF Who
  <2>. QED  BY <2>1 DEF LocksHeld, AtLayer, Who
<1>5. p \in Bringing(a) <=> ~Forced(p, who)
  BY <1>3 DEF Bringing, Forced, Who
<1>6. Bringing(a)' = Bringing(a) \ {p}
  BY <1>1, <1>2, AskedKept DEF Bringing
<1>7. ASSUME NEW b \in Airport \ {a} PROVE Bringing(b)' = Bringing(b)
  BY <1>1, <1>2, AskedKept DEF Bringing
<1>. QED  BY <1>1, <1>2, <1>4, <1>5, <1>6, <1>7

\* A store counts for the process that brought it, which brings it no more.
LEMMA FetchedKeeps ==
  ASSUME GroundIInv, NEW p \in Process, NEW a \in Airport,
    NEW who \in Who, Fetched(p, a, who)
  PROVE  GroundIInv'
<1>1. /\ LayerMove(p) /\ lock' \in Locks /\ LocksHeld'
      /\ p \in Bringing(a) <=> ~Forced(p, who)
      /\ Bringing(a)' = Bringing(a) \ {p}
      /\ \A b \in Airport \ {a} : Bringing(b)' = Bringing(b)
  BY GivenBack DEF Fetched
<1>2. /\ layer' \in [Airport -> {"old", "fresh"}] /\ layer'[a] = "fresh"
      /\ \A b \in Airport \ {a} : layer'[b] = layer[b]
  BY DEF Fetched, GroundIInv, GroundInv, GroundTypeOK
<1>3. /\ stores' \in [Airport -> Nat]
      /\ stores'[a] = IF Forced(p, who) THEN stores[a] ELSE stores[a] + 1
      /\ \A b \in Airport \ {a} : stores'[b] = stores[b]
      /\ stores[a] \in Nat
  BY DEF Fetched, GroundIInv, GroundInv, GroundTypeOK
<1>4. stores'[a] + Cardinality(Bringing(a)') <= Cardinality(Process)
  <2>1. stores[a] + Cardinality(Bringing(a)) <= Cardinality(Process)
    BY DEF GroundIInv, StoresCounted
  <2>2. CASE Forced(p, who)
    <3>1. Bringing(a)' = Bringing(a)
      BY <1>1, <2>2
    <3>. QED  BY <1>3, <2>1, <2>2, <3>1
  <2>3. CASE ~Forced(p, who)
    <3>1. Cardinality(Bringing(a)') = Cardinality(Bringing(a)) - 1
      BY <1>1, <2>3, BringingFinite, FS_RemoveElement
    <3>. QED  BY <1>3, <2>1, <2>3, <3>1, BringingFinite
  <2>. QED  BY <2>2, <2>3
<1>5. StoresCounted'
  BY <1>1, <1>2, <1>3, <1>4 DEF GroundIInv, StoresCounted
<1>. QED
  BY <1>1, <1>2, <1>3, <1>5, LayerKeeps DEF Fetched

\* A fetch that fails stores nothing, and its process brings no more.
LEMMA FetchFailsKeeps ==
  ASSUME GroundIInv, NEW p \in Process, NEW a \in Airport,
    NEW who \in Who, FetchFails(p, a, who)
  PROVE  GroundIInv'
<1>1. /\ LayerMove(p) /\ lock' \in Locks /\ LocksHeld'
      /\ Bringing(a)' = Bringing(a) \ {p}
      /\ \A b \in Airport \ {a} : Bringing(b)' = Bringing(b)
      /\ layer' = layer /\ stores' = stores
  BY GivenBack DEF FetchFails
<1>2. stores[a] + Cardinality(Bringing(a)') <= Cardinality(Process)
  <2>1. stores[a] + Cardinality(Bringing(a)) <= Cardinality(Process) /\ stores[a] \in Nat
    BY DEF GroundIInv, GroundInv, GroundTypeOK, StoresCounted
  <2>2. Bringing(a)' \subseteq Bringing(a)
    BY <1>1
  <2>3. /\ Cardinality(Bringing(a)') \in Nat
        /\ Cardinality(Bringing(a)') <= Cardinality(Bringing(a))
    BY <2>2, BringingFinite, FS_Subset, FS_CardinalityType
  <2>. QED  BY <2>1, <2>3, BringingFinite
<1>3. StoresCounted'
  BY <1>1, <1>2 DEF GroundIInv, StoresCounted
<1>. QED
  BY <1>1, <1>3, LayerKeeps DEF FetchFails, GroundIInv, GroundInv, GroundTypeOK

\* A reader's task waits for the lock first.
LEMMA ReadKeeps ==
  ASSUME GroundIInv, NEW p \in Process, NEW a \in Airport, Read(p, a) PROVE GroundIInv'
<1>1. /\ task' \in TaskSteps
      /\ \A q \in Process, b \in Airport :
           task'[q][b] = IF q = p /\ b = a THEN "lock" ELSE task[q][b]
  BY DEF Read, GroundIInv, GroundInv, GroundTypeOK, TaskSteps
<1>2. warm' = warm /\ warm \in [Process -> WarmThread]
  BY DEF Read, GroundIInv, GroundInv, GroundTypeOK, WarmThread
<1>3. LayerMove(p)
  BY <1>1, <1>2 DEF LayerMove, Moves
<1>4. task[p][a] = "idle"
  BY DEF Read
<1>5. \A q \in Process, b \in Airport, w \in Who :
        AtLayer(q, b, w, "fetch")' <=> AtLayer(q, b, w, "fetch")
  BY <1>1, <1>2, <1>4 DEF AtLayer, In, Who
<1>. QED  BY <1>3, <1>5, LocksKept DEF Read

\* A layer that gets old is counted anew.
LEMMA AgesKeeps ==
  ASSUME GroundIInv, NEW a \in Airport, Ages(a) PROVE GroundIInv'
<1>1. /\ layer' \in [Airport -> {"old", "fresh"}] /\ stores' \in [Airport -> Nat]
      /\ stores'[a] = 0
      /\ \A b \in Airport \ {a} : layer'[b] = layer[b] /\ stores'[b] = stores[b]
  BY DEF Ages, GroundIInv, GroundInv, GroundTypeOK
<1>2. UNCHANGED <<up, bookVars, queue, warm, task, lock, historyVars, boundVars>>
  BY DEF Ages
<1>3. GroundTypeOK'
  BY <1>1, <1>2 DEF GroundIInv, GroundInv, GroundTypeOK, bookVars, historyVars, boundVars
<1>4. StoresCounted'
  <2>1. ASSUME NEW b \in Airport PROVE Bringing(b)' = Bringing(b)
    BY <1>2 DEF Bringing
  <2>. QED  BY <1>1, <2>1, BringingFinite DEF GroundIInv, StoresCounted
<1>5. StoredOnce'
  BY <1>3, <1>4, StoredFromCount, PTL
<1>6. HoldsLease' /\ OneActive' /\ WarmInPlace' /\ CarriedOnce' /\ JobsTold' /\ LocksHeld'
  BY <1>2 DEF GroundIInv, GroundInv, HoldsLease, Working, OneActive, WarmInPlace, In,
              CarriedOnce, JobsTold, Told, LocksHeld, bookVars, historyVars
<1>. QED  BY <1>3, <1>4, <1>5, <1>6 DEF GroundIInv, GroundInv

-----------------------------------------------------------------------------
(* The ground layers: processes and the clock.                             *)

\* A process that starts settles the jobs of all, and says of those carried elsewhere that
\* they go on beside what their row tells, and their threads without the lease.
LEMMA BootKeeps ==
  ASSUME GroundIInv, NEW p \in Process, Boot(p) PROVE GroundIInv'
<1>1. /\ UNCHANGED <<dueIn, queue, warm, task, lock, layer, stores, manual, faults>>
      /\ lost' = lost \cup {q \in Process : warm[q].job # None /\ warm[q].job = lease.holder}
      /\ beside' = beside \cup {j \in Job : status[j] \in Active /\ Carried(j)}
      /\ status' = [j \in Job |-> IF status[j] \in Active THEN "failed" ELSE status[j]]
      /\ lease' = NoLease /\ up' \subseteq Process
  BY DEF Boot, FailInterrupted, layerVars, boundVars, GroundIInv, GroundInv, GroundTypeOK
<1>2. GroundTypeOK'
  <2>1. status' \in [Job -> {"none"} \cup Active \cup Settled]
    BY <1>1 DEF GroundIInv, GroundInv, GroundTypeOK, Settled
  <2>2. lease' \in [holder : Job \cup {None}, left : 0..Lease]
    BY <1>1 DEF NoLease
  <2>. QED  BY <1>1, <2>1, <2>2 DEF GroundIInv, GroundInv, GroundTypeOK
<1>3. \A j \in Job, s \in Active : Told(j, s) /\ Carried(j) => ToldNext(j, s)
  BY <1>1 DEF Told, ToldNext
<1>4. JobsTold'
  <2>1. {"queued", "running"} \subseteq Active /\ queue \in [Process -> Seq(Job \X Request)]
    BY DEF Active, GroundIInv, GroundInv, GroundTypeOK
  <2>2. ASSUME NEW q \in Process, NEW i \in DOMAIN queue[q]
        PROVE  ToldNext(queue[q][i][1], "queued")
    <3>1. queue[q][i][1] \in Job
      BY <2>1
    <3>2. Told(queue[q][i][1], "queued") /\ Carried(queue[q][i][1])
      BY DEF GroundIInv, JobsTold, Carried
    <3>. QED  BY <1>3, <2>1, <3>1, <3>2
  <2>3. ASSUME NEW q \in Process, ~In(q, "idle")
        PROVE  warm[q].job \in Job /\ Carried(warm[q].job)
    BY <2>3 DEF GroundIInv, WarmInPlace, Carried
  <2>4. ASSUME NEW q \in Process
        PROVE  /\ warm[q].phase \in {"blocked", "start"} =>
                    ToldNext(warm[q].job, "queued")
               /\ warm[q].phase \in {"next", "lock", "fetch", "failed"} =>
                    ToldNext(warm[q].job, "running")
    BY <1>3, <2>1, <2>3 DEF GroundIInv, JobsTold, In
  <2>. QED  BY <1>1, <2>2, <2>4 DEF JobsTold, Told, ToldNext
<1>5. HoldsLease'
  <2>1. ASSUME NEW q \in Process, Working(q) PROVE q \in lost'
    <3>1. warm[q].job # None
      BY <2>1 DEF Working, GroundIInv, WarmInPlace, In
    <3>. QED  BY <1>1, <2>1, <3>1 DEF GroundIInv, GroundInv, HoldsLease
  <2>. QED  BY <1>1, <2>1 DEF HoldsLease, Working
<1>6. OneActive'
  BY <1>1 DEF OneActive, Active
<1>7. WarmInPlace' /\ CarriedOnce' /\ LocksHeld' /\ StoresCounted' /\ StoredOnce'
  BY <1>1 DEF GroundIInv, GroundInv, WarmInPlace, In, CarriedOnce, LocksHeld, StoresCounted,
              Bringing, StoredOnce
<1>. QED  BY <1>2, <1>4, <1>5, <1>6, <1>7 DEF GroundIInv, GroundInv

\* A process that ends takes its queue, its thread, its tasks and its locks with it.
LEMMA CrashKeeps ==
  ASSUME GroundIInv, NEW p \in Process, Crash(p) PROVE GroundIInv'
<1>1. /\ UNCHANGED <<status, lease, dueIn, layer, stores, beside, manual>>
      /\ up' = up \ {p} /\ lost' = lost \ {p} /\ faults' \in 0..MaxFaults
      /\ queue' = [queue EXCEPT ![p] = <<>>]
      /\ warm' = [warm EXCEPT ![p] = Idle]
      /\ task' = [task EXCEPT ![p] = [a \in Airport |-> "idle"]]
      /\ lock' = [lock EXCEPT ![p] = [a \in Airport |-> "free"]]
  BY ThreadFacts DEF Crash, bookVars
<1>2. /\ warm' \in [Process -> WarmThread] /\ warm'[p] = Idle
      /\ \A q \in Process \ {p} : warm'[q] = warm[q]
      /\ Idle.phase = "idle" /\ Idle.job = None
  BY <1>1, IdleThread, MovesSoon DEF Moves, GroundIInv, GroundInv, Idle
<1>3. /\ queue' \in [Process -> Seq(Job \X Request)] /\ DOMAIN queue'[p] = {}
      /\ \A q \in Process \ {p} : queue'[q] = queue[q]
  BY <1>1 DEF GroundIInv, GroundInv, GroundTypeOK
<1>4. /\ task' \in TaskSteps /\ lock' \in Locks
      /\ \A a \in Airport : task'[p][a] = "idle" /\ lock'[p][a] = "free"
      /\ \A q \in Process \ {p} : task'[q] = task[q] /\ lock'[q] = lock[q]
  BY <1>1 DEF GroundIInv, GroundInv, GroundTypeOK, TaskSteps, Locks
<1>5. GroundTypeOK'
  BY <1>1, <1>2, <1>3, <1>4
  DEF GroundIInv, GroundInv, GroundTypeOK, TaskSteps, Locks, WarmThread
<1>6. WarmInPlace' /\ HoldsLease'
  BY <1>1, <1>2 DEF GroundIInv, GroundInv, WarmInPlace, In, HoldsLease, Working
<1>7. CarriedOnce' /\ JobsTold'
  BY <1>1, <1>2, <1>3 DEF GroundIInv, CarriedOnce, JobsTold, Told
<1>8. OneActive'
  BY <1>1 DEF GroundIInv, GroundInv, OneActive
<1>9. LocksHeld'
  BY <1>2, <1>4 DEF GroundIInv, LocksHeld, In
<1>10. StoresCounted'
  <2>1. ASSUME NEW a \in Airport
        PROVE  stores[a] + Cardinality(Bringing(a)') <= Cardinality(Process)
    <3>1. Bringing(a)' \subseteq Bringing(a)
      BY <1>2, <1>4 DEF Bringing
    <3>2. /\ Cardinality(Bringing(a)') \in Nat
          /\ Cardinality(Bringing(a)') <= Cardinality(Bringing(a))
      BY <3>1, BringingFinite, FS_Subset, FS_CardinalityType
    <3>3. stores[a] + Cardinality(Bringing(a)) <= Cardinality(Process) /\ stores[a] \in Nat
      BY DEF GroundIInv, GroundInv, GroundTypeOK, StoresCounted
    <3>. QED  BY <3>2, <3>3, BringingFinite
  <2>. QED  BY <1>1, <2>1 DEF GroundIInv, StoresCounted
<1>11. StoredOnce'
  BY <1>5, <1>10, StoredFromCount, PTL
<1>. QED
  BY <1>5, <1>6, <1>7, <1>8, <1>9, <1>10, <1>11 DEF GroundIInv, GroundInv

\* The retention deletes what is active and carried by nobody, of which nothing is told.
LEMMA RetireKeeps ==
  ASSUME GroundIInv, NEW j \in Job, Retire(j) PROVE GroundIInv'
<1>1. /\ status' = [status EXCEPT ![j] = "none"] /\ ~Carried(j)
      /\ UNCHANGED <<up, lease, dueIn, queue, warm, layerVars, historyVars, boundVars>>
  BY DEF Retire, Old
<1>2. /\ status' \in [Job -> {"none"} \cup Active \cup Settled]
      /\ status'[j] = "none" /\ \A i \in Job \ {j} : status'[i] = status[i]
  BY <1>1 DEF GroundIInv, GroundInv, GroundTypeOK
<1>3. GroundTypeOK'
  BY <1>1, <1>2 DEF GroundIInv, GroundInv, GroundTypeOK, layerVars, historyVars, boundVars
<1>4. JobsTold'
  <2>1. ASSUME NEW q \in Process, NEW i \in DOMAIN queue[q]
        PROVE  ToldNext(queue[q][i][1], "queued")
    <3>1. queue[q][i][1] \in Job \ {j}
      BY <1>1 DEF Carried, GroundIInv, GroundInv, GroundTypeOK
    <3>. QED  BY <1>1, <1>2, <3>1 DEF GroundIInv, JobsTold, Told, ToldNext, historyVars
  <2>2. ASSUME NEW q \in Process, ~In(q, "idle")
        PROVE  warm[q].job \in Job \ {j}
    BY <1>1, <2>2 DEF GroundIInv, WarmInPlace, Carried
  <2>3. ASSUME NEW q \in Process
        PROVE  /\ warm[q].phase \in {"blocked", "start"} =>
                    ToldNext(warm[q].job, "queued")
               /\ warm[q].phase \in {"next", "lock", "fetch", "failed"} =>
                    ToldNext(warm[q].job, "running")
    BY <1>1, <1>2, <2>2 DEF GroundIInv, JobsTold, In, Told, ToldNext, historyVars
  <2>. QED  BY <1>1, <2>1, <2>3 DEF JobsTold, Told, ToldNext
<1>5. OneActive'
  BY <1>1, <1>2 DEF GroundIInv, GroundInv, OneActive, Active, historyVars
<1>6. WarmInPlace' /\ CarriedOnce' /\ HoldsLease' /\ LocksHeld' /\ StoresCounted' /\ StoredOnce'
  BY <1>1 DEF GroundIInv, GroundInv, WarmInPlace, In, CarriedOnce, HoldsLease, Working,
              LocksHeld, StoresCounted, Bringing, StoredOnce, layerVars, historyVars
<1>. QED  BY <1>3, <1>4, <1>5, <1>6 DEF GroundIInv, GroundInv

\* Time takes a lease's ticks, never its holder.
LEMMA GroundTickKeeps ==
  ASSUME GroundIInv, GroundTick PROVE GroundIInv'
<1>1. UNCHANGED <<up, status, queue, warm, layerVars, historyVars, boundVars>>
  BY DEF GroundTick
<1>2. /\ lease' \in [holder : Job \cup {None}, left : 0..Lease]
      /\ lease'.holder = lease.holder /\ dueIn' \in 0..WarmInterval
  <2>1. lease \in [holder : Job \cup {None}, left : 0..Lease] /\ dueIn \in 0..WarmInterval
    BY DEF GroundIInv, GroundInv, GroundTypeOK
  <2>2. lease.left \in 0..Lease
    BY <2>1
  <2>3. (IF lease.left > 0 THEN lease.left - 1 ELSE 0) \in 0..Lease
    BY <2>2, GroundAssumption
  <2>4. lease' = [lease EXCEPT !.left = IF lease.left > 0 THEN lease.left - 1 ELSE 0]
    BY DEF GroundTick
  <2>5. dueIn' \in 0..WarmInterval
    BY <2>1, GroundAssumption DEF GroundTick
  <2>. QED  BY <2>1, <2>3, <2>4, <2>5
<1>3. GroundTypeOK'
  BY <1>1, <1>2 DEF GroundIInv, GroundInv, GroundTypeOK, layerVars, historyVars, boundVars
<1>4. /\ HoldsLease' /\ OneActive' /\ StoredOnce' /\ WarmInPlace' /\ CarriedOnce' /\ JobsTold'
      /\ LocksHeld' /\ StoresCounted'
  BY <1>1, <1>2 DEF GroundIInv, GroundInv, HoldsLease, Working, OneActive, StoredOnce,
    WarmInPlace, In, CarriedOnce, JobsTold, Told, LocksHeld, StoresCounted, Bringing, layerVars,
    historyVars
<1>. QED  BY <1>3, <1>4 DEF GroundIInv, GroundInv

\* A step that changes nothing.
LEMMA GroundStutterKeeps ==
  ASSUME GroundIInv, UNCHANGED groundVars PROVE GroundIInv'
<1>1. GroundTypeOK'
  BY DEF GroundIInv, GroundInv, GroundTypeOK, groundVars, bookVars, layerVars, historyVars,
         boundVars
<1>2. /\ HoldsLease' /\ OneActive' /\ StoredOnce' /\ WarmInPlace' /\ CarriedOnce' /\ JobsTold'
      /\ LocksHeld' /\ StoresCounted'
  BY DEF GroundIInv, GroundInv, HoldsLease, Working, OneActive, StoredOnce, WarmInPlace, In,
    CarriedOnce, JobsTold, Told, LocksHeld, StoresCounted, Bringing, groundVars, bookVars,
    layerVars, historyVars
<1>. QED  BY <1>1, <1>2 DEF GroundIInv, GroundInv

\* Every step at a layer.
LEMMA LayerStepKeeps ==
  ASSUME GroundIInv, NEW p \in Process, NEW a \in Airport,
    NEW who \in Who, LayerStep(p, a, who)
  PROVE  GroundIInv'
  BY TakeLockKeeps, BusyKeeps, FetchedKeeps, FetchFailsKeeps DEF LayerStep

\* Every step keeps the invariant: one lemma for each action.
LEMMA GroundKeeps == GroundIInv /\ [GroundNext]_groundVars => GroundIInv'
<1> SUFFICES ASSUME GroundIInv, [GroundNext]_groundVars PROVE GroundIInv'
  OBVIOUS
<1>1. ASSUME NEW p \in Process, Ask(p) \/ WarmWhenDue(p) \/ Boot(p) \/ Crash(p)
      PROVE  GroundIInv'
  BY <1>1, AskKeeps, WarmWhenDueKeeps, BootKeeps, CrashKeeps
<1>2. ASSUME NEW p \in Process, JobStep(p) PROVE GroundIInv'
  BY <1>2, AcquireKeeps, RefusedKeeps, BlockedKeeps, StartKeeps, NextAirportKeeps,
     CompletesKeeps, RecordFailedKeeps, ReleaseKeeps DEF JobStep
<1>3. ASSUME NEW p \in Process, JobFault(p) PROVE GroundIInv'
  BY <1>3, LeaseFailsKeeps, StatusFailsKeeps, WriteFailsKeeps, RecordFailsKeeps,
     ReleaseFailsKeeps DEF JobFault
<1>4. ASSUME NEW p \in Process, NEW a \in Airport,
             Read(p, a) \/ \E who \in Who : LayerStep(p, a, who)
      PROVE  GroundIInv'
  BY <1>4, ReadKeeps, LayerStepKeeps
<1>. QED
  BY <1>1, <1>2, <1>3, <1>4, AgesKeeps, RetireKeeps, GroundTickKeeps, GroundStutterKeeps
  DEF GroundNext, Who

\* The inductive invariant holds in every reachable state.
THEOREM GroundInvariant == GroundSpec => []GroundIInv
  BY GroundStart, GroundKeeps, PTL DEF GroundSpec

\* However many processes, airports and jobs there are: a job at work holds the lease
\* unless the clock or a start took it, each process stores an old layer once, and one job
\* is active at most.
THEOREM GroundHolds == GroundSpec => []GroundInv
<1>1. GroundIInv => GroundInv
  BY DEF GroundIInv
<1>. QED  BY <1>1, GroundInvariant, PTL

-----------------------------------------------------------------------------
(* The ground layers: settled jobs.                                        *)

\* What SettledStays says of a job.
Stays(j) ==
    status[j] \in Settled /\ status'[j] # status[j] =>
      \/ j \in beside
      \/ status'[j] = "queued" /\ Forgotten(j)

\* A thread writes to a row that is told active, or settled beside it by a start.
LEMMA WriteStays ==
  ASSUME GroundIInv, NEW p \in Process,
         warm[p].phase \in {"blocked", "start", "next", "lock", "fetch", "failed"},
         NEW s, Write(p, s), NEW j \in Job
  PROVE  Stays(j)
<1>1. Told(warm[p].job, "queued") \/ Told(warm[p].job, "running")
  BY DEF GroundIInv, JobsTold
<1>2. j # warm[p].job => status'[j] = status[j]
  BY DEF Write, GroundIInv, GroundInv, GroundTypeOK
<1>. QED  BY <1>1, <1>2 DEF Stays, Told, Settled

\* A new job takes an id that is forgotten.
LEMMA CreateStays ==
  ASSUME GroundIInv, NEW p \in Process, NEW request, Create(p, request), NEW j \in Job
  PROVE  Stays(j)
<1>1. PICK i \in Job : Forgotten(i) /\ status' = [status EXCEPT ![i] = "queued"]
  BY DEF Create
<1>. QED  BY <1>1 DEF Stays, GroundIInv, GroundInv, GroundTypeOK

\* No other step writes over a settled row.
LEMMA SettledKept ==
  ASSUME GroundIInv, [GroundNext]_groundVars, NEW j \in Job
  PROVE  Stays(j)
<1>0. status' = status => Stays(j)
  BY DEF Stays
<1>1. ASSUME NEW p \in Process, Ask(p) \/ WarmWhenDue(p) PROVE Stays(j)
  BY <1>1, CreateStays DEF Ask, WarmWhenDue
<1>2. ASSUME NEW p \in Process, JobStep(p) PROVE Stays(j)
  <2>1. CASE Blocked(p) \/ Start(p) \/ Completes(p) \/ RecordFailed(p)
    BY <2>1, WriteStays DEF Blocked, Start, Completes, RecordFailed, In
  <2>2. CASE Acquire(p) \/ Refused(p) \/ NextAirport(p) \/ Release(p)
    BY <1>0, <2>2 DEF Acquire, Refused, NextAirport, Release, bookVars
  <2>. QED  BY <1>2, <2>1, <2>2 DEF JobStep
<1>3. ASSUME NEW p \in Process, JobFault(p) PROVE Stays(j)
  BY <1>0, <1>3
  DEF JobFault, LeaseFails, StatusFails, WriteFails, RecordFails, ReleaseFails, bookVars
<1>4. ASSUME NEW p \in Process, NEW a \in Airport,
             Read(p, a) \/ \E who \in Who : LayerStep(p, a, who)
      PROVE  Stays(j)
  BY <1>0, <1>4 DEF Read, LayerStep, TakeLock, Busy, Fetched, FetchFails, bookVars
<1>5. ASSUME NEW p \in Process, Boot(p) \/ Crash(p) PROVE Stays(j)
  BY <1>0, <1>5 DEF Boot, Crash, FailInterrupted, bookVars, Stays, Settled, Active
<1>6. ASSUME NEW i \in Job, Retire(i) PROVE Stays(j)
  BY <1>6 DEF Retire, Old, Stays, Settled, Active, GroundIInv, GroundInv, GroundTypeOK
<1>7. ASSUME NEW a \in Airport, Ages(a) PROVE Stays(j)
  BY <1>0, <1>7 DEF Ages, bookVars
<1>8. GroundTick \/ UNCHANGED groundVars => Stays(j)
  BY <1>0 DEF GroundTick, groundVars, bookVars
<1>. QED
  BY <1>1, <1>2, <1>3, <1>4, <1>5, <1>6, <1>7, <1>8 DEF GroundNext, Who

\* A settled job stays settled, whatever fails and whichever process ends or starts, but
\* for a job that a start declared interrupted while it was not.
THEOREM SettledStaysHolds == GroundSpec => SettledStays
<1>1. GroundIInv /\ [GroundNext]_groundVars =>
        [\A j \in Job :
            status[j] \in Settled /\ status'[j] # status[j] =>
              \/ j \in beside
              \/ status'[j] = "queued" /\ Forgotten(j)]_groundVars
  BY SettledKept DEF Stays
<1>. QED  BY <1>1, GroundInvariant, PTL DEF GroundSpec, SettledStays
=============================================================================
