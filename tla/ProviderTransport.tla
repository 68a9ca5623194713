-------------------------- MODULE ProviderTransport --------------------------
(***************************************************************************)
(* How the relay's workers share one schedule provider: the pacing row in    *)
(* schedule_provider_transport (relay/schedule_transport.py), the usage       *)
(* counters and the circuit breaker (relay/main.py).                         *)
(*                                                                         *)
(* An operation fetches some pages, each with a slot of its own and all with *)
(* the same few retries.  Every database call is a transaction of its own,    *)
(* the workers interleave between them, and a sleeper may wake late.          *)
(* Stored times are kept as the ticks left until them.  A rotated credential  *)
(* has a row of its own, so one credential is one instance of this module.    *)
(***************************************************************************)
EXTENDS Integers, FiniteSets

CONSTANTS
    Worker,       \* threads that fetch
    Interval,     \* ticks between two slots
    MaxDelay,     \* ticks a request may wait for its slot (25 s)
    MaxRetries,   \* retries of an operation (2)
    MaxPages,     \* bound: pages of an operation
    Limit,        \* requests in a period
    Share,        \* of these, requests to enrich a board (limit // 5)
    Threshold,    \* failures in a row that open the breaker (3)
    Cooldown,     \* ticks it stays open
    RetryAfter,   \* ticks a provider may ask to wait
    MaxMoods      \* bound: changes of the provider's condition

ASSUME TransportAssumption ==
    /\ Interval \in Nat \ {0}
    /\ MaxDelay \in Nat
    /\ MaxRetries \in Nat
    /\ MaxPages \in Nat \ {0}
    /\ Limit \in Nat /\ Share \in Nat
    /\ Threshold \in Nat \ {0}
    /\ Cooldown \in Nat
    /\ RetryAfter \subseteq Nat \ {0}
    /\ MaxMoods \in Nat

VARIABLES
    next, blocked, paused,   \* the row: next_at, blocked_until, paused
    used, shared,            \* the counters of this period
    failures, open,          \* the breaker: failure_count, ticks until opened_until
    at,                      \* where each worker is
    sleep,                   \* ticks until its slot
    pages, retries, rich,    \* its operation: pages left, retries made, enrichment
    credit,                  \* history: units it reserved and has not spent
    flight,                  \* history: requests under way when the row was last deferred
    mood, moods              \* the provider's condition

rowVars == <<next, blocked, paused, flight>>
budgetVars == <<used, shared>>
breakerVars == <<failures, open>>
workerVars == <<at, sleep, pages, retries, rich, credit>>
providerVars == <<mood, moods>>
vars == <<rowVars, budgetVars, breakerVars, workerVars, providerVars>>

Step == {"idle", "start", "closed", "available", "slot", "sleep", "request", "backoff",
         "failed", "served"}

TypeOK ==
    /\ next \in Nat
    /\ blocked \in Nat
    /\ paused \in BOOLEAN
    /\ used \in 0..Limit
    /\ shared \in 0..Share
    /\ failures \in Nat
    /\ open \in 0..Cooldown
    /\ at \in [Worker -> Step]
    /\ sleep \in [Worker -> 0..MaxDelay]
    /\ pages \in [Worker -> 0..MaxPages]
    /\ retries \in [Worker -> 0..MaxRetries]
    /\ rich \in [Worker -> BOOLEAN]
    /\ credit \in [Worker -> 0..1]
    /\ flight \subseteq Worker
    /\ mood \in {"well", "failing", "limiting", "rejecting"}
    /\ moods \in 0..MaxMoods

Init ==
    /\ next = 0 /\ blocked = 0 /\ paused = FALSE
    /\ used = 0 /\ shared = 0
    /\ failures = 0 /\ open = 0
    /\ at = [w \in Worker |-> "idle"]
    /\ sleep = [w \in Worker |-> 0]
    /\ pages = [w \in Worker |-> 0]
    /\ retries = [w \in Worker |-> 0]
    /\ rich = [w \in Worker |-> FALSE]
    /\ credit = [w \in Worker |-> 0]
    /\ flight = {}
    /\ mood = "well"
    /\ moods = 0

Go(w, step) == at' = [at EXCEPT ![w] = step]
-----------------------------------------------------------------------------
(* Admission, _aviationstack_upstream_payload.                              *)

\* A new operation and its transport.
Begin(w) ==
    /\ at[w] = "idle"
    /\ Go(w, "start")
    /\ \E n \in 1..MaxPages : pages' = [pages EXCEPT ![w] = n]
    /\ \E e \in BOOLEAN : rich' = [rich EXCEPT ![w] = e]
    /\ retries' = [retries EXCEPT ![w] = 0]
    /\ UNCHANGED <<rowVars, budgetVars, breakerVars, sleep, credit, providerVars>>

\* The operation ends here, and its worker takes up the next.
Over(w) ==
    /\ Go(w, "idle")
    /\ pages' = [pages EXCEPT ![w] = 0]
    /\ retries' = [retries EXCEPT ![w] = 0]
    /\ rich' = [rich EXCEPT ![w] = FALSE]
    /\ credit' = [credit EXCEPT ![w] = 0]
    /\ UNCHANGED sleep

StepOn(w, step) == Go(w, step) /\ UNCHANGED <<sleep, pages, retries, rich, credit>>

\* Mutated: the breaker stays open until something succeeds.
ClosedAgain == failures < Threshold

\* _provider_circuit_raise_if_open.
Closed == open = 0

CheckCircuit(w) ==
    /\ at[w] = "start"
    /\ IF Closed THEN StepOn(w, "closed") ELSE Over(w)
    /\ UNCHANGED <<rowVars, budgetVars, breakerVars, providerVars>>

\* check_available.
Available == ~paused /\ next <= MaxDelay

CheckAvailable(w) ==
    /\ at[w] = "closed"
    /\ IF Available THEN StepOn(w, "available") ELSE Over(w)
    /\ UNCHANGED <<rowVars, budgetVars, breakerVars, providerVars>>

\* _reserve_aviationstack_request: all counters, or none.
Affordable(w) == used < Limit /\ (rich[w] => shared < Share)

Pay(w) ==
    /\ Affordable(w)
    /\ used' = used + 1
    /\ shared' = IF rich[w] THEN shared + 1 ELSE shared
    /\ credit' = [credit EXCEPT ![w] = @ + 1]

Reserve(w) ==
    /\ at[w] = "available"
    /\ \/ Pay(w) /\ Go(w, "slot") /\ UNCHANGED <<sleep, pages, retries, rich>>
       \/ ~Affordable(w) /\ Over(w) /\ UNCHANGED budgetVars
    /\ UNCHANGED <<rowVars, breakerVars, providerVars>>
-----------------------------------------------------------------------------
(* ProviderTransport.get.                                                   *)

\* next_at after a slot n ticks ahead was reserved.
Following(n) == n + Interval

\* The first transaction of _slot.
Slot(w) ==
    /\ at[w] = "slot"
    /\ IF Available
       THEN /\ next' = Following(next)
            /\ sleep' = [sleep EXCEPT ![w] = next]
            /\ Go(w, "sleep")
            /\ UNCHANGED <<pages, retries, rich, credit>>
       ELSE StepOn(w, "failed") /\ UNCHANGED next
    /\ UNCHANGED <<blocked, paused, flight, budgetVars, breakerVars, providerVars>>

\* Mutated: what happened while it slept is not looked at.
StillWelcome == ~paused

\* The second, after the wait.
Welcome == ~paused /\ blocked = 0

Recheck(w) ==
    /\ at[w] = "sleep"
    /\ sleep[w] = 0
    /\ IF Welcome THEN /\ Go(w, "request")
                       /\ credit' = [credit EXCEPT ![w] = @ - 1]
                       /\ UNCHANGED <<sleep, pages, retries, rich>>
       ELSE StepOn(w, "failed")
    /\ UNCHANGED <<rowVars, budgetVars, breakerVars, providerVars>>

Larger(a, b) == IF a >= b THEN a ELSE b

\* _defer.
Defer(w, ticks, rejected) ==
    /\ next' = Larger(next, ticks)
    /\ blocked' = Larger(blocked, ticks)
    /\ paused' = (paused \/ rejected)
    /\ flight' = {v \in Worker \ {w} : at[v] = "request"}

Answered(w) ==
    /\ at[w] = "request"
    /\ mood = "well"
    /\ StepOn(w, "served")
    /\ UNCHANGED <<rowVars, budgetVars, breakerVars, providerVars>>

RateLimited(w) ==
    /\ at[w] = "request"
    /\ mood = "limiting"
    /\ \E t \in RetryAfter : Defer(w, t, FALSE)
    /\ StepOn(w, "failed")
    /\ UNCHANGED <<budgetVars, breakerVars, providerVars>>

Rejected(w) ==
    /\ at[w] = "request"
    /\ mood = "rejecting"
    /\ Defer(w, 0, TRUE)
    /\ StepOn(w, "failed")
    /\ UNCHANGED <<budgetVars, breakerVars, providerVars>>

\* The request raises, or the provider answers with a server error.
GoesWrong(w) ==
    /\ at[w] = "request"
    /\ mood = "failing"
    /\ IF retries[w] >= MaxRetries THEN StepOn(w, "failed")
       ELSE /\ retries' = [retries EXCEPT ![w] = @ + 1]
            /\ Go(w, "backoff")
            /\ UNCHANGED <<sleep, pages, rich, credit>>
    /\ UNCHANGED <<rowVars, budgetVars, breakerVars, providerVars>>

\* An answer that is not served: another status, or not what was asked for.
Unusable(w) ==
    /\ at[w] = "request"
    /\ mood = "failing"
    /\ StepOn(w, "failed")
    /\ UNCHANGED <<rowVars, budgetVars, breakerVars, providerVars>>

\* reserve_retry, and a jittered sleep.
ReserveRetry(w) ==
    /\ at[w] = "backoff"
    /\ \/ Pay(w) /\ Go(w, "slot") /\ UNCHANGED <<sleep, pages, retries, rich>>
       \/ ~Affordable(w) /\ StepOn(w, "failed") /\ UNCHANGED budgetVars
    /\ UNCHANGED <<rowVars, breakerVars, providerVars>>
-----------------------------------------------------------------------------
(* The breaker.                                                             *)

RecordSuccess(w) ==
    /\ at[w] = "served"
    /\ failures' = 0
    /\ open' = 0
    /\ IF pages[w] > 1 THEN /\ Go(w, "start")
                            /\ pages' = [pages EXCEPT ![w] = @ - 1]
                            /\ UNCHANGED <<sleep, retries, rich, credit>>
                       ELSE Over(w)
    /\ UNCHANGED <<rowVars, budgetVars, providerVars>>

Smaller(a, b) == IF a <= b THEN a ELSE b

\* failure_count, kept up to the threshold, beyond which it tells nothing.
RecordFailure(w) ==
    /\ at[w] = "failed"
    /\ failures' = Smaller(failures + 1, Threshold)
    /\ open' = IF failures + 1 >= Threshold THEN Cooldown ELSE 0
    /\ Over(w)
    /\ UNCHANGED <<rowVars, budgetVars, providerVars>>
-----------------------------------------------------------------------------
Down(n) == IF n > 0 THEN n - 1 ELSE 0

Tick ==
    /\ next' = Down(next)
    /\ blocked' = Down(blocked)
    /\ open' = Down(open)
    /\ sleep' = [w \in Worker |-> Down(sleep[w])]
    /\ UNCHANGED <<paused, flight, budgetVars, failures, at, pages, retries, rich, credit,
                   providerVars>>

\* A new day, or a new month.
NewPeriod ==
    /\ used' = 0
    /\ shared' = 0
    /\ UNCHANGED <<rowVars, breakerVars, workerVars, providerVars>>

ChangeMood(m) ==
    /\ moods < MaxMoods
    /\ m # mood
    /\ mood' = m
    /\ moods' = moods + 1
    /\ UNCHANGED <<rowVars, budgetVars, breakerVars, workerVars>>

Response(w) ==
    Answered(w) \/ RateLimited(w) \/ Rejected(w) \/ GoesWrong(w) \/ Unusable(w)

WorkerStep(w) ==
    \/ Begin(w) \/ CheckCircuit(w) \/ CheckAvailable(w) \/ Reserve(w)
    \/ Slot(w) \/ Recheck(w) \/ Response(w) \/ ReserveRetry(w)
    \/ RecordSuccess(w) \/ RecordFailure(w)

Next ==
    \/ \E w \in Worker : WorkerStep(w)
    \/ Tick
    \/ NewPeriod
    \/ \E m \in {"well", "failing", "limiting", "rejecting"} : ChangeMood(m)

Spec == Init /\ [][Next]_vars

\* Workers go on, their calls have timeouts, and time passes.
FairSpec ==
    /\ Spec
    /\ WF_vars(Tick)
    /\ WF_vars(NewPeriod)
    /\ \A w \in Worker : WF_vars(WorkerStep(w))
-----------------------------------------------------------------------------
(* Properties.                                                              *)

Waiting == {w \in Worker : at[w] = "sleep" /\ sleep[w] > 0}

\* Slots are an interval apart, and next_at is beyond all of them.
SlotsApart ==
    /\ \A v, w \in Waiting :
          v # w => sleep[v] + Interval <= sleep[w] \/ sleep[w] + Interval <= sleep[v]
    /\ \A w \in Waiting : sleep[w] + Interval <= next

\* Every request on its way to the provider, retries too, is paid for.
PaidAhead ==
    \A w \in Worker :
        credit[w] = 1 => at[w] \in {"slot", "sleep", "failed"}

PaidFor == \A w \in Worker : at[w] \in {"slot", "sleep"} => credit[w] = 1

\* A block also holds back the slots.
BlockedInNext == blocked <= next

\* However many workers come at once, no more wait than the longest delay has slots.
WaitersBounded == (Cardinality(Waiting) - 1) * Interval < MaxDelay

\* After the provider asked for a pause or rejected the credential, the only requests
\* under way are those that already were.
StoppedForAll ==
    blocked > 0 \/ paused => {w \in Worker : at[w] = "request"} \subseteq flight

\* The invariants of the transport together.
TransportInv ==
    /\ TypeOK
    /\ SlotsApart
    /\ PaidAhead
    /\ PaidFor
    /\ BlockedInNext
    /\ WaitersBounded
    /\ StoppedForAll

\* When the provider is well again and the credential was not rejected, boards are
\* fetched again: neither the breaker nor the pacing nor the budget keeps them out.
ServedAgain ==
    <>[](mood = "well") /\ []~paused => []<>(\E w \in Worker : at[w] = "served")
=============================================================================
