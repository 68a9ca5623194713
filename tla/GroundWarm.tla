----------------------------- MODULE GroundWarm -----------------------------
(***************************************************************************)
(* The relay's ground layers (relay/main.py): snapshots of airports that      *)
(* readers refresh when they find them old and that warm jobs refresh in      *)
(* bulk, one job at a time under a lease in the database.                     *)
(*                                                                         *)
(* Each process has one warm thread with a queue, a task per airport that     *)
(* readers asked for, a lock per layer, and the hourly loop that starts a     *)
(* full warming when one is due.  Processes share the database only, and      *)
(* the start of any of them settles every job and takes away every lease.     *)
(* An airport's three layers are refreshed alike, one after the other, and    *)
(* are one layer here; aging stands for the clock against updated_at.         *)
(***************************************************************************)
EXTENDS Naturals, Sequences, FiniteSets

CONSTANTS
    Process,
    Airport,
    Job,          \* ids; one that nobody holds any more stands for a new one
    Lease,        \* ticks a lease lasts (3 h); nothing renews it
    WarmInterval, \* ticks between two full warmings (30 days)
    None,
    Manual,       \* what operators ask for: full manifest or not, forced or not
    MaxManual,    \* bound: jobs asked for in the console
    MaxFaults     \* bound: times the database fails a warm thread, ends of a process

Request == [full : BOOLEAN, force : BOOLEAN]

ASSUME GroundAssumption ==
    /\ IsFiniteSet(Process)
    /\ Lease \in Nat \ {0}
    /\ WarmInterval \in Nat \ {0}
    /\ Manual \subseteq Request
    /\ None \notin Job \cup Airport
    /\ MaxManual \in Nat /\ MaxFaults \in Nat

VARIABLES
    up,         \* processes that run
    status,     \* ground_warm_jobs.status
    lease,      \* ground_cache_leases: holder, ticks left; expired at 0
    dueIn,      \* ticks until next_due_at of the latest full warming
    queue,      \* jobs submitted to each process's executor, with what was asked for
    warm,       \* each process's warm thread
    task,       \* the refresh of each airport that readers asked for
    lock,       \* who holds _ground_layer_locks
    layer,      \* state of each airport's snapshot
    stores,     \* history: unforced stores since the layer was last out of date
    lost,       \* history: processes whose job lost its lease to the clock or a start
    beside,     \* history: jobs settled by the start of another process
    manual, faults

bookVars == <<status, lease, dueIn>>
layerVars == <<task, lock, layer, stores>>
historyVars == <<lost, beside>>
boundVars == <<manual, faults>>
groundVars == <<up, bookVars, queue, warm, layerVars, historyVars, boundVars>>

Active == {"queued", "running"}
Settled == {"done", "failed", "blocked"}
Idle == [phase |-> "idle", job |-> None, asked |-> None, on |-> None, todo |-> {}]
NoLease == [holder |-> None, left |-> 0]

GroundTypeOK ==
    /\ up \subseteq Process
    /\ status \in [Job -> {"none"} \cup Active \cup Settled]
    /\ lease \in [holder : Job \cup {None}, left : 0..Lease]
    /\ dueIn \in 0..WarmInterval
    /\ queue \in [Process -> Seq(Job \X Request)]
    /\ warm \in [Process ->
         [phase : {"idle", "blocked", "start", "next", "lock", "fetch", "failed",
                   "release"},
          job : Job \cup {None}, asked : Request \cup {None}, on : Airport \cup {None},
          todo : SUBSET Airport]]
    /\ task \in [Process -> [Airport -> {"idle", "lock", "fetch"}]]
    /\ lock \in [Process -> [Airport -> {"free", "warm", "task"}]]
    /\ layer \in [Airport -> {"old", "fresh"}]
    /\ stores \in [Airport -> Nat]
    /\ lost \subseteq Process
    /\ beside \subseteq Job
    /\ manual \in 0..MaxManual /\ faults \in 0..MaxFaults

GroundInit ==
    /\ up = {}
    /\ status = [j \in Job |-> "none"]
    /\ lease = NoLease
    /\ dueIn = 0
    /\ queue = [p \in Process |-> <<>>]
    /\ warm = [p \in Process |-> Idle]
    /\ task = [p \in Process |-> [a \in Airport |-> "idle"]]
    /\ lock = [p \in Process |-> [a \in Airport |-> "free"]]
    /\ layer = [a \in Airport |-> "old"]
    /\ stores = [a \in Airport |-> 0]
    /\ lost = {} /\ beside = {}
    /\ manual = 0 /\ faults = 0
-----------------------------------------------------------------------------
(* Jobs                                                                    *)

Fault == faults < MaxFaults /\ faults' = faults + 1

AnyActive == \E j \in Job : status[j] \in Active

\* A process has the job in its thread or its queue.
Carried(j) == \E p \in Process : warm[p].job = j \/ \E i \in DOMAIN queue[p] : queue[p][i][1] = j

\* Nothing refers to the job any more.
Forgotten(j) == status[j] \notin Active /\ lease.holder # j /\ ~Carried(j)

\* _create_ground_warm_job, unless one is active already.
Create(p, request) ==
    \E j \in Job :
        /\ p \in up
        /\ ~AnyActive
        /\ Forgotten(j)
        /\ status' = [status EXCEPT ![j] = "queued"]
        /\ queue' = [queue EXCEPT ![p] = Append(@, <<j, request>>)]
        /\ beside' = beside \ {j}
        /\ UNCHANGED <<up, lease, dueIn, warm, layerVars, lost, faults>>

\* admin_api_cache_warm: some airports, or the full manifest.
Ask(p) ==
    /\ manual < MaxManual /\ manual' = manual + 1
    /\ \E request \in Manual : Create(p, request)

\* _automatic_ground_warm_loop, which looks whether a warming is due and creates it at once:
\* a job that ends between the two is left out.
WarmWhenDue(p) ==
    /\ dueIn = 0
    /\ Create(p, [full |-> TRUE, force |-> FALSE])
    /\ UNCHANGED manual

Enter(p, phase) == warm' = [warm EXCEPT ![p].phase = phase]
In(p, phase) == warm[p].phase = phase
Write(p, s) == status' = [status EXCEPT ![warm[p].job] = s]

\* The executor's thread takes the next job.
Waits(p) == In(p, "idle") /\ queue[p] # <<>>
Take(p, phase) ==
    /\ warm' = [warm EXCEPT ![p] =
         [Idle EXCEPT !.phase = phase, !.job = Head(queue[p])[1], !.asked = Head(queue[p])[2]]]
    /\ queue' = [queue EXCEPT ![p] = Tail(@)]

\* Mutated: a lease whose process is gone stays.
HeldForever == lease.holder # None

\* A lease that ran out is deleted.
Held == lease.holder # None /\ lease.left > 0

\* _acquire_ground_lease.
Acquire(p) ==
    /\ Waits(p) /\ ~Held
    /\ lease' = [holder |-> Head(queue[p])[1], left |-> Lease]
    /\ lost' = (lost \ {p}) \cup {q \in Process \ {p} : warm[q].job # None /\ warm[q].job = lease.holder}
    /\ Take(p, "start")
    /\ UNCHANGED <<up, status, dueIn, layerVars, beside, boundVars>>

Refused(p) ==
    /\ Waits(p) /\ Held
    /\ Take(p, "blocked")
    /\ UNCHANGED <<up, bookVars, layerVars, historyVars, boundVars>>

\* Mutated: a job that was refused the lease goes on all the same.
BlockedGoesOn(p) ==
    /\ In(p, "blocked")
    /\ Write(p, "blocked")
    /\ Enter(p, "start")
    /\ UNCHANGED <<up, lease, dueIn, queue, layerVars, historyVars, boundVars>>

Blocked(p) ==
    /\ In(p, "blocked")
    /\ Write(p, "blocked")
    /\ warm' = [warm EXCEPT ![p] = Idle]
    /\ UNCHANGED <<up, lease, dueIn, queue, layerVars, historyVars, boundVars>>

\* The transactions before the try block: one that fails leaves the row as it is, and the
\* lease with its holder.
LeaseFails(p) ==
    /\ Waits(p)
    /\ Fault
    /\ queue' = [queue EXCEPT ![p] = Tail(@)]
    /\ UNCHANGED <<up, bookVars, warm, layerVars, lost, beside, manual>>

StatusFails(p) ==
    /\ In(p, "blocked") \/ In(p, "start")
    /\ Fault
    /\ warm' = [warm EXCEPT ![p] = Idle]
    /\ lost' = lost \ {p}
    /\ UNCHANGED <<up, bookVars, queue, layerVars, beside, manual>>

Start(p) ==
    /\ In(p, "start")
    /\ Write(p, "running")
    /\ warm' = [warm EXCEPT ![p].phase = "next", ![p].todo = Airport]
    /\ UNCHANGED <<up, lease, dueIn, queue, layerVars, historyVars, boundVars>>

\* Recording the end: completed, or partial when an airport failed.
Completes(p) ==
    /\ In(p, "next") /\ warm[p].todo = {}
    /\ Write(p, "done")
    /\ dueIn' = IF warm[p].asked.full THEN WarmInterval ELSE dueIn
    /\ Enter(p, "release")
    /\ UNCHANGED <<up, lease, queue, layerVars, historyVars, boundVars>>

\* The result of an airport, or the end of the job, cannot be recorded.
WriteFails(p) ==
    /\ In(p, "next") /\ warm[p].todo # Airport
    /\ Fault
    /\ Enter(p, "failed")
    /\ UNCHANGED <<up, bookVars, queue, layerVars, historyVars, manual>>

\* The except branch.
RecordFailed(p) ==
    /\ In(p, "failed")
    /\ Write(p, "failed")
    /\ Enter(p, "release")
    /\ UNCHANGED <<up, lease, dueIn, queue, layerVars, historyVars, boundVars>>

\* The database that failed the last write fails this one too.
RecordFails(p) ==
    /\ In(p, "failed")
    /\ Enter(p, "release")
    /\ UNCHANGED <<up, bookVars, queue, layerVars, historyVars, boundVars>>

\* Mutated: whatever lease there is goes.
ReleasedAny(p) == NoLease

\* DELETE ... WHERE holder = job.
Released(p) == IF lease.holder = warm[p].job THEN NoLease ELSE lease

Release(p) ==
    /\ In(p, "release")
    /\ lease' = Released(p)
    /\ lost' = lost \ {p}
    /\ warm' = [warm EXCEPT ![p] = Idle]
    /\ UNCHANGED <<up, status, dueIn, queue, layerVars, beside, boundVars>>

ReleaseFails(p) ==
    /\ In(p, "release")
    /\ Fault
    /\ lost' = lost \ {p}
    /\ warm' = [warm EXCEPT ![p] = Idle]
    /\ UNCHANGED <<up, bookVars, queue, layerVars, beside, manual>>
-----------------------------------------------------------------------------
(* Layers: _refresh_ground_layer in the warm thread and in readers' tasks.   *)

\* _airport_ground_payload finds the layer old and no task of this process at it.
Read(p, a) ==
    /\ p \in up
    /\ layer[a] = "old" /\ task[p][a] = "idle"
    /\ task' = [task EXCEPT ![p][a] = "lock"]
    /\ UNCHANGED <<up, bookVars, queue, warm, lock, layer, stores, historyVars, boundVars>>

\* Where a refresh of either kind is, and what moves it on.
AtLayer(p, a, who, phase) ==
    IF who = "task" THEN task[p][a] = phase ELSE In(p, phase) /\ warm[p].on = a

GoesOn(p, a, who) ==
    IF who = "task"
    THEN task' = [task EXCEPT ![p][a] = "fetch"] /\ UNCHANGED warm
    ELSE Enter(p, "fetch") /\ UNCHANGED task

Ends(p, a, who) ==
    IF who = "task"
    THEN task' = [task EXCEPT ![p][a] = "idle"] /\ UNCHANGED warm
    ELSE /\ warm' = [warm EXCEPT ![p].phase = "next", ![p].on = None]
         /\ UNCHANGED task

Forced(p, who) == who = "warm" /\ warm[p].asked.force

UpToDate(p, a, who) == ~Forced(p, who) /\ layer[a] = "fresh"

\* The job's next airport, whose layer may be found fresh.
NextAirport(p) ==
    /\ In(p, "next")
    /\ \E a \in warm[p].todo :
         warm' = IF UpToDate(p, a, "warm")
                 THEN [warm EXCEPT ![p].todo = @ \ {a}]
                 ELSE [warm EXCEPT ![p].phase = "lock", ![p].on = a, ![p].todo = @ \ {a}]
    /\ UNCHANGED <<up, bookVars, queue, layerVars, historyVars, boundVars>>

\* The layer is looked at again under the lock.
DoneMeanwhile(p, a, who) == UpToDate(p, a, who)

TakeLock(p, a, who) ==
    /\ AtLayer(p, a, who, "lock")
    /\ lock[p][a] = "free"
    /\ IF DoneMeanwhile(p, a, who)
       THEN Ends(p, a, who) /\ UNCHANGED lock
       ELSE GoesOn(p, a, who) /\ lock' = [lock EXCEPT ![p][a] = who]
    /\ UNCHANGED <<up, bookVars, queue, layer, stores, historyVars, boundVars>>

\* The wait for the lock times out ("busy").
Busy(p, a, who) ==
    /\ AtLayer(p, a, who, "lock")
    /\ lock[p][a] # "free"
    /\ Ends(p, a, who)
    /\ UNCHANGED <<up, bookVars, queue, lock, layer, stores, historyVars, boundVars>>

Fetched(p, a, who) ==
    /\ AtLayer(p, a, who, "fetch")
    /\ layer' = [layer EXCEPT ![a] = "fresh"]
    /\ stores' = IF Forced(p, who) THEN stores ELSE [stores EXCEPT ![a] = @ + 1]
    /\ Ends(p, a, who)
    /\ lock' = [lock EXCEPT ![p][a] = "free"]
    /\ UNCHANGED <<up, bookVars, queue, historyVars, boundVars>>

\* The provider fails, or the store does: the last copy stays.
FetchFails(p, a, who) ==
    /\ AtLayer(p, a, who, "fetch")
    /\ Ends(p, a, who)
    /\ lock' = [lock EXCEPT ![p][a] = "free"]
    /\ UNCHANGED <<up, bookVars, queue, layer, stores, historyVars, boundVars>>

\* _ground_layer_state as time goes by; whether an old copy may still be shown makes no
\* difference to its refresh.
Ages(a) ==
    /\ layer[a] = "fresh"
    /\ layer' = [layer EXCEPT ![a] = "old"]
    /\ stores' = [stores EXCEPT ![a] = 0]
    /\ UNCHANGED <<up, bookVars, queue, warm, task, lock, historyVars, boundVars>>
-----------------------------------------------------------------------------
(* Processes and the clock                                                 *)

GroundTick ==
    /\ lease' = [lease EXCEPT !.left = IF @ > 0 THEN @ - 1 ELSE 0]
    /\ dueIn' = IF dueIn > 0 THEN dueIn - 1 ELSE 0
    /\ UNCHANGED <<up, status, queue, warm, layerVars, historyVars, boundVars>>

\* Mutated: a job that was never settled is kept.
OldSettled(j) == status[j] \in Settled /\ ~Carried(j)

\* _run_retention_maintenance deletes jobs 90 days old.  Those nobody works at any more are,
\* in the end; a settled one is no loss, its next full warming being due long since.
Old(j) == status[j] \in Active /\ ~Carried(j)

Retire(j) ==
    /\ up # {}
    /\ Old(j)
    /\ status' = [status EXCEPT ![j] = "none"]
    /\ UNCHANGED <<up, lease, dueIn, queue, warm, layerVars, historyVars, boundVars>>

\* _ensure_schema: what was queued or running was interrupted.
FailInterrupted ==
    status' = [j \in Job |-> IF status[j] \in Active THEN "failed" ELSE status[j]]

Boot(p) ==
    /\ p \notin up
    /\ up' = up \cup {p}
    /\ FailInterrupted
    /\ lease' = NoLease
    /\ lost' = lost \cup {q \in Process : warm[q].job # None /\ warm[q].job = lease.holder}
    /\ beside' = beside \cup {j \in Job : status[j] \in Active /\ Carried(j)}
    /\ UNCHANGED <<dueIn, queue, warm, layerVars, boundVars>>

Crash(p) ==
    /\ p \in up
    /\ Fault
    /\ up' = up \ {p}
    /\ queue' = [queue EXCEPT ![p] = <<>>]
    /\ warm' = [warm EXCEPT ![p] = Idle]
    /\ task' = [task EXCEPT ![p] = [a \in Airport |-> "idle"]]
    /\ lock' = [lock EXCEPT ![p] = [a \in Airport |-> "free"]]
    /\ lost' = lost \ {p}
    /\ UNCHANGED <<bookVars, layer, stores, beside, manual>>
-----------------------------------------------------------------------------
JobStep(p) ==
    Acquire(p) \/ Refused(p) \/ Blocked(p) \/ Start(p) \/ NextAirport(p)
    \/ Completes(p) \/ RecordFailed(p) \/ Release(p)

JobFault(p) == LeaseFails(p) \/ StatusFails(p) \/ WriteFails(p) \/ RecordFails(p) \/ ReleaseFails(p)

LayerStep(p, a, who) ==
    TakeLock(p, a, who) \/ Busy(p, a, who) \/ Fetched(p, a, who) \/ FetchFails(p, a, who)

WarmStep(p) == JobStep(p) \/ \E a \in Airport : LayerStep(p, a, "warm")

GroundNext ==
    \/ \E p \in Process :
         \/ Ask(p) \/ WarmWhenDue(p) \/ JobStep(p) \/ JobFault(p) \/ Boot(p) \/ Crash(p)
         \/ \E a \in Airport :
              \/ Read(p, a)
              \/ \E who \in {"warm", "task"} : LayerStep(p, a, who)
    \/ \E a \in Airport : Ages(a)
    \/ \E j \in Job : Retire(j)
    \/ GroundTick

GroundSpec == GroundInit /\ [][GroundNext]_groundVars

\* Time passes, the warm thread goes on (a fetch ends, and so does the wait for a lock), the
\* hourly loop and the daily retention come round, and a process that ended is started
\* again.  Readers need not come, nor their tasks end.
GroundFairSpec ==
    /\ GroundSpec
    /\ WF_groundVars(GroundTick)
    /\ \A j \in Job : WF_groundVars(Retire(j))
    /\ \A p \in Process : /\ WF_groundVars(WarmStep(p))
                        /\ WF_groundVars(Boot(p) \/ WarmWhenDue(p))
-----------------------------------------------------------------------------
(* Properties                                                              *)

\* A warm thread between its lease and its release.
Working(p) == warm[p].phase \notin {"idle", "blocked"}

\* A job at work holds the lease, so that no other one works, unless the clock or the
\* start of another process took the lease from it.
HoldsLease == \A p \in Process : Working(p) => lease.holder = warm[p].job \/ p \in lost

\* However many threads find a layer old, each process stores it once, forced warming
\* aside, before it is old again.
StoredOnce == \A a \in Airport : stores[a] <= Cardinality(Process)

\* One job is active at most, whatever fails.
OneActive ==
    \A i, j \in Job :
        status[i] \in Active /\ status[j] \in Active => i = j \/ i \in beside \/ j \in beside

GroundInv ==
    /\ GroundTypeOK
    /\ HoldsLease
    /\ StoredOnce
    /\ OneActive

\* What is settled stays so: only a job that the start of another process declared
\* interrupted while it was not can go on and write over that.
SettledStays ==
    [][\A j \in Job :
          status[j] \in Settled /\ status'[j] # status[j] =>
            \/ j \in beside
            \/ status'[j] = "queued" /\ Forgotten(j)]_groundVars

\* A job that was queued comes to rest, whichever of its writes fails and whichever
\* process ends: another start, or the retention, settles what its thread did not.
JobEnds == \A j \in Job : status[j] \in Active ~> status[j] \notin Active

\* Full warming goes on for ever, whatever lease or job was left behind by a process or a
\* thread that ended.
WarmsAgain == []<>(\E p \in Process : Working(p) /\ warm[p].asked.full)
=============================================================================
