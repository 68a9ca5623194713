-------------------------- MODULE SchedulerControl --------------------------
(***************************************************************************)
(* The desktop's refresh scheduler: scheduler/control.py starts, stops and  *)
(* restarts the one thread that runs scheduler/runtime.py's run_loop, and   *)
(* the loop records each cycle in state.json.  Callers (a settings save, a   *)
(* profile load, the restart button) run in the web server's own threads;   *)
(* the first thread is started by __main__ or by its setup watcher.          *)
(*                                                                         *)
(* A thread identity is a thread object together with its stop event: the    *)
(* code replaces the pair _thread, _stop_event in one critical section.      *)
(* Time is counted in ticks.  Whatever a thread does over the network or on  *)
(* disk may take any number of them: the link check of its start, a fetch,   *)
(* the link repair after a failed one, the record, the report of a failure.  *)
(* Only its look at the stop event, the end of its sleep by that event and   *)
(* its last step are prompt, and a caller past its join: no tick passes      *)
(* while one of those is pending.                                           *)
(***************************************************************************)
EXTENDS Integers, FiniteSets

CONSTANTS Caller,       \* requests served at once by the web server
          Thread,       \* identities of scheduler threads
          NoThread,     \* _thread is None
          Join,         \* restart_scheduler's join timeout, in ticks
          Coalesce,     \* _RESTART_COALESCE_S, in ticks
          Cooldown,     \* _RESTART_COOLDOWN_S of the restart button, in ticks
          MaxConfig,    \* bound: configurations saved
          MaxFaults     \* bound: failed disk writes and relaunches of the app

ASSUME SchedulerAssumption ==
    /\ NoThread \notin Thread
    /\ Join \in Nat \ {0}
    /\ Coalesce \in Nat
    /\ Join < Coalesce
    /\ Cooldown \in Nat
    /\ MaxConfig \in Nat \ {0}
    /\ MaxFaults \in Nat

VARIABLES
    thread,         \* control._thread (and, through it, control._stop_event)
    stop,           \* threads whose stop event is set
    pc,             \* where each thread is in _run_scheduler
    cycle,          \* the configuration each thread's latest cycle loaded, or 0:
                    \* none yet, or the default one of a file cut short
    previous,       \* the last success its latest cycle read from state.json
    outcome,        \* what its fetch brought: nothing, a board, or a managed board
                    \* that does not say when it was fetched
    config,         \* versions of config.json written; the last one is on file
    cut,            \* the process ended while config.json was being written
    state,          \* last_success in state.json, or Blank when the file is cut short
    sinceRestart,   \* ticks since _last_restart_request_monotonic, up to Coalesce
    cooling,        \* ticks until last_attempt_utc no longer refuses the restart button
    call,           \* what each caller is doing
    old,            \* restart_scheduler's old_thread
    left,           \* ticks left of its join
    busy,           \* history: that thread was starting up or in a cycle when told to stop
    asked,          \* history: the configuration in force when it called
    booted,         \* __main__ has made its one start_scheduler_thread call
    lastSuccess,    \* history: the last success written down, 0 for none
    forgotten,      \* history: a record was cut short and no success followed
    faults          \* failed writes and relaunches so far

threadVars == <<pc, cycle, previous, outcome>>
controlVars == <<thread, stop, sinceRestart, booted>>
fileVars == <<state, cooling, lastSuccess, forgotten>>
callVars == <<call, old, left, busy, asked>>
vars == <<threadVars, controlVars, fileVars, callVars, config, cut, faults>>

Blank == 0      \* what load_state returns for a file it cannot parse
Outcome == {"failed", "dated", "undated"}

Phase == {"gone", "linking", "top", "fetching", "repairing", "writing", "reporting",
          "waiting", "exiting"}

Alive(t) == pc[t] # "gone"
Running == thread # NoThread
Working(t) == pc[t] \notin {"gone", "exiting"}
Waiting(c) == call[c] \in {"joining", "starting"}

TypeOK ==
    /\ thread \in Thread \cup {NoThread}
    /\ stop \in SUBSET Thread
    /\ pc \in [Thread -> Phase]
    /\ cycle \in [Thread -> 0..MaxConfig]
    /\ previous \in [Thread -> 0..MaxConfig]
    /\ outcome \in [Thread -> Outcome]
    /\ cut \in BOOLEAN
    /\ config \in 1..MaxConfig
    /\ state \in 0..MaxConfig
    /\ sinceRestart \in 0..Coalesce
    /\ cooling \in 0..Cooldown
    /\ call \in [Caller -> {"idle", "saving", "calling", "joining", "starting"}]
    /\ old \in [Caller -> Thread \cup {NoThread}]
    /\ left \in [Caller -> 0..Join]
    /\ busy \in [Caller -> BOOLEAN]
    /\ asked \in [Caller -> 0..MaxConfig]
    /\ booted \in BOOLEAN
    /\ lastSuccess \in 0..MaxConfig
    /\ forgotten \in BOOLEAN
    /\ faults \in 0..MaxFaults

Init ==
    /\ thread = NoThread
    /\ stop = {}
    /\ pc = [t \in Thread |-> "gone"]
    /\ cycle = [t \in Thread |-> 0]
    /\ previous = [t \in Thread |-> 0]
    /\ outcome = [t \in Thread |-> "failed"]
    /\ config = 1
    /\ cut = FALSE
    /\ state = Blank
    /\ sinceRestart = Coalesce
    /\ cooling = 0
    /\ call = [c \in Caller |-> "idle"]
    /\ old = [c \in Caller |-> NoThread]
    /\ left = [c \in Caller |-> 0]
    /\ busy = [c \in Caller |-> FALSE]
    /\ asked = [c \in Caller |-> 0]
    /\ booted = FALSE
    /\ lastSuccess = 0
    /\ forgotten = FALSE
    /\ faults = 0
-----------------------------------------------------------------------------
(* Starting a thread: start_scheduler_thread, one critical section.          *)

\* A thread object nobody holds any more.
Fresh(t) == pc[t] = "gone" /\ \A c \in Caller : old[c] # t

StartThread ==
    IF Running /\ Alive(thread)
    THEN UNCHANGED <<thread, stop, threadVars>>
    ELSE \E t \in Thread :
            /\ Fresh(t)
            /\ thread' = t
            /\ pc' = [pc EXCEPT ![t] = "linking"]
            /\ UNCHANGED <<stop, cycle, previous, outcome>>

\* __main__ at launch, or its setup watcher once setup is complete.
Boot ==
    /\ ~booted
    /\ booted' = TRUE
    /\ StartThread
    /\ UNCHANGED <<sinceRestart, fileVars, callVars, config, cut, faults>>
-----------------------------------------------------------------------------
(* The thread: _run_scheduler around run_loop.                               *)

\* _ensure_community_relay_link is done, and run_loop begins.
Linked(t) ==
    /\ pc[t] = "linking"
    /\ pc' = [pc EXCEPT ![t] = "top"]
    /\ UNCHANGED <<cycle, previous, outcome, controlVars, fileVars, callVars, config, cut, faults>>

\* The stop event is looked at before each cycle, and ends the loop's sleep.
Stops(t) ==
    /\ pc[t] \in {"top", "waiting"}
    /\ t \in stop
    /\ pc' = [pc EXCEPT ![t] = "exiting"]
    /\ UNCHANGED <<cycle, previous, outcome, controlVars, fileVars, callVars, config, cut, faults>>

\* load_config: a file that is being rewritten, or was cut short, cannot be parsed
\* and yields the default configuration.
Loaded == IF cut \/ (\E c \in Caller : call[c] = "saving") THEN 0 ELSE config

CycleStarts(t) ==
    /\ pc[t] = "top"
    /\ t \notin stop
    /\ pc' = [pc EXCEPT ![t] = "fetching"]
    /\ cycle' = [cycle EXCEPT ![t] = Loaded]
    /\ previous' = [previous EXCEPT ![t] = state]
    /\ UNCHANGED <<outcome, controlVars, fileVars, callVars, config, cut, faults>>

\* The fetch brings a board, and save_state opens state.json, which truncates it.
FetchEnds(t, o) ==
    /\ pc[t] = "fetching"
    /\ pc' = [pc EXCEPT ![t] = "writing"]
    /\ outcome' = [outcome EXCEPT ![t] = o]
    /\ state' = Blank
    /\ UNCHANGED <<cycle, previous, cooling, lastSuccess, forgotten,
                   controlVars, callVars, config, cut, faults>>

\* The fetch raises: the handler first tries to repair the relay link.
FetchFails(t) ==
    /\ pc[t] = "fetching"
    /\ pc' = [pc EXCEPT ![t] = "repairing"]
    /\ outcome' = [outcome EXCEPT ![t] = "failed"]
    /\ UNCHANGED <<cycle, previous, controlVars, fileVars, callVars, config, cut, faults>>

\* _repair_relay_link_if_needed is done, and save_state opens state.json.
Repaired(t) ==
    /\ pc[t] = "repairing"
    /\ pc' = [pc EXCEPT ![t] = "writing"]
    /\ state' = Blank
    /\ UNCHANGED <<cycle, previous, outcome, cooling, lastSuccess, forgotten,
                   controlVars, callVars, config, cut, faults>>

\* save_state finishes.  The record of a failure carries the success that was
\* on file when the cycle began.
Recorded(t) ==
    CASE outcome[t] = "dated"   -> cycle[t]
      [] outcome[t] = "undated" -> Blank
      [] outcome[t] = "failed"  -> previous[t]

Saved(t) ==
    /\ pc[t] = "writing"
    /\ pc' = [pc EXCEPT ![t] = IF outcome[t] = "failed" THEN "reporting" ELSE "waiting"]
    /\ state' = Recorded(t)
    /\ lastSuccess' = IF outcome[t] = "failed" THEN lastSuccess ELSE Recorded(t)
    /\ forgotten' = (forgotten /\ outcome[t] = "failed")
    /\ cooling' \in 0..Cooldown
    /\ previous' = [previous EXCEPT ![t] = 0]
    /\ outcome' = [outcome EXCEPT ![t] = "failed"]
    /\ UNCHANGED <<cycle, controlVars, callVars, config, cut, faults>>

\* save_state raises.  For a success the handler records a failure instead, with
\* no link to repair; from the handler itself the exception ends the thread.
SaveFails(t) ==
    /\ pc[t] = "writing"
    /\ faults < MaxFaults
    /\ faults' = faults + 1
    /\ \/ /\ outcome[t] # "failed"
          /\ outcome' = [outcome EXCEPT ![t] = "failed"]
          /\ UNCHANGED <<pc, forgotten>>
       \/ /\ outcome[t] = "failed"
          /\ pc' = [pc EXCEPT ![t] = "exiting"]
          /\ forgotten' = TRUE
          /\ UNCHANGED outcome
    /\ UNCHANGED <<cycle, previous, state, cooling, lastSuccess,
                   controlVars, callVars, config, cut>>

\* The failure has been reported, by file_error and submit_crash, or could not be.
Reported(t) ==
    /\ pc[t] = "reporting"
    /\ pc' = [pc EXCEPT ![t] = "waiting"]
    /\ UNCHANGED <<cycle, previous, outcome, controlVars, fileVars, callVars, config, cut, faults>>

\* The sleep runs out.
Wakes(t) ==
    /\ pc[t] = "waiting"
    /\ pc' = [pc EXCEPT ![t] = "top"]
    /\ UNCHANGED <<cycle, previous, outcome, controlVars, fileVars, callVars, config, cut, faults>>

\* _run_scheduler's finally.  It needs control._lock, which no caller keeps
\* across a step of this model.  What only this thread used is let go with it.
Cleanup(t) ==
    /\ pc[t] = "exiting"
    /\ pc' = [pc EXCEPT ![t] = "gone"]
    /\ thread' = IF thread = t THEN NoThread ELSE thread
    /\ stop' = stop \ {t}
    /\ cycle' = [cycle EXCEPT ![t] = 0]
    /\ previous' = [previous EXCEPT ![t] = 0]
    /\ UNCHANGED <<outcome, sinceRestart, booted, fileVars, callVars, config, cut, faults>>
-----------------------------------------------------------------------------
(* Callers of restart_scheduler.                                             *)

\* A settings save or a profile load opens config.json, which truncates it.
OpenConfig(c) ==
    /\ call[c] = "idle"
    /\ config + Cardinality({d \in Caller : call[d] = "saving"}) < MaxConfig
    /\ call' = [call EXCEPT ![c] = "saving"]
    /\ UNCHANGED <<old, left, busy, asked, threadVars, controlVars, fileVars, config, cut, faults>>

\* It is written, and the restart follows as a background task.
SaveConfig(c) ==
    /\ call[c] = "saving"
    /\ config < MaxConfig
    /\ config' = config + 1
    /\ cut' = FALSE
    /\ call' = [call EXCEPT ![c] = "calling"]
    /\ asked' = [asked EXCEPT ![c] = config + 1]
    /\ UNCHANGED <<old, left, busy, threadVars, controlVars, fileVars, faults>>

\* The restart button: api_admin_scheduler_restart refuses while the last
\* recorded attempt is recent, which a blank file cannot tell.
PressRestart(c) ==
    /\ call[c] = "idle"
    /\ cooling = 0 \/ state = Blank
    /\ call' = [call EXCEPT ![c] = "calling"]
    /\ asked' = [asked EXCEPT ![c] = config]
    /\ UNCHANGED <<old, left, busy, threadVars, controlVars, fileVars, config, cut, faults>>

\* Mutated form of RateLimited: a refused request counts as the latest one.
RateLimitedAgain(c) ==
    /\ call[c] = "calling"
    /\ sinceRestart < Coalesce
    /\ sinceRestart' = 0
    /\ call' = [call EXCEPT ![c] = "idle"]
    /\ asked' = [asked EXCEPT ![c] = 0]
    /\ UNCHANGED <<old, left, busy, thread, stop, booted, threadVars, fileVars, config, cut, faults>>

\* The critical section of restart_scheduler, on a request too soon after the
\* last one that went through.
RateLimited(c) ==
    /\ call[c] = "calling"
    /\ sinceRestart < Coalesce
    /\ call' = [call EXCEPT ![c] = "idle"]
    /\ asked' = [asked EXCEPT ![c] = 0]
    /\ UNCHANGED <<old, left, busy, threadVars, controlVars, fileVars, config, cut, faults>>

\* Between two cycles, or leaving: the stop event is heard at once.
Idle(t) == pc[t] \in {"top", "waiting", "exiting", "gone"}

\* The same critical section on a request that goes through: the running
\* thread is told to stop.
Request(c) ==
    /\ call[c] = "calling"
    /\ sinceRestart = Coalesce
    /\ sinceRestart' = 0
    /\ old' = [old EXCEPT ![c] = thread]
    /\ left' = [left EXCEPT ![c] = IF Running THEN Join ELSE 0]
    /\ busy' = [busy EXCEPT ![c] = Running /\ ~Idle(thread)]
    /\ stop' = IF Running THEN stop \cup {thread} ELSE stop
    /\ call' = [call EXCEPT ![c] = IF Running THEN "joining" ELSE "starting"]
    /\ UNCHANGED <<asked, thread, booted, threadVars, fileVars, config, cut, faults>>

\* Mutated form of Joined: the old thread is not waited for.
JoinedAtOnce(c) ==
    /\ call[c] = "joining"
    /\ call' = [call EXCEPT ![c] = "starting"]
    /\ left' = [left EXCEPT ![c] = 0]
    /\ UNCHANGED <<old, busy, asked, threadVars, controlVars, fileVars, config, cut, faults>>

Joined(c) ==
    /\ call[c] = "joining"
    /\ ~Alive(old[c])
    /\ call' = [call EXCEPT ![c] = "starting"]
    /\ left' = [left EXCEPT ![c] = 0]
    /\ UNCHANGED <<old, busy, asked, threadVars, controlVars, fileVars, config, cut, faults>>

JoinTimesOut(c) ==
    /\ call[c] = "joining"
    /\ Alive(old[c])
    /\ left[c] = 0
    /\ call' = [call EXCEPT ![c] = "idle"]
    /\ old' = [old EXCEPT ![c] = NoThread]
    /\ busy' = [busy EXCEPT ![c] = FALSE]
    /\ asked' = [asked EXCEPT ![c] = 0]
    /\ UNCHANGED <<left, threadVars, controlVars, fileVars, config, cut, faults>>

Starts(c) ==
    /\ call[c] = "starting"
    /\ StartThread
    /\ call' = [call EXCEPT ![c] = "idle"]
    /\ old' = [old EXCEPT ![c] = NoThread]
    /\ busy' = [busy EXCEPT ![c] = FALSE]
    /\ asked' = [asked EXCEPT ![c] = 0]
    /\ UNCHANGED <<left, sinceRestart, booted, fileVars, config, cut, faults>>
-----------------------------------------------------------------------------
(* Time, and the end of the process.                                         *)

\* Mutated form of Prompt: the loop sleeps with time.sleep, deaf to the event.
PromptButAsleep ==
    \/ \E t \in Thread : pc[t] \in {"top", "exiting"}
    \/ \E c \in Caller : \/ call[c] \in {"saving", "starting"}
                         \/ call[c] = "joining" /\ (left[c] = 0 \/ ~Alive(old[c]))

\* Somebody can go on at once.  A sleeping thread that is told to stop wakes.
Prompt ==
    \/ \E t \in Thread : \/ pc[t] \in {"top", "exiting"}
                         \/ pc[t] = "waiting" /\ t \in stop
    \/ \E c \in Caller : \/ call[c] \in {"saving", "starting"}
                         \/ call[c] = "joining" /\ (left[c] = 0 \/ ~Alive(old[c]))

Tick ==
    /\ ~Prompt
    /\ sinceRestart' = IF sinceRestart < Coalesce THEN sinceRestart + 1 ELSE Coalesce
    /\ cooling' = IF cooling > 0 THEN cooling - 1 ELSE 0
    /\ left' = [c \in Caller |-> IF left[c] > 0 THEN left[c] - 1 ELSE 0]
    /\ UNCHANGED <<thread, stop, booted, threadVars, state, lastSuccess, forgotten,
                   call, old, busy, asked, config, cut, faults>>

\* The process ends at any point and the app is launched again: config.json and
\* state.json are what remains.
Relaunch ==
    /\ faults < MaxFaults
    /\ faults' = faults + 1
    /\ thread' = NoThread
    /\ stop' = {}
    /\ pc' = [t \in Thread |-> "gone"]
    /\ cycle' = [t \in Thread |-> 0]
    /\ previous' = [t \in Thread |-> 0]
    /\ outcome' = [t \in Thread |-> "failed"]
    /\ cut' = (cut \/ \E c \in Caller : call[c] = "saving")
    /\ sinceRestart' = Coalesce
    /\ booted' = FALSE
    /\ call' = [c \in Caller |-> "idle"]
    /\ old' = [c \in Caller |-> NoThread]
    /\ left' = [c \in Caller |-> 0]
    /\ busy' = [c \in Caller |-> FALSE]
    /\ asked' = [c \in Caller |-> 0]
    /\ forgotten' = (forgotten \/ \E t \in Thread : pc[t] = "writing")
    /\ UNCHANGED <<state, cooling, lastSuccess, config>>

ThreadStep(t) ==
    \/ Linked(t)
    \/ Stops(t)
    \/ CycleStarts(t)
    \/ \E o \in Outcome \ {"failed"} : FetchEnds(t, o)
    \/ FetchFails(t)
    \/ Repaired(t)
    \/ Saved(t)
    \/ Reported(t)
    \/ Wakes(t)
    \/ Cleanup(t)

RestartStep(c) ==
    \/ RateLimited(c)
    \/ Request(c)
    \/ Joined(c)
    \/ JoinTimesOut(c)
    \/ Starts(c)

Next ==
    \/ Boot
    \/ \E t \in Thread : ThreadStep(t) \/ SaveFails(t)
    \/ \E c \in Caller : OpenConfig(c) \/ SaveConfig(c) \/ PressRestart(c) \/ RestartStep(c)
    \/ Tick
    \/ Relaunch

Spec == Init /\ [][Next]_vars
-----------------------------------------------------------------------------
(* Fairness.  Threads and requests are run by the operating system, a fetch,  *)
(* a link check and a report end because their clients have timeouts, and     *)
(* time passes.                                                              *)

FairSpec ==
    /\ Spec
    /\ WF_vars(Boot)
    /\ \A t \in Thread : WF_vars(ThreadStep(t))
    /\ \A c \in Caller : WF_vars(SaveConfig(c)) /\ WF_vars(RestartStep(c))
    /\ SF_vars(Tick)

\* Somebody keeps pressing the restart button.
RetrySpec ==
    /\ FairSpec
    /\ WF_vars(\E c \in Caller : PressRestart(c))
-----------------------------------------------------------------------------
(* Properties.                                                               *)

\* Two refresh loops never run at once, however restarts, timed-out joins, the
\* setup watcher and relaunches interleave: state.json and the snapshot files
\* have one writer.
SingleScheduler ==
    \A t, u \in Thread : (Working(t) /\ Working(u)) => t = u

\* state.json keeps the last success through every later failure, restart and
\* failed save, except while it is being written and after a write was cut short.
SuccessKept ==
    \/ state = lastSuccess
    \/ forgotten
    \/ \E t \in Thread : pc[t] = "writing"

\* A caller that is told the scheduler has (re)started leaves one running that
\* nobody has told to stop and that has begun no cycle with a configuration
\* older than the one in force when the caller asked.
StartedIsFresh ==
    [][\A c \in Caller :
          (call[c] = "starting" /\ call'[c] = "idle" /\ faults' = faults) =>
             /\ thread' # NoThread
             /\ pc'[thread'] # "gone"
             /\ thread' \notin stop'
             /\ (cycle'[thread'] = 0 \/ cycle'[thread'] >= asked[c])]_vars

\* A restart gives up only on a loop that was starting up or in the middle of a
\* cycle when told to stop: one that slept, for its minutes between two cycles or
\* between two retries, is gone before the join times out.
OnlyACycleHoldsItUp ==
    [][\A c \in Caller :
          (call[c] = "joining" /\ call'[c] = "idle" /\ faults' = faults) => busy[c]]_vars

\* A loop told to stop begins no further cycle, so what a restart waits for is at
\* most what is left of the one under way: its fetch, repair, record and report.
StopIsObeyed ==
    [][\A t \in Thread :
          (t \in stop /\ pc[t] # "gone" /\ pc'[t] # "gone") => cycle'[t] = cycle[t]]_vars

\* However the scheduler went down, somebody who keeps pressing the restart
\* button gets it back: refusals do not push back the time of the next restart.
Recovers == []<>(Running /\ thread \notin stop)

-----------------------------------------------------------------------------
(* The inductive invariant.                                                  *)

\* The thread in place is the only one there is, and it is there.
Alone ==
    /\ \A t \in Thread : Alive(t) => t = thread
    /\ Running => Alive(thread)

\* A thread object that is let go leaves nothing behind.
CleanSlate == \A t \in Thread : Alive(t) \/ (t \notin stop /\ cycle[t] = 0)

\* A call knows a configuration that has been saved.
AskedRecord == \A c \in Caller : asked[c] <= config

\* The coalescing window outlasts the join, so one caller at a time is past it.
OneRestart ==
    /\ \A c \in Caller : Waiting(c) => sinceRestart + left[c] <= Join
    /\ \A c, d \in Caller : (Waiting(c) /\ Waiting(d)) => c = d

\* The thread in place will do for caller c.
Serves(c) == thread \notin stop /\ (cycle[thread] = 0 \/ cycle[thread] >= asked[c])

\* What a waiting caller may rely on: the thread it stopped is stopped or gone,
\* and any other one is as good as the one it would start.
RestartRecord ==
    \A c \in Caller :
        /\ call[c] = "joining" => (old[c] \in Thread /\ (Alive(old[c]) => old[c] \in stop))
        /\ (call[c] = "joining" /\ Running /\ thread # old[c]) => Serves(c)
        /\ (call[c] = "starting" /\ Running) => Serves(c)

\* A caller whose thread was between two cycles sees it go before time passes.
Patience ==
    \A c \in Caller :
        (call[c] = "joining" /\ ~busy[c]) => (left[c] = Join /\ Idle(old[c]))

\* A cycle under way remembers the last success.
SuccessRecord ==
    \A t \in Thread :
        pc[t] \in {"fetching", "repairing", "writing"} => (previous[t] = lastSuccess \/ forgotten)

SchedulerInv ==
    /\ TypeOK
    /\ Alone
    /\ CleanSlate
    /\ AskedRecord
    /\ OneRestart
    /\ RestartRecord
    /\ Patience
    /\ SuccessRecord
    /\ SuccessKept
-----------------------------------------------------------------------------
(* What the code says of itself and does not keep.                           *)

\* What the restart promises ("Stop the sleeping scheduler loop, reload
\* config/env, and start a fresh cycle"): after a call the scheduler runs on.
RestartLeavesItRunning ==
    \A c \in Caller : (call[c] = "calling") ~> (Running /\ thread \notin stop)
=============================================================================
