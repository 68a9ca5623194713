---------------------- MODULE SchedulerControl_proofs ----------------------
(***************************************************************************)
(* Proofs about SchedulerControl, for any sets of callers and threads, any  *)
(* join timeout shorter than the coalescing window, and any bounds.         *)
(***************************************************************************)
EXTENDS SchedulerControl, TLAPS

USE SchedulerAssumption DEF SchedulerAssumption

-----------------------------------------------------------------------------
(* The inductive invariant holds at first and after every action.           *)

\* Nothing has been started, asked for or recorded.
LEMMA InitHolds == Init => SchedulerInv
<1>. SUFFICES ASSUME Init PROVE SchedulerInv
  OBVIOUS
<1>1. TypeOK
  <2>1. /\ 0 \in 0..MaxConfig /\ 1 \in 1..MaxConfig /\ 0 \in 0..Cooldown
        /\ 0 \in 0..Join /\ 0 \in 0..MaxFaults /\ Coalesce \in 0..Coalesce
    OBVIOUS
  <2>2. outcome \in [Thread -> Outcome] /\ busy \in [Caller -> BOOLEAN]
    BY Zenon DEF Init, Outcome
  <2>3. booted \in BOOLEAN /\ forgotten \in BOOLEAN /\ cut \in BOOLEAN
    BY Zenon DEF Init
  <2>4. QED
    BY <2>1, <2>2, <2>3 DEF Init, TypeOK, Blank, Phase
<1>2. Alone /\ CleanSlate /\ AskedRecord
  BY DEF Init, Alone, CleanSlate, AskedRecord, Alive, Running
<1>3. OneRestart /\ RestartRecord /\ Patience
  BY DEF Init, OneRestart, RestartRecord, Patience, Waiting
<1>4. SuccessRecord /\ SuccessKept
  BY DEF Init, SuccessRecord, SuccessKept, Blank
<1>5. QED
  BY <1>1, <1>2, <1>3, <1>4 DEF SchedulerInv

\* The first thread is started.
LEMMA BootKeeps ==
  ASSUME SchedulerInv, Boot
  PROVE  SchedulerInv'
<1>. USE DEF SchedulerInv, Boot, StartThread, Fresh, threadVars, controlVars, fileVars, callVars
<1>1. TypeOK'
  BY DEF TypeOK, Blank, Outcome, Phase
<1>2. Alone'
  BY DEF TypeOK, Alone, Alive, Running
<1>3. CleanSlate'
  BY DEF TypeOK, CleanSlate, Alone, Alive
<1>4. AskedRecord'
  BY DEF TypeOK, AskedRecord
<1>5. OneRestart'
  BY DEF TypeOK, OneRestart, Waiting
<1>6. RestartRecord'
  BY DEF TypeOK, Alone, CleanSlate, AskedRecord, OneRestart, RestartRecord, Alive, Running, Serves, Waiting
<1>7. Patience'
  BY DEF TypeOK, Alone, RestartRecord, Patience, Alive, Idle
<1>8. SuccessRecord'
  BY DEF TypeOK, Alone, SuccessRecord, SuccessKept, Blank
<1>9. SuccessKept'
  BY DEF TypeOK, Alone, SuccessRecord, SuccessKept, Blank
<1>. QED
  BY <1>1, <1>2, <1>3, <1>4, <1>5, <1>6, <1>7, <1>8, <1>9

\* The loop begins.
LEMMA LinkedKeeps ==
  ASSUME SchedulerInv, NEW t \in Thread, Linked(t)
  PROVE  SchedulerInv'
<1>. USE DEF SchedulerInv, Linked, threadVars, controlVars, fileVars, callVars
<1>1. TypeOK'
  BY DEF TypeOK, Blank, Outcome, Phase
<1>2. Alone'
  BY DEF TypeOK, Alone, Alive, Running
<1>3. CleanSlate'
  BY DEF TypeOK, CleanSlate, Alone, Alive
<1>4. AskedRecord'
  BY DEF TypeOK, AskedRecord
<1>5. OneRestart'
  BY DEF TypeOK, OneRestart, Waiting
<1>6. RestartRecord'
  BY DEF TypeOK, Alone, CleanSlate, AskedRecord, OneRestart, RestartRecord, Alive, Running, Serves, Waiting
<1>7. Patience'
  BY DEF TypeOK, Alone, RestartRecord, Patience, Alive, Idle
<1>8. SuccessRecord'
  BY DEF TypeOK, Alone, SuccessRecord, SuccessKept, Blank
<1>9. SuccessKept'
  BY DEF TypeOK, Alone, SuccessRecord, SuccessKept, Blank
<1>. QED
  BY <1>1, <1>2, <1>3, <1>4, <1>5, <1>6, <1>7, <1>8, <1>9

\* A loop told to stop leaves.
LEMMA StopsKeeps ==
  ASSUME SchedulerInv, NEW t \in Thread, Stops(t)
  PROVE  SchedulerInv'
<1>. USE DEF SchedulerInv, Stops, threadVars, controlVars, fileVars, callVars
<1>1. TypeOK'
  BY DEF TypeOK, Blank, Outcome, Phase
<1>2. Alone'
  BY DEF TypeOK, Alone, Alive, Running
<1>3. CleanSlate'
  BY DEF TypeOK, CleanSlate, Alone, Alive
<1>4. AskedRecord'
  BY DEF TypeOK, AskedRecord
<1>5. OneRestart'
  BY DEF TypeOK, OneRestart, Waiting
<1>6. RestartRecord'
  BY DEF TypeOK, Alone, CleanSlate, AskedRecord, OneRestart, RestartRecord, Alive, Running, Serves, Waiting
<1>7. Patience'
  BY DEF TypeOK, Alone, RestartRecord, Patience, Alive, Idle
<1>8. SuccessRecord'
  BY DEF TypeOK, Alone, SuccessRecord, SuccessKept, Blank
<1>9. SuccessKept'
  BY DEF TypeOK, Alone, SuccessRecord, SuccessKept, Blank
<1>. QED
  BY <1>1, <1>2, <1>3, <1>4, <1>5, <1>6, <1>7, <1>8, <1>9

\* A cycle reads the configuration and the record.
LEMMA CycleStartsKeeps ==
  ASSUME SchedulerInv, NEW t \in Thread, CycleStarts(t)
  PROVE  SchedulerInv'
<1>. USE DEF SchedulerInv, CycleStarts, Loaded, threadVars, controlVars, fileVars, callVars
<1>1. TypeOK'
  BY DEF TypeOK, Blank, Outcome, Phase
<1>2. Alone'
  BY DEF TypeOK, Alone, Alive, Running
<1>3. CleanSlate'
  BY DEF TypeOK, CleanSlate, Alone, Alive
<1>4. AskedRecord'
  BY DEF TypeOK, AskedRecord
<1>5. OneRestart'
  BY DEF TypeOK, OneRestart, Waiting
<1>6. RestartRecord'
  BY DEF TypeOK, Alone, CleanSlate, AskedRecord, OneRestart, RestartRecord, Alive, Running, Serves, Waiting
<1>7. Patience'
  BY DEF TypeOK, Alone, RestartRecord, Patience, Alive, Idle
<1>8. SuccessRecord'
  <2>1. \A u \in Thread : pc[u] # "writing"
    BY DEF Alone, Alive
  <2>2. state = lastSuccess \/ forgotten
    BY <2>1 DEF SuccessKept
  <2>3. QED
    BY <2>2 DEF TypeOK, SuccessRecord
<1>9. SuccessKept'
  BY DEF TypeOK, Alone, SuccessRecord, SuccessKept, Blank
<1>. QED
  BY <1>1, <1>2, <1>3, <1>4, <1>5, <1>6, <1>7, <1>8, <1>9

\* The record is opened.
LEMMA FetchEndsKeeps ==
  ASSUME SchedulerInv, NEW t \in Thread, NEW o \in Outcome \ {"failed"}, FetchEnds(t, o)
  PROVE  SchedulerInv'
<1>. USE DEF SchedulerInv, FetchEnds, threadVars, controlVars, fileVars, callVars
<1>1. TypeOK'
  BY DEF TypeOK, Blank, Outcome, Phase
<1>2. Alone'
  BY DEF TypeOK, Alone, Alive, Running
<1>3. CleanSlate'
  BY DEF TypeOK, CleanSlate, Alone, Alive
<1>4. AskedRecord'
  BY DEF TypeOK, AskedRecord
<1>5. OneRestart'
  BY DEF TypeOK, OneRestart, Waiting
<1>6. RestartRecord'
  BY DEF TypeOK, Alone, CleanSlate, AskedRecord, OneRestart, RestartRecord, Alive, Running, Serves, Waiting
<1>7. Patience'
  BY DEF TypeOK, Alone, RestartRecord, Patience, Alive, Idle
<1>8. SuccessRecord'
  BY DEF TypeOK, Alone, SuccessRecord, SuccessKept, Blank
<1>9. SuccessKept'
  BY DEF TypeOK, Alone, SuccessRecord, SuccessKept, Blank
<1>. QED
  BY <1>1, <1>2, <1>3, <1>4, <1>5, <1>6, <1>7, <1>8, <1>9

\* A fetch fails.
LEMMA FetchFailsKeeps ==
  ASSUME SchedulerInv, NEW t \in Thread, FetchFails(t)
  PROVE  SchedulerInv'
<1>. USE DEF SchedulerInv, FetchFails, threadVars, controlVars, fileVars, callVars
<1>1. TypeOK'
  BY DEF TypeOK, Blank, Outcome, Phase
<1>2. Alone'
  BY DEF TypeOK, Alone, Alive, Running
<1>3. CleanSlate'
  BY DEF TypeOK, CleanSlate, Alone, Alive
<1>4. AskedRecord'
  BY DEF TypeOK, AskedRecord
<1>5. OneRestart'
  BY DEF TypeOK, OneRestart, Waiting
<1>6. RestartRecord'
  BY DEF TypeOK, Alone, CleanSlate, AskedRecord, OneRestart, RestartRecord, Alive, Running, Serves, Waiting
<1>7. Patience'
  BY DEF TypeOK, Alone, RestartRecord, Patience, Alive, Idle
<1>8. SuccessRecord'
  BY DEF TypeOK, Alone, SuccessRecord, SuccessKept, Blank
<1>9. SuccessKept'
  BY DEF TypeOK, Alone, SuccessRecord, SuccessKept, Blank
<1>. QED
  BY <1>1, <1>2, <1>3, <1>4, <1>5, <1>6, <1>7, <1>8, <1>9

\* The record of a failure is opened.
LEMMA RepairedKeeps ==
  ASSUME SchedulerInv, NEW t \in Thread, Repaired(t)
  PROVE  SchedulerInv'
<1>. USE DEF SchedulerInv, Repaired, threadVars, controlVars, fileVars, callVars
<1>1. TypeOK'
  BY DEF TypeOK, Blank, Outcome, Phase
<1>2. Alone'
  BY DEF TypeOK, Alone, Alive, Running
<1>3. CleanSlate'
  BY DEF TypeOK, CleanSlate, Alone, Alive
<1>4. AskedRecord'
  BY DEF TypeOK, AskedRecord
<1>5. OneRestart'
  BY DEF TypeOK, OneRestart, Waiting
<1>6. RestartRecord'
  BY DEF TypeOK, Alone, CleanSlate, AskedRecord, OneRestart, RestartRecord, Alive, Running, Serves, Waiting
<1>7. Patience'
  BY DEF TypeOK, Alone, RestartRecord, Patience, Alive, Idle
<1>8. SuccessRecord'
  BY DEF TypeOK, Alone, SuccessRecord, SuccessKept, Blank
<1>9. SuccessKept'
  BY DEF TypeOK, Alone, SuccessRecord, SuccessKept, Blank
<1>. QED
  BY <1>1, <1>2, <1>3, <1>4, <1>5, <1>6, <1>7, <1>8, <1>9

\* The record is written.
LEMMA SavedKeeps ==
  ASSUME SchedulerInv, NEW t \in Thread, Saved(t)
  PROVE  SchedulerInv'
<1>. USE DEF SchedulerInv, Saved, threadVars, controlVars, fileVars, callVars
<1>1. TypeOK'
  BY DEF TypeOK, Blank, Outcome, Phase, Recorded
<1>2. Alone'
  BY DEF TypeOK, Alone, Alive, Running
<1>3. CleanSlate'
  BY DEF TypeOK, CleanSlate, Alone, Alive
<1>4. AskedRecord'
  BY DEF TypeOK, AskedRecord
<1>5. OneRestart'
  BY DEF TypeOK, OneRestart, Waiting
<1>6. RestartRecord'
  BY DEF TypeOK, Alone, CleanSlate, AskedRecord, OneRestart, RestartRecord, Alive, Running, Serves, Waiting
<1>7. Patience'
  BY DEF TypeOK, Alone, RestartRecord, Patience, Alive, Idle
<1>8. SuccessRecord'
  <2>1. \A u \in Thread : pc'[u] \notin {"fetching", "repairing", "writing"}
    BY DEF TypeOK, Alone, Alive
  <2>2. QED
    BY <2>1 DEF SuccessRecord
<1>9. SuccessKept'
  <2>1. CASE outcome[t] = "failed"
    <3>1. state' = previous[t] /\ lastSuccess' = lastSuccess /\ forgotten' = forgotten
      BY <2>1 DEF TypeOK, Recorded
    <3>2. QED
      BY <3>1 DEF SuccessRecord, SuccessKept
  <2>2. CASE outcome[t] # "failed"
    BY <2>2 DEF SuccessKept
  <2>3. QED
    BY <2>1, <2>2
<1>. QED
  BY <1>1, <1>2, <1>3, <1>4, <1>5, <1>6, <1>7, <1>8, <1>9

\* A record is not written.
LEMMA SaveFailsKeeps ==
  ASSUME SchedulerInv, NEW t \in Thread, SaveFails(t)
  PROVE  SchedulerInv'
<1>. USE DEF SchedulerInv, SaveFails, threadVars, controlVars, fileVars, callVars
<1>1. TypeOK'
  <2>1. faults' \in 0..MaxFaults
    BY DEF TypeOK
  <2>2. /\ pc' \in [Thread -> Phase]
        /\ outcome' \in [Thread -> Outcome]
        /\ forgotten' \in BOOLEAN
    <3>1. CASE outcome[t] # "failed"
      BY <3>1 DEF TypeOK, Outcome
    <3>2. CASE outcome[t] = "failed"
      <4>1. pc' = [pc EXCEPT ![t] = "exiting"] /\ outcome' = outcome /\ forgotten' = TRUE
        BY <3>2
      <4>2. QED
        BY <4>1 DEF TypeOK, Phase
    <3>3. QED
      BY <3>1, <3>2
  <2>3. QED
    BY <2>1, <2>2 DEF TypeOK
<1>2. Alone'
  BY DEF TypeOK, Alone, Alive, Running
<1>3. CleanSlate'
  BY DEF TypeOK, CleanSlate, Alone, Alive
<1>4. AskedRecord'
  BY DEF TypeOK, AskedRecord
<1>5. OneRestart'
  BY DEF TypeOK, OneRestart, Waiting
<1>6. RestartRecord'
  BY DEF TypeOK, Alone, CleanSlate, AskedRecord, OneRestart, RestartRecord, Alive, Running, Serves, Waiting
<1>7. Patience'
  BY DEF TypeOK, Alone, RestartRecord, Patience, Alive, Idle
<1>8. SuccessRecord'
  BY DEF TypeOK, Alone, SuccessRecord, SuccessKept, Blank
<1>9. SuccessKept'
  BY DEF TypeOK, Alone, SuccessRecord, SuccessKept, Blank
<1>. QED
  BY <1>1, <1>2, <1>3, <1>4, <1>5, <1>6, <1>7, <1>8, <1>9

\* A failure has been reported.
LEMMA ReportedKeeps ==
  ASSUME SchedulerInv, NEW t \in Thread, Reported(t)
  PROVE  SchedulerInv'
<1>. USE DEF SchedulerInv, Reported, threadVars, controlVars, fileVars, callVars
<1>1. TypeOK'
  BY DEF TypeOK, Blank, Outcome, Phase
<1>2. Alone'
  BY DEF TypeOK, Alone, Alive, Running
<1>3. CleanSlate'
  BY DEF TypeOK, CleanSlate, Alone, Alive
<1>4. AskedRecord'
  BY DEF TypeOK, AskedRecord
<1>5. OneRestart'
  BY DEF TypeOK, OneRestart, Waiting
<1>6. RestartRecord'
  BY DEF TypeOK, Alone, CleanSlate, AskedRecord, OneRestart, RestartRecord, Alive, Running, Serves, Waiting
<1>7. Patience'
  BY DEF TypeOK, Alone, RestartRecord, Patience, Alive, Idle
<1>8. SuccessRecord'
  BY DEF TypeOK, Alone, SuccessRecord, SuccessKept, Blank
<1>9. SuccessKept'
  BY DEF TypeOK, Alone, SuccessRecord, SuccessKept, Blank
<1>. QED
  BY <1>1, <1>2, <1>3, <1>4, <1>5, <1>6, <1>7, <1>8, <1>9

\* The loop goes on.
LEMMA WakesKeeps ==
  ASSUME SchedulerInv, NEW t \in Thread, Wakes(t)
  PROVE  SchedulerInv'
<1>. USE DEF SchedulerInv, Wakes, threadVars, controlVars, fileVars, callVars
<1>1. TypeOK'
  BY DEF TypeOK, Blank, Outcome, Phase
<1>2. Alone'
  BY DEF TypeOK, Alone, Alive, Running
<1>3. CleanSlate'
  BY DEF TypeOK, CleanSlate, Alone, Alive
<1>4. AskedRecord'
  BY DEF TypeOK, AskedRecord
<1>5. OneRestart'
  BY DEF TypeOK, OneRestart, Waiting
<1>6. RestartRecord'
  BY DEF TypeOK, Alone, CleanSlate, AskedRecord, OneRestart, RestartRecord, Alive, Running, Serves, Waiting
<1>7. Patience'
  BY DEF TypeOK, Alone, RestartRecord, Patience, Alive, Idle
<1>8. SuccessRecord'
  BY DEF TypeOK, Alone, SuccessRecord, SuccessKept, Blank
<1>9. SuccessKept'
  BY DEF TypeOK, Alone, SuccessRecord, SuccessKept, Blank
<1>. QED
  BY <1>1, <1>2, <1>3, <1>4, <1>5, <1>6, <1>7, <1>8, <1>9

\* The thread lets go of its place.
LEMMA CleanupKeeps ==
  ASSUME SchedulerInv, NEW t \in Thread, Cleanup(t)
  PROVE  SchedulerInv'
<1>. USE DEF SchedulerInv, Cleanup, threadVars, controlVars, fileVars, callVars
<1>1. TypeOK'
  BY DEF TypeOK, Blank, Outcome, Phase
<1>2. Alone'
  BY DEF TypeOK, Alone, Alive, Running
<1>3. CleanSlate'
  BY DEF TypeOK, CleanSlate, Alone, Alive
<1>4. AskedRecord'
  BY DEF TypeOK, AskedRecord
<1>5. OneRestart'
  BY DEF TypeOK, OneRestart, Waiting
<1>6. RestartRecord'
  BY DEF TypeOK, Alone, CleanSlate, AskedRecord, OneRestart, RestartRecord, Alive, Running, Serves, Waiting
<1>7. Patience'
  BY DEF TypeOK, Alone, RestartRecord, Patience, Alive, Idle
<1>8. SuccessRecord'
  BY DEF TypeOK, Alone, SuccessRecord, SuccessKept, Blank
<1>9. SuccessKept'
  BY DEF TypeOK, Alone, SuccessRecord, SuccessKept, Blank
<1>. QED
  BY <1>1, <1>2, <1>3, <1>4, <1>5, <1>6, <1>7, <1>8, <1>9

\* A configuration is about to be written.
LEMMA OpenConfigKeeps ==
  ASSUME SchedulerInv, NEW c \in Caller, OpenConfig(c)
  PROVE  SchedulerInv'
<1>. USE DEF SchedulerInv, OpenConfig, threadVars, controlVars, fileVars, callVars
<1>1. TypeOK'
  BY DEF TypeOK, Blank, Outcome, Phase
<1>2. Alone'
  BY DEF TypeOK, Alone, Alive, Running
<1>3. CleanSlate'
  BY DEF TypeOK, CleanSlate, Alone, Alive
<1>4. AskedRecord'
  BY DEF TypeOK, AskedRecord
<1>5. OneRestart'
  BY DEF TypeOK, OneRestart, Waiting
<1>6. RestartRecord'
  BY DEF TypeOK, Alone, CleanSlate, AskedRecord, OneRestart, RestartRecord, Alive, Running, Serves, Waiting
<1>7. Patience'
  BY DEF TypeOK, Alone, RestartRecord, Patience, Alive, Idle
<1>8. SuccessRecord'
  BY DEF TypeOK, Alone, SuccessRecord, SuccessKept, Blank
<1>9. SuccessKept'
  BY DEF TypeOK, Alone, SuccessRecord, SuccessKept, Blank
<1>. QED
  BY <1>1, <1>2, <1>3, <1>4, <1>5, <1>6, <1>7, <1>8, <1>9

\* A configuration is saved.
LEMMA SaveConfigKeeps ==
  ASSUME SchedulerInv, NEW c \in Caller, SaveConfig(c)
  PROVE  SchedulerInv'
<1>. USE DEF SchedulerInv, SaveConfig, threadVars, controlVars, fileVars, callVars
<1>1. TypeOK'
  <2>1. /\ config' \in 1..MaxConfig
        /\ asked' \in [Caller -> 0..MaxConfig]
        /\ call' \in [Caller -> {"idle", "saving", "calling", "joining", "starting"}]
    BY DEF TypeOK
  <2>2. cut' \in BOOLEAN
    BY Zenon
  <2>3. QED
    BY <2>1, <2>2 DEF TypeOK
<1>2. Alone'
  BY DEF TypeOK, Alone, Alive, Running
<1>3. CleanSlate'
  BY DEF TypeOK, CleanSlate, Alone, Alive
<1>4. AskedRecord'
  BY DEF TypeOK, AskedRecord
<1>5. OneRestart'
  BY DEF TypeOK, OneRestart, Waiting
<1>6. RestartRecord'
  BY DEF TypeOK, Alone, CleanSlate, AskedRecord, OneRestart, RestartRecord, Alive, Running, Serves, Waiting
<1>7. Patience'
  BY DEF TypeOK, Alone, RestartRecord, Patience, Alive, Idle
<1>8. SuccessRecord'
  BY DEF TypeOK, Alone, SuccessRecord, SuccessKept, Blank
<1>9. SuccessKept'
  BY DEF TypeOK, Alone, SuccessRecord, SuccessKept, Blank
<1>. QED
  BY <1>1, <1>2, <1>3, <1>4, <1>5, <1>6, <1>7, <1>8, <1>9

\* The button is pressed.
LEMMA PressRestartKeeps ==
  ASSUME SchedulerInv, NEW c \in Caller, PressRestart(c)
  PROVE  SchedulerInv'
<1>. USE DEF SchedulerInv, PressRestart, threadVars, controlVars, fileVars, callVars
<1>1. TypeOK'
  BY DEF TypeOK, Blank, Outcome, Phase
<1>2. Alone'
  BY DEF TypeOK, Alone, Alive, Running
<1>3. CleanSlate'
  BY DEF TypeOK, CleanSlate, Alone, Alive
<1>4. AskedRecord'
  BY DEF TypeOK, AskedRecord
<1>5. OneRestart'
  BY DEF TypeOK, OneRestart, Waiting
<1>6. RestartRecord'
  BY DEF TypeOK, Alone, CleanSlate, AskedRecord, OneRestart, RestartRecord, Alive, Running, Serves, Waiting
<1>7. Patience'
  BY DEF TypeOK, Alone, RestartRecord, Patience, Alive, Idle
<1>8. SuccessRecord'
  BY DEF TypeOK, Alone, SuccessRecord, SuccessKept, Blank
<1>9. SuccessKept'
  BY DEF TypeOK, Alone, SuccessRecord, SuccessKept, Blank
<1>. QED
  BY <1>1, <1>2, <1>3, <1>4, <1>5, <1>6, <1>7, <1>8, <1>9

\* A call is refused.
LEMMA RateLimitedKeeps ==
  ASSUME SchedulerInv, NEW c \in Caller, RateLimited(c)
  PROVE  SchedulerInv'
<1>. USE DEF SchedulerInv, RateLimited, threadVars, controlVars, fileVars, callVars
<1>1. TypeOK'
  BY DEF TypeOK, Blank, Outcome, Phase
<1>2. Alone'
  BY DEF TypeOK, Alone, Alive, Running
<1>3. CleanSlate'
  BY DEF TypeOK, CleanSlate, Alone, Alive
<1>4. AskedRecord'
  BY DEF TypeOK, AskedRecord
<1>5. OneRestart'
  BY DEF TypeOK, OneRestart, Waiting
<1>6. RestartRecord'
  BY DEF TypeOK, Alone, CleanSlate, AskedRecord, OneRestart, RestartRecord, Alive, Running, Serves, Waiting
<1>7. Patience'
  BY DEF TypeOK, Alone, RestartRecord, Patience, Alive, Idle
<1>8. SuccessRecord'
  BY DEF TypeOK, Alone, SuccessRecord, SuccessKept, Blank
<1>9. SuccessKept'
  BY DEF TypeOK, Alone, SuccessRecord, SuccessKept, Blank
<1>. QED
  BY <1>1, <1>2, <1>3, <1>4, <1>5, <1>6, <1>7, <1>8, <1>9

\* A call stops the running thread.
LEMMA RequestKeeps ==
  ASSUME SchedulerInv, NEW c \in Caller, Request(c)
  PROVE  SchedulerInv'
<1>. USE DEF SchedulerInv, Request, Running, threadVars, controlVars, fileVars, callVars
<1>1. TypeOK'
  BY DEF TypeOK, Blank, Outcome, Phase
<1>2. Alone'
  BY DEF TypeOK, Alone, Alive, Running
<1>3. CleanSlate'
  BY DEF TypeOK, CleanSlate, Alone, Alive
<1>4. AskedRecord'
  BY DEF TypeOK, AskedRecord
<1>5. OneRestart'
  BY DEF TypeOK, OneRestart, Waiting
<1>6. RestartRecord'
  BY DEF TypeOK, Alone, CleanSlate, AskedRecord, OneRestart, RestartRecord, Alive, Running, Serves, Waiting
<1>7. Patience'
  BY DEF TypeOK, Alone, RestartRecord, Patience, Alive, Idle
<1>8. SuccessRecord'
  BY DEF TypeOK, Alone, SuccessRecord, SuccessKept, Blank
<1>9. SuccessKept'
  BY DEF TypeOK, Alone, SuccessRecord, SuccessKept, Blank
<1>. QED
  BY <1>1, <1>2, <1>3, <1>4, <1>5, <1>6, <1>7, <1>8, <1>9

\* The stopped thread is gone.
LEMMA JoinedKeeps ==
  ASSUME SchedulerInv, NEW c \in Caller, Joined(c)
  PROVE  SchedulerInv'
<1>. USE DEF SchedulerInv, Joined, Alive, threadVars, controlVars, fileVars, callVars
<1>1. TypeOK'
  BY DEF TypeOK, Blank, Outcome, Phase
<1>2. Alone'
  BY DEF TypeOK, Alone, Alive, Running
<1>3. CleanSlate'
  BY DEF TypeOK, CleanSlate, Alone, Alive
<1>4. AskedRecord'
  BY DEF TypeOK, AskedRecord
<1>5. OneRestart'
  BY DEF TypeOK, OneRestart, Waiting
<1>6. RestartRecord'
  BY DEF TypeOK, Alone, CleanSlate, AskedRecord, OneRestart, RestartRecord, Alive, Running, Serves, Waiting
<1>7. Patience'
  BY DEF TypeOK, Alone, RestartRecord, Patience, Alive, Idle
<1>8. SuccessRecord'
  BY DEF TypeOK, Alone, SuccessRecord, SuccessKept, Blank
<1>9. SuccessKept'
  BY DEF TypeOK, Alone, SuccessRecord, SuccessKept, Blank
<1>. QED
  BY <1>1, <1>2, <1>3, <1>4, <1>5, <1>6, <1>7, <1>8, <1>9

\* A caller gives up.
LEMMA JoinTimesOutKeeps ==
  ASSUME SchedulerInv, NEW c \in Caller, JoinTimesOut(c)
  PROVE  SchedulerInv'
<1>. USE DEF SchedulerInv, JoinTimesOut, Alive, threadVars, controlVars, fileVars, callVars
<1>1. TypeOK'
  BY DEF TypeOK, Blank, Outcome, Phase
<1>2. Alone'
  BY DEF TypeOK, Alone, Alive, Running
<1>3. CleanSlate'
  BY DEF TypeOK, CleanSlate, Alone, Alive
<1>4. AskedRecord'
  BY DEF TypeOK, AskedRecord
<1>5. OneRestart'
  BY DEF TypeOK, OneRestart, Waiting
<1>6. RestartRecord'
  BY DEF TypeOK, Alone, CleanSlate, AskedRecord, OneRestart, RestartRecord, Alive, Running, Serves, Waiting
<1>7. Patience'
  BY DEF TypeOK, Alone, RestartRecord, Patience, Alive, Idle
<1>8. SuccessRecord'
  BY DEF TypeOK, Alone, SuccessRecord, SuccessKept, Blank
<1>9. SuccessKept'
  BY DEF TypeOK, Alone, SuccessRecord, SuccessKept, Blank
<1>. QED
  BY <1>1, <1>2, <1>3, <1>4, <1>5, <1>6, <1>7, <1>8, <1>9

\* A caller starts a thread.
LEMMA StartsKeeps ==
  ASSUME SchedulerInv, NEW c \in Caller, Starts(c)
  PROVE  SchedulerInv'
<1>. USE DEF SchedulerInv, Starts, StartThread, Fresh, threadVars, controlVars, fileVars, callVars
<1>1. TypeOK'
  BY DEF TypeOK, Blank, Outcome, Phase
<1>2. Alone'
  BY DEF TypeOK, Alone, Alive, Running
<1>3. CleanSlate'
  BY DEF TypeOK, CleanSlate, Alone, Alive
<1>4. AskedRecord'
  BY DEF TypeOK, AskedRecord
<1>5. OneRestart'
  BY DEF TypeOK, OneRestart, Waiting
<1>6. RestartRecord'
  BY DEF TypeOK, Alone, CleanSlate, AskedRecord, OneRestart, RestartRecord, Alive, Running, Serves, Waiting
<1>7. Patience'
  BY DEF TypeOK, Alone, RestartRecord, Patience, Alive, Idle
<1>8. SuccessRecord'
  BY DEF TypeOK, Alone, SuccessRecord, SuccessKept, Blank
<1>9. SuccessKept'
  BY DEF TypeOK, Alone, SuccessRecord, SuccessKept, Blank
<1>. QED
  BY <1>1, <1>2, <1>3, <1>4, <1>5, <1>6, <1>7, <1>8, <1>9

\* Time passes.
LEMMA TickKeeps ==
  ASSUME SchedulerInv, Tick
  PROVE  SchedulerInv'
<1>. USE DEF SchedulerInv, Tick, Prompt, threadVars, controlVars, fileVars, callVars
<1>1. TypeOK'
  BY DEF TypeOK, Blank, Outcome, Phase
<1>2. Alone'
  BY DEF TypeOK, Alone, Alive, Running
<1>3. CleanSlate'
  BY DEF TypeOK, CleanSlate, Alone, Alive
<1>4. AskedRecord'
  BY DEF TypeOK, AskedRecord
<1>5. OneRestart'
  BY DEF TypeOK, OneRestart, Waiting
<1>6. RestartRecord'
  BY DEF TypeOK, Alone, CleanSlate, AskedRecord, OneRestart, RestartRecord, Alive, Running, Serves, Waiting
<1>7. Patience'
  BY DEF TypeOK, Alone, RestartRecord, Patience, Alive, Idle
<1>8. SuccessRecord'
  BY DEF TypeOK, Alone, SuccessRecord, SuccessKept, Blank
<1>9. SuccessKept'
  BY DEF TypeOK, Alone, SuccessRecord, SuccessKept, Blank
<1>. QED
  BY <1>1, <1>2, <1>3, <1>4, <1>5, <1>6, <1>7, <1>8, <1>9

\* The process ends and begins again.
LEMMA RelaunchKeeps ==
  ASSUME SchedulerInv, Relaunch
  PROVE  SchedulerInv'
<1>. USE DEF SchedulerInv, Relaunch, threadVars, controlVars, fileVars, callVars
<1>1. TypeOK'
  <2>1. faults' \in 0..MaxFaults
    BY DEF TypeOK
  <2>2. /\ 0 \in 0..MaxConfig /\ 0 \in 0..Join /\ Coalesce \in 0..Coalesce
    OBVIOUS
  <2>3. outcome' \in [Thread -> Outcome] /\ busy' \in [Caller -> BOOLEAN]
    BY Zenon DEF Outcome
  <2>4. booted' \in BOOLEAN /\ forgotten' \in BOOLEAN /\ cut' \in BOOLEAN
    BY Zenon DEF TypeOK
  <2>5. QED
    BY <2>1, <2>2, <2>3, <2>4 DEF TypeOK, Phase
<1>2. Alone'
  BY DEF TypeOK, Alone, Alive, Running
<1>3. CleanSlate'
  BY DEF TypeOK, CleanSlate, Alone, Alive
<1>4. AskedRecord'
  BY DEF TypeOK, AskedRecord
<1>5. OneRestart'
  BY DEF TypeOK, OneRestart, Waiting
<1>6. RestartRecord'
  BY DEF TypeOK, Alone, CleanSlate, AskedRecord, OneRestart, RestartRecord, Alive, Running, Serves, Waiting
<1>7. Patience'
  BY DEF TypeOK, Alone, RestartRecord, Patience, Alive, Idle
<1>8. SuccessRecord'
  BY DEF TypeOK, Alone, SuccessRecord, SuccessKept, Blank
<1>9. SuccessKept'
  BY DEF TypeOK, Alone, SuccessRecord, SuccessKept, Blank
<1>. QED
  BY <1>1, <1>2, <1>3, <1>4, <1>5, <1>6, <1>7, <1>8, <1>9

\* Nothing happens.
LEMMA StutterKeeps ==
  ASSUME SchedulerInv, UNCHANGED vars
  PROVE  SchedulerInv'
<1>. USE DEF SchedulerInv, vars, threadVars, controlVars, fileVars, callVars
<1>1. TypeOK' /\ Alone' /\ CleanSlate' /\ AskedRecord'
  BY DEF TypeOK, Alone, Alive, Running, CleanSlate, AskedRecord
<1>2. OneRestart' /\ RestartRecord' /\ Patience'
  BY DEF OneRestart, Waiting, RestartRecord, Serves, Alive, Running, Patience, Idle
<1>3. SuccessRecord' /\ SuccessKept'
  BY DEF SuccessRecord, SuccessKept
<1>4. QED
  BY <1>1, <1>2, <1>3

-----------------------------------------------------------------------------
(* The theorems.                                                            *)

\* Every reachable state satisfies the inductive invariant: at most one thread,
\* at most one caller past the coalescing window, and what each may rely on.
THEOREM SchedulerHolds == Spec => []SchedulerInv
<1>1. SchedulerInv /\ [Next]_vars => SchedulerInv'
  <2>. SUFFICES ASSUME SchedulerInv, [Next]_vars PROVE SchedulerInv'
    OBVIOUS
  <2>1. CASE Boot BY <2>1, BootKeeps
  <2>2. ASSUME NEW t \in Thread, ThreadStep(t) \/ SaveFails(t) PROVE SchedulerInv'
    BY <2>2, LinkedKeeps, StopsKeeps, CycleStartsKeeps, FetchEndsKeeps, FetchFailsKeeps,
       RepairedKeeps, SavedKeeps, SaveFailsKeeps, ReportedKeeps, WakesKeeps, CleanupKeeps DEF ThreadStep
  <2>3. ASSUME NEW c \in Caller, \/ OpenConfig(c)
                                 \/ SaveConfig(c)
                                 \/ PressRestart(c)
                                 \/ RestartStep(c)
        PROVE  SchedulerInv'
    BY <2>3, OpenConfigKeeps, SaveConfigKeeps, PressRestartKeeps, RateLimitedKeeps, RequestKeeps,
       JoinedKeeps, JoinTimesOutKeeps, StartsKeeps DEF RestartStep
  <2>4. CASE Tick BY <2>4, TickKeeps
  <2>5. CASE Relaunch BY <2>5, RelaunchKeeps
  <2>6. CASE UNCHANGED vars BY <2>6, StutterKeeps
  <2>7. QED BY <2>1, <2>2, <2>3, <2>4, <2>5, <2>6 DEF Next
<1>2. QED BY <1>1, InitHolds, PTL DEF Spec

\* Every reachable state of the scheduler has its type.
THEOREM TypeCorrect == Spec => []TypeOK
<1>1. SchedulerInv => TypeOK
  BY DEF SchedulerInv
<1>2. QED BY <1>1, SchedulerHolds, PTL

\* Two refresh loops never run at once: a thread that works is alive, and the
\* only one alive is the one control.py knows.
THEOREM SingleSchedulerHolds == Spec => []SingleScheduler
<1>1. SchedulerInv => SingleScheduler
  BY DEF SchedulerInv, Alone, SingleScheduler, Working, Alive
<1>2. QED BY <1>1, SchedulerHolds, PTL

\* state.json keeps the last success through failures, restarts and failed saves.
THEOREM SuccessKeptHolds == Spec => []SuccessKept
<1>1. SchedulerInv => SuccessKept
  BY DEF SchedulerInv
<1>2. QED BY <1>1, SchedulerHolds, PTL

\* A caller told that the scheduler has started leaves a fresh one running: if a
\* thread is in place by then it serves the caller, otherwise a new one does.
THEOREM StartedFreshHolds == Spec => StartedIsFresh
<1>. DEFINE Left(c) == call[c] = "starting" /\ call'[c] = "idle" /\ faults' = faults
            Good(c) == /\ thread' # NoThread
                       /\ pc'[thread'] # "gone"
                       /\ thread' \notin stop'
                       /\ (cycle'[thread'] = 0 \/ cycle'[thread'] >= asked[c])
<1>1. ASSUME SchedulerInv, [Next]_vars, NEW c \in Caller, Left(c) PROVE Good(c)
  <2>1. Starts(c)
    <3>. USE <1>1 DEF SchedulerInv, TypeOK
    <3>1. CASE Boot BY <3>1 DEF Boot, callVars
    <3>2. ASSUME NEW t \in Thread, ThreadStep(t) \/ SaveFails(t) PROVE FALSE
      BY <3>2 DEF ThreadStep, Linked, Stops, CycleStarts, FetchEnds, FetchFails, Repaired,
         Saved, SaveFails, Reported, Wakes, Cleanup, callVars
    <3>3. ASSUME NEW d \in Caller, OpenConfig(d) \/ SaveConfig(d) \/ PressRestart(d) PROVE FALSE
      BY <3>3 DEF OpenConfig, SaveConfig, PressRestart
    <3>4. ASSUME NEW d \in Caller, RestartStep(d), ~Starts(d) PROVE FALSE
      BY <3>4 DEF RestartStep, RateLimited, Request, Joined, JoinTimesOut
    <3>5. ASSUME NEW d \in Caller, Starts(d) PROVE d = c
      BY <3>5 DEF Starts
    <3>6. CASE Tick BY <3>6 DEF Tick
    <3>7. CASE Relaunch BY <3>7 DEF Relaunch
    <3>8. CASE UNCHANGED vars BY <3>8 DEF vars, callVars
    <3>9. QED BY <3>1, <3>2, <3>3, <3>4, <3>5, <3>6, <3>7, <3>8 DEF Next, RestartStep
  <2>2. CASE Running
    <3>1. Serves(c) /\ Alive(thread)
      BY <1>1, <2>2 DEF SchedulerInv, RestartRecord, Alone
    <3>2. UNCHANGED <<thread, stop, pc, cycle>>
      BY <2>1, <2>2, <3>1 DEF Starts, StartThread, threadVars
    <3>3. QED BY <2>2, <3>1, <3>2 DEF Serves, Alive, Running
  <2>3. CASE ~Running
    <3>1. PICK t \in Thread : /\ pc[t] = "gone"
                              /\ thread' = t
                              /\ pc' = [pc EXCEPT ![t] = "linking"]
                              /\ UNCHANGED <<stop, cycle>>
      BY <2>1, <2>3 DEF Starts, StartThread, Fresh
    <3>2. t \notin stop /\ cycle[t] = 0
      BY <1>1, <3>1 DEF SchedulerInv, CleanSlate, Alive
    <3>3. QED BY <1>1, <3>1, <3>2 DEF SchedulerInv, TypeOK
  <2>4. QED BY <2>2, <2>3
<1>2. SchedulerInv /\ [Next]_vars => [\A c \in Caller : Left(c) => Good(c)]_vars
  BY <1>1
<1>3. QED BY <1>2, SchedulerHolds, PTL DEF Spec, StartedIsFresh

\* Only a loop starting up or in a cycle makes a caller give up: one that was
\* between two cycles leaves before time passes, so none of the join's is used up.
THEOREM OnlyCycleHolds == Spec => OnlyACycleHoldsItUp
<1>. DEFINE Left(c) == call[c] = "joining" /\ call'[c] = "idle" /\ faults' = faults
<1>1. ASSUME SchedulerInv, [Next]_vars, NEW c \in Caller, Left(c) PROVE busy[c]
  <2>1. left[c] = 0
    <3>. USE <1>1 DEF SchedulerInv, TypeOK
    <3>1. CASE Boot BY <3>1 DEF Boot, callVars
    <3>2. ASSUME NEW t \in Thread, ThreadStep(t) \/ SaveFails(t) PROVE FALSE
      BY <3>2 DEF ThreadStep, Linked, Stops, CycleStarts, FetchEnds, FetchFails, Repaired,
         Saved, SaveFails, Reported, Wakes, Cleanup, callVars
    <3>3. ASSUME NEW d \in Caller, OpenConfig(d) \/ SaveConfig(d) \/ PressRestart(d) PROVE FALSE
      BY <3>3 DEF OpenConfig, SaveConfig, PressRestart
    <3>4. ASSUME NEW d \in Caller, RestartStep(d) PROVE left[c] = 0
      BY <3>4 DEF RestartStep, RateLimited, Request, Joined, JoinTimesOut, Starts
    <3>5. CASE Tick BY <3>5 DEF Tick
    <3>6. CASE Relaunch BY <3>6 DEF Relaunch
    <3>7. CASE UNCHANGED vars BY <3>7 DEF vars, callVars
    <3>8. QED BY <3>1, <3>2, <3>3, <3>4, <3>5, <3>6, <3>7 DEF Next
  <2>2. Join # 0
    OBVIOUS
  <2>3. QED BY <1>1, <2>1, <2>2 DEF SchedulerInv, Patience
<1>2. SchedulerInv /\ [Next]_vars => [\A c \in Caller : Left(c) => busy[c]]_vars
  BY <1>1
<1>3. QED BY <1>2, SchedulerHolds, PTL DEF Spec, OnlyACycleHoldsItUp

\* A loop told to stop begins no further cycle.
THEOREM StopObeyedHolds == Spec => StopIsObeyed
<1>. DEFINE Stopped(t) == t \in stop /\ pc[t] # "gone" /\ pc'[t] # "gone"
<1>1. ASSUME SchedulerInv, [Next]_vars, NEW t \in Thread, Stopped(t)
      PROVE  cycle'[t] = cycle[t]
  <2>. USE <1>1 DEF SchedulerInv, TypeOK
  <2>1. CASE Boot
    BY <2>1 DEF Boot, StartThread, threadVars
  <2>2. ASSUME NEW u \in Thread, ThreadStep(u) \/ SaveFails(u) PROVE cycle'[t] = cycle[t]
    BY <2>2 DEF ThreadStep, Linked, Stops, CycleStarts, FetchEnds, FetchFails, Repaired, Saved,
       SaveFails, Reported, Wakes, Cleanup
  <2>3. ASSUME NEW c \in Caller, \/ OpenConfig(c)
                                 \/ SaveConfig(c)
                                 \/ PressRestart(c)
                                 \/ RestartStep(c)
        PROVE  cycle'[t] = cycle[t]
    BY <2>3 DEF OpenConfig, SaveConfig, PressRestart, RestartStep, RateLimited, Request, Joined,
       JoinTimesOut, Starts, StartThread, threadVars
  <2>4. CASE Tick BY <2>4 DEF Tick, threadVars
  <2>5. CASE Relaunch BY <2>5 DEF Relaunch
  <2>6. CASE UNCHANGED vars BY <2>6 DEF vars, threadVars
  <2>7. QED BY <2>1, <2>2, <2>3, <2>4, <2>5, <2>6 DEF Next
<1>2. SchedulerInv /\ [Next]_vars => [\A t \in Thread : Stopped(t) => cycle'[t] = cycle[t]]_vars
  BY <1>1
<1>3. QED BY <1>2, SchedulerHolds, PTL DEF Spec, StopIsObeyed
=============================================================================
