---------------------------- MODULE ReceiverLink ----------------------------
(***************************************************************************)
(* The desktop's hold on its Relay Access receiver: the credential file, the *)
(* cached access state, the selected data route, the journal of a route       *)
(* change, and the requests that activate, check and release the receiver     *)
(* (src/localflight/ui/server.py, storage/install.py, route_transition.py).    *)
(*                                                                         *)
(* Two actors: the wizard, one request of the setup page at a time, and the   *)
(* loop that retries a release.  Every request to the relay takes effect in    *)
(* one step and is answered in another, and either half may be lost.           *)
(***************************************************************************)
EXTENDS Integers

CONSTANTS
    Credential,  \* credentials the relay may issue to this installation
    FreeRoute,   \* byok and vatsim
    Relay,       \* the third data route
    Null,
    MaxFaults,   \* bound: lost or refused requests and failed writes
    MaxCrashes   \* bound: ends of the process

ASSUME LinkAssumption ==
    /\ Null \notin Credential
    /\ Relay \notin FreeRoute /\ Null \notin FreeRoute /\ Null # Relay
    /\ FreeRoute # {}
    /\ MaxFaults \in Nat /\ MaxCrashes \in Nat

VARIABLES
    receiver,  \* relay_activations.status of each credential
    file,      \* the credential file
    state,     \* relay_state in the cached summary
    held,      \* release_retry_not_before lies ahead
    route,     \* data_route of config.json
    keys,      \* the route whose provider values .env holds
    journal,   \* data_route_transition.json: <<target, stage>> or NoJournal
    job,       \* what each actor is doing
    up,        \* the process runs
    torn,      \* history: the journal never told of new keys, or stayed behind and
               \* met a later change
    faults, crashes

deviceVars == <<file, state, held, route, keys, journal>>
boundVars == <<faults, crashes>>
linkVars == <<receiver, deviceVars, job, up, torn, boundVars>>

Route == FreeRoute \cup {Relay}
Actor == {"wizard", "loop"}
NoJournal == <<Null, "none">>
Idle == [phase |-> "idle", cred |-> Null, answer |-> Null, goal |-> Null,
         was |-> Null, changing |-> FALSE]

Job ==
    [phase : {"idle", "check", "checked", "prepare", "prepared", "commit", "committed",
              "undo", "undone", "begin", "keys", "keys_saved", "route", "route_saved",
              "read", "release", "released", "close"},
     cred : Credential \cup {Null},
     answer : {Null, "ok", "refused", "limited", "lost"},
     goal : Route \cup {Null, "refused", "limited", "lost", "storage"},
     was : Route \cup {Null},
     changing : BOOLEAN]

LinkTypeOK ==
    /\ receiver \in [Credential -> {"unissued", "pending", "active", "over"}]
    /\ file \in Credential \cup {Null}
    /\ state \in {"none", "active", "inactive", "unreachable", "release_pending"}
    /\ held \in BOOLEAN /\ up \in BOOLEAN /\ torn \in BOOLEAN
    /\ route \in Route /\ keys \in Route
    /\ journal \in {NoJournal} \cup (Route \X {"started", "provider_saved", "route_saved"})
    /\ job \in [Actor -> Job]
    /\ faults \in 0..MaxFaults /\ crashes \in 0..MaxCrashes

LinkInit ==
    /\ receiver = [c \in Credential |-> "unissued"]
    /\ file = Null /\ state = "none" /\ held = FALSE
    /\ route \in Route /\ keys = route
    /\ journal = NoJournal
    /\ job = [a \in Actor |-> Idle]
    /\ up = TRUE /\ torn = FALSE
    /\ faults = 0 /\ crashes = 0
-----------------------------------------------------------------------------
(* Helpers                                                                 *)

\* get_relay_access_summary: the cached state as far as the file bears it out.
Shown ==
    IF file # Null /\ state = "none" THEN "inactive"
    ELSE IF file = Null /\ state \in {"active", "release_pending"} THEN "none"
    ELSE state

\* Mutated form: a check that got no answer always shows the relay unreachable.
AlwaysUnreachable(answer) ==
    IF answer \in {"limited", "lost"} THEN "unreachable" ELSE "inactive"

\* _mark_access_failure.
Failed(answer) ==
    IF answer \in {"limited", "lost"}
    THEN IF Shown = "release_pending" THEN "release_pending" ELSE "unreachable"
    ELSE "inactive"

Go(a, phase) == job' = [job EXCEPT ![a].phase = phase]
Stop(a) == job' = [job EXCEPT ![a] = Idle]
At(a, phase) == up /\ job[a].phase = phase

Fault == faults < MaxFaults /\ faults' = faults + 1
NoFault == UNCHANGED faults

\* The end of a receiver; a preparation that expected it cannot commit any more.
Over(c) ==
    [d \in Credential |->
       IF \/ d = c /\ receiver[d] \in {"pending", "active"}
          \/ receiver[c] = "active" /\ receiver[d] = "pending"
       THEN "over" ELSE receiver[d]]

\* The relay carries a request out and answers it; or the answer is lost; or
\* the request is, or it is turned away by a rate limit or a busy server.
Served(a, phase, after, answer) ==
    /\ \/ /\ receiver' = after /\ NoFault
          /\ job' = [job EXCEPT ![a].phase = phase, ![a].answer = answer]
       \/ /\ receiver' = after /\ Fault
          /\ job' = [job EXCEPT ![a].phase = phase, ![a].answer = "lost"]
       \/ /\ receiver' = receiver /\ Fault
          /\ \E lost \in {"limited", "lost"} :
               job' = [job EXCEPT ![a].phase = phase, ![a].answer = lost]
    /\ UNCHANGED <<deviceVars, up, torn, crashes>>
-----------------------------------------------------------------------------
(* Checking the receiver                                                   *)

\* setup_client_status, or the check with which setup_complete begins when the
\* relay is chosen.
StartCheck(goal) ==
    /\ At("wizard", "idle") /\ file # Null
    /\ job' = [job EXCEPT !["wizard"] =
                 [Idle EXCEPT !.phase = "check", !.cred = file, !.goal = goal]]
    /\ UNCHANGED <<receiver, deviceVars, up, torn, boundVars>>

\* The receiver may be in its seat and its license not authorized.
RelayChecks ==
    /\ At("wizard", "check")
    /\ \/ /\ receiver[job["wizard"].cred] = "active"
          /\ Served("wizard", "checked", receiver, "ok")
       \/ Served("wizard", "checked", receiver, "refused")

Checked ==
    LET j == job["wizard"] IN
    /\ At("wizard", "checked")
    /\ state' = IF j.answer = "ok" THEN "active" ELSE Failed(j.answer)
    /\ IF j.answer = "ok" /\ j.goal # Null THEN Go("wizard", "begin") ELSE Stop("wizard")
    /\ UNCHANGED <<receiver, file, held, route, keys, journal, up, torn, boundVars>>
-----------------------------------------------------------------------------
(* Activating: prepare, store, commit                                      *)

StartActivate ==
    /\ At("wizard", "idle")
    /\ Go("wizard", "prepare")
    /\ UNCHANGED <<receiver, deviceVars, up, torn, boundVars>>

\* A preparation supersedes the one before it; or the key is not accepted, or
\* the seat is another device's.
RelayPrepares ==
    /\ At("wizard", "prepare")
    /\ \/ \E c \in Credential :
            /\ receiver[c] = "unissued"
            /\ receiver' = [d \in Credential |->
                 IF d = c THEN "pending"
                 ELSE IF receiver[d] = "pending" THEN "over" ELSE receiver[d]]
            /\ \/ /\ job' = [job EXCEPT !["wizard"].phase = "prepared",
                               !["wizard"].cred = c, !["wizard"].answer = "ok"]
                  /\ NoFault
               \/ /\ job' = [job EXCEPT !["wizard"].phase = "prepared",
                               !["wizard"].answer = "lost"]
                  /\ Fault
            /\ UNCHANGED <<deviceVars, up, torn, crashes>>
       \/ Served("wizard", "prepared", receiver, "refused")

\* A seat that is in use, and an answer that was lost, mark nothing.
PrepareFailed ==
    LET j == job["wizard"] IN
    /\ At("wizard", "prepared") /\ j.answer # "ok"
    /\ \/ j.answer \in {"refused", "lost"} /\ state' = state
       \/ j.answer # "lost" /\ state' = Failed(j.answer)
    /\ Stop("wizard")
    /\ UNCHANGED <<receiver, file, held, route, keys, journal, up, torn, boundVars>>

\* set_activation_token, and the request to commit.
Store ==
    LET j == job["wizard"] IN
    /\ At("wizard", "prepared") /\ j.answer = "ok"
    /\ file' = j.cred
    /\ Go("wizard", "commit")
    /\ UNCHANGED <<receiver, state, held, route, keys, journal, up, torn, boundVars>>

\* The file cannot be written: forget what is stored and undo the preparation.
StoreFails ==
    /\ At("wizard", "prepared") /\ job["wizard"].answer = "ok"
    /\ Fault
    /\ file' = Null /\ state' = "none" /\ held' = FALSE
    /\ job' = [job EXCEPT !["wizard"].phase = "undo", !["wizard"].goal = "storage"]
    /\ UNCHANGED <<receiver, route, keys, journal, up, torn, crashes>>

RelayCommits ==
    LET c == job["wizard"].cred IN
    /\ At("wizard", "commit")
    /\ IF receiver[c] \in {"pending", "active"}
       THEN Served("wizard", "committed",
                   [d \in Credential |->
                      IF d = c THEN "active"
                      ELSE IF receiver[d] = "active" THEN "over" ELSE receiver[d]],
                   "ok")
       ELSE Served("wizard", "committed", receiver, "refused")

Committed ==
    LET j == job["wizard"] IN
    /\ At("wizard", "committed")
    /\ IF j.answer = "ok"
       THEN state' = "active" /\ Stop("wizard")
       ELSE /\ state' = state
            /\ job' = [job EXCEPT !["wizard"].phase = "undo", !["wizard"].goal = j.answer]
    /\ UNCHANGED <<receiver, file, held, route, keys, journal, up, torn, boundVars>>

RelayUndoes ==
    /\ At("wizard", "undo")
    /\ Served("wizard", "undone", Over(job["wizard"].cred), "ok")

\* Whatever became of the request: clear_activation_token, then mark the failure.
Undone ==
    LET j == job["wizard"] IN
    /\ At("wizard", "undone")
    /\ IF j.goal = "storage"
       THEN UNCHANGED <<file, state, held>>
       ELSE /\ file' = Null /\ held' = FALSE
            /\ state' = IF j.goal = "refused" THEN "inactive" ELSE "unreachable"
    /\ Stop("wizard")
    /\ UNCHANGED <<receiver, route, keys, journal, up, torn, boundVars>>
-----------------------------------------------------------------------------
(* Releasing: _deactivate_local_relay, for a request, for setup, for the loop *)

AfterRelease(a) == IF job[a].goal \in FreeRoute THEN "close" ELSE "idle"
Ended(a) == IF AfterRelease(a) = "idle" THEN Idle ELSE [job[a] EXCEPT !.phase = "close"]

StartRelease ==
    /\ At("wizard", "idle")
    /\ Go("wizard", "read")
    /\ UNCHANGED <<receiver, deviceVars, up, torn, boundVars>>

\* _retry_pending_relay_release_once up to its thread.
LoopStarts ==
    /\ At("loop", "idle")
    /\ Shown = "release_pending" /\ ~held /\ route # Relay
    /\ Go("loop", "read")
    /\ UNCHANGED <<receiver, deviceVars, up, torn, boundVars>>

ReadCredential(a) ==
    /\ At(a, "read")
    /\ IF file = Null
       THEN state' = "none" /\ job' = [job EXCEPT ![a] = Ended(a)]
       ELSE state' = state /\ job' = [job EXCEPT ![a].phase = "release", ![a].cred = file]
    /\ UNCHANGED <<receiver, file, held, route, keys, journal, up, torn, boundVars>>

RelayReleases(a) ==
    /\ At(a, "release")
    /\ Served(a, "released", Over(job[a].cred), "ok")

\* Mutated form: the credential goes whatever the relay said.
ForgetAnyway(a) ==
    /\ At(a, "released")
    /\ file' = Null /\ held' = FALSE /\ state' = "inactive"
    /\ job' = [job EXCEPT ![a] = Ended(a)]
    /\ UNCHANGED <<receiver, route, keys, journal, up, torn, boundVars>>

\* clear_activation_token when the relay has let go, another try in five
\* minutes, or when it says, when not.
Released(a) ==
    /\ At(a, "released")
    /\ IF job[a].answer = "ok"
       THEN file' = Null /\ held' = FALSE /\ state' = "inactive"
       ELSE file' = file /\ held' = TRUE /\ state' = "release_pending"
    /\ job' = [job EXCEPT ![a] = Ended(a)]
    /\ UNCHANGED <<receiver, route, keys, journal, up, torn, boundVars>>

Wait ==
    /\ held
    /\ held' = FALSE
    /\ UNCHANGED <<receiver, file, state, route, keys, journal, job, up, torn, boundVars>>
-----------------------------------------------------------------------------
(* Changing the route: setup_complete                                      *)

StartFree(target) ==
    /\ At("wizard", "idle")
    /\ job' = [job EXCEPT !["wizard"] =
                 [Idle EXCEPT !.phase = "begin", !.cred = file, !.goal = target]]
    /\ UNCHANGED <<receiver, deviceVars, up, torn, boundVars>>

Changing == job["wizard"].changing

\* transition_started, and with it a journal.
Starts == LET j == job["wizard"] IN j.goal # route \/ (j.cred # Null /\ j.goal # Relay)

Begin ==
    LET j == job["wizard"] IN
    /\ At("wizard", "begin")
    /\ \/ /\ journal' = IF Starts THEN <<j.goal, "started">> ELSE journal
          /\ job' = [job EXCEPT !["wizard"].phase = "keys",
                               !["wizard"].was = keys, !["wizard"].changing = Starts]
          /\ NoFault
       \/ /\ Starts /\ Fault
          /\ journal' = journal /\ Stop("wizard")
    /\ UNCHANGED <<receiver, file, state, held, route, keys, up, torn, crashes>>

SaveKeys ==
    /\ At("wizard", "keys")
    /\ \/ /\ keys' = job["wizard"].goal /\ NoFault
          /\ Go("wizard", IF Changing THEN "keys_saved" ELSE "route")
          /\ journal' = journal
       \/ /\ Fault /\ keys' = keys /\ Stop("wizard")
          /\ journal' \in IF Changing THEN {NoJournal, journal} ELSE {journal}
    /\ UNCHANGED <<receiver, file, state, held, route, up, torn, crashes>>

MarkKeys ==
    /\ At("wizard", "keys_saved")
    /\ \/ /\ journal' = <<job["wizard"].goal, "provider_saved">> /\ NoFault
          /\ Go("wizard", "route") /\ torn' = torn
       \/ Fault /\ journal' = journal /\ torn' = TRUE /\ Stop("wizard")
    /\ UNCHANGED <<receiver, file, state, held, route, keys, up, crashes>>

\* Mutated form: the old keys are not put back.
SaveRouteKeepsKeys ==
    LET j == job["wizard"] IN
    /\ At("wizard", "route")
    /\ \/ /\ route' = j.goal /\ NoFault
          /\ Go("wizard", IF Changing THEN "route_saved" ELSE "close")
          /\ UNCHANGED <<keys, journal>>
       \/ /\ Fault /\ route' = route /\ Stop("wizard")
          /\ journal' = NoJournal /\ keys' = keys
    /\ UNCHANGED <<receiver, file, state, held, up, torn, crashes>>

\* A route that cannot be saved puts the old keys back and ends the change; if
\* that fails too, the journal stays.
SaveRoute ==
    LET j == job["wizard"] IN
    /\ At("wizard", "route")
    /\ \/ /\ route' = j.goal /\ NoFault
          /\ Go("wizard", IF Changing THEN "route_saved" ELSE "close")
          /\ UNCHANGED <<keys, journal, torn>>
       \/ /\ Fault /\ route' = route /\ Stop("wizard")
          /\ \/ /\ keys' = j.was /\ journal' = NoJournal
                /\ torn' = torn
             \/ torn' = TRUE /\ UNCHANGED <<keys, journal>>
    /\ UNCHANGED <<receiver, file, state, held, up, crashes>>

MarkRoute ==
    LET j == job["wizard"] IN
    /\ At("wizard", "route_saved")
    /\ \/ /\ journal' = <<j.goal, "route_saved">> /\ NoFault
          /\ Go("wizard", IF j.goal # Relay /\ j.cred # Null THEN "read" ELSE "close")
       \/ Fault /\ journal' = journal /\ Stop("wizard")
    /\ UNCHANGED <<receiver, file, state, held, route, keys, up, torn, crashes>>

Close ==
    /\ At("wizard", "close")
    /\ journal' = IF Changing THEN NoJournal ELSE journal
    /\ Stop("wizard")
    /\ UNCHANGED <<receiver, file, state, held, route, keys, up, torn, boundVars>>
-----------------------------------------------------------------------------
(* Crash, and recovery at the next start                                   *)

Crash ==
    /\ up /\ crashes < MaxCrashes
    /\ crashes' = crashes + 1
    /\ up' = FALSE
    /\ job' = [a \in Actor |-> Idle]
    /\ torn' = (torn \/ job["wizard"].phase = "keys_saved")
    /\ UNCHANGED <<receiver, deviceVars, faults>>

\* Mutated form: the credential of an interrupted change is left as it was.
RecoverRouteOnly ==
    IF journal[2] = "started" /\ route # journal[1]
    THEN UNCHANGED <<route, state, held>>
    ELSE route' = journal[1] /\ UNCHANGED <<state, held>>

\* _recover_data_route_transition.
Recover ==
    IF journal[2] = "started" /\ route # journal[1]
    THEN UNCHANGED <<route, state, held>>
    ELSE /\ route' = journal[1]
         /\ IF journal[1] # Relay /\ file # Null
            THEN state' = "release_pending" /\ held' = FALSE
            ELSE UNCHANGED <<state, held>>

Restart ==
    /\ ~up /\ up' = TRUE
    /\ \/ /\ journal = NoJournal /\ NoFault
          /\ UNCHANGED <<journal, route, state, held, torn>>
       \/ /\ journal # NoJournal /\ NoFault
          /\ Recover /\ journal' = NoJournal /\ torn' = torn
       \/ /\ journal # NoJournal /\ Fault
          /\ torn' = TRUE /\ UNCHANGED <<journal, route, state, held>>
    /\ UNCHANGED <<receiver, file, keys, job, crashes>>

\* The relay ends a receiver on its own: moved, revoked, expired, refunded.
RelayEnds(c) ==
    /\ receiver[c] \in {"pending", "active"}
    /\ receiver' = Over(c)
    /\ UNCHANGED <<deviceVars, job, up, torn, boundVars>>
-----------------------------------------------------------------------------
WizardGoesOn ==
    \/ RelayChecks \/ Checked
    \/ RelayPrepares \/ PrepareFailed \/ Store \/ StoreFails
    \/ RelayCommits \/ Committed \/ RelayUndoes \/ Undone
    \/ ReadCredential("wizard") \/ RelayReleases("wizard") \/ Released("wizard")
    \/ Begin \/ SaveKeys \/ MarkKeys \/ SaveRoute \/ MarkRoute \/ Close

LoopStep ==
    \/ LoopStarts
    \/ ReadCredential("loop") \/ RelayReleases("loop") \/ Released("loop")

LinkNext ==
    \/ StartCheck(Null) \/ StartCheck(Relay)
    \/ StartActivate \/ StartRelease
    \/ \E target \in FreeRoute : StartFree(target)
    \/ WizardGoesOn
    \/ LoopStep \/ Wait
    \/ Crash \/ Restart
    \/ \E c \in Credential : RelayEnds(c)

LinkSpec == LinkInit /\ [][LinkNext]_linkVars

LinkFairSpec ==
    /\ LinkSpec
    /\ WF_linkVars(WizardGoesOn) /\ WF_linkVars(LoopStep)
    /\ WF_linkVars(Wait) /\ WF_linkVars(Restart)
-----------------------------------------------------------------------------
(* Properties                                                              *)

\* runtime_route: the route runtime must obey during a change.
RuntimeRoute ==
    IF journal[1] \in FreeRoute \/ journal = <<Relay, "route_saved">>
    THEN journal[1] ELSE route

\* get_activation_token returns the credential.
Usable == file # Null /\ RuntimeRoute = Relay /\ state = "active"

AtRest == up /\ \A a \in Actor : job[a].phase = "idle"

\* The saved route has its own provider keys whenever no request is under way
\* and no journal is left for the next start to work off, whichever write
\* failed and wherever the process ended - except between the new keys and the
\* journal entry that tells of them, and when undoing a change, or the recovery at
\* a start, fails too and leaves its journal to later ones (server.py:1820-1865).
KeysFollowRoute == AtRest /\ journal = NoJournal /\ ~torn => keys = route

\* One receiver of this installation at most holds the seat, what is stored
\* was issued, and keys and route agree.
LinkInv ==
    /\ LinkTypeOK
    /\ \A c, d \in Credential :
         receiver[c] = "active" /\ receiver[d] = "active" => c = d
    /\ file # Null => receiver[file] # "unissued"
    /\ KeysFollowRoute

\* A change to a free route that is completed, by its request or by the next
\* start, leaves no credential, or one that waits for its release
\* (server.py:307-323 and 1873-1876).
Completes == ~up \/ job["wizard"].phase = "close"
SwitchLeavesNoReceiver ==
    [][/\ journal[1] \in FreeRoute /\ journal' = NoJournal /\ Completes
       /\ route' = journal[1]
       => file' = Null \/ state' = "release_pending"]_linkVars

\* The desktop forgets a credential only after the relay has let go of its
\* receiver.  Three exceptions: a release that comes home to another credential
\* than the one it released, the undoing of a failed activation that did not
\* get through, and a file that cannot be written (server.py:1024, 1489-1502
\* and 1446).
ComesHomeToAnother == \E a \in Actor : job[a].phase = "released" /\ job[a].cred # file
UndoUnheard == job["wizard"].phase = "undone" /\ job["wizard"].answer # "ok"
StorageFailed == job["wizard"].phase = "prepared"
ReleasedBeforeForgotten ==
    [][file # Null /\ file' = Null =>
         \/ receiver[file] = "over"
         \/ ComesHomeToAnother \/ UndoUnheard \/ StorageFailed]_linkVars

\* A release that could not reach the relay is repeated, across restarts, until
\* the credential is gone - unless the user returns to the relay, or a status
\* check says the receiver is active or refused (server.py:327-357).
Waiting == Shown = "release_pending" /\ route \in FreeRoute
ReleaseKeptUp ==
    Waiting ~> \/ file = Null \/ route = Relay \/ state \in {"active", "inactive"}

\* What the answer to a deferred release says: "Relay Access will be released
\* when this desktop can reach Beacon Relay again" (server.py:1019).
ReleaseComesTrue ==
    \A c \in Credential :
      Waiting /\ file = c ~> receiver[c] = "over" \/ route = Relay
=============================================================================
