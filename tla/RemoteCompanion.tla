--------------------------- MODULE RemoteCompanion ---------------------------
(***************************************************************************)
(* The remote companion relay: a desktop host keeps one websocket to the     *)
(* relay (sources/web/remote_companion_agent.py), a phone posts encrypted    *)
(* requests to the relay, and the relay forwards them to the host's session  *)
(* and waits for the answer (relay/main.py).                                *)
(*                                                                         *)
(* One installation.  The relay's coroutines interleave only where they      *)
(* await, so what stands between two awaits is one action.  A socket may      *)
(* break without either side noticing at once, a handshake may arrive after   *)
(* the host has given up on it, both processes may end, and the ten minutes    *)
(* for which the host remembers a request may run out.  A call that is refused  *)
(* before it looks for a session (size, grant, rates) is no action.            *)
(***************************************************************************)
EXTENDS Integers, Sequences, FiniteSets

CONSTANTS Request,      \* ids drawn by the phone, with their encrypted contents
          Call,         \* posts that reach the relay
          Activation,   \* receiver activations of the installation
          MaxSessions,  \* bound: sessions, numbered in the order of their tickets
          MaxPending,   \* unanswered calls a session may have (8)
          MaxChanges,   \* bound: changes of the receiver's authority
          MaxFaults,    \* bound: broken sockets, lost handshakes, errors, restarts
          MaxLapses,    \* bound: how often the host's memory of an id may run out
          None

ASSUME CompanionAssumption ==
    /\ MaxSessions \in Nat
    /\ MaxPending \in Nat \ {0}
    /\ MaxChanges \in Nat
    /\ MaxFaults \in Nat
    /\ MaxLapses \in Nat
    /\ Activation # {}
    /\ None \notin Activation \cup Call \cup Request \cup Nat

Session == 1..MaxSessions

VARIABLES
    seat,        \* the activation whose authority holds, or None
    coro,        \* the relay's coroutine of each session
    act,         \* activation_id of each session
    registered,  \* _REMOTE_COMPANION_HOSTS[install_ref]
    pending,     \* session.pending: the call whose future stands under an id
    cut,         \* sessions whose socket is broken
    down, up,    \* messages on their way to the host and to the relay
    agent,       \* the session the host is in, or None
    work,        \* what the host is at
    seen,        \* _REPLAY_CACHE
    id,          \* the request each call carries; a network may repeat a post
    at, via,     \* where each call is, and the session it went to
    future,      \* the call's future
    runs,        \* history: how often the host carried out a request
    latest,      \* history: the session that registered last
    late,        \* history: a session registered over a newer one
    lapses,      \* history: how often the host lost an id from the cache
    changes, faults

relayVars == <<coro, act, registered, latest, late>>
callVars == <<id, at, via, future, pending>>
hostVars == <<agent, work, seen, runs, lapses>>
netVars == <<cut, down, up>>
vars == <<seat, relayVars, callVars, hostVars, netVars, changes, faults>>

Free == [phase |-> "none", id |-> None, kind |-> None]
Answer == [id : Request, kind : {"done", "rejected"}]
Work == [phase : {"none", "run", "reply"}, id : Request \cup {None},
         kind : {"done", "rejected", None}]
Outcome == {"done", "rejected", "offline", "refused", "busy", "error", "timeout"}

TypeOK ==
    /\ seat \in Activation \cup {None}
    /\ coro \in [Session -> {"free", "ticket", "loop", "closing", "ended"}]
    /\ act \in [Session -> Activation \cup {None}]
    /\ registered \in Session \cup {None}
    /\ latest \in Session \cup {0}
    /\ late \in BOOLEAN
    /\ pending \in [Session -> [Request -> Call \cup {None}]]
    /\ cut \subseteq Session
    /\ down \in [Session -> Seq(Request)]
    /\ up \in [Session -> Seq(Answer)]
    /\ agent \in Session \cup {None}
    /\ work \in Work
    /\ seen \subseteq Request
    /\ id \in [Call -> Request]
    /\ at \in [Call -> {"idle", "send", "wait"} \cup Outcome]
    /\ via \in [Call -> Session \cup {None}]
    /\ future \in [Call -> {"open", "done", "rejected", "lost"}]
    /\ runs \in [Request -> Nat]
    /\ lapses \in [Request -> Nat]
    /\ changes \in 0..MaxChanges
    /\ faults \in 0..MaxFaults

Init ==
    /\ seat = CHOOSE a \in Activation : TRUE
    /\ coro = [s \in Session |-> "free"]
    /\ act = [s \in Session |-> None]
    /\ registered = None
    /\ latest = 0
    /\ late = FALSE
    /\ pending = [s \in Session |-> [r \in Request |-> None]]
    /\ cut = {}
    /\ down = [s \in Session |-> <<>>]
    /\ up = [s \in Session |-> <<>>]
    /\ agent = None
    /\ work = Free
    /\ seen = {}
    /\ id \in [Call -> Request]
    /\ at = [c \in Call |-> "idle"]
    /\ via = [c \in Call |-> None]
    /\ future = [c \in Call |-> "open"]
    /\ runs = [r \in Request |-> 0]
    /\ lapses = [r \in Request |-> 0]
    /\ changes = 0
    /\ faults = 0

Fault == faults < MaxFaults /\ faults' = faults + 1

\* Mutated: any active receiver of the installation will do.
AuthorisedByAny(s) == seat # None

\* check_receiver_authority for the session's activation.
Authorised(s) == act[s] # None /\ act[s] = seat

\* The receiver is revoked, suspended, reinstated or activated anew.
ChangeSeat(a) ==
    /\ changes < MaxChanges
    /\ a # seat
    /\ seat' = a
    /\ changes' = changes + 1
    /\ UNCHANGED <<relayVars, callVars, hostVars, netVars, faults>>
-----------------------------------------------------------------------------
(* The session's coroutine, remote_companion_host_ws.                       *)

\* The calls whose futures stand in the session's pending.
PendingCalls(s) == {c \in Call : \E r \in Request : pending[s][r] = c}

\* Their futures fail, those that are not done.
Fail(calls) ==
    future' = [c \in Call |-> IF c \in calls /\ future[c] = "open" THEN "lost" ELSE future[c]]

\* What becomes of the predecessor, and the entry in _REMOTE_COMPANION_HOSTS.
Register(s) ==
    /\ registered' = s
    /\ latest' = s
    /\ late' = (late \/ latest > s)
    /\ Fail(IF registered = None THEN {} ELSE PendingCalls(registered))

\* The ticket is consumed and the handshake answered; its receiver may have lost its
\* authority in the meantime.
Accept(s) ==
    /\ coro[s] = "ticket"
    /\ IF Authorised(s)
       THEN coro' = [coro EXCEPT ![s] = "loop"] /\ Register(s) /\ UNCHANGED cut
       ELSE /\ coro' = [coro EXCEPT ![s] = "ended"]
            /\ cut' = cut \cup {s}
            /\ UNCHANGED <<registered, latest, late, future>>
    /\ UNCHANGED <<seat, act, id, at, via, pending, hostVars, down, up, changes, faults>>

\* _record_install_profile raises, outside the try: the session stays registered.
AcceptFails(s) ==
    /\ coro[s] = "ticket"
    /\ Authorised(s)
    /\ coro' = [coro EXCEPT ![s] = "ended"]
    /\ Register(s)
    /\ cut' = cut \cup {s}
    /\ Fault
    /\ UNCHANGED <<seat, act, id, at, via, pending, hostVars, down, up, changes>>

\* The handshake never arrives, or not within the ticket's minute.
Lost(s) ==
    /\ coro[s] = "ticket"
    /\ coro' = [coro EXCEPT ![s] = "ended"]
    /\ cut' = cut \cup {s}
    /\ UNCHANGED <<seat, act, registered, latest, late, callVars, hostVars, down, up,
                   changes>>

HandshakeLost(s) == Lost(s) /\ Fault

\* The ticket of a handshake the host gave up on runs out.
TicketExpires(s) == agent # s /\ Lost(s) /\ UNCHANGED faults

\* The future under an id is taken out and resolved.
Resolve(s, m) ==
    LET c == pending[s][m.id]
    IN IF c = None THEN UNCHANGED <<pending, future>>
       ELSE /\ pending' = [pending EXCEPT ![s][m.id] = None]
            /\ future' = IF future[c] = "open" THEN [future EXCEPT ![c] = m.kind] ELSE future

\* A message is received between two checks of the authority.
Receive(s) ==
    /\ coro[s] = "loop"
    /\ up[s] # <<>>
    /\ up' = [up EXCEPT ![s] = Tail(@)]
    /\ IF Authorised(s) THEN Resolve(s, Head(up[s])) /\ UNCHANGED coro
       ELSE coro' = [coro EXCEPT ![s] = "closing"] /\ UNCHANGED <<pending, future>>
    /\ UNCHANGED <<seat, act, registered, latest, late, id, at, via, hostVars, cut, down,
                   changes, faults>>

\* Mutated: silence is not looked into.
BeatAnswered(s) ==
    /\ coro[s] = "loop"
    /\ ~Authorised(s)
    /\ up[s] # <<>>
    /\ coro' = [coro EXCEPT ![s] = "closing"]
    /\ UNCHANGED <<seat, act, registered, latest, late, callVars, hostVars, netVars,
                   changes, faults>>

\* Fifteen seconds without a message.
Beat(s) ==
    /\ coro[s] = "loop"
    /\ ~Authorised(s)
    /\ coro' = [coro EXCEPT ![s] = "closing"]
    /\ UNCHANGED <<seat, act, registered, latest, late, callVars, hostVars, netVars,
                   changes, faults>>

\* Mutated: the end of a session clears the entry, whose it may be.
EndAnyway(s) ==
    /\ coro' = [coro EXCEPT ![s] = "ended"]
    /\ cut' = cut \cup {s}
    /\ registered' = None
    /\ Fail(PendingCalls(s))
    /\ down' = [down EXCEPT ![s] = <<>>]
    /\ up' = [up EXCEPT ![s] = <<>>]
    /\ UNCHANGED <<seat, act, latest, late, id, at, via, pending, hostVars, changes>>

\* The finally branch.
End(s) ==
    /\ coro' = [coro EXCEPT ![s] = "ended"]
    /\ cut' = cut \cup {s}
    /\ registered' = IF registered = s THEN None ELSE registered
    /\ Fail(PendingCalls(s))
    /\ down' = [down EXCEPT ![s] = <<>>]
    /\ up' = [up EXCEPT ![s] = <<>>]
    /\ UNCHANGED <<seat, act, latest, late, id, at, via, pending, hostVars, changes>>

Close(s) == coro[s] = "closing" /\ End(s) /\ UNCHANGED faults
Disconnect(s) == coro[s] = "loop" /\ s \in cut /\ End(s) /\ UNCHANGED faults

\* Another exception: an unreadable message, a database that is locked.
LoopFails(s) == coro[s] = "loop" /\ End(s) /\ Fault

Break(s) ==
    /\ coro[s] \in {"ticket", "loop", "closing"}
    /\ s \notin cut
    /\ cut' = cut \cup {s}
    /\ Fault
    /\ UNCHANGED <<seat, relayVars, callVars, hostVars, down, up, changes>>
-----------------------------------------------------------------------------
(* A call, remote_companion_request.                                        *)

\* Up to the first await: everything before the message is sent.
Refuse(c, outcome) ==
    /\ at' = [at EXCEPT ![c] = outcome]
    /\ UNCHANGED <<id, via, future, pending>>

\* The ids in the session's pending.
Entries(s) == {r \in Request : pending[s][r] # None}

Unanswered(s) == Cardinality(Entries(s))

Room(s) == Unanswered(s) < MaxPending

Submit(c) ==
    /\ at[c] = "idle"
    /\ IF registered = None THEN Refuse(c, "offline")
       ELSE IF ~Authorised(registered) THEN Refuse(c, "refused")
       ELSE IF ~Room(registered) THEN Refuse(c, "busy")
       ELSE /\ at' = [at EXCEPT ![c] = "send"]
            /\ via' = [via EXCEPT ![c] = registered]
            /\ pending' = [pending EXCEPT ![registered][id[c]] = c]
            /\ UNCHANGED <<id, future>>
    /\ UNCHANGED <<seat, relayVars, hostVars, netVars, changes, faults>>

\* The finally branch takes out whatever stands under the id.
Done(c, outcome) ==
    /\ at' = [at EXCEPT ![c] = outcome]
    /\ pending' = [pending EXCEPT ![via[c]][id[c]] = None]
    /\ via' = [via EXCEPT ![c] = None]
    /\ future' = [future EXCEPT ![c] = "open"]
    /\ UNCHANGED id

\* send_json; a broken socket takes the message until the relay notices.
Send(c) ==
    /\ at[c] = "send"
    /\ coro[via[c]] # "ended"
    /\ at' = [at EXCEPT ![c] = "wait"]
    /\ down' = IF via[c] \in cut THEN down ELSE [down EXCEPT ![via[c]] = Append(@, id[c])]
    /\ UNCHANGED <<seat, relayVars, id, via, future, pending, hostVars, cut, up, changes,
                   faults>>

SendFails(c) ==
    /\ at[c] = "send"
    /\ via[c] \in cut
    /\ Done(c, "error")
    /\ UNCHANGED <<seat, relayVars, hostVars, netVars, changes, faults>>

\* The future is done; an answer counts only while the authority lasts.
Finish(c) ==
    /\ at[c] = "wait"
    /\ future[c] # "open"
    /\ Done(c, IF future[c] # "lost" /\ Authorised(via[c]) THEN future[c] ELSE "error")
    /\ UNCHANGED <<seat, relayVars, hostVars, netVars, changes, faults>>

\* Twenty-five seconds.
Timeout(c) ==
    /\ at[c] = "wait"
    /\ future[c] = "open"
    /\ Done(c, "timeout")
    /\ UNCHANGED <<seat, relayVars, hostVars, netVars, changes, faults>>
-----------------------------------------------------------------------------
(* The host.                                                               *)

\* _agent_session: the ticket is issued on the credential stored by the host.
GetTicket(s) ==
    /\ agent = None
    /\ seat # None
    /\ coro[s] = "free"
    /\ \A t \in 1..s - 1 : coro[t] # "free"
    /\ coro' = [coro EXCEPT ![s] = "ticket"]
    /\ act' = [act EXCEPT ![s] = seat]
    /\ agent' = s
    /\ UNCHANGED <<seat, registered, latest, late, callVars, work, seen, runs, lapses,
                   netVars, changes, faults>>

\* The host gives up on a session whose socket is broken: at once when it is idle, and
\* otherwise when it has an answer to send.  What it had not read is gone.
GiveUp ==
    /\ agent # None
    /\ agent \in cut
    /\ work.phase # "run"
    /\ agent' = None
    /\ work' = Free
    /\ down' = [down EXCEPT ![agent] = <<>>]
    /\ UNCHANGED <<seat, relayVars, callVars, seen, runs, lapses, cut, up, changes,
                   faults>>

\* The handshake takes too long: the host gives it up, and it may still arrive.
HandshakeTimeout ==
    /\ agent # None
    /\ coro[agent] = "ticket"
    /\ cut' = cut \cup {agent}
    /\ agent' = None
    /\ Fault
    /\ UNCHANGED <<seat, relayVars, callVars, work, seen, runs, lapses, down, up,
                   changes>>

\* Mutated: nothing is remembered.
TakeUnremembered ==
    /\ agent # None
    /\ work = Free
    /\ down[agent] # <<>>
    /\ down' = [down EXCEPT ![agent] = Tail(@)]
    /\ work' = [phase |-> "run", id |-> Head(down[agent]), kind |-> None]
    /\ UNCHANGED <<seat, relayVars, callVars, agent, seen, runs, lapses, cut, up,
                   changes, faults>>

\* _remember_message.
Take ==
    /\ agent # None
    /\ work = Free
    /\ down[agent] # <<>>
    /\ down' = [down EXCEPT ![agent] = Tail(@)]
    /\ LET r == Head(down[agent])
       IN /\ work' = IF r \in seen THEN [phase |-> "reply", id |-> r, kind |-> "rejected"]
                                   ELSE [phase |-> "run", id |-> r, kind |-> None]
          /\ seen' = seen \cup {r}
    /\ UNCHANGED <<seat, relayVars, callVars, agent, runs, lapses, cut, up, changes,
                   faults>>

\* _dispatch_remote_payload: the local server carries it out or does not, and may
\* have done so although its answer comes too late.
Run ==
    /\ work.phase = "run"
    /\ \E done \in BOOLEAN, kind \in {"done", "rejected"} :
          /\ kind = "done" => done
          /\ runs' = IF done THEN [runs EXCEPT ![work.id] = @ + 1] ELSE runs
          /\ work' = [work EXCEPT !.phase = "reply", !.kind = kind]
    /\ UNCHANGED <<seat, relayVars, callVars, agent, seen, lapses, netVars, changes,
                   faults>>

Reply ==
    /\ work.phase = "reply"
    /\ agent \notin cut
    /\ up' = [up EXCEPT ![agent] = Append(@, [id |-> work.id, kind |-> work.kind])]
    /\ work' = Free
    /\ UNCHANGED <<seat, relayVars, callVars, agent, seen, runs, lapses, cut, down,
                   changes, faults>>

\* Ten minutes after the host took a request, its id is in the cache no more, and an
\* envelope says nothing of its age.  No call waits, and no request is at work, for so
\* long; a repeat that is under way just then is as good as one that comes later.
Lapse(r) ==
    /\ r \in seen
    /\ work.id # r
    /\ \A c \in Call : id[c] = r => at[c] \notin {"send", "wait"}
    /\ lapses[r] < MaxLapses
    /\ seen' = seen \ {r}
    /\ lapses' = [lapses EXCEPT ![r] = @ + 1]
    /\ UNCHANGED <<seat, relayVars, callVars, agent, work, runs, netVars, changes, faults>>

HostRestarts ==
    /\ cut' = IF agent = None THEN cut ELSE cut \cup {agent}
    /\ agent' = None
    /\ work' = Free
    /\ seen' = {}
    /\ lapses' = [r \in Request |-> IF r \in seen THEN lapses[r] + 1 ELSE lapses[r]]
    /\ Fault
    /\ down' = IF agent = None THEN down ELSE [down EXCEPT ![agent] = <<>>]
    /\ UNCHANGED <<seat, relayVars, callVars, runs, up, changes>>

RelayRestarts ==
    /\ \E s \in Session : coro[s] \in {"loop", "closing"}
    /\ LET gone == {s \in Session : coro[s] \in {"loop", "closing"}}
       IN /\ coro' = [s \in Session |-> IF s \in gone THEN "ended" ELSE coro[s]]
          /\ cut' = cut \cup gone
    /\ registered' = None
    /\ pending' = [s \in Session |-> [r \in Request |-> None]]
    /\ at' = [c \in Call |-> IF at[c] \in {"send", "wait"} THEN "error" ELSE at[c]]
    /\ via' = [c \in Call |-> None]
    /\ future' = [c \in Call |-> "open"]
    /\ down' = [s \in Session |-> <<>>]
    /\ up' = [s \in Session |-> <<>>]
    /\ Fault
    /\ UNCHANGED <<seat, act, latest, late, id, hostVars, changes>>

SessionStep(s) ==
    \/ Accept(s) \/ TicketExpires(s) \/ Receive(s) \/ Beat(s) \/ Close(s) \/ Disconnect(s)
SessionFault(s) == AcceptFails(s) \/ HandshakeLost(s) \/ LoopFails(s) \/ Break(s)
CallStep(c) == Send(c) \/ SendFails(c) \/ Finish(c) \/ Timeout(c)
HostStep == (\E s \in Session : GetTicket(s)) \/ GiveUp \/ Take \/ Run \/ Reply

Next ==
    \/ \E a \in Activation \cup {None} : ChangeSeat(a)
    \/ \E s \in Session : SessionStep(s) \/ SessionFault(s)
    \/ \E c \in Call : Submit(c) \/ CallStep(c)
    \/ HostStep
    \/ \E r \in Request : Lapse(r)
    \/ HandshakeTimeout \/ HostRestarts \/ RelayRestarts

Spec == Init /\ [][Next]_vars

\* The sessions' coroutines and the host's loop go on; their awaits have timeouts.
FairSpec ==
    /\ Spec
    /\ \A s \in Session : WF_vars(SessionStep(s))
    /\ WF_vars(HostStep)
-----------------------------------------------------------------------------
(* Properties.                                                              *)

\* Every entry of pending belongs to a call that still waits on that session.
NoLeftovers ==
    \A s \in Session, r \in Request :
        pending[s][r] # None =>
            LET c == pending[s][r]
            IN id[c] = r /\ via[c] = s /\ at[c] \in {"send", "wait"}

\* A call nobody repeated keeps its place until its future is done.
Undisturbed(c) == \A d \in Call \ {c} : id[d] = id[c] => at[d] = "idle"

PlaceKept ==
    \A c \in Call :
        at[c] \in {"send", "wait"} /\ future[c] = "open" /\ Undisturbed(c)
            => pending[via[c]][id[c]] = c

\* The session that registered last is the one that is found while it runs.
LatestServes == latest # 0 /\ coro[latest] = "loop" => registered = latest

PendingBounded == \A s \in Session : Unanswered(s) <= MaxPending

SessionsKnown ==
    /\ registered # None => coro[registered] \in {"loop", "closing", "ended"}
    /\ \A s \in Session : coro[s] = "ended" => s \in cut
    /\ \A c \in Call : at[c] \in {"send", "wait"} <=> via[c] # None

\* An answer that says the request was carried out is one.
AnswersEarned ==
    \A c \in Call : at[c] = "done" => runs[id[c]] > 0

\* Over whatever sessions the network repeats a request, the host carries it out once
\* for as long as it remembers its id: again only after it lost the id, by a restart or
\* after ten minutes (_remember_message).
CarriedOutOnce == \A r \in Request : runs[r] <= 1 + lapses[r]

\* The invariants of the companion together.
CompanionInv ==
    /\ TypeOK
    /\ SessionsKnown
    /\ NoLeftovers
    /\ PlaceKept
    /\ LatestServes
    /\ PendingBounded
    /\ AnswersEarned
    /\ CarriedOutOnce

\* A call is answered only under the activation its session was opened for.
AnsweredByItsReceiver ==
    [][\A c \in Call :
          at[c] = "wait" /\ at'[c] \in {"done", "rejected"}
              => act[via[c]] = seat]_vars

\* A session whose receiver lost its authority ends, also when nobody uses it.
RevokedSessionEnds ==
    \A s \in Session :
        (coro[s] = "loop" /\ act[s] # seat) ~> (coro[s] = "ended" \/ act[s] = seat)

\* Once failures stop, a host whose receiver is in authority can be reached, unless
\* an old handshake of its own came in over a newer session.
Reachable == agent # None /\ registered = agent /\ coro[agent] = "loop" /\ agent \notin cut

HostReturns ==
    /\ <>[](seat # None)
    /\ []~late
    /\ [](agent = None => \E s \in Session : coro[s] = "free")
    => <>[]Reachable
=============================================================================
