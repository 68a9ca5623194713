---------------------------- MODULE PlayPurchases ----------------------------
(***************************************************************************)
(* One-time Google Play purchases between Google, the relay's maintenance    *)
(* loop and the requests that report them (relay/main.py, access/service.py): *)
(* daily reconciliation, acknowledgement, and the sweep of voided purchases.  *)
(*                                                                         *)
(* A verification reads Google's state, the database is written later, and   *)
(* fulfilment and the acknowledgement it queues are two transactions.  Waits  *)
(* are ticks: backing off takes one; a sweep is due again after Retry or      *)
(* Interval of them, a purchase after Day.  An older day's row that is still   *)
(* retried stands for the row of the new day.                                *)
(***************************************************************************)
EXTENDS Integers

CONSTANTS
    Token,        \* purchase tokens
    Request,      \* notifications and receipts, each sent once
    MaxAttempts,  \* attempts of a queued operation (8)
    Retry,        \* ticks until a failed sweep is repeated (15 min)
    Interval,     \* ticks between two sweeps (6 h)
    Window,       \* ticks a voided purchase is listed (7 days)
    Day,          \* ticks between two reconciliations
    MaxFaults,    \* bound: calls to Google that fail
    MaxCrashes    \* bound: restarts

ASSUME PlayAssumption ==
    /\ MaxAttempts \in Nat \ {0}
    /\ Retry \in Nat \ {0, 1}  \* a pass a minute: some come before the next try
    /\ Interval \in Nat \ {0}
    /\ Retry <= Interval
    /\ Window \in Nat
    /\ Day \in Nat \ {0}
    /\ MaxFaults \in Nat /\ MaxCrashes \in Nat

VARIABLES
    play,      \* the purchase at Google
    acked,     \* tokens Google has an acknowledgement of
    voided,    \* tokens that were refunded or charged back
    listed,    \* ticks a voided purchase stays on the list
    purchase,  \* purchase_records.state, and with it relay_licenses.status
    nextRec,   \* ticks until next_reconcile_at
    row,       \* notification_outbox: operations of channel "provider"
    event,     \* purchase_events of the voided purchases
    sweepIn,   \* ticks until _GOOGLE_VOIDED_NEXT_RUN
    dayLeft,   \* ticks until the UTC date changes
    ran,       \* a pass of the loop ended in this tick
    loop,      \* the maintenance loop: where, what is left to do, what it does
    req,       \* the requests
    missed,    \* history: passes since the last one that came to the mail
    faults, crashes

googleVars == <<play, acked, voided, listed>>
bookVars == <<purchase, nextRec, row, event>>
clockVars == <<sweepIn, dayLeft, ran, missed>>
boundVars == <<faults, crashes>>
vars == <<googleVars, bookVars, clockVars, loop, req, boundVars>>

Kind == {"acknowledge", "reconcile"}
Row == Token \X Kind
None == "none"
NoRow == <<None, None>>
Ended == {"refunded", "revoked"}
Answer == {"paid", "suspended", "revoked"}

Down(n) == IF n > 0 THEN n - 1 ELSE 0

Operation ==
    [status : {None, "pending", "sending", "lost", "failed", "due", "dead", "sent"},
     attempts : 0..MaxAttempts + MaxCrashes]
Pass ==
    [at : {"sleep", "call", "apply", "queue", "finish", "fail", "entry", "void", "settle"},
     todo : SUBSET Row,
     entries : SUBSET Token,
     row : Row \cup {NoRow},
     token : Token \cup {None},
     answer : Answer \cup {None}]
Message ==
    [at : {"unsent", "apply", "queue", "over"},
     token : Token \cup {None},
     answer : Answer \cup {None}]

TypeOK ==
    /\ play \in [Token -> {"unbought", "pending", "purchased", "cancelled"}]
    /\ acked \subseteq Token
    /\ voided \subseteq Token
    /\ listed \in [Token -> 0..Window]
    /\ purchase \in [Token -> {None, "paid", "suspended"} \cup Ended]
    /\ nextRec \in [Token -> 0..Day]
    /\ row \in [Row -> Operation]
    /\ event \in [Token -> {None, "processing", "stale", "processed",
                            "reconciliation_required"}]
    /\ sweepIn \in 0..Interval
    /\ dayLeft \in 1..Day
    /\ ran \in BOOLEAN
    /\ missed \in Nat
    /\ loop \in Pass
    /\ req \in [Request -> Message]
    /\ faults \in 0..MaxFaults
    /\ crashes \in 0..MaxCrashes

Asleep == [at |-> "sleep", todo |-> {}, entries |-> {}, row |-> NoRow, token |-> None,
           answer |-> None]

Unsent == [at |-> "unsent", token |-> None, answer |-> None]
Over == [Unsent EXCEPT !.at = "over"]

Init ==
    /\ play = [t \in Token |-> "unbought"]
    /\ acked = {}
    /\ voided = {}
    /\ listed = [t \in Token |-> 0]
    /\ purchase = [t \in Token |-> None]
    /\ nextRec = [t \in Token |-> 0]
    /\ row = [r \in Row |-> [status |-> None, attempts |-> 0]]
    /\ event = [t \in Token |-> None]
    /\ sweepIn = 0 /\ dayLeft = Day /\ ran = FALSE /\ missed = 0
    /\ loop = Asleep
    /\ req = [q \in Request |-> Unsent]
    /\ faults = 0 /\ crashes = 0

Fault == faults < MaxFaults /\ faults' = faults + 1
-----------------------------------------------------------------------------
(* Google.                                                                  *)

Order(t) ==
    /\ play[t] = "unbought"
    /\ play' = [play EXCEPT ![t] = "pending"]
    /\ UNCHANGED <<acked, voided, listed, bookVars, clockVars, loop, req, boundVars>>

Pay(t) ==
    /\ play[t] \in {"unbought", "pending"}
    /\ play' = [play EXCEPT ![t] = "purchased"]
    /\ UNCHANGED <<acked, voided, listed, bookVars, clockVars, loop, req, boundVars>>

\* The payment does not come.
Drop(t) ==
    /\ play[t] = "pending"
    /\ play' = [play EXCEPT ![t] = "cancelled"]
    /\ UNCHANGED <<acked, voided, listed, bookVars, clockVars, loop, req, boundVars>>

\* A refund, a chargeback or a purchase left unacknowledged: it is listed as voided, and
\* cancelled unless the refund leaves it to the buyer.
Void(t) ==
    /\ play[t] = "purchased" /\ t \notin voided
    /\ voided' = voided \cup {t}
    /\ listed' = [listed EXCEPT ![t] = Window]
    /\ \E s \in {"purchased", "cancelled"} : play' = [play EXCEPT ![t] = s]
    /\ UNCHANGED <<acked, bookVars, clockVars, loop, req, boundVars>>

\* What a verifier makes of purchases.productsv2.get.
Verified(t) ==
    CASE play[t] = "purchased" -> "paid"
      [] play[t] = "pending"   -> "suspended"
      [] play[t] = "cancelled" -> "revoked"
-----------------------------------------------------------------------------
(* The writes, _apply_authoritative_purchase_state.                         *)

\* Mutated form of CanFulfil.
CanFulfilAlways(t) == TRUE

\* fulfill_purchase inserts or restores, and refuses what has ended.
CanFulfil(t) == purchase[t] \notin Ended

\* update_purchase_state needs a record, and never turns one end into another state.
CanUpdate(t, state) ==
    /\ purchase[t] # None
    /\ purchase[t] \in Ended => state = purchase[t]

Applicable(t, answer) == IF answer = "paid" THEN CanFulfil(t) ELSE CanUpdate(t, answer)

Write(t, state) == purchase' = [purchase EXCEPT ![t] = state]

\* queue_provider_operation, INSERT OR IGNORE: a row that was ever there stays.
Queued(r) ==
    IF row[r].status = None THEN [row EXCEPT ![r] = [status |-> "pending", attempts |-> 0]]
                            ELSE row
-----------------------------------------------------------------------------
(* A request: a notification of Google's, or a receipt the phone sends.     *)

\* It is verified on arrival; one whose verification fails leaves nothing behind.
Arrive(q, t) ==
    /\ req[q].at = "unsent"
    /\ play[t] # "unbought"
    /\ req' = [req EXCEPT ![q] = [at |-> "apply", token |-> t, answer |-> Verified(t)]]
    /\ UNCHANGED <<googleVars, bookVars, clockVars, loop, boundVars>>

Report(q) ==
    /\ req[q].at = "apply"
    /\ IF Applicable(req[q].token, req[q].answer)
       THEN /\ Write(req[q].token, req[q].answer)
            /\ req' = [req EXCEPT ![q] = IF @.answer = "paid" THEN [@ EXCEPT !.at = "queue"]
                                                             ELSE Over]
       ELSE req' = [req EXCEPT ![q] = Over] /\ UNCHANGED purchase
    /\ UNCHANGED <<googleVars, nextRec, row, event, clockVars, loop, boundVars>>

\* A purchase that is acknowledged already was so through this row, which is kept.
ReportQueues(q) ==
    /\ req[q].at = "queue"
    /\ req' = [req EXCEPT ![q] = Over]
    /\ row' = Queued(<<req[q].token, "acknowledge">>)
    /\ UNCHANGED <<googleVars, purchase, nextRec, event, clockVars, loop, boundVars>>
-----------------------------------------------------------------------------
(* The maintenance loop: due reconciliations, then the queued operations.   *)

Due(t) == purchase[t] \notin Ended \cup {None} /\ nextRec[t] = 0

\* Mutated: an entry met in processing is never taken up again.
ClaimableUnlessLost ==
    {r \in Row : \/ row[r].status \in {"pending", "due"}
                 \/ r[2] = "reconcile" /\ Due(r[1]) /\ row[r].status = None}

\* queue_due_reconciliations adds the rows that are due; with them are claimed the waiting
\* rows, those whose delay is over, and those that have been sending for long.
Claimable ==
    {r \in Row : \/ row[r].status \in {"pending", "due", "lost"}
                 \/ r[2] = "reconcile" /\ Due(r[1]) /\ row[r].status = None}

Claim ==
    /\ loop.at = "sleep" /\ ~ran
    /\ row' = [r \in Row |-> IF r \in Claimable
                             THEN [status |-> "sending", attempts |-> row[r].attempts + 1]
                             ELSE row[r]]
    /\ loop' = [loop EXCEPT !.at = "call", !.todo = Claimable]
    /\ UNCHANGED <<googleVars, purchase, nextRec, event, clockVars, req, boundVars>>

\* Google accepts the acknowledgement of a purchase that stands.
CallAcknowledge(r) ==
    /\ loop.at = "call" /\ r \in loop.todo /\ r[2] = "acknowledge"
    /\ loop' = [loop EXCEPT !.at = IF play[r[1]] = "purchased" THEN "finish" ELSE "fail",
                            !.row = r]
    /\ acked' = IF play[r[1]] = "purchased" THEN acked \cup {r[1]} ELSE acked
    /\ UNCHANGED <<play, voided, listed, bookVars, clockVars, req, boundVars>>

CallVerify(r) ==
    /\ loop.at = "call" /\ r \in loop.todo /\ r[2] = "reconcile"
    /\ loop' = [loop EXCEPT !.at = "apply", !.row = r, !.answer = Verified(r[1])]
    /\ UNCHANGED <<googleVars, bookVars, clockVars, req, boundVars>>

CallFails(r) ==
    /\ loop.at = "call" /\ r \in loop.todo
    /\ Fault
    /\ loop' = [loop EXCEPT !.at = "fail", !.row = r]
    /\ UNCHANGED <<googleVars, bookVars, clockVars, req, crashes>>

Apply ==
    /\ loop.at = "apply"
    /\ LET t == loop.row[1] IN
       IF Applicable(t, loop.answer)
       THEN /\ Write(t, loop.answer)
            /\ loop' = [loop EXCEPT !.at = IF loop.answer = "paid" THEN "queue"
                                                                  ELSE "finish"]
       ELSE /\ loop' = [loop EXCEPT !.at = "fail"]
            /\ UNCHANGED purchase
    /\ UNCHANGED <<googleVars, nextRec, row, event, clockVars, req, boundVars>>

ApplyQueues ==
    /\ loop.at = "queue"
    /\ row' = Queued(<<loop.row[1], "acknowledge">>)
    /\ loop' = [loop EXCEPT !.at = "finish"]
    /\ UNCHANGED <<googleVars, purchase, nextRec, event, clockVars, req, boundVars>>

\* finish_provider_operation, also for an acknowledgement, sets next_reconcile_at.
OperationOver(status, wait) ==
    /\ row' = [row EXCEPT ![loop.row].status = status]
    /\ nextRec' = [nextRec EXCEPT ![loop.row[1]] = wait]
    /\ loop' = [loop EXCEPT !.at = "call", !.todo = @ \ {loop.row}, !.row = NoRow,
                            !.answer = None]
    /\ UNCHANGED <<googleVars, purchase, event, clockVars, req, boundVars>>

Finish == loop.at = "finish" /\ OperationOver("sent", Day)

GivenUp == row[loop.row].attempts >= MaxAttempts

Fail == loop.at = "fail" /\ OperationOver(IF GivenUp THEN "dead" ELSE "failed", 1)
-----------------------------------------------------------------------------
(* The sweep of voided purchases.                                           *)

\* An exception in a pass ends it, before the mail.
PassFails ==
    /\ ran' = TRUE
    /\ missed' = missed + 1
    /\ loop' = Asleep

\* Mutated: the next run is set when one succeeded.
ClaimedNot == 0

\* The next run is claimed before the call.
ClaimedFor == Retry

AtSweep == loop.at = "call" /\ loop.todo = {}

ListVoided ==
    /\ AtSweep /\ sweepIn = 0
    /\ sweepIn' = ClaimedFor
    /\ loop' = [loop EXCEPT !.at = "entry", !.entries = {t \in Token : listed[t] > 0}]
    /\ UNCHANGED <<googleVars, bookVars, dayLeft, ran, missed, req, boundVars>>

ListFails ==
    /\ AtSweep /\ sweepIn = 0
    /\ Fault
    /\ sweepIn' = ClaimedFor
    /\ PassFails
    /\ UNCHANGED <<googleVars, bookVars, dayLeft, req, crashes>>

\* Mutated: an entry met in processing is never taken up again.
TakesOnce(t) == event[t] = None

\* begin_purchase_event: a new entry, or one in processing for long.
Takes(t) == event[t] \in {None, "stale"}

BeginEvent(t) ==
    /\ loop.at = "entry" /\ t \in loop.entries
    /\ IF Takes(t)
       THEN /\ event' = [event EXCEPT ![t] = "processing"]
            /\ loop' = [loop EXCEPT !.at = "void", !.entries = @ \ {t}, !.token = t]
       ELSE /\ loop' = [loop EXCEPT !.entries = @ \ {t}]
            /\ UNCHANGED event
    /\ UNCHANGED <<googleVars, purchase, nextRec, row, clockVars, req, boundVars>>

FinishEvent(t, status) == event' = [event EXCEPT ![t] = status]

\* update_purchase_state(..., "refunded"): LicenseNotFound is caught, LicenseInactive is not.
Refund ==
    /\ loop.at = "void"
    /\ LET t == loop.token IN
       IF CanUpdate(t, "refunded")
       THEN /\ Write(t, "refunded")
            /\ loop' = [loop EXCEPT !.at = "settle"]
            /\ UNCHANGED <<event, ran, missed>>
       ELSE /\ UNCHANGED purchase
            /\ IF purchase[t] = None
               THEN /\ FinishEvent(t, "reconciliation_required")
                    /\ loop' = [loop EXCEPT !.at = "entry", !.token = None]
                    /\ UNCHANGED <<ran, missed>>
               ELSE PassFails /\ UNCHANGED event
    /\ UNCHANGED <<googleVars, nextRec, row, sweepIn, dayLeft, req, boundVars>>

Settle ==
    /\ loop.at = "settle"
    /\ FinishEvent(loop.token, "processed")
    /\ loop' = [loop EXCEPT !.at = "entry", !.token = None]
    /\ UNCHANGED <<googleVars, purchase, nextRec, row, clockVars, req, boundVars>>

\* The pass comes to the mail when no sweep is due or when it is through.
Mail ==
    /\ \/ AtSweep /\ sweepIn > 0 /\ UNCHANGED sweepIn
       \/ loop.at = "entry" /\ loop.entries = {} /\ sweepIn' = Interval
    /\ ran' = TRUE
    /\ missed' = 0
    /\ loop' = Asleep
    /\ UNCHANGED <<googleVars, bookVars, dayLeft, req, boundVars>>
-----------------------------------------------------------------------------
(* Time, and the end of the process.                                        *)

\* Mutated: a row that has failed for good keeps its key.
SentOnly == {"sent"}

\* At midnight a settled reconciliation makes room for the row of the new day.
AtRest == {"sent", "dead"}

Later(r) ==
    CASE row[r].status = "failed"  -> [row[r] EXCEPT !.status = "due"]
      [] row[r].status = "sending" -> [row[r] EXCEPT !.status = "lost"]
      [] row[r].status \in AtRest /\ dayLeft = 1 /\ r[2] = "reconcile"
                                   -> [status |-> None, attempts |-> 0]
      [] OTHER                     -> row[r]

\* A pass takes less than a tick, and there is one in every tick: those between find
\* little to do.
Tick ==
    /\ loop.at = "sleep" /\ ran
    /\ ran' = FALSE
    /\ listed' = [t \in Token |-> Down(listed[t])]
    /\ nextRec' = [t \in Token |-> Down(nextRec[t])]
    /\ row' = [r \in Row |-> Later(r)]
    /\ event' = [t \in Token |-> IF event[t] = "processing" THEN "stale" ELSE event[t]]
    /\ sweepIn' = Down(sweepIn)
    /\ dayLeft' = IF dayLeft = 1 THEN Day ELSE dayLeft - 1
    /\ UNCHANGED <<play, acked, voided, purchase, missed, loop, req, boundVars>>

Restart ==
    /\ crashes < MaxCrashes
    /\ crashes' = crashes + 1
    /\ loop' = Asleep
    /\ req' = [q \in Request |-> IF req[q].at = "unsent" THEN Unsent ELSE Over]
    /\ sweepIn' = 0
    /\ ran' = FALSE
    /\ UNCHANGED <<googleVars, bookVars, dayLeft, missed, faults>>

-----------------------------------------------------------------------------
Google(t) == Order(t) \/ Pay(t) \/ Drop(t) \/ Void(t)

RequestStep(q) == Report(q) \/ ReportQueues(q)

LoopStep ==
    \/ Claim
    \/ \E r \in Row : CallAcknowledge(r) \/ CallVerify(r) \/ CallFails(r)
    \/ Apply \/ ApplyQueues \/ Finish \/ Fail
    \/ ListVoided \/ ListFails
    \/ \E t \in Token : BeginEvent(t)
    \/ Refund \/ Settle \/ Mail

Next ==
    \/ \E t \in Token : Google(t)
    \/ \E q \in Request : (\E t \in Token : Arrive(q, t)) \/ RequestStep(q)
    \/ LoopStep
    \/ Tick
    \/ Restart

Spec == Init /\ [][Next]_vars

\* The loop never stops while the process runs, and time passes; nothing is assumed of
\* Google, of the requests or of restarts.
FairSpec == Spec /\ WF_vars(LoopStep) /\ WF_vars(Tick)
-----------------------------------------------------------------------------
(* Properties.                                                              *)

\* An acknowledgement that reached Google was queued.
AcknowledgedByRow ==
    \A t \in acked : row[<<t, "acknowledge">>].status # None

\* What is being sent is the loop's, or was when the process ended.
OwnRows ==
    \A r \in loop.todo : row[r].status = "sending"

\* A sweep that fails is not tried again by the next pass, which comes to the mail.
MailGoesOn == missed <= 1 + crashes

\* The invariants of the purchases together.
PlayInv ==
    /\ TypeOK
    /\ AcknowledgedByRow
    /\ OwnRows
    /\ MailGoesOn

\* A refunded or revoked purchase never authorises again, however late an answer of
\* Google's that it was paid is written.
EndedStaysEnded ==
    [][\A t \in Token : purchase[t] \in Ended => purchase'[t] = purchase[t]]_vars

\* A cancelled purchase ends, also when Google could not be reached for a day and nobody
\* notified the relay.
CancelledEnds ==
    \A t \in Token :
        play[t] = "cancelled" /\ purchase[t] # None ~> purchase[t] \in Ended

\* A payment that stands is served in the end, whatever order the answers about it came in.
PaidIsServed ==
    \A t \in Token :
        <>[](play[t] = "purchased" /\ t \notin voided /\ purchase[t] # None)
            => <>[](purchase[t] = "paid")

\* What Google holds of a purchase in the end is what the relay does: cancelled ones end,
\* paid ones are served, whichever answers and notifications were lost or came late.
RecordFollowsGoogle == CancelledEnds /\ PaidIsServed

\* Google learns of every purchase the relay honours, or eight attempts have failed.
AcknowledgedOrGivenUp ==
    \A t \in Token :
        purchase[t] = "paid" ~>
            \/ t \in acked
            \/ play[t] = "cancelled" \/ purchase[t] \in Ended
            \/ row[<<t, "acknowledge">>].status = "dead"

\* A purchase that is served when it is voided ends.  Not so in general: one refunded and
\* left to the buyer is served for good if each sweep ends at an entry before it.
VoidedEnds ==
    \A t \in Token :
        listed[t] = Window /\ event[t] = None /\ purchase[t] = "paid"
            ~> purchase[t] \in Ended

\* The entry sweeps end at: its purchase was revoked by a reconciliation before.
Blocks(t) == listed[t] > 0 /\ purchase[t] = "revoked"

\* Without such an entry it does end, although a call may fail or the process may end in
\* the middle of a sweep.
SweepEndsIt == []~(\E t \in Token : Blocks(t)) => VoidedEnds
=============================================================================
