----------------------------- MODULE MailOutbox -----------------------------
(***************************************************************************)
(* The relay's mail: rows of license_deliveries and notification_outbox,     *)
(* delivered by passes that run in the maintenance loop and, at the same     *)
(* time, in request threads (main.py), through an SMTP server that accepts,   *)
(* refuses, or leaves it open (access/adapters.py).                          *)
(*                                                                         *)
(* A pass recovers what was interrupted, claims a batch, and sends it one    *)
(* message after the other.  Each call into the service is a transaction of  *)
(* its own; nothing but the rows is shared between passes, and the process   *)
(* may end between any two steps.  The two tables are treated alike; where   *)
(* they differ, in what becomes of a message its license no longer allows,   *)
(* both outcomes are kept.                                                  *)
(***************************************************************************)
EXTENDS Integers, FiniteSets

CONSTANTS Message,      \* rows, numbered in the order of created_at
          Worker,       \* threads that run delivery passes
          Limit,        \* messages a pass may claim
          Stale,        \* ticks in ten minutes
          MaxTries,     \* attempts after which no retry is scheduled (8)
          Backoff,      \* ticks until the retry after each failed attempt
          MaxConsents,  \* bound: retries asked for by operators
          MaxChanges,   \* bound: changes of a message's license
          MaxFaults     \* bound: failed transactions and ends of the process

ASSUME MailAssumption ==
    /\ Message \subseteq Nat
    /\ IsFiniteSet(Worker)
    /\ Limit \in Nat \ {0}
    /\ Stale \in Nat \ {0}
    /\ MaxTries \in Nat \ {0}
    /\ Backoff \in [1..MaxTries -> Nat]
    /\ MaxConsents \in Nat
    /\ MaxChanges \in Nat
    /\ MaxFaults \in Nat

Never == -1     \* next_attempt_at is NULL

VARIABLES
    row,        \* status of each row; "new" when it is not queued yet
    tries,      \* attempt_count
    wait,       \* ticks until next_attempt_at, or Never
    age,        \* ticks since updated_at of a row being sent, up to Stale + 1
    standing,   \* what its license says: allowed, held back, moved on, or another key
    asked,      \* ticks since an operator's latest retry, up to Stale
    at,         \* where each worker is in its pass
    batch,      \* what is left of the batch it claimed
    accepted,   \* history: how often the mail server took the message
    consents,   \* history: how often an operator asked for a retry
    reclaimed,  \* history: how often a row was claimed that was still being sent
    changes, faults

rowVars == <<row, tries, wait, age>>
workerVars == <<at, batch>>
vars == <<rowVars, standing, asked, workerVars, accepted, consents, reclaimed,
          changes, faults>>

Status == {"new", "pending", "sending", "sent", "failed", "uncertain", "cancelled"}
Step == {"idle", "recovered", "next", "smtp", "accepted", "refused", "unsure"}

TypeOK ==
    /\ row \in [Message -> Status]
    /\ tries \in [Message -> Nat]
    /\ wait \in [Message -> Nat \cup {Never}]
    /\ age \in [Message -> 0..Stale + 1]
    /\ standing \in [Message -> {"valid", "withheld", "superseded", "rotated"}]
    /\ asked \in [Message -> 0..Stale]
    /\ at \in [Worker -> Step]
    /\ batch \in [Worker -> SUBSET Message]
    /\ accepted \in [Message -> Nat]
    /\ consents \in [Message -> 0..MaxConsents]
    /\ reclaimed \in [Message -> Nat]
    /\ changes \in 0..MaxChanges
    /\ faults \in 0..MaxFaults

Init ==
    /\ row = [m \in Message |-> "new"]
    /\ tries = [m \in Message |-> 0]
    /\ wait = [m \in Message |-> Never]
    /\ age = [m \in Message |-> 0]
    /\ standing = [m \in Message |-> "valid"]
    /\ asked = [m \in Message |-> Stale]
    /\ at = [w \in Worker |-> "idle"]
    /\ batch = [w \in Worker |-> {}]
    /\ accepted = [m \in Message |-> 0]
    /\ consents = [m \in Message |-> 0]
    /\ reclaimed = [m \in Message |-> 0]
    /\ changes = 0
    /\ faults = 0
-----------------------------------------------------------------------------
(* A row's life outside the passes.                                         *)

\* queue_license_email and its siblings.
Queue(m) ==
    /\ row[m] = "new"
    /\ row' = [row EXCEPT ![m] = "pending"]
    /\ wait' = [wait EXCEPT ![m] = 0]
    /\ UNCHANGED <<tries, age, standing, asked, workerVars, accepted, consents,
                   reclaimed, changes, faults>>

\* operator_mail_action: cancel.
Cancel(m) ==
    /\ \/ row[m] = "pending"
       \/ row[m] = "failed" /\ wait[m] # Never
    /\ row' = [row EXCEPT ![m] = "cancelled"]
    /\ wait' = [wait EXCEPT ![m] = Never]
    /\ UNCHANGED <<tries, age, standing, asked, workerVars, accepted, consents,
                   reclaimed, changes, faults>>

\* operator_mail_action: retry, which for an uncertain message means that the
\* operator accepts a duplicate; at most once in ten minutes.
Retry(m) ==
    /\ row[m] \in {"failed", "uncertain"}
    /\ standing[m] = "valid"
    /\ asked[m] = Stale
    /\ consents[m] < MaxConsents
    /\ row' = [row EXCEPT ![m] = "pending"]
    /\ wait' = [wait EXCEPT ![m] = 0]
    /\ asked' = [asked EXCEPT ![m] = 0]
    /\ consents' = [consents EXCEPT ![m] = @ + 1]
    /\ UNCHANGED <<tries, age, standing, workerVars, accepted, reclaimed, changes,
                   faults>>

\* admin_retry_deliveries and admin_retry_notifications: whatever failed, at any time.
AdminRetry(m) ==
    /\ row[m] = "failed"
    /\ standing[m] # "rotated"
    /\ consents[m] < MaxConsents
    /\ row' = [row EXCEPT ![m] = "pending"]
    /\ wait' = [wait EXCEPT ![m] = 0]
    /\ consents' = [consents EXCEPT ![m] = @ + 1]
    /\ UNCHANGED <<tries, age, standing, asked, workerVars, accepted, reclaimed,
                   changes, faults>>

\* The license is suspended or becomes active again; its mail waits.
Withhold(m) ==
    /\ changes < MaxChanges
    /\ standing[m] \in {"valid", "withheld"}
    /\ standing' = [standing EXCEPT ![m] = IF @ = "valid" THEN "withheld" ELSE "valid"]
    /\ changes' = changes + 1
    /\ UNCHANGED <<rowVars, asked, workerVars, accepted, consents, reclaimed, faults>>

\* The license gets another holder or is invalidated, which also cancels what is
\* queued (_invalidate_license_conn).
Supersede(m) ==
    /\ row[m] # "new"
    /\ changes < MaxChanges
    /\ standing[m] # "superseded"
    /\ standing' = [standing EXCEPT ![m] = "superseded"]
    /\ changes' = changes + 1
    /\ LET stopped == row[m] \in {"pending", "failed", "uncertain"}
       IN /\ row' = IF stopped THEN [row EXCEPT ![m] = "cancelled"] ELSE row
          /\ wait' = IF stopped THEN [wait EXCEPT ![m] = Never] ELSE wait
    /\ UNCHANGED <<tries, age, asked, workerVars, accepted, consents, reclaimed,
                   faults>>

\* The holder rotates the license's key: mail with the old one fails for good, and
\* the claim, which asks for the license's own version, never selects it again.
Rotate(m) ==
    /\ row[m] # "new"
    /\ changes < MaxChanges
    /\ standing[m] \in {"valid", "withheld"}
    /\ standing' = [standing EXCEPT ![m] = "rotated"]
    /\ changes' = changes + 1
    /\ LET stopped == row[m] \in {"pending", "sending", "failed"}
       IN /\ row' = IF stopped THEN [row EXCEPT ![m] = "failed"] ELSE row
          /\ wait' = IF stopped THEN [wait EXCEPT ![m] = Never] ELSE wait
    /\ UNCHANGED <<tries, age, asked, workerVars, accepted, consents, reclaimed,
                   faults>>

Min2(a, b) == IF a <= b THEN a ELSE b

Tick ==
    /\ age' = [m \in Message |-> IF row[m] = "sending" THEN Min2(age[m] + 1, Stale + 1)
                                                        ELSE age[m]]
    /\ wait' = [m \in Message |-> IF wait[m] > 0 THEN wait[m] - 1 ELSE wait[m]]
    /\ asked' = [m \in Message |-> Min2(asked[m] + 1, Stale)]
    /\ UNCHANGED <<row, tries, standing, workerVars, accepted, consents, reclaimed,
                   changes, faults>>
-----------------------------------------------------------------------------
(* A pass: claim_due_license_emails and _deliver_pending_license_emails, or   *)
(* the same for notifications.                                              *)

\* recover_interrupted_mail: its own transaction, before the claim.
Interrupted(m) == row[m] = "sending" /\ age[m] > Stale

\* Mutated: what was interrupted is queued again.
RecoverBlindly(w) ==
    /\ at[w] = "idle"
    /\ at' = [at EXCEPT ![w] = "recovered"]
    /\ row' = [m \in Message |-> IF Interrupted(m) THEN "pending" ELSE row[m]]
    /\ wait' = [m \in Message |-> IF Interrupted(m) THEN 0 ELSE wait[m]]
    /\ UNCHANGED <<tries, age, standing, asked, batch, accepted, consents,
                   reclaimed, changes, faults>>

Recover(w) ==
    /\ at[w] = "idle"
    /\ at' = [at EXCEPT ![w] = "recovered"]
    /\ row' = [m \in Message |-> IF Interrupted(m) THEN "uncertain" ELSE row[m]]
    /\ wait' = [m \in Message |-> IF Interrupted(m) THEN Never ELSE wait[m]]
    /\ UNCHANGED <<tries, age, standing, asked, batch, accepted, consents,
                   reclaimed, changes, faults>>

\* Mutated: rows whose license has moved on are not taken up.
DueWhenValid(m) ==
    /\ \/ row[m] \in {"pending", "failed"} /\ wait[m] = 0
       \/ row[m] = "sending" /\ age[m] >= Stale
    /\ standing[m] = "valid"

\* What the claim selects: due rows, and rows in sending for ten minutes, which the
\* recovery before it has usually taken away.
Due(m) ==
    /\ \/ row[m] \in {"pending", "failed"} /\ wait[m] = 0
       \/ row[m] = "sending" /\ age[m] >= Stale
    /\ standing[m] \notin {"withheld", "rotated"}

\* The oldest of them, up to the limit.
Selected ==
    {m \in Message : Due(m) /\ Cardinality({n \in Message : Due(n) /\ n < m}) < Limit}

Claim(w) ==
    /\ at[w] = "recovered"
    /\ LET mine == {m \in Selected : standing[m] = "valid"}
       IN /\ row' = [m \in Message |-> IF m \in mine THEN "sending"
                                       ELSE IF m \in Selected THEN "cancelled"
                                       ELSE row[m]]
          /\ wait' = [m \in Message |-> IF m \in Selected \ mine THEN Never ELSE wait[m]]
          /\ tries' = [m \in Message |-> IF m \in mine THEN tries[m] + 1 ELSE tries[m]]
          /\ age' = [m \in Message |-> IF m \in mine THEN 0 ELSE age[m]]
          /\ reclaimed' = [m \in Message |->
                             IF m \in mine /\ row[m] = "sending" THEN reclaimed[m] + 1
                                                                 ELSE reclaimed[m]]
          /\ batch' = [batch EXCEPT ![w] = mine]
          /\ at' = [at EXCEPT ![w] = IF mine = {} THEN "idle" ELSE "next"]
    /\ UNCHANGED <<standing, asked, accepted, consents, changes, faults>>

\* The message a worker is at.
Item(w) == CHOOSE m \in batch[w] : \A n \in batch[w] : m <= n

\* Its pass goes on with the next message.
Done(w) ==
    /\ batch' = [batch EXCEPT ![w] = @ \ {Item(w)}]
    /\ at' = [at EXCEPT ![w] = IF batch[w] = {Item(w)} THEN "idle" ELSE "next"]

\* An exception that leaves the loop ends the pass; the rest stays claimed.
Abandon(w) ==
    /\ batch' = [batch EXCEPT ![w] = {}]
    /\ at' = [at EXCEPT ![w] = "idle"]

Fault == faults < MaxFaults /\ faults' = faults + 1

\* begin_mail_attempt: whatever it raises is treated like a refusal.
Mailable(m) == row[m] = "sending" /\ standing[m] = "valid"

Begin(w) ==
    /\ at[w] = "next"
    /\ at' = [at EXCEPT ![w] = IF Mailable(Item(w)) THEN "smtp" ELSE "refused"]
    /\ UNCHANGED <<rowVars, standing, asked, batch, accepted, consents, reclaimed,
                   changes, faults>>

BeginFails(w) ==
    /\ at[w] = "next"
    /\ at' = [at EXCEPT ![w] = "refused"]
    /\ Fault
    /\ UNCHANGED <<rowVars, standing, asked, batch, accepted, consents, reclaimed,
                   changes>>

Taken(m) == accepted' = [accepted EXCEPT ![m] = @ + 1]

\* The SMTP transaction (SmtpLicenseMailer._send).
ServerAccepts(w) ==
    /\ at[w] = "smtp"
    /\ at' = [at EXCEPT ![w] = "accepted"]
    /\ Taken(Item(w))
    /\ UNCHANGED <<rowVars, standing, asked, batch, consents, reclaimed, changes, faults>>

ServerRefuses(w) ==
    /\ at[w] = "smtp"
    /\ at' = [at EXCEPT ![w] = "refused"]
    /\ UNCHANGED <<rowVars, standing, asked, batch, accepted, consents, reclaimed,
                   changes, faults>>

\* The connection breaks while the message is transmitted.
ServerFallsSilent(w) ==
    /\ at[w] = "smtp"
    /\ at' = [at EXCEPT ![w] = "unsure"]
    /\ Taken(Item(w)) \/ UNCHANGED accepted
    /\ UNCHANGED <<rowVars, standing, asked, batch, consents, reclaimed, changes, faults>>

\* After acceptance: finish_mail_attempt and finish_license_email(sent=True).
RecordSent(w) ==
    /\ at[w] = "accepted"
    /\ row' = [row EXCEPT ![Item(w)] = "sent"]
    /\ wait' = [wait EXCEPT ![Item(w)] = Never]
    /\ Done(w)
    /\ UNCHANGED <<tries, age, standing, asked, accepted, consents, reclaimed,
                   changes, faults>>

\* Either of the two raises: the row stays as it is, and the pass goes on.
RecordSentFails(w) ==
    /\ at[w] = "accepted"
    /\ Done(w)
    /\ Fault
    /\ UNCHANGED <<rowVars, standing, asked, accepted, consents, reclaimed, changes>>

\* Mutated: an open outcome is handled like a refusal.
RecordUnsureAsFailed(w) ==
    /\ at[w] = "unsure"
    /\ row' = [row EXCEPT ![Item(w)] = "failed"]
    /\ wait' = [wait EXCEPT ![Item(w)] = 0]
    /\ Done(w)
    /\ UNCHANGED <<tries, age, standing, asked, accepted, consents, reclaimed,
                   changes, faults>>

\* finish_mail_attempt(outcome="uncertain").
RecordUnsure(w) ==
    /\ at[w] = "unsure"
    /\ row' = [row EXCEPT ![Item(w)] = "uncertain"]
    /\ wait' = [wait EXCEPT ![Item(w)] = Never]
    /\ Done(w)
    /\ UNCHANGED <<tries, age, standing, asked, accepted, consents, reclaimed,
                   changes, faults>>

\* finish_license_email(sent=False), whatever the row has become meanwhile.
NextTry(m) == IF tries[m] >= MaxTries THEN Never ELSE Backoff[tries[m]]

RecordFailed(w) ==
    /\ at[w] = "refused"
    /\ row' = [row EXCEPT ![Item(w)] = "failed"]
    /\ wait' = [wait EXCEPT ![Item(w)] = NextTry(Item(w))]
    /\ Done(w)
    /\ UNCHANGED <<tries, age, standing, asked, accepted, consents, reclaimed,
                   changes, faults>>

\* Recording a failure raises inside the handler of the first exception.
RecordFails(w) ==
    /\ at[w] \in {"refused", "unsure"}
    /\ Abandon(w)
    /\ Fault
    /\ UNCHANGED <<rowVars, standing, asked, accepted, consents, reclaimed, changes>>

Crash ==
    /\ \E w \in Worker : at[w] # "idle"
    /\ at' = [w \in Worker |-> "idle"]
    /\ batch' = [w \in Worker |-> {}]
    /\ Fault
    /\ UNCHANGED <<rowVars, standing, asked, accepted, consents, reclaimed, changes>>

Smtp(w) == ServerAccepts(w) \/ ServerRefuses(w) \/ ServerFallsSilent(w)
Record(w) == RecordSent(w) \/ RecordUnsure(w) \/ RecordFailed(w)
RecordFault(w) == BeginFails(w) \/ RecordSentFails(w) \/ RecordFails(w)

WorkerStep(w) == Recover(w) \/ Claim(w) \/ Begin(w) \/ Smtp(w) \/ Record(w)

RowStep(m) ==
    \/ Queue(m) \/ Cancel(m) \/ Retry(m) \/ AdminRetry(m)
    \/ Withhold(m) \/ Supersede(m) \/ Rotate(m)

Next ==
    \/ \E m \in Message : RowStep(m)
    \/ \E w \in Worker : WorkerStep(w) \/ RecordFault(w)
    \/ Crash
    \/ Tick

Spec == Init /\ [][Next]_vars

\* The maintenance loop starts a pass every minute, its calls have timeouts, and
\* time passes.
FairSpec ==
    /\ Spec
    /\ WF_vars(Tick)
    /\ \A w \in Worker : WF_vars(WorkerStep(w))
-----------------------------------------------------------------------------
(* Properties.                                                              *)

\* The workers that may still hand a message to the mail server.
Carriers(m) ==
    {w \in Worker : m \in batch[w] /\ ~(at[w] \in {"accepted", "unsure"} /\ m = Item(w))}

\* Whether a pass may claim it without asking anybody.
Ready(m) ==
    IF row[m] \in {"new", "pending", "failed"} /\ standing[m] # "rotated" THEN 1 ELSE 0

\* A message costs one consent each time it is sent: what was accepted, what may
\* still be sent and what may still be claimed are covered by the first queueing,
\* the operators' retries and the claims of rows still being sent.
SendBudget ==
    \A m \in Message :
        accepted[m] + Cardinality(Carriers(m)) + Ready(m)
            <= 1 + consents[m] + reclaimed[m]

PassesHold ==
    \A w \in Worker : (at[w] \in {"idle", "recovered"}) <=> (batch[w] = {})

\* Only a recorded attempt retries, and a message is sent only if it was accepted.
SentWasAccepted ==
    \A m \in Message : row[m] = "sent" => accepted[m] > 0

TriesCounted == \A w \in Worker : \A m \in batch[w] : tries[m] > 0

\* A message the server accepted is sent again only when an operator asked for it,
\* or when a claim took a row that another pass was still sending.
NoBlindResend ==
    \A m \in Message : accepted[m] <= 1 + consents[m] + reclaimed[m]

\* The invariants of the mail together; SendBudget is what makes NoBlindResend hold.
MailInv ==
    /\ TypeOK
    /\ PassesHold
    /\ TriesCounted
    /\ SentWasAccepted
    /\ SendBudget
    /\ NoBlindResend

\* What main.py:11692-11693 says: a failure to record an accepted message never
\* enqueues another send; the interrupted job becomes uncertain.
NeverSentAgain == \A m \in Message : accepted[m] <= 1 + consents[m]

\* A message that is uncertain, cancelled or sent becomes claimable again only by an
\* operator's retry or by the pass that still carried it.
LateThread(m) == \E w \in Worker : at[w] = "refused" /\ m \in batch[w] /\ m = Item(w)

RevivedByRetryOrCarrier ==
    [][\A m \in Message :
          row[m] \in {"uncertain", "cancelled", "sent"} /\ row'[m] \in {"pending", "failed"}
          => \/ consents'[m] > consents[m]
             \/ LateThread(m)]_vars

\* Whatever fails and whoever dies: a queued message whose license is not held back
\* for good comes to rest, sent, cancelled, given up, or waiting for an operator.
AtRest(m) ==
    \/ row[m] \in {"sent", "uncertain", "cancelled"}
    \/ row[m] = "failed" /\ (wait[m] = Never \/ standing[m] = "rotated")

MailSettles ==
    \A m \in Message :
        <>[](standing[m] # "withheld") => (row[m] = "pending" ~> AtRest(m))
=============================================================================
