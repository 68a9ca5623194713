------------------------- MODULE SubscriptionLedger -------------------------
(***************************************************************************)
(* One annual Relay Access subscription bought through Stripe, as the relay *)
(* keeps it: the webhook handler of main.py records each event in           *)
(* purchase_events, turns it into evidence about the subscription and        *)
(* applies that to the purchase, its terms and its license in               *)
(* access/service.py.                                                       *)
(*                                                                         *)
(* The handler is a coroutine that never awaits once it has the request's    *)
(* body, so one event is handled at a time; every call into the service is a *)
(* transaction of its own, and the process may end between any two.  Stripe  *)
(* stamps an event with the second it happened in, delivers events in any    *)
(* order, and repeats one until it is answered with success.  A repeat of an *)
(* answered event finds it settled and changes nothing.                      *)
(*                                                                         *)
(* The subscription's paid period is taken to be running, and the states     *)
(* "active", "grace" and "cancelled_active", which authorize alike, are one. *)
(***************************************************************************)
EXTENDS Integers

CONSTANTS Kind,         \* the events this Stripe account sends
          Ttl,          \* ticks after which an unfinished event may be taken up again
          MaxEvents,    \* bound: events sent
          MaxTime,      \* bound: ticks
          MaxFaults,    \* bound: failed calls to Stripe
          MaxCrashes    \* bound: ends of the process while an event is handled

AllKinds == {"updated", "checkout", "checkout_unpaid", "checkout_failed",
             "invoice_paid", "invoice_failed", "refunded", "refunded_partly",
             "dispute_opened", "dispute_won", "dispute_lost"}

ASSUME LedgerAssumption ==
    /\ Kind \subseteq AllKinds
    /\ Ttl \in Nat \ {0}
    /\ MaxEvents \in Nat
    /\ MaxTime \in Nat \ {0}
    /\ MaxFaults \in Nat
    /\ MaxCrashes \in Nat

VARIABLES
    now,            \* the second, for Stripe and for the relay
    subscription,   \* its status at Stripe
    charge,         \* its latest charge at Stripe
    sent,           \* events sent so far, numbered from 1
    kind,           \* what each event says
    created,        \* the second it is stamped with
    snapshot,       \* the subscription's status inside it
    inbox,          \* events Stripe has not yet seen answered with success
    ledger,         \* purchase_events.status of each event
    began,          \* purchase_events.created_at while it is being handled
    purchase,       \* purchase_records.state and subscription_terms.effective_state
    changedAt,      \* purchase_records.state_changed_at
    verifiedAt,     \* subscription_terms.provider_verified_at_ms
    license,        \* relay_licenses.status
    issued,         \* licenses made for this subscription
    holder,         \* relay_licenses.holder_id is set: the license has an address
    claim,          \* what the checkout page of the buyer is told
    mailed,         \* the license email is queued
    at,             \* where the handler is
    event,          \* the event it handles
    seen,           \* the subscription's status it works with
    faults, crashes

stripeVars == <<now, subscription, charge, sent, kind, created, snapshot>>
recordVars == <<purchase, changedAt, verifiedAt, license, issued>>
buyerVars == <<holder, claim, mailed>>
handlerVars == <<at, event, seen>>
vars == <<stripeVars, inbox, ledger, began, recordVars, buyerVars, handlerVars,
          faults, crashes>>

Id == 1..MaxEvents
Sent == 1..sent
Status == {"none", "incomplete", "active", "past_due", "canceled"}
State == {"active", "past_due", "expired", "suspended", "refunded", "revoked"}
Terminal == {"refunded", "revoked"}

TypeOK ==
    /\ now \in 1..MaxTime
    /\ subscription \in Status
    /\ charge \in {"none", "paid", "refunded", "disputed", "lost"}
    /\ sent \in 0..MaxEvents
    /\ kind \in [Id -> Kind \cup {"none"}]
    /\ created \in [Id -> 0..MaxTime]
    /\ snapshot \in [Id -> Status]
    /\ inbox \in SUBSET Sent
    /\ ledger \in [Id -> {"new", "processing", "pending", "failed", "processed",
                          "reconciliation_required"}]
    /\ began \in [Id -> 0..MaxTime]
    /\ purchase \in State \cup {"none"}
    /\ changedAt \in 0..MaxTime
    /\ verifiedAt \in 0..MaxTime
    /\ license \in {"none", "active", "suspended", "refunded", "revoked"}
    /\ issued \in Nat
    /\ holder \in BOOLEAN
    /\ claim \in {"pending", "active", "failed"}
    /\ mailed \in BOOLEAN
    /\ at \in {"idle", "begun", "fetched", "fulfilled", "claimed", "done"}
    /\ event \in 0..MaxEvents
    /\ seen \in Status
    /\ faults \in 0..MaxFaults
    /\ crashes \in 0..MaxCrashes

Init ==
    /\ now = 1
    /\ subscription = "none"
    /\ charge = "none"
    /\ sent = 0
    /\ kind = [e \in Id |-> "none"]
    /\ created = [e \in Id |-> 0]
    /\ snapshot = [e \in Id |-> "none"]
    /\ inbox = {}
    /\ ledger = [e \in Id |-> "new"]
    /\ began = [e \in Id |-> 0]
    /\ purchase = "none"
    /\ changedAt = 0
    /\ verifiedAt = 0
    /\ license = "none"
    /\ issued = 0
    /\ holder = FALSE
    /\ claim = "pending"
    /\ mailed = FALSE
    /\ at = "idle"
    /\ event = 0
    /\ seen = "none"
    /\ faults = 0
    /\ crashes = 0
-----------------------------------------------------------------------------
(* Stripe.                                                                  *)

\* An event of kind k happens now, to a subscription that has the given status
\* then.
Send(k, status) ==
    /\ sent < MaxEvents
    /\ k \in Kind
    /\ sent' = sent + 1
    /\ kind' = [kind EXCEPT ![sent + 1] = k]
    /\ created' = [created EXCEPT ![sent + 1] = now]
    /\ snapshot' = [snapshot EXCEPT ![sent + 1] = status]
    /\ inbox' = inbox \cup {sent + 1}
    /\ subscription' = status

RelayUnchanged ==
    /\ UNCHANGED <<now, ledger, began, recordVars, buyerVars, handlerVars>>
    /\ UNCHANGED <<faults, crashes>>

\* The checkout is completed and paid at once...
Subscribe ==
    /\ subscription = "none"
    /\ charge' = "paid"
    /\ Send("checkout", "active")
    /\ RelayUnchanged

\* ...or with a payment that takes days, and clears or does not.
SubscribeUnpaid ==
    /\ subscription = "none"
    /\ Send("checkout_unpaid", "incomplete")
    /\ UNCHANGED charge
    /\ RelayUnchanged

PaymentClears ==
    /\ subscription = "incomplete"
    /\ charge' = "paid"
    /\ Send("checkout", "active")
    /\ RelayUnchanged

PaymentNeverClears ==
    /\ subscription = "incomplete"
    /\ Send("checkout_failed", "canceled")
    /\ UNCHANGED charge
    /\ RelayUnchanged

\* An invoice is paid: the first one, a renewal, or one that had failed.
InvoicePaid ==
    /\ subscription \in {"active", "past_due"}
    /\ charge' = "paid"
    /\ Send("invoice_paid", "active")
    /\ RelayUnchanged

InvoiceFails ==
    /\ subscription = "active"
    /\ Send("invoice_failed", "past_due")
    /\ UNCHANGED charge
    /\ RelayUnchanged

\* customer.subscription.created, .updated and .deleted: a snapshot of it.
Touch ==
    /\ subscription \in {"incomplete", "active", "past_due"}
    /\ Send("updated", subscription)
    /\ UNCHANGED charge
    /\ RelayUnchanged

Cancel ==
    /\ subscription \in {"active", "past_due"}
    /\ Send("updated", "canceled")
    /\ UNCHANGED charge
    /\ RelayUnchanged

Refund ==
    /\ charge = "paid"
    /\ charge' = "refunded"
    /\ Send("refunded", subscription)
    /\ RelayUnchanged

RefundPartly ==
    /\ charge = "paid"
    /\ Send("refunded_partly", subscription)
    /\ UNCHANGED charge
    /\ RelayUnchanged

DisputeOpens ==
    /\ charge = "paid"
    /\ charge' = "disputed"
    /\ Send("dispute_opened", subscription)
    /\ RelayUnchanged

DisputeCloses ==
    /\ charge = "disputed"
    /\ \/ charge' = "paid" /\ Send("dispute_won", subscription)
       \/ charge' = "lost" /\ Send("dispute_lost", subscription)
    /\ RelayUnchanged

Tick ==
    /\ now < MaxTime
    /\ now' = now + 1
    /\ UNCHANGED <<subscription, charge, sent, kind, created, snapshot, inbox>>
    /\ UNCHANGED <<ledger, began, recordVars, buyerVars, handlerVars, faults, crashes>>
-----------------------------------------------------------------------------
(* begin_purchase_event and finish_purchase_event.                           *)

\* Mutated: an event that failed is taken for settled.
ClaimableOnce(e) ==
    \/ ledger[e] = "new"
    \/ ledger[e] = "processing" /\ began[e] + Ttl <= now

Claimable(e) ==
    \/ ledger[e] \in {"new", "failed"}
    \/ ledger[e] = "processing" /\ began[e] + Ttl <= now

\* Mutated: the event is not marked as being handled.
BeginUnmarked(e) ==
    /\ at = "idle"
    /\ e \in inbox
    /\ Claimable(e)
    /\ at' = "begun"
    /\ event' = e
    /\ UNCHANGED <<stripeVars, inbox, ledger, began, recordVars, buyerVars, seen>>
    /\ UNCHANGED <<faults, crashes>>

\* Mutated: the event is answered before it is handled.
BeginAnswered(e) ==
    /\ at = "idle"
    /\ e \in inbox
    /\ Claimable(e)
    /\ ledger' = [ledger EXCEPT ![e] = "processing"]
    /\ began' = [began EXCEPT ![e] = now]
    /\ at' = "begun"
    /\ event' = e
    /\ inbox' = inbox \ {e}
    /\ UNCHANGED <<stripeVars, recordVars, buyerVars, seen, faults, crashes>>

Begin(e) ==
    /\ at = "idle"
    /\ e \in inbox
    /\ Claimable(e)
    /\ ledger' = [ledger EXCEPT ![e] = "processing"]
    /\ began' = [began EXCEPT ![e] = now]
    /\ at' = "begun"
    /\ event' = e
    /\ UNCHANGED <<stripeVars, inbox, recordVars, buyerVars, seen, faults, crashes>>

\* Anything else is answered as a duplicate, with success.
AnswerDuplicate(e) ==
    /\ at = "idle"
    /\ e \in inbox
    /\ ~Claimable(e)
    /\ inbox' = inbox \ {e}
    /\ UNCHANGED <<stripeVars, ledger, began, recordVars, buyerVars, handlerVars>>
    /\ UNCHANGED <<faults, crashes>>

\* The event is finished and answered: with success, unless it failed.
Finish(result) ==
    /\ ledger' = [ledger EXCEPT ![event] = result]
    /\ began' = [began EXCEPT ![event] = 0]
    /\ inbox' = IF result = "failed" THEN inbox ELSE inbox \ {event}
    /\ at' = "idle"
    /\ event' = 0
    /\ seen' = "none"
    /\ UNCHANGED <<stripeVars, crashes>>
-----------------------------------------------------------------------------
(* The evidence in an event.                                                *)

\* What a status of the subscription is worth.
Billing(s) ==
    CASE s = "active" -> "active"
      [] s \in {"past_due", "incomplete"} -> "past_due"
      [] OTHER -> "expired"

Effective(k, s) ==
    CASE k = "invoice_failed" -> "past_due"
      [] k = "refunded" -> "refunded"
      [] k = "dispute_opened" -> "suspended"
      [] k = "dispute_lost" -> "revoked"
      [] k \in {"refunded_partly", "dispute_won"} -> "active"
      [] OTHER -> Billing(s)

Authorizes(state) == state = "active"

LicenseStatus(state) == IF state \in {"past_due", "expired"} THEN "suspended" ELSE state

\* The handler has the subscription it needs: the one inside the event, or the
\* one Stripe returns now.
Fetch ==
    /\ at = "begun"
    /\ kind[event] \notin {"checkout_unpaid", "checkout_failed"}
    /\ seen' = IF kind[event] = "updated" THEN snapshot[event] ELSE subscription
    /\ at' = "fetched"
    /\ UNCHANGED <<stripeVars, inbox, ledger, began, recordVars, buyerVars, event>>
    /\ UNCHANGED <<faults, crashes>>

FetchFails ==
    /\ at = "begun"
    /\ kind[event] \notin {"checkout_unpaid", "checkout_failed", "updated"}
    /\ faults < MaxFaults
    /\ faults' = faults + 1
    /\ Finish("failed")
    /\ UNCHANGED <<recordVars, buyerVars>>
-----------------------------------------------------------------------------
(* Applying it.                                                             *)

Evidence == Effective(kind[event], seen)

Older == created[event] < verifiedAt

\* The event's evidence becomes the purchase's state, its terms and its license.
SetState ==
    /\ purchase' = Evidence
    /\ changedAt' = IF purchase = Evidence THEN changedAt ELSE now
    /\ verifiedAt' = IF created[event] > verifiedAt THEN created[event] ELSE verifiedAt
    /\ license' = LicenseStatus(Evidence)

Insert == SetState /\ issued' = issued + 1

\* Mutated: any good news lifts a terminal state.
WithheldNever == FALSE

\* A terminal state yields only to a payment or to a dispute that was won.
Withheld ==
    /\ purchase \in Terminal
    /\ Authorizes(Evidence)
    /\ kind[event] \notin {"invoice_paid", "dispute_won"}

\* reconcile_subscription, for every event that is not about the checkout.
Reconcile ==
    /\ at = "fetched"
    /\ kind[event] # "checkout"
    /\ IF purchase = "none"
         THEN Authorizes(Evidence) /\ Insert
         ELSE IF Older \/ Withheld
                THEN UNCHANGED recordVars
                ELSE SetState /\ UNCHANGED issued
    /\ at' = "done"
    /\ UNCHANGED <<stripeVars, inbox, ledger, began, buyerVars, event, seen>>
    /\ UNCHANGED <<faults, crashes>>

\* There is no purchase yet to which bad news could apply.
Unlinked ==
    /\ at = "fetched"
    /\ kind[event] # "checkout"
    /\ purchase = "none"
    /\ ~Authorizes(Evidence)
    /\ Finish("reconciliation_required")
    /\ UNCHANGED <<recordVars, buyerVars, faults>>

\* fulfill_purchase of a paid checkout.
Refused ==
    \/ ~Authorizes(Evidence)
    \/ /\ ~Older
       /\ purchase \in Terminal
       /\ created[event] <= changedAt

\* Only a checkout names the buyer's address; an older one returns before the
\* address is recorded with a license that has none.
Fulfill ==
    /\ at = "fetched"
    /\ kind[event] = "checkout"
    /\ ~Refused
    /\ IF purchase = "none"
         THEN Insert /\ holder' = TRUE
         ELSE IF Older
                THEN UNCHANGED <<recordVars, holder>>
                ELSE SetState /\ holder' = TRUE /\ UNCHANGED issued
    /\ at' = "fulfilled"
    /\ UNCHANGED <<stripeVars, inbox, ledger, began, claim, mailed, event, seen>>
    /\ UNCHANGED <<faults, crashes>>

FulfillRefused ==
    /\ at = "fetched"
    /\ kind[event] = "checkout"
    /\ Refused
    /\ Finish("failed")
    /\ UNCHANGED <<recordVars, buyerVars, faults>>

\* The rest of fulfill_checkout: the buyer's page may show the license.
ClaimLicense ==
    /\ at = "fulfilled"
    /\ claim' = "active"
    /\ at' = "claimed"
    /\ UNCHANGED <<stripeVars, inbox, ledger, began, recordVars, holder, mailed, event, seen>>
    /\ UNCHANGED <<faults, crashes>>

\* queue_license_email asks for a license in force, with an address.
Mailable == license = "active" /\ Authorizes(purchase) /\ holder

QueueMail ==
    /\ at = "claimed"
    /\ Mailable
    /\ mailed' = TRUE
    /\ at' = "done"
    /\ UNCHANGED <<stripeVars, inbox, ledger, began, recordVars, holder, claim, event, seen>>
    /\ UNCHANGED <<faults, crashes>>

\* Otherwise it raises, and the whole event has failed.
MailRefused ==
    /\ at = "claimed"
    /\ ~Mailable
    /\ Finish("failed")
    /\ UNCHANGED <<recordVars, buyerVars, faults>>

\* fail_checkout.
FailCheckout ==
    /\ at = "begun"
    /\ kind[event] = "checkout_failed"
    /\ claim' = "failed"
    /\ at' = "done"
    /\ UNCHANGED <<stripeVars, inbox, ledger, began, recordVars, holder, mailed, event, seen>>
    /\ UNCHANGED <<faults, crashes>>

Unpaid ==
    /\ at = "begun"
    /\ kind[event] = "checkout_unpaid"
    /\ Finish("pending")
    /\ UNCHANGED <<recordVars, buyerVars, faults>>

Processed ==
    /\ at = "done"
    /\ Finish("processed")
    /\ UNCHANGED <<recordVars, buyerVars, faults>>

\* The process ends; what was committed stays, and Stripe sees no answer.
Crash ==
    /\ at # "idle"
    /\ crashes < MaxCrashes
    /\ crashes' = crashes + 1
    /\ at' = "idle"
    /\ event' = 0
    /\ seen' = "none"
    /\ UNCHANGED <<stripeVars, inbox, ledger, began, recordVars, buyerVars, faults>>

\* suspend_license and revoke_license in the operator's console.  Its
\* reactivate_license asks for an authority that is "paid" or "issued", which a
\* subscription's never is, and so changes nothing here.
OperatorStops ==
    /\ purchase # "none"
    /\ license' \in {"suspended", "revoked"}
    /\ UNCHANGED <<stripeVars, inbox, ledger, began, purchase, changedAt, verifiedAt>>
    /\ UNCHANGED <<issued, buyerVars, handlerVars, faults, crashes>>

\* The buyer took the key from the checkout page, activated a receiver with it,
\* and confirms an address for it (exchange_magic_link).
ConfirmAddress ==
    /\ claim = "active"
    /\ license = "active"
    /\ ~holder
    /\ holder' = TRUE
    /\ UNCHANGED <<stripeVars, inbox, ledger, began, recordVars, claim, mailed>>
    /\ UNCHANGED <<handlerVars, faults, crashes>>
-----------------------------------------------------------------------------
StripeStep ==
    \/ Subscribe \/ SubscribeUnpaid \/ PaymentClears \/ PaymentNeverClears
    \/ InvoicePaid \/ InvoiceFails \/ Touch \/ Cancel
    \/ Refund \/ RefundPartly \/ DisputeOpens \/ DisputeCloses

HandlerStep ==
    \/ Fetch \/ FetchFails \/ Reconcile \/ Unlinked \/ Fulfill \/ FulfillRefused
    \/ ClaimLicense \/ QueueMail \/ MailRefused \/ FailCheckout \/ Unpaid
    \/ Processed

Deliver(e) == Begin(e) \/ AnswerDuplicate(e)

Next ==
    \/ StripeStep \/ Tick
    \/ \E e \in Id : Deliver(e)
    \/ HandlerStep \/ Crash \/ OperatorStops \/ ConfirmAddress

Spec == Init /\ [][Next]_vars

\* The handler runs on, time passes, and Stripe repeats each event until it is
\* answered.
FairSpec ==
    /\ Spec
    /\ WF_vars(HandlerStep)
    /\ WF_vars(Tick)
    /\ \A e \in Id : SF_vars(Deliver(e))
-----------------------------------------------------------------------------
(* Properties.                                                              *)

\* The one event stamped later than all others.
Newest(e) == e \in Sent /\ \A f \in Sent \ {e} : created[f] < created[e]

Decisive == {"invoice_paid", "invoice_failed", "refunded",
             "dispute_opened", "dispute_won", "dispute_lost"}

\* Whatever the order, the delays and the repeats: once the newest event is
\* processed, and it is about money, the purchase's state is what that event and
\* the subscription at Stripe say (reconcile_subscription's timestamp guard).
NewestDecides ==
    \A e \in Id :
        /\ Newest(e)
        /\ kind[e] \in Decisive
        /\ ledger[e] = "processed"
        => purchase = Effective(kind[e], subscription)

\* A license is active only for a purchase whose state authorizes it, and no
\* license exists before a payment was made (fulfill_purchase, the terms' update).
PaidFirst ==
    /\ license = "active" => Authorizes(purchase)
    /\ purchase # "none" => charge # "none"

\* However its events arrive, one subscription gets one license
\* (docs/relay-access-validation.md:60).
OneLicense == issued = IF purchase = "none" THEN 0 ELSE 1

\* When the checkout's event is settled as processed, the license exists, the
\* buyer's page may show it and its email is queued, crashes in between included.
CheckoutDelivers ==
    \A e \in Id :
        kind[e] = "checkout" /\ ledger[e] = "processed"
        => purchase # "none" /\ claim = "active" /\ mailed

\* What the handler holds: an event Stripe still repeats, marked as processing.
Handling ==
    /\ \A e \in Id \ Sent : ledger[e] = "new"
    /\ at = "idle" => event = 0
    /\ at # "idle" => event \in inbox /\ ledger[event] = "processing"
    /\ at \in {"fulfilled", "claimed"} => kind[event] = "checkout"
    /\ at = "fetched" => kind[event] \notin {"checkout_unpaid", "checkout_failed"}

\* Every timestamp is one of Stripe's, and the newest one kept is of an event sent.
Stamped ==
    /\ \A e \in Sent : created[e] \in 1..now /\ kind[e] # "none"
    /\ purchase = "none" => verifiedAt = 0
    /\ purchase # "none" => \E f \in Sent : verifiedAt <= created[f]

\* A subscription that ever was active, and whatever shows that it was, was paid.
Paid ==
    charge = "none"
    => /\ subscription \notin {"active", "past_due"}
       /\ seen # "active"
       /\ \A e \in Sent : /\ snapshot[e] # "active"
                          /\ kind[e] \notin {"checkout", "refunded_partly", "dispute_won"}

\* A checkout either completes or fails.
OneCheckout ==
    \A e \in Sent :
        /\ kind[e] = "checkout" => /\ subscription \notin {"none", "incomplete"}
                                  /\ \A f \in Sent : kind[f] # "checkout_failed"
        /\ kind[e] = "checkout_failed" => subscription = "canceled"

\* The steps of a paid checkout's event come one after the other.
CheckoutSteps ==
    /\ at \in {"fulfilled", "claimed"} => purchase # "none"
    /\ at = "claimed" => claim = "active"
    /\ at = "done" /\ kind[event] = "checkout"
       => purchase # "none" /\ claim = "active" /\ mailed
    /\ mailed => holder
    /\ holder => purchase # "none"
    /\ claim = "active" => purchase # "none"

\* The newest event's evidence is current while it is worked with, and is what is
\* recorded once it is applied.
Applied(e) == ledger[e] = "processed" \/ (at = "done" /\ event = e)

NewestApplied ==
    /\ at = "fetched" /\ Newest(event) /\ kind[event] # "updated" => seen = subscription
    /\ \A e \in Id :
          Newest(e) /\ kind[e] \in Decisive /\ Applied(e)
          => /\ verifiedAt = created[e]
             /\ purchase = Effective(kind[e], subscription)

\* The inductive invariant.
LedgerInv ==
    /\ TypeOK
    /\ Handling
    /\ Stamped
    /\ Paid
    /\ PaidFirst
    /\ OneLicense
    /\ OneCheckout
    /\ CheckoutSteps
    /\ CheckoutDelivers
    /\ NewestApplied

\* A license that was stopped, by whomever, becomes active again only by evidence
\* no older than what is recorded, and after a refund or a lost dispute only by a
\* payment or a dispute that was won.
LiftedByEvidence ==
    [][license # "active" /\ license' = "active"
       => /\ at = "fetched"
          /\ created[event] >= verifiedAt
          /\ purchase \in Terminal
             => kind[event] \in {"checkout", "invoice_paid", "dispute_won"}]_vars

\* Evidence stamped later was applied before the checkout's.
Overtaken == \E e \in Sent : kind[e] = "checkout" /\ created[e] < verifiedAt

\* A paid checkout of a subscription that stays active, and whose payment is never
\* taken back, reaches its buyer, although calls to Stripe fail in between and
\* steps of its event are refused and repeated.  Two cases are excepted, in which
\* every repeat fails: the license ends up stopped, and later evidence made the
\* license before the checkout could say whose it is.
BuyerServed ==
    /\ <>[](subscription = "active")
    /\ [](charge \in {"none", "paid"} /\ crashes = 0)
    /\ <>[](license \in {"none", "active"})
    /\ <>[](Overtaken => holder)
    => (charge = "paid" ~> (mailed /\ claim = "active"))

\* What docs/relay-access-validation.md:82-85 asks of repeated webhooks: an event
\* that Stripe need not repeat any more has been settled.
EverySettled == \A e \in Sent \ inbox : ledger[e] \notin {"new", "processing"}

\* So it is unless the process ends while an event is handled: failed calls,
\* repeats and refusals lose none (begin_purchase_event, access_stripe_webhook).
NoneLost == crashes = 0 => EverySettled

\* What docs/relay-access-validation.md:82-85 asks of webhooks in any order: once
\* everything is answered, a subscription whose latest payment was refunded has no
\* active license.
RefundHeard ==
    charge = "refunded" /\ inbox = {} /\ at = "idle" => license # "active"
=============================================================================
