---------------------- MODULE SubscriptionLedger_proofs ----------------------
(***************************************************************************)
(* Proofs about SubscriptionLedger, for every set of event kinds and every   *)
(* value of the bounds.  The argument: whatever Stripe does amounts to one   *)
(* new event, stamped no earlier than the others (Told), so an event can      *)
(* stop being the newest but not become it later; the handler serves one      *)
(* event at a time, so what it fetched for the newest event is current; and    *)
(* once that event is applied its timestamp is the one kept, so that every     *)
(* other event is older and changes nothing.                                 *)
(***************************************************************************)
EXTENDS SubscriptionLedger, TLAPS

USE LedgerAssumption

\* Every Stripe step sends one event and has these effects.
Told(k, s) ==
    /\ k \in Kind
    /\ s \in Status
    /\ charge' \in {"none", "paid", "refunded", "disputed", "lost"}
    /\ charge' = "none"
       => /\ charge = "none"
          /\ s \notin {"active", "past_due"}
          /\ k \notin {"checkout", "refunded_partly", "dispute_won"}
    /\ k = "checkout" => subscription \in {"none", "incomplete"} /\ s = "active"
    /\ k = "checkout_failed" => subscription = "incomplete" /\ s = "canceled"
    /\ subscription = "canceled" => s = "canceled"
    /\ s \in {"none", "incomplete"} => subscription \in {"none", "incomplete"}
    /\ Send(k, s)
    /\ RelayUnchanged
-----------------------------------------------------------------------------
(* The evidence.                                                            *)

\* Evidence is a state, and a license has a status for each state.
LEMMA EvidenceType ==
    ASSUME NEW k, NEW s
    PROVE  /\ Effective(k, s) \in State
           /\ LicenseStatus(Effective(k, s)) \in {"active", "suspended", "refunded", "revoked"}
           /\ LicenseStatus(Effective(k, s)) = "active" => Authorizes(Effective(k, s))
<1>1. Billing(s) \in State
  BY DEF Billing, State
<1>2. Effective(k, s) \in State
  BY <1>1 DEF Effective, State
<1>. QED  BY <1>2 DEF State, LicenseStatus, Authorizes

\* Good evidence comes from an active subscription, from a partial refund or from
\* a dispute that was won.
LEMMA GoodEvidence ==
    ASSUME NEW k, NEW s, Authorizes(Effective(k, s))
    PROVE  s = "active" \/ k \in {"refunded_partly", "dispute_won"}
<1>1. Billing(s) = "active" => s = "active"
  BY DEF Billing
<1>. QED  BY <1>1 DEF Effective, Authorizes

\* Decisive evidence that authorizes is never withheld.
LEMMA DecisiveGood ==
    ASSUME NEW k \in Decisive, NEW s, Authorizes(Effective(k, s))
    PROVE  k \in {"invoice_paid", "dispute_won"}
BY DEF Decisive, Effective, Authorizes
-----------------------------------------------------------------------------
(* Stripe.                                                                  *)

\* Each of Stripe's actions is such a step.
LEMMA StripeTells ==
    ASSUME LedgerInv, StripeStep
    PROVE  \E k \in Kind, s \in Status : Told(k, s)
<1>. USE DEF LedgerInv, TypeOK, Paid, Status, Told
<1>a. ASSUME NEW k, NEW s, Send(k, s)
      PROVE  k \in Kind
  BY <1>a DEF Send
<1>1. CASE Subscribe
  <2>1. Told("checkout", "active")
    BY <1>1, <1>a DEF Subscribe
  <2>. QED  BY <2>1
<1>2. CASE SubscribeUnpaid
  <2>1. Told("checkout_unpaid", "incomplete")
    BY <1>2, <1>a DEF SubscribeUnpaid
  <2>. QED  BY <2>1
<1>3. CASE PaymentClears
  <2>1. Told("checkout", "active")
    BY <1>3, <1>a DEF PaymentClears
  <2>. QED  BY <2>1
<1>4. CASE PaymentNeverClears
  <2>1. Told("checkout_failed", "canceled")
    BY <1>4, <1>a DEF PaymentNeverClears
  <2>. QED  BY <2>1
<1>5. CASE InvoicePaid
  <2>1. Told("invoice_paid", "active")
    BY <1>5, <1>a DEF InvoicePaid
  <2>. QED  BY <2>1
<1>6. CASE InvoiceFails
  <2>1. Told("invoice_failed", "past_due")
    BY <1>6, <1>a DEF InvoiceFails
  <2>. QED  BY <2>1
<1>7. CASE Touch
  <2>1. Told("updated", subscription)
    BY <1>7, <1>a DEF Touch
  <2>. QED  BY <2>1
<1>8. CASE Cancel
  <2>1. Told("updated", "canceled")
    BY <1>8, <1>a DEF Cancel
  <2>. QED  BY <2>1
<1>9. CASE Refund
  <2>1. Told("refunded", subscription)
    BY <1>9, <1>a DEF Refund
  <2>. QED  BY <2>1
<1>10. CASE RefundPartly
  <2>1. Told("refunded_partly", subscription)
    BY <1>10, <1>a DEF RefundPartly
  <2>. QED  BY <2>1
<1>11. CASE DisputeOpens
  <2>1. Told("dispute_opened", subscription)
    BY <1>11, <1>a DEF DisputeOpens
  <2>. QED  BY <2>1
<1>12. CASE DisputeCloses
  <2>1. Told("dispute_won", subscription) \/ Told("dispute_lost", subscription)
    BY <1>12, <1>a DEF DisputeCloses
  <2>. QED  BY <2>1
<1>. QED
  BY <1>1, <1>2, <1>3, <1>4, <1>5, <1>6, <1>7, <1>8, <1>9, <1>10, <1>11, <1>12
  DEF StripeStep

\* A new event leaves the invariant: it is no older than the others, and so it
\* ends the reign of the newest one whenever it changes the subscription.
LEMMA TellKeeps ==
    ASSUME LedgerInv, NEW k \in Kind, NEW s \in Status, Told(k, s)
    PROVE  LedgerInv'
<1>. USE DEF LedgerInv
<1>. DEFINE n == sent + 1
<1>1. /\ n \in Id /\ n \notin Sent /\ Sent' = Sent \cup {n}
      /\ sent \in 0..MaxEvents /\ sent' = n /\ n \in 0..MaxEvents
  BY DEF Told, Send, TypeOK, Id, Sent
<1>2. /\ kind' = [kind EXCEPT ![n] = k]
      /\ created' = [created EXCEPT ![n] = now]
      /\ snapshot' = [snapshot EXCEPT ![n] = s]
      /\ inbox' = inbox \cup {n}
      /\ subscription' = s
  BY DEF Told, Send
<1>3. /\ now' = now /\ ledger' = ledger /\ began' = began /\ purchase' = purchase
      /\ changedAt' = changedAt /\ verifiedAt' = verifiedAt /\ license' = license
      /\ issued' = issued /\ holder' = holder /\ claim' = claim /\ mailed' = mailed /\ at' = at
      /\ event' = event /\ seen' = seen /\ faults' = faults /\ crashes' = crashes
  BY DEF Told, RelayUnchanged, recordVars, buyerVars, handlerVars
<1>4. /\ \A e \in Sent : e \in Id /\ e # n
      /\ \A e \in Id \ {n} : /\ kind'[e] = kind[e] /\ created'[e] = created[e]
                             /\ snapshot'[e] = snapshot[e]
      /\ kind'[n] = k /\ created'[n] = now /\ snapshot'[n] = s
  BY <1>1, <1>2 DEF TypeOK, Id, Sent
<1>5. k # "none"
  BY LedgerAssumption DEF AllKinds
<1>6. TypeOK'
  BY <1>1, <1>2, <1>3 DEF TypeOK, Told
<1>7. Handling'
  BY <1>1, <1>2, <1>3, <1>4 DEF Handling, TypeOK
<1>8. Stamped'
  <2>1. \A e \in Sent' : created'[e] \in 1..now' /\ kind'[e] # "none"
    BY <1>1, <1>3, <1>4, <1>5 DEF Stamped, TypeOK
  <2>2. purchase' # "none" => \E f \in Sent' : verifiedAt' <= created'[f]
    BY <1>1, <1>3, <1>4 DEF Stamped
  <2>. QED  BY <1>3, <2>1, <2>2 DEF Stamped
<1>9. Paid'
  BY <1>1, <1>2, <1>3, <1>4 DEF Paid, Told
<1>10. PaidFirst' /\ OneLicense'
  BY <1>3 DEF PaidFirst, OneLicense, Told
<1>11. OneCheckout'
  BY <1>1, <1>2, <1>4 DEF OneCheckout, Told
<1>12. CheckoutSteps'
  BY <1>1, <1>3, <1>4 DEF CheckoutSteps, Handling, TypeOK
<1>13. CheckoutDelivers'
  <2>1. ledger[n] # "processed"
    BY <1>1 DEF Handling
  <2>. QED  BY <1>3, <1>4, <2>1 DEF CheckoutDelivers
<1>14. NewestApplied'
  <2>1. \A e \in Sent : ~(created'[n] < created'[e])
    BY <1>1, <1>3, <1>4 DEF Stamped, TypeOK
  <2>2. \A e \in Sent : ~Newest(e)'
    BY <1>1, <1>4, <2>1 DEF Newest
  <2>3. \A e \in Id : Newest(e)' => e = n
    BY <1>1, <2>2 DEF Newest
  <2>4. ledger'[n] = "new" /\ (at # "idle" => event' # n)
    BY <1>1, <1>3 DEF Handling, TypeOK
  <2>5. at # "idle" => event \in Sent
    BY DEF Handling, TypeOK
  <2>6. ~(at' = "fetched" /\ Newest(event)')
    BY <1>3, <2>2, <2>5
  <2>7. \A e \in Id : ~(Newest(e)' /\ Applied(e)')
    BY <1>3, <2>3, <2>4 DEF Applied
  <2>. QED  BY <1>3, <2>6, <2>7 DEF NewestApplied
<1>. QED
  BY <1>6, <1>7, <1>8, <1>9, <1>10, <1>11, <1>12, <1>13, <1>14
-----------------------------------------------------------------------------
(* Time, deliveries, and the end of an event.                                *)

\* Time passes for the claims of events.
LEMMA TickKeeps ==
    ASSUME LedgerInv, Tick
    PROVE  LedgerInv'
<1>. USE DEF LedgerInv
<1>1. /\ now \in 1..MaxTime /\ now' = now + 1 /\ now' \in 1..MaxTime
      /\ UNCHANGED <<subscription, charge, sent, kind, created, snapshot, inbox, ledger,
                     began, purchase, changedAt, verifiedAt, license, issued, holder, claim,
                     mailed, at, event, seen, faults, crashes>>
  BY DEF Tick, TypeOK, recordVars, buyerVars, handlerVars
<1>2. Sent' = Sent /\ \A e : Newest(e)' <=> Newest(e)
  BY <1>1 DEF Sent, Newest
<1>3. TypeOK'
  BY <1>1, <1>2 DEF TypeOK
<1>4. Handling' /\ Paid' /\ PaidFirst' /\ OneLicense' /\ OneCheckout'
  BY <1>1, <1>2 DEF Handling, Paid, PaidFirst, OneLicense, OneCheckout
<1>5. Stamped'
  BY <1>1, <1>2 DEF Stamped
<1>6. CheckoutSteps' /\ CheckoutDelivers'
  BY <1>1 DEF CheckoutSteps, CheckoutDelivers
<1>7. NewestApplied'
  BY <1>1, <1>2 DEF NewestApplied, Applied
<1>. QED
  BY <1>3, <1>4, <1>5, <1>6, <1>7

\* The handler takes an event up.
LEMMA BeginKeeps ==
    ASSUME LedgerInv, NEW e \in Id, Begin(e)
    PROVE  LedgerInv'
<1>. USE DEF LedgerInv
<1>1. /\ at = "idle" /\ at' = "begun" /\ event' = e /\ e \in inbox /\ e \in Sent
      /\ ledger' = [ledger EXCEPT ![e] = "processing"]
      /\ began' = [began EXCEPT ![e] = now]
      /\ ledger[e] # "processed"
      /\ UNCHANGED <<now, subscription, charge, sent, kind, created, snapshot, inbox,
                     purchase, changedAt, verifiedAt, license, issued, holder, claim, mailed,
                     seen, faults, crashes>>
  BY DEF Begin, Claimable, TypeOK, stripeVars, recordVars, buyerVars
<1>2. Sent' = Sent /\ \A f : Newest(f)' <=> Newest(f)
  BY <1>1 DEF Sent, Newest
<1>3. TypeOK'
  BY <1>1, <1>2 DEF TypeOK, Id
<1>4. Handling'
  BY <1>1, <1>2 DEF Handling, TypeOK
<1>5. Stamped' /\ Paid' /\ PaidFirst' /\ OneLicense' /\ OneCheckout' /\ CheckoutSteps'
  BY <1>1, <1>2 DEF Stamped, Paid, PaidFirst, OneLicense, OneCheckout, CheckoutSteps
<1>6. \A f \in Id : ledger'[f] = "processed" => ledger[f] = "processed"
  BY <1>1 DEF TypeOK
<1>7. CheckoutDelivers'
  BY <1>1, <1>6 DEF CheckoutDelivers
<1>8. NewestApplied'
  BY <1>1, <1>2, <1>6 DEF NewestApplied, Applied
<1>. QED
  BY <1>3, <1>4, <1>5, <1>7, <1>8

\* An event that is known is answered as a duplicate.
LEMMA DuplicateKeeps ==
    ASSUME LedgerInv, NEW e \in Id, AnswerDuplicate(e)
    PROVE  LedgerInv'
<1>. USE DEF LedgerInv
<1>1. /\ at = "idle" /\ inbox' = inbox \ {e}
      /\ UNCHANGED <<now, subscription, charge, sent, kind, created, snapshot, ledger,
                     began, purchase, changedAt, verifiedAt, license, issued, holder, claim,
                     mailed, at, event, seen, faults, crashes>>
  BY DEF AnswerDuplicate, stripeVars, recordVars, buyerVars, handlerVars
<1>2. Sent' = Sent /\ \A f : Newest(f)' <=> Newest(f)
  BY <1>1 DEF Sent, Newest
<1>3. TypeOK' /\ Handling'
  BY <1>1, <1>2 DEF TypeOK, Handling
<1>4. Stamped' /\ Paid' /\ PaidFirst' /\ OneLicense' /\ OneCheckout'
  BY <1>1, <1>2 DEF Stamped, Paid, PaidFirst, OneLicense, OneCheckout
<1>5. CheckoutSteps' /\ CheckoutDelivers'
  BY <1>1 DEF CheckoutSteps, CheckoutDelivers
<1>6. NewestApplied'
  BY <1>1, <1>2 DEF NewestApplied, Applied
<1>. QED
  BY <1>3, <1>4, <1>5, <1>6

\* An event may be finished in any way, and as processed only when all its steps
\* are done.
LEMMA FinishKeeps ==
    ASSUME LedgerInv, at # "idle",
           NEW r \in {"pending", "failed", "processed", "reconciliation_required"},
           Finish(r), UNCHANGED <<recordVars, buyerVars>>, faults' \in 0..MaxFaults,
           r = "processed" => at = "done"
    PROVE  LedgerInv'
<1>. USE DEF LedgerInv
<1>1. /\ at' = "idle" /\ event' = 0 /\ seen' = "none"
      /\ ledger' = [ledger EXCEPT ![event] = r]
      /\ began' = [began EXCEPT ![event] = 0]
      /\ inbox' \subseteq inbox
      /\ event \in Sent /\ event \in Id
      /\ UNCHANGED <<now, subscription, charge, sent, kind, created, snapshot,
                     purchase, changedAt, verifiedAt, license, issued, holder, claim, mailed,
                     crashes>>
  BY DEF Finish, Handling, TypeOK, Sent, Id, stripeVars, recordVars, buyerVars
<1>2. Sent' = Sent /\ \A f : Newest(f)' <=> Newest(f)
  BY <1>1 DEF Sent, Newest
<1>3. TypeOK'
  BY <1>1, <1>2 DEF TypeOK, Status
<1>4. Handling'
  BY <1>1, <1>2 DEF Handling, TypeOK
<1>5. Stamped' /\ Paid' /\ PaidFirst' /\ OneLicense' /\ OneCheckout' /\ CheckoutSteps'
  BY <1>1, <1>2 DEF Stamped, Paid, PaidFirst, OneLicense, OneCheckout, CheckoutSteps
<1>6. \A f \in Id : ledger'[f] = "processed" => Applied(f)
  BY <1>1 DEF TypeOK, Applied
<1>7. CheckoutDelivers'
  BY <1>1, <1>6 DEF CheckoutDelivers, CheckoutSteps, Applied
<1>8. NewestApplied'
  <2>1. \A f \in Id : Applied(f)' => Applied(f)
    BY <1>1, <1>6 DEF Applied
  <2>. QED  BY <1>1, <1>2, <2>1 DEF NewestApplied
<1>. QED
  BY <1>3, <1>4, <1>5, <1>7, <1>8

\* The six ways an event ends.
LEMMA EndKeeps ==
    ASSUME LedgerInv,
           FetchFails \/ Unlinked \/ FulfillRefused \/ MailRefused \/ Unpaid \/ Processed
    PROVE  LedgerInv'
<1>1. faults \in 0..MaxFaults
  BY DEF LedgerInv, TypeOK
<1>2. CASE FetchFails
  <2>1. faults' \in 0..MaxFaults /\ at # "idle" /\ Finish("failed")
        /\ UNCHANGED <<recordVars, buyerVars>>
    BY <1>1, <1>2 DEF FetchFails
  <2>. QED  BY <2>1, FinishKeeps
<1>3. CASE Unlinked
  BY <1>1, <1>3, FinishKeeps DEF Unlinked
<1>4. CASE FulfillRefused
  BY <1>1, <1>4, FinishKeeps DEF FulfillRefused
<1>5. CASE Unpaid
  BY <1>1, <1>5, FinishKeeps DEF Unpaid
<1>6. CASE Processed
  BY <1>1, <1>6, FinishKeeps DEF Processed
<1>7. CASE MailRefused
  BY <1>1, <1>7, FinishKeeps DEF MailRefused
<1>. QED
  BY <1>2, <1>3, <1>4, <1>5, <1>6, <1>7

\* The process ends between two transactions.
LEMMA CrashKeeps ==
    ASSUME LedgerInv, Crash
    PROVE  LedgerInv'
<1>. USE DEF LedgerInv
<1>1. /\ at' = "idle" /\ event' = 0 /\ seen' = "none" /\ crashes' \in 0..MaxCrashes
      /\ UNCHANGED <<now, subscription, charge, sent, kind, created, snapshot, inbox,
                     ledger, began, purchase, changedAt, verifiedAt, license, issued,
                     holder, claim, mailed, faults>>
  BY DEF Crash, TypeOK, stripeVars, recordVars, buyerVars
<1>2. Sent' = Sent /\ \A f : Newest(f)' <=> Newest(f)
  BY <1>1 DEF Sent, Newest
<1>3. TypeOK'
  BY <1>1, <1>2 DEF TypeOK, Status
<1>4. Handling' /\ CheckoutSteps' /\ CheckoutDelivers'
  BY <1>1, <1>2 DEF Handling, CheckoutSteps, CheckoutDelivers
<1>5. Stamped' /\ Paid' /\ PaidFirst' /\ OneLicense' /\ OneCheckout'
  BY <1>1, <1>2 DEF Stamped, Paid, PaidFirst, OneLicense, OneCheckout
<1>6. NewestApplied'
  BY <1>1, <1>2 DEF NewestApplied, Applied
<1>. QED
  BY <1>3, <1>4, <1>5, <1>6

\* An operator stops the license.
LEMMA OperatorKeeps ==
    ASSUME LedgerInv, OperatorStops
    PROVE  LedgerInv'
<1>. USE DEF LedgerInv
<1>1. /\ license' \in {"suspended", "revoked"}
      /\ UNCHANGED <<now, subscription, charge, sent, kind, created, snapshot, inbox,
                     ledger, began, purchase, changedAt, verifiedAt, issued, holder, claim,
                     mailed, at, event, seen, faults, crashes>>
  BY DEF OperatorStops, stripeVars, buyerVars, handlerVars
<1>2. Sent' = Sent /\ \A f : Newest(f)' <=> Newest(f)
  BY <1>1 DEF Sent, Newest
<1>3. TypeOK'
  BY <1>1, <1>2 DEF TypeOK
<1>4. Handling' /\ CheckoutSteps' /\ CheckoutDelivers'
  BY <1>1, <1>2 DEF Handling, CheckoutSteps, CheckoutDelivers
<1>5. Stamped' /\ Paid' /\ PaidFirst' /\ OneLicense' /\ OneCheckout'
  BY <1>1, <1>2 DEF Stamped, Paid, PaidFirst, OneLicense, OneCheckout
<1>6. NewestApplied'
  BY <1>1, <1>2 DEF NewestApplied, Applied
<1>. QED
  BY <1>3, <1>4, <1>5, <1>6

\* The buyer names an address.
LEMMA AddressKeeps ==
    ASSUME LedgerInv, ConfirmAddress
    PROVE  LedgerInv'
<1>. USE DEF LedgerInv
<1>1. /\ holder' = TRUE /\ claim = "active"
      /\ UNCHANGED <<now, subscription, charge, sent, kind, created, snapshot, inbox,
                     ledger, began, purchase, changedAt, verifiedAt, license, issued, claim,
                     mailed, at, event, seen, faults, crashes>>
  BY DEF ConfirmAddress, stripeVars, recordVars, handlerVars
<1>2. Sent' = Sent /\ \A f : Newest(f)' <=> Newest(f)
  BY <1>1 DEF Sent, Newest
<1>3. TypeOK'
  BY <1>1, <1>2 DEF TypeOK
<1>4. Handling' /\ CheckoutSteps' /\ CheckoutDelivers'
  BY <1>1, <1>2 DEF Handling, CheckoutSteps, CheckoutDelivers
<1>5. Stamped' /\ Paid' /\ PaidFirst' /\ OneLicense' /\ OneCheckout'
  BY <1>1, <1>2 DEF Stamped, Paid, PaidFirst, OneLicense, OneCheckout
<1>6. NewestApplied'
  BY <1>1, <1>2 DEF NewestApplied, Applied
<1>. QED
  BY <1>3, <1>4, <1>5, <1>6
-----------------------------------------------------------------------------
(* The handler's own steps.                                                 *)

\* The handler reads the subscription: from Stripe, or from an update's own event.
LEMMA FetchKeeps ==
    ASSUME LedgerInv, Fetch
    PROVE  LedgerInv'
<1>. USE DEF LedgerInv
<1>1. /\ at = "begun" /\ at' = "fetched"
      /\ kind[event] \notin {"checkout_unpaid", "checkout_failed"}
      /\ event \in Sent /\ event \in Id
      /\ seen' = IF kind[event] = "updated" THEN snapshot[event] ELSE subscription
      /\ UNCHANGED <<now, subscription, charge, sent, kind, created, snapshot, inbox,
                     ledger, began, purchase, changedAt, verifiedAt, license, issued,
                     holder, claim, mailed, event, faults, crashes>>
  BY DEF Fetch, Handling, TypeOK, Sent, Id, stripeVars, recordVars, buyerVars
<1>2. Sent' = Sent /\ \A f : Newest(f)' <=> Newest(f)
  BY <1>1 DEF Sent, Newest
<1>3. TypeOK'
  BY <1>1, <1>2 DEF TypeOK
<1>4. Handling' /\ CheckoutSteps' /\ CheckoutDelivers'
  BY <1>1, <1>2 DEF Handling, CheckoutSteps, CheckoutDelivers
<1>5. Stamped' /\ PaidFirst' /\ OneLicense' /\ OneCheckout'
  BY <1>1, <1>2 DEF Stamped, PaidFirst, OneLicense, OneCheckout
<1>6. Paid'
  BY <1>1, <1>2 DEF Paid
<1>7. NewestApplied'
  BY <1>1, <1>2 DEF NewestApplied, Applied
<1>. QED
  BY <1>3, <1>4, <1>5, <1>6, <1>7

\* What the service does to its records with the evidence of the event in hand:
\* it makes the purchase, replaces its state, or has a reason to leave it.
Recorded ==
    \/ purchase = "none" /\ Authorizes(Evidence) /\ Insert
    \/ purchase # "none" /\ ~Older /\ SetState /\ UNCHANGED issued
    \/ purchase # "none" /\ Older /\ UNCHANGED recordVars
    \/ purchase # "none" /\ Withheld /\ UNCHANGED recordVars

\* The state that was fetched is recorded, or set aside as older.
LEMMA RecordedKeeps ==
    ASSUME LedgerInv, at = "fetched", Recorded,
           (kind[event] = "checkout" /\ at' = "fulfilled")
           \/ (kind[event] # "checkout" /\ at' = "done"),
           holder' = holder \/ (holder' = TRUE /\ at' = "fulfilled"),
           UNCHANGED <<stripeVars, inbox, ledger, began, claim, mailed, event, seen>>,
           UNCHANGED <<faults, crashes>>
    PROVE  LedgerInv'
<1>. USE DEF LedgerInv
<1>1. /\ event \in Sent /\ event \in Id
      /\ event \in inbox /\ ledger[event] = "processing"
      /\ kind[event] \notin {"checkout_unpaid", "checkout_failed"}
      /\ at' \in {"done", "fulfilled"}
      /\ at' = "fulfilled" => kind[event] = "checkout"
      /\ at' = "done" => kind[event] # "checkout"
      /\ UNCHANGED <<now, subscription, charge, sent, kind, created, snapshot, inbox,
                     ledger, began, claim, mailed, event, seen, faults, crashes>>
  BY DEF Handling, TypeOK, Sent, Id, stripeVars
<1>a. holder' \in BOOLEAN /\ (holder => holder')
  <2>1. holder \in BOOLEAN
    BY DEF TypeOK
  <2>2. CASE holder' = holder
    BY <2>1, <2>2
  <2>3. CASE holder' = TRUE
    BY <2>3
  <2>. QED  BY <2>2, <2>3
<1>2. Sent' = Sent /\ \A f : Newest(f)' <=> Newest(f)
  BY <1>1 DEF Sent, Newest
<1>3. /\ created[event] \in 1..now /\ now \in 1..MaxTime /\ created[event] \in 0..MaxTime
      /\ verifiedAt \in 0..MaxTime /\ issued \in Nat
  BY <1>1 DEF Stamped, TypeOK
<1>4. /\ Evidence \in State /\ Evidence # "none"
      /\ LicenseStatus(Evidence) \in {"active", "suspended", "refunded", "revoked"}
      /\ LicenseStatus(Evidence) = "active" => Authorizes(Evidence)
  BY EvidenceType DEF Evidence, State
<1>5. \/ /\ SetState
         /\ \/ purchase = "none" /\ Authorizes(Evidence) /\ issued' = issued + 1
            \/ purchase # "none" /\ ~Older /\ issued' = issued
      \/ /\ purchase # "none"
         /\ Older \/ Withheld
         /\ UNCHANGED <<purchase, changedAt, verifiedAt, license, issued>>
  BY DEF Recorded, Insert, recordVars
<1>6. SetState
      => /\ purchase' = Evidence
         /\ license' = LicenseStatus(Evidence)
         /\ changedAt' \in {changedAt, now}
         /\ verifiedAt' = IF created[event] > verifiedAt THEN created[event]
                          ELSE verifiedAt
  BY DEF SetState
<1>7. TypeOK'
  <2>1. /\ purchase' \in State \cup {"none"}
        /\ license' \in {"none", "active", "suspended", "refunded", "revoked"}
        /\ changedAt' \in 0..MaxTime /\ verifiedAt' \in 0..MaxTime /\ issued' \in Nat
    BY <1>3, <1>4, <1>5, <1>6 DEF TypeOK
  <2>. QED  BY <1>1, <1>2, <1>a, <2>1 DEF TypeOK
<1>8. Handling'
  BY <1>1, <1>2 DEF Handling
<1>9. purchase' # "none"
  BY <1>4, <1>5, <1>6
<1>10. Stamped'
  <2>1. \E f \in Sent : verifiedAt' <= created[f]
    BY <1>1, <1>3, <1>5, <1>6 DEF Stamped
  <2>. QED  BY <1>1, <1>2, <1>9, <2>1 DEF Stamped
<1>11. Paid' /\ OneCheckout'
  BY <1>1, <1>2 DEF Paid, OneCheckout
<1>12. PaidFirst'
  <2>1. Authorizes(Evidence)
        => seen = "active" \/ kind[event] \in {"refunded_partly", "dispute_won"}
    BY GoodEvidence DEF Evidence
  <2>2. Authorizes(Evidence) => charge # "none"
    BY <1>1, <2>1 DEF Paid
  <2>3. charge # "none"
    BY <1>5, <2>2 DEF PaidFirst
  <2>4. license' = "active" => Authorizes(purchase')
    BY <1>4, <1>5, <1>6 DEF PaidFirst, Authorizes
  <2>. QED  BY <1>1, <2>3, <2>4 DEF PaidFirst
<1>13. OneLicense'
  BY <1>3, <1>5, <1>9 DEF OneLicense
<1>14. CheckoutSteps' /\ CheckoutDelivers'
  BY <1>1, <1>9, <1>a DEF CheckoutSteps, CheckoutDelivers
<1>15. NewestApplied'
  <2>1. SUFFICES ASSUME NEW e \in Id, Newest(e), kind[e] \in Decisive, Applied(e)'
                 PROVE  /\ verifiedAt' = created[e]
                        /\ purchase' = Effective(kind[e], subscription)
    BY <1>1, <1>2 DEF NewestApplied
  <2>2. /\ e \in Sent /\ created[e] \in 1..now /\ created[e] \in Nat
        /\ \A f \in Sent \ {e} : created[f] < created[e]
        /\ \A f \in Sent : created[f] <= created[e]
    <3>1. e \in Sent /\ \A f \in Sent \ {e} : created[f] < created[e]
      BY <2>1 DEF Newest
    <3>2. \A f \in Sent : created[f] \in 1..now
      BY DEF Stamped
    <3>. QED  BY <1>3, <3>1, <3>2
  <2>3. CASE e = event
    <3>1. kind[e] # "updated" /\ kind[e] # "checkout"
      BY <2>1 DEF Decisive
    <3>2. Evidence = Effective(kind[e], subscription)
      BY <2>1, <2>3, <3>1 DEF NewestApplied, Evidence
    <3>3. verifiedAt <= created[e]
      <4>1. CASE purchase = "none"
        BY <4>1, <2>2 DEF Stamped
      <4>2. CASE purchase # "none"
        <5>1. PICK f \in Sent : verifiedAt <= created[f]
          BY <4>2 DEF Stamped
        <5>. QED  BY <5>1, <2>2, <1>3 DEF Stamped
      <4>. QED  BY <4>1, <4>2
    <3>4. ~Older
      BY <2>2, <2>3, <3>3, <1>3 DEF Older
    <3>5. ~Withheld
      BY <2>1, <2>3, DecisiveGood DEF Withheld, Evidence
    <3>6. SetState
      BY <1>5, <3>4, <3>5
    <3>. QED  BY <1>3, <1>6, <2>2, <2>3, <3>2, <3>3, <3>6
  <2>4. CASE e # event
    <3>1. Applied(e)
      BY <1>1, <2>1, <2>4 DEF Applied
    <3>2. verifiedAt = created[e] /\ purchase = Effective(kind[e], subscription)
      BY <2>1, <3>1 DEF NewestApplied
    <3>3. Older
      BY <1>1, <2>2, <2>4, <3>2 DEF Older
    <3>4. purchase # "none"
      BY <2>2, <3>2 DEF Stamped
    <3>. QED  BY <1>5, <3>2, <3>3, <3>4
  <2>. QED  BY <2>3, <2>4
<1>. QED
  BY <1>7, <1>8, <1>10, <1>11, <1>12, <1>13, <1>14, <1>15

\* A reconciliation records it, and makes the license follow.
LEMMA ReconcileKeeps ==
    ASSUME LedgerInv, Reconcile
    PROVE  LedgerInv'
<1>1. Recorded
  BY DEF Reconcile, Recorded
<1>. QED
  BY <1>1, RecordedKeeps DEF Reconcile, buyerVars

\* A checkout is fulfilled.
LEMMA FulfillKeeps ==
    ASSUME LedgerInv, Fulfill
    PROVE  LedgerInv'
<1>1. Recorded
  BY DEF Fulfill, Recorded, Refused
<1>2. holder' = holder \/ holder' = TRUE
  BY DEF Fulfill
<1>. QED
  BY <1>1, <1>2, RecordedKeeps DEF Fulfill

\* The three steps that concern the buyer's page and email.
LEMMA BuyerKeeps ==
    ASSUME LedgerInv, ClaimLicense \/ QueueMail \/ FailCheckout
    PROVE  LedgerInv'
<1>. USE DEF LedgerInv
<1>1. /\ UNCHANGED <<now, subscription, charge, sent, kind, created, snapshot, inbox,
                     ledger, began, purchase, changedAt, verifiedAt, license, issued,
                     event, seen, faults, crashes>>
      /\ event \in Sent /\ event \in Id
      /\ \/ /\ at = "fulfilled" /\ at' = "claimed"
            /\ claim' = "active" /\ mailed' = mailed /\ holder' = holder
         \/ /\ at = "claimed" /\ at' = "done"
            /\ claim' = claim /\ mailed' = TRUE /\ holder /\ holder' = holder
         \/ /\ at = "begun" /\ at' = "done" /\ kind[event] = "checkout_failed"
            /\ claim' = "failed" /\ mailed' = mailed /\ holder' = holder
  BY DEF ClaimLicense, QueueMail, Mailable, FailCheckout, Handling, TypeOK, Sent, Id, stripeVars,
         recordVars, buyerVars
<1>2. Sent' = Sent /\ \A f : Newest(f)' <=> Newest(f)
  BY <1>1 DEF Sent, Newest
<1>3. TypeOK'
  BY <1>1, <1>2 DEF TypeOK
<1>4. Handling'
  BY <1>1, <1>2 DEF Handling
<1>5. Stamped' /\ Paid' /\ PaidFirst' /\ OneLicense' /\ OneCheckout'
  BY <1>1, <1>2 DEF Stamped, Paid, PaidFirst, OneLicense, OneCheckout
<1>6. CheckoutSteps'
  BY <1>1 DEF CheckoutSteps, Handling
<1>7. CheckoutDelivers'
  <2>1. kind[event] = "checkout_failed"
        => \A e \in Id : ~(kind[e] = "checkout" /\ ledger[e] = "processed")
    BY <1>1 DEF OneCheckout, Handling
  <2>. QED  BY <1>1, <2>1 DEF CheckoutDelivers
<1>8. NewestApplied'
  <2>1. kind[event] \notin Decisive
    BY <1>1 DEF Handling, Decisive
  <2>2. \A e \in Id : Newest(e)' /\ kind'[e] \in Decisive /\ Applied(e)'
                      => Newest(e) /\ kind[e] \in Decisive /\ Applied(e)
    BY <1>1, <1>2, <2>1 DEF Applied
  <2>. QED  BY <1>1, <2>2 DEF NewestApplied
<1>. QED
  BY <1>3, <1>4, <1>5, <1>6, <1>7, <1>8
-----------------------------------------------------------------------------
(* The theorems.                                                            *)

\* Nothing was bought at first.
LEMMA InitHolds ==
    ASSUME Init
    PROVE  LedgerInv
<1>. USE DEF Init
<1>1. Sent = {}
  BY DEF Sent
<1>2. TypeOK
  <2>1. now \in 1..MaxTime /\ 0 \in 0..MaxTime /\ 0 \in 0..MaxEvents /\ 0 \in 0..MaxFaults
        /\ 0 \in 0..MaxCrashes
    OBVIOUS
  <2>. QED  BY <1>1, <2>1 DEF TypeOK, Status
<1>3. Handling /\ Stamped /\ Paid /\ PaidFirst /\ OneLicense
  BY <1>1 DEF Handling, Stamped, Paid, PaidFirst, OneLicense, Authorizes
<1>4. OneCheckout /\ CheckoutSteps /\ CheckoutDelivers
  BY <1>1 DEF OneCheckout, CheckoutSteps, CheckoutDelivers
<1>5. NewestApplied
  BY <1>1 DEF NewestApplied, Newest
<1>. QED
  BY <1>2, <1>3, <1>4, <1>5 DEF LedgerInv

\* Every step keeps the invariant.
LEMMA StepHolds ==
    ASSUME LedgerInv, [Next]_vars
    PROVE  LedgerInv'
<1>1. CASE StripeStep
  <2>1. PICK k \in Kind, s \in Status : Told(k, s)
    BY <1>1, StripeTells
  <2>. QED  BY <2>1, TellKeeps
<1>2. CASE Tick
  BY <1>2, TickKeeps
<1>3. CASE \E e \in Id : Deliver(e)
  BY <1>3, BeginKeeps, DuplicateKeeps DEF Deliver
<1>4. CASE HandlerStep
  BY <1>4, FetchKeeps, EndKeeps, ReconcileKeeps, FulfillKeeps, BuyerKeeps
  DEF HandlerStep
<1>5. CASE Crash
  BY <1>5, CrashKeeps
<1>6. CASE OperatorStops
  BY <1>6, OperatorKeeps
<1>7. CASE UNCHANGED vars
  <2>. USE DEF LedgerInv
  <2>1. UNCHANGED <<now, subscription, charge, sent, kind, created, snapshot, inbox,
                    ledger, began, purchase, changedAt, verifiedAt, license, issued,
                    holder, claim, mailed, at, event, seen, faults, crashes>>
    BY <1>7 DEF vars, stripeVars, recordVars, buyerVars, handlerVars
  <2>2. Sent' = Sent /\ \A f : Newest(f)' <=> Newest(f)
    BY <2>1 DEF Sent, Newest
  <2>3. TypeOK' /\ Handling'
    BY <2>1, <2>2 DEF TypeOK, Handling
  <2>4. Stamped' /\ Paid' /\ PaidFirst' /\ OneLicense' /\ OneCheckout'
    BY <2>1, <2>2 DEF Stamped, Paid, PaidFirst, OneLicense, OneCheckout
  <2>5. CheckoutSteps' /\ CheckoutDelivers'
    BY <2>1 DEF CheckoutSteps, CheckoutDelivers
  <2>6. NewestApplied'
    BY <2>1, <2>2 DEF NewestApplied, Applied
  <2>. QED  BY <2>3, <2>4, <2>5, <2>6
<1>8. CASE ConfirmAddress
  BY <1>8, AddressKeeps
<1>. QED
  BY <1>1, <1>2, <1>3, <1>4, <1>5, <1>6, <1>7, <1>8 DEF Next

\* The inductive invariant holds in every reachable state: of the webhook handler,
\* the purchase records and the checkout they serve.
THEOREM LedgerHolds == Spec => []LedgerInv
<1>1. Init => LedgerInv
  BY InitHolds
<1>2. LedgerInv /\ [Next]_vars => LedgerInv'
  BY StepHolds
<1>. QED
  BY <1>1, <1>2, PTL DEF Spec

\* The variables keep their types.
THEOREM TypeCorrect == Spec => []TypeOK
<1>1. LedgerInv => TypeOK
  BY DEF LedgerInv
<1>. QED
  BY <1>1, LedgerHolds, PTL

\* In whatever order events arrive, and however often a crash makes the handler
\* start over, a processed newest event about money is what the purchase says.
THEOREM NewestDecidesHolds == Spec => []NewestDecides
<1>1. LedgerInv => NewestDecides
  BY DEF LedgerInv, NewestApplied, NewestDecides, Applied
<1>. QED
  BY <1>1, LedgerHolds, PTL

\* No license is active without an authorizing purchase, and no purchase exists
\* before a payment.
THEOREM PaidFirstHolds == Spec => []PaidFirst
<1>1. LedgerInv => PaidFirst
  BY DEF LedgerInv
<1>. QED
  BY <1>1, LedgerHolds, PTL

\* The subscription never gets a second license.
THEOREM OneLicenseHolds == Spec => []OneLicense
<1>1. LedgerInv => OneLicense
  BY DEF LedgerInv
<1>. QED
  BY <1>1, LedgerHolds, PTL

\* A checkout settled as processed has delivered everything.
THEOREM CheckoutDeliversHolds == Spec => []CheckoutDelivers
<1>1. LedgerInv => CheckoutDelivers
  BY DEF LedgerInv
<1>. QED
  BY <1>1, LedgerHolds, PTL

\* Recording an event's evidence makes the license active only by evidence that is
\* not older than the recorded one and may lift a terminal state.
LEMMA LiftedStep ==
    ASSUME LedgerInv, [Next]_vars, license # "active", license' = "active"
    PROVE  /\ at = "fetched"
           /\ created[event] >= verifiedAt
           /\ purchase \in Terminal
              => kind[event] \in {"checkout", "invoice_paid", "dispute_won"}
<1>1. ~StripeStep
  BY StripeTells DEF Told, RelayUnchanged, recordVars
<1>2. ~Tick /\ ~(\E e \in Id : Deliver(e)) /\ ~Crash /\ ~UNCHANGED vars
  BY DEF Tick, Deliver, Begin, AnswerDuplicate, Crash, vars, recordVars
<1>3. ~OperatorStops /\ ~ConfirmAddress
  BY DEF OperatorStops, ConfirmAddress, recordVars
<1>4. /\ ~Fetch /\ ~FetchFails /\ ~Unlinked /\ ~FulfillRefused /\ ~ClaimLicense
      /\ ~QueueMail /\ ~MailRefused /\ ~FailCheckout /\ ~Unpaid /\ ~Processed
  BY DEF Fetch, FetchFails, Unlinked, FulfillRefused, ClaimLicense, QueueMail,
         MailRefused, FailCheckout, Unpaid, Processed, recordVars
<1>5. Reconcile \/ Fulfill
  BY <1>1, <1>2, <1>3, <1>4 DEF Next, HandlerStep
<1>6. at = "fetched"
  BY <1>5 DEF Reconcile, Fulfill
<1>7. /\ SetState
      /\ purchase = "none" \/ ~Older
      /\ kind[event] # "checkout" => purchase = "none" \/ ~Withheld
  BY <1>5 DEF Reconcile, Fulfill, Insert, recordVars
<1>8. Authorizes(Evidence)
  <2>1. license' = LicenseStatus(Evidence)
    BY <1>7 DEF SetState
  <2>. QED  BY <2>1, EvidenceType DEF Evidence
<1>9. created[event] >= verifiedAt
  <2>1. event \in Sent /\ created[event] \in 1..now /\ now \in 1..MaxTime
        /\ verifiedAt \in 0..MaxTime
    BY <1>6 DEF LedgerInv, Handling, Stamped, TypeOK
  <2>2. purchase = "none" => verifiedAt = 0
    BY DEF LedgerInv, Stamped
  <2>. QED  BY <1>7, <2>1, <2>2 DEF Older
<1>10. ASSUME purchase \in Terminal
       PROVE  kind[event] \in {"checkout", "invoice_paid", "dispute_won"}
  BY <1>7, <1>8, <1>10 DEF Terminal, Withheld
<1>. QED
  BY <1>6, <1>9, <1>10

\* A stopped license is lifted only by fresh evidence, and a refund or a lost
\* dispute only by a payment or a dispute that was won (reconcile_subscription,
\* fulfill_purchase).
THEOREM LiftedHolds == Spec => LiftedByEvidence
<1>1. LedgerInv /\ [Next]_vars
      => [license # "active" /\ license' = "active"
          => /\ at = "fetched"
             /\ created[event] >= verifiedAt
             /\ purchase \in Terminal
                => kind[event] \in {"checkout", "invoice_paid", "dispute_won"}]_vars
  BY LiftedStep
<1>. QED
  BY <1>1, LedgerHolds, PTL DEF Spec, LiftedByEvidence
-----------------------------------------------------------------------------
(* No event is lost while the process lives.                                 *)

\* While the process has not ended, an event marked as processing is the one the
\* handler holds, and Stripe is left without repeats of settled events only.
Settled ==
    crashes = 0
    => /\ EverySettled
       /\ \A e \in Id : ledger[e] = "processing" => at # "idle" /\ event = e

\* A step that leaves the ledger and the inbox alone, and the handler at work.
LEMMA SameSettled ==
    ASSUME Settled,
           UNCHANGED <<sent, inbox, ledger, event, crashes>>,
           at' = "idle" => at = "idle"
    PROVE  Settled'
BY DEF Settled, EverySettled, Sent

\* An event is sent, is taken up, or is answered as a duplicate: only one that is
\* neither new nor being handled is answered unhandled.
LEMMA SettledOnDelivery ==
    ASSUME LedgerInv, Settled, StripeStep \/ \E e \in Id : Deliver(e)
    PROVE  Settled'
<1>0. ledger \in [Id -> {"new", "processing", "pending", "failed", "processed",
                         "reconciliation_required"}]
      /\ inbox \subseteq Sent
  BY DEF LedgerInv, TypeOK
<1>1. CASE StripeStep
  <2>1. PICK k \in Kind, s \in Status : Told(k, s)
    BY <1>1, StripeTells
  <2>2. /\ sent' = sent + 1 /\ inbox' = inbox \cup {sent + 1}
        /\ UNCHANGED <<ledger, at, event, crashes>>
    BY <2>1 DEF Told, Send, RelayUnchanged, handlerVars
  <2>3. Sent' \ inbox' \subseteq Sent \ inbox
    BY <2>2 DEF Sent, LedgerInv, TypeOK
  <2>. QED  BY <2>2, <2>3 DEF Settled, EverySettled
<1>2. ASSUME NEW e \in Id, Begin(e)
      PROVE  Settled'
  <2>1. /\ at = "idle" /\ at' = "begun" /\ event' = e /\ e \in inbox
        /\ ledger' = [ledger EXCEPT ![e] = "processing"]
        /\ UNCHANGED <<sent, inbox, crashes>>
    BY <1>2 DEF Begin, stripeVars
  <2>2. Sent' = Sent
    BY <2>1 DEF Sent
  <2>3. \A f \in Id \ {e} : ledger'[f] = ledger[f]
    BY <1>0, <2>1
  <2>. QED  BY <2>1, <2>2, <2>3 DEF Settled, EverySettled, Sent, Id, LedgerInv, TypeOK
<1>3. ASSUME NEW e \in Id, AnswerDuplicate(e)
      PROVE  Settled'
  <2>1. /\ at = "idle" /\ inbox' = inbox \ {e} /\ ledger[e] # "new"
        /\ UNCHANGED <<sent, ledger, at, event, crashes>>
    BY <1>3 DEF AnswerDuplicate, Claimable, stripeVars, handlerVars
  <2>2. Sent' = Sent
    BY <2>1 DEF Sent
  <2>. QED  BY <2>1, <2>2 DEF Settled, EverySettled
<1>. QED
  BY <1>1, <1>2, <1>3 DEF Deliver

\* An event that is finished has a result that settles it.
LEMMA SettledOnFinish ==
    ASSUME LedgerInv, Settled, at # "idle",
           NEW r \in {"pending", "failed", "processed", "reconciliation_required"},
           Finish(r)
    PROVE  Settled'
<1>1. /\ at' = "idle" /\ ledger' = [ledger EXCEPT ![event] = r]
      /\ inbox \ {event} \subseteq inbox'
      /\ UNCHANGED <<sent, crashes>>
  BY DEF Finish, stripeVars
<1>2. /\ Sent' = Sent /\ Sent \subseteq Id /\ event \in Id
      /\ ledger'[event] = r
      /\ \A f \in Id \ {event} : ledger'[f] = ledger[f]
  BY <1>1 DEF Sent, Id, LedgerInv, Handling, TypeOK
<1>. QED
  BY <1>1, <1>2 DEF Settled, EverySettled

\* Every step keeps it: the handler settles what it took up, and only a crash stops
\* it.
LEMMA SettledStep ==
    ASSUME LedgerInv, Settled, [Next]_vars
    PROVE  Settled'
<1>1. CASE StripeStep \/ \E e \in Id : Deliver(e)
  BY <1>1, SettledOnDelivery
<1>2. CASE FetchFails \/ Unlinked \/ FulfillRefused \/ MailRefused \/ Unpaid \/ Processed
  BY <1>2, SettledOnFinish
  DEF FetchFails, Unlinked, FulfillRefused, MailRefused, Unpaid, Processed
<1>3. CASE Crash
  <2>1. crashes' # 0
    BY <1>3 DEF Crash, LedgerInv, TypeOK
  <2>. QED  BY <2>1 DEF Settled
<1>4. CASE Tick \/ OperatorStops \/ ConfirmAddress \/ UNCHANGED vars
  BY <1>4, SameSettled DEF Tick, OperatorStops, ConfirmAddress, vars, stripeVars, handlerVars
<1>5. CASE Fetch \/ Reconcile \/ Fulfill \/ ClaimLicense \/ QueueMail \/ FailCheckout
  BY <1>5, SameSettled
  DEF Fetch, Reconcile, Fulfill, ClaimLicense, QueueMail, FailCheckout, stripeVars
<1>. QED
  BY <1>1, <1>2, <1>3, <1>4, <1>5 DEF Next, HandlerStep

\* Failed calls to Stripe, repeats, refusals and duplicates lose no event: one that
\* Stripe stops repeating was settled, unless the process ended while it handled
\* one (begin_purchase_event, access_stripe_webhook).
THEOREM NoneLostHolds == Spec => []NoneLost
<1>1. Init => Settled
  BY DEF Init, Settled, EverySettled, Sent
<1>2. LedgerInv /\ Settled /\ [Next]_vars => Settled'
  BY SettledStep
<1>3. Settled => NoneLost
  BY DEF Settled, NoneLost
<1>. QED
  BY <1>1, <1>2, <1>3, LedgerHolds, PTL DEF Spec
=============================================================================
