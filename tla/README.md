# A TLA+ verification of Local Flight

Local Flight is a local-first flight board: a desktop application that fetches, merges and shows
the flights of one airport, a relay service that shares paid schedule data among many boards, and a
mobile companion. This directory holds TLA+ specifications of the parts of it whose correctness
depends on the order of events, TLC configurations that model-check them, and proofs of their main
properties that TLAPS checks.

Paths below are relative to the repository: `relay/...` is the relay, `mobile/...` the companion;
other paths (`scheduler/...`, `storage/...`, `ui/...`) are below the desktop application's package
`src/localflight/`.

## 1. The system

| part | source | state it keeps | operations | modelled |
|---|---|---|---|---|
| schedule refresh service | `relay/schedule_service.py` | one row per airport and policy (generation, lease, next try, enrichment time, error, empty confirmations) and one board per provider plus the published one, in SQLite; threads of several processes | read, claim, renew, fetch, publish, record a failure, enrich, release | `ScheduleRefresh` |
| Relay Access activations | `relay/access/service.py`, `operator.py`, `schema.py` | `relay_activations`, `access_challenges` | grant, offer a move, prepare, commit, activate, deactivate, revoke, invalidate | `ReceiverSeat` |
| desktop scheduler | `scheduler/control.py`, `scheduler/runtime.py`, `storage/state.py`, `storage/config.py` | the scheduler's thread and stop event, restart and cooldown times, `state.json`, `config.json` | start, restart, stop, one cycle, save a record, save settings | `SchedulerControl` |
| purchases and subscriptions | `relay/main.py` (Stripe webhook), `relay/access/service.py`, `fulfillment.py`, `adapters.py` | `purchase_events`, `purchase_records`, `subscription_terms`, `relay_licenses`, checkout claim, queued mail | begin and finish an event, fulfil a checkout, reconcile a subscription, operator suspend and revoke | `SubscriptionLedger` |
| license mail and notifications | `relay/access/service.py`, `operator.py`, `adapters.py`, mail loops of `relay/main.py` | `license_deliveries`, `notification_outbox`, `mail_attempts` | queue, recover, claim, send, record, retry, cancel | `MailOutbox` |
| remote companion relay | `relay/main.py`, `sources/web/remote_companion_agent.py`, `mobile/src/api/remoteCompanion.ts` | host sessions with their pending requests, tickets, the host's replay cache | connect, replace, forward, answer, time out, end | `RemoteCompanion` |
| provider transport and budgets | `relay/schedule_transport.py`, `relay/main.py` | next slot, block and pause, usage counters, circuit breaker | reserve a slot and a unit, wait, send, retry, defer, count failures | `ProviderTransport` |
| one-time Google purchases: verification, reconciliation, voided sweep | `relay/main.py`, `relay/access/service.py`, `mobile_verifiers.py` | `purchase_records`, `purchase_events`, provider rows of `notification_outbox`, the next run's time | report, fulfil, acknowledge, reconcile daily, sweep | `PlayPurchases` |
| receiver credential on the desktop | `ui/server.py`, `storage/route_transition.py`, `storage/install.py` | credential file, cached access state, route, provider keys, journal of a route change | activate, check, release, change the route, recover, retry a release | `ReceiverLink` |
| ground layer cache and warm jobs | `relay/main.py`, `relay/ground_cache.py` | snapshots of layers, `ground_warm_jobs`, one lease in `ground_cache_leases`, per-process locks and queues | read and refresh a layer, ask for a warming, run it when due, settle at a start, retire | `GroundWarm` |
| operator console | `relay/access/operator.py`, `operator_routes.py` | grants, invitations, audit | only what touches a seat, a license or a message is in the modules above | not the rest |
| encrypted backups | `relay/access/backup.py` | files | copy and encrypt | no: one process, one copy, SQLite's own backup |
| store verification | `relay/access/mobile_verifiers.py`, `adapters.py` | none | check signatures and payloads | no: pure data and external services |
| admin pages, site contact, bug reports | `relay/main.py` | single rows, rate limits | insert and list | no: no interactions of their own |
| decoding, deduplication, fusion | `decode/`, `display/fids.py`, `sources/web/schedule_fusion.py` | none | pure transformations | later, against a reference definition |
| flight sources | `sources/` | none | HTTP clients and parsers | no: I/O and parsing |
| desktop storage, interface, rendering, platform | `storage/`, `ui/`, `render/`, `radar/`, `native/`, `platform/` | files with one writer, windows | pages and drawing | only the routes that restart the scheduler or handle the receiver, and the files they share |
| mobile application, website, workers | `mobile/`, `site/`, `workers/` | caches, pages | screens | no: the relay's side of the phone's calls is in `ReceiverSeat` and `RemoteCompanion` |

How they interact. The desktop scheduler asks the relay for a board (a read of the schedule refresh
service), after presenting the credential of the receiver that holds the seat of a license. That
license exists because the purchase part made it, is stopped and lifted by purchase events and by
operators, and an operator's or a purchase's stop also revokes the receivers. The phone activates,
moves and releases the same seat, and reaches a desktop through the remote companion relay. Within
the relay the parts communicate through SQLite transactions only; within the desktop, through one
lock, a stop event per thread and two JSON files that are rewritten in place.

What is hard to test in it: threads that stall past a lease and wake up later; processes that end
between two transactions; webhooks in any order, repeated; preparations that are committed minutes
after they were checked; a restart that gives up waiting for a loop's network calls; files read while they are
rewritten. An answer that is read before, and applied after, another one; sockets that break without either side
noticing; several files that are written one after the other. `PROJECT.json` lists each hazard with its
line and the properties aimed at it.

What makes each part correct, in a sentence:

- *refresh*: one fetch per claim, and nothing that comes home late changes what readers see;
- *activations*: one receiver per license, moved only by consent, and no revoked or spent
  authorisation ever seats anybody;
- *scheduler*: one refresh loop, which a restart replaces, and a record of the last success that
  failures do not erase;
- *purchases*: one license per subscription, active only while paid, decided by the newest event;
- *mail*: an accepted message is not sent again unless somebody asks, and every message comes to rest;
- *companion*: a request is carried out once for as long as the host remembers it, its answer reaches the
  call it belongs to or nobody, and a host that reconnects can be reached;
- *transport*: no request without a slot and a unit of its own, none after the provider asked to stop,
  and none kept out for good once the provider is well;
- *Google purchases*: what has ended stays ended, what Google holds in the end the relay does too, and
  each purchase is acknowledged or visibly given up;
- *devices*: a saved route has its own keys, and a credential is kept until the relay let go of it;
- *ground*: one warm job works at a time, each comes to rest, and warming goes on whatever was left behind.

## 2. The modules

Each component has a specification, an `MC...` module with the instances TLC needs, one `.cfg` per
question and a `..._proofs` module. `Receiver_proofs` holds the proofs about `ReceiverSeat` and
`ReceiverLink`, and `RelayWork_proofs` those about `ProviderTransport` and `GroundWarm`, each pair side by
side and without a fact in common; a module that extends two specifications has one name for each
definition, which is why `ReceiverLink` and `GroundWarm` call theirs `LinkInit`, `LinkSpec`, `GroundInit`,
`GroundSpec` and so on. Two abstract specifications say what a reader outside the component may rely on;
the detailed ones are shown to implement them.

Conventions. An action is one transaction, one critical section or one step of a thread between two
of them. A stored deadline is kept as the time left until it, with 0 for "passed", and an age stops
growing at the value beyond which the code no longer tells ages apart; `Tick` moves them all. A
transaction that raises is rolled back and so is no action. A history variable, marked as such,
records what properties refer to and guards nothing. An operator that a comment calls *mutated* is
the definition it precedes with one plausible mistake; no specification uses it, and each property
is broken by the mutant `PROJECT.json` pairs with it. The named parts of a component's invariant
(`FenceInv`, `ReceiverInv`, ...) are properties of their own that one run checks together.

### `ScheduleRefresh` (implements `SnapshotFence`)

One lane, that is an airport under one provider policy; lanes share nothing but slots and the
enrichment thread, and a changed policy is another lane.

| variable | code |
|---|---|
| `generation, lease, wait, enrichWait, lastError, confirmations` | the row of `schedule_refresh_state` |
| `cache` | the lane's rows of `schedule_provider_cache`, by provider and "published" |
| `refresh`, `enrich` | the refresh thread in each slot of each process, its enrichment thread |
| `reader` | a request inside `read()` |
| `emptySeen` | history: which rejected empty board `confirmations` stands for |

`Read`, `Schedule`, `PollServe`, `PollRefuse`, `PollSchedule`, `ColdWaitOver` are `read()` with its
cold-wait loop; `Claim` is the transaction of `_schedule`; `Renew` the renewer; `FetchReturns`,
`FetchFails`, `PublishFenced`, `PublishRejected`, `Publish`, `RecordFailure`, `QueueEnrichment`,
`Finish` the steps of `_refresh` with its except and finally branches; `EnrichReturns`,
`EnrichFails`, `EnrichPublish` the enrichment. `Crash` ends a process at any point.

A board is `busy` (eight flights or more in the shared window), `thin` (so few that losing the others
is suspicious) or `empty` (none, and validated as such; only AeroDataBox boards are). These are the
three outcomes the rule in `_publish` tells apart. Left out: the window a reader asks for,
`min_interval`, counters, `close()`, the schema migration, and failures of the database itself
(the code recovers from none of them).

`SnapshotFence` is what readers rely on: refreshes are numbered as they are handed out, and each
number is shown once, in order, or abandoned for good. The refinement maps `board` to the generation
of the published row and `settled` to the counter, less one while the running claim may still publish.

### `ReceiverSeat` (implements `OneSeat`)

One license. `act` is `relay_activations`, `ch` the activation grants and move tokens of
`access_challenges`, `entitled` whether the license and its purchase authority are active. Each public
operation of the service is one SQLite transaction and one action: `CreateGrant`, `OfferMove`
(`activate` while another installation holds the seat), `Prepare` and `Activate` (with and without
`prepare_only`), `Commit`, `Deactivate`, `RevokeReceivers` (five operations whose effect here is the
same), `OperatorInvalidate`, `Entitle`, `Tick`. `Observe` keeps the history variables `seated` and
`disturbed`. The repeat of a commit that succeeded changes nothing and is a stutter.

The two unique indexes of the schema are *not* assumed: `SeatInv` shows that they never refuse a row.
The kind and name that a move token must also match are left out, a caller that sends others being
refused. Left out too: key derivation, deliveries, `last_seen_at`, reporting.

`OneSeat`: at most one credential holds the seat, it passes on in one step, and one that has lost it
never holds it again.

### `SchedulerControl`

| variable | code |
|---|---|
| `thread`, `stop` | `control._thread`, the stop events that are set |
| `pc, cycle, previous, outcome` | where each thread is in `_run_scheduler`/`run_loop`, the configuration its cycle loaded, the success it read before it, what its fetch brought |
| `config, cut` | `config.json`: its version, and whether the process ended while it was written |
| `state, cooling` | `state.json`: the last success, the restart button's cooldown |
| `sinceRestart` | `_last_restart_request_monotonic` |
| `call, old, left` | a caller of `restart_scheduler`, the thread it waits for, what is left of its join |
| `busy, asked, lastSuccess, forgotten` | history |

`Boot` is `__main__` or its setup watcher; `Linked`, `CycleStarts`, `FetchEnds`, `FetchFails`, `Repaired`,
`Saved`, `SaveFails`, `Reported`, `Wakes`, `Stops`, `Cleanup` are the thread; `OpenConfig`, `SaveConfig`,
`PressRestart`, `RateLimited`, `Request`, `Joined`, `JoinTimesOut`, `Starts` the callers; `Relaunch` ends
the process, at any point of a write.

A thread's identity is its thread object with its stop event, used again only when nobody refers to
it. The network calls of a thread take any number of ticks: the link check before the loop (`linking`),
the fetch, the link repair after a failed one (`repairing`) and the report of the failure (`reporting`),
and so does the writing of `state.json`. Prompt, that is, without a tick passing while they are pending
(`Prompt`), are only the look at the stop event before a cycle, the wake-up by it from the sleep, the
thread's own end, the writing of `config.json` and the steps of `restart_scheduler` beside its join.
Success is told apart by the version of the configuration that produced it;
a managed board that does not say when it was fetched leaves the record blank, as the code does.
Both files are truncated and rewritten, and a reader in between, or after a cut, gets the defaults
(`Loaded`, `Blank`). The button's cooldown starts at any value up to its length, a superset of what
the parsed timestamp gives. Left out: the content of a snapshot, retry delays, and what the link check,
the repair and the report do at the relay.

### `SubscriptionLedger`

One annual subscription bought through Stripe. `subscription`, `charge`, `kind`, `created`, `snapshot` and
`inbox` are Stripe (external, modelled from what the webhook handler reads); `ledger` and `began` are
`purchase_events`; `purchase`, `changedAt`, `verifiedAt` the purchase and its terms; `license`, `issued`,
`holder`, `claim`, `mailed` what the buyer gets (`holder`: an address is kept with the license); `at`,
`event`, `seen` the handler.

The handler is a coroutine that never awaits once it has the body, so it serves one event at a time;
but each call into the service is a transaction of its own and `Crash` may fall between any two:
`Begin`, `AnswerDuplicate`, `Fetch`, `FetchFails`, `Reconcile`, `Unlinked`, `Fulfill`,
`FulfillRefused`, `ClaimLicense`, `QueueMail`, `MailRefused`, `FailCheckout`, `Unpaid`, `Processed`. The
buyer, who may have the key from the checkout page, can confirm an address (`ConfirmAddress`). Stripe stamps
an event with a second, delivers in any order and repeats until it is answered with success. The
operator's `suspend_license` and `revoke_license` are `OperatorStops`; `reactivate_license` never
succeeds for a subscription and so is no action.

The paid period is taken to be running, and the states that authorize alike ("active", "grace",
"cancelled_active") are one; paused, unpaid and expired are read as the code reads them. Left out:
Apple, Google, gifts, the arithmetic of renewal periods, the sale fences of `fulfillment.py`.

### `MailOutbox`

| variable | code |
|---|---|
| `row, tries, wait, age` | status, `attempt_count`, `next_attempt_at`, `updated_at` of a row of either outbox |
| `standing` | what its license says of it: allowed, withheld, superseded, or under another key |
| `asked` | the operator's last retry, which the ten-minute rule of the console looks at |
| `at, batch` | a delivery pass: its step, and what is left of the batch it claimed |
| `accepted, consents, reclaimed` | history: acceptances, operators' retries, claims of a row still being sent |

A pass is `Recover`, `Claim`, then for each message `Begin`, the server's `ServerAccepts`,
`ServerRefuses` or `ServerFallsSilent`, and `RecordSent`, `RecordFailed` or `RecordUnsure`, each of
which may fail (`BeginFails`, `RecordSentFails`, `RecordFails`). Passes run in the maintenance loop
and in request threads at the same time and share nothing but the rows. `Queue`, `Cancel`, `Retry`,
`AdminRetry`, `Withhold`, `Supersede`, `Rotate` happen to a row beside them. Left out: who is written
to and what, the digest of several notifications, the audit.

### `RemoteCompanion`

One installation. `registered` and `pending` are the relay's tables of host sessions and of futures, `coro`
the coroutine of each session, `cut`, `down` and `up` its socket; `agent`, `work` and `seen` the host with
its replay cache, and `lapses` counts how often that lost an id; `id`, `at`, `via` and `future` the phone's
calls. What stands between two awaits of the relay is one action: `GetTicket`, `Accept` (the registration
that replaces an older session), `Receive`, `Beat`, `End`, `Close`; `Submit`, `Send`, `Finish`, `Timeout`;
the host's `Take`, `Run`, `Reply`, `GiveUp`. `Lapse` is the end of the ten minutes for which the host
remembers a request. `Break`, `HandshakeLost`, `SendFails`, `HostRestarts` and `RelayRestarts` are the
failures; `Submit` draws any request, so a network repeats a post by submitting it again.

`Accept` has no await of its own between the upgrade and the registration. Left out: grants, rates
and sizes (a call that is refused before it looks for a session changes nothing), encryption, and what the
host's local server does with a request.

### `ProviderTransport`

One credential of one provider. `next`, `blocked`, `paused` are its row of
`schedule_provider_transport`, `used` and `shared` the counters of the period, `failures` and `open` the
breaker; each worker has `at`, `sleep`, `pages`, `retries`, `rich`. `CheckCircuit`, `CheckAvailable`,
`Reserve`, `Slot`, `Recheck`, the outcome of the request (`Answered`, `RateLimited`, `Rejected`,
`GoesWrong`, `Unusable`), `ReserveRetry`, `RecordSuccess` and `RecordFailure` are one transaction or one
request each. The module follows the AviationStack client; AeroDataBox weighs a request in several units
and is otherwise the same. Left out: the radar's budget, per-installation limits, a rotated credential
(which has a row of its own).

### `PlayPurchases`

`play`, `acked`, `voided`, `listed` are Google (external: what the verifier and the sweep read);
`purchase`, `nextRec`, `row`, `event` the database; `sweepIn`, `dayLeft`, `ran` the clocks; `loop` the
maintenance loop and `req` the requests that report a purchase. A verification reads Google in one step
and writes in another (`CallVerify`, then `Apply`; `Arrive`, then `Report`), fulfilment
and the queueing of the acknowledgement are two (`ApplyQueues`, `ReportQueues`), and a sweep is
`AtSweep`, then per entry `BeginEvent`, `Refund`, `FinishEvent`. A loop pass that fails skips the mail.

Stored times are a few ticks, of which only the order matters: retries before sweeps before days. A row
of an older day that is still retried stands for the new day's. Queueing what is due and claiming it are
one step, because one thread does both. Left out: subscriptions (`SubscriptionLedger` has their
handling), Apple, pages of a listing, an operator's resolving of an event, health rows.

### `ReceiverLink`

| variable | code |
|---|---|
| `receiver` | the relay's status of each credential it issued to this installation (external) |
| `file, state, held` | the credential file, `relay_state` of the cached summary, `release_retry_not_before` |
| `route, keys` | `data_route` of `config.json`, the route whose keys `.env` holds |
| `journal` | `data_route_transition.json` and its stage |
| `job` | what the wizard (one request of the setup page at a time) and the release loop are doing |
| `torn` | history: new keys the journal never told of, or a journal that stayed behind |

A request to the relay takes effect in one step and is answered in another, and either half may be
lost: `RelayChecks`/`Checked`, `RelayPrepares`, `Store`, `RelayCommits`/`Committed`, with `RelayUndoes`
after a failure, `RelayReleases`/`Released`. A route change is `Begin`, `SaveKeys`, `MarkKeys`,
`SaveRoute`, `MarkRoute`, `Close`, any of which may fail or be the last; `Recover` is the next start.
`RelayEnds` is everybody who ends a receiver from outside. Left out: a second license, a request that
outlives its timeout, an `unlink` of the journal that fails, the migration of credentials from before
licenses (`relay_activation.py`), and the phone's staged activation.

### `GroundWarm`

| variable | code |
|---|---|
| `status, lease, dueIn` | `ground_warm_jobs.status`, the row of `ground_cache_leases`, the time until `next_due_at` |
| `queue, warm` | each process's executor of one thread, and where its job is |
| `task, lock, layer` | the refreshes readers asked for, `_ground_layer_locks`, an airport's snapshot (old or fresh) |
| `stores, lost, beside` | history: stores since the layer was old, jobs whose lease was taken, jobs settled by another's start |

`Ask` is the console, `WarmWhenDue` the hourly loop; `Acquire`, `Refused`, `Blocked`, `Start`,
`NextAirport`, `Completes`, `RecordFailed`, `Release` are `_run_ground_warm_job`, of which each write may
fail; `TakeLock`, `Busy`, `Fetched`, `FetchFails` are `_refresh_ground_layer` in the warm thread and in
readers' tasks; `Boot` is `_ensure_schema`, `Retire` the retention. A process may start beside another
one. The three layers of an airport are one; which airports are chosen, radius buckets, overrides and
what a reader is shown are left out.

## 3. What the runs check

| run | instance | distinct states | shows |
|---|---|---|---|
| `schedule_fence` | 2 processes of 1 slot, 2 generations, symmetric processes | 1,100,451 | `ScheduleInv` (types, one thread and one enrichment per claim, no stale failure), `RowsMoveForward`, `LeaseLostToTheClockOnly`, and that the published board implements `SnapshotFence` |
| `schedule_live` | 1 process, 3 generations, retry delays 0 and 3, fair | 364,446 | `ProviderBoardLossConfirmed`, `ColdLaneRefreshed` |
| `receiver_seat` | 2 installations, 3 activations, 2 challenges, lifetime 2, symmetric | 699,096 | `ReceiverInv` (one receiver, nothing survives a revocation, authorisations spent once, no commit after a disturbance), `MovedByConsent`, `SeatedOnOpenGrant`, and that the seat implements `OneSeat` |
| `scheduler_control` | 2 callers, 2 threads, 3 configurations, 2 faults, fair with retries | 1,108,542 | `SchedulerInv` (one loop, the last success kept), `StartedIsFresh`, `OnlyACycleHoldsItUp`, `Recovers` |
| `subscription_ledger` | 3 events of 11 kinds, 3 seconds, 1 failed call, 1 crash, fair | 1,384,137 | `LedgerInv` (the newest event decides, paid first, one license, checkout complete), `NoneLost`, `LiftedByEvidence`, `BuyerServed` |
| `subscription_refund` | 3 events of 3 kinds, no crash | violation | see Findings |
| `mail_outbox` | 1 message, 2 passes, 2 tries, 2 retries by operators, 1 change, 2 faults, fair | 951,036 | `MailInv` (`NoBlindResend` in it), `RevivedByRetryOrCarrier`, `MailSettles` |
| `remote_companion` | 2 calls, 2 requests, 2 activations, 2 sessions, 1 change, 1 fault, 1 lapse of each request, fair | 940,028 | `CompanionInv` (`CarriedOutOnce` in it), `AnsweredByItsReceiver`, `RevokedSessionEnds`, `HostReturns` |
| `provider_transport` | 2 workers, 2 pages, 1 retry, limit 2 of which 1 shared, 2 changes of the provider, fair | 1,974,333 | `TransportInv` (slots apart, every request paid for, `StoppedForAll`), `ServedAgain` |
| `play_purchases` | 1 purchase, 2 reports, 2 attempts, 1 fault, 1 crash, fair | 873,797 | `PlayInv`, `EndedStaysEnded`, `RecordFollowsGoogle`, `AcknowledgedOrGivenUp`, `SweepEndsIt` |
| `receiver_link` | 2 credentials, 2 free routes, 2 faults, 1 crash, fair | 1,352,248 | `LinkInv` (`KeysFollowRoute` in it), `SwitchLeavesNoReceiver`, `ReleasedBeforeForgotten`, `ReleaseKeptUp` |
| `ground_warm` | 2 processes, 1 airport, 2 jobs, a forced manual one, 1 fault, fair | 647,844 | `GroundInv` (a job at work holds the lease, one active job, a layer stored once per process), `SettledStays`, `JobEnds`, `WarmsAgain` |

Why the bounds are enough for what each run asks:

- *schedule*: overtaking needs two generations, one stalled thread and one that claims after its lease
  ran out, in one process or in two; the lease (2) can be renewed or run out while a fetch is under
  way. A confirmed loss needs three generations (a busy board, the first empty one, the second), so
  that property is in the run with three. `Interval <= Coverage < Retention`, as in the deployed
  settings, so that a board can be due, unusable and expired, in that order.
- *seat*: three activations are a holder, a preparation and one that interferes; two challenges are a
  grant and a move token, or two tokens of which one is stale; two ticks of lifetime let one deadline
  pass while another is open. Deadlock is checked: with every identifier used, the license may still
  lapse and return.
- *scheduler*: the join (1 tick) ends before the coalescing window (2), as 5 s does before 60 s; three
  configurations allow a save during a cycle and another during the restart it causes; two threads are
  what can exist while one exits; two faults are a failed write and a relaunch, or two of either.
- *ledger*: the properties relate the newest event, an older one, and the checkout. `Ttl` 1 of 2 seconds
  lets an unfinished event be taken up again and also be met too early. Three events are a checkout, a
  later one that overtakes it, and one that lifts or stops the license after. Deadlock is not checked: a
  subscription whose events are spent has stopped, as it may.
- *mail*: what goes wrong with a row needs two passes that overlap on it; two faults are an acceptance
  that is not recorded and then the end of a process, or a failed record in each pass; two tries are one
  retry and the last one. Rows influence each other only through a batch that is abandoned, which with one
  row is a pass that ends early.
- *companion*: two sessions are an old one and the one that replaces it; two calls of one request are a
  repeated post, and two of two requests race for the one place in `pending` (`MaxPending` 1). One lapse and
  the repeat after it make a request run twice without a restart, which a run with two calls can show. A
  call is over for good, so the system stops and deadlock is not checked.
- *transport*: two workers race for a slot and for the last unit of either counter; `MaxDelay` holds one
  waiting slot beyond the running one; a provider's pause (3) is longer than the interval (2) and the
  longest delay; two changes of mood let the provider fail and recover.
- *Google purchases*: `Retry` and `Interval` are both 2, so that the repeat of a failed sweep comes no
  sooner than a regular one, which is the harder case; both are longer than the one tick between two
  passes. `Window` 7 lists a purchase for three sweeps, one more than the failure and the crash can
  spoil. Two attempts are one failure and giving up. One purchase suffices for what a purchase promises;
  what entries do to each other is under Observations.
- *devices*: a credential in use and one activated anew; two free routes, because a change may go from
  one to the other; two faults are a lost answer and then a failed undoing, or a failed write and a
  failed recovery.
- *ground*: two processes are one whose job works and one that starts beside it; two jobs are one that lost
  its lease and the next; the lease (1) runs out while a fetch is under way; one fault is a database that
  fails a job's writes, so that a job or a lease is left behind, or the end of a process. One airport
  suffices: airports share nothing but the job that goes through them.

Fairness, and why the code justifies it:

- `ScheduleRefresh!FairSpec`: time passes; a reader inside `read()` goes on and clients ask again (the
  boards poll); a refresh thread takes its next step, because HTTP and SQLite calls have timeouts.
  Processes may crash at any point, but only finitely often. Nothing is assumed of the renewer.
- `SchedulerControl!FairSpec`: the operating system runs threads and requests, a fetch and the network calls around
  it end (they have timeouts) and time passes; `RetrySpec` adds a user who keeps pressing restart, which
  only `Recovers` needs.
- `SubscriptionLedger!FairSpec`: the handler runs on, time passes, and Stripe repeats each event until
  it is answered; strong fairness, because an event can be taken only while no other is handled.
- `MailOutbox!FairSpec`: passes run again and again (the maintenance loop) and go on (SMTP has a
  timeout), and time passes. Nobody has to ask for a retry.
- `RemoteCompanion!FairSpec`: coroutines whose await is over run on, heartbeats fail on a dead socket, and
  the host reconnects in a loop. Calls, broken sockets and restarts are not fair.
- `ProviderTransport!FairSpec`: workers go on (requests have timeouts), time passes, and budgets renew
  with their period. The provider need not recover; `ServedAgain` says what follows if it does.
- `PlayPurchases!FairSpec`: the maintenance loop goes on and time passes. Reports may never come.
- `LinkFairSpec` (`ReceiverLink`): a request of the wizard that has begun goes on, the release loop runs, time
  passes (the retry's waiting period), and the application is started again.
- `GroundFairSpec` (`GroundWarm`): the warm thread goes on (fetches and waits for a lock have timeouts), the hourly
  loop and the daily retention come round, time passes, and a process that ended is started again.
  Readers need not come.

## 4. What is proved

The `_proofs` modules prove the following for every value of the constants that the module's
assumption allows: any number of processes, slots, generations, installations, activations,
challenges, callers, threads, events, messages, passes, calls, sessions, purchases, credentials, workers,
airports and jobs, any leases, lifetimes, intervals and windows, and any bounds on faults and crashes. The
assumptions are

- `ScheduleAssumption`, `SeatAssumption` and `LinkAssumption`: types, that identifiers differ, and that the
  desktop has a route without the relay;
- `SchedulerAssumption`: types, and that the join is shorter than the coalescing window (5 s and 60 s);
- `LedgerAssumption`: types, and the event kinds Stripe sends;
- `MailAssumption`: types, and that the workers are finitely many (the budget counts them);
- `CompanionAssumption`: types, that identifiers differ, and that there is an activation at all;
- `PlayAssumption`: types, that a failed sweep is repeated no later than a regular one, and after two ticks
  at least: the loop comes round every minute (`main.py:12016`), the retry is fifteen minutes and the
  interval six hours (`main.py:11964` and `11971`). The proof asked for this
  one: with a retry after one tick, pass after pass could end in a failed sweep, before the mail
  (`MailGoesOn` would be false);
- `TransportAssumption`: types, that slots are at least a tick apart, and that a provider asks for a
  positive wait (`schedule_transport.py:30-37`);
- `GroundAssumption`: types, that identifiers differ, and that the processes are finitely many
  (`StoredOnce` counts them).

| module | theorems |
|---|---|
| `ScheduleRefresh_proofs` | `TypeCorrect`, `FenceHolds`, `ScheduleHolds`, `SingleFlightHolds`, `CurrentBoardHasNoErrorHolds`, `RowsMoveForwardHolds`, `ProviderBoardLossHolds`, `LeaseLostToTheClockOnlyHolds`, `SnapshotFenceImplemented` |
| `Receiver_proofs` (seat) | `TypeCorrect`, `ReceiverHolds`, `SeatHolds`, `RevocationHolds`, `SpentOnceHolds`, `UndisturbedHolds`, `ConsentHolds`, `OpenGrantHolds`, `OneSeatImplemented` |
| `Receiver_proofs` (link) | `InnerInvariant`, `LinkCorrect` (with `KeysFollowRoute`), `SwitchIsClean`, `ReleasedFirst` |
| `SchedulerControl_proofs` | `TypeCorrect`, `SchedulerHolds`, `SingleSchedulerHolds`, `SuccessKeptHolds`, `StartedFreshHolds`, `OnlyCycleHolds`, `StopObeyedHolds` |
| `SubscriptionLedger_proofs` | `TypeCorrect`, `LedgerHolds`, `NewestDecidesHolds`, `PaidFirstHolds`, `OneLicenseHolds`, `CheckoutDeliversHolds`, `LiftedHolds`, `NoneLostHolds` |
| `MailOutbox_proofs` | `InnerInvariant`, `MailCorrect` (with `NoBlindResend`), `RevivedForAReason` |
| `RemoteCompanion_proofs` | `InnerInvariant`, `CompanionCorrect` (with `CarriedOutOnce`), `AnsweredByItsReceiverHolds` |
| `PlayPurchases_proofs` | `InnerInvariant`, `PlayCorrect`, `AttemptsBounded`, `EndedForGood` |
| `RelayWork_proofs` (provider) | `TransportHolds` |
| `RelayWork_proofs` (ground) | `GroundInvariant`, `GroundHolds`, `SettledStaysHolds` |

Each proof rests on an inductive invariant that TLC found true of the run's instance before it was proved.
Those of the first four components and of the provider transport are what their runs check
(`ScheduleInv`, `ReceiverInv`, `SchedulerInv`, `LedgerInv`, `TransportInv`); the strengthenings of the
others are in the proof modules.

*The fence* (`FenceInv`). That two threads never share a generation is not inductive by itself; it
follows once every generation in use is known to be at most the counter (`GenerationsIssued`). That
stored rows only move forward needs `HolderStoredNothing`: until it publishes, the current generation
has stored nothing and has no enrichment. `NoFillBeforeQueue` and `EnrichmentStoredNothing` carry the
same fact through the enrichment, which is fenced by the generation alone. `CountedEmptyIsEvidence`
says that a counted empty board is later than every stored row and that its own thread is past its
publication, which is what makes the second empty board an independent one. `LeaseLostToTheClockOnly`
follows because the current generation has one thread: every other one that ends, fails or renews has an
earlier generation, which the code's comparison turns away. The refinement proof has
one case per effect on the two abstract variables: a claim settles its predecessor, a publication by
the holder shows its number, a holder that fails or dies abandons it.

*The seat* (`ReceiverInv`). The key is `WaitRecord`: a preparation during whose wait the seat did not
change still names the seat, and one during whose wait it did change names a receiver that has lost it
for good (`SeatedRecord`). So the one comparison `commit_activation` makes, of the seat with the
expected one, detects every disturbance, an exchange that returns to the same value included, because
no activation ever returns. Operations are first brought to a few *shapes* (a seat kept, a seat taken,
preparations closed); each part of the invariant is then shown once per shape.

*The scheduler* (`SchedulerInv`). `Alone` says that the only living thread is the one in place.
`OneRestart` needs the assumption on the join: a request that goes through resets the window, its
caller has left the join before the window ends, so at most one caller is past it; without that, a
second caller could start a thread between the first one's join and its start. `Patience` says that
no time has passed for a caller whose thread is idle, unless the thread was starting up or in the middle of
a cycle when it was told to stop: an idle thread hears the stop event at once and begins nothing more. That
is why only such a thread makes a restart give up.
`SuccessRecord` is why writing back a success read before the fetch does not lose a newer one: the
writer is alone.

*The ledger* (`LedgerInv`). Every step of Stripe is the same to the relay, one new event stamped no
earlier than the others. `Handling` says that the handler holds an event Stripe will repeat.
`Settled`, with which `NoneLost` is proved, says that without a crash an event is left in processing only
while the handler is at it, so whatever Stripe does not repeat has been settled.
`NewestApplied` carries the argument for `NewestDecides`: once the newest event is applied, its
timestamp is the one kept, so every other event is older and is set aside by the guard, and until then
what the handler works with is still current, since anything that changes the subscription is itself a
newer event. `CheckoutSteps` orders the transactions of a checkout and survives a crash because they
may all be repeated; an address, once kept, stays, so a repeat finds the mail no less acceptable for it.

*The mail* (`MailIInv`). `NoBlindResend` is not inductive: a pass that is about to send has not sent yet.
`SendBudget` adds up what was accepted, the passes that still carry the message and the claim that may
still be made, and bounds the sum by the first queueing, the operators' consents and the claims of rows
still being sent. Every action moves a unit from one place to another, so the proof counts the set of
carriers: a claim adds one pass, an outcome takes it away, and two passes on one row are paid for by the
claim that made them two. `AcceptedWasTaken` says that a pass which was told of an acceptance has one to
record.

*The companion* (`CompanionIInv`). `Earned` follows "done" backwards from the call to its future, to the
message under the same id and to the host's reply, each of which has a run behind it; `NoLeftovers` is what
makes the future found under an id the one of a call with that id. `Remembered` is why a request is carried
out once between two losses of its id: the host adds the id to its cache before it runs the request, so a
request whose id it does not remember has run no more often than the id was lost. `Countable` is needed
because the limit on pending requests is a cardinality.

*Google purchases* (`PlayIInv`). `AttemptsCounted` bounds the attempts of a row by its status; a restart
leaves a row sending whose next claim counts once more, which is the one attempt beyond the limit that a
restart can cost. `SweepsApart` says when the next sweep is due after one that failed, and so that the
pass between them comes to the mail. `Bought` is why a verification always has an answer.
`EndedStaysEnded` needs only that a pending write has a purchase and an answer (`LoopInPlace`,
`RequestsInPlace`): every write asks what the purchase is when it writes, not when Google was asked.

*The devices* (`LinkIInv`). `KeysFollowRoute` speaks of rest; `KeysInStep` says of every step of a change
which keys, route and journal it finds, and `ChangeInOrder` that the steps come in order, so that a process
that ends anywhere leaves a journal from which the next start arrives at a route with its own keys.
`Carried` follows the credential of each request: it was issued, and an answered release or undoing has
ended its receiver, which is what `ReleasedBeforeForgotten` needs.

*The provider* (`TransportInv`). The invariant is inductive as it stands, but for `WaitersBounded`, which
follows from the rest: every waiting worker keeps `Interval` ticks from its slot on for itself, so the
pairs of a waiting worker and one of its ticks go injectively into the `MaxDelay + Interval - 1` ticks
there are, and a product of sets has the product of their sizes. The set of workers need not be finite
for this. That nobody sends after a pause is shown with `BlockedInNext` and the set of
those under way that a deferral notes; only `Recheck` adds a request, and not while the row is blocked or
paused. That a unit is reserved at most once at a time (`PaidAhead`) is what keeps the retry's
unit apart from the first.

*The ground layers* (`GroundIInv`). `HoldsLease` and `OneActive` need to know that no two threads carry one
job (`CarriedOnce`): otherwise a release would give back another thread's lease. `JobsTold` says that a
carried job's row is "queued" until it starts and "running" until its end is recorded, unless a start
settled it; so no thread makes a settled row active, and what a thread writes over was not settled,
which is `SettledStays`. `StoredOnce` counts a process while it still fetches (`Bringing`) as if it had
stored: under the lock it found the layer old, so nothing was stored yet and all who fetch are fewer than
the processes; a store then moves one process from those who fetch to those who stored. `LocksHeld` is
why a process is among them once.

### What is only model-checked

Liveness (`ColdLaneRefreshed`, `Recovers`, `BuyerServed`, `MailSettles`, `RevokedSessionEnds`,
`HostReturns`, `ServedAgain`, `RecordFollowsGoogle`, `AcknowledgedOrGivenUp`, `SweepEndsIt`,
`ReleaseKeptUp`, `JobEnds`, `WarmsAgain`): liveness under fairness is beyond the prover.
Every safety property and action property of a passing run, and both refinements, are proved.
`PublishedBoardLossConfirmed`, `EverySettled` and the other definitions named under Observations do not hold.

## 5. Findings

Where the code does something other than a comment or a document of the repository says, with a run that
TLC ends with a counterexample.

1. `subscription_refund`, `relay/main.py:12553`. A refund that is delivered before its checkout's event
   finds no purchase, is answered with success and set aside; the checkout then makes an active
   license, and nothing applies the refund.

### Observations

Consequences of the code that the models show too. Some contradict a comment, and the definition named
is violated when one asks TLC about it; the others concern what no document settles.

- *refresh*: the suspicion rule (`schedule_service.py:222`) compares a board with the previous board of
  its own provider, so a fallback replaces a busy published board by a thin one at once
  (`PublishedBoardLossConfirmed`; the comment at line 79 asks for a second empty result). For a
  provider's own row the rule holds (`ProviderBoardLossConfirmed`).
- *scheduler*: a restart that meets a fetch longer than its join has already set the stop event; the loop
  ends after that cycle and nothing starts another (`RestartLeavesItRunning`; `ui/api.py:2964` promises a
  fresh cycle). Who keeps pressing the button gets it back (`Recovers`). The answer "finishing its
  current fetch" (`scheduler/control.py:199`) is also given while the loop checks the relay link before its
  first cycle, repairs it, records or reports: `OnlyACycleHoldsItUp` says no more than that the loop was not
  between two cycles. A cycle that reads `config.json`
  while it is saved runs with the defaults.
- *ledger*: an event whose handler was cut short is answered as a duplicate for ten minutes, so Stripe
  stops repeating it (`EverySettled`; `NoneLost` says it needs a crash). A partial refund, or a dispute
  closed as anything but lost, makes a cancelled subscription's license active; a renewal lifts an
  operator's suspension. A checkout that a later event overtook finds a license that this event made, with
  no holder (`relay/access/service.py:588`), and returns as older (757-765) before the holder would be
  filled in (935-940); `queue_license_email` then raises (1873-1875), so the event fails on every repeat and
  the email is never queued, unless the buyer takes the key from the checkout page and confirms an address.
  It fails on every repeat, too, while the license is stopped (`relay/access/operator.py:150`).
  `BuyerServed` names both cases as premises, and TLC finds it violated without either of them.
- *mail*: a pass that was held up writes "failed" over a row that was cancelled, sent or marked uncertain
  meanwhile, so that it is tried again (`LateThread` in `RevivedByRetryOrCarrier`). An exception while a
  failure is recorded abandons the rest of the batch. A row whose key was rotated while it was sent ends
  as failed with a retry time that no claim takes. A claim may take a row that is still being sent, after
  ten minutes (`NeverSentAgain` would exclude it).
- *companion*: a restart of the host empties its replay cache, and an id leaves the cache after ten minutes
  (`remote_companion_agent.py:272-275`) while an envelope says nothing of its age, so a post that is
  repeated later is carried out again (`CarriedOutOnce` allows one more each time the host lost the id;
  `PRIVACY.md:133` says of replayed messages that they are rejected). A handshake that comes in after the
  host has given it up and opened a newer session replaces the newer one (`late` in `HostReturns`). An error
  in recording the install profile at the start of a session leaves a dead session registered.
- *transport*: refusals by the pacing itself, and retries that get no unit, are counted by the breaker as
  the provider's failures; a unit reserved before such a refusal is spent without a request; a success that
  was under way when the breaker opened closes it; nothing lifts the pause of a rejected credential
  (`[]~paused` in `ServedAgain`).
- *Google purchases*: the sweep of voided purchases lets `LicenseInactive` escape
  (`main.py:11923-11936`). An entry whose purchase a reconciliation has revoked already ends every
  sweep at that entry, for the seven days it is listed, so a purchase listed after it and refunded
  without being cancelled stays served, although `docs/release-notes-0.6.0.md:95` says otherwise.
  TLC finds `VoidedEnds` violated with two purchases, `Window` 3, `Day` 1, no faults and the other
  constants of `play_purchases`; without such an entry every refund is applied (`SweepEndsIt`). An
  acknowledgement is queued once for good and given up after eight attempts, about twenty hours. A
  purchase recorded after its voided entry was settled is not swept again. Finishing an
  acknowledgement postpones the purchase's reconciliation by a day.
- *devices*: a release that comes home after the user activated again clears the new credential and leaves
  its receiver in the seat. A status check that answers "active", or a mistyped license key, on a free route
  takes a waiting release off the list (`ReleaseComesTrue`; `ui/server.py:1019` promises it). The end of
  the process between new keys and their journal entry leaves keys and route apart (`torn`).
- *ground*: the start of a process beside another one marks the other's job failed and deletes its lease, so
  that two jobs may work at once and the first writes its own end over "failed" (`lost`, `beside`). The lease
  of three hours is never renewed. A write outside the `try` block that fails leaves its job active
  (`main.py:7253`): no warming is accepted until a process starts or, after 90 days, retention deletes it.
  An OpenStreetMap surface without a runway is stale as soon as it is stored (`main.py:6752-6763`), which
  is the model's snapshot that ages at once; of such layers `StoredOnce` says nothing, since every reader
  may fetch them again.

Properties keep clear of these on purpose, and say so: `NewestDecides` (in `LedgerInv`) is about events
about money (`Decisive`), not about generic updates or partial refunds; `NoneLost` passes only where no
crash happens; `SuccessKept` (in `SchedulerInv`) excepts records whose write was cut short.

## 6. Plan

Done, in this order because the most widely shared state came first: A `ScheduleRefresh`,
B `ReceiverSeat`, C `SchedulerControl`, D `SubscriptionLedger`, E `MailOutbox`, F `RemoteCompanion`,
G `ProviderTransport`, H `PlayPurchases`, I `ReceiverLink` and J `GroundWarm`, each with its proofs.

Next:

| step | what |
|---|---|
| proofs | a receiver's link and its recovery as an implementation of "one credential, kept until released" (I); what several entries of one sweep do to each other (H) |
| the phone | its staged activation against `ReceiverSeat`, and the local clock by which it drops one, which the relay may have committed (`mobile/src/app/AppShell.tsx:1510`) |
| rows | merge and deduplication as operators, against a reference definition on bounded inputs |

### Not modelled

Backups, store verification, admin pages, sources, rendering and the website are single calls over their own
data or pure transformations: nothing in them depends on the order of events. Most of the code's lines are
such: interface, drawing, parsing and layout; the modules cover the services whose state several actors
share.

## 7. Running

In this directory, with TLC, the community modules and TLAPS 1.4.5 installed:

    tlc -workers 2 -config MCScheduleRefresh.cfg MCScheduleRefresh
    tlapm ScheduleRefresh_proofs.tla

Each other run and proof module likewise; the table of section 3 and `PROJECT.json` name the module
and configuration of each run. The longest runs take three to four minutes, the longest proofs about as long.
