# CasperVPN in TLA+

Models of the parts of CasperVPN where several processes, retries and failures
meet: billing's settlement of payments, its on-chain polling and invoice
creation; the control plane's node registry, rebuild queue, accounts,
subscriptions and tokens; the subscription service; the scripts that bring a pair
of nodes into service and the orchestrator's loop that replaces pairs; the
telegram bot and the delivery channels; telemetry's intake and verdicts. Each
module is a translation of the code it names; `PROJECT.json` maps every
definition to its source lines, lists the runs, the slips each property catches,
the theorems, the components that are not modelled and the hazards the
properties are aimed at.

Check a run with `tlc -config Settlement.cfg MCSettlement`, a proof with
`tlapm SettlementProofs.tla`.

## The system

| Part | State it keeps | Operations | What is hard |
|---|---|---|---|
| billing: settlement (`payment/processor.go`, `subscription/activator.go`, `store/postgres.go`) | invoices, events, claims, schedules, delivery outbox | webhook `Process`, `Reconcile`, `CreditInvoice`, `Deliver` | duplicate and reordered events, a crash between any two transactions, recovery racing the webhook's retry |
| billing: sweeper (`expiry/sweeper.go`) | schedules | `RunOnce`, `transition` | a due list that is stale when it is used |
| billing: on-chain polling (`payment/poller.go`) | poll leases, negative-check marker | `RunOnce`, `checkLeased`, `ExpireOverdue` | lapsing leases, a slow chain, several instances |
| billing: invoice creation (`httpapi/handlers.go`) | invoice intents | idempotent POST | a gateway call whose outcome is unknown |
| control plane: billing fence (`usecase/launch.go`, `adapters/postgres/launch.go`) | subscriptions with a billing revision | `Ensure`, `ApplyBillingState`, cancel | late and repeated requests |
| control plane: node registry (`usecase/nodes.go`, `usecase/signals.go`) | nodes, history, aggregates | register, PATCH, rotate, retire, demote, activate, signals | read-modify-write, steps that fail one by one |
| control plane: rebuild queue (`adapters/rebuild/durable.go`, `usecase/bundle.go`) | job rows, per-user sets | enqueue, claim, build, retry, `GetForUser` | lapsing leases, builds that overlap a change |
| infra: pair activation (`infra/scripts/reconcile_node.sh`, `access_sync.sh`) | locks, the users on a host | demote, activate exit, install, activate entry | lost replies, signals, kills, a second run |
| control plane: accounts, subscriptions, tokens (`usecase/users.go`, `usecase/subscriptions.go`) | accounts, subscriptions, token hashes | ensure, create, patch, rotate, cancel, ban, delivery link | read-modify-write, partial propagation to the subscription service |
| subscription service (`resolve`, `cache`, `personalize`, `render`) | render cache, token index | resolve, personalize, render, invalidate | four reads per request, a render that overlaps an invalidation |
| telemetry (`ingest`, `aggregate`, `query`) | signals, probes; limiter and seen ids in memory | ingest, prune, aggregate, recommend | de-duplication before a write that fails, restarts, limits |
| orchestrator (`reconcile`, `policy`) and provisioning scripts | a manifest per run; nothing else durable | access sync, plan, rotate, replace, drain, destroy | multi-step changes of machines that fail anywhere |
| delivery: telegram bot (`channel/telegram`, `onboarding`, `botstore`) | update cursor and statuses, notifications, limiter | poll, answer, invoice, notify | at-least-once updates and sends, retried calls |
| delivery: channels (`channel`, `artifact`, `pointer`) | channel registry, mirrors' cursor | pack, broadcast, fetch, resolve | lagging, spoiled and blocked media |

How they interact: the gateway calls billing's webhook, billing calls the control
plane with fenced billing states, and the fence decides who is eligible. The
registry enqueues rebuilds; the queue builds the sets that the subscription
service renders. Telemetry's aggregates become verdicts in the registry, its
probes become the recommendations that the orchestrator plans from. The bot asks
billing for invoices and the control plane for links. Operator scripts and the orchestrator drive the registry through its
HTTP API and write the hosts.

## Modules

| Module | Models | Used by |
|---|---|---|
| `Settlement` | webhook handlers, recovering pollers, sweepers, the control plane's fence, a network that delays requests | `MCSettlement`, `SettlementProofs` |
| `BillingLedger` | what billing promises: a paid invoice adds one period once, terms lapse only when due, the control plane takes over staged states in order; with its inductive invariant `LedgerInv` | `Settlement` implements it (`ImplementsLedger`) |
| `OnChainPolling` | on-chain pollers against a clock: leases, chain checks, negative checks, the expiry sweep, the handoff | `MCOnChainPolling`, `OnChainProofs` |
| `InvoiceIntent` | callers of the idempotent invoice POST, the intents table, the gateway | `MCInvoiceIntent`, `InvoiceIntentProofs` |
| `NodeRegistry` | concurrent registry requests and verdicts, history and rebuild requests | `PairActivation`, `NodeRegistryProofs` |
| `PairActivation` | runs of `reconcile_node.sh` and of the access refresh on top of `NodeRegistry` | `MCPairActivation`, `NodeRegistryProofs` |
| `RebuildQueue` | pollers of the durable queue, `GetForUser` readers, the sets | `MCRebuildQueue` |
| `TelegramUpdates` | the bot's update loop, limiter, commands and the onboarding client | `TelegramNotifier` |
| `TelegramNotifier` | the notifier next to the update loop, over the same accounts and users | `MCTelegram`, `DeliveryProofs` |
| `FleetReconcile` | the orchestrator's cycles with the provisioning scripts, registry rows, machines and manifests | `MCFleetReconcile`, `FleetProofs` |
| `Personalize` | the filters of the nodes a user may get, as functions | `SubscriptionAccess` |
| `SubscriptionAccess` | calls of the control plane on one account against requests of the subscription service and its cache | `MCSubscription`, `SubscriptionProofs` |
| `Telemetry` | concurrent posts, retention, restart; aggregates, verdicts and recommendations as functions of the rows | `MCTelemetry`, `TelemetryProofs` |
| `TextArray` | the text form of a probe's regions, written and scanned character by character, as functions | `Telemetry` |
| `DeliveryChannels` | publisher, media, channel registry and a resolver | `MCDeliveryChannels`, `DeliveryProofs` |
| `SettlementProofs`, `OnChainProofs`, `InvoiceIntentProofs`, `NodeRegistryProofs`, `SubscriptionProofs`, `FleetProofs`, `DeliveryProofs`, `TelemetryProofs` | the proofs, one module per service or component | |

### Correspondence

*Settlement.* A worker is a handler (`Process`), a poller (`Reconcile`) or a
sweeper; one step is one transaction or one request. `WithUserLock` is a lock
per user, held across the steps inside it. A request to the control plane is
put in flight, applied at some later time (or again after a retry) and answered;
a worker that gives up leaves it in flight. A failed step and a crash both
forget the worker's local state. Time is a counter up to `Horizon`; at the
horizon every delay has passed. Handlers take their events from a set that is
never exhausted, so gateway retries and duplicates are the same event again.

*OnChainPolling.* A lease is `[owner, until]`; acquiring, renewing and releasing
compare the owner as the SQL does. The chain is read in one step and the clock
in a later one. `stall`, chosen at the start of a behaviour, says whether pollers
may take any time; an `AcquirePollLease` that fails skips its invoice, with or
without a lease left behind. Where `stall` is false a chain check ends within the timeout
of its context and a handoff within the lease, and the properties that need
this say `~stall`.

*InvoiceIntent.* The gateway may create the invoice, refuse, or create it and
lose the answer, and a lost POST may still arrive. An intent left in `creating`
by a crash before the POST stays there by design, so no progress is claimed.
The catalog's price is pinned in the intent.

*NodeRegistry.* A request that reads and writes later takes two steps
(`UpdateGet`/`Update`, `RotateGet`/`SetEntryIP`,
`ApplyVerdict`/`SetStatusIfChanged`); `Activate` and `Demote` are one
transaction. `owed` is a history variable: the nodes changed since a rebuild was
enqueued for them. A node is reduced to its status, its address and whether it
has two transports. The aggregates of a window are reduced to a verdict per
node, their storage and the thresholds of `classify` left out; role and pairing
are fixed.

*PairActivation.* One action per command of the script. `_cp` may fail before
or after the registry has acted; a request that takes effect only after the
script has given it up is left out (the lost reply, whose effect comes at once, is
already an exception of `ServingEntryHasExit`). INT and TERM run the trap, KILL does not; the
lock is the `flock` one, which ends with the process. The hooks (verify, apply,
probe) succeed or fail. The eligible users are a revision number; the
`valid_until` of a snapshot is left out. The history and rebuild requests that
follow the script's calls are left out here (NodeRegistry has them).
`installed[n].by` is a history variable.

*RebuildQueue.* Leases and backoffs end at some time, possibly while a poller is
still busy with the row. A claim takes a batch of rows under one lease, in any
order, and a poller may stop in the middle of it. A job that has failed
`MaxAttempts` times is deleted. `Build` reads the user, then the fleet, then
stores the set. Two history variables: `late` (the set was stored by a build that
overlapped a change) and `dropped` (the targets of the jobs given up). A change
whose enqueue fails is NodeRegistry's subject.

*TelegramUpdates, TelegramNotifier.* A step is one call of the store, one
telegram request or one command with all its calls: `Outcomes` is the set of what
a command may have done and would answer, retries and lost answers of the
onboarding client included. An invoice is the update it was made for: that
billing answers a repeated key with the same invoice is InvoiceIntent's subject
and taken from there. A term has four phases; how long they last
is left open. Texts are reduced to their kinds. Failures of upstream calls are
answered with an error text, as the code does, and not retried later.

*FleetReconcile.* One step per script command, registry call or decision of the
loop. Every step may fail or be the last before a crash, after which the next
cycle starts from the registry, the machines and the manifests alone.
`write_manifest` empties the stub before it writes the full record, so that step
may also be cut short (`WriteCutShort`), unlike `update_manifest_entry`, which
renames a temporary file. A pair is a run id; `vm` is what the provider bills,
`manifest` what node_down can find. The rows are PATCHed whole, from the list read
at the start of the cycle; operators and reports act in between, on any node, the
replacement's included. `node_down.sh` retires the records and then destroys;
`undone` is a history variable: the nodes whose record was retired without their
machines going, because the destroy failed or somebody else retired them.

*SubscriptionAccess.* One account, two subscriptions, tokens as numbers in the
order they were minted. Every control-plane call is its reads, one transaction
and its notifications, each a step. A request reads token, subscription, account
and nodes in four steps. Where only the order of nodes could differ, a list of
nodes is a set whose members carry their place in the listing. The fleet has nodes
with transports that `PublicBundle` strips, as docs/subscription.md describes. `seen` is a history variable: everything that was true
at some moment of the running request.

*Telemetry.* A signal is sanitized and coarsened to the minute as the code does;
the limiter's tokens are integers (one per unit of time), shares are percentages.
The multiset of rows is a bag, so a double insert would show. `charged` (per
host), `admitted` (all hosts) and `posted` are history variables. The regions of a
probe are spelled out; a row keeps them as reported, and reading it takes them
through `TextArray`: what `pqTextArray` writes, what Postgres reads and writes of it,
and what `parseTextArray` makes of that. What a
signal and a probe event look like on the wire is `RawSignals` and `ProbeEvents`;
workloads are made of them.

*DeliveryChannels.* A blob is its revision, time, key and form (signed, altered,
not decodable); a signature verifies the unaltered blob with its key. `Sorted` is the stable sort of
the registry, `Mirror` the rotation of git-raw. Git-raw
and DNS copies appear out of band, as in the shipped configuration. The caller's
context may end before a channel is due (the sweep returns its error) or during a
fetch, which then fails, also halfway through git-raw's mirrors. `steady` is a
history variable: the channels that were good all through the running resolve.

## Runs

| Run | Instance | Shows |
|---|---|---|
| `settlement` | one account, two invoices, a handler, a poller, a sweeper, four events (paid, expired, paid, foreign), a cancel, one failure, horizon 1 | one period per payment; the control plane follows the schedule; no early lapse; terms never shrink; a retry keeps a cancel; the ledger is implemented |
| `settlement_live` | one paid invoice, handler, poller, sweeper, two failures, horizon 2 (a lapse happens) | pending claims are finished; the outbox drains |
| `settlement_claim_lost` | as above, smaller | **violated**: a claim survives its invoice's status |
| `onchain` | one invoice, two pollers, prompt or stalling, grace 2, lease 2, horizon 5, one failure | confirmed payments are not swept; an early payment is credited; claimed payments are settled although leases lapse mid-check |
| `invoice_intent` | two keys, two requests, three callers, five calls, two failures | one invoice per key; one answer per key; failed has no invoice |
| `registry` | one pair; either two concurrent requests of every kind with a fault, or two script runs, a refresh and an operator with a ban and two mishaps | activation is gated; decommissioned nodes stay; changes are queued; scripts keep the exit of a serving entry; activation admits the current users |
| `rebuild` | two pollers, two attempts per job; either a reader, one change and three failures, or two changes whose rows are claimed in a batch of two and two failures | jobs are settled; stale sets are rebuilt, those of dropped jobs and late builds excepted |
| `telegram` | one or two messages of every kind with two failures, or two users who pay up to twice with the notifier, pages of one, one failure | answered unless the limiter refused; updates are finished; reminders are current; activations are announced |
| `fleet` | a pair in service, a run for a replacement, own or field reports and decisions about any node, two changes, two failures | machines can be found; the last pair stays; the machines of a drained pair are destroyed in the end |
| `subscription` | three calls; or two calls and a request with a failure; or a call, two requests, a change of the fleet and a failure | served links are authorized, payloads current; revoked tokens stay revoked; answered links are stored |
| `telemetry` | two connections, two hosts, overlapping, disputed and odd batches, or probes, also one with any list of up to two regions of up to two characters; a restart, time 5 | intake is bounded; signals count once; a verdict needs several networks; regions survive their text form |
| `delivery` | a messenger and two mirrors, up to two revisions, two keys of which one is trusted, two disturbances, a changed registry, two ticks, up to two contexts that end | failover finds a good channel unless the context ends; retrying finds a good mirror |

Bounds. Two invoices of one account are what crediting and fencing can confuse;
accounts do not share state. One failure reaches every "between two steps"
state; the liveness run allows two, so that recovery fails once as well. Two concurrent
actors of a kind produce every read-write race, since each race is between one
reader and one writer. In `settlement` the horizon is 1, where the sweeper moves
an account into grace; the theorems cover longer histories, and
`settlement_live` reaches the lapse itself. Both budgets of `rebuild` have
at least as many failures as a job has attempts, so that jobs are dropped; an
initial read may overlap the change of the first, the two rows of the second share a
lease (the code's batches of four add more of the same). `registry` unites two scenarios, chosen
initially: API requests among themselves, and scripts with an operator; a script
is a sequence of the same requests, and the theorems cover any number of them.
Telegram and telemetry choose a workload initially, subscription, delivery and rebuild a
budget of calls, faults and changes: each combination the properties need
happens in one of them, and the product of all would not add a race. In `fleet`
one action per cycle (`MaxActions`) makes actions compete, and two failures reach a
failed destroy after another failed step; a second replacement after a failed one
needs a third run, which the theorems cover. Two characters in a region are enough
for an escape and what follows it. The largest runs are `onchain` (1.3 million
states), `telemetry` (1.7 million) and `delivery` (0.8 million); none takes more than
three minutes. Telemetry's window (2) is shorter than
its retention (3) and its time (5), so that rows leave the window, then the
table. `CHECK_DEADLOCK FALSE` is set where the work of a behaviour is bounded
and it may end: the rebuild queue's, the invoice intents', the bot's, the
subscriptions' and telemetry's.

Fairness. Settlement: the steps of pollers and sweepers are weakly fair because
they are loops on tickers that run as long as the process
(`cmd/billing/main.go`); a handler that has started runs on, but no webhook is
assumed to arrive; requests in flight are handled and time passes; the per-user
advisory lock is strongly fair, since Postgres grants it in the order of its
queue. OnChainPolling: the poll loop is weakly fair, and the clock strongly, as
it advances whatever the pollers do. RebuildQueue: pollers claim and carry on,
started reads end, a request that changed something goes on to its enqueue,
leases lapse and backoffs end. TelegramNotifier: the update loop and the notifier
loop go on (`Run`, a ticker); messages, payments and the passing of terms are not
fair. FleetReconcile: the loop goes on (`Run`), whatever it can do next;
operators and reports are not fair. DeliveryChannels: whoever wants the
directory keeps asking; media and operators do as they like. No run assumes that a failing step succeeds;
failures are bounded instead.

## Proofs

Proved about `Settlement` for any users, invoices, plans, workers, events, bounds
and horizon:

- `TypeCorrect`: type correctness of `Settlement`. `TypeOK` includes that every
  delivery a worker or a request carries was staged.
- `SettlementImplementsLedger`: every step of `Settlement` is a step of
  `BillingLedger` or a stutter. The variables of the ledger are variables of
  `Settlement`, so the argument is per action: staging maps to a credit or a
  lapse, applying a request to a take-over, all else to a stutter.
- On the ledger the inductive invariant (`LedgerInv`) says that a
  user's staged deliveries have distinct revisions, that the schedule is the
  newest of them, that each credit lies one period above the delivery before it,
  and that the control plane's state is one of them. None of the safety
  properties is inductive without it: an action sees only the newest delivery.
- Carried over by the refinement: `CreditedExactlyOnce` (ExactlyOnePeriod),
  `RevisionsNeverConflict` (NoRevisionConflict), `ControlPlaneNeverAhead`
  (ControlPlaneFollowsSchedule), `LapseOnlyWhenDue` (NoEarlyLapse),
  `TermsNeverShrink` (TermNeverShrinks).
- `CancelOutlivesRetries` (RetryKeepsCancel): only the handling of a request with a
  revision that the control plane does not have yet reopens a canceled subscription.

Proved about `NodeRegistry` (`NodeRegistryProofs`) for any nodes and pairs, any
number of concurrent requests, any batches of verdicts and any faults:

- `RegistryTypeCorrect`, `OnlyTheGateActivates` (ActivationIsGated) and
  `OperatorDecisionStays` (DecommissionedStays). The guards of a PATCH and of a
  verdict were evaluated when the handler read the row, and the row may have
  changed by the time it writes; the inductive invariant `RegistryInv` therefore
  says what a handler carries: the node it works on is registered, a PATCH into
  active had read an active node, and no verdict on its way moves a node to
  active (healthy verdicts never enter the map of `Ingest`).
- `EveryChangeIsQueued` (ChangeIsQueued): inductive together with the types; each
  handler either goes on to the queue, has just served the node, or has failed.

Proved about `PairActivation` (in `NodeRegistryProofs`, whose lemmas it needs) for any
pairs, script runs, refreshes, requests and mishaps:

- `ScriptsKeepTheExit` (ServingEntryHasExit) and `ActivatedEntriesAdmitCurrentUsers`
  (ActivationAdmitsCurrent), of the behaviours in which no request from elsewhere makes
  a node serve (`OnlyScriptsActivate`): `reconcile_node.sh` is the only client of
  activate, and a PATCH that puts an active status back is the exception that
  `ActivationIsGated` names. PATCHes, verdicts, registrations, retirements and
  demotions are otherwise free, more than the run's operator does. `PairInv` says that a run holds
  the lock of its pair, that the entry it has demoted is not served again before the
  exit's demotion, and that the users a script put last on the entry's host are those
  of the revision in the run's hand. The lock makes this stable: two runs are never
  about one pair.

Proved about `InvoiceIntent` (`InvoiceIntentProofs`) for any keys, requests, callers
and any number of calls and failures:

- `IntentTypeCorrect`, `KeyHasOneInvoice` (OneInvoicePerKey),
  `CallersGetTheSameInvoice` (SameAnswer) and `FailedLeavesNothing`
  (FailedHasNoInvoice). The gateway has no idempotency of its own, so that an order
  gets one invoice rests on who may post: the invariant `IntentInv` says that at
  most one caller holds the right to post an order (or saw it refused), that an
  order is in flight or an invoice, once, and belongs to a begun intent with that
  request, and what a caller at each step knows of the row and of the gateway
  (`CallInv`). An intent is failed only by the caller who saw the refusal, and then
  nothing of its order is in flight.

Proved about `TelegramUpdates` and `TelegramNotifier` (`DeliveryProofs`) for any
messages, users, page sizes, terms and failures:

- `UpdatesAreAnswered` (ServedIsAnswered). `UpdatesInv` says that the updates behind the cursor are
  exactly the finished ones, that the poller works on the one after its own cursor,
  and that the limiter still knows an update for which an invoice was made and which
  is not finished: without the last part a retry could be refused after it had
  bought something.
- `RemindersAreCurrent` (ReminderIsCurrent). `NotifierInv` says that what waits to be
  sent in a visit was staged, or left pending, by a reconciliation with what this
  visit saw.

Proved about `DeliveryChannels` (in `DeliveryProofs`, next to the bot, with which it
shares no state) for any channels, mirrors, keys, ages, faults and changes of the
registry:

- `FailoverNeverMisses` (FailoverFinds). `FailoverInv` says that what a resolve has left
  is an end of the copy of the registry it made, that a steady channel is good now, and
  that none of the channels passed is steady, also when the context ends. The step that matters is that the first
  place tried of a good channel answers with a copy that verifies and is fresh, wherever
  the rotation stands (`GoodIsAccepted`).

Proved about `SubscriptionAccess` (`SubscriptionProofs`) for any nodes, calls,
requests, parameters and budgets of faults:

- `LinksAreAuthorized` (ServedIsAuthorized) and `AnswersAreCurrent`
  (ServedIsCurrent). The four reads of a request happen at four moments and the
  cache is older than all of them. `RequestInv` says that each read leaves its fact
  among what was true during the request (`seen`), and that a cached body is the
  rendering of its key, so that a hit is what the request would have rendered.
- `RevocationIsFinal` (RevokedStaysRevoked) and `AnswersAreStored`
  (AnsweredLinkIsStored). Calls write whole rows that they read earlier, so a lost
  update could bring an old token back. `LinkInv` says that a token is in the hand of
  one call, or in one row, or killed, never in two of these.

Proved about `FleetReconcile` (`FleetProofs`) for any finite set of runs and any
bounds on actions, changes and failures:

- `MachinesAreAccounted` (MachinesCanBeFound) and `LastPairIsKept`
  (LastPairStays). The cycle acts on the list it read at its start while operators
  and reports change any row. `FleetInv` says that a machine has a stub, a full
  manifest or, with an emptied one, a registered entry, that a node listed as
  draining is still draining or retired, that every planned action is sound for the
  listing it was planned from, and that the run of a replacement is unlisted and,
  unless the operator has taken it out since, serves by the time its predecessor is
  drained.

Proved about `OnChainPolling` (`OnChainProofs`) for any invoices, pollers, deadlines,
failures and crashes, and any lease longer than a chain check:

- `PaymentInHandKept` (PaymentInHandIsKept). The sweep is another poller's and sees
  only the row; `LeaseInv` says that, unless pollers stall, the poller at a check holds
  the live lease of its invoice, which the sweep respects.
- `EarlyPaymentKept`: an invoice whose payment was confirmed more than one chain check
  before its effective deadline is never expired. This is the safety half of
  `EarlyPaymentCredited`. `ReadInv` follows the age of a chain read from the check over
  the poller's hand to the row and to the sweep that relies on it.
- `OnChainInvariant`: both invariants, with the types.

Proved about `Telemetry` (`TelemetryProofs`) for any workloads, hosts, connections,
limits, thresholds and restarts:

- `IntakeBounded` (IntakeIsBounded). `LimiterInv` says that the tokens left in a bucket
  and the signals charged to it together stay within burst and rate for the time since
  the start, up to the bucket's last refill; a host without a bucket was charged no more
  than the rate alone allows, so that its next bucket may start full. That is what makes
  eviction harmless, and where `Rate * BucketTTL >= Burst` is needed.
- `SignalsCountOnce` (CountedOnce) and `DeadIsAgreed` (DeadMeansAgreed). `RowInv` says
  that a row is a sanitized posted signal, stored once, and the only one with its id.
  The table of seen ids plays no part: it is lost in a restart, and the insert alone
  keeps the rows apart. The totals are sums over sets of rows; that the sum of the
  totals is the number of rows is proved by induction over finite sets, as a least
  counterexample of the strict-subset order (`SumIs`, `AddsUp`).

Assumptions: the named `ASSUME`s of the modules, as weak as the code's settings
(durations, limits and budgets are naturals, page sizes and the orchestrator's
bounds positive, events belong to invoices, exits are nodes paired with entries,
operations and faults are those of the code, the markers for "none" are no
values, a pair has one exit, the fleet's places are unique, a channel has a place, a
lease is longer than a chain check, telemetry refills a bucket within its TTL), which the runs evaluate.

Only model-checked:

- Liveness, which is out of the prover's reach: `PendingClaimIsFinished`,
  `ControlPlaneCatchesUp`, `EarlyPaymentCredited`, `PendingClaimIsSettled`,
  `StaleSetsAreRebuilt`, `JobsAreSettled`, `UpdatesAreFinished`,
  `ActivationIsAnnounced`, `DrainedIsTornDown`, `RetriesFind`.
- `RegionsSurvive`: what the scan yields for every input is an induction over the text.
- Nothing else: every other safety property of a passing run is a theorem.
  `RebuildQueue` has liveness properties alone and so no proofs.

`EarlyPaymentNotExpired` of `OnChainPolling`, `TypeOK` and `NoRevisionConflict` of
`Settlement`, `TypeOK` of `NodeRegistry` and `TypeOK` of `InvoiceIntent` are proved and in no run.

## Disagreements with the repository's own words

Shown by a run (`PROJECT.json`, findings):

- `settlement_claim_lost`: a kept claim is not finished once an Expired or
  Invalid event has changed the status that recovery selects by.

Behaviours of the models that no property forbids, against a comment or document:

- On-chain: `checkLeased` reads the clock after the chain
  (`payment/poller.go:205`), so a check that read before the deadline is recorded
  as a negative one after it, and a payment confirmed in between, within the grace
  window, is expired; `store/schema.sql:54` says it is "never buried".
- Registry: a verdict reached before a retirement is written over it
  (`usecase/signals.go:109`), though the comment above promises not to clobber
  operator-controlled states.
- Pair: a lost reply to the entry's activation leaves the entry serving and its
  exit demoted (`reconcile_node.sh:151`; "any failure leaves BOTH provisioning").
- Fleet: `node_rotate.sh` replaces the machine first and demotes the record later
  ("it must not keep serving as active", line 143). When it fails in between the
  record stays active at a destroyed address, and the access refresh of it ends
  every later cycle (`Stalled` in `DrainedIsTornDown`, which requires that this state
  is left again and again).
- Fleet: an exit has no address, so its own probe is always unreachable
  (`probe.go:43`) and a corroborated field report about an exit passes the gate
  that `docs/orchestrator.md:69` describes. Telemetry emits no such report today.
- Fleet: `write_manifest` truncates the stub in place (`run_manifest.sh:126`), so a
  kill or a full disk leaves machines without a manifest; "the stub guarantees
  node_down can always select the workspace and destroy" (`run_manifest.sh:87`). What
  holds is `MachinesCanBeFound`: the labels of the registered entry still name it.
- Subscription: `Filter` counts transport families before `PublicBundle` takes some
  away (`personalize.go:53`, `sub.go:79`): a client of the basic plan may be served
  one family although the fallback would have kept two, against the comment at
  `personalize.go:12`. No property is about diversity: with such nodes the code does
  not keep it, and without them there is only the condition of `Filter` to repeat.
- Subscription: an account PATCH that overlaps the creation of the subscription
  stores the old, empty link (`usecase/users.go:104`;
  `usecase/subscriptions.go:87` says that a subscription can never exist
  unlinked), and the next Ensure creates a second one. Likewise a quota PATCH that
  overlaps a ban undoes it (`httpapi/users.go:46`).
- Telemetry: `docs/telemetry.md:129` has every blocked verdict lead to a rotation
  signal; `Recommend` looks at probes alone, as its own comment says.
- Telemetry: ids are recorded as seen before the write (`ingest/handler.go:98`);
  after a failed write the retry is answered 202 and dropped.

Stated as exceptions in properties that hold:

- `ActivationIsGated`, `DecommissionedStays`: a PATCH that read an active node
  writes it back over a retirement (`usecase/nodes.go:119`).
- `ServingEntryHasExit`: a signal during the entry's activation makes the trap
  demote the exit (`reconcile_node.sh:117`).
- `ActivationAdmitsCurrent`: the refresh may install an older snapshot last
  (`reconcile_fleet_access.sh:37`).
- `ChangeIsQueued`: a failed history write in PATCH, rotate, retire or a verdict
  loses the rebuild request (`usecase/nodes.go:229`).
- `StaleSetsAreRebuilt`: a build that overlaps a change may store its old set
  last, marked clean, after the rebuild of the change (`usecase/bundle.go:73`;
  `docs/control-plane.md:94` says the worker recomputes the set of every user holding
  the node); and a job that failed too often is
  dropped with its change (`durable.go:204`).
- `LastPairStays`: an operator takes the replacement out after the loop has checked it
  and before the old pair is drained (`reconcile.go:279-293`).
- `DrainedIsTornDown`: the records are retired before the destroy, so that after a
  failed destroy no later cycle plans the pair again (`node_down.sh:66-81`,
  `policy.go:150`); the script reports it and leaves it to the operator. A draining
  node that reports name for ever is not retired either (`policy.go:116`).
- `FailoverFinds`: a slow channel may use up the caller's deadline and the sweep ends
  before the good channel behind it (`resolver.go:72`).

Seen while reading: a healthy verdict never enters `worst`
(`usecase/signals.go:55`), so the recovery of a degraded node is dead code;
`docs/billing.md` still describes a `Release` of claims that the code no longer
has; a node that becomes active is in no set, so its rebuild job affects nobody;
where `flock` is missing the pair lock is a directory that a killed script leaves
behind (`lib.sh:58`); a retention shorter than the window is accepted
(`telemetry/internal/config/config.go:114`), and then reports and probes within the
window are pruned; an update whose answer telegram refuses for good is retried for
ever and holds back the ones after it (`api.go:234`; the runs bound the failures);
several resolvers in
lockstep on the shared cursor of git-raw may each keep meeting the bad mirror;
a user whose newest invoice is a later, unpaid one when the notifier visits is not
told of his activation.

## Not modelled

HTTP plumbing, authentication, key generation, sealing, the text of client
configurations, parsing and settings: sequential code without shared state. The
in-memory stores and the in-memory rebuild queue, which stand in for the Postgres
ones. The `valid_until` clock of access snapshots. Webhook signatures and the
arithmetic of money. Terraform, ansible and ssh beyond success and failure.
