# FluxMeter in TLA+

A verification development of FluxMeter, the token metering and budget system of
this repository. Modules translate the code under `src/`; `PROJECT.json` maps each
definition to the lines it stands for, lists the runs with their properties, a
mutant of the code for every property, the hazards, the disagreements found and the
theorems.

## 1. The system

An LLM call becomes a *token event*. The API takes custody of it (a 202 means
"durably in Kafka, once"), a Flink job deduplicates, prices and aggregates events in
ten-second windows, and its sinks update usage counters and wallets in Redis. In front of the LLM a Gateway
or an SDK asks whether the customer's wallet can pay, and puts an estimate on hold
while the call runs.

```
client / SDK ──POST /ingest──▶ custody ──produce──▶ Kafka token-events ──▶ Flink job ──▶ Redis
Gateway ──open hold──▶ Redis wallet                         ▲                │ late
   │ usage ──▶ outbox ──▶ custody ───────────────────────────┘                ▼
   └─ settle / refresh / expire                        dlq_replay ◀── token-events-dlq
Redis, budget-alerts ──▶ webhook worker;  Redis counters ──▶ billing export
```

### Components

| Component (source) | State | Operations | What is hard | What makes it correct |
|---|---|---|---|---|
| Custody (`api/ingestion.py`) | identity per (tenant, eventId): pending, uncertain, accepted, with fingerprint and expiry (Redis hashes) | claim, finalize, mark uncertain, release; late reconciliation | concurrent retries, acknowledgement timeouts racing late reports, Redis failing between steps, crashes | no false 202, true refusals, no second publication, accepted stays accepted |
| Producer dispatcher (`ingestion.py:60-217`) | in-flight slots, outcome and two flags per message | publish batch and wait; delivery callback on the polling thread | flags of two threads checked in either order, slots at their limit | exactly one reconciliation per timed-out message, slots conserved |
| Custody batcher, `/ingest` handlers, SDK `track` (`ingestion.py:310-405`, `main.py`, `sdk/python/client.py`) | queue, worker, futures; attempts of a client | accept, coalesce, flush, close; one status per request or batch; retries | attempts piling up, contexts in one batch, an exception of custody, shutdown with requests queued | a 202 is durable, retries publish once, refusals are certain, every future is answered |
| Reservation (`api/reservation.py`) | `held_usd` of wallet and span, a hash per hold, a pending set by deadline | open, reserve, reconcile, refresh, settle, expire_due | settlement by window, expiry in several processes, refresh in two round trips, SDK releases without identity | held = sum of holds, holds last as long as needed and end, debt only from calls that cost more than they held |
| Gateway (`api/gateway/`) | per call: reservation id, stream guard | handle a completion: hold, upstream, usage | upstream failure, stalled clients, process death | every hold ends, usage is kept and a true receipt |
| Gateway outbox (`gateway/outbox.py`) | envelope per event, pending set, dead list | store and publish, flush, expiry worker | several processes on one entry, publication twice, poison entries at the head | an envelope leaves only when acknowledged or dead |
| Budget, keys (`api/budget.py`, `tenant_keys.py`, `auth.py`) | wallet under the tenant's or the legacy prefix, rate counters, local cache, key metadata | configure, top_up with migration, check, revoke, key budget, rerate | torn reads, cache answers when Redis is down, migration next to windows, metadata written back | an admission was covered, the rate bounded, no amount lost, the ledger identity, revocation final |
| Metering job (`job/`) | dedup marks with TTL, open windows, offsets, watermark | deduplicate, route late events, project, fire windows, checkpoint, restart | late events, watermarks against windows, a shuffle by event ahead of the meter, effects in Redis that do not roll back | charged once, projected once, nothing lost but what the late sink fails to send, everything settles |
| Sinks (`sink/`) | Redis counters, `applied:` and `projection:` markers, wallet | one Lua script per record or window | scripts applied again after a restart | idempotence by marker |
| DLQ replay (`scripts/dlq_replay.py`) | consumer offset | copy a late event back | the event is its own duplicate | a replayed event is billed |
| Alerts (`BudgetEnforcerSink.emitAlert`, `api/webhook_worker.py`, `webhook_deliver.py`) | outbox in Redis, topic, offsets, transition markers | emit, poll, claim, deliver, commit, replay the outbox | crash or error between marker and delivery, posts whose acceptance nobody reads, two workers on one outbox | not posted again once known to be accepted, none forgotten |
| Billing export (`api/billing_export.py`) | watermark per customer, idempotency keys at the platforms | collect, report per platform, mark | crash between report and mark, one of several platforms failing, usage that moves meanwhile, cents, silent skips | each platform billed what the watermark says, exactly or to half a cent per export |
| Balance reconciliation, rerate (`jobs/`, `main.py`) | none; counters and balance | compare; adjust | partial failure; overdrafts and rerates, which the audit does not know | the drift (balance less initial + top-ups - deducted) is debt less rerates, and nothing else |
| Pricing (`pricing/`, `pricing_loader.py`) | catalog, monthly meter per key | price an event, quote, estimate, load | tiers that end within an event, roll-over of months, restarts, two implementations | a token costs what its place in the month says |
| Usage queries, JavaScript SDK, control plane, intelligence | little or none | lookups, administration | none here | - |

## 2. The modules

| Module | Models | Kind |
|---|---|---|
| `CustodyPromise` | what a client may rely on: an acceptance is granted only for a durable payload and remembered for its retention | abstract specification |
| `Custody` | `_accept_many_impl`, the three registry scripts, the producer and its reports, late reconciliation, Redis failures, crashes | implementation of `CustodyPromise` |
| `MCCustody` | symmetry of calls, events and fingerprints | model-checking instance |
| `CustodyProofs` | inductive invariant, safety theorems, refinement | TLAPS proofs |
| `Dispatcher` | `publish_batch_and_wait` and `on_delivery`, one action per statement that touches shared state | detail below `Custody` |
| `Gateway` | completions from check to receipt, stream guard, custody's buffer branch, the outbox and its workers | component with its environment |
| `Reservation` | holds of one wallet: Gateway calls, SDK streams, expiry workers, window and span sinks, `configure` | component with its environment |
| `Pricing` | catalogs, tiers, modes, rounding, quotes; the price of a token by its place as reference | operators |
| `MeteringJob` | one aggregation key through the Flink job, monthly meter and prices, dead-letter queue, checkpoints, restarts | component with its environment; extends `Pricing` |
| `MCMetering` | two events, a tiered catalog, and the prices of single events on small catalogs | model-checking instance |
| `Ingest` | `track` and its retries, the `/ingest` handlers, the batcher, shutdown | component over custody in one step |
| `Wallet` | check, rate limit, cache, configure, top-up and migration, windows, rerate, key administration of one customer | component with its environment |
| `Billing` | the export loop over the counters of `Wallet` | extends `Wallet`, composed with it |
| `MCBilling` | symmetry of administrators and exporters | model-checking instance |
| `Alerts` | threshold crossings, emission, outbox, topic, webhook workers | component with its environment |
| `DispatcherProofs`, `ReservationProofs`, `GatewayProofs`, `MeteringProofs`, `IngestProofs`, `BillingProofs`, `AlertsProofs` | one component each: inductive invariant and theorems (section 4); `MeteringProofs` has pricing's, `BillingProofs` the wallet's | TLAPS proofs |

### Custody

`state`, `print`, `expiry` are the fields of the identity hashes; an expired field is
dropped only when a claim looks at it, as in `CLAIM_EVENT_IDS_SCRIPT`. A call is one run of
`_accept_many_impl`: `Claim` (the whole script, atomic in Redis), `Send`, `StartWait`,
`Timeout`, `Classify`, `Finalize`, `Mark`, `Release`, then the answer. `item[c][e]` is what the
call knows of each event. `wire` is the fate of a record in librdkafka (queued, appended,
undelivered, reported), `log` is Kafka. A report that comes after the timeout puts a
verdict into `late`, which the reconciliation pool applies (`ReconcileOk`,
`ReconcileFail`). Redis operations may raise before, or after part of, their effect (`ClaimFails`,
`FinalizeFails`, `MarkFails`, `ReleaseFails`, `ReconcileFails`): the pipelines over several
shards are not a transaction. `Crash` kills the process of a call with its reports.

Two switches keep code behaviours apart. `OutcomeRace` admits a failure report between
`outcomes[index] = "uncertain"` and the classification (see findings). `AmbiguousFailure`
admits a failure report for a record the broker did persist; librdkafka can report it only
when its delivery timeout ends, after the acknowledgement deadline. The proofs hold with both on.

### Dispatcher

For a message: slot, `produce`, the two-step hand-over of the request thread (store
"uncertain", set `timed_out`, check `delivered`) against that of the callback (store the error,
set `delivered`, release the slot, check `timed_out`). The atomic `Timeout` and `Report*`
steps of `Custody` rest on what this module checks: one verdict per message, and a true one.

### Reservation

Amounts are 1 or 2; `record[r]` and `deadline[r]` are the hash and the pending-set score.
`Release` is `CLOSE_SCRIPT` and the reservation loop of the billing sink. `refresh`
is two actions because the code takes two round trips. `ReadDue`/`CloseDue` separate the read of
the pending set from each closing. The engine is two actions on tags and usage (`Project`,
`WindowFires`), since windows of an aggregation fire in order; `SpanFires` is the session window, whose gap of 60 s
puts no order between it and the ten-second windows. `Finish` lets a call cost whatever it costs (`Costs`): the guard kills a stream after
its quote has passed the hold, and an answer in one piece is never compared with it. `SettleRaises` is a settlement that Redis applied and the
client saw fail, whose stream then stores a usage of no tokens. `lapsed` and `excess` (what a call cost beyond its estimate) are history variables. The cap of the span is set before its first
call, and the 24-hour life of a hash is not reached within the bounds.

### Gateway

A completion is `Run` (check, provider key, hold), then `Answer`, or `StreamStarts`, `Chunk` and `StreamEnds`, or one of the ways to
end without usage (`UpstreamError` settles the hold, `NoAnswer` leaves it to expire). When the settlement raises (`SettleRaises`), applied or not, a stream with a
hold goes on to the `finally` clause and stores a usage without tokens. `usage` is what `StreamGuard` has counted, `passed`
what it quoted when the last chunk went to the client. A token costs one unit, since the guard compares one sum with one limit; what
quotes and charges amount to is the subject of `Pricing`. The usage goes through `Claim`, `Store`, publication, `Remove` and `Remember`, the buffer branch of
`_accept_impl`; its identity is `res:<reservation>`, new for every call, so no other call contends for it. Redis may raise before or after an effect
(`IngestFails`, `RememberFails`, `RemoveFails`). The outbox is `raw` (the envelopes) and `score` (the pending set); a worker of any process peeks at
a head, reads it, publishes, removes or buries it, a step per round trip, so that others come between. Publication
(`Produce` to `Unavailable`) is shared by calls and workers: `sent` is the record the publisher waits for, `stray` holds the records whose publisher
gave up or died and which may arrive yet. `Foreign` entries cannot be parsed. `stored`, `acked`, `lost`, `unsure` (calls whose settlement raised) are history. What happens to the hold after the call is
`Reservation`'s.

### MeteringJob

`log` is the topic in order, `read` the positions of the records that went through the operators. `Readable` is the shuffle: the job's
`keyBy(eventId)` keeps the records of one event in order and no others, so any unread record of another event may be next at the meter. `Drop`, `RouteLate` and
`Collect` are one record through deduplicator, router, volume stamp, projection sink and window operator; in one step,
because a record overtakes no watermark on its channel, a restart undoes the operators' part
together with the offset, and steps of two records commute but for that order. `meter` is the state of `MonthlyVolumeStampFunction` (`Rolled` and `Stamp` are
`MonthlyVolumeMeter.stampAndAdvance`), `stamped` is the sequence of what it has
stamped and at which volume, `placed` (history) the volume at which each event was projected, `spent` the cost the projections were given. `Deliver` and `LoseLate` are the
two ends of a late message in the producer: `LateEventSink` asks for no result and catches what `send` raises, so that a message may vanish without a restart; `unsent` (history) names its event. `Fire` is the window's script with its `applied:` marker. `Save`
takes a consistent cut, everything up to an offset and nothing behind it, as aligned barriers do; `Crash` restores it, starts to read in a new order, forgets the watermark and the producer's buffer of late events, and leaves
Redis and Kafka as they are. A window fires before later records are read, as event-time timers do.

### Pricing

Money is counted exactly: rates are multiples of `1/Scale` micro-dollars per token, amounts of `1/Unit`, and only
`HalfUp` (Java's `Math.round`) and `HalfEven` (Python's `round`) lose anything. `CostCategory` is the loop both
implementations walk, a recursive function on what remains; `EventCost` is the job's price, `Quote` and `Estimate` are what
the Gateway holds. The reference, `ExactCost`, knows no walk: each token is looked up at its own place. `Accepts` is the validation of
the Python loader; Java loads tiers as they come.

### Ingest

An attempt of a client is a request with a future. `Post` is the way into `POST /ingest` up to
`TokenEventCustodyBatcher.accept`; `TakeFirst`, `TakeMore`, `StopCollecting` and `FlushGroup` are `_run` and `_flush`, the last
with one custody call per context (`Group(context)`, `flushed` the contexts done); `Fates` is what `Custody` shows that a call may do with an event. `GiveUp`
is the client's timeout, after which the request goes on. `PostBatch` is `POST /ingest/batch`, which shares nothing but the
registry. `Close`, `PutStop`, `WorkerAwaited` are the shutdown; handlers that are left are cancelled.

### Wallet and Billing

`wallet[p]` are the keys under the tenant's and under the legacy prefix, `ReadPrefix` the choice of
`budget_prefix_for_read`. A check is `Access`, `ReadRate`, `ReadBalance`, `ReadHeld`, `Allow`, one per round trip, but for the `EXISTS` that finds the prefix, which goes with the read after it; any may
end in `Fallback` to the cache. `usage` is the counter without a tenant, the only one the export reads (`billing_export.py:433`): a tenant's usage is never exported. `Drift` is the figure of
`reconcile_balances`, from one moment rather than five GETs. `StartTopUp`, `CopyLegacy`, `Credit` are `top_up`: existence, values to migrate, one MULTI. `Window` is
the deduction of the sink's script, under either prefix, since events name their tenant or not. `Start`, `AdjustCost`,
`Rebalance` are a rerate (`Rebalanced` what it makes of a wallet); `Start`, `Revoke`, `SetKeyBudget` read and write back key metadata. `Billing` adds the export loop:
`Collect`, `ReadWatermark`, `Report` per platform (`Sums` rounds to cents where the platform is billed in cents, a tie either way; `Skip` is the return without a word for nothing to the cent or no credentials, which
counts as a report except for Stripe's empty value; `Send` is the rest), `FinishExport`, `ExporterDies`, next to all the actions of `Wallet`.

### Alerts

`Deduct` decides which thresholds a window crosses; `Emit`, `EmitLater`, `EmitNever` are `emitAlert` with Kafka up, with Kafka
down, and with Redis down or the process dead. A worker is one run of the loop of `main`: `Poll`, `ClaimTransition`, posts that end in `Accept`, `Refused` or `PostFails` (a timeout or a
5xx, which may hide an acceptance, `unheard`, and is posted again up to `MaxRetries`), `Fail` (the marker is dropped, or an error leaves it), `Commit`, which may raise after it was
applied. `ClaimRaises` and `SettingsRaise` are errors of Redis around the marker, caught by `main` (`Give`); or, when its poll is empty, `PeekPending`, `Produce`, `PopPending`, whose three round trips another worker may come
between. `Die`, also of an idle worker, since the replay stands outside the `try`, hands the partition to any member, from the committed offset, or from the end when there is none.

## 3. Runs

Each run is finite by the bounds named in its module (`MaxNow`, `LastStart`, `MaxOps`, ...), so all but `gateway`, whose workers never
stop, end in states without a step, and deadlock is not checked there; liveness properties do the work of a deadlock check.

| Run | Bounds | Shows |
|---|---|---|
| `custody_faults` | 2 calls, 1 event, 2 payloads, 2 Redis failures, 1 crash, both switches on, acceptances that expire | the promise, no false 202, acceptances kept |
| `custody_live` | 2 calls, 1 event, 2 payloads, clock 9, no fault | no identity is published twice, records stay covered, refusals are true, every call returns, every record ends as an accepted identity |
| `custody_race` | 3 calls, `OutcomeRace` | *violation* of PublishedOnce |
| `dispatcher` | 2 messages, 1 slot | slots, one true verdict, nobody left uncertain |
| `ingest` | 2 clients with a key each, one that retries once, batches and queue of 2, one bulk call, shutdown at any time | 202 is durable, published once, refusals are certain, every request is answered, `close` returns |
| `gateway` | 1 completion, 2 workers, 1 malformed entry, holds 0 and 1, 2 tokens, 2 failures, timeouts or deaths | stored usage is kept, is a true receipt, is published again only where nobody could know, and arrives |
| `reservation` | 2 Gateway calls (one in a span, one whose client stalls), 1 SDK stream, 2 workers, balance 2, estimates 1 and 2, costs 0 and 2, 1 `configure` at one instant, refreshes at the instant of expiry | sum of holds, life of holds, debt within what calls cost beyond their estimates, every hold ends |
| `reservation_failopen` | 1 call, 1 stream, `FailOpen` | *violation* of HoldsAddUp |
| `metering` | 2 events or 2 copies in any order, windows and months of 2, TTLs of 5, clock 6, timestamps not ahead of the clock, 1 restart, 1 replay or 1 late message lost, three graduated tiers | charged once, projected once, priced by volume, nothing lost, everything settles |
| `metering_replay` | the same | *violation* of ReplayKeepsEvent |
| `billing` | 4 operations of 2 callers, 2 administrators, windows, holds, `configure` and 1 exporter; 2 platforms billed in cents of 8, one idempotent, with credentials for both or one; 2 minutes | top-ups kept, drift explained, rate, admissions covered, revocation, export |
| `alerts` | 2 windows, 2 alerts, 2 workers, 2 posts per delivery; 2 faults among: a send of the sink or a replay of the outbox that fails, applied or not, a sink that dies, Redis raising at the marker, the settings or the end of a failed delivery, a post that times out, a refusal, a commit that raises, a worker that dies | not posted again once read as accepted, every alert arrives or is lost in a way the property names |

`MCMetering` also states assumptions that TLC evaluates when `metering` starts, as bounded checks of pure pricing (3 tier
tables, 96 events, every start in a month of 8 tokens): Java and Python prices agree but for one unit per
amount rounded (`PricesAgree`), graduated costs are those of the tokens' places (`GraduatedByToken`), an estimate covers every call within its
`max_tokens` where tiers do not rise (`EstimateCovers`), and which catalogs the loader refuses (`LoaderRefuses`).

Why the bounds are enough. Only the order of deadlines matters, so each lifetime is the
smallest number that keeps the order of the defaults (stated by the `...Assumption` of the module). Two calls give
every race for one identity; a third is needed only where a second release frees somebody else's claim, and
`custody_race` has it. Batches of two events, whose parts go different ways, are in the proofs, and were run by hand (2 calls, 2 events, clock 8). One
completion and one malformed entry give two entries in the outbox, in either order, and three publishers of one envelope; holds of 0 and 1 against two tokens are
no guard, a stream that ends within its hold, and one that is killed; two failures are a timeout and a death, or a removal that fails twice. Two
completions with one worker and one failure (1.3 million states, safety only) and three failures were run by hand. One hold in a
span and one outside tell the two counters apart; `RefreshTimes` has the one instant at which a refresh meets an expiry, `ResetTimes` one in the middle of the calls; costs of 0 and 2
against estimates of 1 and 2 are a call within its hold, at it, beyond it, and without cost.
Two records are two events in one window or two copies of one in two windows, which are the cases the markers are for; an event of five tokens
crosses two of three tiers, and with a month of one window the second event starts the next month, with a month of two (`MonthWidth = 4`, checked
by hand) it continues the first. A queue of two is full and not full; two requests in a batch share a context or do not. Four
operations are a top-up that migrates, a window in its middle, a check around both, and an export around all, or two
administrators against each other; the handlers' round trips are steps without number. A cent of 8 against costs of 4 and a rerate of 2 is
a tie, a rest that rounds up, and one that rounds to nothing. Two faults are a lost marker and a
failed delivery, a hidden acceptance and a death, two posts that time out, or the two of an outbox entry. `MaxTroubles` counts restarts, replays and lost late messages together, so that a run has one of
them; `MaxAhead = 0` leaves out timestamps ahead of the clock, which only move a record to a later window; `MaxAhead = 1` was run by hand (1.7 million states, safety only).

### Conditions that stand in the properties

`PublishedOnce` and `RecordCovered` of `Custody` are checked without Redis failures and crashes: with them the
code gives up that guarantee (a crashed call's claim expires after 120 s, and a retry publishes again), and `CustodyPromise` says what is
left. `NoOverdraft` allows as debt what the billed calls cost beyond their own estimates (`excess`), since nothing in
the code keeps a call from costing more than it held; what it says is that such a call, or any other, takes nothing that another call holds. It excepts histories in which the hold of an unbilled call ran out (the history variable `lapsed`):
only a stalled client gets there. `HoldsAddUp` and `NoOverdraft` speak of wallets that were not configured again, and `HoldsAddUp` of SDK
streams that do not fail open. `HoldLastsUntilBilled` needs usage to be billed within the lease (`MaxDelay`)
and clients that read, and excepts usage without cost, which a settlement that raised leaves without a hold. `ReceiptIsTrue` allows a released hold next to stored usage only after such a settlement (`unsure`), and
then without tokens. `NothingLost` and `EventSettles` are about runs without restart and replay; a restart can lose a record that
enters a window applied before the crash, and late events still in the producer's buffer. Both except the events whose late message the sink failed to send (`unsent`). `ChargedOnce` allows restarts or replays, but not both: an event that was
dead-lettered before a crash and billed after it may be billed again by its replay. `PricedByVolume` holds for any order in which the records
reach the meter, and is about months that come in order. After a restart it is about runs in which what was read again came back to the places it was projected at (`CaughtUp`, `InPlace`): the shuffle
ahead of the meter may put it elsewhere, and the router may let pass what it had diverted, while the projections keep the first price. Nothing in the code guarantees the place after a restart.

Where the code has failures that it does not repair, a history variable marks that one happened, and the property is about everything
else. Each is set by the one step that fails, so that it cannot excuse other faults:

* `torn` (`TopUpKept`, and `DriftExplained` for a tenant's wallet): the wallet changed between the copy of the legacy values and the credit, or a window
  or rerate went to the keys that are not read (a legacy event after the migration, a tenant's event before it, a window with no wallet).
* `out` (`RevokedStaysOut`) is set by a revocation that no other change of the key overlaps.
* `slip` (`ExportedOnce`): a platform failed and another did not; a failed report was booked after all, or retried; the process
  died before it marked; a second delta went under the key of one hour; or two processes exported at once. The rounding to cents is no slip, nor are exports that round to nothing: the property
  bounds their sum by half a cent for each move of the watermark (`exports`). Nor is the silent return without credentials: it speaks of the platforms that have them (`ready`); the others are billed nothing while the watermark moves. With two exporters every history of interest
  slips, since nothing keeps the loops of two API processes apart; the run has one.
* `lost` (`EveryAlertArrives`): the sink died with the alert, or neither Kafka nor Redis took it; Redis raised while a worker claimed it or read
  where to send it; a worker died with the marker set, or before the group's first commit; the delivery failed; another worker popped the outbox entry.
* `unheard`: the endpoint accepted a post whose answer was a timeout or a 5xx. `AcceptedOnce` cannot be about these, and neither can the code: `webhook_deliver.py:31-39` posts
  again, and after the last attempt the marker is dropped. It says that an alert whose acceptance a worker has read is never posted again.

`RateLimited` allows one call per other handler beyond `max_rpm`: the counter is read first and incremented last. `CloseReturns` starts at
the queued sentinel: before that, `close` can wait in `put` for ever, when the queue is full and its worker has returned.

### Fairness

* `Custody`: weak fairness of request threads, producer, reconciliation pool and clock; they are
  threads of a running process. Clients are not fair.
* `Dispatcher`: request threads and polling thread, the same way.
* `Gateway`: the steps of a call once it runs (the upstream client has a timeout), workers (a loop with a one-second sleep), and publication, which ends in
  a report or a timeout. Requests, failures and stragglers are not fair; failures are bounded, as an outbox that fails for ever delivers nothing.
* `Ingest`: the worker's steps and those of `close`, coroutines of one event loop; the client, whose `urlopen` has a timeout and whose
  backoff ends. Arrivals, shutdown and late reconciliation are not fair.
* `Reservation`: the clock, refreshes under way, streams that end (the HTTP client has a
  120 s timeout), expiry workers (a loop with a one-second sleep) and engine steps. The engine is
  fair because `MaxDelay` makes the clock wait for it; expiry alone ends a hold that was never tagged.
* `MeteringJob`: the consumer, checkpoints, timers, the dead-letter producer, which delivers a message or loses it, and the watermark, which the
  API's heartbeats advance (`api/main.py:188`). No fairness of replays or crashes.
* `Alerts`: the sink's sends and each worker's loop. Faults are bounded, not fair; nothing makes an endpoint answer.
* `Wallet` and `Billing` have no liveness property: an export that always fails is a run of the code.

### Disagreements found

1. `custody_race`: a failure report that lands between timeout and classification is handled by the
   call and by reconciliation; the second release can free a retry's claim.
2. `reservation_failopen`: a stream that got no hold releases its estimate anyway.
3. `metering_replay`: a late event replayed within 600 s is dropped by the deduplicator that saw it the first
   time; later its timestamp, the time of the first routing, is late again.

Seen while modelling, without a run of their own:

* Holds of a span are settled per window, its cost is known only when its session closes, so an
  agent without a pause of 60 s is admitted beyond its cap (`reservation.py:36`).
* The router compares `windowEnd <= watermark`, the window `windowEnd - 1 <= watermark`, so an event may be projected and then
  dead-lettered, against the comment at `TokenUsageAggregator.java:211`; it has moved the monthly meter, too.
* `README.md:243` and `docs/adr/en/010-exactly-once-remove-dedup-operator.md:27` say that late data is not silently dropped. `LateEventSink` does so when its send fails
  (`TokenUsageAggregator.java:346-350`); without the exception of `unsent`, `NothingLost` is violated in five steps.
* `jobs/reconcile_balances.py:1` audits `balance == initial + topups - deducted`; an overdraft (deducted in full, balance at zero) or a rerate is reported as a drift although nothing is wrong
  (`DriftExplained` gives the figure). Wallets of tenants are not scanned.
* The export moves one watermark for all platforms by the exact cost, while it bills cents, and counts a return for lack of credentials as a report (`billing_export.py:191`, `355`).
* `SpanSink.java:53` says every firing is the full aggregate, which two sessions of one span are not.
* `docs/api-reference.md:822` calls rerate/apply atomic; it is two round trips per customer, and a retry adjusts again.
* `docs/integrations/orb.md:85`: "Re-running the same cycle does not double-count in Orb." The key that sees to this drops
  whatever new usage the second run of the same hour reports, and the watermark passes over it.
* `docs/api-reference.md:682` puts the monthly meter into Redis; the meter that prices is state of the job, and the Redis
  counter is kept under the month of the window's exclusive end, so the last window of a month counts for the next.
* Python refuses tiers out of order, Java loads them, and its walk then prices the rest of an event at the last tier.
* Volume mode prices a whole event at the tier in which it begins, also where it crosses into the next.

## 4. Proofs

TLAPS proves the safety properties of the components for every value of their constants: any sets of calls, events, workers, clients, entries
and amounts, any bounds, and lifetimes in the order that the `...Assumption` of the module states. Every argument is an inductive invariant
`Inv`, checked by TLC on small instances while it was found; the module shows `Init => Inv`, `Inv /\ [Next]_vars => Inv'` action by action,
and what `Inv` implies. `Typed` is the type invariant of a component, for `Dispatcher`, `Gateway`, `Ingest`, `Alerts` and `Reservation`
stated by the theorem only.

| Module | Theorem | Says | Conditions |
|---|---|---|---|
| `CustodyProofs` | `No202IsFalse` | `Spec => []NoFalse202` | any failure, crash, race, ambiguous report |
| | `RefusalsAreTrue` | `Spec => []RefusalIsTrue` | the same |
| | `AcceptedIsKept` | `Spec => AcceptedKept` | the same |
| | `CustodyKeepsPromise` | `Spec => KeepsPromise`, refinement of `CustodyPromise` | the same |
| | `PublishedAtMostOnce` | `Spec => []PublishedOnce` | `Quiet` |
| | `RecordsAreCovered` | `Spec => []RecordCovered` | `Quiet` |
| `DispatcherProofs` | `SlotsAreConserved` | `Spec => []SlotsConserved` | |
| | `ReconciledAtMostOnce` | `Spec => []ReconciledOnce` | |
| `GatewayProofs` | `StoredUsageIsKept` | `Spec => []UsageKept` | any failure, timeout, death |
| | `ReceiptsAreTrue` | `Spec => []ReceiptIsTrue` | the same |
| | `NotAcknowledgedTwice` | `Spec => NotPublishedAgain` | the same |
| `ReservationProofs` | `HoldsAlwaysAddUp` | `Spec => []HoldsAddUp` | `~FailOpen` |
| | `NeverOverdrawn` | `Spec => []NoOverdraft` | `~FailOpen`; costs of any size |
| | `HoldsLast` | `Spec => []HoldLastsUntilBilled` | `MaxDelay + RefreshGap < Lease` |
| `MeteringProofs` | `EventsChargedOnce` | `Spec => []ChargedOnce` | |
| | `EventsProjectedOnce` | `Spec => []ProjectedOnce` | |
| | `EventsAreKept` | `Spec => []NothingLost` | any order of events; messages the late sink fails to send excepted |
| | `JobTyped` | `Spec => []TypeOK` | |
| | `MonthsPricedByVolume` | `Spec => []PricedByVolume` | any order of events |
| | `GraduatedByToken` | an event costs what its tokens cost one by one, but for half a micro-dollar per amount rounded | an accepted catalog, graduated prices, either implementation |
| | `PricesAgree` | Java and Python differ by a micro-dollar per amount rounded at most | an accepted catalog, any mode |
| | `WalkProgresses` | a step of the walk through the tiers takes from one token to all that are left | tiers in the order Python demands |
| | `RoundsToNearest` | either way to round is off by half a micro-dollar at most | |
| `IngestProofs` | `AcknowledgedIsDurable` | `Spec => []AckedIsDurable` | |
| | `EventsPublishedOnce` | `Spec => []PublishedOnce` | |
| | `RefusalsAreCertain` | `Spec => []RefusalIsCertain` | |
| `BillingProofs` | `TopUpsAreKept`, `DriftsAreExplained` | `BillingSpec => []TopUpKept`, `[]DriftExplained` | |
| | `MinutesAreLimited` | `BillingSpec => []RateLimited` | |
| | `AdmissionsAreCovered` | `BillingSpec => []AdmissionCovered` | |
| | `RevokedKeysStayOut` | `BillingSpec => RevokedStaysOut` | |
| | `PlatformsBilledOnce` | `BillingSpec => []ExportedOnce` | |
| `AlertsProofs` | `AlertsAcceptedOnce` | `Spec => []AcceptedOnce` | any fault |

The conditions are hypotheses about constants, and those of the runs satisfy them. `~FailOpen` keeps out what `reservation_failopen` refutes. `HoldsLast` needs
a lease longer than the gap between refreshes and the delay until the engine bills; with the code's 900 s and 60 s usage has fourteen
minutes. `Quiet` says that nothing fails: `MaxFaults = 0`, `MaxCrashes = 0`, neither switch, no acceptance that expires within the run, and
`DeliveryTimeout < UncertainTTL`. The last was found by the proof: an uncertain identity that
expires at the instant of the delivery deadline is claimed by a retry while the record of the first call may still arrive, and TLC publishes twice when both are 3. librdkafka's default of
300 s and the code's 600 s keep the order. `MeteringAssumption` asks that a copy, put off by every restart of the run, is read before the marks
of its event expire: `CopiesWithin + MaxLag + MaxCrashes * (Period + MaxLag)` below `DedupTTL` and `MarkerTTL`. `Calls` and `Sessions` of
`Reservation` and `Callers` of `Wallet` are finite, since the properties add up over them, and so are the `Ids` of `MeteringJob`, of which a
topic of at most `MaxLog` records holds finitely many anyway. Its catalog is one that both loaders accept (`AcceptsCatalog`), tiers in order
included.

### The invariants

`CustodyProofs.Inv` has five parts. `TypeOK`. `Lives`: what a call knows of an event (`item`), the phase it is in and the fate of
the record (`wire`, `late`, `log`) fit together, which no variable shows alone. `Timely`: a record whose call still waits
is within the acknowledgement deadline, which keeps ambiguous failure reports (at the delivery deadline) away from calls that would answer a
refusal. `GrantedLogged`: whatever a call was told is in the log. `AcceptedLogged`: an accepted identity has its payload in
the log; "same" answers come from the registry and not from Kafka. `Retention` is the argument that an accepted field that has not expired passes every
script unchanged; `PromiseStep` maps `Claim`, `Finalize` and `ReconcileOk` to steps of the promise and the rest to stuttering. `QuietInv` adds who answers for an
identity: a call `Claims` it from its claim to its verdict, reconciliation included; then the field holds that call's payload long enough (`Held`), no two calls do (`Sole`), and a record is
its call's or accepted for good (`Recorded`). The fingerprint is no owner token, but under these conditions the claim is exclusive.

`DispatcherProofs`: `Slots` counts the messages that hold a slot; `Polling` says that callbacks run one at a time; `Life(m)` relates the two flags, what either thread
has read of them, and what has been dispatched. `Race` is the part that matters: a request thread that saw `delivered` after it flagged the timeout has read the true
outcome.

`GatewayProofs`: `Journey` and `Guarded` follow a call and its guard to the stored receipt (a kill is exactly a quote above the hold, and what passed was quoted before); `Grip` is what a
worker can be holding after its reads have aged, `Evidence` that an acknowledgement is that of the entry in hand, `Closed` that an
acknowledged entry is gone or about to go. An entry is taken away only by one who knows its record to be in Kafka, although entries are read, published and removed in separate round trips by any
number of processes.

`ReservationProofs` starts with finite sums: the recursive sum exists and has the properties of a sum, by induction in the form of a least
counterexample among naturals (the library's induction theorems are out of reach). `Accounts` is `held = Sum(record) + Sum(sdkHeld)`; `Pledged` that an open
hold covers the estimate of its call, and with the `excess` its cost, `Covered` that balance, debt and excess cover the unbilled holds, both until one lapses; `Timely` that due lists, which a worker read earlier, contain no unbilled
call of a reading client. `Life` and `Streaming` order the steps of a call and a stream.

`MeteringProofs`: `InTime` bounds how far the job and its checkpoint are behind, `Known` and `Marked` that deduplicator and projection markers remember an event for
their TTL from its publication, so that a later copy finds them (`Topic`); then only the first record of an event enters a window (`FirstOnly`), the same after a restart. `InOnePlace`
and `OverIsOver` are the same argument for replays: an event in the dead-letter queue is in no window, and an applied window admits none.
`Kept` follows every event that the deduplicator knows, but for those of lost late messages.

Prices take a second invariant, `Ledger`, on top of that one. `Fits`: the topic is bounded, hence the volume of the records read, hence the meter never leaves
`Places`, where `Cost` is defined; with it goes the rest of `TypeOK`. `Volumes`: while the months of the stamped records do not go back, every stamp shows the sum of the
volumes stamped before it in its month, and the meter goes on from there; so in the checkpoint. Neither says anything about the order of the topic, only about that of the stamps. `Spent`: the cost is the sum over the
projected events, each at the volume it was projected with (`placed`). `Marks` and `Steadily`: without a restart the stamps are those of the projections, one for each (`AsProjected`); after one
`BackInPlace` derives the same from `CaughtUp` and `InPlace`, and `SumAlong` carries the sum over events into one along the stamps. What is left is arithmetic,
without induction over data: `CategoryByToken` reads the recursive `CostCategory` as a walk along positions, a least counterexample
takes the place of induction on what remains, and every chunk of the walk adds half a unit to the error and moves to a later tier; `EventByToken` sums the
categories, `CloseSums` the events.

`IngestProofs`: `Queued` says that a request is in the queue or the batch, once, until its context has been flushed; `Registry` relates identity and log;
`Attempts` and `Told` relate a client's tries to their futures. `BillingProofs`: `Books` and `Audited` (balance, debt, rerates and what the audit expects, in the wallet in use and in the one it scans), `TopUps`, `Reading` (what a check has read was free during its reads), `Rates` (a count of the
callers past the check), `KeyOut` (a writer of key metadata has read the revocation), and `ExportInv` for a single exporter without
`slip`. `AlertsProofs`: `Marked` (who delivers, or failed to, holds the marker alone) and `Fresh` (a marker whose alert was read as accepted stays, so that no one delivers it).

### What stays with TLC

Liveness, under fairness: `EveryCallReturns`, `RecordBecomesAccepted`, `UncertainIsReconciled`, `UsageArrives`, `EveryHoldEnds`,
`EventSettles`, `EveryRequestAnswered`, `CloseReturns`, `EveryAlertArrives`; the prover has no `ENABLED`. Every safety property of the passing
runs is proved. Of pricing, `EstimateCovers` and `LoaderRefuses` are checked only by the bounded assumptions of `MCMetering`, which check `GraduatedByToken` and
`PricesAgree` as well; the three disagreements are TLC's counterexamples. The runs
check everything that is proved about a specification, but for the five type invariants named above.

## 5. Plan

1. Done: the models of section 2, the theorems of section 4.
2. `CustodyPromise` composed with `MeteringJob`, to state what a client's retry may be charged; the outbox's delay set against the job's lateness and the
   deduplicator's memory.
3. Uploads of pricing that reach one process and not the others; two tenants that share an `eventId`; failures of the replay tool.

## 6. Not modelled

The control plane, intelligence reports, usage queries, the JavaScript SDK and load generators keep little state
and no protocol. `RedisSink` is `BudgetEnforcerSink` without the wallet. Of authentication, only revocation and key budgets are
read and written in steps that can meet. The error of binary fractions in prices is left out; rounding is not. Quarantine takes the path of acceptance to
another topic. Readiness probes and malformed envelopes pass the job without touching billing. The order in which a
platform books reports, and what it does with amounts, is the platform's. `PROJECT.json` gives the reason for every component.

## Running

    tlc -workers 2 -config <run>.cfg <module>.tla
    for m in Custody Dispatcher Gateway Reservation Metering Ingest Billing Alerts; do tlapm ${m}Proofs.tla; done
