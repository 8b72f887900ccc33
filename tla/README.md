# NADITOS: specifications and proofs

TLA+ models of the NADITOS backend (Go services over one Postgres database),
checked with TLC and, where marked, proved with TLAPS. Every definition is
translated from the Go source and the SQL migrations; `PROJECT.json` maps each
one to its lines.

## 1. The system

NADITOS is a set of Go services that share one Postgres database at its default
isolation level, READ COMMITTED. A service owns some tables, changes them in one
transaction per request, and writes domain events into the table `event_outbox`
in the same transaction. Other services react to those events by polling that
table. Background jobs (escalation, evidence reaper, connectors' workers, ANPR
pipeline, audit rollups) run on tickers in every replica of a service.

| Component | State it keeps | Operations | Talks to |
|---|---|---|---|
| fines API (`services/fines/internal/api`) | `fines`, `fine_payments`, `fine_disputes`, `fine_evidence`, `evidence_custody` | issue, pay, payment webhook, dispute, resolve, cancel | payment provider (call and webhook), outbox, audit (HTTP, best effort) |
| escalation engine (`services/fines/internal/escalation`) | `fines.status`, `fines.escalation_stage` | sweep on a ticker, one transaction per fine | outbox |
| evidence reaper (`services/fines/internal/reaper`) | `fine_evidence.sealed_at`, `evidence_custody`, stored objects | sweep of a ticker or an admin: delete object, then seal | object store, legal hold and retention policy |
| outbox (`packages/go-common/events`) | `event_outbox`, `event_consumer_offsets` | WriteOutbox, relay tick, consumer tick | every service |
| demerit engine and license API (`services/license`) | `driver_demerit_events`, `driver_licenses.points`, `driver_suspensions` | apply a fine, suspend, lift | outbox consumer `license-demerit` |
| notifications (`services/notifications`) | `notification_records`, its offset | tick: resolve the recipient, record, send; ad-hoc messages; the citizen's inbox | `event_outbox` (read directly), SMS/e-mail provider |
| retry queue and provider health (`packages/go-common/connectors`) | `retry_jobs`, `provider_health` | enqueue, claim, done, fail streaks | insurance and inspection workers, providers |
| insurance / inspection workers | `insurance_records`, `inspection_records`, `vehicles.*_expires_at` | verify, reconcile | retry queue, providers |
| ANPR pipeline (`services/anpr-gateway`) | `anpr_jobs`, `anpr_scans` | enqueue, claim, recognise, store | OCR provider, outbox |
| registry and transfers (`services/registry`) | `vehicles`, `owners`, `vehicle_transfers` | start, accept, cancel a transfer, flags | outbox |
| audit (`services/audit`) | `audit_events` hash chain, `officer_daily_stats`, `audit_alerts` | append, verify; sweep of the statistics; raise and resolve alerts | every service (HTTP), `fines` (read by the sweep) |
| auth (`services/auth`, `go-common/auth`) | `users`, `user_roles`, `refresh_tokens`; access tokens outside the database | login, refresh, logout, me, admin users | every service (JWT) |
| gateway (`services/gateway`) | rate-limit buckets | proxy, limit | services |
| regulation packs | `country_packs`, loaded manifests | load, reload every 30 s | fines, license |
| web apps, deploy files | none of their own | | gateway |

### What is hard in it

* **READ COMMITTED check-then-act.** Handlers read a row (a status, a count),
  decide, and write without having locked what they read: two of them interleave
  (duplicate fines, disputes of paid fines, sweeps over closed fines).
* **A provider call inside a transaction.** The payment is taken before the row
  commits; the webhook may arrive first, twice, or after the fine was closed.
* **Three orders of events.** An outbox row has an id (insert order), a
  `created_at` (begin order) and a commit order; relays and consumers each follow
  a different one.
* **Tickers in every replica.** Sweeps, relays and consumers run concurrently
  with themselves and can be cut short between any two statements.
* **Redelivery.** At-least-once delivery meets handlers that are not idempotent
  (demerit points, notifications).
* **Jobs without a lease.** A claimed retry job or ANPR job whose worker stops
  stays claimed.

What makes each component correct: fines — a paid fine is backed by taken money,
each settlement, climb, cancellation is announced, no stage is climbed twice, no
verdict is overturned, a disputed fine can be decided; outbox — nothing is
delivered that did not commit, nothing that committed is passed over; demerit —
points are counted once per fine and a threshold crossed suspends; notifications —
records tell what the provider took, an event behind the offset is accounted for
and not told of again; retry queue — a job is done, scheduled or dead-lettered, and
never run by two workers; reaper — row, bucket and chain of custody agree, what is
protected is kept, what is due goes; transfers — one open transfer per vehicle,
ownership changes exactly once per acceptance; audit — one chain per tenant without
forks, statistics that catch up with the fines; ANPR — one scan per sighting, every
job ends; auth — a token asserts what its account had, a logout and a deactivation
take effect.

## 2. Modules

| Module | Models | Kind |
|---|---|---|
| `Fines` | fines API and escalation engine | specification |
| `FineLedger` | what the fines service promises the readers of its events | abstract specification |
| `MCFines` | symmetry, stages, the bound of the safety run | model checking |
| `FinesProofs` | theorems about `Fines` | TLAPS proofs |
| `Outbox` | outbox writers, relays, consumer replicas, and how each maps to `AtLeastOnce` | specification |
| `AtLeastOnce` | at-least-once delivery with its liveness | abstract specification |
| `OutboxProofs` | theorems about `Outbox` | TLAPS proofs |
| `RetryQueue` | `retry_jobs`, reconcile, workers, verify requests | specification |
| `RetryProofs` | theorems about `RetryQueue` | TLAPS proofs |
| `License`, `MCLicense` | demerit engine, suspensions, lifts; symmetry | specification, model checking |
| `LicenseProofs` | theorems about `License` and `Notifications` | TLAPS proofs |
| `Registry`, `MCRegistry` | vehicles, flags, owners, transfers; symmetry | specification, model checking |
| `RegistryProofs` | theorems about `Registry` | TLAPS proofs |
| `AuditChain` | writes to the audit hash chain, and verify | specification |
| `Rollup` | the sweeps that recount, score and raise alerts on officers | specification |
| `MCAudit` | `AuditChain` and `Rollup` in one run | model checking |
| `AuditProofs` | theorems about `AuditChain` and `Rollup` | TLAPS proofs |
| `Retention` | evidence, custody and the reaper's sweeps | specification |
| `RetentionProofs` | theorems about `Retention` | TLAPS proofs |
| `Sessions` | accounts, sessions, access tokens | specification |
| `MCSessions` | roles and their permissions; `Sessions` and `Retention` in one run | model checking |
| `SessionsProofs` | theorems about `Sessions` and `Sightings` | TLAPS proofs |
| `Notifications`, `MCNotifications` | consumer, records, ad-hoc messages; the kinds of two events | specification, model checking |
| `Sightings`, `MCSightings` | ANPR jobs and workers, scans, alerts; the two normalisations | specification, model checking |

All specifications follow one rule. A transaction that has locked what it decides
on, or that writes without reading, is one action. A transaction that reads
without a lock and writes later is cut after the read, so that every other
transaction can commit in between, as READ COMMITTED lets it; `defer tx.Rollback`
is an action of its own. Between two statements that are transactions of their own
there is always a cut. History variables (marked "history" where they are
declared) are read by properties only, never by a guard that models code, with
the exception of the counters that bound crashes and lost answers.

### Fines

A handler that reads without locking and writes later is two actions, the read
that decides (`IssueCheck`, `PayCall`, `DisputeRead`, `Sweep`) and the commit that
publishes all writes of the transaction at once (`IssueCommit`, `PayCommit...`,
`DisputeCommit`, `Advance`). A handler that locks first (`ResolveDispute`, the
webhook, `Advance`) or writes without reading (`Cancel`) is one action.

* `status`, `stage`, `pay`, `payRef`, `dispute`, `disputed` are the columns of the
  three tables. Requests are one-shot: a member of `Fine`, `Payment` or `Dispute`
  is a request and the row it inserts, and "none"/"checked"/"replied_*"/"read" are
  the request's states before its row commits.
* `age` is the time since issue in ticks. The duplicate window is measured from
  `issued_at`, escalation from `due_at`, which is always 14 days later: `StageAge`
  is the sum of the due time and `after_days`.
* `intentFine`, `captured`, `acked` are the provider's side: which fine an intent
  charges, whether its money was taken, whether the webhook was acknowledged. The
  contract is read from `contracts/payments` and how handlers use it. `HonoursKey`
  chooses between the dev stub (a new intent per call) and a provider that honours
  the idempotency key `fine:<id>`.
* `batch` holds the candidates each replica's sweep selected and has not advanced.
* `outbox` counts the rows written, by type and subject. Payloads are left out.
* `unseen` is history: the fines an issue request could not see when it counted
  duplicates, because they were not committed yet or were cancelled. Any number of
  issue requests may be between their check and their commit.
* Inputs that lead to an error answer without a write (validation, ownership,
  unknown offence or license) are left out, as are the read-only handlers and the
  audit call made after the commit. Evidence, which is written with the fine, is in
  `Retention`.

### Outbox

`tx`, `born`, `id` are the three orders of a row. `locked`, `todo`, `marked` are a
relay's open transaction; `delivered` is the committed `delivered_at IS NOT NULL`.
`phase`, `from`, `work`, `upto` are the local variables of a consumer's tick, in
which every statement is a transaction of its own, and `offset` is the shared row.
`overtaken` is a history variable: the rows that committed after a row with a
higher id. One consumer name is modelled: consumers with different names share
only the rows they read. A dispatch that fails is a dispatch: the code never tries
it again.

### RetryQueue

The insurance and inspection workers are the same code over different columns;
one of them is modelled, with `reconcile` (`Enqueue`), the worker's tick and the
API's `verify`, which stores a policy in two statements without a transaction.
`Claim` is one transaction; the provider's answer, the transaction that stores it
and `Done` are separate steps, and `Abandon` is a worker that stops between any
two of them, or whose `Done` statement fails. The registry's staff write the same
column of the vehicle: what `create` leaves there is the initial `Unverified` value,
and `EnterExpiry` is `update`. Neither makes a record, and both they and the workers
write over each other (`ByHand` marks an expiry that staff entered). `since` is
history: the policy the provider had when a job was queued. A plate that is not in the registry
and a vehicle the provider has no policy for both end as `NothingOnFile`. A job of
an unknown kind is ended as `done` by worker.go:101, although its comment says "DLQ
it after backoff"; nothing enqueues one, and none is modelled. The provider health
monitor, whose counters no handler here reads, is left out.

### License

`ApplyFine` is the begin of the engine's transaction, its insert and its sum;
`ApplyCommit` everything from the update of `driver_licenses`, which takes the row
lock, to the commit. Suspensions are counted in that second half, in a snapshot
taken under the lock, and the sum in the first. `LiftRead` and `LiftCommit` are
the same for a lift, whose update selects by the snapshot it had before it waited
for the lock. A lift names a license and a suspension (`asked`, `lifting`), and
nobody asks how many rows its first update touched: with an id that is of no row
(`NoSuspension`), of another license's suspension, or of one that was lifted before,
it marks nothing (`Marks`), and still computes the flag anew and writes
`license.reinstated`. A month is the unit of time. `last`, `raced` and `crossed` are
history: when the points of a license were last written, and whether two engines,
or a lift and another change, overlapped on it. Left out: fines without a driver
or points, which change nothing, `driver_licenses.suspended_until`, which nothing
decides on, and a lift that names a license that does not exist, which only writes its
event.

### Registry

A transfer stands for its code, which is unique among the pending ones. The three
flags are one. `StartRead` is the check that the caller owns the vehicle and no
flag is up; the query for an open transfer is part of `StartCommit`, because the
unique index on pending transfers decides the same thing again at the insert.
`AcceptRead` locks the transfer's row and reads the flags; `AcceptCommit` writes
the title. `stale` and `raised` are history. Audit calls are left out.

### AuditChain

`WriteRead` is the snapshot of the statement that selects the last row FOR UPDATE:
the row it will lock is chosen there, even when the lock has to be waited for, and
`WriteInsert` is what follows once the lock is free. Ids come from a sequence, so
a rolled back row leaves a gap. A hash is the sequence of the contents that went
into it, which takes SHA-256 to be free of collisions; the content stands for its
canonical form, which the round trip through JSONB is taken to preserve.
`alongside` is history: the writes that were open at the same time.

### Rollup

One officer of one tenant, whose fines are two counts per day. The sweep's steps are
its statements: `SweepBegin` is the snapshot of the upsert, `Aggregate` its commit,
`ScoreRead` and `ScoreUpdate` the same of the scoring update, then one statement for
each detector. No transaction holds them together (`SweepFails` cuts anywhere), and
`RunOnce` is run by every replica's ticker and by an admin's request, so that two
sweeps may overlap and the older snapshot may be written last. `Scored` is the
z-score without its division and square root; of its value only "null", over the
threshold and the rest are told apart. A row that was never counted is one with no
fines, because the upsert writes none for such a day. Totals, distinct plates and
severities decide nothing.

`MCAudit` runs `AuditChain` and `Rollup` side by side: they share neither a row nor
a lock, so each moves in behaviours of its own.

### Retention

`Query` is the one statement of `RunOnce` with its four branches by status and its
legal-hold condition (`Due`); `Pick` takes the next item of that list, `Delete` is the
bucket's answer and `Seal` the transaction that locks the row, looks at `sealed_at`
and writes row and custody. Between any two of them fines are decided, the hold is set
and days pass. `DeleteFails` and `SealFails` go on with the next item; `StopSweep` is a
replica that stops or a request that is cancelled. `cut` is history: the evidence whose
seal failed after the delete. A retention counts days up to `MaxDays`, which is larger
than every retention used.

### Sessions

A login is three steps (look up, load the roles and sign, commit) and a refresh two,
because the roles are read in a statement of their own. `Request` is both the request
in progress and the access token it answered, which lives until `left` runs out: no
service asks the database about it again (`Admits`, `Me`, `AdminAuthorized` read its
claims only). Lifetimes are counted down and names are used again, so time needs no
bound. `SetActive` is an operator's statement in the database: no handler writes
`is_active`. `began` is history: the roles the account had when the request looked up.

`MCSessions` runs `Sessions` and `Retention` side by side, in behaviours of their own
like those of `MCAudit`: in each, one of the two moves and the other rests.

### Notifications

`tick` holds a replica's local variables. `ReadOffset` and `ReadBatch` are statements
of their own; every event has one transaction, `Resolve` (recipient and insert),
`Send` and `Commit` or `Rollback`; `Advance` saves the offset with whatever the batch
reached, over what another replica saved. The recipient of an event about a vehicle is
its owner at the time of the tick (`ResolveByVehicle`), of a license's event its holder,
of a transfer's the buyer. A message the provider took and whose answer is lost is
recorded as failed. `torn`, `dropped` and `overtaken` are history. The wording of the
renderers is left out; which of them resolve by what is `KindOf`.

The definitions that every specification has carry the module's name here, in
`Sightings` and in `Retention` (`NotificationsInit`, `SightingsSpec` and so on),
because a module of proofs or a run extends them together with another specification.

### Sightings

A job's plate is read as `Raw` and becomes `Corrected` or `Stripped`, according to
whether the query for the tenant's regular expression succeeded (its error is
ignored). `Read` is the two reads of the worker, `Finish` the transaction that
writes scan, event and status, `FinishUnheard` the same with its answer lost, which
makes the worker call `fail` on a job that is done. A job marked a duplicate still
writes its scan and events, and after a lost answer it may be a duplicate of its
own scan. Events reach the consumer at least once in any order (what `Outbox`
shows, short of the rows it loses); `Handle` is the upsert under the partial unique
index of open alerts, and `HandleFails` its error, which the consumer logs before it
goes on to the next event: the event is passed over and comes again only if its
batch does. `missed` is history: the events it has only failed on. The position of a camera, which comments mention as part of
deduplication, is not part of it in the code, and neither of the model. Alerts that
the hourly rollup raises are another kind, in `Rollup`.

## 3. Runs

All configurations set `CHECK_DEADLOCK FALSE`: requests and rows are one-shot and
the counters bounded, so a behaviour ends when they are used up.

| Run | Shows |
|---|---|
| `FinesSafety` | two pay requests with repeated and overtaking webhooks, two disputes, a cancellation, two replicas sweeping two stages of one fine: `PaymentsAgree` (fine, payment rows, provider and outbox tell one story about the money), `DisputedIsPending`, `EscalatedOnce`, `ClosedIsLeftAlone` (only a sweep that listed the fine while it was open moves a closed one), and `ImplementsLedger`: `Fines` implements `FineLedger`. And two fines of one vehicle, issued at once or in turn, with a pay request or a dispute, a cancellation and a sweep: `NoDuplicateFines` (the duplicate check lets through only what it could not see) |
| `FinesLive` | two fines and two pay requests that share an intent, under fairness: `CaptureIsSettled`, `OverdueEscalates` |
| `Outbox` | two relays and a replica of the consumer, a poisoned row, a tick cut short: `DeliveriesAreSound`, `LostOnlyIfOvertaken`; `RelayDelivers`, `ConsumerDelivers`: the relay, and the consumer for rows that were not overtaken, implement `AtLeastOnce`, liveness included |
| `RetryQueue` | two workers and a verify request on a vehicle whose expiry staff enter as well: `ClaimIsExclusive`, `AttemptsCountRuns`, `VerifiedIsOnRecord` (an expiry that no staff entered is a recorded policy's, and a job that is done left its policy on record), and with fairness `JobsEnd` |
| `License` | two engines, two lifts that name a suspension or none, suspensions by hand: `TypeOK`, `PointsAreTheLedger`, `OverThresholdIsSuspended`, `SuspensionsAgree` |
| `Registry` | three owners, three start requests, two accepts, staff: `SellerHoldsTitle`, `CodeIsSingleUse`, `FlagStopsTransfer` |
| `AuditChain` | three writes in every order of their statements: `BreaksAreOverlaps`; two sweeps over three days, one of them by an admin who may hang: `StatsCatchUp` |
| `Sightings` | two reads of a plate, lost answers, a stop, flags that come and go, an event the consumer fails on: `SightingsTypeOK`, `ScannedOnce`, `SightingsAreAlerted` (a flagged vehicle that was seen is known to the staff unless the consumer failed on the event), and with fairness `JobsEnd` |
| `SessionsEvidence` | two requests at once on one account with two sessions: `ClaimsAreBracketed`, `LogoutIsFinal`, and as time passes `DeactivatedEnds`; a ticker and an admin sweep two pieces of evidence, one stuck in the bucket: `CustodyAgrees`, `ProtectedIsKept`, and with fairness `DueIsSealed` |
| `Notifications` | two replicas over one offset, a vehicle that changes hands, lost answers, a tick cut short, an ad-hoc message: `NotificationsTypeOK`, `RecordsAgree`, `PassedIsAccounted` (whatever the other replica is still doing), `PastIsPast`, and with fairness `EventIsPassed` |

Two runs end in a counterexample, because a comment says more than the code does
(PROJECT.json quotes the lines):

| Run | The claim | What the code does |
|---|---|---|
| `FinesDuplicated` | duplicate fines within the window are rejected | two issue transactions that are open together each count the committed fines, find none, and both insert |
| `AuditForked` | FOR UPDATE serialises the writes | a write that waited for the lock hashes the row it chose before waiting, and the chain forks |

### Other disagreements the models show

These are built into the actions, and the properties are stated around them. Each
can be seen by strengthening the property named:

* Besides the two open transactions of `FinesDuplicated`, a fine can have a
  duplicate that was issued while it was cancelled, if a webhook, a rejected dispute
  (api.go:901) or a sweep puts it back in force. `NoDuplicateFines`, checked in
  `FinesSafety`, says that there is no third way.
* A lift answers 204 and announces `license.reinstated` for any suspension id, since
  the rows its update touched are not counted (license api.go:413-436). The
  notification that follows tells the holder that they can drive again
  (renderers.go:246-247), whether or not anything was lifted and whatever other
  suspension is in force. `SuspensionsAgree` says that such a lift disturbs nothing but
  the outbox.
* `vehicles.insurance_expires_at` has writers beside the verification: the registry's
  create and update (registry api.go:218, 338) store what staff entered, with no
  `insurance_records` row, over a verified expiry and under the next one.
  `VerifiedIsOnRecord` speaks of what they did not enter.
* An error of the alert handler is logged and the offset moves on
  (anpralerts/consumer.go:75, go-common events/consumer.go:156-165): the alert is lost
  for good unless its batch is read again. `SightingsAreAlerted` excepts those events.
* The locked re-read of the escalation engine compares the stage, not the status
  ("confirm the fine hasn't moved", engine.go:153): a fine closed after the sweep's
  query is escalated, and `ClosedIsLeftAlone` speaks of fines no sweep has listed.
  The query takes no lock in spite of the SKIP LOCKED comment, and the
  warning stage sets 'warned'.
* A fine paid between a dispute's read and its commit becomes disputed
  (api.go:706-708).
* A repeated webhook settles again when two payment rows carry one intent, which
  happens with a provider that honours the idempotency key.
* Replicas of a consumer do not lock the offset row (consumer.go:44-46 says they
  coordinate through it): it may move back, and events are handled twice.
* An outbox row that commits after a row with a higher id was consumed is never
  dispatched ("at-least-once delivery", outbox.go:15-16; "Guarantees no event is
  lost", 0003_phase2.up.sql): `LostOnlyIfOvertaken` names the exception. It
  holds for the notifications' offset as well (`PassedIsAccounted`).
* A webhook that overtakes the commit of its payment is acknowledged with 202 and
  never comes again (api.go:1061): the row stays pending (`AcksAreSettled`).
* A retry job whose worker stopped stays 'running' for good (retry.go:14, 91, 100);
  so does an ANPR job.
* Two engines that overlap on a license lose points: the later one stores a sum
  that lacks the other's row. A redelivered fine counts twice, and an error of the
  engine is swallowed by the in-process bus. A lift that overlaps an opening can
  leave a suspended license unflagged, against api.go:418 of the license service;
  a suspension without an end is not seen by the engine; the flag is not cleared
  when a suspension expires.
* A flag raised between an accept's read and its commit does not stop the
  transfer, although the comment says the flags are read "against the locked
  vehicle row". An expired transfer that nobody tries to accept blocks new ones.
* The ANPR pipeline's header says a job fails after more than five attempts; it
  fails at five. Two workers on two reads of one plate may both find no scan in the
  window and both count as the first (pipeline.go:157).
* Of two overlapping jobs on one vehicle the one with the older provider answer may
  store its expiry last (worker.go:142 of the insurance service).
* The notifications consumer inserts the record in the transaction it sends in
  (consumer.go:13 calls the record durable and inserted before sending): a rolled
  back or cut transaction leaves a message without a record. The offset is not saved
  in that transaction, as consumer.go:170-172 says, but once per batch.
* Between the delete and the seal, and for good if the seal is cut until the item is
  due in a later sweep, evidence whose `sealed_at` is NULL is not "still retrievable"
  (0007_evidence_sealed.up.sql:6). A hold that is set while a sweep has the evidence
  listed does not save it.
* A resolved alert is raised again by the next sweep on unchanged data, for as long
  as its day is in the window; rollup.go:190-193 speaks of bad behaviour that
  returns. Statistics of a day that leaves the window stay as the last writer left
  them, stale or not. The column's comment says the score is within 0..1; it is the
  raw z-score.
* A refresh does not look at `is_active`, and the roles in a token are those of a
  statement after the account was read; middleware.go:11 says a missing tenant header
  is set from the claims, which the code does not do.
* audit.Emit runs after the commit of what it reports and its callers drop its error,
  and the in-process bus logs a handler's error and returns nil (audit.go:74,
  inproc.go:39): both are lost events no property here can bring back.

**Bounds.** One or two of each actor and row are enough for the races, which are
between two transactions or a transaction and a sweep.

* Fines: two stages let a candidate go stale in its target; `MaxAge` and
  `MaxCancels` stop the clock and the cancellations. `FinesSafety` is bounded by
  `OneFineOrTwo`: everybody is about one fine, or two fines of one vehicle, whose
  issue requests may overlap, meet one pay request or dispute and one sweep at a time,
  which is what it takes to bring a cancelled fine back beside its duplicate. Its
  provider makes a new intent per call; the theorem `PaymentsCorrect` covers the one
  that honours the key as well. `FinesLive` has two fines and no disputes, one replica
  and one stage, and a provider that honours the key, so that two rows share an intent.
* Outbox: two rows let one be overtaken and one be poisoned; one tick is cut short.
  One replica of the consumer is enough for the loss of an overtaken row; that
  two may move an offset back is checked in `Notifications` with two.
* RetryQueue: two jobs of two attempts, two policies, one stop; staff as often as they
  like.
* License: fines of one point against a threshold of two, each counted at most
  twice, one month and a window of one, so that points leave the window between
  two fines. One license; for it an id of no row is the same as one of another
  license's suspension, and the theorems cover several.
* Registry: transfers of different vehicles share only the owners; one vehicle.
  Three owners and transfers let a title pass twice while a request is open.
* AuditChain: three writes are a pair that overlaps and one before or after it;
  the theorem covers any number. Three days with a window of one day let a day leave
  it, a baseline of two gives the third day a score; five changes of fines, two
  sweeps and one that fails are enough for an older snapshot to be written last.
* Retention (in `SessionsEvidence`): with retentions of 0 and 1 day, a court case kept for ever and two days,
  evidence becomes due, is protected and becomes due again; two stops.
* Sessions (in `SessionsEvidence`): access tokens live one tick and sessions two, so that a session outlives
  a token and both end; two passwords, role sets that differ in a permission.
* Notifications: two events let one appear below the other; one fault. A party that
  cannot be reached makes a record that is suppressed.
* Sightings: one plate that normalises differently without the expression, two
  capture times within two units of each other against a window of one, two
  attempts for each job, one lost answer, one worker that stops or one event
  the consumer fails on, two alerts, two days.

Symmetry is used only in runs without liveness, over rows and replicas that nothing
distinguishes.

**Fairness.** A webhook is retried until it is acknowledged (`WF` on it, per
intent); sweeps, relays, consumers and workers run on tickers (`WF` on their
steps). A transaction or publish that fails for a reason of its own is retried by
the next tick, and the code relies on one going through in the end: `SF` on
`Advance`, and on `Publish` of a row that is not poisoned. The relay's liveness needs
fewer poisoned rows than a batch holds, since failed rows are retried first and
without a limit. In `RetryQueue` workers
tick every two seconds and back-offs elapse, and nothing is assumed of the
provider or the database, which may fail every call: attempts are bounded by the
code. In `Sightings` a worker polls every 500 ms and gives a claimed job one end or
another; `Stop` and `HandleFails` are not fair and happen at most `MaxFaults` times together. In `Retention` a
ticker fires (`WF` on `Query` and `Pick`), a call to the bucket returns, and a delete
or seal that keeps being tried works in the end (`SF`); in `Notifications` a tick goes
on (`WF`), and every send and commit may fail; in `Rollup` a ticker's next statement is
executed (`WF`), an admin's request may hang for ever, and sweeps fail at most
`MaxFaults` times; in `Sessions` only time passes. Nothing is assumed of users, admins
or producers.

## 4. Proofs

The theorems hold for every value of the constants that the named ASSUMEs of the
modules allow. Each module proves `Init => Inv`, `Inv /\ [Next]_vars => Inv'` and
`Inv => property`, and has one step per action.

`FinesProofs`:

* `TypeCorrect`: `TypeOK` together with `References`, which makes it inductive: a
  recorded payment names an intent that charges a committed fine, a filed dispute
  and a sweep's candidate name a committed fine.
* `PaymentsCorrect`: `PaymentsAgree`, that is `PaidIsBacked`, `PaidIsAnnounced`,
  `PaidOnce` and `AcksAreSettled`. The strengthening `Distinct` says that with one
  intent per request two rows never share an intent.
* `DisputesDecidable`: `DisputedIsPending`, by its own induction: only a dispute's
  commit sets 'disputed', and a verdict moves the fine on.
* `VerdictsAreFinal`: the action property `VerdictIsFinal`.
* `EscalationCorrect`: `EscalatedOnce`, from the locked comparison in `Advance`.
* `ClosedIsLeftAloneHolds`: `ClosedIsLeftAlone`, step by step: `Advance` needs a
  candidate, and `Sweep` selects open fines.
* `NoDuplicatesHolds`: `NoDuplicateFines`, for any number of issue requests open at
  once. `Explained` says of two fines on one vehicle for one offence, committed or
  past their check, that one is unseen by the other's check unless one has left the
  window; only issuing makes rows (`OnlyIssuingMakesRows`) and looks for
  them (`OnlyIssuingLooks`), and what an unseen fine does later excuses nothing new.
* `ServiceImplementsLedger`: without a provider that honours the key
  (`~HonoursKey`, when every intent is new), `Fines` implements `FineLedger`: the
  initial states map to initial states, and every step to a step or a stutter.
  The hypothesis is needed: two pay rows that share an intent each announce its
  settlement, which a reader of the events sees as the same intent paid twice.

`OutboxProofs`: `TypeCorrect`; `OnlyCommittedHolds`, `PublishedOnceHolds` and from them
`DeliveriesAreSoundHolds`, from `RelayInv` (a row
is in at most one relay's batch, and was published at most once more than there were
crashes); `LostOnlyIfOvertakenHolds` from `ConsumerInv`, whose part `Covered` says
that every committed row up to an offset (stored, read or about to be stored) was
dispatched, is in the batch at hand, or was overtaken, and `Mark` that such an
offset is the id of a committed row. `Numbered` says that ids are distinct and
follow the sequence. `RelayForwards` and `ConsumerReads` are the safety halves of the
two refinements of `AtLeastOnce`: a relay's step accepts and delivers rows that
committed and the bus takes, and the consumer's steps do so for the rows that were
not overtaken, or they change nothing of either.

`LicenseProofs`, on `License`: `OverThresholdCorrect`; `OneDemeritSuspensionHolds`, `FlagCorrect` and
`AnnouncedCorrect`, which make `SuspensionsCorrect`. `Basics` keeps rows and requests
pointing at each other;
`LiftKnows` says that what a lift has seen is still so if nothing crossed it, and
`EventsNameRows` that no lift is announced of a suspension before that has a row.
`TypeCorrect` and `PointsCorrect` need the sum over a set of fines
(`SumFunctionOnSet`, a fold) that stands for the query over the ledger. What it
does is proved from its definition by well-founded induction over
sets of numbers: `FoldExists` and `FoldUnique` say that the fold is a function,
`SumRemoves` takes one fine out of the sum, `SumSame` and `SumGrows` compare two
sums. `Ledgers` says that an open transaction has summed its own row
and everything older that is still in the window.

`LicenseProofs`, on `Notifications`, all from `TicksInv` (what a tick holds at each of
its steps, `TickHolds`, and that it lies above the offset it has read and ends at a
row that is there, `TickReaches`):

* `NotificationsTypeCorrect`.
* `RecordsCorrect`: `RecordsAgree`. `Tallies` counts the 'sent' records of an event
  and a recipient together with the open transactions that are about to write one,
  against what the provider accepted.
* `PassedCorrect`: `PassedIsAccounted`. `Accounts` says of every tick that what lies
  between its start and the highest of its batch is accounted for, still in the batch
  or at hand; `LowestIsClosed` that a batch leaves out no row below its highest, and
  `AppearAccounts` that a row that appears below any of these marks is overtaken.
  So the offset may be overwritten by a slower replica, in either direction.
* `PastStays`: the action property `PastIsPast`.

`RetryProofs`: `TypeCorrect`, `ClaimIsExclusiveHolds` (`Holding`: the worker that
holds a job knows how often it ran), `AttemptsCountRunsHolds` (`Counting`: attempts lag behind
runs by the one not yet reported), `VerifiedIsOnRecordHolds` (`OnRecord`: a
request that goes on to store an expiry has its policy on record; `Known`: a worker that
reports its job done has left the policy of the job's time, or a later one, on record,
where it stays), `EndedIsFinalHolds`.

`RegistryProofs`: `TypeCorrect`, `SellerHoldsTitleHolds` (`OneOpen`: one
pending transfer per vehicle; `ReaderHoldsTitle`: the same of a request that has
read the title), `CodeIsSingleUseHolds` (`RowsNamed`, `LocksHeld`: a row is locked by one
accept, and pending while it is), `FlagStopsTransferHolds` (`FlagsSeen`).

`AuditProofs`: `TypeCorrect` and `BreaksAreOverlapsHolds`. `HashesLast` says that a
row hashes the row its write read, which was committed with a lower id; `Ordered`
that of two writes that did not overlap the later read a row that is not before
the earlier one; `Overlaps` that `alongside` is symmetric. `StatisticsTyped`: the
state of `Rollup` is typed, in particular no row ever counts more cancelled fines
than issued ones, since every row is one snapshot's counts.

`RetentionProofs`: `Inductive` (`RetentionTypeOK` and `Traced`: a sweep between delete and
seal has its object gone; a missing object is sealed, cut or held by a sweep; custody
counts follow the row), `CustodyAgreesHolds`, and the action property
`ProtectedIsKeptHolds`.

`SessionsProofs`: `TypeCorrect` (`Basics`: a live session has an owner, a request is
about an account whose roles have not shrunk since it looked up),
`ClaimsAreBracketedHolds` (`Bracketed`: what a request signed lies between the
permissions at its lookup and those of now) and `LogoutIsFinalHolds`. On `Sightings`,
from `SightingsBasics` (types, finitely many scans and alerts, and how often a job has
been tried at each of its steps): `SightingsTypeCorrect`, which includes the one open
alert of a vehicle and day; `ScannedOnceHolds` (`ScansCounted`: a job that is to be
tried again, or may be, has written no more scans than answers were lost);
`SightingsAreAlertedHolds` (`FlagsSeen`: a job that is sure to meet a flagged vehicle
sees the flag and writes it down, and an event that was handled without an error stays
part of an alert, resolved or not).

Type invariants that a theorem covers (`Fines`, `Outbox`, `RetryQueue`, `Registry`,
`AuditChain`, `Rollup`, `Retention`, `Sessions`) are not repeated in the runs.

Every invariant and every action property of the passing runs is a theorem's, one of
them under a hypothesis that the theorem states: `ImplementsLedger` (see
`FinesProofs`).

Only model-checked: all liveness (`CaptureIsSettled`, `OverdueEscalates`,
`StatsCatchUp`, `DueIsSealed`, `EventIsPassed`, `DeactivatedEnds`, the `JobsEnd`s, and
the fairness of `AtLeastOnce` in `RelayDelivers` and `ConsumerDelivers`), which is
beyond the prover.

## 5. Open ends

In the order they would be taken:

1. What the ledger looks like to a reader of the events when rows share an intent: a
   specification that settles fines, not intents.
2. Composition of `License` with `Outbox`: from a committed fine to points, with the
   redeliveries and losses the outbox really has instead of `MaxDeliveries`.
3. Country packs reloaded while a fine is issued.

## 6. Not modelled

* Provider health monitor: a fail streak written best effort beside every call;
  nothing in the code reads it to decide.
* Gateway and rate limiter: a stateless proxy, and a token bucket per tenant and route
  that lives in one process's memory under one mutex.
* Country packs and the regulation loader: configuration replaced as a whole on a
  timer; its values are constants of the models.
* License: creating and editing a license, endorsements, biometrics and verification
  tokens, single-row writes that no modelled decision reads. ANPR: the synchronous
  recognition of an image, which stores nothing.
* Storage, payment and ANPR provider contracts: the environment of the modules that
  call them.
* Read-only handlers, request validation and JSON; the best-effort audit calls;
  row-level security and tenancy (each model is of one tenant); the web apps,
  deployment, logging, metrics and test helpers.

PROJECT.json lists every component with its reason.
