# Verification of the Ruvanas platform

Ruvanas is a multi-tenant platform for in-store radio, campaigns and live
broadcasting: a Next.js application over PostgreSQL (through Prisma) and two
worker processes. This directory holds TLA+ models of the parts in which
several actors change the same rows, TLC configurations that check them on
small instances, and TLAPS proofs of what matters most for every value of the
constants.

Times in the models are ticks of one wall clock, or the answers a comparison of
two instants gives. The database is external:
a statement outside a transaction, or a whole serializable transaction, is one
action. `$transaction` without options runs at READ COMMITTED, so what a request
read before a write may be stale by the time of the write; the models keep the
read and the write apart wherever the code does.

## The system

### How the parts interact

Routes under `app/api` and the operations worker (`scripts/operations-worker.mjs`)
share nothing but the database. Every 30 seconds the worker runs, one after the
other, the notification jobs, the outgoing webhooks, the distributor
synchronisations, the player health scan, the expiry of player commands, and the
scans of streams, live sources, failovers and browser studios. All of them are in
one `try`: an error in one skips the others until the next cycle. Operators can
run several of them at any time through admin routes, and a second worker exists
during a deployment. Nothing in memory survives a crash, and nothing is needed
after one but what the database holds.

A player (a browser or a device in a shop) enrols with a code, sends heartbeats,
claims a listener lease, polls its state, manifest and commands, and reports
proofs of play. A failure detected by a scan becomes an incident, an incident
queues a notification job in the same transaction, and the job delivers in-app
rows, mail, and an event for the organisation's outgoing webhooks, which another
batch of the worker sends to the customer's endpoint.

### Inventory

| Part | State | Operations | What is hard | What makes it correct |
|---|---|---|---|---|
| Job queue (`lib/job-notification-service.js`) | `Job` rows: status, attempts, lease token and expiry, availableAt | enqueue, claim (query, guarded update, re-read), complete, fail, manual retry | statements of two workers interleave; a batch has one stale `now`; crashes; expired leases; retries of dead letters | no job is lost; no attempt before its backoff; nobody but the holder ends a lease; dead letters are earned; success is final |
| Notification delivery (same file, `lib/notification-email-service.js`) | `NotificationEvent.dispatchedAt`, `NotificationDelivery` rows, preferences | the handler's statements; preferences, read, dismiss | provider timeouts; a crash between the mail and its evidence; retry over what members have read; two workers with one event | evidence is true, final and complete before the event is closed |
| Player listener leases (`lib/player-listener-lease.mjs`, `lib/player-session-management.mjs`) | `PlayerListenerLease` rows | claim, renew, drop, release, stop by a manager, retirement, plan change, end of complimentary access | the limit, the player and the instant are read before the transaction; retries; a stopped browser keeps asking | quota at every grant and after a downgrade; one device per player; earlier holders keep their slots; a stop holds |
| Outgoing webhooks (`lib/outgoing-webhook-service.js`) | `OutgoingWebhookEvent`, `WebhookDeliveryAttempt`, connection status | queue, claim, deliver, record, note an error, recover, disconnect, reconnect, revoke, rotate | claims lapse during slow batches; lost answers; operators act during a delivery; recovery of rows read earlier | attempts without gaps; cycles used up exactly; delivered is final and true; revoked and disconnected are obeyed |
| Operations worker (`scripts/operations-worker.mjs`) | where it is in its cycle | the two batches, then the scans | an error in one phase ends the cycle; restarts | both queues are drained all the same |
| Enrolment, commands, lifecycle (`lib/player-command-service.js`, `app/api/player/*`, `app/api/admin/players/*`) | player status and token, `PlayerCommand` rows | enrol, heartbeat, send, poll, acknowledge, expire, retire, replace | enrolment reads a code and updates by id; heartbeats write the status by id; two members of staff send the same command; a command is polled while it is cancelled or expires | one active command of a kind; handed over once; settled is final; a retirement cancels; one replacement |
| Player health (`lib/player-health-service.js`) | incidents, lastHeartbeatAt | scan, heartbeat, proof, acknowledge, resolve | the scan decides on rows read earlier; two workers; recovery, review and scan of one incident overlap | one unresolved incident per player, never taken back; a player that stays offline is reported and escalates |
| Stream source health (`lib/stream-source-health-service.js`) | source status, incidents | probe, record | the same pattern as player health | one unresolved incident per source |
| Live failover and external live (`lib/live-failover-service.js`, `lib/external-live-service.js`) | failover policy, external sources | probe, reconcile, override, clear, disable, test, activate, suspend, archive | reconcile writes a state computed from an earlier read; thresholds and holds are counted by different code | the return to the primary is earned; overrides end; a working source gets on air |
| Browser live studio, DJ access (`lib/browser-live-studio-service.js`, `lib/dj-access-service.js`) | studio session and its version, generated source, grant | soundcheck, prepare, go live, heartbeat, fall back, end, revoke, stale scan | a version is compared in one statement and the session updated in the next; the source changes before or after | closed is off air; no connection without a soundcheck; a revoked presenter loses the studio |
| Playout resolution, manifests, schedules, clocks, playlists (`lib/playout-resolver.mjs` and others) | schedules and programme entries | resolve for an instant; edit | priorities and boundaries in time | the resolver agrees with its priority order at every instant |
| Production orders and credits (`lib/production-*`, `app/api/studio/orders`) | orders, the ledger of credits | create, submit, produce, approve, change, deliver, cancel, authorise an add-on, staff entries | funding is read before and written after; repeated requests; the loop of changes | credits are conserved and used once; nothing is produced unfunded |
| Overrides of private facilities and proof of play (`lib/corrections-announcements-service.js`, `lib/corrections-delivery-service.js`, `app/api/player/proof-of-play`, `app/player`, `lib/playback-*.mjs`) | overrides, playout intents, proofs, the device's queue | start, clear, expire, supersede, poll, play, report, refuse | proofs arrive late, twice or after the end; a bad event spoils its batch; reloads and lost answers | what counts as delivered was delivered; no true proof is lost; an end is final |
| Campaigns, retail media | orders, campaigns | editing and approval | — | guarded updates of one row |
| Distributors, Promo Only, catalogue upload, audio worker | sync runs, uploads, audio jobs | periodic imports, ffmpeg jobs | external services, retries | an item is imported once |
| The rest of corrections broadcasting, school radio, digital signage | requests, approvals, publications | approval workflows | permissions and staleness of approvals | nothing is published without approval |
| Billing, entitlements, accounts, access control | contracts, sessions | request-response | — | guards of the other parts |
| Listener analytics, public players, reports, web client | counters and aggregates | presentation | — | — |

## Modules

| Module | Models | Composition |
|---|---|---|
| `JobLifecycle` | what the queue promises about a job, without workers, leases or clocks | abstract specification |
| `JobQueue` | the job table and its workers, one action per database statement | implements `JobLifecycle` (`ImplementsLifecycle`) |
| `NotificationDelivery` | `deliverNotificationEvent` inside the workers of `JobQueue`, and the members | `INSTANCE JobQueue`: each step conjoins one of its steps or leaves its variables alone, so that what is proved of the queue carries over by construction |
| `PlayerLease` | listener leases, quota, device lock, stops | stands alone; the plan is a number that changes |
| `OutgoingWebhook` | the delivery queue of one webhook connection and its operators | stands alone; an event queued by `NotificationDelivery` is its `QueueEvent` |
| `OperationsWorker` | the loop that drains both queues | `INSTANCE`s `JobQueue` and `OutgoingWebhook` over one clock; the handler of a job queues the event of the same name |
| `PlayerCommands` | enrolment, sessions, retirement and replacement of players, and their commands | stands alone |
| `PlayerHealth` | signs of life, the offline scan and its incidents | stands alone; an incident opened is an `Enqueue` of `JobQueue` |
| `LiveFailover` | two live sources and the policy that chooses between them | stands alone |
| `BrowserStudio` | one studio session, its generated source and the presenter's grant | stands alone; its source is one of `LiveFailover`'s |
| `ProductionOrders` | orders, their funding and the ledger | stands alone |
| `InsideOverride` | overrides of areas, the players' pages with their queues, and the server that counts proofs | staff, devices and server in one module |
| `JobQueueProofs`, `NotificationProofs`, `PlayerLeaseProofs`, `OutgoingWebhookProofs`, `PlayerCommandsProofs`, `ProductionOrdersProofs` | theorems | extend the module they are about; `NotificationProofs` takes the facts about the queue from an instance of `JobQueueProofs`. `OutgoingWebhookProofs` is also about `OperationsWorker`: `W` is an instance of it and `Q` one of `JobQueueProofs` |
| `LiveProofs` | theorems about `BrowserStudio` and `LiveFailover` | extends the first, `F` is an instance of the second |
| `PlayerEvidenceProofs` | theorems about `InsideOverride` and `PlayerHealth` | extends the first, `H` is an instance of the second |
| `MC...` | model values and symmetry | extend the module they instantiate |

An operator whose name continues after an underscore, `FailedRow_OneTooFew` for
`FailedRow`, is a fault: the definition with one plausible mistake, which its
comment names. No specification uses it. Put in the place of the original it must
make TLC find the property violated that is meant to notice it; the pairs are in
`PROJECT.json` under `mutants`.

### JobQueue

`rows` is the `Job` table with the columns that decide something. A worker walks
through `processJobBatch`: `FindCandidates` (the query with its order and `take`),
`ClaimRow` or `SkipCandidate` for each candidate (the `updateMany` with its
guard), `RereadRow` (the `findUnique` after it), `StartProcessing`, `RunHandler`,
`CompleteJob` or `FailJob` (guarded by the lease token), and `FinishBatch`.
`CompleteRefused` is a completion that matches no row, and `AbortBatch` a
failure that matches none: `failJob` throws out of the catch block, which drops
the rest of the batch. `Crash` also stands for a database error that ends the
cycle. Priority has its default everywhere in the code and is left out;
`startedAt`, results and error texts decide nothing.

Candidates, snapshots and the batch instant belong to the worker and go stale
while others act, which is the point of the model. `JobQueueProofs` needs the
invariant `IInv`: tokens in the table and in workers' hands have all been issued
(`TokensIssued`), so a new token is nobody's; from that, whoever presents the
current token of a row has a snapshot of the row as it is (`FreshDecision`); and
only from that does `failJob`'s decision on the snapshot's attempts give
`DeadLetterEarned`.

### NotificationDelivery

`phase` is the next statement of the handler: the event, members and preferences
are read together (`ReadEvent`), in-app rows are created with `skipDuplicates`
(`CreateInApp`), then each opted-in member is looked up, mailed and recorded, then
the webhook event is queued and `dispatchedAt` written. `SendEmail` has four
outcomes: accepted, accepted with the answer lost, rejected, and no provider.
Any statement may fail (`HandlerThrows`). The role and scope filters are one
fixed set of recipients. Events of type `CORRECTIONS_REVIEW_REQUEST`, which queue
no webhook, are left out. `accepted` and `promised` are history: what the
provider has accepted, and whom the run that closed the event had to mail.

### PlayerLease

A request reads player, service and limit (`Arrive`), takes its instant, and runs
the claim in a serializable transaction that is retried: one action
(`RefuseClaim`, `DropClaim`, `Renew`, `Grant`) that works with the limit read
before and any instant between the read and the commit. Every outcome includes
the sweep of the organisation's expired rows. Listener tokens are signatures over
the row's key and are left out. `RequestTicks` bounds how long a request may
take; it is a parameter of the properties about plan changes, not only of the
model.

The proofs need that creation order is strict (`SinceDistinct`), so that a rank
is a rank, and that old limits fade (`OldLimitFades`): only a request that read
the old limit can grant under it, and what it granted runs out one lease later.
`QuotaRestored` follows by counting: the youngest lease is within its limit, and
every active lease is at or below it. The youngest exists by well-founded
induction over the order of creation.

### OutgoingWebhook

A dispatcher is the worker or an operator who pressed "deliver due". It finds what
is due (`FindDue`), claims one event after the other by moving `nextAttemptAt` two
minutes past the start of the batch (`LockEvent`), reads it (`ReadEvent`), sends
the request (`Send`) and records attempt, event and connection in one transaction
(`RecordAttempt`), which the unique attempt number may refuse (`RecordRefused`).
Errors are noted on the event (`NoteError`), unless that fails as well. Operators
recover abandoned events (`FindAbandoned`, `RecoverEvent`: a read, then one
guarded update for each row) and act on the connection (`Decide`, `Apply`: a check,
then an update by id). Signatures, endpoint checks and payload filters are left
out: a request that cannot be built is one that is not accepted. The order in
which a batch takes its events, and its `take`, are left open: any order.

The heart of the proofs is `SnapshotUsable`: the number a dispatcher has computed
either follows the row as it is, and then the limit it has read is the row's and
the event is open, or it has been taken, and then the unique index refuses the
attempt. It makes the unguarded update by id in the final transaction safe for the
event (though not for the connection, see the findings).

### OperationsWorker

Every action of the two queues is used as it is; the module adds `phase`, the
place of the worker in its cycle: jobs, webhooks, scans, sleep. `CycleFails` is the
`catch` of the loop; `RunHandler` composes the two queues, because the handler of a
job has queued its webhook event when it returns and may have done so when it
throws. The question is `EndToEnd`: whether a notification gets from the enqueued
job to the customer's endpoint for good, although an error in the first phase keeps
the second from running. What the composition rests on is stated beside it: a worker
is in one batch at a time (`OneBatch`), a job that has succeeded has left its event in
the second queue (`HandedOn`), and the second queue holds nothing the first was not
given (`EventHasJob`).

### PlayerCommands and PlayerHealth

A request is a record with the step it is at, so that every read and the write
that relies on it are two actions. Commands are changed by updates guarded on
their status (`Claim`, `Acknowledge`, `Expire`), players by id (`Enrol`,
`Heartbeat`) or guarded (`Retire`). The partial unique index on active commands
and the unique index on `replacesPlayerId` are guards of the creating actions. In
`PlayerHealth` a worker's list remembers for each player the time it has been
offline and the incident found; `Examine` acts on what the list says.

### LiveFailover

The worker probes what is due, then reads and writes the policy; a manager's
request may fall between any two of its steps. Times are kept as ticks passed or
left, up to the threshold at which they stop mattering, so that the state space
is finite without a bound on time. `record` is history: how many checks in a row
have found the primary healthy, counted at the checks and not where the code
counts them.

### BrowserStudio

A request carries whether the version it expects is still the current one
(`fresh`), which every change of the session takes away from the others. `Check`
and `Update` are two steps (the server would also take a request without a
version, which no page sends), because the transaction runs at READ COMMITTED and
the update goes by id; `lost` records that an update went over a newer version and
`died` that a request did not finish. The safety properties about the air are
stated for behaviours without either, and `RevokedCloses` for all.

### ProductionOrders

`Begin` reads the order and checks it; `ChangeStatus`, `Authorise` and `AddMaster`
are the transactions, the first guarded by the status that was read. The funding
that was read is written back unguarded. A repeated idempotency key returns the
entry that is there. The early return for an add-on that is already reserved
changes nothing and is no action. Entries of the ledger are a set, because the key
makes them unique and nothing depends on their order but the balances, which are
kept as the code keeps them, running.

### InsideOverride

The page's handlers run to completion between two answers, so an action of the
device is a handler: `Fetch` (a manifest arrives, and what is no longer planned is
interrupted), `StartItem`, `EndItem`, and the answer to the request in progress
(`AcceptPart`, `RejectPart`), which sends the next part. `drain` holds the parts of
`drainProofBatch`'s recursion still to be sent. The server validates a request with
what it reads before its transaction, when the request is sent (`Send`) or any time
after (`ReadLater`), and `AcceptPart` is the transaction: staff and other players act
in between. `late` is a request the device has given up and the network has not; it
is validated (`ReadLate`) and served (`ServeLate`) in the same two steps.

Instants never change once set, so a comparison of an event's `occurredAt` with
`startedAt`, `expiresAt` or `endedAt` is taken when the event happens. What does
change until the server looks is the area's channel and the event's age. `assigned`
holds the channels an area has had (`Reassign`), `intent` which of them an item was
planned on, and an item is neither played nor accepted unless that is the current
one (`OnChannel`). `aged` counts the events that are over 30 days old, which happens
to a player that was away for a month (`Ages`). One player is detailed, the second
plays and reports at once (`PlayAtOnce`), which is enough to complete an override of
both behind the first one's back. Of a request the device gives up the model keeps
the latest or one before it (`Forgotten`, `RequestFails`); one that never arrives is
one that is never served. The time of an ended override for prompt players alone is
not followed any further (`WindowCloses`), since nobody asks for it.

Abstracted or left out here:

- The device's clock is the server's. The code compares the device's `occurredAt`
  and tolerates 5 minutes of skew ahead (`MAX_CLOCK_SKEW_MS`); a device whose clock is
  further ahead, or behind the start of an item (the lower bound at line 184), has
  its proofs refused.
- A player keeps its area, so that the intent lookup by area (line 97) finds the
  intent, and the facility stays private. Announcements stay approved, as nothing in
  the code takes an approval back, and normal intents are not cancelled.
- The position of a completion (line 187) and the proof's signature are always good.
- `Fetch` is one step, although reconciliation, selection and the page's handling of
  the answer are separate in the code: a player may act on a manifest that was
  selected a moment ago. The model has such players too, as they need not fetch.
- The list of refused events keeps the last 500 (`app/player/page.js:68`); `rejected`
  keeps all, being the history of what was refused for good.

## Runs

| Run | Instance | What it shows |
|---|---|---|
| `job_queue_safety` | 2 jobs, 2 workers, batches of 2, a crash, a manual retry, 2 attempts | no row out of reach, no stale decision, no early dead letter (`QueueSound`); leases and backoffs are respected; the refinement of `JobLifecycle`, which includes that success is final |
| `notification_one_worker` | 1 job, 1 worker, 2 members, crash, failures, manual retry | evidence is true and complete (`EvidenceSound`) and final; what members read survives retries; no event is closed over a failed mail |
| `player_lease` | 2 players in 2 browsers each, overlapping requests, a limit that changes | one device, the quota comes back after a change, a stop holds, nobody is evicted |
| `webhook_safety` | 1 event, 2 dispatchers, 2 cycles of 2 attempts, 1 error or crash, 1 operator action | evidence, budget and truth of delivery (`DeliveriesSound`), its finality, and that an abandoned event waits for its recovery |
| `operations_worker` | 1 worker, 1 job and its event, 1 crash, 1 error | every job becomes a dead letter, or succeeds and what it queued is delivered or abandoned, for good (`EndToEnd`) |
| `live_failover` | thresholds 2 and 3, hold 1, override of 2 ticks, 2 managers' requests | the state stands for what is on air (`PolicySound`); return, override, take-over |
| `browser_studio` | 2 overlapping requests, the scan, the end of the grant | closed is off air, streaming had its soundcheck (`StudioSound`); closed stays closed; revocation |
| `production_orders` | 2 orders, 2 overlapping requests, 2 staff entries | the sum of the ledger; funding, single use, production and revisions (`OrdersSound`) |
| `production_orders_cancelled` | the same | violated: a cancelled order that keeps its credit |
| `player_commands` | 1 enrolled player and 2 replacements, 2 commands of one kind, 3 overlapping requests | kinds, hand-over, retirement, replacement (`CommandsSound`); the lifecycle; every command settles |
| `player_health` | 1 player, 2 requests, 2 scanning workers, 2 incidents | incidents; offline players are reported and escalate |
| `inside_override` | a priority override of 1 area and an emergency of 2, 2 items begun, 1 fault (an area's change of channel and a month away among them), 1 private channel, queue of 3, batches of 2 | one override per area, completed when delivered (`OverridesSound`); ends are final; delivery evidence and the device's queue |

An invariant named `...Sound` is a conjunction of properties that have names and
comments of their own; a run checks them together. Type invariants that are
theorems are not run again: TLC checked each of them before it was proved.

Some properties say less than their names may suggest. `PolicySound` relates the row
to the source on air; it does not deny that a reconciliation overwrites a manager's
decision. `BackupTakesOver` is about a primary whose endpoint is down, not about one
that is suspended while healthy. `EndToEnd` is checked without operators and manual
retries, which may reopen what has ended. `StudioSound` and `ClosedStaysClosed` are
stated for behaviours in which no update was lost.

`NoFailureClosed` and `MailEvidenceIsFinal` hold only with the one worker the
documentation prescribes: with two, a slower worker may mail a member again or
record FAILED over DELIVERED. Their theorems assume `OneWorker`; the others of
`NotificationProofs` hold for any number of workers.

`NothingLost` has an exception besides the overflow of an event itself: the server
takes an interruption of the normal item for a repeated one when the start just
before it has overflowed or was refused (`StartMissing`). The instance does not get
there; the proof found it.

`TrueProofKept` says what the server may refuse for good. A refused part is cut until
one event is left, and that event is set aside. The proof of an override that stood
when it was played ends there only for its age or for the area's channel; the end of
the override, its batch, a lost answer or a repetition are no reasons.

`AnswersAdvance` says why the drain of a queue ends: `Work` is twice the number of
events to be answered less the number of parts they are in, a natural number
that an answer of either kind makes smaller. Cutting a refused part in two leaves
the events and adds a part; settling a part removes at least one event and at
most one part.

### Bounds

Bounds are CONSTANTS of their own, named as such in each module. They only disable
actions (the clock stops, no more crashes, no more grants), so they remove
behaviours and add none. They are enough for the case each property is about: two
actors are all that an overlap needs, and a claim, lease or backoff of one or two
ticks expires, is reclaimed and expires again within the clock. Two attempts make
a first, a last and, after a retry or recovery, a next cycle. Two players in two
browsers each, under a limit that goes up and down, have a rank on either side of
the boundary and a second device on either side of a stop. `MaxBatchTicks` is at
least the lease or the claim, so that a worker wakes up after its lease has
lapsed; a claim of a listener lease is given `RequestTicks`, less than a lease, as
its transaction has at most eight attempts (`maxAttempts: 8`), each limited by
Prisma's defaults to 5 seconds after a wait of 2, and a lease is 90 seconds. In
`operations_worker` the clock ends after the longest chain of leases and backoffs;
if it did not, the run would fail.

`LiveFailover` and `BrowserStudio` have no clock that ends: ages are counted up to
the value from which they no longer matter. `player_commands` begins at most three
requests that read before they write, which is what the longest race (two requests
to replace a player and a heartbeat in progress) takes; `player_health` two of
them against two scans. `ReturnIsEarned` is checked with a hold of 1, which a
threshold of 3 always meets: that a longer hold is kept is what the theorem adds.
`OfflineIsReported` excepts the moment when both incidents of the instance have
been used. In `inside_override` two items begun give up to four events of the
detailed player: its queue of three overflows, a batch of two is split, and a
second batch follows. One loop of the page sends at most five batches and never
needs more here; the next heartbeat goes on where it stopped.

Deadlock is not checked where bounded clocks or requests make the instance stop or
an empty queue is idle; `live_failover`, whose worker never rests, checks it.

Symmetry is used for interchangeable actors, orders and keys in safety runs only.
Jobs are numbered, because their order of creation decides the order of a batch.

### Fairness

The operations worker runs an endless loop and its supervisor restarts it. That is
weak fairness of its next step (`operations_worker`, `live_failover`), of the scan
and the closing of stale studios, of the expiry of commands and of the health
scan's list. `player_health` assumes strong fairness of looking at each listed
player: an error may end a scan anywhere, but an error that recurs in every
cycle at the same player is not assumed. The clock advances. Requests that have
begun end (`live_failover`, `browser_studio`), because each is a function with
timeouts; that they die is an action of its own where it matters. No manager,
member, presenter, device or crash is assumed ever to act. `production_orders`,
`webhook_safety`, `notification_one_worker` and `inside_override` are safety runs
without fairness.

## Proofs

Proved with TLAPS for any sets of actors and rows and any durations and bounds:

- `JobQueueProofs`: type correctness, `NoStrandedRow`, `FreshDecision`,
  `DeadLetterEarned`, `SucceededIsFinal`, `LeaseRespected`, `BackoffRespected`, and
  that the queue implements `JobLifecycle`. Assumes `JobAssumption` (jobs are
  numbers) and `NumbersAssumption` (lease, batch and attempts are positive, delays
  are natural numbers).
- `NotificationProofs`: type correctness,
  `EvidenceOfMail`, `SucceededMeansDispatched`, `DispatchedIsComplete` and
  `ReadStateSurvivesRetry`. Assumes `QueueAssumption`, what `JobQueue` assumes of its
  constants.
- `PlayerLeaseProofs`: type correctness, `DeviceLock`, `RankWithinLimit`,
  `QuotaRestored`, `NoEviction`, `StopHolds`. Assumes `FiniteAssumption` (finitely
  many player and browser pairs) and `TicksAssumption` (a lease lasts).
- `OutgoingWebhookProofs`: type correctness, `EvidenceComplete`, `BudgetRespected`,
  `DeliveredWasAccepted`, `DeliveredIsFinal`, `AbandonedUntilRecovered`. Assumes
  `CycleAssumption` (there is an attempt in a cycle) and `DelayAssumption` (the
  retry table is not empty). Of the loop in `OperationsWorker`, for any jobs and
  workers: both queues keep what is proved of each alone (`LoopKeepsQueuesSound`),
  the jobs still live the life of `JobLifecycle` (`LoopImplementsLifecycle`),
  `OneBatch`, `HandedOn` and `EventHasJob` hold (`LoopHandsOn`), and what `EndToEnd`
  promises to reach is never left (`EndedIsEnded`). These assume `W!Configured`, which
  is what the two queues assume of their constants.
- `PlayerCommandsProofs`: type correctness, `OneActivePerKind`, `HandedOverOnce`,
  `RetirementCancels`, `ReplacedOnce`, `CommandLifecycle`.
- `ProductionOrdersProofs`: type correctness, `CreditsConserved`, `CreditUsedOnce`,
  `PlanFundingMatchesLedger`, `ProductionIsFunded`, `RevisionsAnswered`,
  `ClosedIsFinal`.
- `LiveProofs`: of the studio type correctness, `SoundcheckRequired`,
  `ClosedIsOffAir` and `ClosedStaysClosed`; of the failover `PolicySound` and
  `ReturnIsEarned`. The latter assume `F!Configured`, which `LiveFailover` assumes
  of its constants: two sources, neither of them null, and positive thresholds.
- `PlayerEvidenceProofs`: of the overrides type correctness, `OneOverridePerArea`,
  `CompletedIsDelivered`, `EvidenceInTime`, `NothingLost`, `TrueProofKept`,
  `EndedIsFinal` and `AnswersAdvance`, for any players, overrides, queue and batch
  sizes, plays and faults; of the health scan type correctness, `OneUnresolved`
  and `IncidentAdvances`. The former assume that the sets of players and overrides
  are finite and the sizes positive, the latter `H!Configured`.

Where a proof module has an instance beside the module it extends, the theorems
about the instance repeat its assumption on the constants as a hypothesis, since
an instance does not bring it along, and name its formulas with the prefix
(`F!PolicySound`). TLC evaluates the same assumption in the runs of the component.

Each argument is the same: an inductive invariant `IInv`, checked by TLC before it
was proved, holds initially and is kept by every action, one case each; the
invariants are among its conjuncts, and the action properties follow from it step
by step. Each `...Sound` of a proved module is a theorem too, and so are its parts.
What has to be added to make them inductive is the interesting part:

- Webhooks: `RowSteps` says that a step does one of four things to a row;
  `SnapshotUsable`, described above, does the rest.
- Notifications: what a worker in the middle of the handler has already done and
  what it has read (`HandlerInv`). What is proved of the queue is used here
  without a proof of its own, because every step is one of the queue's or leaves
  the queue alone (`StepImplements`). For one worker, `OneWorkerInv`: the event of
  a running handler is open, every member it has dealt with is recorded as
  DELIVERED or SKIPPED (`SoleRun`), and no run has yet closed an event that is
  still open.
- The loop is not a refinement of either queue, since its clock also moves on when
  only the other one waits for time to pass. But each of its steps is, for either
  queue, a step of that queue, a stutter, or the passing of time alone, and the
  invariants of both survive that too (the instant of a batch stays in the past,
  and the passing of time never renews a lease). `CycleInv` adds what connects the
  two: a handler that has returned has queued its event (`HandingOn`), and what a
  worker has claimed exists (`ClaimedExists`).
- Commands: what requests carry was true when they read it and lies in the past,
  retirements too, and a command not yet handed over is still to be counted.
- Health: a list or a recovery may hold the name of an incident that has moved on,
  but never of a row that does not exist; the index does the rest.
- Orders: for an order of the plan the status determines the funding, so what a
  request has read is still true whenever the status it has read is. For
  `CreditsConserved` two facts are kept side by side (`CreditsInv`): the balances
  add up to the sum of the entries, and the reserved balance is the number of
  orders with a RESERVE and neither CONSUME nor RELEASE; that entries never
  contradict each other (`LedgerFits`) makes each new entry move both in step. The
  sum is a recursive function on the subsets of the ledger; that it exists, is
  unique and does not depend on the order in which entries are taken is proved
  from the well-founded order of finite sets (a smallest counterexample), without
  an induction theorem.
- Studio: a request whose version is current may still do what it was admitted
  for, and a source that is active is on air or in the hands of a GO_LIVE that
  will take it back.
- Failover: a policy row names the source its state stands for, in the table and
  in the hands of whoever has read it (`RowsSound`), although the rows are
  overwritten blindly. For the earned return, `InStep`: as long as no manager
  interferes, a cycle checks the primary before it reconciles, so the counters of
  the policy (`Backed`) are those of the checks themselves.
- Overrides: the heart is order. Events leave the queue from its old end and in
  convex parts, so that everything in the queue is newer than what is sent, what
  is late and what is stored (`InOrder`); each event that must be unique is
  (`NoRepeat`), because the page forgets nothing it has played (`Playlist`). From
  this follows that the server, which takes an event for repeated by looking at
  the latest it has stored, never drops one it has not seen (`AllTaken`), which is
  what `NothingLost` needs. `TrueProofKept` needs that a part found bad contains
  an event with a reason of its own (`Checked`), that such a reason lasts
  (`Lapsed`: it was there when the event happened, or the event has aged, or the
  area has changed its channel since the override began, even if it changes back),
  and that an event knows whether its override was still active (`EventSound`,
  `AreasSound`). `CompletedIsDelivered` counts players by their completions, one
  of each.

Only model-checked: liveness (`EndToEnd`,
`CommandsSettle`, `OfflineIsReported`, `Escalates`, `OverrideEnds`,
`PrimaryReturns`, `BackupTakesOver`, `RevokedCloses`, `RevokedGoesOffAir`), which is
beyond the prover under fairness, and that a refused cancellation would keep its
credit (`CancellationReleases`), which is false. Every safety property of every run that
passes is a theorem.

## Findings

`production_orders_cancelled` ends in a violation, where the documentation says
more than the code does; the quotation is in `PROJECT.json`: a paid
add-on that is authorised between a cancellation's read and its commit leaves the
purchased credit reserved by the cancelled order.

Other behaviours met while modelling, which the models contain and no property
denies:

- `claimJobs` increments `attempts` without looking at `maxAttempts`: after a crash
  in the last attempt there is one more.
- The re-read of a claimed row (`lib/job-notification-service.js:97`) is by id only:
  a worker slower than its lease gets the token of the worker that reclaimed it.
- A listener lease claimed by a request in progress may be created for a player
  that was disabled meanwhile; it ends with its lease time.
- A webhook delivery writes the connection's status by id, over REVOKED or
  DISCONNECTED (`lib/outgoing-webhook-service.js:125`).
- A reconciliation of the failover policy overwrites a manager's override that was
  committed after its read.
- Two studio requests that pass the version check together: the later update wins,
  and a closed studio may be reopened (`lost` in `BrowserStudio`).
- Two enrolments in progress with one code both succeed, and the second session
  replaces the first; a heartbeat or enrolment in progress writes ONLINE over
  DISABLED, so staff see a retired player as online although its session is gone.
- A command created after its player was retired is cancelled by nobody and only
  expires.
- Two overlapping handoffs of one final master each create a promo asset.
- The scan and the recovery update an incident by id; a proof in progress may move
  `lastHeartbeatAt` backwards.
- A proof of play that arrives before the next heartbeat hides the recovery: the
  heartbeat finds the player online and resolves nothing, so that the incident
  stays until staff close it, although
  `docs/phase-11a-player-health-incidents.md:11` promises automatic resolution.
- While other areas of an override are outstanding, a player that has delivered it
  goes back to the normal schedule (`lib/corrections-delivery-service.js:203`), but
  the completions it then reports fall within the override and are refused
  (`app/api/player/proof-of-play/route.js:189`).
- The proof of a complete play that was true and in time is refused, and set aside for
  good, when it arrives over 30 days late or after the area got another channel
  (`app/api/player/proof-of-play/route.js:186` and `:203`): the play never counts.
- An interruption caused by the expiry of an override is always refused: the time
  check (line 184) does not have the 15 seconds the check of ended overrides
  allows (line 136).
- `app/player/page.js:490` tells the listener that failed audio is retried; it is
  remembered as played, and the server counts a failed intent as settled.

## Not modelled, and the plan

Left out for good: presentation, reports, storage and ffmpeg, cryptography, and
editing that is one guarded request over one row. That is most of the repository
by lines: pages, forms, validation and reports over the same tables. `PROJECT.json`
lists every part with its reason.

What would come next:

1. `StreamSourceHealth` and the recovery actions on incidents, as an instance of
   the pattern of `PlayerHealth`.
2. Requests and rehabilitation items of private facilities beside
   `InsideOverride`'s overrides, and the network programming with its fallback.
3. The creation of studio sessions with their one-open-session check, and
   `BrowserStudio`'s source inside `LiveFailover`.
4. The playout resolver as operators, checked against a reference definition over
   all instants of small schedules.
