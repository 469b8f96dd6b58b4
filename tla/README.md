# Verification of the AI Marketing Platform

TLA+ specifications of the concurrent and failure-prone parts of this repository, checked with TLC on small
instances and, where marked, proved with TLAPS for every value of the constants. Paths are relative to
`src/apps/api/src/` unless they start with `docs/` or `apps/`.

## 1. The system

A NestJS API (`apps/api`), a worker process (`apps/worker`) and a React client (`apps/web`) over MongoDB, Redis and
BullMQ. Three facts shape everything that is hard in it:

- A MongoDB transaction and a BullMQ `queue.add` never commit together. Almost every operation is "commit, then
  enqueue" or "claim, call a provider, mark".
- BullMQ delivers at least once. A job whose lock is not renewed is found stalled and given to a second worker
  while the first may still run; a job that throws is retried until its attempts are used up; a `jobId` that is
  still retained is ignored by `add`.
- Idempotency is by unique index: a duplicate key means "somebody has done this", whether or not they finished.

| Component | State | Operations | Interacts with | What makes it correct |
|---|---|---|---|---|
| Event delivery (`events/`) | outbox rows, jobs of `domain-events`, inbox rows, failure rows | append, claim, publish, mark processed or failed, consume, replay | every domain (append), activity timeline, notifications | exclusive claims; nothing recorded as handled is handled again; nothing lost |
| Sagas (`modules/sagas`) | one versioned document per saga, delayed jobs | start, advance, signal, cancel, retry, resume | outbox (commands), remote participants, an operator | steps in order, compensation backwards, terminal states final, no wait without a job |
| Campaigns (`modules/campaigns`) | run, deliveries, batch jobs | schedule, pause, resume, cancel, deliver | consent, providers, workflows | one message per recipient; status agrees with the provider; everybody reached |
| Notifications (`modules/notifications`) | delivery requests, jobs, Redis rate counters | reserve, claim, defer, send, fall back, digest | event handler, providers | one message per request; settled requests stay so; no request is left without a job |
| Billing (`modules/billing`) | subscription (versioned), usage rows, webhook rows | start, change plan, cancel, apply event, record usage | provider, outbox | legal transitions; the provider's subscription is the local one; usage within the limit; each webhook applied once |
| Workflows (`modules/workflows`) | run, node history, Redis concurrency counter | trigger, step, branch, pause, resume, cancel, recover | outbox, campaigns, schedulers | a run is not stranded; slots bounded; a halted run stops; loops end |
| Data transfer (`modules/data-transfer`, `apps/worker`) | transfer documents, row receipts, execution guard | create, configure, start, cancel; import (or dry run) and export row by row | files, all domains | closed transfers stay closed; the report is what was written; cancel stops |
| Files (`modules/files`) | file rows, stored objects | upload, complete, scan, remove, restore, clean up | object storage, data transfer, knowledge base | an active file has its object |
| Worker application (`apps/worker`) | Redis locks and counters, execution rows | contact import; generic processors | shares queues with the API | does what its contract says of the jobs it takes |
| Appointments (`modules/appointments`, `modules/scheduling`) | appointment rows, Redis lock per member of staff, reminder jobs | create, reschedule, cancel; set an availability rule | workflows, outbox, `scheduling` queue | no double booking; inside working hours; each booking followed up; one event per change |
| Compliance (`modules/compliance`) | deletion stages, legal holds | stage and purge | all domains | no deletion under a hold |
| Knowledge base, AI gateway, agents, integrations | documents, caches, remote resources | ingestion, retrieval, routing, sync | remote models and APIs | mostly data transformation and I/O |
| Auth, permissions, CRM records | single documents | synchronous requests | everything | guards and optimistic versions |

Hard behaviour, in the order of its importance here: crashes between two stores, two workers on one job, claims
that are taken and not released, values read before an `await` and used after it, delayed jobs that outlive the
state they were added for, attempt counters kept in several places, and operators or administrators acting in the
middle of all that. `PROJECT.json` lists each hazard at its line.

## 2. Modules

| Module | Models | Kind |
|---|---|---|
| `DeliveryPromise` | what the event pipeline promises: an event is delivered only under a hold, and a delivery is taken back only by a holder that did not hear of it | abstract specification |
| `EventDelivery` | `outbox.service.ts`, `outbox.processor.ts`, `inbox.service.ts`, the two steps of the event handler, the queue | detailed specification, shown to implement `DeliveryPromise` |
| `EventDeliveryProofs` | | inductive invariant and seven theorems |
| `Saga` | `saga.service.ts`, `saga.repository.ts`, `saga-step-executor.service.ts`, the queue, participants and operator | detailed specification |
| `SagaProofs` | | inductive invariant and four theorems |
| `CampaignDelivery` | `campaign.service.ts` (schedule, commands), `campaign-delivery.processor.ts`, the queue | detailed specification |
| `CampaignDeliveryProofs` | | inductive invariant and two theorems |
| `NotificationDelivery` | `notification-orchestrator.service.ts` (reserve, enqueue), `notification-delivery.processor.ts`, `notification.repository.ts`, the queue | detailed specification |
| `NotificationDeliveryProofs` | | inductive invariants and three theorems |
| `Billing` | `billing.service.ts`, `billing-webhook.service.ts`, `billing.repository.ts`, the state machine, the payment provider as it is called | detailed specification |
| `BillingProofs` | | inductive invariants and five theorems |
| `WorkflowGraph` | the graph of a draft, the node handlers as far as they choose an edge, `WorkflowProcessor.next` | operators |
| `WorkflowValidator` | `workflow-graph-validator.service.ts`; extends `WorkflowGraph` | component |
| `WorkflowRun` | `workflow.service.ts` (trigger, commands, recover, acquire), `workflow.processor.ts`, the queue; extends `WorkflowValidator` | detailed specification |
| `WorkflowRunProofs` | | inductive invariant and seven theorems about `WorkflowRun` and `WorkflowValidator` |
| `Files` | `files.service.ts`, `file-processing.processor.ts`, `orphan-cleanup.processor.ts` for one file | component |
| `DataTransfer` | `data-transfer.service.ts`, the two processors, the contact import and the execution guard of the worker; extends `Files`, whose steps interleave with its own | composition |
| `DataTransferProofs` | | inductive invariants and five theorems about `DataTransfer` and `Files` |
| `Availability` | `availability-policy.ts`, `time.ts`: the wall clock and the check of a requested time | operators |
| `Appointments` | `appointments.service.ts` and its repository, the scheduling lock, the reminder job, the transaction; extends `Availability` | detailed specification |
| `AppointmentsProofs` | | inductive invariants and four theorems |
| `MCEventDelivery`, `MCSaga`, `MCCampaignDelivery`, `MCNotificationDelivery`, `MCBilling`, `MCWorkflowRun`, `MCAppointments` | | instances for TLC (`DataTransfer` needs none) |

### EventDelivery

State: `outbox`/`attempts` are the rows of `outbox_events`; `pubStep`, `pubEvent`, `pubAttempt` the program counter and
locals of each slot of the `outbox-publish` worker; `job`, `made`, `stalls`, `owner` the BullMQ job with
`jobId = eventId`; `inbox` and `failures` the rows of the two other collections; `conStep`, `conEvent` each slot of
the `domain-events` worker; `activity` and `notice` the effects of the handler. `late` is an update of a `Promise.all`
that its other call has outrun: it lands at any time, or finds the row gone. `interrupted` (a claim on the event was left
without a release) and `overtaken` (it was replayed under a publisher that had
not heard it was processed) are history.

Each database or queue call is one action, with one more for its failure: `Append`, `Claim`, `QueueAdd`,
`QueueAddThrows`, `MarkProcessed`, `MarkProcessedThrows`, `MarkFailed`, `PublisherAborts`, `Replay`; `ClaimInbox`,
`Duplicate`, `Project`, `ReserveNotice`, `EnqueueNotice`, `HandlerThrows`, `FinishInbox`, `RecordFailure`,
`ReleaseInbox` and their failures; and for BullMQ `TakeJob`, `JobDone`, `JobThrew`, `Stall`, `FalseStall`, `ReapJob`.
A call that throws may have had its effect: `MarkProcessedThrows` leaves the row "publishing" or "processed", and
`HandlerUnheard` has the handler's call, or the update to "processed" after it, done when the catch block is entered.
The catch block of `InboxService.consume` issues its update and insert with `Promise.all`; they are one action, and
`RecordFailureThrows` allows each half of it alone, the update also later (`LateUpdate`).

So an event may be handled and its row marked failed and deleted by the consumer that did not hear of the first; then the
next attempt handles it again. That is delivery at least once. The properties say that it is the only way:
`ProcessedIsFinal` and the promise except an event whose consumer is about to do that (`Doubted`), and
`FailureMarksOwnClaim` lets `failed()` overwrite the "publishing" or the "processed" of its own claim. An administrator who
replays a row between its update to "processed" and the `failed()` of a publisher that did not hear of it
makes room for a second claim under the first: `overtaken` marks such an event.

### Saga

State: `saga` is the document; `worker` the program counter of each worker inside `advance`; `jobs`, `timer` and `owed`
the jobs that may run, the delayed job of the current wait, and the enqueues the API still owes; `sent` and `done` the
commands in the outbox and those performed. The version compare-and-set of `SagaRepository.transition` is the flag
`fresh`: an actor's copy is fresh until another actor's transition. `TimeoutPasses` and `WaitEnds` are the clock.
Two details of the code are kept on purpose: `return this.waitForExternal(...)` inside the `try` of `advance` is not
awaited, so its conflict is not caught (`Conflict`); and the attempts of a compensation are incremented under a nested
key and read under a dotted one, so they always read as 1 (`SignalUndoFailed`). A definition is a number of steps
and the set of those that have a compensation; all nine definitions of `saga-definitions.ts` have that shape.

### CampaignDelivery

State: `run`, `delivery` and `ahead` (quiet hours) are the rows; `unqueued` the next batch `schedule` has to enqueue;
`job`, `made`, `owner` the queue; `worker` the program counter, job and position of each worker; `sends` counts what
the provider accepted. `OtherWorker` is the worker application, which serves a queue of the same name and fails a job
it cannot parse for good. `Postpone` re-adds a delivery under a job of its own, which inherits five attempts from
`queues/queues.module.ts`. `Send` covers the circuit breaker in front of the provider: a refusal may hide an
accepted message.

### NotificationDelivery

State: `status`, `due` (deliverAt) and `kind` are a request row; each request has a second identifier for the in-app
request that stands in for it. `owed` is what the orchestrator has reserved and not enqueued; `job`, `made`, `owner`
the queue, with one job for the request and one for each deferral; `worker` the program counter, the job, the
`attemptsMade` it read, the job it is about to add, and the list of digests its tick is working on; `sent` what the
provider accepted. `late` holds updates of a `Promise.all` that was rejected by its other call: they may land at any
time, or never. `errors` (accepted, not recorded) and `broken` (another fault) are history.

The processor claims with a filter and then writes without one, and it decides from `attemptsMade >= 5` whether a
failure is terminal. The orchestrator's jobs have six attempts; digest, rate-limited and fallback jobs inherit five.
So the last failure of such a job is not terminal: the request is left "queued" without a job, and without a
fallback. No document of the repository says otherwise, so the properties name this case (`FailedOut`) as a cause.

### Billing

State: `sub` is the subscription document of a workspace, `customer` and `remote` what the payment provider keeps, one
subscription for each idempotency key; `kind`, `hook` and `acked` the provider's events, the webhook rows and the
answers it has had; `usage` and `over` the metered records and whether the period has ended. `req` holds, for each
concurrent API request, where it is between two of its calls, the document it has read and what it is about to write.
Every command reads, calls the provider, and then writes under the version it read; `PersistConflict`,
`PersistUnknown` (the commit happened, its answer was lost, and the transaction manager runs it again) and `Crash`
are the ways in which the second half fails. `applied`, `broken` and `overlapped` (a recording of usage was let in while
another had been and had not added its record) are history.

### WorkflowGraph, WorkflowValidator and WorkflowRun

`WorkflowGraph` is pure: `Answer`, `Bump` and `Following` are the handlers and `next`. `WorkflowValidator` walks the
draft as `findCycles` does. That function calls itself; here the calls that have not returned are a stack
(`walk.open`: the node and how many of the draft's edges it has gone over), and the next start, the next edge of the
call on top and a return are the steps. The code does all of them in one go: nothing but the verdict (`Accepted`)
depends on them, and no step of a run comes before it. `visiting` is the nodes of the stack, `visited`, which all
starts share, is `walk.left`. The other checks of the validator are predicates of the draft. `WorkflowRun` has the row
of one run (`run`, `counters`), the bag of jobs the queue holds (`waiting`), the Redis counter (`slots`), and for each
worker the place in `process()`, the job and the variables it read. Each database, Redis and queue call is an action.
`setRun` never matches a cancelled or completed run, but every other write is unconditional: a paused run is set
running, and two branches write the variables each has read. `causes`, `late`, `rounds`, `overwrote` and `expired` are
history.

### Files and DataTransfer

`Files` separates the row (`file`) from the object (`stored`): every action changes at most one of them. The cleanup
lists, deletes and marks in three steps. `complete` reads the row once (`CompleteRead`) and ends at any time after,
also when another call has sent the file to the scan meanwhile: with the right checksum it adds a job whose id is
taken (`Complete`), with a wrong one it deletes the object under the scan (`CompleteWrong`), which `withdrawn` puts on
record; `cutShort` is a cleanup or scan that stopped between object and row. `DataTransfer` has for each transfer its
document, the API call under way and its job, with the row `process()` has come to and what it has counted; `written`
is what reached the collection, `active` the counter of the execution guard. A dry run (`dryRun`, which `Configure`
may change in a draft) goes the same way and counts a success for a row it does not write (`DryRow`). The write of the
status in the catch of each processor may itself be lost (`Fails`, `StopThrows`): the transfer stays "running", no
attempt can claim it, and the cause on record is "end lost". Contact imports differ from the other imports in five
ways that matter, each kept: they pass the guard, they ask for the file row and not only the object, they stop at a
signal, they write their end without a filter, and they have a second stall. An import takes no usage reference on its
file, so every step of `Files` may come between two of its own.

### Availability and Appointments

`Availability` is pure: `zonedParts` is the wall clock of a timezone whose clocks change once. Instants are finer than the
minutes it returns, since `parseInstant` takes seconds and milliseconds, which it drops. `Time` and `DayOff` the
order in which overrides, holidays and weekdays are asked, `assertAvailable` the check of the code, which compares only
the two ends, and `AtWork` what the rule means at one instant. So an end up to a minute past closing or into a break
is accepted: `PlacedAtWork` excepts the minute in which an appointment ends, and no other.

`Appointments` has the collection (`row`), the lock of each member of staff (`lock`), and for each API request the place
it is at with its DTO and what it has read (`call`). `TakeLock` fails at once when another holds the lock; `LockExpires`
may come at any time, also inside the transaction, and the release deletes the key only if the request still owns it.
The transaction is a read of its snapshot (`Read`) and a write (`Commit`) that goes through only if neither the row's
version nor the unique key has moved since; otherwise it is run again from the reads (`Retry`), as it is after a commit
of unknown outcome that did happen (`CommitUnknown`). After the lock come the reminder's job and the workflows
(`Remind`, `Trigger`), outside the transaction. `Cancel` writes, and `Record` adds its event, with neither lock nor
transaction. `earlier` (who had a time before), `under` (the rule in force), `late` and `unguarded` (a lock that expired),
`cut` and `untold` (calls that broke off) are history. A conflict is looked for with the buffers of the new appointment
alone, so the buffers of the earlier one may be reached into; `Reaches` says it the same way. A reminder's job id is the
appointment's, so rescheduling moves no reminder; it also replaces the idempotency key and looks at no status.

## 3. Runs

| Run | Instance | Shows |
|---|---|---|
| `event_delivery` | 1 event, 2 publishers, 2 consumers, 2 attempts, quarantine at 3, 1 forgiven stall, 1 replay, 1 fault (errors and lost answers within the attempts are no faults) | the safety, action, refinement and liveness properties of the pipeline |
| `event_stuck_publishing` | 1 publisher, 1 consumer, 1 crash, fairness | violation: a committed event is never published |
| `saga_order` | 3 steps, 2 reversible, 1 worker, 1 failure signalled, fairness | compensation goes backwards; forward sagas end |
| `saga_race` | 2 steps, 2 workers, 1 operator call, 1 crash or lost enqueue | terminal states are final and mean what they say |
| `saga_late_step` | 2 steps, 1 worker, 1 operator call | violation: a late step is never compensated |
| `campaign_reach` | 3 deliveries in one batch, 1 worker, 2 attempts, fairness | everybody is reached unless the batch runs out of attempts |
| `campaign_race` | 2 deliveries, 2 workers, 1 command, 2 faults | one message per recipient; statuses agree with the provider |
| `notification` | 1 request and its fallback, 2 workers, 2 or 3 attempts, 1 deferral, 2 faults, fairness | one message; settled stays settled; no request stranded without a cause; every request settles, with the one exception |
| `billing` | 2 requests, 2 plans, 2 events, 3 usage keys, 4 calls, 1 fault | provider and subscription agree but after a conflict or fault; events once; legal moves; usage within the limit unless recordings overlap, and then by how much |
| `workflow` | 4 drafts over 4 nodes (trigger, condition, loop, delay), 2 workers, 1 slot, 2 or 1 attempts, 1 command, 1 fault | no run on a draft with a cycle without a loop; none stranded without a cause; slots, late steps and rounds bounded |
| `data_transfer` | 1 transfer of 2 rows, 1 file, capacity 1, guard limit 1, 2 attempts each, 1 removal, 2 faults | an active file has its object or it is on record who took it; closed stays closed; reports are true; no transfer stranded without a cause |
| `appointments` | 1 member of staff, 1 service with a buffer, 1 rule, 4 requested times, 2 instants to a minute, 2 keys, 2 requests at a time, 2 rows, 3 calls, 1 fault | no double booking but by an expired lock; placed within working hours but for the minute of the end and across a change of the clocks; each booking followed up and each change told |

Why the bounds suffice. Events do not share rows, jobs or claims, so one event shows all that happens to an event; two
publishers and two consumers give every race for it, and the proofs lift the result to any number. Limits keep their
order (attempts 8 < quarantine 10 in the code, 2 < 3 here), so the same branches are reachable and the same ones
unreachable: on the consuming side the quarantine at the tenth failure is out of reach of eight attempts, and so it is
here. Calls that throw, with or without their effect, are limited by the attempts alone; the one fault is a crash of
either worker, a lost lock or an error inside an error path, which meets any number of those. Three saga steps with
two reversible ones are the least that make an order of compensation visible. Three deliveries exceed the two attempts
of their batch, so the case in which a batch gives up occurs; two deliveries are enough for a worker to leave one and
be overtaken on the other. Notification requests share nothing but worker slots and the list of a tick; one request
and its fallback with two workers give each race, and its attempts keep the order of the code (terminal 5 and default
5 < orchestrator 6, here 2 and 2 < 3). Two faults allow an outcome that is not recorded and then an update that lands
late or a lost lock; the proofs of `NotifiedOnce`, `SettledStays` and `StrandedNeedsCause` cover any number.

A workspace has one subscription, so `billing` needs no more than requests that race for it: two, with a total of four
calls, let a pair of commands or webhooks interleave after a start and an upgrade; a limit of one or two with three
keys lets usage pass it. In `workflow` a trigger leads to a condition and to a loop side by side, so two branches race
for the run, its variables and its only slot; one command and one fault meet in every order. That is the first draft
of the instance. The second holds a cycle without a loop that no walk from the first node finds; it is what
`CyclesHaveLoop` is about. The third holds a cycle with a loop that the walk enters elsewhere, and is refused for it;
the fourth one that is entered at its loop, and is accepted. (Which node a walk enters at depends on the order in
which the draft lists nodes and edges, so the same cycle may be accepted or refused.) In `data_transfer` one transfer
is enough: no property relates two, transfers share only the two counters, and a crash that leaks the counter of the
guard makes the transfer's next attempt meet it at its limit. Two rows let a cancellation come before, between and
after rows, and two faults are needed for what two calls must fail for: a crash and then the guard's refusals, or a
cleanup cut short under a scan. The proofs cover any number of transfers, of which no step reads another's state but
the counters. The executions in which the worker application takes a job are not faults there but ordinary steps
(`Refuse`, `ScanTaken`): both processes serve those queues at all times.

In `appointments` locks, rules and conflicts never cross two members of staff, so one is enough; two requests race for
the lock and, after its expiry, for the collection; the third call moves, cancels or repeats a booking, or changes the
rule. Two of the four times overlap in the buffer only, one lies across the change of the clocks and one begins before
a break and ends after it; ends fall between two minutes. The proofs cover any number of everything. The instances of
`saga`, `billing`, `workflow` and `data_transfer` find what is wrong with a formula; that what they confirm does not
depend on their size is what section 4 adds, for all their safety properties.

Each property of a passing run has a mutant of the code (defined beside the definition it changes) that breaks it.

### Fairness

`EventDelivery`: the pollers fire every five seconds (`OutboxScheduler`), BullMQ workers take what waits, the stalled
check runs, and a worker that is inside a handler goes on. Nothing is assumed of `Append`, `Replay`, crashes or
`ReapJob`. `Saga`: workers and queue run and time passes; participants perform commands but need not signal; operators
do nothing. `CampaignDelivery`: the API finishes its enqueues, `deliverAt` comes, workers run. `NotificationDelivery`:
the same, and the digest tick, which `NotificationDigestScheduler` repeats every minute. `Billing`, `WorkflowRun`,
`DataTransfer` and `Appointments` state safety only: what they say of lost work is the invariant that a cause is on
record whenever nothing is left to do it (`StrandedNeedsCause`, `ReminderNeedsCause`). All fairness is weak: none of
these actions competes for its enabling condition with another actor for ever. The liveness properties are stated for
behaviours without faults (`faults > 0`, or `broken`, is one of their outcomes), because the code repairs nothing by
itself after a crash in the wrong place: the violations show exactly that.

### Findings

1. `event_stuck_publishing`: `outbox.service.ts:48` never claims a row left in "publishing", and `replay` refuses it.
2. `saga_late_step`: `saga.service.ts:281` recovers from `completedSteps` only; a step that succeeded late is left
   standing in a saga that says "cancelled".

The documents they disagree with are quoted in `PROJECT.json`.

Two more passages of `docs/decisions/ADR-006-consistency-and-domain-events.md` are not met by the code, and the
properties say what holds instead. Lines 12 and 22 require strong consistency for "usage-limit claims"; `recordUsage`
(`billing.service.ts:163`) compares and then adds, in two steps and in no transaction, so two calls that overlap are
both let in and pass the limit together. `OvershootBounded` says that without an overlap the limit holds, and that
with one it is passed by at most one record of each other request. Lines 12 and 18 require it for "appointment
conflict checks plus reservation"; the lock of `scheduling-lock.service.ts:12` expires after fifteen seconds, possibly
inside the transaction it protects, and two requests may then book overlapping times. `ClearOfEarlier` holds of all
appointments but those placed by a request that had lost its lock (`unguarded`).

Other weaknesses which no document rules out, and which the properties name as causes or exceptions:

- The lost answer of an update to "processed" makes `inbox.service.ts:44` take a handled event for failed, and the
  next attempt handles it again; of `outbox.service.ts:55` it makes the publisher mark a published row failed, which
  is then published again.
- `files.service.ts:96` deletes the object of a pending file whose scan is under way; the scan then activates the row.
- `data-transfer.processors.ts:180`, `:392` and `contact-import.processor.ts:66`: an outage that takes the write of
  the catch too leaves a transfer "running" for good, counted against the workspace.
- `time.ts:24` compares whole minutes, `parseInstant` accepts less: an appointment may end up to a minute late.
- `billing-webhook.service.ts:27`: an event whose handling broke off is acknowledged as a duplicate and never applied.

The model also shows that a redelivery is answered as a
duplicate when the row it finds is an abandoned "processing" (`inbox.service.ts:34`): that is the interruption which
`LossNeedsInterruption` names as the one cause of a lost event.

## 4. Proofs

`EventDeliveryProofs` proves `Spec => []P` for `TypeOK`, `ClaimsExclusive`, `PublishedMeansQueued` and
`LossNeedsInterruption`, the action properties `FailureMarksOwnClaim` and `ProcessedIsFinal`, and that `EventDelivery`
implements `DeliveryPromise` (every step of it is a step of the promise or a stutter), for any sets of events,
publishers and consumers, from `DeliveryAssumption` only: attempts are fewer than the failures that quarantine, and
`None` is not an event or a consumer. The properties are not inductive. What makes them so (`IInv`) is ownership: a
row belongs to exactly one publisher, which holds the row's attempt number, while it is "publishing", or "processed"
and that publisher has not heard so (`OwnClaim`), for every event not overtaken by a replay; an inbox row in
"processing" belongs to the one consumer inside the handler, which alone may find it "processed" in its catch block;
an update that has outlived its consumer finds the row as that consumer left it; and as long as nobody has abandoned a
claim (`UninterruptedInv`) that consumer also holds the lock of the job, so the failures recorded never outnumber the
attempts made and the quarantine branch, which would keep the row and turn the retry into a duplicate, is never taken.
There is one lemma per action, each with one step per conjunct.

`CampaignDeliveryProofs` proves `AtMostOneSend` and `StatusMatchesProvider` for any numbers of deliveries, batches,
workers, commands and faults. Here `IInv` says that a worker between its claim and the update that ends it is alone
on its delivery whoever holds the lock of the job, that nothing has been accepted before it calls the provider, and
that no update takes a delivery back to "queued". It does not mention the queue at all, which is the point: the
result does not depend on BullMQ's locks.

`NotificationDeliveryProofs` proves `NotifiedOnce` and `SettledStays` for any numbers of requests, workers, attempts,
deferrals and faults. `IInv` says that a claimed request has one holder and that nothing can open it behind the
holder's back, not even an update left behind by an earlier one (`HoldInv`); that what was accepted for a request that
can still be sent is covered by errors (`SentInv`); that a request whose fallback exists is over for good
(`FallbackInv`); and that without an error at most one update is on its way, for a request still "sending"
(`CleanInv`). Again the queue is not mentioned.

`StrandedNeedsCause` (theorem `StrandedHasCause`) is about the queue, and has an invariant of its own, `JInv`. It follows
each request that no fault has touched: the worker that runs a job of it holds the job's lock (`Locked`); its jobs come
one after another, its own first and then those of its deferrals, so a claim that fails is never the last hope of a
request (`Lined`); nothing is enqueued before it is reserved or released, and a tick that works on an old list finds its
job there (`Begins`); what may run has come due (`Timely`). The theorem needs that a failure is terminal before the
orchestrator's six attempts are used up (`TerminalAfter < FirstAttempts`), which `NotificationAssumption` states; that it does
not hold of the five attempts of all other jobs is why `FailedOut` is among the causes.

`AppointmentsProofs` proves `ClearOfEarlier` (theorem `NoDoubleBooking`) and `ReminderNeedsCause` (`FollowUp`) for any
staff, services, rules, times, keys, requests and faults. The first rests on the lock: among the requests inside it, one
whose lock has not expired still owns it (`GuardInv`), so that nobody but a request marked late can write beside it, and
what it found in its snapshot stays true of every row not marked unguarded until it commits (`ClearInv`). The second
(`FollowInv`) says that a request about to add the reminder carries the time of the appointment, or the appointment was
changed since, and that one about to trigger the workflows has added it; a duplicate takes the time of the row it finds,
without which a repeated call with other times would break it. The types they need (`ShapeInv`) are proved with them.

`PlacedAtWork` (`WithinHours`) needs the arithmetic of the wall clock, its division into minutes and days included. A
request that is going to write has checked the two ends against the rule it read, and that rule is the one recorded
with the row (`PlacedInv`). The lemma `Between` says what the check of two ends is worth: when the clocks are not set
back in between, two instants on one day of the wall clock have every instant between them on that day and at a minute
between theirs, whatever the length of a minute and a day; an instant in an earlier minute than the end is then before
closing and before any break the end is not past. `EveryChangeTold` (`ChangesTold`) is an equation: the version of a
row, plus one for its creation, is the number of events told, of those lost with a cancellation, and of cancellations
still about to record theirs (`ToldInv`). Both take from the assumptions that an hour or a break is a pair of times of
a day.

`SagaProofs` proves `TypeOK`, `CompletedMeansPerformed` (`CompletionIsHonest`), `TerminalIsFinal` and `UndoLastFirst`
(`CompensationIsReversed`) for a definition of any length. `IInv` rests on the version filter: as long as a worker's copy is
the current one, the document is as the worker left it (`FreshInv`), so what it goes on to write follows from what it
read; `UndoInv` says that only completed steps are undone, one at a time and backwards, and `PerformedInv` that what lies
before the current step, and before any completed one, has been performed. A lemma shows of `LastIndex`, the operator
that chooses what to undo next, that it picks the greatest element.

`BillingProofs` proves `TypeOK`, `WebhookOnce` (`EventsAppliedOnce`), `RemoteInSync` (`ProviderInSync`),
`SubscriptionMoves` (`StatusMovesLegally`) and `OvershootBounded` (`OvershootIsBounded`) for any plans, prices,
limits, requests and events. What a request carries from its read to its write follows from the document, as long as
the version is the one it read (`CarryInv`); an event is in the hands of one request, which has not counted it twice
(`HookInv`); and `SyncInv` says that the document and the requests between their call to the provider and their write
together describe what the provider has, or one of them is going to be refused.

`OvershootBounded` says that what is counted passes the limit by at most one record of each other request, the limit
being that of the subscription's plan or of a cheaper one, since it may have been let in before an upgrade and nothing
in the code makes a dearer plan allow more. It is not inductive: a request that has compared and not yet added is an
overshoot to come. `MeterInv` counts these (`Adding`): either there is room for all of them, each at its largest, or
the one let in last had seen what had been added by then, and there is room for its own record and for the others. As
long as none was let in beside another (`overlapped`), at most one is adding, and what it saw is still all there is
(`ApartInv`). The usage is a sum over the keys, which the model writes with the fold of the community modules and the
proof needs to add one record to. The lemmas in the first part of the module show, without induction on a recursive
function, that the fold is a cardinality: of the set of all units of all counted records (`TotalIsUnits`), to which a
record adds as many units as it has (`UnitsAdd`). That a fold over a finite set has a value at all is shown from a
smallest set for which it had none (`SmallestSubset`). The keys under which usage is recorded are assumed to be
finitely many and at least one, so that there is a largest record; each run of TLC evaluates that assumption.

`DataTransferProofs` proves `ActiveHasObject` of `Files`, and `StrandedNeedsCause`, `LateRowsBounded`, `ReportTruthful` and
`ClosedStays` of `DataTransfer`, for any transfers, rows, limits and attempts. No limit of a workspace occurs in the argument,
so it does not matter that they are passed by check-then-act. Each step is one of a single transfer or of the file: where
the job of a transfer is says what has become of the transfer, and what the job has counted agrees with what it wrote. A
file in use has been sent to the scan, and a scan that has read its object can only lose it to a cleanup still under way or
cut short, to its own rejection, or to a `complete` with a wrong checksum (`FilesInv`). The counts of a dry run are kept
apart (`Tallies`): it has written nothing at all, because a transfer is one from its start to its end.

`WorkflowRunProofs` proves `TypeOK`, `SlotsBounded` (`SlotsSuffice`), `LateStepsBounded` (`ClosedRunWindsDown`),
`LoopBounded` (`LoopsEnd`), `StrandedNeedsCause` (`StrandedHasCause`) and `CyclesHaveLoop` (`RunsHaveLoops`) for any
graph, workers, limits and retry policies. The counter counts at least those who have incremented it and live, crashes
only making it larger (`SlotsInv`); a step may begin late only by a worker that had read the run while it was open,
and each does so once (`LateInv`); a loop counter that no branch has written back is ahead of the rounds it counts
(`RoundsInv`); and an open run has a job at work, in the queue or owed, or a cause on record (`CarriedInv`). The
workers are assumed finite (each processor of the repository has a fixed concurrency), which is what makes their
number meaningful; the lemmas about bags say what taking and queueing a job do.

`CyclesHaveLoop` is a property of the validator: of a draft it accepts, no set of nodes without a loop node lets a job go
round in it for ever. The invariant of the walk (`WalkInv`) says that the open calls are a path (`Stacked`); that, while no
cycle is on record, every edge already followed leads to a node left, to a loop, or to the call above (`EdgesSettle`); and
hence that no set of nodes left is a round (`LeftEnds`). A return keeps this: the edges of the node that is left lead
to nodes left before it or to loops, so a round that holds it would need an edge back to it, which no node left before
it has. After the last start every node is left. The converse needs the stack alone: a node a draft is refused for is
on a cycle, though not always on one without a loop (`CyclesReal`, theorem `RefusedRoundsReal`). `PublishedInv` carries the
verdict over to the runs: before a trigger there is no job, and a trigger needs an accepted draft.

Every inductive invariant named here was checked by TLC on the instance of its run before it was proved.

Only model-checked is liveness (`PendingSettles`, `ForwardEnds`, `RecipientsReached`, `RequestsSettle`), which TLAPS does not
reach under fairness: each stays a property of a run. Every safety property of every passing run is a theorem.

## 5. Abstractions

- A call that throws, to a database, a queue or a provider, may have had its effect. Where the code goes on after it,
  in a catch block or with the next job, an action says so: `MarkProcessedThrows`, `HandlerUnheard`,
  `ClaimInboxUnheard`, `QueueAddThrows` of the event pipeline, `MarkSentThrows` of campaigns, the rejected
  `Promise.all` of notifications, `CompleteThrows` and `PersistUnknown` of billing, `CommitUnknown` of appointments,
  `ScanUnheard`, `WriteTorn` and `Fails`. Where the code only gives up, a call done and not heard of is the call
  followed by the failure of the next one, or by a crash.
- Dates, backoff and delays are abstracted to whether an instant has passed. There is one clock.
- A handler's notification has one recipient and one channel; `NotificationDelivery` takes up from the reservation.
- The rate limit of notifications refuses or allows at any time, at most `MaxDeferrals` times per request; its Redis
  counter and its minute are left out. Each deferral falls into a later minute, so its job id is new.
- The repeatable job of the digest tick is not modelled as a job: a tick may begin whenever a digest is due.
- Rows outlive the run: the TTL indexes (30 days for processed outbox rows, 90 for processed inbox rows) are left
  out, as is the retention of failed campaign jobs (5,000).
- An API call of the saga controller reads and transitions in one action: a conflict between the two answers 409
  and changes nothing.
- Participants of a saga are external: the commands have no handlers in the repository. A participant may perform
  any command sent, and signal at any time after it.
- The variant of a campaign delivery exists in the version its run is bound to.
- The payment provider is modelled from the calls made to it: it keeps one subscription per idempotency key, refuses
  to change one that has ended, and repeats an event until it has a 2xx.
- The period of a subscription is over or not. Nothing in the code moves it on, so usage after its end counts for
  nothing, as in the code.
- A workflow's delays are dropped: a delayed job is one no worker has taken yet. Node handlers have no effect but
  the loop counter and the edge they choose. Job ids hold the time of the enqueue, so two enqueues never collide.
- Of a file, the usage references, extraction and presigned addresses are left out; of the two dates of a file, whether
  they have passed.
- Row receipts are not kept: a transfer is claimed once, so no second pass over its rows ever asks for one. Rows that
  are skipped and rows in error are counted together. The per-transfer lock and the "done" key of the execution guard are
  left out: the lock has expired before a stalled job comes back (lock duration and lock are both twice the job
  timeout), and the claim of the transfer is what decides.
- Notice and horizon of an availability rule, as the checks of the DTO, may refuse any request. The unique key and
  the version are the only write conflicts of two transactions; two inserts with different keys do not conflict.
- Nothing in the repository consumes the queue `scheduling`, so a reminder's job stays where it is.
- Taking a job and the first Redis or database call of its processor are one step in `DataTransfer`.

## 6. Not modelled

The components listed "not_modelled" in `PROJECT.json`, each with its reason. The repository has about a thousand source
files of its own; most of them are controllers, DTOs, schemas, adapters of remote APIs, text and vector processing and
a React client, which have no protocol of their own to check. What is modelled is the part in which several actors, or
several stores, have to agree.

The rest of the plan:

1. Proofs: abstract specifications of a saga (forward, then backwards) and of a notification (told once, then settled),
   and that the detailed ones implement them, as `EventDelivery` implements `DeliveryPromise`.
2. The stages of the data life cycle against legal holds (`data-lifecycle.service.ts`).
3. The conversation inbox, whose outbound messages follow the claim, send and mark pattern of campaigns.
