--------------------------- MODULE EventDelivery ---------------------------
(***************************************************************************)
(* The transactional event pipeline of apps/api/src/events: the outbox     *)
(* table, the pollers that publish its rows to the BullMQ queue            *)
(* "domain-events", the consumers of that queue, the inbox claim each      *)
(* consumer takes before it runs its handler, and the administrator's      *)
(* replay.  MongoDB and Redis are separate stores: every database call and *)
(* every queue call is an action of its own, so workers interleave between *)
(* any two of them and may crash there.                                    *)
(*                                                                         *)
(* Dates are abstracted: a row whose availableAt lies ahead is one the     *)
(* pollers have not taken yet.  A call that throws may have taken effect   *)
(* all the same, its answer lost on the way; of two calls made in parallel *)
(* one may still be under way when the other throws.                       *)
(***************************************************************************)
EXTENDS Naturals

CONSTANTS
  Events,           \* event ids (an event id fixes its type and payload)
  Publishers,       \* concurrent slots of the outbox-publish worker
  Consumers,        \* concurrent slots of the domain-events worker
  None,             \* no event, no consumer
  QuarantineAfter,  \* failures that quarantine a row (10 in the code)
  JobAttempts,      \* attempts of a domain-events job (8 in the code)
  MaxStalls,        \* stalls BullMQ forgives before it fails a job (1)
  MaxReplays,       \* bound: replays an administrator asks for
  MaxFaults         \* bound: crashes and errors inside an error path

ASSUME DeliveryAssumption ==
  /\ None \notin Events \union Consumers
  /\ QuarantineAfter \in Nat \ {0}
  /\ JobAttempts \in Nat \ {0}
  /\ JobAttempts < QuarantineAfter
  /\ MaxStalls \in Nat
  /\ MaxReplays \in Nat
  /\ MaxFaults \in Nat

VARIABLES
  outbox,      \* outbox_events.status of each event
  attempts,    \* outbox_events.attempts
  pubStep,     \* where each publisher is in its loop body
  pubEvent,    \* the event it claimed
  pubAttempt,  \* event.attempts as its claim returned it
  job,         \* state of the job whose jobId is the event id
  made,        \* attempts that job has used up
  stalls,      \* times that job was found stalled
  owner,       \* the consumer that holds the job's lock
  inbox,       \* inbox_events.status of (domain-event:<type>, event)
  failures,    \* rows of event_processing_failures of the event
  conStep,     \* where each consumer is in InboxService.consume
  conEvent,    \* the event of the job it runs
  activity,    \* is the event's row in the activity timeline?
  notice,      \* the notification the event asks for
  replays,     \* replays so far
  faults,      \* faults so far
  interrupted, \* history: a claim on the event was left without a release
  overtaken,   \* history: replayed under a publisher that had not heard it was processed
  late         \* an update of the inbox row to "failed" outlives the consume() that made it

outboxVars   == <<outbox, attempts>>
pubVars      == <<pubStep, pubEvent, pubAttempt>>
jobVars      == <<job, made, stalls, owner>>
inboxVars    == <<inbox, failures>>
conVars      == <<conStep, conEvent>>
effectVars   == <<activity, notice>>
budgetVars   == <<replays, faults, overtaken>>
leftVars     == <<interrupted, late>>
publishSide  == <<outboxVars, pubVars>>
consumeSide  == <<inboxVars, conVars, effectVars, leftVars>>
vars == <<outboxVars, pubVars, jobVars, inboxVars, conVars, effectVars, budgetVars, leftVars>>

OutboxStatus == {"absent", "pending", "publishing", "processed", "failed", "quarantined"}
InboxStatus  == {"absent", "processing", "processed", "failed"}
JobState     == {"absent", "waiting", "active", "completed", "failed"}
PubStep      == {"idle", "claimed", "queued", "failing"}
ConStep      == {"idle", "taken", "claimed", "projected", "reserved", "notified", "threw", "recorded"}
NoticeState  == {"none", "reserved", "queued"}

Init ==
  /\ outbox = [e \in Events |-> "absent"]
  /\ attempts = [e \in Events |-> 0]
  /\ pubStep = [p \in Publishers |-> "idle"]
  /\ pubEvent = [p \in Publishers |-> None]
  /\ pubAttempt = [p \in Publishers |-> 0]
  /\ job = [e \in Events |-> "absent"]
  /\ made = [e \in Events |-> 0]
  /\ stalls = [e \in Events |-> 0]
  /\ owner = [e \in Events |-> None]
  /\ inbox = [e \in Events |-> "absent"]
  /\ failures = [e \in Events |-> 0]
  /\ conStep = [c \in Consumers |-> "idle"]
  /\ conEvent = [c \in Consumers |-> None]
  /\ activity = [e \in Events |-> FALSE]
  /\ notice = [e \in Events |-> "none"]
  /\ replays = 0
  /\ faults = 0
  /\ interrupted = [e \in Events |-> FALSE]
  /\ overtaken = [e \in Events |-> FALSE]
  /\ late = [e \in Events |-> FALSE]

Fault == faults < MaxFaults /\ faults' = faults + 1 /\ UNCHANGED <<replays, overtaken>>

----------------------------------------------------------------------------
(* The publishing side: OutboxService and OutboxProcessor.process *)

\* OutboxService.append, in the transaction of the business change: both commit or neither does.
Append(e) ==
  /\ outbox[e] = "absent"
  /\ outbox' = [outbox EXCEPT ![e] = "pending"]
  /\ UNCHANGED <<attempts, pubVars, jobVars, consumeSide, budgetVars>>

\* Mutants of Claimable: rows stuck in "publishing" are taken too; failed rows are forgotten.
ClaimableStuck(e) == outbox[e] \in {"pending", "failed", "publishing"}
ClaimableOnce(e)  == outbox[e] = "pending"

\* OutboxService.claim: one findOneAndUpdate on a pending or failed row that is due.
Claimable(e) == outbox[e] \in {"pending", "failed"}

Claim(p, e) ==
  /\ pubStep[p] = "idle"
  /\ Claimable(e)
  /\ outbox' = [outbox EXCEPT ![e] = "publishing"]
  /\ attempts' = [attempts EXCEPT ![e] = @ + 1]
  /\ pubStep' = [pubStep EXCEPT ![p] = "claimed"]
  /\ pubEvent' = [pubEvent EXCEPT ![p] = e]
  /\ pubAttempt' = [pubAttempt EXCEPT ![p] = attempts[e] + 1]
  /\ UNCHANGED <<jobVars, consumeSide, budgetVars>>

PublisherGoes(p, from, to) ==
  /\ pubStep[p] = from
  /\ pubStep' = [pubStep EXCEPT ![p] = to]
  /\ pubEvent' = IF to = "idle" THEN [pubEvent EXCEPT ![p] = None] ELSE pubEvent
  /\ pubAttempt' = IF to = "idle" THEN [pubAttempt EXCEPT ![p] = 0] ELSE pubAttempt

\* Queue.add with jobId = eventId: the id of a job that is still kept is ignored.
AddJob(e) ==
  IF job[e] = "absent"
  THEN /\ job' = [job EXCEPT ![e] = "waiting"]
       /\ made' = [made EXCEPT ![e] = 0]
       /\ stalls' = [stalls EXCEPT ![e] = 0]
       /\ UNCHANGED owner
  ELSE UNCHANGED jobVars

QueueAdd(p) ==
  /\ PublisherGoes(p, "claimed", "queued")
  /\ AddJob(pubEvent[p])
  /\ UNCHANGED <<outboxVars, consumeSide, budgetVars>>

QueueAddThrows(p) ==
  /\ PublisherGoes(p, "claimed", "failing")
  /\ AddJob(pubEvent[p]) \/ UNCHANGED jobVars
  /\ UNCHANGED <<outboxVars, consumeSide, budgetVars>>

\* Mutant of MarkProcessed: the row is marked before the job is added.
MarkProcessedFirst(p) ==
  LET e == pubEvent[p] IN
  /\ PublisherGoes(p, "claimed", "idle")
  /\ outbox' = IF outbox[e] = "publishing" THEN [outbox EXCEPT ![e] = "processed"] ELSE outbox
  /\ UNCHANGED <<attempts, jobVars, consumeSide, budgetVars>>

\* OutboxService.processed: filtered on the row still being "publishing".
MarkProcessed(p) ==
  LET e == pubEvent[p] IN
  /\ PublisherGoes(p, "queued", "idle")
  /\ outbox' = IF outbox[e] = "publishing" THEN [outbox EXCEPT ![e] = "processed"] ELSE outbox
  /\ UNCHANGED <<attempts, jobVars, consumeSide, budgetVars>>

\* processed() throws, before the update took effect or after it.
MarkProcessedThrows(p) ==
  LET e == pubEvent[p] IN
  /\ PublisherGoes(p, "queued", "failing")
  /\ \/ outbox[e] = "publishing" /\ outbox' = [outbox EXCEPT ![e] = "processed"]
     \/ UNCHANGED outbox
  /\ UNCHANGED <<attempts, jobVars, consumeSide, budgetVars>>

\* OutboxService.failed: its filter names the event only, not the status.
MarkFailed(p) ==
  /\ PublisherGoes(p, "failing", "idle")
  /\ outbox' = [outbox EXCEPT ![pubEvent[p]] =
                  IF pubAttempt[p] >= QuarantineAfter THEN "quarantined" ELSE "failed"]
  /\ UNCHANGED <<attempts, jobVars, consumeSide, budgetVars>>

\* The worker dies anywhere in the loop body, or the answer of claim() is lost, or failed() throws
\* without effect; each ends the poll job.  (A failed() whose answer is lost is MarkFailed.)
PublisherAborts(p) ==
  /\ Fault
  /\ pubStep[p] # "idle"
  /\ PublisherGoes(p, pubStep[p], "idle")
  /\ UNCHANGED <<outboxVars, jobVars, consumeSide>>

\* A replay of a processed row whose publisher has not heard so and is about to call failed().
Overtakes(e) ==
  outbox[e] = "processed" /\ \E p \in Publishers : pubStep[p] = "failing" /\ pubEvent[p] = e

\* Mutant of Replay: no filter on the row's status.
ReplayAny(e) ==
  /\ replays < MaxReplays
  /\ outbox[e] # "absent"
  /\ outbox' = [outbox EXCEPT ![e] = "pending"]
  /\ replays' = replays + 1
  /\ overtaken' = [overtaken EXCEPT ![e] = @ \/ Overtakes(e)]
  /\ UNCHANGED <<attempts, pubVars, jobVars, consumeSide, faults>>

\* OutboxService.replay, from EventAdminController.
Replay(e) ==
  /\ replays < MaxReplays
  /\ outbox[e] \in {"processed", "quarantined", "failed"}
  /\ outbox' = [outbox EXCEPT ![e] = "pending"]
  /\ replays' = replays + 1
  /\ overtaken' = [overtaken EXCEPT ![e] = @ \/ Overtakes(e)]
  /\ UNCHANGED <<attempts, pubVars, jobVars, consumeSide, faults>>

----------------------------------------------------------------------------
(* The job queue (BullMQ) *)

TakeJob(c, e) ==
  /\ conStep[c] = "idle"
  /\ job[e] = "waiting"
  /\ job' = [job EXCEPT ![e] = "active"]
  /\ owner' = [owner EXCEPT ![e] = c]
  /\ conStep' = [conStep EXCEPT ![c] = "taken"]
  /\ conEvent' = [conEvent EXCEPT ![c] = e]
  /\ UNCHANGED <<made, stalls, publishSide, inboxVars, effectVars, budgetVars, leftVars>>

\* The processor returned; only the lock holder moves the job.
JobDone(c, e) ==
  IF owner[e] = c
  THEN /\ job' = [job EXCEPT ![e] = "completed"]
       /\ owner' = [owner EXCEPT ![e] = None]
       /\ UNCHANGED <<made, stalls>>
  ELSE UNCHANGED jobVars

\* Mutant of JobThrew: one attempt too many.
JobThrewLate(c, e) ==
  IF owner[e] = c
  THEN /\ made' = [made EXCEPT ![e] = @ + 1]
       /\ job' = [job EXCEPT ![e] = IF made[e] <= JobAttempts THEN "waiting" ELSE "failed"]
       /\ owner' = [owner EXCEPT ![e] = None]
       /\ UNCHANGED stalls
  ELSE UNCHANGED jobVars

\* The processor threw: back to the queue until the attempts are used up.
JobThrew(c, e) ==
  IF owner[e] = c
  THEN /\ made' = [made EXCEPT ![e] = @ + 1]
       /\ job' = [job EXCEPT ![e] = IF made[e] + 1 < JobAttempts THEN "waiting" ELSE "failed"]
       /\ owner' = [owner EXCEPT ![e] = None]
       /\ UNCHANGED stalls
  ELSE UNCHANGED jobVars

LoseLock(e) ==
  /\ job[e] = "active"
  /\ owner' = [owner EXCEPT ![e] = None]
  /\ IF stalls[e] < MaxStalls
     THEN /\ job' = [job EXCEPT ![e] = "waiting"]
          /\ stalls' = [stalls EXCEPT ![e] = @ + 1]
     ELSE /\ job' = [job EXCEPT ![e] = "failed"]
          /\ UNCHANGED stalls
  /\ UNCHANGED <<made, publishSide, inboxVars, conVars, effectVars>>

Alive(e) == owner[e] \in Consumers /\ conStep[owner[e]] # "idle" /\ conEvent[owner[e]] = e

\* The stalled-job check finds a job whose consumer died.
Stall(e) ==
  /\ ~Alive(e)
  /\ LoseLock(e)
  /\ UNCHANGED <<budgetVars, leftVars>>

\* It also finds one whose consumer lives but could not renew its lock in time.
FalseStall(e) ==
  /\ Fault
  /\ Alive(e)
  /\ LoseLock(e)
  /\ interrupted' = [interrupted EXCEPT ![e] = TRUE]
  /\ UNCHANGED late

\* removeOnComplete: completed jobs go after seven days, failed ones never.
ReapJob(e) ==
  /\ job[e] = "completed"
  /\ job' = [job EXCEPT ![e] = "absent"]
  /\ UNCHANGED <<made, stalls, owner, publishSide, consumeSide, budgetVars>>

----------------------------------------------------------------------------
(* The consuming side: DomainEventConsumerProcessor and InboxService.consume *)

ConsumerGoes(c, from, to) ==
  /\ conStep[c] = from
  /\ conStep' = [conStep EXCEPT ![c] = to]
  /\ conEvent' = IF to = "idle" THEN [conEvent EXCEPT ![c] = None] ELSE conEvent

\* Mutant of ClaimInbox: an upsert that takes over a finished row.
ClaimInboxUpsert(c) ==
  LET e == conEvent[c] IN
  /\ ConsumerGoes(c, "taken", "claimed")
  /\ inbox[e] # "processing"
  /\ inbox' = [inbox EXCEPT ![e] = "processing"]
  /\ UNCHANGED <<failures, jobVars, effectVars, leftVars, publishSide, budgetVars>>

\* Mutant of Duplicate: the row found is cleaned up.
DuplicateCleansUp(c) ==
  LET e == conEvent[c] IN
  /\ ConsumerGoes(c, "taken", "idle")
  /\ inbox[e] # "absent"
  /\ inbox' = [inbox EXCEPT ![e] = "absent"]
  /\ JobDone(c, e)
  /\ UNCHANGED <<failures, effectVars, leftVars, publishSide, budgetVars>>

\* The insert into inbox_events, unique on (consumerName, eventId).
ClaimInbox(c) ==
  LET e == conEvent[c] IN
  /\ ConsumerGoes(c, "taken", "claimed")
  /\ inbox[e] = "absent"
  /\ inbox' = [inbox EXCEPT ![e] = "processing"]
  /\ UNCHANGED <<failures, jobVars, effectVars, leftVars, publishSide, budgetVars>>

\* The duplicate key: {duplicate: true}, and the job completes.
Duplicate(c) ==
  LET e == conEvent[c] IN
  /\ ConsumerGoes(c, "taken", "idle")
  /\ inbox[e] # "absent"
  /\ JobDone(c, e)
  /\ UNCHANGED <<inboxVars, effectVars, leftVars, publishSide, budgetVars>>

ClaimInboxThrows(c) ==
  /\ ConsumerGoes(c, "taken", "idle")
  /\ JobThrew(c, conEvent[c])
  /\ UNCHANGED <<inboxVars, effectVars, leftVars, publishSide, budgetVars>>

\* The insert took effect before it threw: the claim is there and nobody acts on it.
ClaimInboxUnheard(c) ==
  LET e == conEvent[c] IN
  /\ Fault
  /\ ConsumerGoes(c, "taken", "idle")
  /\ inbox[e] = "absent"
  /\ inbox' = [inbox EXCEPT ![e] = "processing"]
  /\ interrupted' = [interrupted EXCEPT ![e] = TRUE]
  /\ JobThrew(c, e)
  /\ UNCHANGED <<failures, late, effectVars, publishSide>>

\* ActivityProjectionService.project: unique on sourceEventId, a second insert is swallowed.
Project(c) ==
  /\ ConsumerGoes(c, "claimed", "projected")
  /\ activity' = [activity EXCEPT ![conEvent[c]] = TRUE]
  /\ UNCHANGED <<notice, inboxVars, jobVars, leftVars, publishSide, budgetVars>>

\* NotificationOrchestrator.consume reserves the request; a duplicate is not enqueued again.
ReserveNotice(c) ==
  LET e == conEvent[c] IN
  /\ ConsumerGoes(c, "projected", IF notice[e] = "none" THEN "reserved" ELSE "notified")
  /\ notice' = [notice EXCEPT ![e] = IF @ = "none" THEN "reserved" ELSE @]
  /\ UNCHANGED <<activity, inboxVars, jobVars, leftVars, publishSide, budgetVars>>

EnqueueNotice(c) ==
  /\ ConsumerGoes(c, "reserved", "notified")
  /\ notice' = [notice EXCEPT ![conEvent[c]] = "queued"]
  /\ UNCHANGED <<activity, inboxVars, jobVars, leftVars, publishSide, budgetVars>>

\* A call of the handler, or the update that marks the row processed, throws ...
HandlerThrows(c) ==
  /\ \E from \in {"claimed", "projected", "reserved", "notified"} : ConsumerGoes(c, from, "threw")
  /\ UNCHANGED <<effectVars, inboxVars, jobVars, leftVars, publishSide, budgetVars>>

\* ... or throws having taken effect.
HandlerUnheard(c) ==
  LET e == conEvent[c] IN
  /\ \/ /\ ConsumerGoes(c, "claimed", "threw")
        /\ activity' = [activity EXCEPT ![e] = TRUE]
        /\ UNCHANGED <<notice, inbox>>
     \/ /\ ConsumerGoes(c, "projected", "threw")
        /\ notice[e] = "none"
        /\ notice' = [notice EXCEPT ![e] = "reserved"]
        /\ UNCHANGED <<activity, inbox>>
     \/ /\ ConsumerGoes(c, "reserved", "threw")
        /\ notice' = [notice EXCEPT ![e] = "queued"]
        /\ UNCHANGED <<activity, inbox>>
     \/ /\ ConsumerGoes(c, "notified", "threw")
        /\ inbox' = [inbox EXCEPT ![e] = "processed"]
        /\ UNCHANGED effectVars
  /\ UNCHANGED <<failures, jobVars, leftVars, publishSide, budgetVars>>

FinishInbox(c) ==
  LET e == conEvent[c] IN
  /\ ConsumerGoes(c, "notified", "idle")
  /\ inbox' = [inbox EXCEPT ![e] = "processed"]
  /\ JobDone(c, e)
  /\ UNCHANGED <<failures, effectVars, leftVars, publishSide, budgetVars>>

\* The catch block: the row is marked failed and a failure row inserted (Promise.all); the tenth
\* failure leaves the row behind, an earlier one goes on to delete it.
RecordFailure(c) ==
  LET e == conEvent[c] IN
  /\ conStep[c] = "threw"
  /\ inbox' = [inbox EXCEPT ![e] = "failed"]
  /\ failures' = [failures EXCEPT ![e] = @ + 1]
  /\ IF failures[e] + 1 >= QuarantineAfter
     THEN ConsumerGoes(c, "threw", "idle") /\ JobThrew(c, e)
     ELSE ConsumerGoes(c, "threw", "recorded") /\ UNCHANGED jobVars
  /\ UNCHANGED <<effectVars, leftVars, publishSide, budgetVars>>

\* The count, the update or the insert throws out of the catch block: each of the two writes applied
\* or not, and the update perhaps still on its way.
RecordFailureThrows(c) ==
  LET e == conEvent[c] IN
  /\ Fault
  /\ ConsumerGoes(c, "threw", "idle")
  /\ \/ inbox' = [inbox EXCEPT ![e] = "failed"] /\ UNCHANGED late
     \/ late' = [late EXCEPT ![e] = TRUE] /\ UNCHANGED inbox
     \/ UNCHANGED <<inbox, late>>
  /\ failures' = [failures EXCEPT ![e] = @ + 1] \/ UNCHANGED failures
  /\ interrupted' = [interrupted EXCEPT ![e] = TRUE]
  /\ JobThrew(c, e)
  /\ UNCHANGED <<effectVars, publishSide>>

\* The update that outlived its Promise.all reaches the row.
LateUpdate(e) ==
  /\ late[e]
  /\ late' = [late EXCEPT ![e] = FALSE]
  /\ inbox' = IF inbox[e] = "absent" THEN inbox ELSE [inbox EXCEPT ![e] = "failed"]
  /\ UNCHANGED <<failures, conVars, effectVars, interrupted, jobVars, publishSide, budgetVars>>

\* Mutant of ReleaseInbox: the row is kept, so the retry takes it for a duplicate.
ReleaseNothing(c) ==
  LET e == conEvent[c] IN
  /\ ConsumerGoes(c, "recorded", "idle")
  /\ JobThrew(c, e)
  /\ UNCHANGED <<inboxVars, effectVars, leftVars, publishSide, budgetVars>>

\* deleteOne, filtered on "failed": the next attempt may claim again.
ReleaseInbox(c) ==
  LET e == conEvent[c] IN
  /\ ConsumerGoes(c, "recorded", "idle")
  /\ inbox' = IF inbox[e] = "failed" THEN [inbox EXCEPT ![e] = "absent"] ELSE inbox
  /\ JobThrew(c, e)
  /\ UNCHANGED <<failures, effectVars, leftVars, publishSide, budgetVars>>

\* The delete throws without effect.  (One whose answer is lost is ReleaseInbox.)
ReleaseInboxThrows(c) ==
  LET e == conEvent[c] IN
  /\ Fault
  /\ ConsumerGoes(c, "recorded", "idle")
  /\ interrupted' = [interrupted EXCEPT ![e] = TRUE]
  /\ JobThrew(c, e)
  /\ UNCHANGED <<inboxVars, late, effectVars, publishSide>>

\* The consumer's process dies; the job stays active until the stalled check finds it.
ConsumerCrashes(c) ==
  /\ Fault
  /\ conStep[c] # "idle"
  /\ interrupted' = IF conStep[c] = "taken" THEN interrupted
                    ELSE [interrupted EXCEPT ![conEvent[c]] = TRUE]
  /\ ConsumerGoes(c, conStep[c], "idle")
  /\ UNCHANGED <<inboxVars, late, effectVars, jobVars, publishSide>>

----------------------------------------------------------------------------
PublisherStep(p) ==
  QueueAdd(p) \/ QueueAddThrows(p) \/ MarkProcessed(p) \/ MarkProcessedThrows(p) \/ MarkFailed(p)

ConsumerStep(c) ==
  \/ ClaimInbox(c) \/ Duplicate(c) \/ ClaimInboxThrows(c)
  \/ Project(c) \/ ReserveNotice(c) \/ EnqueueNotice(c) \/ HandlerThrows(c) \/ HandlerUnheard(c)
  \/ FinishInbox(c)
  \/ RecordFailure(c) \/ ReleaseInbox(c)

FaultStep ==
  \/ \E p \in Publishers : PublisherAborts(p)
  \/ \E c \in Consumers :
       ClaimInboxUnheard(c) \/ RecordFailureThrows(c) \/ ReleaseInboxThrows(c) \/ ConsumerCrashes(c)
  \/ \E e \in Events : FalseStall(e)

Next ==
  \/ \E e \in Events : Append(e) \/ Replay(e) \/ Stall(e) \/ ReapJob(e) \/ LateUpdate(e)
  \/ \E p \in Publishers, e \in Events : Claim(p, e)
  \/ \E c \in Consumers, e \in Events : TakeJob(c, e)
  \/ \E p \in Publishers : PublisherStep(p)
  \/ \E c \in Consumers : ConsumerStep(c)
  \/ FaultStep

Spec == Init /\ [][Next]_vars

(* The pollers fire every five seconds and BullMQ workers take whatever waits; nothing makes *)
(* anybody append, replay, crash or forget a job.                                            *)
Fairness ==
  /\ \A e \in Events : WF_vars(\E p \in Publishers : Claim(p, e))
  /\ \A e \in Events : WF_vars(\E c \in Consumers : TakeJob(c, e))
  /\ \A e \in Events : WF_vars(Stall(e))
  /\ \A p \in Publishers : WF_vars(PublisherStep(p))
  /\ \A c \in Consumers : WF_vars(ConsumerStep(c))

FairSpec == Spec /\ Fairness

----------------------------------------------------------------------------
(* Properties *)

\* Every variable has its type; no job makes more attempts than it was given.
TypeOK ==
  /\ outbox \in [Events -> OutboxStatus]
  /\ attempts \in [Events -> Nat]
  /\ pubStep \in [Publishers -> PubStep]
  /\ pubEvent \in [Publishers -> Events \union {None}]
  /\ pubAttempt \in [Publishers -> Nat]
  /\ job \in [Events -> JobState]
  /\ made \in [Events -> 0..JobAttempts]
  /\ stalls \in [Events -> 0..MaxStalls]
  /\ owner \in [Events -> Consumers \union {None}]
  /\ inbox \in [Events -> InboxStatus]
  /\ failures \in [Events -> Nat]
  /\ conStep \in [Consumers -> ConStep]
  /\ conEvent \in [Consumers -> Events \union {None}]
  /\ activity \in [Events -> BOOLEAN]
  /\ notice \in [Events -> NoticeState]
  /\ replays \in 0..MaxReplays
  /\ faults \in 0..MaxFaults
  /\ interrupted \in [Events -> BOOLEAN]
  /\ overtaken \in [Events -> BOOLEAN]
  /\ late \in [Events -> BOOLEAN]

\* The consumers between the inbox claim and its release.
Handling == {"claimed", "projected", "reserved", "notified", "threw", "recorded"}

\* Although claim, processed and failed are separate calls and a job may run twice after a stall, no
\* two consumers are inside one event's handler and no two publishers work on one row, unless the
\* row was replayed while a publisher whose processed() was applied unheard had yet to call failed().
ClaimsExclusive ==
  /\ \A p, q \in Publishers :
       pubStep[p] # "idle" /\ pubStep[q] # "idle" /\ pubEvent[p] = pubEvent[q]
         => p = q \/ overtaken[pubEvent[p]]
  /\ \A c, d \in Consumers :
       conStep[c] \in Handling /\ conStep[d] \in Handling /\ conEvent[c] = conEvent[d] => c = d

\* OutboxService.failed writes without looking at the row's status.  It overwrites nothing but what
\* its own claim left, at that claim's attempt number: the "publishing" of the claim or the
\* "processed" of an update whose answer was lost, never a newer claim, a replay or a quarantine.
\* The one way out is a replay that slips in between that update and failed().
FailureMarksOwnClaim ==
  [][\A p \in Publishers : MarkFailed(p) =>
       LET e == pubEvent[p] IN
       \/ overtaken[e]
       \/ outbox[e] \in {"publishing", "processed"} /\ pubAttempt[p] = attempts[e]]_vars

\* A row marked processed has its job in the queue, or the job came and went for good reason.
PublishedMeansQueued ==
  \A e \in Events : outbox[e] = "processed" =>
    job[e] # "absent" \/ inbox[e] = "processed" \/ interrupted[e]

\* A job completes only for a handled event, unless some consumer left its claim unreleased: the
\* failure bookkeeping, the retries and the duplicate answers together lose nothing by themselves.
LossNeedsInterruption ==
  \A e \in Events : job[e] = "completed" => inbox[e] = "processed" \/ interrupted[e]

\* The event is handled, but the consumer that handled it has not heard so and its catch block, or
\* an update the block left under way, is about to mark the row failed.
Doubted(e) == late[e] \/ \E c \in Consumers : conStep[c] = "threw" /\ conEvent[c] = e

\* A handled event stays handled: no retry, stall, redelivery or replay runs its handler again.
\* Only the lost answer of the update that recorded it can undo it: the catch block of
\* InboxService.consume takes the event for failed and hands it out once more.
HandledStays ==
  \A e \in Events : inbox[e] = "processed" =>
    /\ activity'[e] = activity[e] /\ notice'[e] = notice[e]
    /\ inbox'[e] = "processed" \/ Doubted(e)
ProcessedIsFinal == [][HandledStays]_vars

\* Somebody still has to release the claim on it.
InHand(e) ==
  \/ inbox[e] \in {"processing", "failed"}
  \/ inbox[e] = "processed" /\ Doubted(e)

\* The pipeline implements its promise.  A row marked failed is still held until it is deleted, and
\* so is a processed one while its consumer does not know it.
Promise == INSTANCE DeliveryPromise WITH
  committed <- {e \in Events : outbox[e] # "absent"},
  held      <- {e \in Events : InHand(e)},
  delivered <- {e \in Events : inbox[e] = "processed"}
KeepsPromise == Promise!Spec

\* Where an event may rest: handled, a dead letter of the queue, or quarantined.
Settled(e) == inbox[e] = "processed" \/ job[e] = "failed" \/ outbox[e] = "quarantined"

\* Unless a worker dies or an error path errs, a pending event settles, however often the queue,
\* the handler or the bookkeeping updates throw on the way.
PendingSettles ==
  \A e \in Events : outbox[e] = "pending" ~> (Settled(e) \/ faults > 0)

\* docs/architecture/event-reliability.md:4-6: a poller publishes committed rows and a crash after
\* commit leaves a pending row.  So the job of a committed event is queued in the end.
CommittedIsPublished ==
  \A e \in Events : outbox[e] = "pending" ~> (job[e] # "absent" \/ outbox[e] = "quarantined")

----------------------------------------------------------------------------
(* The inductive invariant behind the properties (proved in EventDeliveryProofs) *)

OwnClaim(p) ==
  /\ \/ outbox[pubEvent[p]] = "publishing"
     \/ outbox[pubEvent[p]] = "processed" /\ pubStep[p] = "failing"
  /\ pubAttempt[p] = attempts[pubEvent[p]]

\* The row of an event never overtaken is "publishing" under the claim of the one publisher that
\* works on it, or "processed" when that one did not hear of it.
PublisherInv ==
  /\ \A p \in Publishers : pubStep[p] # "idle" =>
       /\ pubEvent[p] \in Events
       /\ outbox[pubEvent[p]] # "absent"
       /\ overtaken[pubEvent[p]] \/ OwnClaim(p)
  /\ \A p, q \in Publishers :
       pubStep[p] # "idle" /\ pubStep[q] # "idle" /\ pubEvent[p] = pubEvent[q]
         => p = q \/ overtaken[pubEvent[p]]

\* A consumer inside the handler holds the inbox row; an update that outlived its consumer finds the
\* row as that consumer left it.
ConsumerInv ==
  /\ \A c \in Consumers :
       /\ conStep[c] # "idle" => conEvent[c] \in Events
       /\ conStep[c] \in Handling \ {"recorded", "threw"} => inbox[conEvent[c]] = "processing"
       /\ conStep[c] = "threw" => inbox[conEvent[c]] \in {"processing", "processed"}
       /\ conStep[c] \in Handling => ~late[conEvent[c]]
       /\ conStep[c] = "recorded" => inbox[conEvent[c]] = "failed"
  /\ \A c, d \in Consumers :
       conStep[c] \in Handling /\ conStep[d] \in Handling /\ conEvent[c] = conEvent[d] => c = d
  /\ \A e \in Events : late[e] => inbox[e] \in {"processing", "processed"} /\ interrupted[e]

\* A job has an owner while it is active, and attempts left while it may still run.
JobInv ==
  \A e \in Events :
    /\ (owner[e] # None) <=> (job[e] = "active")
    /\ job[e] \in {"waiting", "active"} => made[e] < JobAttempts

\* Jobs and consumers work on committed events only.
CommittedInv ==
  \A e \in Events : outbox[e] = "absent" =>
    job[e] = "absent" /\ \A c \in Consumers : conStep[c] # "idle" => conEvent[c] # e

\* Of an event nobody left half claimed: who runs its job owns it, its inbox row is somebody's, every
\* recorded failure has cost (or is about to cost) an attempt, and a completed job was handled.
Recorded(e) == \E c \in Consumers : conStep[c] = "recorded" /\ conEvent[c] = e
Handled(e) == \E c \in Consumers : conStep[c] \in Handling /\ conEvent[c] = e
Accounted(e) ==
  /\ \A c \in Consumers : conStep[c] # "idle" /\ conEvent[c] = e => owner[e] = c
  /\ inbox[e] \in {"processing", "failed"} => Handled(e)
  /\ inbox[e] # "processed" \/ Handled(e) => failures[e] <= made[e] + 1
  /\ (inbox[e] # "processed" \/ Handled(e)) /\ ~Recorded(e) => failures[e] <= made[e]
  /\ inbox[e] # "processed" /\ job[e] = "absent" => failures[e] = 0
  /\ job[e] = "completed" => inbox[e] = "processed"

UninterruptedInv == \A e \in Events : ~interrupted[e] => Accounted(e)

\* A publisher that comes back from queue.add left a job behind.
QueuedInv ==
  \A p \in Publishers : pubStep[p] = "queued" =>
    \/ job[pubEvent[p]] # "absent"
    \/ inbox[pubEvent[p]] = "processed"
    \/ interrupted[pubEvent[p]]

IInv ==
  /\ TypeOK /\ PublisherInv /\ ConsumerInv /\ JobInv
  /\ CommittedInv /\ UninterruptedInv /\ QueuedInv /\ PublishedMeansQueued
=============================================================================
