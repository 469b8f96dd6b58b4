--------------------------- MODULE CampaignDelivery ---------------------------
(***************************************************************************)
(* One run of a campaign (apps/api/src/modules/campaigns): schedule, which *)
(* reserves the run with its deliveries in a transaction and then enqueues *)
(* their batches one by one; pause, resume and cancel; and the             *)
(* CampaignDeliveryProcessor, which walks a batch, claims each delivery    *)
(* and calls the provider.                                                 *)
(*                                                                         *)
(* The recipients are the consented, unsuppressed ones of the snapshot.    *)
(* Dates are abstracted to whether a delivery's deliverAt lies ahead; the  *)
(* variant of a delivery always exists, since it is taken from the version *)
(* the run is bound to.  A call that throws had no effect, except the      *)
(* provider's, which may have accepted the message.                        *)
(***************************************************************************)
EXTENDS Integers, FiniteSets

CONSTANTS
  Size,            \* deliveries of the run
  BatchSize,       \* deliveries of a batch job (100 in the code)
  Workers,         \* concurrent slots of the campaign-delivery worker (20)
  NoWorker,        \* the owner of a job nobody runs
  JobAttempts,     \* attempts of a job (5 in the code, batch and re-added alike)
  MaxCommands,     \* bound: pause, resume and cancel calls
  MaxFaults        \* bound: crashes, lost locks, jobs taken by the other application, database errors

ASSUME CampaignAssumption ==
  /\ {Size, BatchSize, JobAttempts} \subseteq Nat \ {0}
  /\ {MaxCommands, MaxFaults} \subseteq Nat
  /\ NoWorker \notin Workers

Deliveries == 1 .. Size
Batches == 1 .. (Size + BatchSize - 1) \div BatchSize
Jobs == ({"batch"} \X Batches) \union ({"delivery"} \X Deliveries)
First(j) == IF j[1] = "batch" THEN (j[2] - 1) * BatchSize + 1 ELSE j[2]
Last(j) == IF j[1] = "delivery" THEN j[2]
           ELSE IF j[2] * BatchSize < Size THEN j[2] * BatchSize ELSE Size
BatchOf(d) == <<"batch", (d + BatchSize - 1) \div BatchSize>>

VARIABLES
  run,       \* CampaignRun.status
  delivery,  \* Delivery.status of each recipient
  ahead,     \* its deliverAt (quiet hours) has not come
  consent,   \* would ConsentEvaluationService.evaluate allow it?
  unqueued,  \* the next batch schedule has to enqueue
  job,       \* state of each job id
  made,      \* attempts the job has used up
  owner,     \* the worker that holds its lock
  worker,    \* each worker: where it is in process(), its job and delivery
  sends,     \* messages the provider has accepted for each delivery
  held,      \* history: the run has been paused or cancelled
  commands,
  faults

runVars   == <<run, held, commands>>
jobVars   == <<job, made, owner>>
otherVars == <<ahead, consent, unqueued>>
vars == <<runVars, delivery, otherVars, jobVars, worker, sends, faults>>

DeliveryStatus == {"absent", "queued", "sending", "sent", "failed", "suppressed"}
WorkerAt == {"idle", "taken", "loop", "claimed", "allowed", "accepted", "refused"}
Idle == [at |-> "idle", job |-> <<"batch", 1>>, next |-> 0]

Init ==
  /\ run = "absent"
  /\ delivery = [d \in Deliveries |-> "absent"]
  /\ ahead \in [Deliveries -> BOOLEAN]
  /\ consent = [d \in Deliveries |-> TRUE]
  /\ unqueued = 0
  /\ job = [j \in Jobs |-> "absent"]
  /\ made = [j \in Jobs |-> 0]
  /\ owner = [j \in Jobs |-> NoWorker]
  /\ worker = [w \in Workers |-> Idle]
  /\ sends = [d \in Deliveries |-> 0]
  /\ held = FALSE
  /\ commands = 0
  /\ faults = 0

Fault == faults < MaxFaults /\ faults' = faults + 1

----------------------------------------------------------------------------
(* CampaignService *)

\* The transaction of schedule: a second call with the same key finds the run and adds nothing.
Schedule ==
  /\ run = "absent"
  /\ run' = "queued"
  /\ delivery' = [d \in Deliveries |-> "queued"]
  /\ unqueued' = 1
  /\ UNCHANGED <<held, commands, ahead, consent, jobVars, worker, sends, faults>>

EnqueueBatch ==
  /\ unqueued \in Batches
  /\ unqueued' = unqueued + 1
  /\ job' = [job EXCEPT ![<<"batch", unqueued>>] = "waiting"]
  /\ UNCHANGED <<runVars, delivery, ahead, consent, made, owner, worker, sends, faults>>

\* The API process dies, or queue.add throws, between two batches.
ScheduleAborts ==
  /\ Fault
  /\ unqueued \in Batches
  /\ unqueued' = 0
  /\ UNCHANGED <<runVars, delivery, ahead, consent, jobVars, worker, sends>>

\* command(): commandRun refuses completed and cancelled runs only, and the processor completes none.
Command(status) ==
  /\ commands < MaxCommands
  /\ commands' = commands + 1
  /\ run \notin {"absent", "cancelled"}
  /\ run' = status
  /\ held' = (held \/ status # "running")
  /\ UNCHANGED <<delivery, otherVars, jobVars, worker, sends, faults>>

\* The recipient withdraws consent, or opts out.
Withdraw(d) ==
  /\ consent[d]
  /\ consent' = [consent EXCEPT ![d] = FALSE]
  /\ UNCHANGED <<runVars, delivery, ahead, unqueued, jobVars, worker, sends, faults>>

DeliverAtComes(d) ==
  /\ ahead[d]
  /\ ahead' = [ahead EXCEPT ![d] = FALSE]
  /\ UNCHANGED <<runVars, delivery, consent, unqueued, jobVars, worker, sends, faults>>

----------------------------------------------------------------------------
(* The campaign-delivery queue *)

\* A re-added job is delayed until its delivery's deliverAt.
TakeJob(w, j) ==
  /\ worker[w].at = "idle"
  /\ job[j] = "waiting"
  /\ j[1] = "delivery" => ~ahead[j[2]]
  /\ job' = [job EXCEPT ![j] = "active"]
  /\ owner' = [owner EXCEPT ![j] = w]
  /\ worker' = [worker EXCEPT ![w] = [at |-> "taken", job |-> j, next |-> First(j)]]
  /\ UNCHANGED <<runVars, delivery, otherVars, made, sends, faults>>

\* The worker application serves a queue of the same name: it fails the job for good, since the
\* data is not the envelope of its job contract.
OtherWorker(j) ==
  /\ Fault
  /\ job[j] = "waiting"
  /\ j[1] = "delivery" => ~ahead[j[2]]
  /\ job' = [job EXCEPT ![j] = "failed"]
  /\ UNCHANGED <<runVars, delivery, otherVars, made, owner, worker, sends>>

Go(w, to)   == worker' = [worker EXCEPT ![w].at = to]
NextOne(w)  == worker' = [worker EXCEPT ![w].at = "loop", ![w].next = @ + 1]
Leave(w)    == worker' = [worker EXCEPT ![w] = Idle]

JobDone(w) ==
  LET j == worker[w].job IN
  /\ Leave(w)
  /\ IF owner[j] = w
     THEN job' = [job EXCEPT ![j] = "completed"] /\ owner' = [owner EXCEPT ![j] = NoWorker]
     ELSE UNCHANGED <<job, owner>>
  /\ UNCHANGED made

\* Mutant of JobThrew: an attempt too few.
JobThrewOnce(w) ==
  LET j == worker[w].job IN
  /\ Leave(w)
  /\ IF owner[j] = w
     THEN /\ made' = [made EXCEPT ![j] = @ + 1]
          /\ job' = [job EXCEPT ![j] = IF made[j] + 2 < JobAttempts THEN "waiting" ELSE "failed"]
          /\ owner' = [owner EXCEPT ![j] = NoWorker]
     ELSE UNCHANGED jobVars

JobThrew(w) ==
  LET j == worker[w].job IN
  /\ Leave(w)
  /\ IF owner[j] = w
     THEN /\ made' = [made EXCEPT ![j] = @ + 1]
          /\ job' = [job EXCEPT ![j] = IF made[j] + 1 < JobAttempts THEN "waiting" ELSE "failed"]
          /\ owner' = [owner EXCEPT ![j] = NoWorker]
     ELSE UNCHANGED jobVars

\* A job found stalled goes back to the queue the first time and fails the second.
LoseLock(j) ==
  /\ job' \in {[job EXCEPT ![j] = "waiting"], [job EXCEPT ![j] = "failed"]}
  /\ owner' = [owner EXCEPT ![j] = NoWorker]
  /\ UNCHANGED made

Crash(w) ==
  /\ Fault
  /\ worker[w].at # "idle"
  /\ Leave(w)
  /\ IF owner[worker[w].job] = w THEN LoseLock(worker[w].job) ELSE UNCHANGED jobVars
  /\ UNCHANGED <<runVars, delivery, otherVars, sends>>

\* The worker lives but does not renew its lock in time: two workers may walk one batch.
FalseStall(j) ==
  /\ Fault
  /\ job[j] = "active"
  /\ LoseLock(j)
  /\ UNCHANGED <<runVars, delivery, otherVars, worker, sends>>

----------------------------------------------------------------------------
(* CampaignDeliveryProcessor.process *)

\* The run's status is read once, before the loop.
ReadRun(w) ==
  /\ worker[w].at = "taken"
  /\ IF run \in {"cancelled", "paused"}
     THEN JobDone(w)
     ELSE Go(w, "loop") /\ UNCHANGED jobVars
  /\ UNCHANGED <<runVars, delivery, otherVars, sends, faults>>

\* The loop is at a delivery of the job.
At(w, d) == worker[w].at = "loop" /\ worker[w].next = d /\ d <= Last(worker[w].job)

Finish(w) ==
  /\ worker[w].at = "loop"
  /\ worker[w].next > Last(worker[w].job)
  /\ JobDone(w)
  /\ UNCHANGED <<runVars, delivery, otherVars, sends, faults>>

Skip(w, d) ==
  /\ At(w, d)
  /\ delivery[d] # "queued"
  /\ NextOne(w)
  /\ UNCHANGED <<runVars, delivery, otherVars, jobVars, sends, faults>>

\* Quiet hours: the delivery gets a job of its own; an id the queue still holds is ignored.
Postpone(w, d) ==
  /\ At(w, d)
  /\ delivery[d] = "queued"
  /\ ahead[d]
  /\ job' = [job EXCEPT ![<<"delivery", d>>] = IF @ = "absent" THEN "waiting" ELSE @]
  /\ NextOne(w)
  /\ UNCHANGED <<runVars, delivery, otherVars, made, owner, sends, faults>>

\* Mutant of Claimable: the filter {status: 'queued'} is dropped from the claim.
ClaimableSending(d) == delivery[d] \in {"queued", "sending"} /\ ~ahead[d]

\* The claim: updateDelivery filtered on status "queued".
Claimable(d) == delivery[d] = "queued" /\ ~ahead[d]

Claim(w, d) ==
  /\ At(w, d)
  /\ Claimable(d)
  /\ delivery' = [delivery EXCEPT ![d] = "sending"]
  /\ Go(w, "claimed")
  /\ UNCHANGED <<runVars, otherVars, jobVars, sends, faults>>

\* The updates after the claim are filtered on status "sending".
Mark(d, status) == delivery' = [delivery EXCEPT ![d] = IF @ = "sending" THEN status ELSE @]

Evaluate(w, d) ==
  /\ worker[w].at = "claimed" /\ worker[w].next = d
  /\ IF consent[d]
     THEN Go(w, "allowed") /\ UNCHANGED delivery
     ELSE NextOne(w) /\ Mark(d, "suppressed")
  /\ UNCHANGED <<runVars, otherVars, jobVars, sends, faults>>

\* A read, a claim or an enqueue throws; or, outside the try as well, the evaluation or the update
\* to "suppressed" does, and leaves the delivery in "sending".
CallThrows(w) ==
  /\ Fault
  /\ worker[w].at \in {"taken", "loop", "claimed"}
  /\ JobThrew(w)
  /\ UNCHANGED <<runVars, delivery, otherVars, sends>>

Accept(d) == sends' = [sends EXCEPT ![d] = @ + 1]

Send(w, d) ==
  /\ worker[w].at = "allowed" /\ worker[w].next = d
  /\ \/ Go(w, "accepted") /\ Accept(d)
     \/ Go(w, "refused") /\ (Accept(d) \/ UNCHANGED sends)
  /\ UNCHANGED <<runVars, delivery, otherVars, jobVars, faults>>

MarkSent(w, d) ==
  /\ worker[w].at = "accepted" /\ worker[w].next = d
  /\ Mark(d, "sent")
  /\ NextOne(w)
  /\ UNCHANGED <<runVars, otherVars, jobVars, sends, faults>>

\* The update, or the metric after it, throws inside the try.
MarkSentThrows(w, d) ==
  /\ Fault
  /\ worker[w].at = "accepted" /\ worker[w].next = d
  /\ Mark(d, "sent") \/ UNCHANGED delivery
  /\ Go(w, "refused")
  /\ UNCHANGED <<runVars, otherVars, jobVars, sends>>

\* Mutant of MarkFailed: the delivery goes back to the queue, for the job's next attempt.
MarkQueuedAgain(w, d) ==
  /\ worker[w].at = "refused" /\ worker[w].next = d
  /\ Mark(d, "queued")
  /\ JobThrew(w)
  /\ UNCHANGED <<runVars, otherVars, sends, faults>>

\* The catch: failed, and the error is thrown on; the retry skips this delivery.
MarkFailed(w, d) ==
  /\ worker[w].at = "refused" /\ worker[w].next = d
  /\ Mark(d, "failed")
  /\ JobThrew(w)
  /\ UNCHANGED <<runVars, otherVars, sends, faults>>

MarkFailedThrows(w) ==
  /\ Fault
  /\ worker[w].at = "refused"
  /\ JobThrew(w)
  /\ UNCHANGED <<runVars, delivery, otherVars, sends>>

----------------------------------------------------------------------------
WorkerStep(w) ==
  \/ ReadRun(w) \/ Finish(w)
  \/ \E d \in Deliveries :
       Skip(w, d) \/ Postpone(w, d) \/ Claim(w, d) \/ Evaluate(w, d) \/ Send(w, d)
         \/ MarkSent(w, d) \/ MarkFailed(w, d)

FaultStep ==
  \/ ScheduleAborts
  \/ \E j \in Jobs : FalseStall(j) \/ OtherWorker(j)
  \/ \E w \in Workers : Crash(w) \/ CallThrows(w) \/ MarkFailedThrows(w)
  \/ \E w \in Workers, d \in Deliveries : MarkSentThrows(w, d)

Next ==
  \/ Schedule \/ EnqueueBatch
  \/ \E status \in {"paused", "running", "cancelled"} : Command(status)
  \/ \E d \in Deliveries : Withdraw(d) \/ DeliverAtComes(d)
  \/ \E w \in Workers, j \in Jobs : TakeJob(w, j)
  \/ \E w \in Workers : WorkerStep(w)
  \/ FaultStep

Spec == Init /\ [][Next]_vars

\* The API process finishes its enqueues, time passes, and the workers run.
FairSpec ==
  /\ Spec
  /\ WF_vars(EnqueueBatch)
  /\ \A d \in Deliveries : WF_vars(DeliverAtComes(d))
  /\ \A j \in Jobs : WF_vars(\E w \in Workers : TakeJob(w, j))
  /\ \A w \in Workers : WF_vars(WorkerStep(w))

----------------------------------------------------------------------------
(* Properties *)

\* A recipient gets a campaign's message at most once: no retry, crash, lost lock or re-added job
\* makes the provider accept it twice, since a claimed delivery never becomes "queued" again.
AtMostOneSend == \A d \in Deliveries : sends[d] <= 1

\* What a finished delivery says is what happened: "sent" was accepted by the provider, and nothing
\* was accepted for one that is "suppressed" or still "queued" ("failed" may have been accepted).
StatusMatchesProvider ==
  \A d \in Deliveries :
    /\ delivery[d] = "sent" => sends[d] = 1
    /\ delivery[d] \in {"queued", "suppressed"} => sends[d] = 0

\* A recipient is left waiting only with a cause: the run was paused or cancelled, something broke,
\* or as many deliveries of its batch failed as the batch has attempts, since each failure throws.
RecipientsReached ==
  \A d \in Deliveries :
    (delivery[d] \in {"queued", "sending"}) ~>
      \/ delivery[d] \notin {"queued", "sending"}
      \/ held \/ faults > 0
      \/ LET b == BatchOf(d)
         IN  Cardinality({x \in First(b) .. Last(b) : delivery[x] = "failed"}) >= JobAttempts

----------------------------------------------------------------------------
(* The inductive invariant behind AtMostOneSend and StatusMatchesProvider    *)
(* (proved in CampaignDeliveryProofs)                                        *)

\* The part of the types the argument needs: nothing about jobs, attempts or bounds.
ShapeInv ==
  /\ delivery \in [Deliveries -> DeliveryStatus]
  /\ sends \in [Deliveries -> Nat]
  /\ worker \in [Workers -> [at : WorkerAt, job : Jobs \union {Idle.job}, next : Int]]

\* Nothing is claimed, and nothing sent, before the run is reserved.
ReservedInv == run = "absent" => \A d \in Deliveries : delivery[d] = "absent"

\* A worker between its claim and the update that ends it is alone on its delivery; until the
\* provider answers, nothing has been accepted for it.
Claiming(w) == worker[w].at \in {"claimed", "allowed", "accepted", "refused"}

ClaimInv ==
  /\ \A w \in Workers : Claiming(w) =>
       /\ worker[w].next \in Deliveries
       /\ delivery[worker[w].next] \notin {"absent", "queued"}
       /\ worker[w].at # "refused" => delivery[worker[w].next] = "sending"
       /\ worker[w].at \in {"claimed", "allowed"} => sends[worker[w].next] = 0
       /\ worker[w].at = "accepted" => sends[worker[w].next] = 1
  /\ \A v, w \in Workers : Claiming(v) /\ Claiming(w) /\ worker[v].next = worker[w].next => v = w

\* What the provider has accepted for a delivery nobody is working on.
SendInv ==
  \A d \in Deliveries :
    /\ sends[d] <= 1
    /\ delivery[d] = "sent" => sends[d] = 1
    /\ delivery[d] \in {"absent", "queued", "suppressed"} => sends[d] = 0

IInv == ShapeInv /\ ReservedInv /\ ClaimInv /\ SendInv

============================================================================
