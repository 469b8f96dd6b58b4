------------------------- MODULE NotificationDelivery -------------------------
(***************************************************************************)
(* The delivery of notification requests (apps/api/src/modules/            *)
(* notifications): the orchestrator that reserves and enqueues them, the   *)
(* digest tick that releases the digested ones, and the workers of         *)
(* NotificationDeliveryProcessor, which claim a request, ask the rate      *)
(* limit, send, record the outcome, and reserve an in-app fallback when a  *)
(* request has failed for good.                                            *)
(*                                                                         *)
(* Every write of the processor but claim and releaseDigest is unfiltered. *)
(* Promise.all rejects with the first error while the other call goes on:  *)
(* an update that has not landed by then is a member of `late`.            *)
(* A job is <<id, n>>: the request's own job (n = 0: added by the          *)
(* orchestrator, the digest tick or the fallback) or the one its n-th      *)
(* deferral added.  A call that throws had no effect, except queue.add and *)
(* the updates of the two Promise.all.                                     *)
(***************************************************************************)
EXTENDS Integers, FiniteSets

CONSTANTS
  Requests,         \* requests an event asks for
  Workers,          \* concurrent slots of the notification-delivery worker (20)
  NoWorker,         \* the owner of a job nobody runs
  TerminalAfter,    \* attemptsMade from which a failure is terminal (5)
  FirstAttempts,    \* attempts of a job of the orchestrator (6)
  DefaultAttempts,  \* attempts of every other job (5)
  MaxDeferrals,     \* bound: refusals of the rate limit per request
  MaxFaults         \* bound: crashes, lost locks and calls that throw

ASSUME NotificationAssumption ==
  /\ {TerminalAfter, FirstAttempts, DefaultAttempts} \subseteq Nat \ {0}
  /\ TerminalAfter < FirstAttempts
  /\ {MaxDeferrals, MaxFaults} \subseteq Nat
  /\ NoWorker \notin Workers

\* A request of an event, and the in-app request that stands in for it.
Ids == Requests \X {"chosen", "fallback"}
Jobs == Ids \X (0 .. MaxDeferrals)
Fallback(id) == <<id[1], "fallback">>

VARIABLES
  kind,      \* what is asked: a digest? will its destination refuse? has it a fallback?
  status,    \* NotificationDeliveryRequest.status
  due,       \* deliverAt has come
  deferrals, \* times the rate limit has put it off
  owed,      \* requests reserved by an orchestrator that has still to enqueue them
  job,       \* state of each job id
  made,      \* attemptsMade of each job
  owner,     \* the worker that holds its lock
  worker,    \* each worker: where it is in process(), its job, attemptsMade as it read it,
             \* the job it is to add, and the digests its tick has still to release
  late,      \* updates of a rejected Promise.all that may still land: <<id, status>>
  sent,      \* messages the provider has accepted
  errors,    \* history: accepted messages whose outcome was not recorded
  broken,    \* history: requests that a fault of another kind has touched
  faults

requestVars == <<kind, deferrals, owed>>
jobVars     == <<job, made, owner>>
histVars    == <<sent, errors, broken>>
vars == <<requestVars, status, due, jobVars, worker, late, histVars, faults>>

Kind == [digest : BOOLEAN, refused : BOOLEAN, fallback : BOOLEAN]
RequestStatus == {"absent", "queued", "digest_pending", "deferred", "sending", "delivered", "failed"}
Adding == {"defer", "digest", "fallback"}
WorkerAt == {"idle", "taken", "claimed", "allowed", "accepted", "caught", "reserving", "releasing"}
              \union Adding
Nothing == <<>>
Idle == [at |-> "idle", job |-> Nothing, tries |-> 0, adds |-> Nothing, todo |-> {}]

Init ==
  /\ kind \in [Requests -> Kind]
  /\ status = [id \in Ids |-> "absent"]
  /\ due = [id \in Ids |-> FALSE]
  /\ deferrals = [id \in Ids |-> 0]
  /\ owed = {}
  /\ job = [j \in Jobs |-> "absent"]
  /\ made = [j \in Jobs |-> 0]
  /\ owner = [j \in Jobs |-> NoWorker]
  /\ worker = [w \in Workers |-> Idle]
  /\ late = {}
  /\ sent = [id \in Ids |-> 0]
  /\ errors = [id \in Ids |-> 0]
  /\ broken = {}
  /\ faults = 0

Fault == faults < MaxFaults /\ faults' = faults + 1

----------------------------------------------------------------------------
(* The notification-delivery queue *)

\* An own job of the orchestrator has one attempt more than the default.
Attempts(j) ==
  IF j[2] = 0 /\ j[1][2] = "chosen" /\ ~kind[j[1][1]].digest THEN FirstAttempts ELSE DefaultAttempts

\* queue.add ignores an id the queue holds; a job is delayed until deliverAt.
Added(j) ==
  [job EXCEPT ![j] = IF @ # "absent" THEN @ ELSE IF due[j[1]] THEN "waiting" ELSE "delayed"]

DeliverAtComes(id) ==
  /\ status[id] # "absent" /\ ~due[id]
  /\ due' = [due EXCEPT ![id] = TRUE]
  /\ job' = [j \in Jobs |-> IF j[1] = id /\ job[j] = "delayed" THEN "waiting" ELSE job[j]]
  /\ UNCHANGED <<requestVars, status, made, owner, worker, late, histVars, faults>>

TakeJob(w, j) ==
  /\ worker[w].at = "idle"
  /\ job[j] = "waiting"
  /\ job' = [job EXCEPT ![j] = "active"]
  /\ owner' = [owner EXCEPT ![j] = w]
  /\ worker' = [worker EXCEPT ![w] = [Idle EXCEPT !.at = "taken", !.job = j, !.tries = made[j]]]
  /\ UNCHANGED <<requestVars, status, due, made, late, histVars, faults>>

Go(w, to) == worker' = [worker EXCEPT ![w].at = to]
GoAdd(w, to, j) == worker' = [worker EXCEPT ![w].at = to, ![w].adds = j]
Leave(w) == worker' = [worker EXCEPT ![w] = Idle]

JobDone(w, jobs) ==
  LET j == worker[w].job IN
  /\ Leave(w)
  /\ IF owner[j] = w
     THEN job' = [jobs EXCEPT ![j] = "completed"] /\ owner' = [owner EXCEPT ![j] = NoWorker]
     ELSE job' = jobs /\ UNCHANGED owner
  /\ UNCHANGED made

JobThrew(w, jobs) ==
  LET j == worker[w].job IN
  /\ Leave(w)
  /\ IF owner[j] = w
     THEN /\ made' = [made EXCEPT ![j] = @ + 1]
          /\ job' = [jobs EXCEPT ![j] = IF made[j] + 1 < Attempts(j) THEN "waiting" ELSE "failed"]
          /\ owner' = [owner EXCEPT ![j] = NoWorker]
     ELSE job' = jobs /\ UNCHANGED <<made, owner>>

\* A job found stalled goes back to the queue the first time and fails the second.
LoseLock(j) ==
  /\ job' \in {[job EXCEPT ![j] = "waiting"], [job EXCEPT ![j] = "failed"]}
  /\ owner' = [owner EXCEPT ![j] = NoWorker]
  /\ UNCHANGED made

\* The requests a worker has in hand: its job's, and that of the job it is to add.
InHand(w) ==
  (IF worker[w].job = Nothing THEN {} ELSE {worker[w].job[1]})
    \union (IF worker[w].adds = Nothing THEN {} ELSE {worker[w].adds[1]})

Break(ids) == broken' = broken \union ids /\ UNCHANGED <<sent, errors>>

Crash(w) ==
  /\ Fault
  /\ worker[w].at # "idle"
  /\ Leave(w)
  /\ Break(InHand(w))
  /\ \/ \E j \in Jobs : owner[j] = w /\ LoseLock(j)
     \/ (\A j \in Jobs : owner[j] # w) /\ UNCHANGED jobVars
  /\ UNCHANGED <<requestVars, status, due, late>>

\* The worker lives but does not renew its lock in time: two workers run one job.
FalseStall(j) ==
  /\ Fault
  /\ job[j] = "active"
  /\ LoseLock(j)
  /\ Break({j[1]})
  /\ UNCHANGED <<requestVars, status, due, worker, late>>

----------------------------------------------------------------------------
(* NotificationOrchestrator.consume *)

\* A new request: a digest, one that quiet hours put off, or one due now; a repeated call finds a
\* duplicate and does nothing.
Reserve(r) ==
  LET id == <<r, "chosen">> IN
  /\ status[id] = "absent"
  /\ IF kind[r].digest
     THEN /\ status' = [status EXCEPT ![id] = "digest_pending"]
          /\ UNCHANGED <<due, owed>>
     ELSE /\ \E quiet \in BOOLEAN :
               /\ status' = [status EXCEPT ![id] = IF quiet THEN "deferred" ELSE "queued"]
               /\ due' = [due EXCEPT ![id] = ~quiet]
          /\ owed' = owed \union {id}
  /\ UNCHANGED <<kind, deferrals, jobVars, worker, late, histVars, faults>>

Enqueue(id) ==
  /\ id \in owed
  /\ owed' = owed \ {id}
  /\ job' = Added(<<id, 0>>)
  /\ UNCHANGED <<kind, deferrals, status, due, made, owner, worker, late, histVars, faults>>

\* The API dies, or queue.add throws, after the reservation.
EnqueueLost(id) ==
  /\ Fault
  /\ id \in owed
  /\ owed' = owed \ {id}
  /\ Break({id})
  /\ UNCHANGED <<kind, deferrals, status, due, jobVars, worker, late>>

----------------------------------------------------------------------------
(* NotificationDeliveryProcessor.process: the digest tick *)

\* Mutant of DueDigests: deliverAt is compared the wrong way round.
DueDigestsEarly == {id \in Ids : status[id] = "digest_pending" /\ ~due[id]}

DueDigests == {id \in Ids : status[id] = "digest_pending" /\ due[id]}

\* A tick with nothing due changes nothing.  The next tick may begin before this one ends.
Tick(w) ==
  /\ worker[w].at = "idle"
  /\ DueDigests # {}
  /\ worker' = [worker EXCEPT ![w] = [Idle EXCEPT !.at = "releasing", !.todo = DueDigests]]
  /\ UNCHANGED <<requestVars, status, due, jobVars, late, histVars, faults>>

\* Mutant of Released: the filter on "digest_pending" is dropped.
ReleasedAnyway(id) == [status EXCEPT ![id] = "queued"]

\* releaseDigest: filtered on "digest_pending", and its result is not looked at.
Released(id) == [status EXCEPT ![id] = IF @ = "digest_pending" THEN "queued" ELSE @]

ReleaseDigest(w, id) ==
  /\ worker[w].at = "releasing" /\ id \in worker[w].todo
  /\ status' = Released(id)
  /\ worker' = [worker EXCEPT ![w].at = "digest", ![w].adds = <<id, 0>>, ![w].todo = @ \ {id}]
  /\ UNCHANGED <<requestVars, due, jobVars, late, histVars, faults>>

AddDigest(w) ==
  /\ worker[w].at = "digest"
  /\ job' = Added(worker[w].adds)
  /\ IF worker[w].todo = {} THEN Leave(w) ELSE GoAdd(w, "releasing", Nothing)
  /\ UNCHANGED <<requestVars, status, due, made, owner, late, histVars, faults>>

\* The rest of the list stays pending, and the next tick reads it again.
TickThrows(w) ==
  /\ Fault
  /\ worker[w].at \in {"releasing", "digest"}
  /\ Leave(w)
  /\ Break(InHand(w))
  /\ \/ UNCHANGED job
     \/ worker[w].at = "digest" /\ job' = Added(worker[w].adds)
  /\ UNCHANGED <<made, owner>>
  /\ UNCHANGED <<requestVars, status, due, late>>

----------------------------------------------------------------------------
(* NotificationDeliveryProcessor.process: a request *)

Request(w) == worker[w].job[1]
Set(id, new) == status' = [status EXCEPT ![id] = new]

\* Mutant of Claimable: a request being sent may be claimed again.
ClaimableSending(id) == status[id] \in {"queued", "deferred", "sending"} /\ due[id]

Claimable(id) == status[id] \in {"queued", "deferred"} /\ due[id]

Claim(w) ==
  /\ worker[w].at = "taken"
  /\ Claimable(Request(w))
  /\ Set(Request(w), "sending")
  /\ Go(w, "claimed")
  /\ UNCHANGED <<requestVars, due, jobVars, late, histVars, faults>>

\* claim answers null: the job completes, whatever state the request is in.
Duplicate(w) ==
  /\ worker[w].at = "taken"
  /\ ~Claimable(Request(w))
  /\ JobDone(w, job)
  /\ UNCHANGED <<requestVars, status, due, late, histVars, faults>>

Allowed(w) ==
  /\ worker[w].at = "claimed"
  /\ Go(w, "allowed")
  /\ UNCHANGED <<requestVars, status, due, jobVars, late, histVars, faults>>

\* The rate limit refuses: the request is put off for a minute, and so into another bucket.
Limited(w) ==
  LET id == Request(w) IN
  /\ worker[w].at = "claimed"
  /\ deferrals[id] < MaxDeferrals
  /\ deferrals' = [deferrals EXCEPT ![id] = @ + 1]
  /\ Set(id, "deferred")
  /\ due' = [due EXCEPT ![id] = FALSE]
  /\ GoAdd(w, "defer", <<id, deferrals[id] + 1>>)
  /\ UNCHANGED <<kind, owed, jobVars, late, histVars, faults>>

AddDeferred(w) ==
  /\ worker[w].at = "defer"
  /\ JobDone(w, Added(worker[w].adds))
  /\ UNCHANGED <<requestVars, status, due, late, histVars, faults>>

\* Outside the try: claim, the rate limit, the update to "deferred" or the enqueue after it throws.
CallThrows(w) ==
  /\ Fault
  /\ worker[w].at \in {"taken", "claimed", "defer"}
  /\ \/ JobThrew(w, job)
     \/ worker[w].at = "defer" /\ JobThrew(w, Added(worker[w].adds))
  /\ Break(InHand(w))
  /\ UNCHANGED <<requestVars, status, due, late>>

\* send(): the provider refuses the destinations marked so; a fallback's is a user id.
Refused(id) == id[2] = "chosen" /\ kind[id[1]].refused

Send(w) ==
  LET id == Request(w) IN
  /\ worker[w].at = "allowed"
  /\ IF Refused(id)
     THEN Go(w, "caught") /\ UNCHANGED sent
     ELSE Go(w, "accepted") /\ sent' = [sent EXCEPT ![id] = @ + 1]
  /\ UNCHANGED <<requestVars, status, due, jobVars, late, errors, broken, faults>>

RecordDelivered(w) ==
  /\ worker[w].at = "accepted"
  /\ Set(Request(w), "delivered")
  /\ JobDone(w, job)
  /\ UNCHANGED <<requestVars, due, late, histVars, faults>>

\* The update or the attempt row fails: the update has landed, will land later, or never will.
RecordDeliveredThrows(w) ==
  LET id == Request(w) IN
  /\ Fault
  /\ worker[w].at = "accepted"
  /\ \/ Set(id, "delivered") /\ UNCHANGED late
     \/ /\ late' = late \union {<<id, "delivered">>}
        /\ UNCHANGED status
     \/ UNCHANGED <<status, late>>
  /\ errors' = [errors EXCEPT ![id] = @ + 1]
  /\ Go(w, "caught")
  /\ UNCHANGED <<requestVars, due, jobVars, sent, broken>>

\* Mutant of Terminal: attemptsMade > 5.
TerminalAbove(w) == worker[w].tries > TerminalAfter

Terminal(w) == worker[w].tries >= TerminalAfter

AfterFailure(w) == IF Terminal(w) THEN "failed" ELSE "queued"

\* The channel is not in-app and the recipient is a user.
HasFallback(id) == id[2] = "chosen" /\ kind[id[1]].fallback

\* The catch block: unfiltered, and also when the message was accepted but not recorded.
RecordFailed(w) ==
  LET id == Request(w) IN
  /\ worker[w].at = "caught"
  /\ Set(id, AfterFailure(w))
  /\ IF Terminal(w) /\ HasFallback(id)
     THEN Go(w, "reserving") /\ UNCHANGED jobVars
     ELSE JobThrew(w, job)
  /\ UNCHANGED <<requestVars, due, late, histVars, faults>>

RecordFailedThrows(w) ==
  LET id == Request(w) IN
  /\ Fault
  /\ worker[w].at = "caught"
  /\ \/ Set(id, AfterFailure(w)) /\ UNCHANGED late
     \/ /\ late' = late \union {<<id, AfterFailure(w)>>}
        /\ UNCHANGED status
     \/ UNCHANGED <<status, late>>
  /\ JobThrew(w, job)
  /\ Break({id})
  /\ UNCHANGED <<requestVars, due>>

\* An update of a rejected Promise.all lands.
LateWrite(id, new) ==
  /\ <<id, new>> \in late
  /\ late' = late \ {<<id, new>>}
  /\ Set(id, new)
  /\ UNCHANGED <<requestVars, due, jobVars, worker, histVars, faults>>

\* A fallback that exists already is not enqueued again.
ReserveFallback(w) ==
  LET id == Fallback(Request(w)) IN
  /\ worker[w].at = "reserving"
  /\ IF status[id] = "absent"
     THEN /\ Set(id, "queued")
          /\ due' = [due EXCEPT ![id] = TRUE]
          /\ GoAdd(w, "fallback", <<id, 0>>)
          /\ UNCHANGED jobVars
     ELSE JobThrew(w, job) /\ UNCHANGED <<status, due>>
  /\ UNCHANGED <<requestVars, late, histVars, faults>>

\* The error of the request is thrown on.
AddFallback(w) ==
  /\ worker[w].at = "fallback"
  /\ JobThrew(w, Added(worker[w].adds))
  /\ UNCHANGED <<requestVars, status, due, late, histVars, faults>>

FallbackThrows(w) ==
  /\ Fault
  /\ worker[w].at \in {"reserving", "fallback"}
  /\ \/ JobThrew(w, job)
     \/ worker[w].at = "fallback" /\ JobThrew(w, Added(worker[w].adds))
  /\ Break(InHand(w))
  /\ UNCHANGED <<requestVars, status, due, late>>

----------------------------------------------------------------------------
WorkerStep(w) ==
  \/ Claim(w) \/ Duplicate(w) \/ Allowed(w) \/ Limited(w) \/ AddDeferred(w)
  \/ Send(w) \/ RecordDelivered(w) \/ RecordFailed(w) \/ ReserveFallback(w) \/ AddFallback(w)
  \/ AddDigest(w) \/ \E id \in Ids : ReleaseDigest(w, id)

FaultStep ==
  \/ \E id \in Ids : EnqueueLost(id)
  \/ \E j \in Jobs : FalseStall(j)
  \/ \E w \in Workers :
       Crash(w) \/ CallThrows(w) \/ TickThrows(w) \/ RecordDeliveredThrows(w)
         \/ RecordFailedThrows(w) \/ FallbackThrows(w)

Next ==
  \/ \E r \in Requests : Reserve(r)
  \/ \E id \in Ids : Enqueue(id) \/ DeliverAtComes(id)
  \/ \E w \in Workers, j \in Jobs : TakeJob(w, j)
  \/ \E w \in Workers : Tick(w) \/ WorkerStep(w)
  \/ \E l \in late : LateWrite(l[1], l[2])
  \/ FaultStep

Spec == Init /\ [][Next]_vars

\* The API finishes its enqueues, time passes, the scheduler ticks and the workers run.
FairSpec ==
  /\ Spec
  /\ \A id \in Ids : WF_vars(Enqueue(id)) /\ WF_vars(DeliverAtComes(id))
  /\ \A j \in Jobs : WF_vars(\E w \in Workers : TakeJob(w, j))
  /\ WF_vars(\E w \in Workers : Tick(w))
  /\ \A w \in Workers : WF_vars(WorkerStep(w))

----------------------------------------------------------------------------
(* Properties *)

\* A recipient is told once, on the channel or by the fallback that stands in for it; every message
\* more is paid for by an accepted one whose outcome could not be recorded.  Crashes and lost locks
\* never cost a second message, since only such an error makes a sent request "queued" again.
NotifiedOnce ==
  \A r \in Requests :
    LET c == <<r, "chosen">> f == <<r, "fallback">>
    IN  sent[c] + sent[f] <= 1 + errors[c] + errors[f]

\* "delivered" and "failed" are final although every update but two is unfiltered: neither a digest
\* tick that read its list long ago nor a worker that lost its lock overwrites them.  Only an error
\* between sending and recording does.
SettledStays ==
  [][\A id \in Ids :
       status[id] \in {"delivered", "failed"} /\ errors[id] = 0 => status'[id] = status[id]]_vars

Live(id) == \E j \in Jobs : j[1] = id /\ job[j] \in {"delayed", "waiting", "active"}

FailedOut(id) ==
  \E j \in Jobs : j[1] = id /\ job[j] = "failed" /\ Attempts(j) = DefaultAttempts

Settled(id) == status[id] \in {"delivered", "failed"}

\* A request without a job that could still settle it has a cause: a fault, or a job that was added
\* without the orchestrator's extra attempt and so used up its attempts before a failure is terminal.
StrandedNeedsCause ==
  \A id \in Ids :
    status[id] \in {"queued", "deferred", "sending"} /\ ~Live(id) /\ id \notin owed
      /\ (\A w \in Workers : worker[w].adds # Nothing => worker[w].adds[1] # id)
    => id \in broken \/ FailedOut(id)

\* A reserved request, digested, put off by quiet hours or by the rate limit as it may be, is
\* delivered or failed in the end, with the same two exceptions.
RequestsSettle ==
  \A id \in Ids :
    status[id] # "absent" ~> Settled(id) \/ id \in broken \/ FailedOut(id)

----------------------------------------------------------------------------
(* The inductive invariant behind NotifiedOnce and SettledStays              *)
(* (proved in NotificationDeliveryProofs)                                    *)

\* A request nobody is sending: it may be claimed now or later.
Open == {"absent", "queued", "digest_pending", "deferred"}

\* A worker between its claim and the end of what it does about the request.
Holding == {"claimed", "allowed", "accepted", "caught", "reserving", "fallback"}
Holds(w, id) == worker[w].at \in Holding /\ worker[w].job[1] = id

\* The part of the types the argument needs.
ShapeInv ==
  /\ kind \in [Requests -> Kind]
  /\ status \in [Ids -> RequestStatus]
  /\ deferrals \in [Ids -> 0 .. MaxDeferrals]
  /\ sent \in [Ids -> Nat]
  /\ errors \in [Ids -> Nat]
  /\ made \in [Jobs -> Nat]
  /\ late \subseteq Ids \X {"delivered", "queued", "failed"}
  /\ worker \in [Workers -> [at : WorkerAt, job : Jobs \union {Nothing}, tries : Nat,
                             adds : Jobs \union {Nothing}, todo : SUBSET Ids]]
  /\ \A w \in Workers :
       worker[w].at \in Holding \union {"taken", "defer"} => worker[w].job \in Jobs

\* A claimed request has one holder, and nothing can make it claimable behind the holder's back.
HoldInv ==
  /\ \A w \in Workers, id \in Ids :
       Holds(w, id) => status[id] \notin Open /\ <<id, "queued">> \notin late
  /\ \A v, w \in Workers, id \in Ids : Holds(v, id) /\ Holds(w, id) => v = w
  /\ \A w \in Workers : worker[w].at \in {"reserving", "fallback"} => worker[w].job[1][2] = "chosen"
  /\ \A id \in Ids : <<id, "queued">> \in late => status[id] \notin Open
  /\ \A id \in Ids, s \in RequestStatus : <<id, s>> \in late => status[id] # "absent"

\* What has been accepted beyond the errors: nothing for a request that can still be sent.
SentInv ==
  \A id \in Ids :
    /\ sent[id] <= 1 + errors[id]
    /\ status[id] \in Open \/ <<id, "queued">> \in late => sent[id] <= errors[id]
    /\ \A w \in Workers : Holds(w, id) /\ worker[w].at # "accepted" => sent[id] <= errors[id]

\* A request with a fallback is over: it was not told, nobody sends it, and nobody ever will.
FallbackInv ==
  \A id \in Ids :
    id[2] = "chosen" /\ status[Fallback(id)] # "absent" =>
      /\ status[id] \notin Open /\ <<id, "queued">> \notin late
      /\ sent[id] <= errors[id]
      /\ \A w \in Workers : Holds(w, id) => worker[w].at \in {"reserving", "fallback"}

\* Without an error, one update at most is on its way, and it is for a request still "sending".
CleanInv ==
  \A id \in Ids :
    errors[id] = 0 =>
      /\ \A s, t \in RequestStatus : <<id, s>> \in late /\ <<id, t>> \in late => s = t
      /\ <<id, "delivered">> \notin late
      /\ \A s \in RequestStatus : <<id, s>> \in late => status[id] = "sending"
      /\ \A w \in Workers :
           Holds(w, id) /\ worker[w].at \notin {"reserving", "fallback"} =>
             status[id] = "sending" /\ \A s \in RequestStatus : <<id, s>> \notin late

IInv == ShapeInv /\ HoldInv /\ SentInv /\ FallbackInv /\ CleanInv

----------------------------------------------------------------------------
(* The invariant behind StrandedNeedsCause: it follows the jobs of each      *)
(* request that no fault but an unrecorded outcome has touched               *)

JobState == {"absent", "delayed", "waiting", "active", "completed", "failed"}
Queued(j) == job[j] \in {"delayed", "waiting", "active"}

\* What a worker has in hand for a request: a job of it that it runs, or one it is to add.
Runs(w, id) == worker[w].job # Nothing /\ worker[w].job[1] = id
Adds(w, id) == worker[w].adds # Nothing /\ worker[w].adds[1] = id
Sending == {"claimed", "allowed", "accepted", "caught"}

QueueShape ==
  /\ job \in [Jobs -> JobState]
  /\ owner \in [Jobs -> Workers \union {NoWorker}]
  /\ due \in [Ids -> BOOLEAN]
  /\ owed \subseteq Ids
  /\ broken \subseteq Ids

HandInv ==
  \A w \in Workers :
    /\ worker[w].job # Nothing <=> worker[w].at \in Holding \union {"taken", "defer"}
    /\ worker[w].adds # Nothing <=> worker[w].at \in Adding
    /\ worker[w].at = "defer" => worker[w].adds[1] = worker[w].job[1]
    /\ worker[w].at \in {"digest", "fallback"} => worker[w].adds[2] = 0
    /\ worker[w].at = "fallback" => worker[w].adds[1] = Fallback(worker[w].job[1])

\* The worker that runs a job holds its lock, and knows its attempts.
Locked(id) ==
  \A w \in Workers, j \in Jobs :
    j[1] = id =>
      /\ owner[j] = w <=> worker[w].job = j
      /\ worker[w].job = j => job[j] = "active" /\ worker[w].tries = made[j]

\* The jobs of a request come one after another, its own first, then those of its deferrals.
Lined(id) ==
  /\ \A j, k \in Jobs : j[1] = id /\ k[1] = id /\ Queued(j) /\ Queued(k) => j = k
  /\ \A j \in Jobs : j[1] = id /\ job[j] # "absent" => j[2] <= deferrals[id] /\ job[<<id, 0>>] # "absent"
  /\ \A w \in Workers :
       worker[w].at = "defer" /\ Adds(w, id) =>
         worker[w].adds = <<id, deferrals[id]>> /\ job[worker[w].adds] = "absent"

\* A request has no job, and nobody is to add one, before it is reserved or released.
Begins(id) ==
  /\ status[id] \in {"absent", "digest_pending"} =>
       id \notin owed /\ job[<<id, 0>>] = "absent" /\ \A w \in Workers : ~Adds(w, id)
  /\ status[id] = "absent" => \A w \in Workers : id \notin worker[w].todo
  /\ id \in owed =>
       job[<<id, 0>>] = "absent" /\ \A w \in Workers : ~Adds(w, id) /\ id \notin worker[w].todo

\* What may run has come due, but for the job of a worker about to add the next one.
Timely(id) ==
  \A j \in Jobs :
    j[1] = id /\ job[j] \in {"waiting", "active"} =>
      due[id] \/ \E w \in Workers : worker[w].at = "defer" /\ worker[w].job = j

\* A request is "sending" while a worker sends it, and over when a worker reserves its fallback.
Sends(id) ==
  /\ status[id] = "sending" => \E w \in Workers : Runs(w, id) /\ worker[w].at \in Sending
  /\ \A s \in RequestStatus : <<id, s>> \in late => s = "delivered"
  /\ \A w \in Workers : Runs(w, id) /\ worker[w].at \in {"reserving", "fallback"} => Settled(id)

Carried(id) ==
  status[id] \in {"queued", "deferred", "sending"} =>
    \/ Live(id) \/ FailedOut(id) \/ id \in owed
    \/ \E w \in Workers : Adds(w, id) /\ job[worker[w].adds] = "absent"

Followed(id) == Locked(id) /\ Lined(id) /\ Begins(id) /\ Timely(id) /\ Sends(id) /\ Carried(id)

JInv == QueueShape /\ HandInv /\ \A id \in Ids \ broken : Followed(id)

============================================================================
