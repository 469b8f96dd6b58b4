-------------------------------- MODULE Saga --------------------------------
(***************************************************************************)
(* One durable saga of apps/api/src/modules/sagas: its MongoDB document,   *)
(* the "saga-orchestration" jobs that advance it, the workers that run     *)
(* them, the calls of SagaController, and the remote participants that     *)
(* perform the commands the saga appends to the outbox and signal back.    *)
(*                                                                         *)
(* SagaRepository.transition compares and increments the version.  Here an *)
(* actor that has read the document is `fresh` until another actor's       *)
(* transition, and a stale actor's transition throws a ConflictException.  *)
(* A call of the controller reads and transitions in one action, since a   *)
(* conflict between the two only answers 409.                              *)
(*                                                                         *)
(* A job is either delayed until the deadline of the wait it was added for *)
(* (`timer`) or may run at any time (`jobs`); once the document has moved  *)
(* on, the delay of an old job no longer matters and it joins `jobs`.      *)
(***************************************************************************)
EXTENDS Naturals, Sequences

CONSTANTS
  LastStep,     \* the definition's steps are 1 .. LastStep
  Reversible,   \* the steps that define a compensation
  Workers,      \* concurrent slots of the saga-orchestration worker (20)
  MaxAttempts,  \* attempts of a step (5 in every definition)
  MaxFailures,  \* bound: failures the participants signal
  MaxOps,       \* bound: calls of cancel, retry and resume
  MaxFaults     \* bound: crashes, and enqueues that fail after a transition

Steps == 1 .. LastStep

ASSUME SagaAssumption ==
  /\ LastStep \in Nat \ {0}
  /\ Reversible \subseteq Steps
  /\ MaxAttempts \in Nat \ {0}
  /\ MaxFailures \in Nat
  /\ MaxOps \in Nat
  /\ MaxFaults \in Nat

VARIABLES
  saga,      \* the document: status, currentStep, completedSteps, ...
  timedOut,  \* timeoutAt has passed
  due,       \* stepDeadlineAt or nextAttemptAt of the current wait has passed
  worker,    \* each worker: where it is in advance(), and the step it runs
  fresh,     \* does its copy of the document have the current version?
  jobs,      \* saga.advance jobs that may run now
  timer,     \* is the delayed job of the current wait in the queue?
  owed,      \* enqueues the API process still has to make
  sent,      \* commands in the outbox: <<"do", step>> and <<"undo", step>>
  done,      \* commands the participants have performed
  expired,   \* history: steps given up because their reply was late
  jumped,    \* history: an operator resumed at a later step
  failures,
  ops,
  faults

queueVars == <<jobs, timer, owed>>
sideVars  == <<sent, done>>
histVars  == <<expired, jumped>>
boundVars == <<failures, ops, faults>>
vars == <<saga, timedOut, due, worker, fresh, queueVars, sideVars, histVars, boundVars>>

Status == {"absent", "pending", "running", "waiting_external", "waiting_retry",
           "compensating", "completed", "cancelled", "manual_intervention"}
Command == {"do", "undo"} \X Steps
Idle == [at |-> "idle", step |-> 0]

Init ==
  /\ saga = [status |-> "absent", step |-> 1, completed |-> <<>>, compensated |-> {},
             attempts |-> [s \in Steps |-> 0], cancel |-> FALSE, awaiting |-> FALSE]
  /\ timedOut = FALSE
  /\ due = FALSE
  /\ worker = [w \in Workers |-> Idle]
  /\ fresh = [w \in Workers |-> FALSE]
  /\ jobs = 0
  /\ timer = FALSE
  /\ owed = 0
  /\ sent = {}
  /\ done = {}
  /\ expired = {}
  /\ jumped = FALSE
  /\ failures = 0
  /\ ops = 0
  /\ faults = 0

Fault == faults < MaxFaults /\ faults' = faults + 1 /\ UNCHANGED <<failures, ops>>

----------------------------------------------------------------------------
(* SagaRepository.transition, and the updates SagaService passes to it *)

\* The update commits: every other copy is stale, and the delayed job an old one.
Write(new, mine, dueNow, calls) ==
  /\ saga' = new
  /\ fresh' = [w \in Workers |-> w \in mine /\ fresh[w]]
  /\ jobs' = jobs + (IF timer THEN 1 ELSE 0)
  /\ timer' = FALSE
  /\ due' = dueNow
  /\ owed' = owed + calls

Move(w, at, step) == worker' = [worker EXCEPT ![w] = [at |-> at, step |-> step]]
Leave(w) == worker' = [worker EXCEPT ![w] = Idle]

\* Mutant of Owner: the version is not part of transition's filter.
OwnerUnversioned(w) == worker[w].at # "idle"

\* The filter {_id, version} of transition matches.
Owner(w) == worker[w].at # "idle" /\ fresh[w]

LastIndex(I) == CHOOSE i \in I : \A j \in I : j <= i

CompletedSteps == {saga.completed[i] : i \in DOMAIN saga.completed}

\* Mutant of Outstanding: the steps are not reversed, so the oldest is undone first.
OutstandingOldest(doc) ==
  LET I == {i \in DOMAIN doc.completed : doc.completed[i] \in Reversible \ doc.compensated}
  IN  {i \in I : \A j \in I : i <= j}

\* compensate(): the completed steps that still have to be undone.
Outstanding(doc) ==
  {i \in DOMAIN doc.completed : doc.completed[i] \in Reversible \ doc.compensated}

\* beginRecovery: the last reversible step, whether or not it is compensated already.
Recovered(doc) ==
  LET I == {i \in DOMAIN doc.completed : doc.completed[i] \in Reversible} IN
  IF I # {}
  THEN [doc EXCEPT !.status = "compensating", !.step = doc.completed[LastIndex(I)]]
  ELSE IF doc.cancel /\ doc.completed = <<>>
  THEN [doc EXCEPT !.status = "cancelled"]
  ELSE [doc EXCEPT !.status = "manual_intervention"]

\* Mutant of Succeeded: $push instead of $addToSet.
SucceededPush(doc, s) ==
  [doc EXCEPT !.status = IF s < LastStep THEN "pending" ELSE "completed",
              !.step = IF s < LastStep THEN s + 1 ELSE 0,
              !.completed = Append(@, s), !.awaiting = FALSE]

\* stepSucceeded: $addToSet keeps the order in which steps first completed.
Succeeded(doc, s) ==
  [doc EXCEPT !.status = IF s < LastStep THEN "pending" ELSE "completed",
              !.step = IF s < LastStep THEN s + 1 ELSE 0,
              !.completed = IF s \in CompletedSteps THEN @ ELSE Append(@, s),
              !.awaiting = FALSE]

----------------------------------------------------------------------------
(* Time and the queue *)

\* start: a second start with the same correlation id finds the document and changes nothing.
Start ==
  /\ saga.status = "absent"
  /\ Write([saga EXCEPT !.status = "pending"], {}, FALSE, 1)
  /\ UNCHANGED <<timedOut, worker, sideVars, histVars, boundVars>>

\* The API process makes the enqueue that follows its transition ...
Enqueue ==
  /\ owed > 0
  /\ owed' = owed - 1
  /\ jobs' = jobs + 1
  /\ UNCHANGED <<saga, timedOut, due, worker, fresh, timer, sideVars, histVars, boundVars>>

\* ... or dies before it, or Redis refuses it.
EnqueueLost ==
  /\ Fault
  /\ owed > 0
  /\ owed' = owed - 1
  /\ UNCHANGED <<saga, timedOut, due, worker, fresh, jobs, timer, sideVars, histVars>>

WaitEnds ==
  /\ ~due
  /\ saga.status \in {"waiting_external", "waiting_retry"}
  /\ due' = TRUE
  /\ UNCHANGED <<saga, timedOut, worker, fresh, queueVars, sideVars, histVars, boundVars>>

TimeoutPasses ==
  /\ ~timedOut
  /\ saga.status # "absent"
  /\ timedOut' = TRUE
  /\ due' = (due \/ saga.status = "waiting_external")   \* stepDeadlineAt is capped by timeoutAt
  /\ UNCHANGED <<saga, worker, fresh, queueVars, sideVars, histVars, boundVars>>

\* A worker takes a job and advance() reads the document.
TakeJob(w) ==
  /\ worker[w].at = "idle"
  /\ \/ jobs > 0 /\ jobs' = jobs - 1 /\ UNCHANGED timer
     \/ timer /\ due /\ timer' = FALSE /\ UNCHANGED jobs
  /\ Move(w, "read", 0)
  /\ fresh' = [fresh EXCEPT ![w] = TRUE]
  /\ UNCHANGED <<saga, timedOut, due, owed, sideVars, histVars, boundVars>>

\* A worker dies: its job comes back the first time it stalls, and fails the second.
Crash(w) ==
  /\ Fault
  /\ worker[w].at # "idle"
  /\ Leave(w)
  /\ fresh' = [fresh EXCEPT ![w] = FALSE]
  /\ jobs' \in {jobs, jobs + 1}
  /\ UNCHANGED <<saga, timedOut, due, timer, owed, sideVars, histVars>>

\* transition finds another version: ConflictException, and the job has one attempt only.
Conflict(w) ==
  /\ worker[w].at \in {"read", "sent", "undoSent"}
  /\ ~fresh[w]
  /\ Leave(w)
  /\ UNCHANGED <<saga, timedOut, due, fresh, queueVars, sideVars, histVars, boundVars>>

----------------------------------------------------------------------------
(* SagaService.advance *)

Reading(w) == worker[w].at = "read" /\ Owner(w)
OnTrack == ~timedOut /\ ~saga.cancel
Ended == {"completed", "cancelled", "manual_intervention"}

\* advance returns the document as it is.
NothingToDo(w) ==
  /\ Reading(w)
  /\ \/ saga.status \in Ended
     \/ OnTrack /\ saga.status \in {"waiting_retry", "waiting_external"} /\ ~due
  /\ Leave(w)
  /\ fresh' = [fresh EXCEPT ![w] = FALSE]
  /\ UNCHANGED <<saga, timedOut, due, queueVars, sideVars, histVars, boundVars>>

\* Timed out, cancelled or past the step's deadline: beginRecovery, which enqueues nothing.
Recover(w) ==
  /\ Reading(w)
  /\ saga.status \notin Ended
  /\ ~OnTrack \/ (saga.status = "waiting_external" /\ due)
  /\ Write(Recovered(saga), {}, due, 0)
  /\ expired' = IF saga.status = "waiting_external" /\ ~saga.awaiting /\ (due \/ timedOut)
                THEN expired \union {saga.step} ELSE expired
  /\ Leave(w)
  /\ UNCHANGED <<timedOut, sideVars, jumped, boundVars>>

\* A "running" document is taken too: nothing says another worker is not on it.
StartStep(w) ==
  /\ Reading(w)
  /\ OnTrack
  /\ saga.status \in {"pending", "running"} \/ (saga.status = "waiting_retry" /\ due)
  /\ Write([saga EXCEPT !.status = "running", !.attempts[saga.step] = @ + 1], {w}, due, 0)
  /\ Move(w, "execute", saga.step)
  /\ UNCHANGED <<timedOut, sideVars, histVars, boundVars>>

\* SagaStepExecutor.execute appends the command; a duplicate event id is swallowed.
Send(w) ==
  /\ worker[w].at = "execute"
  /\ sent' = sent \union {<<"do", worker[w].step>>}
  /\ Move(w, "sent", worker[w].step)
  /\ UNCHANGED <<saga, timedOut, due, fresh, queueVars, done, histVars, boundVars>>

\* The append throws: retry later, or recover when the attempts are used up.
SendThrows(w) ==
  /\ worker[w].at = "execute"
  /\ IF ~fresh[w]
     THEN Leave(w) /\ UNCHANGED <<saga, due, fresh, queueVars>>
     ELSE IF saga.attempts[worker[w].step] >= MaxAttempts
     THEN Write(Recovered(saga), {}, due, 0) /\ Leave(w)
     ELSE Write([saga EXCEPT !.status = "waiting_retry"], {w}, FALSE, 0) /\ Move(w, "enqueue", 0)
  /\ UNCHANGED <<timedOut, sideVars, histVars, boundVars>>

\* Mutant of AwaitReply: the step counts as done once its command is in the outbox.
AwaitNothing(w) ==
  /\ worker[w].at = "sent"
  /\ Owner(w)
  /\ Write(Succeeded(saga, worker[w].step), {w}, FALSE, 0)
  /\ Move(w, "enqueue", 0)
  /\ UNCHANGED <<timedOut, sideVars, histVars, boundVars>>

\* waitForExternal after a step's command.
AwaitReply(w) ==
  /\ worker[w].at = "sent"
  /\ Owner(w)
  /\ Write([saga EXCEPT !.status = "waiting_external", !.step = worker[w].step, !.awaiting = FALSE],
           {w}, timedOut, 0)
  /\ Move(w, "enqueue", 0)
  /\ UNCHANGED <<timedOut, sideVars, histVars, boundVars>>

\* Mutant of EnqueueDelayed: the job is due when the wait began, and none is left at its end.
EnqueueEarly(w) ==
  /\ worker[w].at = "enqueue"
  /\ jobs' = jobs + 1
  /\ Leave(w)
  /\ fresh' = [fresh EXCEPT ![w] = FALSE]
  /\ UNCHANGED <<saga, timedOut, due, timer, owed, sideVars, histVars, boundVars>>

\* The delayed job of the wait; the delay is measured from the wait's own deadline.
EnqueueDelayed(w) ==
  /\ worker[w].at = "enqueue"
  /\ IF fresh[w] THEN timer' = TRUE /\ UNCHANGED jobs ELSE jobs' = jobs + 1 /\ UNCHANGED timer
  /\ Leave(w)
  /\ fresh' = [fresh EXCEPT ![w] = FALSE]
  /\ UNCHANGED <<saga, timedOut, due, owed, sideVars, histVars, boundVars>>

\* compensate() with steps to undo: it takes the last of them.
StartUndo(w) ==
  /\ Reading(w)
  /\ OnTrack
  /\ saga.status = "compensating"
  /\ Outstanding(saga) # {}
  /\ Write(saga, {w}, due, 0)
  /\ Move(w, "executeUndo", saga.completed[LastIndex(Outstanding(saga))])
  /\ UNCHANGED <<timedOut, sideVars, histVars, boundVars>>

\* compensate() with nothing left: the operation itself remains failed.
UndoFinished(w) ==
  /\ Reading(w)
  /\ OnTrack
  /\ saga.status = "compensating"
  /\ Outstanding(saga) = {}
  /\ Write([saga EXCEPT !.status = IF saga.cancel THEN "cancelled" ELSE "manual_intervention"],
           {}, due, 0)
  /\ Leave(w)
  /\ UNCHANGED <<timedOut, sideVars, histVars, boundVars>>

SendUndo(w) ==
  /\ worker[w].at = "executeUndo"
  /\ sent' = sent \union {<<"undo", worker[w].step>>}
  /\ Move(w, "undoSent", worker[w].step)
  /\ UNCHANGED <<saga, timedOut, due, fresh, queueVars, done, histVars, boundVars>>

\* The append throws: manual intervention, at the first failure.
SendUndoThrows(w) ==
  /\ worker[w].at = "executeUndo"
  /\ IF fresh[w]
     THEN Write([saga EXCEPT !.status = "manual_intervention"], {}, due, 0)
     ELSE UNCHANGED <<saga, due, fresh, queueVars>>
  /\ Leave(w)
  /\ UNCHANGED <<timedOut, sideVars, histVars, boundVars>>

AwaitUndo(w) ==
  /\ worker[w].at = "undoSent"
  /\ Owner(w)
  /\ Write([saga EXCEPT !.status = "waiting_external", !.step = worker[w].step, !.awaiting = TRUE],
           {w}, timedOut, 0)
  /\ Move(w, "enqueue", 0)
  /\ UNCHANGED <<timedOut, sideVars, histVars, boundVars>>

----------------------------------------------------------------------------
(* The participants, and SagaService.signal *)

\* A participant performs a command of the outbox.
Perform(c) ==
  /\ c \in sent \ done
  /\ done' = done \union {c}
  /\ UNCHANGED <<saga, timedOut, due, worker, fresh, queueVars, sent, histVars, boundVars>>

\* A signal names a step and not a command, and may be late or repeated.
MaySignal(s) == <<"do", s>> \in done \/ <<"undo", s>> \in done

\* The guard of signal: otherwise 409, and the participant's answer is lost.
Expected(s) == saga.status = "waiting_external" /\ saga.step = s

SignalDone(s) ==
  /\ MaySignal(s)
  /\ Expected(s)
  /\ ~saga.awaiting
  /\ Write(Succeeded(saga, s), {}, FALSE, IF s < LastStep THEN 1 ELSE 0)
  /\ UNCHANGED <<timedOut, worker, sideVars, histVars, boundVars>>

Refuse == failures < MaxFailures /\ failures' = failures + 1 /\ UNCHANGED <<ops, faults>>

SignalFailed(s) ==
  /\ Refuse
  /\ <<"do", s>> \in sent
  /\ Expected(s)
  /\ ~saga.awaiting
  /\ IF saga.attempts[s] >= MaxAttempts
     THEN Write(Recovered(saga), {}, due, 0)
     ELSE Write([saga EXCEPT !.status = "waiting_retry"], {}, TRUE, 1)
  /\ UNCHANGED <<timedOut, worker, sideVars, histVars>>

SignalUndone(s) ==
  /\ MaySignal(s)
  /\ Expected(s)
  /\ saga.awaiting
  /\ Write([saga EXCEPT !.status = "compensating", !.awaiting = FALSE, !.compensated = @ \union {s}],
           {}, FALSE, 1)
  /\ UNCHANGED <<timedOut, worker, sideVars, histVars, boundVars>>

\* The attempts of a compensation are written under a nested key and read as absent: always 1.
SignalUndoFailed(s) ==
  /\ Refuse
  /\ <<"undo", s>> \in sent
  /\ Expected(s)
  /\ saga.awaiting
  /\ IF 1 >= MaxAttempts
     THEN Write([saga EXCEPT !.status = "manual_intervention"], {}, due, 0)
     ELSE Write([saga EXCEPT !.status = "compensating", !.awaiting = FALSE], {}, FALSE, 1)
  /\ UNCHANGED <<timedOut, worker, sideVars, histVars>>

----------------------------------------------------------------------------
(* The operator: cancel, operatorRetry, operatorResume *)

Operate == ops < MaxOps /\ ops' = ops + 1 /\ UNCHANGED <<failures, faults>>

\* The guard of cancel.
Cancellable == saga.status \notin {"absent", "completed", "cancelled"}

Cancel ==
  /\ Operate
  /\ Cancellable
  /\ Write([saga EXCEPT !.cancel = TRUE, !.status = "pending"], {}, due, 1)
  /\ UNCHANGED <<timedOut, worker, sideVars, histVars>>

OperatorRetry ==
  /\ Operate
  /\ saga.status \in {"waiting_retry", "manual_intervention"}
  /\ Write([saga EXCEPT !.status = IF saga.compensated # {} THEN "compensating" ELSE "pending"],
           {}, TRUE, 1)
  /\ UNCHANGED <<timedOut, worker, sideVars, histVars>>

\* The step asked for may be any step of the definition; the default is the current one.
OperatorResume(s) ==
  /\ Operate
  /\ saga.status = "manual_intervention"
  /\ Write([saga EXCEPT !.status = IF saga.cancel THEN "compensating" ELSE "pending", !.step = s],
           {}, due, 1)
  /\ jumped' = (jumped \/ s > saga.step)
  /\ UNCHANGED <<timedOut, worker, sideVars, expired>>

----------------------------------------------------------------------------
WorkerStep(w) ==
  \/ TakeJob(w) \/ Conflict(w) \/ NothingToDo(w) \/ Recover(w) \/ StartStep(w)
  \/ Send(w) \/ SendThrows(w) \/ AwaitReply(w) \/ EnqueueDelayed(w)
  \/ StartUndo(w) \/ UndoFinished(w) \/ SendUndo(w) \/ SendUndoThrows(w) \/ AwaitUndo(w)

Signal(s) == SignalDone(s) \/ SignalFailed(s) \/ SignalUndone(s) \/ SignalUndoFailed(s)

Next ==
  \/ Start \/ Enqueue \/ EnqueueLost \/ WaitEnds \/ TimeoutPasses
  \/ Cancel \/ OperatorRetry
  \/ \E s \in Steps : Signal(s) \/ OperatorResume(s)
  \/ \E c \in Command : Perform(c)
  \/ \E w \in Workers : WorkerStep(w) \/ Crash(w)

Spec == Init /\ [][Next]_vars

\* The workers and the queue run, time passes; nobody has to signal or to operate, and
\* a participant acts on the commands it is sent.
FairSpec ==
  /\ Spec
  /\ WF_vars(Enqueue)
  /\ WF_vars(WaitEnds)
  /\ WF_vars(\E w \in Workers : worker[w].at = "idle" /\ TakeJob(w))
  /\ \A w \in Workers : WF_vars(worker[w].at # "idle" /\ WorkerStep(w))
  /\ \A c \in Command : WF_vars(Perform(c))

----------------------------------------------------------------------------
(* Properties *)

WorkerAt == {"idle", "read", "execute", "sent", "enqueue", "executeUndo", "undoSent"}

Document ==
  [status : Status, step : 0 .. LastStep, completed : Seq(Steps), compensated : SUBSET Steps,
   attempts : [Steps -> Nat], cancel : BOOLEAN, awaiting : BOOLEAN]

\* Types: completed lists each step once, and an attempt is counted for a step of the definition.
TypeOK ==
  /\ saga \in Document
  /\ \A i, j \in DOMAIN saga.completed : saga.completed[i] = saga.completed[j] => i = j
  /\ timedOut \in BOOLEAN /\ due \in BOOLEAN
  /\ worker \in [Workers -> [at : WorkerAt, step : 0 .. LastStep]]
  /\ fresh \in [Workers -> BOOLEAN]
  /\ jobs \in Nat /\ timer \in BOOLEAN /\ owed \in Nat
  /\ sent \subseteq Command /\ done \subseteq sent
  /\ expired \subseteq Steps /\ jumped \in BOOLEAN
  /\ failures \in 0 .. MaxFailures /\ ops \in 0 .. MaxOps /\ faults \in 0 .. MaxFaults

\* Unless an operator resumed past a step, a saga is completed only when the participants have
\* performed every one of its steps, whatever retries, duplicate jobs, stale workers and
\* recoveries came between (stepSucceeded, reached from signal only).
CompletedMeansPerformed ==
  saga.status = "completed" /\ ~jumped => \A s \in Steps : <<"do", s>> \in done

\* Compensation goes backwards: when a step is recorded as compensated, every reversible step
\* completed after it already is (compensate, signal), also when several workers race for it.
UndoLastFirst ==
  [][\A i \in DOMAIN saga.completed :
       saga.completed[i] \in saga'.compensated \ saga.compensated =>
         \A j \in DOMAIN saga.completed :
           j > i /\ saga.completed[j] \in Reversible => saga.completed[j] \in saga.compensated]_vars

\* A completed or cancelled saga never changes again: not by the job of an old wait, a late
\* signal, an operator, or a worker that read it before (transition's version filter).
TerminalIsFinal == [][saga.status \in {"completed", "cancelled"} => saga' = saga]_vars

\* While no process dies and no enqueue is lost, a saga on its way forward comes to an end or into
\* recovery, even when no participant ever answers: every wait has a job that ends it.
ForwardEnds ==
  (saga.status \in {"pending", "running", "waiting_external", "waiting_retry"})
    ~> (saga.status \in {"compensating"} \union Ended \/ faults > 0)

\* Expected of the design, and violated: a reversible step that a participant performed although
\* the saga gave it up as late does not survive the saga's cancellation without a compensation.
LateStepIsUndone ==
  saga.status = "cancelled" =>
    \A s \in Reversible \intersect expired : <<"do", s>> \in done => <<"undo", s>> \in sent

----------------------------------------------------------------------------
(* The inductive invariant behind TypeOK, CompletedMeansPerformed, UndoLastFirst and
   TerminalIsFinal (proved in SagaProofs) *)

AtStep(w) == worker[w].at \in {"execute", "sent"}
AtUndo(w) == worker[w].at \in {"executeUndo", "undoSent"}

\* Only a completed document has no step, and a worker that sends a command holds one.
StepInv ==
  /\ saga.step = 0 => saga.status = "completed"
  /\ \A w \in Workers : AtStep(w) \/ AtUndo(w) => worker[w].step \in Steps

\* Every reversible step completed after s is compensated.
NextToUndo(s) ==
  \A i, j \in DOMAIN saga.completed :
    saga.completed[i] = s /\ j > i /\ saga.completed[j] \in Reversible
      => saga.completed[j] \in saga.compensated

\* While its copy is the current one, the document is as the worker left it.
FreshInv ==
  \A w \in Workers : fresh[w] =>
    /\ AtStep(w) => saga.status = "running" /\ saga.step = worker[w].step
    /\ AtUndo(w) => saga.status = "compensating" /\ NextToUndo(worker[w].step)

\* Only completed steps are undone, and the document waits for them one at a time, backwards.
UndoInv ==
  /\ \A w \in Workers : AtUndo(w) => worker[w].step \in CompletedSteps
  /\ \A s \in Steps : <<"undo", s>> \in sent => s \in CompletedSteps
  /\ saga.status = "waiting_external" /\ saga.awaiting => NextToUndo(saga.step)

\* Nothing is skipped: what lies before the current step, and before any completed one, is done.
PerformedInv ==
  ~jumped =>
    /\ \A s \in Steps : s < saga.step => <<"do", s>> \in done
    /\ \A c \in CompletedSteps, s \in Steps : s <= c => <<"do", s>> \in done

IInv == TypeOK /\ StepInv /\ FreshInv /\ UndoInv /\ PerformedInv /\ CompletedMeansPerformed

============================================================================
