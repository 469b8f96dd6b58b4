------------------------------ MODULE SagaProofs ------------------------------
(***************************************************************************)
(* Proofs about Saga, for a definition of any length, any reversible       *)
(* steps, any number of workers and any bound on attempts, failures,       *)
(* operator calls and faults.                                              *)
(*                                                                         *)
(* IInv rests on the version: a worker whose copy is the current one finds *)
(* the document as it left it, so what it writes follows from what it      *)
(* read.  The actions fall into those that leave the document alone and    *)
(* those that write it; one lemma about each kind carries most of them.    *)
(***************************************************************************)
EXTENDS Saga, FiniteSetTheorems, TLAPS

----------------------------------------------------------------------------
(* The operators of the model *)

(* LastIndex picks the greatest of a nonempty set of indices. *)
LEMMA LastIndexIsLast ==
  ASSUME NEW n \in Nat, NEW I \in SUBSET (1 .. n), I # {}
  PROVE  LastIndex(I) \in I /\ \A j \in I : j <= LastIndex(I)
<1> DEFINE From(i) == {j \in I : i <= j}
           R == StrictSubsetOrdering(I)
           T == {From(i) : i \in I}
<1>1. IsFiniteSet(I)
  <2>1. IsFiniteSet(1 .. n)
    BY FS_Interval, 1 \in Int, n \in Int
  <2> QED
    BY <2>1, FS_Subset
<1>2. \A i \in I : IsFiniteSet(From(i))
  BY <1>1, FS_Subset
<1>3. T \subseteq FiniteSubsetsOf(I)
  BY <1>2 DEF FiniteSubsetsOf
<1>4. IsWellFoundedOn(R, FiniteSubsetsOf(I))
  BY FS_StrictSubsetOrderingWellFounded
<1>5. \E m \in T : \A t \in T : <<t, m>> \notin R
  <2> HIDE DEF R, T
  <2>1. T # {}
    BY DEF T
  <2> QED
    BY <1>3, <1>4, <2>1, WFMin
<1>6. PICK i \in I : \A j \in I : <<From(j), From(i)>> \notin R
  BY <1>5
<1>7. ASSUME NEW j \in I, i < j
      PROVE  FALSE
  <2>1. I \subseteq Nat /\ i \in Nat /\ j \in Nat
    OBVIOUS
  <2>2. From(j) \subseteq From(i)
    <3>1. \A k \in I : j <= k => i <= k
      BY <1>7, <2>1
    <3> QED
      BY <3>1
  <2>3. i \in From(i) /\ i \notin From(j)
    BY <1>7, <2>1
  <2> QED
    BY <1>6, <2>2, <2>3 DEF StrictSubsetOrdering
<1>8. \A j \in I : j <= i
  BY <1>7
<1> HIDE DEF R, T, From
<1>9. \E m \in I : \A j \in I : j <= m
  BY <1>8
<1> QED
  BY <1>9 DEF LastIndex

(* The completed steps are steps, and LastIndex names one of them. *)
LEMMA CompletedAreSteps ==
  ASSUME saga \in Document
  PROVE  /\ CompletedSteps \subseteq Steps
         /\ \A i \in DOMAIN saga.completed :
              saga.completed[i] \in CompletedSteps /\ saga.completed[i] \in Steps
         /\ DOMAIN saga.completed = 1 .. Len(saga.completed) /\ Len(saga.completed) \in Nat
  BY DEF Document, CompletedSteps

(* Recovered leaves what is completed and compensated alone, and ends or goes to a completed step. *)
LEMMA RecoveredDocument ==
  ASSUME saga \in Document
  PROVE  /\ Recovered(saga) \in Document
         /\ Recovered(saga).completed = saga.completed
         /\ Recovered(saga).compensated = saga.compensated
         /\ Recovered(saga).status \in {"compensating", "cancelled", "manual_intervention"}
         /\ Recovered(saga).step = saga.step \/ Recovered(saga).step \in CompletedSteps
<1> DEFINE I == {i \in DOMAIN saga.completed : saga.completed[i] \in Reversible}
<1>1. CASE I # {}
  <2>1. I \in SUBSET (1 .. Len(saga.completed)) /\ Len(saga.completed) \in Nat
    BY CompletedAreSteps
  <2>2. LastIndex(I) \in DOMAIN saga.completed
    BY <1>1, <2>1, LastIndexIsLast
  <2>3. /\ saga.completed[LastIndex(I)] \in CompletedSteps
        /\ saga.completed[LastIndex(I)] \in 0 .. LastStep
    <3> HIDE DEF I
    <3>1. /\ saga.completed[LastIndex(I)] \in CompletedSteps
          /\ saga.completed[LastIndex(I)] \in Steps
      BY <2>2, CompletedAreSteps
    <3> QED
      BY <3>1, SagaAssumption DEF Steps
  <2>4. Recovered(saga)
          = [saga EXCEPT !.status = "compensating", !.step = saga.completed[LastIndex(I)]]
    BY <1>1 DEF Recovered
  <2> HIDE DEF I
  <2> QED
    BY <2>3, <2>4 DEF Document, Status
<1>2. CASE I = {}
  BY <1>2 DEF Recovered, Document, Status
<1> QED
  BY <1>1, <1>2

(* Succeeded adds the step to the completed ones and goes to the next, or completes the saga. *)
LEMMA SucceededDocument ==
  ASSUME saga \in Document, NEW s \in Steps,
         \A i, j \in DOMAIN saga.completed : saga.completed[i] = saga.completed[j] => i = j,
         NEW new, new = Succeeded(saga, s)
  PROVE  /\ new \in Document
         /\ \A i, j \in DOMAIN new.completed : new.completed[i] = new.completed[j] => i = j
         /\ {new.completed[i] : i \in DOMAIN new.completed} = CompletedSteps \union {s}
         /\ new.compensated = saga.compensated
         /\ new.status = IF s < LastStep THEN "pending" ELSE "completed"
         /\ new.step = IF s < LastStep THEN s + 1 ELSE 0
<1> DEFINE seq == saga.completed
<1>1. /\ new.completed = IF s \in CompletedSteps THEN seq ELSE Append(seq, s)
      /\ new.compensated = saga.compensated
      /\ new.status = IF s < LastStep THEN "pending" ELSE "completed"
      /\ new.step = IF s < LastStep THEN s + 1 ELSE 0
      /\ new.attempts = saga.attempts /\ new.cancel = saga.cancel /\ new.awaiting = FALSE
      /\ new = [saga EXCEPT !.status = new.status, !.step = new.step, !.completed = new.completed,
                            !.awaiting = FALSE]
  BY DEF Succeeded, Document
<1>2. seq \in Seq(Steps)
  BY DEF Document
<1>3. new.step \in 0 .. LastStep /\ new.status \in Status
  BY <1>1, SagaAssumption DEF Steps, Status
<1>4. CASE s \in CompletedSteps
  <2>1. new.completed = seq
    BY <1>1, <1>4
  <2>2. new \in Document
    BY <1>1, <1>3, <2>1 DEF Document
  <2>3. {new.completed[i] : i \in DOMAIN new.completed} = CompletedSteps \union {s}
    BY <2>1, <1>4 DEF CompletedSteps
  <2>4. \A i, j \in DOMAIN new.completed : new.completed[i] = new.completed[j] => i = j
    BY <2>1
  <2> QED
    BY <1>1, <2>2, <2>3, <2>4
<1>5. CASE s \notin CompletedSteps
  <2>1. new.completed = Append(seq, s) /\ new.completed \in Seq(Steps)
    BY <1>1, <1>2, <1>5
  <2>2. /\ DOMAIN new.completed = 1 .. Len(seq) + 1 /\ DOMAIN seq = 1 .. Len(seq)
        /\ Len(seq) \in Nat
        /\ \A i \in 1 .. Len(seq) : new.completed[i] = seq[i]
        /\ new.completed[Len(seq) + 1] = s
    BY <1>2, <2>1
  <2>3. \A i \in DOMAIN seq : seq[i] # s
    BY <1>5 DEF CompletedSteps
  <2>4. \A i, j \in DOMAIN new.completed : new.completed[i] = new.completed[j] => i = j
    BY <2>2, <2>3
  <2>5. {new.completed[i] : i \in DOMAIN new.completed} = CompletedSteps \union {s}
    BY <2>2 DEF CompletedSteps
  <2>6. new \in Document
    <3> HIDE DEF seq
    <3> QED
      BY <1>1, <1>3, <2>1 DEF Document
  <2> QED
    BY <1>1, <2>4, <2>5, <2>6
<1> QED
  BY <1>4, <1>5

----------------------------------------------------------------------------
(* TypeOK *)

(* Init gives IInv. *)
LEMMA InitInv == Init => IInv
<1> SUFFICES ASSUME Init
             PROVE  IInv
  OBVIOUS
<1>1. TypeOK
  <2>1. saga \in Document /\ saga.completed = <<>>
    BY SagaAssumption DEF Init, Document, Status
  <2>2. worker \in [Workers -> [at : WorkerAt, step : 0 .. LastStep]]
    BY SagaAssumption DEF Init, Idle, WorkerAt
  <2>3. fresh \in [Workers -> BOOLEAN]
    BY Zenon DEF Init
  <2>4. DOMAIN saga.completed = {}
    BY <2>1
  <2>5. timedOut \in BOOLEAN /\ due \in BOOLEAN /\ timer \in BOOLEAN /\ jumped \in BOOLEAN
    BY Zenon DEF Init
  <2>6. /\ jobs \in Nat /\ owed \in Nat
        /\ failures \in 0 .. MaxFailures /\ ops \in 0 .. MaxOps /\ faults \in 0 .. MaxFaults
    BY SagaAssumption DEF Init
  <2>7. sent \subseteq Command /\ done \subseteq sent /\ expired \subseteq Steps
    BY Zenon DEF Init
  <2> QED
    BY <2>1, <2>2, <2>3, <2>4, <2>5, <2>6, <2>7 DEF TypeOK
<1>2. CompletedSteps = {}
  BY DEF Init, CompletedSteps
<1>3. StepInv /\ FreshInv /\ UndoInv /\ PerformedInv /\ CompletedMeansPerformed
  BY <1>2, SagaAssumption DEF Init, Idle, StepInv, FreshInv, UndoInv, PerformedInv, NextToUndo,
     CompletedMeansPerformed, AtStep, AtUndo, Steps
<1> QED
  BY <1>1, <1>3 DEF IInv

(* Moving or freeing a worker keeps the type of the workers. *)
LEMMA WorkerType ==
  ASSUME TypeOK, NEW w \in Workers,
         Leave(w) \/ \E at \in WorkerAt, step \in 0 .. LastStep : Move(w, at, step)
  PROVE  worker' \in [Workers -> [at : WorkerAt, step : 0 .. LastStep]]
  BY SagaAssumption DEF TypeOK, Move, Leave, Idle, WorkerAt

(* What an update leaves of the copies and the queue. *)
LEMMA WriteFacts ==
  ASSUME TypeOK, NEW new, NEW mine, NEW dueNow \in BOOLEAN, NEW calls \in Nat,
         Write(new, mine, dueNow, calls)
  PROVE  /\ saga' = new /\ due' \in BOOLEAN /\ timer' \in BOOLEAN
         /\ fresh' \in [Workers -> BOOLEAN]
         /\ \A w \in Workers : fresh'[w] => w \in mine /\ fresh[w]
         /\ jobs' \in Nat /\ owed' \in Nat
<1>1. saga' = new /\ due' \in BOOLEAN /\ timer' \in BOOLEAN
  BY DEF Write
<1>2. fresh' \in [Workers -> BOOLEAN]
  BY Zenon DEF Write
<1>3. \A w \in Workers : fresh'[w] => w \in mine /\ fresh[w]
  BY Zenon DEF Write
<1>4. jobs' \in Nat /\ owed' \in Nat
  BY DEF TypeOK, Write
<1> QED
  BY <1>1, <1>2, <1>3, <1>4

(* The steps that leave the document alone. *)
LEMMA OtherType ==
  ASSUME IInv,
         \/ Enqueue \/ EnqueueLost \/ WaitEnds \/ TimeoutPasses
         \/ \E c \in Command : Perform(c)
         \/ \E w \in Workers : TakeJob(w) \/ Crash(w) \/ Conflict(w) \/ NothingToDo(w) \/ Send(w)
                             \/ EnqueueDelayed(w) \/ SendUndo(w)
  PROVE  TypeOK'
<1>1. TypeOK /\ StepInv
  BY DEF IInv
<1>2. CASE Enqueue \/ EnqueueLost
  BY <1>1, <1>2, SagaAssumption DEF Enqueue, EnqueueLost, Fault, TypeOK, sideVars, histVars, boundVars
<1>3. CASE WaitEnds \/ TimeoutPasses
  BY <1>1, <1>3 DEF WaitEnds, TimeoutPasses, TypeOK, queueVars, sideVars, histVars, boundVars
<1>4. ASSUME NEW c \in Command, Perform(c)
      PROVE  TypeOK'
  BY <1>1, <1>4 DEF Perform, TypeOK, queueVars, histVars, boundVars
<1>5. ASSUME NEW w \in Workers,
             TakeJob(w) \/ Crash(w) \/ Conflict(w) \/ NothingToDo(w) \/ EnqueueDelayed(w)
      PROVE  TypeOK'
  <2>1. Leave(w) \/ \E at \in WorkerAt, step \in 0 .. LastStep : Move(w, at, step)
    BY <1>5, SagaAssumption DEF TakeJob, Crash, Conflict, NothingToDo, EnqueueDelayed, WorkerAt
  <2>2. worker' \in [Workers -> [at : WorkerAt, step : 0 .. LastStep]]
    BY <1>1, <2>1, WorkerType
  <2>3. UNCHANGED <<saga, timedOut, due, owed, sideVars, histVars, failures, ops>>
    BY <1>5 DEF TakeJob, Crash, Conflict, NothingToDo, EnqueueDelayed, Fault, queueVars, boundVars
  <2>4. jobs' \in Nat
    BY <1>1, <1>5 DEF TakeJob, Crash, Conflict, NothingToDo, EnqueueDelayed, TypeOK, queueVars
  <2>7. timer' \in BOOLEAN
    BY <1>1, <1>5 DEF TakeJob, Crash, Conflict, NothingToDo, EnqueueDelayed, TypeOK, queueVars
  <2>5. fresh' \in [Workers -> BOOLEAN]
    BY <1>1, <1>5 DEF TakeJob, Crash, Conflict, NothingToDo, EnqueueDelayed, TypeOK
  <2>6. faults' \in 0 .. MaxFaults
    BY <1>1, <1>5, SagaAssumption
    DEF TakeJob, Crash, Conflict, NothingToDo, EnqueueDelayed, Fault, TypeOK, boundVars
  <2> QED
    BY <1>1, <2>2, <2>3, <2>4, <2>5, <2>6, <2>7 DEF TypeOK, sideVars, histVars
<1>6. ASSUME NEW w \in Workers, Send(w) \/ SendUndo(w)
      PROVE  TypeOK'
  <2>1. worker[w].step \in Steps /\ worker[w].step \in 0 .. LastStep
    BY <1>1, <1>6, SagaAssumption DEF StepInv, AtStep, AtUndo, Send, SendUndo, Steps
  <2>2. \E at \in WorkerAt : Move(w, at, worker[w].step)
    BY <1>6 DEF Send, SendUndo, WorkerAt
  <2>3. worker' \in [Workers -> [at : WorkerAt, step : 0 .. LastStep]]
    BY <1>1, <2>1, <2>2, WorkerType
  <2>4. sent' \subseteq Command /\ sent \subseteq sent'
    BY <1>1, <1>6, <2>1 DEF Send, SendUndo, TypeOK, Command
  <2>5. UNCHANGED <<saga, timedOut, due, fresh, queueVars, done, histVars, boundVars>>
    BY <1>6 DEF Send, SendUndo
  <2> QED
    BY <1>1, <2>3, <2>4, <2>5 DEF TypeOK, queueVars, histVars, boundVars
<1> QED
  BY <1>2, <1>3, <1>4, <1>5, <1>6

----------------------------------------------------------------------------
(* The steps that write the document *)

(* The update keeps what is completed and what is compensated, completes nothing, goes to a step
   that is not new, and leaves no other copy of the document current. *)
Rewrites(mine) ==
  /\ saga' \in Document
  /\ saga'.completed = saga.completed
  /\ saga.compensated \subseteq saga'.compensated
  /\ saga'.status # "completed" /\ saga'.step \in Steps
  /\ saga'.step <= saga.step \/ saga'.step \in CompletedSteps \/ jumped'
  /\ jumped => jumped'
  /\ \A w \in Workers : fresh'[w] => w \in mine /\ fresh[w]

(* The rest of the state is typed. *)
RestTyped ==
  /\ timedOut' \in BOOLEAN /\ due' \in BOOLEAN
  /\ worker' \in [Workers -> [at : WorkerAt, step : 0 .. LastStep]]
  /\ fresh' \in [Workers -> BOOLEAN]
  /\ jobs' \in Nat /\ timer' \in BOOLEAN /\ owed' \in Nat
  /\ sent' = sent /\ done' = done
  /\ expired' \subseteq Steps /\ jumped' \in BOOLEAN
  /\ failures' \in 0 .. MaxFailures /\ ops' \in 0 .. MaxOps /\ faults' \in 0 .. MaxFaults

(* Such an update keeps IInv, if what the workers then hold and wait for is right. *)
LEMMA RewritesKeeps ==
  ASSUME IInv, NEW mine, Rewrites(mine), RestTyped, FreshInv',
         \A w \in Workers : (AtStep(w) \/ AtUndo(w))' => worker'[w].step \in Steps,
         \A w \in Workers : AtUndo(w)' => worker'[w].step \in CompletedSteps,
         saga'.status = "waiting_external" /\ saga'.awaiting => NextToUndo(saga'.step)
  PROVE  IInv'
<1>1. TypeOK'
  BY DEF IInv, TypeOK, Rewrites, RestTyped
<1>2. CompletedSteps' = CompletedSteps
  BY DEF CompletedSteps, Rewrites
<1>3. StepInv'
  BY SagaAssumption DEF StepInv, Rewrites, Steps, AtStep, AtUndo
<1>4. \A s : NextToUndo(s) => NextToUndo(s)'
  BY DEF NextToUndo, Rewrites
<1>5. UndoInv'
  BY <1>2, <1>4 DEF IInv, UndoInv, RestTyped, Rewrites
<1>6. PerformedInv'
  <2>1. saga.step \in 0 .. LastStep /\ CompletedSteps \subseteq Steps
    BY CompletedAreSteps DEF IInv, TypeOK, Document
  <2>2. ASSUME ~jumped', NEW s \in Steps, s < saga'.step
        PROVE  <<"do", s>> \in done
    <3>1. saga'.step \in Steps /\ ~jumped
      BY <2>2 DEF Rewrites
    <3>2. CASE saga'.step <= saga.step
      BY <2>1, <2>2, <3>1, <3>2, SagaAssumption DEF IInv, PerformedInv, Steps
    <3>3. CASE saga'.step \in CompletedSteps
      BY <2>1, <2>2, <3>1, <3>3, SagaAssumption DEF IInv, PerformedInv, Steps
    <3> QED
      BY <2>2, <3>2, <3>3 DEF Rewrites
  <2> QED
    BY <1>2, <2>2 DEF IInv, PerformedInv, Rewrites, RestTyped
<1>7. CompletedMeansPerformed'
  BY DEF CompletedMeansPerformed, Rewrites
<1> QED
  BY <1>1, <1>3, <1>5, <1>6, <1>7 DEF IInv

(* In particular when no worker with a current copy is at a step afterwards. *)
LEMMA PassiveKeeps ==
  ASSUME IInv, NEW mine, Rewrites(mine), RestTyped,
         \A w \in Workers : worker'[w] = worker[w] \/ ~(AtStep(w) \/ AtUndo(w))',
         \A w \in Workers : fresh'[w] => ~(AtStep(w) \/ AtUndo(w))',
         saga'.status = "waiting_external" /\ saga'.awaiting => NextToUndo(saga'.step)
  PROVE  IInv'
<1>1. FreshInv'
  BY DEF FreshInv
<1>2. \A w \in Workers : (AtStep(w) \/ AtUndo(w))' => worker'[w].step \in Steps
  BY DEF IInv, StepInv, AtStep, AtUndo
<1>3. \A w \in Workers : AtUndo(w)' => worker'[w].step \in CompletedSteps
  BY DEF IInv, UndoInv, AtStep, AtUndo
<1> QED
  BY <1>1, <1>2, <1>3, RewritesKeeps

(* A call of the API or a signal that writes the document: the workers stay where they are. *)
LEMMA CallKeeps ==
  ASSUME IInv, NEW new \in Document, NEW dueNow \in BOOLEAN, NEW calls \in Nat,
         Write(new, {}, dueNow, calls),
         UNCHANGED <<timedOut, worker, sideVars, expired>>, jumped' \in BOOLEAN,
         UNCHANGED boundVars \/ Refuse \/ Operate,
         new.completed = saga.completed, saga.compensated \subseteq new.compensated,
         new.status \notin {"completed", "waiting_external"}, new.step \in Steps,
         new.step <= saga.step \/ new.step \in CompletedSteps \/ jumped',
         jumped => jumped'
  PROVE  IInv'
<1>1. /\ saga' = new /\ due' \in BOOLEAN /\ timer' \in BOOLEAN /\ fresh' \in [Workers -> BOOLEAN]
      /\ \A w \in Workers : ~fresh'[w]
      /\ jobs' \in Nat /\ owed' \in Nat
  BY WriteFacts DEF IInv
<1>2. failures' \in 0 .. MaxFailures /\ ops' \in 0 .. MaxOps /\ faults' \in 0 .. MaxFaults
  BY SagaAssumption DEF IInv, TypeOK, Refuse, Operate, boundVars
<1>3. RestTyped
  BY <1>1, <1>2 DEF IInv, TypeOK, RestTyped, sideVars
<1>4. Rewrites({})
  BY <1>1 DEF Rewrites
<1> QED
  BY <1>1, <1>3, <1>4, PassiveKeeps

LEMMA StartKeeps ==
  ASSUME IInv, Start
  PROVE  IInv'
<1> DEFINE new == [saga EXCEPT !.status = "pending"]
<1>1. saga \in Document /\ saga.step \in Steps /\ jumped \in BOOLEAN
  BY SagaAssumption DEF IInv, TypeOK, StepInv, Start, Document, Steps
<1>2. /\ new \in Document /\ new.completed = saga.completed /\ new.compensated = saga.compensated
      /\ new.status = "pending" /\ new.step = saga.step
  BY <1>1 DEF Document, Status
<1>3. Write(new, {}, FALSE, 1) /\ UNCHANGED <<timedOut, worker, sideVars, histVars, boundVars>>
  BY DEF Start
<1> HIDE DEF new
<1>4. new.step <= saga.step
  BY <1>1, <1>2, SagaAssumption DEF Steps
<1> QED
  BY <1>1, <1>2, <1>3, <1>4, CallKeeps DEF histVars

LEMMA CancelKeeps ==
  ASSUME IInv, Cancel
  PROVE  IInv'
<1> DEFINE new == [saga EXCEPT !.cancel = TRUE, !.status = "pending"]
<1>1. saga \in Document /\ saga.step \in Steps /\ jumped \in BOOLEAN /\ due \in BOOLEAN
  BY SagaAssumption DEF IInv, TypeOK, StepInv, Cancel, Document, Steps, Cancellable
<1>2. new \in Document /\ new.completed = saga.completed
  BY <1>1, SagaAssumption DEF Document, Status, Steps
<1>3. new.compensated = saga.compensated /\ new.status = "pending" /\ new.step = saga.step
  BY <1>1 DEF Document
<1>4. Write(new, {}, due, 1)
  BY DEF Cancel
<1>5. Operate /\ UNCHANGED <<timedOut, worker, sideVars, expired>>
  BY DEF Cancel, histVars
<1>6. jumped' = jumped
  BY DEF Cancel, histVars
<1> HIDE DEF new
<1>7. new.step \in Steps /\ (new.step <= saga.step \/ jumped') /\ jumped' \in BOOLEAN /\ (jumped => jumped')
  BY <1>1, <1>3, <1>6, SagaAssumption DEF Steps
<1> QED
  BY <1>1, <1>2, <1>3, <1>4, <1>5, <1>7, CallKeeps

LEMMA OperatorRetryKeeps ==
  ASSUME IInv, OperatorRetry
  PROVE  IInv'
<1> DEFINE new == [saga EXCEPT !.status = IF saga.compensated # {} THEN "compensating" ELSE "pending"]
<1>1. saga \in Document /\ saga.step \in Steps /\ jumped \in BOOLEAN /\ due \in BOOLEAN
  BY SagaAssumption DEF IInv, TypeOK, StepInv, OperatorRetry, Document, Steps
<1>2. new \in Document /\ new.completed = saga.completed
  BY <1>1, SagaAssumption DEF Document, Status, Steps
<1>3. new.compensated = saga.compensated /\ new.status \in {"compensating", "pending"} /\ new.step = saga.step
  BY <1>1 DEF Document
<1>4. Write(new, {}, TRUE, 1)
  BY DEF OperatorRetry
<1>5. Operate /\ UNCHANGED <<timedOut, worker, sideVars, expired>>
  BY DEF OperatorRetry, histVars
<1>6. jumped' = jumped
  BY DEF OperatorRetry, histVars
<1> HIDE DEF new
<1>7. new.step \in Steps /\ (new.step <= saga.step \/ jumped') /\ jumped' \in BOOLEAN /\ (jumped => jumped')
  BY <1>1, <1>3, <1>6, SagaAssumption DEF Steps
<1> QED
  BY <1>1, <1>2, <1>3, <1>4, <1>5, <1>7, CallKeeps

LEMMA OperatorResumeKeeps ==
  ASSUME IInv, NEW s \in Steps, OperatorResume(s)
  PROVE  IInv'
<1> DEFINE status == IF saga.cancel THEN "compensating" ELSE "pending"
           new == [saga EXCEPT !.status = status, !.step = s]
<1>1. saga \in Document /\ saga.step \in Steps /\ jumped \in BOOLEAN /\ due \in BOOLEAN
  BY SagaAssumption DEF IInv, TypeOK, StepInv, OperatorResume, Document, Steps
<1>2. status \in {"compensating", "pending"} /\ status \in Status /\ s \in 0 .. LastStep
  BY SagaAssumption DEF Status, Steps
<1>3. Write(new, {}, due, 1) /\ Operate /\ UNCHANGED <<timedOut, worker, sideVars, expired>>
  BY DEF OperatorResume
<1>4. jumped' = (jumped \/ s > saga.step)
  BY DEF OperatorResume
<1> HIDE DEF status
<1>5. new \in Document /\ new.completed = saga.completed
  BY <1>1, <1>2 DEF Document
<1>6. new.compensated = saga.compensated /\ new.status = status /\ new.step = s
  BY <1>1 DEF Document
<1> HIDE DEF new
<1>7. jumped' \in BOOLEAN /\ (jumped => jumped') /\ (s > saga.step => jumped')
  BY Zenon, <1>4
<1>8. s <= saga.step \/ s > saga.step
  BY <1>1, SagaAssumption DEF Steps
<1> QED
  BY <1>1, <1>2, <1>3, <1>5, <1>6, <1>7, <1>8, CallKeeps

LEMMA SignalUndoneKeeps ==
  ASSUME IInv, NEW s \in Steps, SignalUndone(s)
  PROVE  IInv'
<1> DEFINE new == [saga EXCEPT !.status = "compensating", !.awaiting = FALSE, !.compensated = @ \union {s}]
<1>1. saga \in Document /\ saga.step \in Steps /\ jumped \in BOOLEAN /\ due \in BOOLEAN
  BY SagaAssumption DEF IInv, TypeOK, StepInv, SignalUndone, Document, Steps, Expected
<1>2. new \in Document /\ new.completed = saga.completed
  BY <1>1, SagaAssumption DEF Document, Status, Steps
<1>3. new.compensated = saga.compensated \union {s} /\ new.status = "compensating" /\ new.step = saga.step
  BY <1>1 DEF Document
<1>4. Write(new, {}, FALSE, 1)
  BY DEF SignalUndone
<1>5. UNCHANGED boundVars /\ UNCHANGED <<timedOut, worker, sideVars, expired>>
  BY DEF SignalUndone, histVars
<1>6. jumped' = jumped
  BY DEF SignalUndone, histVars
<1> HIDE DEF new
<1>7. new.step \in Steps /\ (new.step <= saga.step \/ jumped') /\ jumped' \in BOOLEAN /\ (jumped => jumped')
  BY <1>1, <1>3, <1>6, SagaAssumption DEF Steps
<1> QED
  BY <1>1, <1>2, <1>3, <1>4, <1>5, <1>7, CallKeeps

LEMMA SignalFailedKeeps ==
  ASSUME IInv, NEW s \in Steps, SignalFailed(s)
  PROVE  IInv'
<1>1. saga \in Document /\ saga.step \in Steps /\ jumped \in BOOLEAN /\ due \in BOOLEAN
  BY SagaAssumption DEF IInv, TypeOK, StepInv, SignalFailed, Expected, Document, Steps
<1>2. UNCHANGED <<timedOut, worker, sideVars, expired, jumped>> /\ Refuse
  BY DEF SignalFailed, histVars
<1>3. saga.step <= saga.step
  BY <1>1, SagaAssumption DEF Steps
<1>4. CASE saga.attempts[s] >= MaxAttempts
  <2>1. Write(Recovered(saga), {}, due, 0)
    BY <1>4 DEF SignalFailed
  <2>2. Recovered(saga).step \in Steps
    BY <1>1, RecoveredDocument, CompletedAreSteps
  <2> QED
    BY <1>1, <1>2, <1>3, <2>1, <2>2, RecoveredDocument, CallKeeps
<1>5. CASE ~(saga.attempts[s] >= MaxAttempts)
  <2> DEFINE new == [saga EXCEPT !.status = "waiting_retry"]
  <2>1. new \in Document /\ new.completed = saga.completed
    BY <1>1 DEF Document, Status
  <2>2. new.compensated = saga.compensated /\ new.status = "waiting_retry" /\ new.step = saga.step
    BY <1>1 DEF Document
  <2>3. Write(new, {}, TRUE, 1)
    BY <1>5 DEF SignalFailed
  <2> HIDE DEF new
  <2> QED
    BY <1>1, <1>2, <1>3, <2>1, <2>2, <2>3, CallKeeps
<1> QED
  BY <1>4, <1>5

LEMMA SignalUndoFailedKeeps ==
  ASSUME IInv, NEW s \in Steps, SignalUndoFailed(s)
  PROVE  IInv'
<1>1. saga \in Document /\ saga.step \in Steps /\ jumped \in BOOLEAN /\ due \in BOOLEAN
  BY SagaAssumption DEF IInv, TypeOK, StepInv, SignalUndoFailed, Expected, Document, Steps
<1>2. UNCHANGED <<timedOut, worker, sideVars, expired, jumped>> /\ Refuse
  BY DEF SignalUndoFailed, histVars
<1>3. saga.step <= saga.step
  BY <1>1, SagaAssumption DEF Steps
<1>4. CASE 1 >= MaxAttempts
  <2> DEFINE new == [saga EXCEPT !.status = "manual_intervention"]
  <2>1. new \in Document /\ new.completed = saga.completed
    BY <1>1 DEF Document, Status
  <2>2. /\ new.compensated = saga.compensated /\ new.status = "manual_intervention"
        /\ new.step = saga.step
    BY <1>1 DEF Document
  <2>3. Write(new, {}, due, 0)
    BY <1>4 DEF SignalUndoFailed
  <2> HIDE DEF new
  <2> QED
    BY <1>1, <1>2, <1>3, <2>1, <2>2, <2>3, CallKeeps
<1>5. CASE ~(1 >= MaxAttempts)
  <2> DEFINE new == [saga EXCEPT !.status = "compensating", !.awaiting = FALSE]
  <2>1. new \in Document /\ new.completed = saga.completed
    BY <1>1 DEF Document, Status
  <2>2. new.compensated = saga.compensated /\ new.status = "compensating" /\ new.step = saga.step
    BY <1>1 DEF Document
  <2>3. Write(new, {}, FALSE, 1)
    BY <1>5 DEF SignalUndoFailed
  <2> HIDE DEF new
  <2> QED
    BY <1>1, <1>2, <1>3, <2>1, <2>2, <2>3, CallKeeps
<1> QED
  BY <1>4, <1>5

(* A step is performed before the saga counts it: the participant did it, or undid what it did. *)
LEMMA SignalDoneKeeps ==
  ASSUME IInv, NEW s \in Steps, SignalDone(s)
  PROVE  IInv'
<1> DEFINE new == Succeeded(saga, s)
           enqueues == IF s < LastStep THEN 1 ELSE 0
<1>1. saga \in Document /\ saga.step = s /\ saga.status = "waiting_external"
  BY DEF IInv, TypeOK, SignalDone, Expected
<1>2. /\ Write(new, {}, FALSE, enqueues)
      /\ UNCHANGED <<timedOut, worker, sideVars, histVars, boundVars>>
  BY DEF SignalDone
<1>3. /\ new \in Document
      /\ \A i, j \in DOMAIN new.completed : new.completed[i] = new.completed[j] => i = j
      /\ {new.completed[i] : i \in DOMAIN new.completed} = CompletedSteps \union {s}
      /\ new.status = IF s < LastStep THEN "pending" ELSE "completed"
      /\ new.step = IF s < LastStep THEN s + 1 ELSE 0
  BY <1>1, SucceededDocument DEF IInv, TypeOK
<1> HIDE DEF new
<1>4. /\ saga' = new /\ due' \in BOOLEAN /\ timer' \in BOOLEAN /\ fresh' \in [Workers -> BOOLEAN]
      /\ \A w \in Workers : ~fresh'[w]
      /\ jobs' \in Nat /\ owed' \in Nat
  <2>1. FALSE \in BOOLEAN /\ enqueues \in Nat
    OBVIOUS
  <2> HIDE DEF enqueues
  <2>2. TypeOK /\ Write(new, {}, FALSE, enqueues)
    BY <1>2 DEF IInv
  <2>3. /\ saga' = new /\ due' \in BOOLEAN /\ timer' \in BOOLEAN
        /\ fresh' \in [Workers -> BOOLEAN]
        /\ \A w \in Workers : fresh'[w] => w \in {} /\ fresh[w]
        /\ jobs' \in Nat /\ owed' \in Nat
    BY <2>1, <2>2, WriteFacts, Zenon
  <2> QED
    BY <2>3
<1>5. TypeOK'
  BY <1>2, <1>3, <1>4 DEF IInv, TypeOK, sideVars, histVars, boundVars
<1>6. CompletedSteps' = CompletedSteps \union {s}
  BY <1>3, <1>4 DEF CompletedSteps
<1>7. StepInv' /\ FreshInv'
  BY <1>2, <1>3, <1>4, SagaAssumption DEF IInv, StepInv, FreshInv, AtStep, AtUndo, Steps
<1>8. UndoInv'
  BY <1>2, <1>3, <1>4, <1>6 DEF IInv, UndoInv, AtUndo, sideVars
<1>9. ASSUME ~jumped
      PROVE  \A x \in Steps : x <= s => <<"do", x>> \in done
  <2>1. \A x \in Steps : x < s => <<"do", x>> \in done
    BY <1>1, <1>9 DEF IInv, PerformedInv
  <2>2. CASE <<"do", s>> \in done
    BY <2>1, <2>2, SagaAssumption DEF Steps
  <2>3. CASE <<"undo", s>> \in done
    <3>1. s \in CompletedSteps
      BY <2>3 DEF IInv, TypeOK, UndoInv
    <3> QED
      BY <1>9, <3>1 DEF IInv, PerformedInv
  <2> QED
    BY <2>2, <2>3 DEF SignalDone, MaySignal
<1>10. PerformedInv'
  <2>1. \A x \in Steps : x < new.step => x <= s
    BY <1>3, SagaAssumption DEF Steps
  <2> QED
    BY <1>2, <1>4, <1>6, <1>9, <2>1 DEF IInv, PerformedInv, sideVars, histVars
<1>11. CompletedMeansPerformed'
  <2>1. new.status = "completed" => \A x \in Steps : x <= s
    BY <1>3, SagaAssumption DEF Steps
  <2> QED
    BY <1>2, <1>4, <1>9, <2>1 DEF CompletedMeansPerformed, sideVars, histVars
<1> QED
  BY <1>5, <1>7, <1>8, <1>10, <1>11 DEF IInv

----------------------------------------------------------------------------
(* The workers *)

(* Moving a worker, or freeing it, leaves the others where they are. *)
LEMMA WorkerMoves ==
  ASSUME TypeOK, NEW w \in Workers, NEW at \in WorkerAt, NEW step \in 0 .. LastStep, Move(w, at, step)
  PROVE  /\ worker' \in [Workers -> [at : WorkerAt, step : 0 .. LastStep]]
         /\ \A x \in Workers : x # w => worker'[x] = worker[x]
         /\ worker'[w].at = at /\ worker'[w].step = step
  BY DEF TypeOK, Move

LEMMA WorkerLeaves ==
  ASSUME TypeOK, NEW w \in Workers, Leave(w)
  PROVE  /\ worker' \in [Workers -> [at : WorkerAt, step : 0 .. LastStep]]
         /\ \A x \in Workers : x # w => worker'[x] = worker[x]
         /\ worker'[w].at = "idle"
  BY SagaAssumption DEF TypeOK, Leave, Idle, WorkerAt

(* The rest of the state after a worker's update. *)
LEMMA WorkerWrites ==
  ASSUME IInv, NEW new, NEW mine, NEW dueNow \in BOOLEAN, Write(new, mine, dueNow, 0),
         worker' \in [Workers -> [at : WorkerAt, step : 0 .. LastStep]],
         UNCHANGED <<timedOut, sideVars, jumped, boundVars>>, expired' \subseteq Steps
  PROVE  /\ RestTyped /\ saga' = new
         /\ \A x \in Workers : fresh'[x] => x \in mine /\ fresh[x]
<1>1. /\ saga' = new /\ due' \in BOOLEAN /\ timer' \in BOOLEAN /\ fresh' \in [Workers -> BOOLEAN]
      /\ \A x \in Workers : fresh'[x] => x \in mine /\ fresh[x]
      /\ jobs' \in Nat /\ owed' \in Nat
  BY WriteFacts, 0 \in Nat DEF IInv
<1> QED
  BY <1>1 DEF IInv, TypeOK, RestTyped, sideVars, boundVars

(* After its update the worker has left, or only has the delayed job of the wait to enqueue. *)
LEMMA EndKeeps ==
  ASSUME IInv, NEW w \in Workers, NEW new \in Document, NEW mine,
         NEW dueNow \in BOOLEAN, Write(new, mine, dueNow, 0), Leave(w) \/ Move(w, "enqueue", 0),
         mine \subseteq {w},
         UNCHANGED <<timedOut, sideVars, jumped, boundVars>>, expired' \subseteq Steps,
         new.completed = saga.completed, new.compensated = saga.compensated,
         new.status # "completed", new.step \in Steps,
         new.step = saga.step \/ new.step \in CompletedSteps,
         new.status = "waiting_external" /\ new.awaiting => NextToUndo(new.step)
  PROVE  IInv'
<1>1. "enqueue" \in WorkerAt /\ 0 \in 0 .. LastStep /\ TypeOK
  BY SagaAssumption DEF WorkerAt, IInv
<1>2. /\ worker' \in [Workers -> [at : WorkerAt, step : 0 .. LastStep]]
      /\ \A x \in Workers : x # w => worker'[x] = worker[x]
      /\ worker'[w].at \in {"idle", "enqueue"}
  BY <1>1, WorkerMoves, WorkerLeaves
<1>3. /\ RestTyped /\ saga' = new
      /\ \A x \in Workers : fresh'[x] => x \in mine /\ fresh[x]
  BY <1>2, WorkerWrites
<1>4. saga.step <= saga.step
  BY SagaAssumption DEF IInv, TypeOK, Document
<1>5. Rewrites(mine)
  BY <1>3, <1>4 DEF Rewrites
<1>6. \A x \in Workers : worker'[x] = worker[x] \/ ~(AtStep(x) \/ AtUndo(x))'
  BY <1>2 DEF AtStep, AtUndo
<1>7. \A x \in Workers : fresh'[x] => ~(AtStep(x) \/ AtUndo(x))'
  BY <1>2, <1>3 DEF AtStep, AtUndo
<1> QED
  BY <1>3, <1>5, <1>6, <1>7, PassiveKeeps

(* The recovery leaves the saga at its step or at one it has completed. *)
LEMMA RecoveryEnds ==
  ASSUME IInv, NEW w \in Workers, saga.status # "completed", Write(Recovered(saga), {}, due, 0),
         Leave(w), UNCHANGED <<timedOut, sideVars, jumped, boundVars>>, expired' \subseteq Steps
  PROVE  IInv'
<1> DEFINE new == Recovered(saga)
<1>1. saga \in Document /\ saga.step \in Steps /\ due \in BOOLEAN
  BY SagaAssumption DEF IInv, TypeOK, StepInv, Document, Steps
<1>2. /\ new \in Document /\ new.completed = saga.completed /\ new.compensated = saga.compensated
      /\ new.status \in {"compensating", "cancelled", "manual_intervention"}
      /\ new.step = saga.step \/ new.step \in CompletedSteps
      /\ new.step \in Steps
  BY <1>1, RecoveredDocument, CompletedAreSteps
<1>3. Write(new, {}, due, 0)
  OBVIOUS
<1> HIDE DEF new
<1> QED
  BY <1>1, <1>2, <1>3, EndKeeps

LEMMA RecoverKeeps ==
  ASSUME IInv, NEW w \in Workers, Recover(w)
  PROVE  IInv'
<1>1. saga.status # "completed"
  BY DEF Recover, Ended
<1>2. saga.step \in Steps /\ expired \subseteq Steps
  BY <1>1, SagaAssumption DEF IInv, TypeOK, StepInv, Document, Steps
<1>3. expired' \subseteq Steps
  BY <1>2 DEF Recover
<1> QED
  BY <1>1, <1>3, RecoveryEnds DEF Recover

(* A current worker waits for the reply of the step the document is at. *)
LEMMA AwaitReplyKeeps ==
  ASSUME IInv, NEW w \in Workers, AwaitReply(w)
  PROVE  IInv'
<1> DEFINE new == [saga EXCEPT !.status = "waiting_external", !.step = worker[w].step, !.awaiting = FALSE]
<1>1. /\ saga \in Document /\ saga.step \in 0 .. LastStep
      /\ timedOut \in BOOLEAN /\ due \in BOOLEAN /\ expired \subseteq Steps
  BY DEF IInv, TypeOK, Document
<1>2. worker[w].step = saga.step /\ worker[w].step \in Steps
  BY DEF IInv, StepInv, FreshInv, AwaitReply, Owner, AtStep
<1>3. new \in Document /\ new.completed = saga.completed /\ new.compensated = saga.compensated
  BY <1>1, <1>2, SagaAssumption DEF Document, Status, Steps
<1>4. new.status = "waiting_external" /\ new.step = worker[w].step /\ new.awaiting = FALSE
  BY <1>1 DEF Document
<1>5. /\ Write(new, {w}, timedOut, 0) /\ Move(w, "enqueue", 0)
      /\ UNCHANGED <<timedOut, sideVars, jumped, expired, boundVars>>
  BY <1>2 DEF AwaitReply, histVars
<1> HIDE DEF new
<1> QED
  BY <1>1, <1>2, <1>3, <1>4, <1>5, EndKeeps

(* A current worker waits for the compensation of the last step that needs one. *)
LEMMA AwaitUndoKeeps ==
  ASSUME IInv, NEW w \in Workers, AwaitUndo(w)
  PROVE  IInv'
<1> DEFINE new == [saga EXCEPT !.status = "waiting_external", !.step = worker[w].step, !.awaiting = TRUE]
<1>1. /\ saga \in Document /\ saga.step \in 0 .. LastStep
      /\ timedOut \in BOOLEAN /\ due \in BOOLEAN /\ expired \subseteq Steps
  BY DEF IInv, TypeOK, Document
<1>2. /\ worker[w].step \in CompletedSteps /\ worker[w].step \in Steps
      /\ NextToUndo(worker[w].step)
  BY DEF IInv, StepInv, FreshInv, UndoInv, AwaitUndo, Owner, AtUndo
<1>3. new \in Document /\ new.completed = saga.completed /\ new.compensated = saga.compensated
  <2>1. worker[w].step \in 0 .. LastStep
    BY <1>2, SagaAssumption DEF Steps
  <2>2. "waiting_external" \in Status
    BY DEF Status
  <2> QED
    BY <1>1, <2>1, <2>2 DEF Document
<1>4. new.status = "waiting_external" /\ new.step = worker[w].step
  BY <1>1 DEF Document
<1>5. /\ Write(new, {w}, timedOut, 0) /\ Move(w, "enqueue", 0)
      /\ UNCHANGED <<timedOut, sideVars, jumped, expired, boundVars>>
  BY <1>2 DEF AwaitUndo, histVars
<1> HIDE DEF new
<1> QED
  BY <1>1, <1>2, <1>3, <1>4, <1>5, EndKeeps

(* Nothing is left to compensate. *)
LEMMA UndoFinishedKeeps ==
  ASSUME IInv, NEW w \in Workers, UndoFinished(w)
  PROVE  IInv'
<1> DEFINE new == [saga EXCEPT !.status = IF saga.cancel THEN "cancelled" ELSE "manual_intervention"]
<1>1. /\ saga \in Document /\ saga.step \in 0 .. LastStep
      /\ timedOut \in BOOLEAN /\ due \in BOOLEAN /\ expired \subseteq Steps
  BY DEF IInv, TypeOK, Document
<1>2. saga.step \in Steps
  BY <1>1, SagaAssumption DEF IInv, StepInv, UndoFinished, Steps
<1>3. new \in Document /\ new.completed = saga.completed /\ new.compensated = saga.compensated
  BY <1>1, <1>2, SagaAssumption DEF Document, Status, Steps
<1>4. new.status \in {"cancelled", "manual_intervention"} /\ new.step = saga.step
  BY <1>1 DEF Document
<1>5. /\ Write(new, {}, due, 0) /\ Leave(w)
      /\ UNCHANGED <<timedOut, sideVars, jumped, expired, boundVars>>
  BY <1>2 DEF UndoFinished, histVars
<1> HIDE DEF new
<1> QED
  BY <1>1, <1>2, <1>3, <1>4, <1>5, EndKeeps

(* The append failed: retry the step, or recover; a worker with an old copy only leaves. *)
LEMMA SendThrowsKeeps ==
  ASSUME IInv, NEW w \in Workers, SendThrows(w), fresh[w]
  PROVE  IInv'
<1>1. saga.status = "running" /\ saga \in Document /\ expired \subseteq Steps
  BY DEF IInv, TypeOK, FreshInv, SendThrows, AtStep
<1>2. saga.step \in Steps /\ due \in BOOLEAN
  BY <1>1, SagaAssumption DEF IInv, TypeOK, StepInv, Document, Steps
<1>3. UNCHANGED <<timedOut, sideVars, jumped, expired, boundVars>>
  BY DEF SendThrows, histVars
<1>4. CASE saga.attempts[worker[w].step] >= MaxAttempts
  <2>1. Write(Recovered(saga), {}, due, 0) /\ Leave(w)
    BY <1>4 DEF SendThrows
  <2> QED
    BY <1>1, <1>3, <2>1, RecoveryEnds
<1>5. CASE ~(saga.attempts[worker[w].step] >= MaxAttempts)
  <2> DEFINE new == [saga EXCEPT !.status = "waiting_retry"]
  <2>1. new \in Document /\ new.completed = saga.completed /\ new.compensated = saga.compensated
    BY <1>1 DEF Document, Status
  <2>2. new.status = "waiting_retry" /\ new.step = saga.step
    BY <1>1 DEF Document
  <2>3. Write(new, {w}, FALSE, 0) /\ Move(w, "enqueue", 0)
    BY <1>5 DEF SendThrows
  <2> HIDE DEF new
  <2> QED
    BY <1>1, <1>2, <1>3, <2>1, <2>2, <2>3, EndKeeps
<1> QED
  BY <1>4, <1>5

LEMMA SendUndoThrowsKeeps ==
  ASSUME IInv, NEW w \in Workers, SendUndoThrows(w), fresh[w]
  PROVE  IInv'
<1> DEFINE new == [saga EXCEPT !.status = "manual_intervention"]
<1>1. saga.status = "compensating" /\ saga \in Document /\ expired \subseteq Steps
  BY DEF IInv, TypeOK, FreshInv, SendUndoThrows, AtUndo
<1>2. saga.step \in Steps /\ due \in BOOLEAN
  BY <1>1, SagaAssumption DEF IInv, TypeOK, StepInv, Document, Steps
<1>3. UNCHANGED <<timedOut, sideVars, jumped, expired, boundVars>>
  BY DEF SendUndoThrows, histVars
<1>4. new \in Document /\ new.completed = saga.completed /\ new.compensated = saga.compensated
  BY <1>1 DEF Document, Status
<1>5. new.status = "manual_intervention" /\ new.step = saga.step
  BY <1>1 DEF Document
<1>6. Write(new, {}, due, 0) /\ Leave(w)
  BY DEF SendUndoThrows
<1> HIDE DEF new
<1> QED
  BY <1>1, <1>2, <1>3, <1>4, <1>5, <1>6, EndKeeps

(* The document is running at the step the worker is about to send. *)
LEMMA StartStepKeeps ==
  ASSUME IInv, NEW w \in Workers, StartStep(w)
  PROVE  IInv'
<1> DEFINE new == [saga EXCEPT !.status = "running", !.attempts[saga.step] = @ + 1]
<1>1. saga \in Document /\ expired \subseteq Steps /\ due \in BOOLEAN /\ TypeOK
  BY DEF IInv, TypeOK
<1>2. saga.step \in Steps /\ saga.step \in 0 .. LastStep /\ saga.step <= saga.step
  BY <1>1, SagaAssumption DEF IInv, StepInv, StartStep, Document, Steps
<1>3. new \in Document
  <2>1. saga.attempts \in [Steps -> Nat] /\ "running" \in Status
    BY <1>1 DEF Document, Status
  <2>2. [saga.attempts EXCEPT ![saga.step] = @ + 1] \in [Steps -> Nat]
    BY <1>2, <2>1
  <2> QED
    BY <1>1, <2>1, <2>2 DEF Document
<1>4. /\ new.completed = saga.completed /\ new.compensated = saga.compensated
      /\ new.status = "running" /\ new.step = saga.step
  BY <1>1 DEF Document
<1>5. /\ Write(new, {w}, due, 0) /\ Move(w, "execute", saga.step)
      /\ UNCHANGED <<timedOut, sideVars, jumped, expired, boundVars>>
  BY DEF StartStep, histVars
<1> HIDE DEF new
<1>6. "execute" \in WorkerAt
  BY DEF WorkerAt
<1>7. /\ worker' \in [Workers -> [at : WorkerAt, step : 0 .. LastStep]]
      /\ \A x \in Workers : x # w => worker'[x] = worker[x]
      /\ worker'[w].at = "execute" /\ worker'[w].step = saga.step
  BY <1>1, <1>2, <1>5, <1>6, WorkerMoves
<1>8. /\ RestTyped /\ saga' = new
      /\ \A x \in Workers : fresh'[x] => x \in {w} /\ fresh[x]
  BY <1>1, <1>5, <1>7, WorkerWrites
<1>9. Rewrites({w})
  BY <1>2, <1>3, <1>4, <1>5, <1>8 DEF Rewrites
<1>10. FreshInv'
  BY <1>4, <1>7, <1>8 DEF FreshInv, AtStep, AtUndo
<1>11. \A x \in Workers : (AtStep(x) \/ AtUndo(x))' => worker'[x].step \in Steps
  BY <1>2, <1>7 DEF IInv, StepInv, AtStep, AtUndo
<1>12. \A x \in Workers : AtUndo(x)' => worker'[x].step \in CompletedSteps
  BY <1>7 DEF IInv, UndoInv, AtUndo
<1> QED
  BY <1>4, <1>8, <1>9, <1>10, <1>11, <1>12, RewritesKeeps

(* The last outstanding step is next: everything reversible after it is compensated. *)
LEMMA LastOutstanding ==
  ASSUME saga \in Document, Outstanding(saga) # {}
  PROVE  LET s == saga.completed[LastIndex(Outstanding(saga))] IN
         s \in CompletedSteps /\ s \in Steps /\ (TypeOK => NextToUndo(s))
<1> DEFINE I == Outstanding(saga)
           n == LastIndex(I)
<1>1. I \in SUBSET (1 .. Len(saga.completed)) /\ Len(saga.completed) \in Nat
  BY CompletedAreSteps DEF Outstanding
<1>2. n \in I /\ \A j \in I : j <= n
  BY <1>1, LastIndexIsLast
<1>3. n \in DOMAIN saga.completed
  BY <1>2 DEF Outstanding
<1>4. saga.completed[n] \in CompletedSteps /\ saga.completed[n] \in Steps
  BY <1>3, CompletedAreSteps
<1>5. ASSUME TypeOK, NEW i \in DOMAIN saga.completed, NEW j \in DOMAIN saga.completed,
             saga.completed[i] = saga.completed[n], j > i, saga.completed[j] \in Reversible
      PROVE  saga.completed[j] \in saga.compensated
  <2>1. i = n
    BY <1>3, <1>5 DEF TypeOK
  <2>2. n \in Nat /\ j \in Nat
    BY <1>3, CompletedAreSteps
  <2>3. j \notin I
    BY <1>2, <1>5, <2>1, <2>2
  <2> QED
    BY <1>5, <2>3 DEF Outstanding
<1> QED
  BY <1>4, <1>5 DEF NextToUndo

LEMMA StartUndoKeeps ==
  ASSUME IInv, NEW w \in Workers, StartUndo(w)
  PROVE  IInv'
<1> DEFINE s == saga.completed[LastIndex(Outstanding(saga))]
<1>1. /\ saga \in Document /\ expired \subseteq Steps /\ due \in BOOLEAN /\ TypeOK
      /\ saga.status = "compensating"
  BY DEF IInv, TypeOK, StartUndo
<1>2. saga.step \in Steps /\ saga.step <= saga.step
  BY <1>1, SagaAssumption DEF IInv, StepInv, Document, Steps
<1>3. s \in CompletedSteps /\ s \in Steps /\ NextToUndo(s)
  BY <1>1, LastOutstanding DEF StartUndo
<1>4. /\ Write(saga, {w}, due, 0) /\ Move(w, "executeUndo", s)
      /\ UNCHANGED <<timedOut, sideVars, jumped, expired, boundVars>>
  BY DEF StartUndo, histVars
<1> HIDE DEF s
<1>5. "executeUndo" \in WorkerAt /\ s \in 0 .. LastStep
  BY <1>3, SagaAssumption DEF WorkerAt, Steps
<1>6. /\ worker' \in [Workers -> [at : WorkerAt, step : 0 .. LastStep]]
      /\ \A x \in Workers : x # w => worker'[x] = worker[x]
      /\ worker'[w].at = "executeUndo" /\ worker'[w].step = s
  BY <1>1, <1>4, <1>5, WorkerMoves
<1>7. /\ RestTyped /\ saga' = saga
      /\ \A x \in Workers : fresh'[x] => x \in {w} /\ fresh[x]
  BY <1>1, <1>4, <1>6, WorkerWrites
<1>8. Rewrites({w})
  BY <1>1, <1>2, <1>4, <1>7 DEF Rewrites
<1>9. \A x : NextToUndo(x) => NextToUndo(x)'
  BY <1>7 DEF NextToUndo
<1>10. FreshInv'
  BY <1>1, <1>3, <1>6, <1>7, <1>9 DEF FreshInv, AtStep, AtUndo
<1>11. \A x \in Workers : (AtStep(x) \/ AtUndo(x))' => worker'[x].step \in Steps
  BY <1>3, <1>6 DEF IInv, StepInv, AtStep, AtUndo
<1>12. \A x \in Workers : AtUndo(x)' => worker'[x].step \in CompletedSteps
  BY <1>3, <1>6 DEF IInv, UndoInv, AtUndo
<1> QED
  BY <1>1, <1>7, <1>8, <1>10, <1>11, <1>12, RewritesKeeps

----------------------------------------------------------------------------
(* The steps that leave the document alone *)

(* A worker's copy stays as it was, and nobody sends a command but for a step it holds. *)
LEMMA UnwrittenKeeps ==
  ASSUME IInv, TypeOK', saga' = saga, jumped' = jumped, done \subseteq done',
         \A w \in Workers :
           /\ AtStep(w)' => AtStep(w) /\ worker'[w].step = worker[w].step /\ (fresh'[w] => fresh[w])
           /\ AtUndo(w)' => AtUndo(w) /\ worker'[w].step = worker[w].step /\ (fresh'[w] => fresh[w]),
         \A s \in Steps : <<"undo", s>> \in sent' => <<"undo", s>> \in sent \/ s \in CompletedSteps
  PROVE  IInv'
<1>1. CompletedSteps' = CompletedSteps /\ \A s : NextToUndo(s)' = NextToUndo(s)
  BY DEF CompletedSteps, NextToUndo
<1>2. StepInv'
  BY DEF IInv, StepInv
<1>3. FreshInv'
  BY <1>1 DEF IInv, FreshInv
<1>4. UndoInv'
  BY <1>1 DEF IInv, UndoInv
<1>5. PerformedInv' /\ CompletedMeansPerformed'
  BY <1>1 DEF IInv, PerformedInv, CompletedMeansPerformed
<1> QED
  BY <1>2, <1>3, <1>4, <1>5 DEF IInv

LEMMA OtherKeeps ==
  ASSUME IInv, TypeOK',
         \/ Enqueue \/ EnqueueLost \/ WaitEnds \/ TimeoutPasses
         \/ \E c \in Command : Perform(c)
         \/ \E w \in Workers : TakeJob(w) \/ Crash(w) \/ Conflict(w) \/ NothingToDo(w) \/ EnqueueDelayed(w)
  PROVE  IInv'
<1>1. CASE Enqueue \/ EnqueueLost \/ WaitEnds \/ TimeoutPasses \/ \E c \in Command : Perform(c)
  <2>1. UNCHANGED <<saga, jumped, worker, fresh, sent>> /\ done \subseteq done'
    BY <1>1 DEF Enqueue, EnqueueLost, WaitEnds, TimeoutPasses, Perform, queueVars, sideVars, histVars
  <2> QED
    BY <2>1, UnwrittenKeeps DEF AtStep, AtUndo
<1>2. ASSUME NEW w \in Workers,
             TakeJob(w) \/ Crash(w) \/ Conflict(w) \/ NothingToDo(w) \/ EnqueueDelayed(w)
      PROVE  IInv'
  <2>1. UNCHANGED <<saga, jumped, sideVars>>
    BY <1>2 DEF TakeJob, Crash, Conflict, NothingToDo, EnqueueDelayed, histVars
  <2>2. Leave(w) \/ Move(w, "read", 0)
    BY <1>2 DEF TakeJob, Crash, Conflict, NothingToDo, EnqueueDelayed
  <2>3. /\ \A x \in Workers : x # w => worker'[x] = worker[x]
        /\ worker'[w].at \in {"idle", "read"}
    BY <2>2 DEF IInv, TypeOK, Leave, Move, Idle
  <2>4. \A x \in Workers : x # w => fresh'[x] = fresh[x]
    BY <1>2 DEF IInv, TypeOK, TakeJob, Crash, Conflict, NothingToDo, EnqueueDelayed
  <2>5. \A x \in Workers :
          /\ AtStep(x)' => AtStep(x) /\ worker'[x].step = worker[x].step /\ (fresh'[x] => fresh[x])
          /\ AtUndo(x)' => AtUndo(x) /\ worker'[x].step = worker[x].step /\ (fresh'[x] => fresh[x])
    BY <2>3, <2>4 DEF AtStep, AtUndo
  <2> QED
    BY <2>1, <2>5, UnwrittenKeeps DEF sideVars
<1> QED
  BY <1>1, <1>2

(* A command is sent for a step the worker holds; a compensation only for a completed one. *)
LEMMA SendingKeeps ==
  ASSUME IInv, TypeOK', NEW w \in Workers, Send(w) \/ SendUndo(w)
  PROVE  IInv'
<1>1. UNCHANGED <<saga, jumped, done, fresh>>
  BY DEF Send, SendUndo, histVars
<1>2. \A x \in Workers : x # w => worker'[x] = worker[x]
  BY DEF IInv, TypeOK, Send, SendUndo, Move
<1>3. \/ AtStep(w) /\ worker'[w].at = "sent" /\ worker'[w].step = worker[w].step
      \/ AtUndo(w) /\ worker'[w].at = "undoSent" /\ worker'[w].step = worker[w].step
  BY DEF IInv, TypeOK, Send, SendUndo, Move, AtStep, AtUndo
<1>4. \A x \in Workers :
        /\ AtStep(x)' => AtStep(x) /\ worker'[x].step = worker[x].step /\ (fresh'[x] => fresh[x])
        /\ AtUndo(x)' => AtUndo(x) /\ worker'[x].step = worker[x].step /\ (fresh'[x] => fresh[x])
  BY <1>1, <1>2, <1>3 DEF AtStep, AtUndo
<1>5. \A s \in Steps : <<"undo", s>> \in sent' => <<"undo", s>> \in sent \/ s \in CompletedSteps
  BY DEF IInv, UndoInv, AtUndo, Send, SendUndo
<1> QED
  BY <1>1, <1>4, <1>5, UnwrittenKeeps

(* An old copy changes nothing, and its worker leaves. *)
LEMMA OldCopyKeeps ==
  ASSUME IInv, NEW w \in Workers, SendThrows(w) \/ SendUndoThrows(w), ~fresh[w]
  PROVE  IInv'
<1>1. /\ Leave(w)
      /\ UNCHANGED <<saga, due, fresh, queueVars, timedOut, sideVars, histVars, boundVars>>
  BY DEF SendThrows, SendUndoThrows
<1>2. /\ worker' \in [Workers -> [at : WorkerAt, step : 0 .. LastStep]]
      /\ \A x \in Workers : x # w => worker'[x] = worker[x]
      /\ worker'[w].at = "idle"
  BY <1>1, WorkerLeaves DEF IInv
<1>3. TypeOK'
  BY <1>1, <1>2 DEF IInv, TypeOK, queueVars, sideVars, histVars, boundVars
<1>4. \A x \in Workers :
        /\ AtStep(x)' => AtStep(x) /\ worker'[x].step = worker[x].step /\ (fresh'[x] => fresh[x])
        /\ AtUndo(x)' => AtUndo(x) /\ worker'[x].step = worker[x].step /\ (fresh'[x] => fresh[x])
  BY <1>1, <1>2 DEF AtStep, AtUndo
<1> QED
  BY <1>1, <1>3, <1>4, UnwrittenKeeps DEF sideVars, histVars

----------------------------------------------------------------------------
(* The theorems *)

LEMMA NextInv == IInv /\ [Next]_vars => IInv'
<1> SUFFICES ASSUME IInv, [Next]_vars
             PROVE  IInv'
  OBVIOUS
<1>1. CASE UNCHANGED vars
  <2>1. UNCHANGED <<saga, worker, fresh, sent, done, jumped>>
    BY <1>1 DEF vars, sideVars, histVars
  <2>2. TypeOK'
    BY <1>1 DEF IInv, TypeOK, vars, queueVars, sideVars, histVars, boundVars
  <2> QED
    BY <2>1, <2>2, UnwrittenKeeps DEF AtStep, AtUndo
<1>2. CASE Start \/ Cancel \/ OperatorRetry \/ \E s \in Steps : OperatorResume(s)
  BY <1>2, StartKeeps, CancelKeeps, OperatorRetryKeeps, OperatorResumeKeeps
<1>3. ASSUME NEW s \in Steps, Signal(s)
      PROVE  IInv'
  BY <1>3, SignalDoneKeeps, SignalFailedKeeps, SignalUndoneKeeps, SignalUndoFailedKeeps DEF Signal
<1>4. CASE Enqueue \/ EnqueueLost \/ WaitEnds \/ TimeoutPasses \/ \E c \in Command : Perform(c)
  BY <1>4, OtherType, OtherKeeps
<1>5. ASSUME NEW w \in Workers, WorkerStep(w) \/ Crash(w)
      PROVE  IInv'
  <2>1. CASE TakeJob(w) \/ Crash(w) \/ Conflict(w) \/ NothingToDo(w) \/ EnqueueDelayed(w)
    BY <2>1, OtherType, OtherKeeps
  <2>2. CASE Send(w) \/ SendUndo(w)
    BY <2>2, OtherType, SendingKeeps
  <2>3. CASE SendThrows(w) \/ SendUndoThrows(w)
    BY <2>3, SendThrowsKeeps, SendUndoThrowsKeeps, OldCopyKeeps
  <2>4. CASE Recover(w) \/ StartStep(w) \/ AwaitReply(w) \/ StartUndo(w) \/ UndoFinished(w) \/ AwaitUndo(w)
    BY <2>4, RecoverKeeps, StartStepKeeps, AwaitReplyKeeps, StartUndoKeeps, UndoFinishedKeeps,
       AwaitUndoKeeps
  <2> QED
    BY <1>5, <2>1, <2>2, <2>3, <2>4 DEF WorkerStep
<1> QED
  BY <1>1, <1>2, <1>3, <1>4, <1>5 DEF Next

LEMMA SpecInv == Spec => []IInv
  BY InitInv, NextInv, PTL DEF Spec

(* The document, the copies and the queue always have their types, and no step is completed twice. *)
THEOREM TypeCorrect == Spec => []TypeOK
<1>1. IInv => TypeOK
  BY DEF IInv
<1> QED
  BY <1>1, SpecInv, PTL

(* For a definition of any length and any number of workers, a saga is completed only when the
   participants have performed every step, unless an operator resumed past one. *)
THEOREM CompletionIsHonest == Spec => []CompletedMeansPerformed
<1>1. IInv => CompletedMeansPerformed
  BY DEF IInv
<1> QED
  BY <1>1, SpecInv, PTL

(* Every step that writes the document finds it open: its guard says so, or the worker holds a
   current copy of a document it made running or found compensating. *)
TerminalStays == saga.status \in {"completed", "cancelled"} => saga' = saga

LEMMA TerminalStep == IInv /\ [Next]_vars => TerminalStays
<1> SUFFICES ASSUME IInv, [Next]_vars, saga.status \in {"completed", "cancelled"}
             PROVE  saga' = saga
  BY DEF TerminalStays
<1>1. CASE UNCHANGED vars
  BY <1>1 DEF vars
<1>2. CASE \/ Start \/ Enqueue \/ EnqueueLost \/ WaitEnds \/ TimeoutPasses \/ Cancel \/ OperatorRetry
           \/ (\E s \in Steps : Signal(s) \/ OperatorResume(s)) \/ (\E c \in Command : Perform(c))
  BY <1>2 DEF Start, Enqueue, EnqueueLost, WaitEnds, TimeoutPasses, Cancel, Cancellable, OperatorRetry,
     Signal, SignalDone, SignalFailed, SignalUndone, SignalUndoFailed, Expected, OperatorResume, Perform
<1>3. ASSUME NEW w \in Workers, WorkerStep(w) \/ Crash(w)
      PROVE  saga' = saga
  <2>1. ~(fresh[w] /\ (AtStep(w) \/ AtUndo(w)))
    BY DEF IInv, FreshInv
  <2>2. CASE TakeJob(w) \/ Crash(w) \/ Conflict(w) \/ NothingToDo(w) \/ Send(w) \/ EnqueueDelayed(w)
             \/ SendUndo(w)
    BY <2>2 DEF TakeJob, Crash, Conflict, NothingToDo, Send, EnqueueDelayed, SendUndo
  <2>3. CASE SendThrows(w) \/ AwaitReply(w) \/ SendUndoThrows(w) \/ AwaitUndo(w)
    BY <2>1, <2>3 DEF SendThrows, AwaitReply, SendUndoThrows, AwaitUndo, Owner, AtStep, AtUndo
  <2>4. CASE Recover(w) \/ StartStep(w) \/ StartUndo(w) \/ UndoFinished(w)
    BY <2>4 DEF Recover, StartStep, StartUndo, UndoFinished, Ended
  <2> QED
    BY <1>3, <2>2, <2>3, <2>4 DEF WorkerStep
<1> QED
  BY <1>1, <1>2, <1>3 DEF Next

(* A completed or cancelled saga is never written again, by whatever comes late. *)
THEOREM TerminalNeverChanges == Spec => TerminalIsFinal
<1>1. IInv /\ [Next]_vars => TerminalStays
  BY TerminalStep
<1>2. Spec => [][TerminalStays]_vars
  BY <1>1, SpecInv, PTL DEF Spec
<1> QED
  BY <1>2 DEF TerminalIsFinal, TerminalStays

(* Only a signal records a compensation, for the step the document waits for. *)
UndoneInOrder ==
  \A i \in DOMAIN saga.completed :
    saga.completed[i] \in saga'.compensated \ saga.compensated =>
      \A j \in DOMAIN saga.completed :
        j > i /\ saga.completed[j] \in Reversible => saga.completed[j] \in saga.compensated

LEMMA UndoStep == IInv /\ [Next]_vars => UndoneInOrder
<1> SUFFICES ASSUME IInv, [Next]_vars
             PROVE  UndoneInOrder
  OBVIOUS
<1>0. saga \in Document
  BY DEF IInv, TypeOK
<1>1. ASSUME NEW s \in Steps, SignalUndone(s)
      PROVE  UndoneInOrder
  <2>1. saga'.compensated = saga.compensated \union {s}
    BY <1>0, <1>1 DEF SignalUndone, Write, Document
  <2>2. NextToUndo(s)
    BY <1>1 DEF IInv, UndoInv, SignalUndone, Expected
  <2> QED
    BY <2>1, <2>2 DEF UndoneInOrder, NextToUndo
<1>2. ASSUME NEW s \in Steps, SignalDone(s)
      PROVE  saga'.compensated = saga.compensated
  BY <1>0, <1>2 DEF SignalDone, Write, Succeeded, Document
<1>3. Recovered(saga).compensated = saga.compensated
  BY <1>0, RecoveredDocument
<1>4. ASSUME NEW s \in Steps, SignalFailed(s) \/ SignalUndoFailed(s)
      PROVE  saga'.compensated = saga.compensated
  BY <1>0, <1>3, <1>4 DEF SignalFailed, SignalUndoFailed, Write, Document
<1>5. ASSUME Start \/ Enqueue \/ EnqueueLost \/ WaitEnds \/ TimeoutPasses \/ Cancel \/ OperatorRetry
             \/ (\E s \in Steps : OperatorResume(s)) \/ (\E c \in Command : Perform(c))
      PROVE  saga'.compensated = saga.compensated
  BY <1>0, <1>5 DEF Start, Enqueue, EnqueueLost, WaitEnds, TimeoutPasses, Cancel, OperatorRetry,
     OperatorResume, Perform, Write, Document
<1>6. ASSUME NEW w \in Workers, WorkerStep(w) \/ Crash(w)
      PROVE  saga'.compensated = saga.compensated
  <2>1. CASE TakeJob(w) \/ Crash(w) \/ Conflict(w) \/ NothingToDo(w) \/ Send(w) \/ EnqueueDelayed(w)
             \/ SendUndo(w)
    BY <2>1 DEF TakeJob, Crash, Conflict, NothingToDo, Send, EnqueueDelayed, SendUndo
  <2>2. CASE SendThrows(w) \/ SendUndoThrows(w) \/ Recover(w)
    BY <1>0, <1>3, <2>2 DEF SendThrows, SendUndoThrows, Recover, Write, Document
  <2>3. CASE AwaitReply(w) \/ AwaitUndo(w) \/ StartUndo(w) \/ UndoFinished(w)
    BY <1>0, <2>3 DEF AwaitReply, AwaitUndo, StartUndo, UndoFinished, Write, Document
  <2>4. CASE StartStep(w)
    BY <1>0, <2>4 DEF StartStep, Write, Document
  <2> QED
    BY <1>6, <2>1, <2>2, <2>3, <2>4 DEF WorkerStep
<1>7. saga'.compensated = saga.compensated => UndoneInOrder
  BY DEF UndoneInOrder
<1>8. CASE UNCHANGED vars
  BY <1>7, <1>8 DEF vars
<1> QED
  BY <1>1, <1>2, <1>4, <1>5, <1>6, <1>7, <1>8 DEF Next, Signal

(* Compensation goes backwards, however many workers and signals race for it. *)
THEOREM CompensationIsReversed == Spec => UndoLastFirst
<1>1. IInv /\ [Next]_vars => UndoneInOrder
  BY UndoStep
<1>2. Spec => [][UndoneInOrder]_vars
  BY <1>1, SpecInv, PTL DEF Spec
<1> QED
  BY <1>2 DEF UndoLastFirst, UndoneInOrder

=============================================================================
