------------------------ MODULE CampaignDeliveryProofs ------------------------
(***************************************************************************)
(* Proofs about CampaignDelivery, for any number of deliveries, workers    *)
(* and batches and any number of commands and faults.                      *)
(*                                                                         *)
(* IInv is inductive: the claim moves a delivery out of "queued" and       *)
(* nothing moves it back, so the worker between its claim and the update   *)
(* that ends it is alone, whoever holds the lock of the job it walks.      *)
(* Most actions touch no delivery and put a worker outside its claim; one  *)
(* lemma settles them all, and the actions that remain have one each.      *)
(***************************************************************************)
EXTENDS CampaignDelivery, TLAPS

(* Init gives IInv. *)
LEMMA InitInv == Init => IInv
  BY CampaignAssumption DEF Init, IInv, ShapeInv, ReservedInv, ClaimInv, SendInv, Claiming, Idle,
     DeliveryStatus, WorkerAt

(* A step that writes no delivery, sends nothing and leaves each worker as it is or outside a claim. *)
QuietWorker(w) ==
  \/ worker'[w] = worker[w]
  \/ worker'[w].at \in {"idle", "taken", "loop"}

Quiet ==
  /\ delivery' = delivery
  /\ sends' = sends
  /\ run' = "absent" => run = "absent"
  /\ worker' \in [Workers -> [at : WorkerAt, job : Jobs \union {Idle.job}, next : Int]]
  /\ \A w \in Workers : QuietWorker(w)

LEMMA QuietKeeps ==
  ASSUME IInv, Quiet
  PROVE  IInv'
<1>1. ShapeInv' /\ ReservedInv' /\ SendInv'
  BY DEF IInv, Quiet, ShapeInv, ReservedInv, SendInv
<1>2. \A w \in Workers : Claiming(w)' => Claiming(w) /\ worker'[w] = worker[w]
  BY DEF Quiet, QuietWorker, Claiming
<1>3. ClaimInv'
  BY <1>2 DEF IInv, Quiet, ClaimInv, Claiming
<1> QED
  BY <1>1, <1>3 DEF IInv

(* The first delivery of a job is a number. *)
LEMMA FirstIsInt == \A j \in Jobs : First(j) \in Int
  BY CampaignAssumption DEF Jobs, First, Batches, Deliveries

(* Moving one worker outside a claim is quiet. *)
LEMMA MovesAreQuiet ==
  ASSUME IInv, NEW w \in Workers, UNCHANGED <<delivery, sends, run>>,
         worker[w].at # "loop" => worker' = [worker EXCEPT ![w] = Idle]
           \/ worker' = [worker EXCEPT ![w].at = "loop"],
         worker[w].at = "loop" => worker' = [worker EXCEPT ![w] = Idle]
           \/ worker' = [worker EXCEPT ![w].at = "loop", ![w].next = @ + 1]
  PROVE  Quiet
<1>1. worker[w] \in [at : WorkerAt, job : Jobs \union {Idle.job}, next : Int]
  BY DEF IInv, ShapeInv
<1>2. CASE worker' = [worker EXCEPT ![w] = Idle]
  <2>1. Idle \in [at : WorkerAt, job : Jobs \union {Idle.job}, next : Int]
    BY DEF Idle, WorkerAt
  <2>2. Idle.at = "idle"
    BY DEF Idle
  <2> QED
    BY <1>2, <2>1, <2>2 DEF IInv, ShapeInv, Quiet, QuietWorker
<1>3. CASE worker' = [worker EXCEPT ![w].at = "loop"]
  BY <1>1, <1>3 DEF IInv, ShapeInv, Quiet, QuietWorker, WorkerAt
<1>4. CASE worker' = [worker EXCEPT ![w].at = "loop", ![w].next = @ + 1]
  BY <1>1, <1>4 DEF IInv, ShapeInv, Quiet, QuietWorker, WorkerAt
<1> QED
  BY <1>2, <1>3, <1>4

(* The actions of the API, the queue and the clock; a fresh run has deliveries nobody claimed. *)
LEMMA EnvironmentKeeps ==
  ASSUME IInv,
         \/ EnqueueBatch
         \/ ScheduleAborts
         \/ \E status \in {"paused", "running", "cancelled"} : Command(status)
         \/ \E d \in Deliveries : Withdraw(d) \/ DeliverAtComes(d)
         \/ \E j \in Jobs : FalseStall(j) \/ OtherWorker(j)
  PROVE  IInv'
<1>1. Quiet
  BY DEF EnqueueBatch, ScheduleAborts, Command, Withdraw, DeliverAtComes, FalseStall, OtherWorker,
     Fault, runVars, jobVars, otherVars, IInv, ShapeInv, Quiet, QuietWorker
<1> QED
  BY <1>1, QuietKeeps

LEMMA ScheduleKeeps ==
  ASSUME IInv, Schedule
  PROVE  IInv'
<1>1. \A w \in Workers : ~Claiming(w)
  BY DEF IInv, Schedule, ReservedInv, ClaimInv
<1>2. \A w \in Workers : ~Claiming(w)'
  BY <1>1 DEF Schedule, Claiming
<1>3. ClaimInv'
  BY <1>2 DEF ClaimInv
<1>4. ShapeInv' /\ ReservedInv'
  BY DEF IInv, Schedule, ShapeInv, ReservedInv, DeliveryStatus
<1>5. SendInv'
  BY DEF IInv, Schedule, ShapeInv, ReservedInv, SendInv
<1> QED
  BY <1>3, <1>4, <1>5 DEF IInv

LEMMA TakeJobKeeps ==
  ASSUME IInv, NEW w \in Workers, NEW j \in Jobs, TakeJob(w, j)
  PROVE  IInv'
<1>1. [at |-> "taken", job |-> j, next |-> First(j)]
        \in [at : WorkerAt, job : Jobs \union {Idle.job}, next : Int]
  BY FirstIsInt DEF WorkerAt
<1>2. Quiet
  BY <1>1 DEF TakeJob, IInv, ShapeInv, runVars, otherVars, Quiet, QuietWorker
<1> QED
  BY <1>2, QuietKeeps

(* The steps of a worker that write no delivery. *)
LEMMA WalkingKeeps ==
  ASSUME IInv, NEW w \in Workers,
         \/ ReadRun(w) \/ Finish(w) \/ Crash(w) \/ CallThrows(w) \/ MarkFailedThrows(w)
         \/ \E d \in Deliveries : Skip(w, d) \/ Postpone(w, d)
  PROVE  IInv'
<1>1. UNCHANGED <<delivery, sends, run>>
  BY DEF ReadRun, Finish, Crash, CallThrows, MarkFailedThrows, Skip, Postpone, runVars
<1>2. worker[w].at # "loop" => worker' = [worker EXCEPT ![w] = Idle]
           \/ worker' = [worker EXCEPT ![w].at = "loop"]
  BY DEF ReadRun, Finish, Crash, CallThrows, MarkFailedThrows, Skip, Postpone, At, JobDone, JobThrew,
     Leave, Go
<1>3. worker[w].at = "loop" => worker' = [worker EXCEPT ![w] = Idle]
           \/ worker' = [worker EXCEPT ![w].at = "loop", ![w].next = @ + 1]
  BY DEF ReadRun, Finish, Crash, CallThrows, MarkFailedThrows, Skip, Postpone, At, JobDone, JobThrew,
     Leave, NextOne
<1> QED
  BY <1>1, <1>2, <1>3, MovesAreQuiet, QuietKeeps

(* Claim: the delivery was "queued", so nobody was working on it and nothing had been sent. *)
LEMMA ClaimKeeps ==
  ASSUME IInv, NEW w \in Workers, NEW d \in Deliveries, Claim(w, d)
  PROVE  IInv'
<1>1. /\ worker' = [worker EXCEPT ![w].at = "claimed"]
      /\ delivery' = [delivery EXCEPT ![d] = "sending"]
      /\ worker[w].next = d
      /\ delivery[d] = "queued"
      /\ UNCHANGED <<run, sends>>
  BY DEF Claim, At, Claimable, Go, runVars
<1>2. /\ worker'[w].at = "claimed" /\ worker'[w].next = d
      /\ \A v \in Workers \ {w} : worker'[v] = worker[v]
  BY <1>1 DEF IInv, ShapeInv
<1>3. sends[d] = 0
  BY <1>1 DEF IInv, SendInv
<1>4. ShapeInv'
  BY <1>1 DEF IInv, ShapeInv, WorkerAt, DeliveryStatus
<1>5. ReservedInv' /\ SendInv'
  BY <1>1, <1>3 DEF IInv, ShapeInv, ReservedInv, SendInv
<1>6. \A v \in Workers \ {w} : Claiming(v) => worker[v].next # d
  BY <1>1 DEF IInv, ClaimInv
<1>7. ClaimInv'
  BY <1>1, <1>2, <1>3, <1>6 DEF IInv, ShapeInv, ClaimInv, Claiming
<1> QED
  BY <1>4, <1>5, <1>7 DEF IInv

(* Who works on d when w does. *)
LEMMA Alone ==
  ASSUME IInv, NEW w \in Workers, Claiming(w)
  PROVE  \A v \in Workers \ {w} : Claiming(v) => worker[v].next # worker[w].next
  BY DEF IInv, ClaimInv

(* The updates that end a claim: w leaves d, alone on it, with a final status. *)
LEMMA EndingKeeps ==
  ASSUME IInv, NEW w \in Workers, NEW d \in Deliveries,
         Claiming(w), worker[w].next = d, NEW status \in {"sent", "failed", "suppressed"},
         status = "sent" => sends[d] = 1,
         status = "suppressed" => sends[d] = 0,
         delivery' = [delivery EXCEPT ![d] = status],
         \A v \in Workers \ {w} : worker'[v] = worker[v],
         ~Claiming(w)' \/ (worker'[w].at = "refused" /\ worker'[w].next = d),
         worker' \in [Workers -> [at : WorkerAt, job : Jobs \union {Idle.job}, next : Int]],
         UNCHANGED <<run, sends>>
  PROVE  IInv'
<1>1. \A v \in Workers \ {w} : Claiming(v) => worker[v].next # d
  BY Alone
<1>2. ShapeInv'
  BY DEF IInv, ShapeInv, DeliveryStatus
<1>3. delivery[d] # "absent"
  BY DEF IInv, ClaimInv
<1>4. ReservedInv' /\ SendInv'
  BY <1>3 DEF IInv, ShapeInv, ReservedInv, SendInv
<1>5. ClaimInv'
  BY <1>1 DEF IInv, ShapeInv, ClaimInv, Claiming
<1> QED
  BY <1>2, <1>4, <1>5 DEF IInv

(* An update filtered on "sending" that finds another status changes nothing. *)
LEMMA MarkEffect ==
  ASSUME IInv, NEW d \in Deliveries, NEW status, Mark(d, status)
  PROVE  /\ delivery[d] = "sending" => delivery' = [delivery EXCEPT ![d] = status]
         /\ delivery[d] # "sending" => delivery' = delivery
<1>1. delivery = [x \in Deliveries |-> delivery[x]]
  BY DEF IInv, ShapeInv
<1> QED
  BY <1>1 DEF Mark

(* A worker that ends its turn, or goes on with the next delivery, is outside a claim. *)
LEMMA LeavingWorker ==
  ASSUME IInv, NEW w \in Workers, Leave(w) \/ NextOne(w)
  PROVE  /\ \A v \in Workers \ {w} : worker'[v] = worker[v]
         /\ ~Claiming(w)'
         /\ worker'[w].at \in {"idle", "taken", "loop"}
         /\ worker' \in [Workers -> [at : WorkerAt, job : Jobs \union {Idle.job}, next : Int]]
<1>1. worker[w] \in [at : WorkerAt, job : Jobs \union {Idle.job}, next : Int]
  BY DEF IInv, ShapeInv
<1>2. CASE Leave(w)
  <2>1. Idle \in [at : WorkerAt, job : Jobs \union {Idle.job}, next : Int] /\ Idle.at = "idle"
    BY DEF Idle, WorkerAt
  <2> QED
    BY <1>2, <2>1 DEF Leave, IInv, ShapeInv, Claiming
<1>3. CASE NextOne(w)
  BY <1>1, <1>3 DEF NextOne, IInv, ShapeInv, Claiming, WorkerAt
<1> QED
  BY <1>2, <1>3

(* Moving on within a claim. *)
LEMMA MovingWorker ==
  ASSUME IInv, NEW w \in Workers, NEW to \in WorkerAt, Go(w, to)
  PROVE  /\ \A v \in Workers \ {w} : worker'[v] = worker[v]
         /\ worker'[w].at = to /\ worker'[w].next = worker[w].next
         /\ worker' \in [Workers -> [at : WorkerAt, job : Jobs \union {Idle.job}, next : Int]]
  BY DEF Go, IInv, ShapeInv

(* Evaluate: nothing has been sent for a delivery that is suppressed. *)
LEMMA EvaluateKeeps ==
  ASSUME IInv, NEW w \in Workers, NEW d \in Deliveries, Evaluate(w, d)
  PROVE  IInv'
<1>1. /\ Claiming(w) /\ worker[w].at = "claimed" /\ worker[w].next = d
      /\ UNCHANGED <<run, sends>>
  BY DEF Evaluate, Claiming, runVars
<1>2. delivery[d] = "sending" /\ sends[d] = 0
  BY <1>1 DEF IInv, ClaimInv
<1>3. CASE Go(w, "allowed") /\ UNCHANGED delivery
  <2>1. /\ \A v \in Workers \ {w} : worker'[v] = worker[v]
        /\ worker'[w].at = "allowed" /\ worker'[w].next = d
        /\ worker' \in [Workers -> [at : WorkerAt, job : Jobs \union {Idle.job}, next : Int]]
    BY <1>1, <1>3, MovingWorker DEF WorkerAt
  <2>2. ShapeInv' /\ ReservedInv' /\ SendInv'
    BY <1>1, <1>3, <2>1 DEF IInv, ShapeInv, ReservedInv, SendInv
  <2>3. \A v \in Workers \ {w} : Claiming(v) => worker[v].next # d
    BY <1>1, Alone
  <2>4. ClaimInv'
    BY <1>1, <1>2, <1>3, <2>1, <2>3 DEF IInv, ClaimInv, Claiming
  <2> QED
    BY <2>2, <2>4 DEF IInv
<1>4. CASE NextOne(w) /\ Mark(d, "suppressed")
  <2>1. delivery' = [delivery EXCEPT ![d] = "suppressed"]
    BY <1>2, <1>4, MarkEffect
  <2> QED
    BY <1>1, <1>2, <1>4, <2>1, LeavingWorker, EndingKeeps
<1> QED
  BY <1>3, <1>4 DEF Evaluate

(* Send: the one call of the provider for d. *)
LEMMA SendKeeps ==
  ASSUME IInv, NEW w \in Workers, NEW d \in Deliveries, Send(w, d)
  PROVE  IInv'
<1>1. /\ Claiming(w) /\ worker[w].at = "allowed" /\ worker[w].next = d
      /\ UNCHANGED <<run, delivery>>
  BY DEF Send, Claiming, runVars
<1>2. delivery[d] = "sending" /\ sends[d] = 0
  BY <1>1 DEF IInv, ClaimInv
<1>3. \/ Go(w, "accepted") /\ sends' = [sends EXCEPT ![d] = 1]
      \/ Go(w, "refused") /\ (sends' = [sends EXCEPT ![d] = 1] \/ sends' = sends)
  BY <1>2 DEF Send, Accept, IInv, ShapeInv
<1>4. /\ \A v \in Workers \ {w} : worker'[v] = worker[v]
      /\ worker'[w].at \in {"accepted", "refused"} /\ worker'[w].next = d
      /\ worker'[w].at = "accepted" => sends' = [sends EXCEPT ![d] = 1]
      /\ worker' \in [Workers -> [at : WorkerAt, job : Jobs \union {Idle.job}, next : Int]]
  BY <1>1, <1>3, MovingWorker DEF WorkerAt
<1>5. \A v \in Workers \ {w} : Claiming(v) => worker[v].next # d
  BY <1>1, Alone
<1>6. ShapeInv' /\ ReservedInv' /\ SendInv'
  BY <1>1, <1>2, <1>3, <1>4 DEF IInv, ShapeInv, ReservedInv, SendInv
<1>7. ClaimInv'
  BY <1>1, <1>2, <1>3, <1>4, <1>5 DEF IInv, ShapeInv, ClaimInv, Claiming
<1> QED
  BY <1>6, <1>7 DEF IInv

(* MarkSent: the provider has accepted the message of w's claim. *)
LEMMA MarkSentKeeps ==
  ASSUME IInv, NEW w \in Workers, NEW d \in Deliveries, MarkSent(w, d)
  PROVE  IInv'
<1>1. /\ Claiming(w) /\ worker[w].at = "accepted" /\ worker[w].next = d
      /\ UNCHANGED <<run, sends>>
  BY DEF MarkSent, Claiming, runVars
<1>2. delivery[d] = "sending" /\ sends[d] = 1
  BY <1>1 DEF IInv, ClaimInv
<1>3. delivery' = [delivery EXCEPT ![d] = "sent"]
  BY <1>2, MarkEffect DEF MarkSent
<1> QED
  BY <1>1, <1>2, <1>3, LeavingWorker, EndingKeeps DEF MarkSent

(* MarkSentThrows: the row may say "sent" already when the catch block is entered. *)
LEMMA MarkSentThrowsKeeps ==
  ASSUME IInv, NEW w \in Workers, NEW d \in Deliveries, MarkSentThrows(w, d)
  PROVE  IInv'
<1>1. /\ Claiming(w) /\ worker[w].at = "accepted" /\ worker[w].next = d
      /\ UNCHANGED <<run, sends>>
  BY DEF MarkSentThrows, Claiming, runVars
<1>2. delivery[d] = "sending" /\ sends[d] = 1
  BY <1>1 DEF IInv, ClaimInv
<1>3. /\ \A v \in Workers \ {w} : worker'[v] = worker[v]
      /\ worker'[w].at = "refused" /\ worker'[w].next = d
      /\ worker' \in [Workers -> [at : WorkerAt, job : Jobs \union {Idle.job}, next : Int]]
  BY <1>1, MovingWorker DEF MarkSentThrows, WorkerAt
<1>4. CASE Mark(d, "sent")
  <2>1. delivery' = [delivery EXCEPT ![d] = "sent"]
    BY <1>2, <1>4, MarkEffect
  <2> QED
    BY <1>1, <1>2, <1>3, <2>1, EndingKeeps
<1>5. CASE UNCHANGED delivery
  <2>1. \A v \in Workers \ {w} : Claiming(v) => worker[v].next # d
    BY <1>1, Alone
  <2>2. ShapeInv' /\ ReservedInv' /\ SendInv'
    BY <1>1, <1>3, <1>5 DEF IInv, ShapeInv, ReservedInv, SendInv
  <2>3. ClaimInv'
    BY <1>1, <1>2, <1>3, <1>5, <2>1 DEF IInv, ClaimInv, Claiming
  <2> QED
    BY <2>2, <2>3 DEF IInv
<1> QED
  BY <1>4, <1>5 DEF MarkSentThrows

(* MarkFailed: a row that says "sent" by now is not written. *)
LEMMA MarkFailedKeeps ==
  ASSUME IInv, NEW w \in Workers, NEW d \in Deliveries, MarkFailed(w, d)
  PROVE  IInv'
<1>1. /\ Claiming(w) /\ worker[w].next = d
      /\ Leave(w)
      /\ UNCHANGED <<run, sends>>
  BY DEF MarkFailed, Claiming, JobThrew, runVars
<1>2. CASE delivery[d] = "sending"
  <2>1. delivery' = [delivery EXCEPT ![d] = "failed"]
    BY <1>2, MarkEffect DEF MarkFailed
  <2> QED
    BY <1>1, <2>1, LeavingWorker, EndingKeeps
<1>3. CASE delivery[d] # "sending"
  <2>1. delivery' = delivery
    BY <1>3, MarkEffect DEF MarkFailed
  <2>2. Quiet
    BY <1>1, <2>1, LeavingWorker DEF Quiet, QuietWorker
  <2> QED
    BY <2>2, QuietKeeps
<1> QED
  BY <1>2, <1>3

(* Every step keeps IInv. *)
LEMMA StepInv == IInv /\ [Next]_vars => IInv'
<1> SUFFICES ASSUME IInv, [Next]_vars PROVE IInv'
  OBVIOUS
<1>1. CASE UNCHANGED vars
  BY <1>1 DEF vars, runVars, IInv, ShapeInv, ReservedInv, ClaimInv, SendInv, Claiming
<1>2. CASE Schedule
  BY <1>2, ScheduleKeeps
<1>3. CASE EnqueueBatch \/ ScheduleAborts \/ \E j \in Jobs : FalseStall(j) \/ OtherWorker(j)
  BY <1>3, EnvironmentKeeps
<1>4. CASE \E status \in {"paused", "running", "cancelled"} : Command(status)
  BY <1>4, EnvironmentKeeps
<1>5. CASE \E d \in Deliveries : Withdraw(d) \/ DeliverAtComes(d)
  BY <1>5, EnvironmentKeeps
<1>6. CASE \E w \in Workers, j \in Jobs : TakeJob(w, j)
  BY <1>6, TakeJobKeeps
<1>7. CASE \E w \in Workers : Crash(w) \/ CallThrows(w) \/ MarkFailedThrows(w)
  BY <1>7, WalkingKeeps
<1>8. CASE \E w \in Workers, d \in Deliveries : MarkSentThrows(w, d)
  BY <1>8, MarkSentThrowsKeeps
<1>9. ASSUME NEW w \in Workers, WorkerStep(w) PROVE IInv'
  <2>1. CASE ReadRun(w) \/ Finish(w)
    BY <2>1, WalkingKeeps
  <2>2. ASSUME NEW d \in Deliveries, Skip(w, d) \/ Postpone(w, d) PROVE IInv'
    BY <2>2, WalkingKeeps
  <2>3. ASSUME NEW d \in Deliveries, Claim(w, d) PROVE IInv'
    BY <2>3, ClaimKeeps
  <2>4. ASSUME NEW d \in Deliveries, Evaluate(w, d) PROVE IInv'
    BY <2>4, EvaluateKeeps
  <2>5. ASSUME NEW d \in Deliveries, Send(w, d) PROVE IInv'
    BY <2>5, SendKeeps
  <2>6. ASSUME NEW d \in Deliveries, MarkSent(w, d) PROVE IInv'
    BY <2>6, MarkSentKeeps
  <2>7. ASSUME NEW d \in Deliveries, MarkFailed(w, d) PROVE IInv'
    BY <2>7, MarkFailedKeeps
  <2> QED
    BY <1>9, <2>1, <2>2, <2>3, <2>4, <2>5, <2>6, <2>7 DEF WorkerStep
<1> QED
  BY <1>1, <1>2, <1>3, <1>4, <1>5, <1>6, <1>7, <1>8, <1>9 DEF Next, FaultStep

(* Every reachable state satisfies IInv. *)
LEMMA Invariance == Spec => []IInv
  BY InitInv, StepInv, PTL DEF Spec

(* No recipient gets the message of a run twice, whatever crashes, lost locks, retries and calls *)
(* happen (CampaignDeliveryProcessor.process: the claim and the filtered updates).               *)
THEOREM OneSend == Spec => []AtMostOneSend
<1>1. IInv => AtMostOneSend
  BY DEF IInv, SendInv, AtMostOneSend
<1> QED
  BY <1>1, Invariance, PTL

(* A final status agrees with what the provider accepted. *)
THEOREM StatusTold == Spec => []StatusMatchesProvider
<1>1. IInv => StatusMatchesProvider
  BY DEF IInv, SendInv, StatusMatchesProvider
<1> QED
  BY <1>1, Invariance, PTL
===============================================================================
