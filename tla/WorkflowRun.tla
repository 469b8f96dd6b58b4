----------------------------- MODULE WorkflowRun -----------------------------
(***************************************************************************)
(* One run of a workflow (apps/api/src/modules/workflows), from the        *)
(* validation of the draft, which has to be accepted to be published:      *)
(* trigger, which reserves the run in a transaction and then enqueues its  *)
(* first node; pause, resume, cancel and recover; and the                  *)
(* WorkflowProcessor, which takes a concurrency slot of the workspace in   *)
(* Redis, executes a node and enqueues the nodes after it.                 *)
(*                                                                         *)
(* The run keeps the version it was reserved with, so its graph does not   *)
(* change.  Delays are dropped: a delayed job is one no worker has taken   *)
(* yet.  Job ids hold the time, so no two enqueues are taken for one       *)
(* another.                                                                *)
(***************************************************************************)
EXTENDS WorkflowValidator, Bags

CONSTANTS
  Recoverable,     \* bound: the nodes recover is called for
  Retry,           \* node.retry.attempts of each node (3 when the node has no policy)
  DefaultAttempts, \* attempts of a job enqueued without a policy (3)
  SlotLimit,       \* running jobs a workspace may have (25)
  Workers,         \* concurrent slots of the workflow-execution worker (50)
  MaxJobs,         \* bound: jobs waiting at a time
  MaxCommands,     \* bound: pause, resume, cancel and recover calls
  MaxFaults        \* bound: crashes, errors and expiries of the slot counter

ASSUME WorkflowAssumption ==
  /\ Recoverable \subseteq Nodes
  /\ Retry \in [Nodes -> Nat \ {0}]
  /\ {DefaultAttempts, SlotLimit, MaxJobs} \subseteq Nat \ {0}
  /\ IsFiniteSet(Workers)
  /\ {MaxCommands, MaxFaults} \subseteq Nat

VARIABLES
  run,       \* WorkflowRun.status
  counters,  \* run.variables: the counter of each loop node
  last,      \* node of the newest step run, or None
  waiting,   \* the bag of jobs BullMQ holds for the workers
  slots,     \* the Redis counter workflow:concurrency:<workspace>
  worker,    \* each worker: where it is in process(), its job and what it read
  api,       \* the API request between its write and its enqueue
  causes,    \* history: what has cost the run a job
  late,      \* history: steps begun after the run was cancelled or completed
  rounds,    \* history: how often each loop node has answered "continue"
  overwrote, \* history: a job has written counters older than the run's
  expired,   \* history: the slot counter has expired
  commands,
  faults

runVars  == <<graph, run, counters, last, late, rounds, overwrote>>
slotVars == <<slots, expired>>
vars     == <<walk, runVars, waiting, slotVars, worker, api, causes, commands, faults>>

RunStatus == {"absent", "queued", "running", "paused", "completed", "dead_letter", "cancelled"}
Closed == {"cancelled", "completed"}
Zero == [n \in LoopNodes |-> 0]
IdleWorker == [at |-> "idle", job |-> None, counters |-> Zero, todo |-> {}]
IdleApi == [at |-> "idle", node |-> None]

Init ==
  /\ WalkInit
  /\ run = "absent" /\ counters = Zero /\ last = None
  /\ waiting = EmptyBag /\ slots = 0
  /\ worker = [w \in Workers |-> IdleWorker]
  /\ api = IdleApi
  /\ causes = {} /\ late = 0 /\ rounds = Zero /\ overwrote = FALSE /\ expired = FALSE
  /\ commands = 0 /\ faults = 0

Fault == faults < MaxFaults /\ faults' = faults + 1
Command == commands < MaxCommands /\ commands' = commands + 1

\* setRun never matches a cancelled or completed run.
SetRun(status) == IF run \in Closed THEN run ELSE status
NewJob(n, attempts) == [node |-> n, made |-> 0, of |-> attempts, stalled |-> FALSE]
Queued(job) == waiting (+) SetToBag({job})
Enqueue(n, attempts) ==
  BagCardinality(waiting) < MaxJobs /\ waiting' = Queued(NewJob(n, attempts))

-----------------------------------------------------------------------------
\* trigger: of a draft that was refused no published version is found.  The run is reserved under
\* its idempotencyKey; a repeated call answers duplicate and enqueues nothing.  That the version
\* has no node for the trigger is only found after the commit.
Trigger(type) ==
  /\ Accepted /\ run = "absent"
  /\ type = "event" => \E n \in Nodes : Kind[n] = "event"
  /\ run' = "queued"
  /\ IF StartNode(type) = None
     THEN causes' = causes \union {"no trigger"} /\ api' = api
     ELSE causes' = causes /\ api' = [at |-> "trigger", node |-> StartNode(type)]
  /\ UNCHANGED <<graph, counters, last, late, rounds, overwrote, waiting, slotVars, worker, commands, faults>>

\* command: pause and cancel only set the status.
Halt(status) ==
  /\ status \in {"paused", "cancelled"}
  /\ run \notin Closed \union {"absent"} /\ Command
  /\ run' = status
  /\ UNCHANGED <<graph, counters, last, late, rounds, overwrote, waiting, slotVars, worker, api, causes, faults>>

\* resume: the node of the newest step runs again, if there is one.
Resume ==
  /\ run \notin Closed \union {"absent"} /\ api = IdleApi /\ Command
  /\ run' = "running"
  /\ api' = IF last = None THEN api ELSE [at |-> "requeue", node |-> last]
  /\ UNCHANGED <<graph, counters, last, late, rounds, overwrote, waiting, slotVars, worker, causes, faults>>

\* recover: the node the caller names runs again.
Recover(n) ==
  /\ run \notin Closed \union {"absent"} /\ api = IdleApi /\ Command
  /\ run' = "running"
  /\ api' = [at |-> "requeue", node |-> n]
  /\ UNCHANGED <<graph, counters, last, late, rounds, overwrote, waiting, slotVars, worker, causes, faults>>

EnqueueNode ==
  /\ api.at # "idle"
  /\ Enqueue(api.node, IF api.at = "trigger" THEN Retry[api.node] ELSE DefaultAttempts)
  /\ api' = IdleApi
  /\ UNCHANGED <<runVars, slotVars, worker, causes, commands, faults>>

\* The API dies, or the queue refuses the job, after the status was written.
ApiDies ==
  /\ api.at # "idle" /\ Fault
  /\ api' = IdleApi
  /\ causes' = causes \union {"enqueue lost"}
  /\ UNCHANGED <<runVars, waiting, slotVars, worker, commands>>

-----------------------------------------------------------------------------
\* BullMQ.
TakeJob(w, job) ==
  /\ worker[w].at = "idle" /\ BagIn(job, waiting)
  /\ waiting' = waiting (-) SetToBag({job})
  /\ worker' = [worker EXCEPT ![w] = [IdleWorker EXCEPT !.at = "acquire", !.job = job]]
  /\ UNCHANGED <<runVars, slotVars, api, causes, commands, faults>>

\* The worker application serves a queue of the same name: it fails the job for good, since the
\* data is not the envelope of its job contract.
OtherWorker(job) ==
  /\ BagIn(job, waiting) /\ Fault
  /\ waiting' = waiting (-) SetToBag({job})
  /\ causes' = causes \union {"other worker"}
  /\ UNCHANGED <<runVars, slotVars, worker, api, commands>>

Working == {"read", "mark", "step", "execute", "complete", "enqueue", "leave"}
Job(w) == worker[w].job
Node(w) == Job(w).node
Goes(w, at) == worker' = [worker EXCEPT ![w].at = at]
Ends(w) == worker' = [worker EXCEPT ![w] = IdleWorker]

\* process() threw: another attempt, or the failed set.
JobThrew(w) ==
  LET job == [Job(w) EXCEPT !.made = @ + 1] IN
  /\ Ends(w)
  /\ IF job.made < job.of
     THEN waiting' = Queued(job) /\ causes' = causes
     ELSE waiting' = waiting /\ causes' = causes \union {"attempts"}

-----------------------------------------------------------------------------
\* Mutant of Acquire: the limit is compared with the count before this job.
AcquireReached(w) ==
  /\ worker[w].at = "acquire"
  /\ slots' = slots + 1
  /\ Goes(w, IF slots > SlotLimit THEN "refused" ELSE "read")
  /\ UNCHANGED <<runVars, waiting, expired, api, causes, commands, faults>>

\* acquire: INCR, and DECR again above the limit.
Acquire(w) ==
  /\ worker[w].at = "acquire"
  /\ slots' = slots + 1
  /\ Goes(w, IF slots + 1 > SlotLimit THEN "refused" ELSE "read")
  /\ UNCHANGED <<runVars, waiting, expired, api, causes, commands, faults>>

\* The attempt is used up, with no step run and no dead_letter to show for it.
Refuse(w) ==
  /\ worker[w].at = "refused"
  /\ slots' = slots - 1
  /\ JobThrew(w)
  /\ UNCHANGED <<runVars, expired, api, commands, faults>>

\* The counter's hour is up: EXPIRE is only set when INCR answers 1, never renewed.
SlotsExpire ==
  /\ slots # 0 /\ Fault
  /\ slots' = 0 /\ expired' = TRUE
  /\ UNCHANGED <<runVars, waiting, worker, api, causes, commands>>

\* Mutant of Skipped: a cancelled run is not looked for.
SkippedPausedOnly == {"paused", "completed"}

\* Reads the run; a cancelled, paused or completed one costs the job.
Skipped == {"cancelled", "paused", "completed"}

ReadRun(w) ==
  /\ worker[w].at = "read"
  /\ worker' = [worker EXCEPT ![w].at = IF run \in Skipped THEN "leave" ELSE "mark",
                              ![w].counters = counters]
  /\ causes' = IF run = "paused" THEN causes \union {"paused"} ELSE causes
  /\ UNCHANGED <<runVars, waiting, slotVars, api, commands, faults>>

\* Sets the run running, without looking whether that worked.
MarkRunning(w) ==
  /\ worker[w].at = "mark"
  /\ run' = SetRun("running")
  /\ Goes(w, "step")
  /\ UNCHANGED <<graph, counters, last, late, rounds, overwrote, waiting, slotVars, api, causes, commands, faults>>

CreateStep(w) ==
  /\ worker[w].at = "step"
  /\ last' = Node(w)
  /\ late' = IF run \in Closed THEN late + 1 ELSE late
  /\ Goes(w, "execute")
  /\ UNCHANGED <<graph, run, counters, rounds, overwrote, waiting, slotVars, api, causes, commands, faults>>

\* Mutant of EndsRun: only a terminate node completes the run.
EndsAtTerminate(n, todo) == Kind[n] = "terminate"

\* The run ends with a terminate node, or where no node follows one that is no delay.
EndsRun(n, todo) == Kind[n] = "terminate" \/ (todo = {} /\ Kind[n] # "delay")

\* The handler answers; the variables are stored as this job knows them.
Execute(w) ==
  LET n == Node(w)
      mine == worker[w].counters
      branch == Answer(n, mine)
      todo == {e.target : e \in Following(graph, n, branch)}
      open == run \notin Closed
  IN /\ worker[w].at = "execute"
     /\ counters' = IF open THEN Bump(n, mine) ELSE counters
     /\ overwrote' = (overwrote \/ (open /\ counters # mine))
     /\ rounds' = IF open /\ branch = "continue" THEN [rounds EXCEPT ![n] = @ + 1] ELSE rounds
     /\ worker' = [worker EXCEPT
          ![w].todo = IF Kind[n] = "terminate" THEN {} ELSE todo,
          ![w].at = IF EndsRun(n, todo) THEN "complete" ELSE "enqueue"]
     /\ causes' = IF Kind[n] = "delay" /\ todo = {} THEN causes \union {"parked"} ELSE causes
     /\ UNCHANGED <<graph, run, last, late, waiting, slotVars, api, commands, faults>>

\* terminated, or no node follows: the run is completed, whatever else is still queued.
CompleteRun(w) ==
  /\ worker[w].at = "complete"
  /\ run' = SetRun("completed")
  /\ Goes(w, "leave")
  /\ UNCHANGED <<graph, counters, last, late, rounds, overwrote, waiting, slotVars, api, causes, commands, faults>>

EnqueueNext(w, n) ==
  /\ worker[w].at = "enqueue" /\ n \in worker[w].todo
  /\ Enqueue(n, DefaultAttempts)
  /\ worker' = [worker EXCEPT ![w].todo = @ \ {n}]
  /\ UNCHANGED <<runVars, slotVars, api, causes, commands, faults>>

\* The finally block gives the slot back and the job is done.
Leave(w) ==
  /\ worker[w].at = "leave" \/ (worker[w].at = "enqueue" /\ worker[w].todo = {})
  /\ slots' = slots - 1
  /\ Ends(w)
  /\ UNCHANGED <<runVars, waiting, expired, api, causes, commands, faults>>

\* A call throws before the step exists, or after; only then may the run become a dead letter,
\* after as many attempts as the node's own policy says.  The update that says so, and the DECR of
\* the finally block, may throw in turn.
Throw(w) ==
  /\ worker[w].at \in Working \union {"refused"} /\ Fault
  /\ \/ run' = run
     \/ /\ worker[w].at \in {"execute", "complete", "enqueue"}
        /\ Job(w).made + 1 >= Retry[Node(w)]
        /\ run' = SetRun("dead_letter")
  /\ slots' \in {slots - 1, slots}
  /\ JobThrew(w)
  /\ UNCHANGED <<graph, counters, last, late, rounds, overwrote, expired, api, commands>>

\* The worker dies: the slot stays taken; a job that stalls twice fails.
Crash(w) ==
  /\ worker[w].at # "idle" /\ Fault
  /\ Ends(w)
  /\ IF Job(w).stalled
     THEN waiting' = waiting /\ causes' = causes \union {"attempts"}
     ELSE waiting' = Queued([Job(w) EXCEPT !.stalled = TRUE]) /\ causes' = causes
  /\ UNCHANGED <<runVars, slotVars, api, commands>>

WorkerGoes(w) ==
  \/ \E job \in BagToSet(waiting) : TakeJob(w, job)
  \/ Acquire(w) \/ Refuse(w) \/ ReadRun(w) \/ MarkRunning(w) \/ CreateStep(w) \/ Execute(w)
  \/ CompleteRun(w) \/ \E n \in Nodes : EnqueueNext(w, n)
  \/ Leave(w)

RunStep ==
  \/ \E type \in {"event", "manual"} : Trigger(type)
  \/ EnqueueNode \/ ApiDies \/ SlotsExpire
  \/ \E status \in {"paused", "cancelled"} : Halt(status)
  \/ Resume \/ \E n \in Recoverable : Recover(n)
  \/ \E w \in Workers : WorkerGoes(w) \/ Throw(w) \/ Crash(w)
  \/ \E job \in BagToSet(waiting) : OtherWorker(job)

Next ==
  \/ Validate /\ UNCHANGED <<run, counters, last, late, rounds, overwrote, waiting, slotVars, worker, api,
                             causes, commands, faults>>
  \/ RunStep /\ UNCHANGED walk

Spec == Init /\ [][Next]_vars

-----------------------------------------------------------------------------
Positions == Working \union {"idle", "acquire", "refused"}

Jobs == [node : Nodes, made : Nat, of : Nat, stalled : BOOLEAN]
Hand == [at : Positions, job : Jobs \union {None}, counters : [LoopNodes -> Nat], todo : SUBSET Nodes]
Causes == {"no trigger", "enqueue lost", "paused", "attempts", "parked", "other worker"}

TypeOK ==
  /\ graph \in Graphs
  /\ run \in RunStatus
  /\ counters \in [LoopNodes -> Nat] /\ last \in Nodes \union {None}
  /\ IsABag(waiting) /\ BagToSet(waiting) \subseteq Jobs
  /\ slots \in Int
  /\ worker \in [Workers -> Hand]
  /\ api \in [at : {"idle", "trigger", "requeue"}, node : Nodes \union {None}]
  /\ causes \subseteq Causes
  /\ late \in Nat /\ rounds \in [LoopNodes -> Nat]
  /\ overwrote \in BOOLEAN /\ expired \in BOOLEAN
  /\ commands \in 0 .. MaxCommands /\ faults \in 0 .. MaxFaults

\* The cycle check looks only at the node an edge closes on, and walks each node once: still no
\* run goes over a graph on which a job could go round without a loop node to count it.
CyclesHaveLoop == run # "absent" => ~Endless

\* A run that calls itself queued or running, with no job left to move it, has lost a job in one
\* of the known ways: no node for the trigger, an enqueue lost after the commit, a job dropped
\* while the run was paused, attempts used up, a delay with nothing after it, or a job the worker
\* application has taken.
Moving == api.at # "idle" \/ waiting # EmptyBag \/ \E w \in Workers : worker[w].at # "idle"
StrandedNeedsCause == run \in {"queued", "running"} /\ ~Moving => causes # {}

\* Until the counter expires under it, a workspace never runs more jobs than its limit,
\* crashes included: what a dead worker keeps only makes the limit smaller.
SlotsBounded ==
  ~expired => Cardinality({w \in Workers : worker[w].at \in Working}) <= SlotLimit

\* After a run is cancelled or completed each worker begins at most the one step it had read
\* the run for; whatever these steps enqueue is skipped.
LateStepsBounded == late <= Cardinality(Workers)

\* A loop goes round less than maxIterations times, retries and repeated jobs included, unless
\* a job that ran beside it has written its counter back.
LoopBounded == ~overwrote => \A n \in LoopNodes : rounds[n] < MaxIterations

-----------------------------------------------------------------------------
(* The inductive invariant.                                                *)

\* Who is at work has a job, and a request that is under way a node.
Equipped ==
  /\ \A w \in Workers : worker[w].at # "idle" => worker[w].job \in Jobs
  /\ api.at # "idle" => api.node \in Nodes

\* Until it expires the counter counts at least those who have incremented it and live.
Counted == {w \in Workers : worker[w].at \in Working \union {"refused"}}
SlotsInv == ~expired => slots >= Cardinality(Counted) /\ SlotsBounded

\* Only a worker that has read the run while it was open may still begin a step of a closed one.
Begun == {w \in Workers : worker[w].at \in {"mark", "step"}}
LateInv == IF run \in Closed THEN late + Cardinality(Begun) <= Cardinality(Workers) ELSE late = 0

\* A counter no job has written back is ahead of the rounds it counts.
RoundsInv == ~overwrote => \A n \in LoopNodes : rounds[n] <= counters[n] /\ rounds[n] < MaxIterations

\* An open run whose jobs are all accounted for has one at work, to be taken or to be enqueued.
Carries(w) ==
  /\ worker[w].at \notin {"idle", "leave"}
  /\ worker[w].at = "enqueue" => worker[w].todo # {}
Carried == api.at # "idle" \/ waiting # EmptyBag \/ \E w \in Workers : Carries(w)
Accounted == run \in Closed \/ causes # {}
CarriedInv ==
  /\ Accounted \/ run = "absent" \/ Carried
  /\ \A w \in Workers : worker[w].at = "leave" => Accounted

\* Before the trigger there is no job, and what is triggered has been accepted.
Untouched == waiting = EmptyBag /\ api.at = "idle" /\ \A w \in Workers : worker[w].at = "idle"
PublishedInv == IF run = "absent" THEN Untouched ELSE Accepted

IInv ==
  /\ TypeOK /\ Equipped /\ SlotsInv /\ LateInv /\ RoundsInv /\ CarriedInv
  /\ WalkInv /\ CyclesReal /\ PublishedInv
=============================================================================
