---------------------- MODULE NotificationDeliveryProofs ----------------------
(***************************************************************************)
(* Proofs about NotificationDelivery, for any number of requests, workers  *)
(* and attempts and any number of deferrals and faults.                    *)
(*                                                                         *)
(* IInv is inductive.  A claim closes a request, and only its holder, or   *)
(* an update the holder left behind, opens it again; so two workers never  *)
(* hold one request although the updates are unfiltered, and each message  *)
(* but the last one accepted for it has had an error.  One lemma settles   *)
(* the actions that touch no request; each of the others has its own.      *)
(***************************************************************************)
EXTENDS NotificationDelivery, TLAPS

(* Request identifiers, and the fallback of one. *)
LEMMA IdFacts ==
  /\ \A r \in Requests : <<r, "chosen">> \in Ids
  /\ \A id \in Ids : Fallback(id) \in Ids /\ Fallback(id)[2] = "fallback"
  /\ \A j \in Jobs : j[1] \in Ids
  /\ \A i, id \in Ids : i[2] = "chosen" /\ id[2] = "chosen" /\ Fallback(i) = Fallback(id) => i = id
  BY DEF Ids, Jobs, Fallback

(* Init gives IInv. *)
LEMMA InitInv == Init => IInv
<1> SUFFICES ASSUME Init PROVE IInv
  OBVIOUS
<1>1. Idle \in [at : WorkerAt, job : Jobs \union {Nothing}, tries : Nat,
                adds : Jobs \union {Nothing}, todo : SUBSET Ids]
  BY DEF Idle, WorkerAt
<1>2. Idle.at = "idle"
  BY DEF Idle
<1>3. ShapeInv
  BY <1>1, <1>2, NotificationAssumption DEF Init, ShapeInv, RequestStatus, Holding
<1>4. \A w \in Workers, id \in Ids : ~Holds(w, id)
  BY <1>2 DEF Init, Holds, Holding
<1>5. HoldInv /\ SentInv /\ CleanInv
  BY <1>2, <1>4 DEF Init, HoldInv, SentInv, CleanInv
<1>6. FallbackInv
  BY IdFacts DEF Init, FallbackInv
<1> QED
  BY <1>3, <1>5, <1>6 DEF IInv

(* A step that touches no request and leaves each worker as it is or holding nothing. *)
LetsGo(w) ==
  \/ worker'[w] = worker[w]
  \/ worker'[w].at \notin Holding

Quiet ==
  /\ UNCHANGED <<kind, deferrals, status, sent, errors, late>>
  /\ \A w \in Workers : LetsGo(w)

LEMMA QuietKeeps ==
  ASSUME IInv, Quiet, ShapeInv'
  PROVE  IInv'
<1>1. \A w \in Workers, id \in Ids : Holds(w, id)' => Holds(w, id) /\ worker'[w] = worker[w]
  BY DEF Quiet, LetsGo, Holds
<1>2. HoldInv'
  <2>1. \A w \in Workers : worker'[w].at \in {"reserving", "fallback"} => worker'[w] = worker[w]
    BY DEF Quiet, LetsGo, Holding
  <2> QED
    BY <1>1, <2>1 DEF IInv, HoldInv, Quiet
<1>3. SentInv'
  BY <1>1 DEF IInv, SentInv, Quiet
<1>4. FallbackInv'
  BY <1>1 DEF IInv, FallbackInv, Quiet
<1>5. CleanInv'
  BY <1>1 DEF IInv, CleanInv, Quiet
<1> QED
  BY <1>2, <1>3, <1>4, <1>5 DEF IInv

WorkerShape == [at : WorkerAt, job : Jobs \union {Nothing}, tries : Nat,
                adds : Jobs \union {Nothing}, todo : SUBSET Ids]

(* What a worker that leaves, moves or is given a job looks like. *)
LEMMA WorkerFacts ==
  ASSUME IInv, NEW w \in Workers
  PROVE  /\ worker[w] \in WorkerShape
         /\ Idle \in WorkerShape /\ Idle.at = "idle"
         /\ \A to : Go(w, to) => worker'[w] = [worker[w] EXCEPT !.at = to]
         /\ Leave(w) => worker'[w] = Idle
         /\ \A v \in Workers \ {w} :
              (Leave(w) \/ (\E to : Go(w, to)) \/ \E to, j : GoAdd(w, to, j)) => worker'[v] = worker[v]
  BY DEF IInv, ShapeInv, WorkerShape, Idle, WorkerAt, Go, GoAdd, Leave

(* The attempts of a job stay natural numbers, and the worker that ends it is free. *)
LEMMA EndsJob ==
  ASSUME IInv, NEW w \in Workers, NEW jobs, JobDone(w, jobs) \/ JobThrew(w, jobs)
  PROVE  made' \in [Jobs -> Nat] /\ worker' = [worker EXCEPT ![w] = Idle]
  BY DEF IInv, ShapeInv, JobDone, JobThrew, Leave

(* The steps that end the work of one worker, and touch no request. *)
LEMMA FreeingKeeps ==
  ASSUME IInv, NEW w \in Workers, UNCHANGED <<kind, deferrals, status, sent, errors, late>>,
         made' \in [Jobs -> Nat], worker' = [worker EXCEPT ![w] = Idle]
  PROVE  IInv'
<1>1. ShapeInv'
  <2>1. Idle \in WorkerShape /\ Idle.at = "idle"
    BY WorkerFacts
  <2> QED
    BY <2>1 DEF IInv, ShapeInv, WorkerShape, Holding
<1>2. Quiet
  BY WorkerFacts DEF IInv, ShapeInv, Quiet, LetsGo, Holding
<1> QED
  BY <1>1, <1>2, QuietKeeps

LEMMA EndingKeeps ==
  ASSUME IInv, NEW w \in Workers,
         \/ Duplicate(w) \/ AddDeferred(w) \/ AddFallback(w)
         \/ CallThrows(w) \/ TickThrows(w) \/ FallbackThrows(w) \/ Crash(w)
  PROVE  IInv'
<1>1. UNCHANGED <<kind, deferrals, status, sent, errors, late>>
  BY DEF Duplicate, AddDeferred, AddFallback, CallThrows, TickThrows, FallbackThrows, Crash,
     requestVars, histVars, Break
<1>2. made' \in [Jobs -> Nat] /\ worker' = [worker EXCEPT ![w] = Idle]
  <2>1. CASE Duplicate(w) \/ AddDeferred(w) \/ AddFallback(w) \/ CallThrows(w) \/ FallbackThrows(w)
    BY <2>1, EndsJob DEF Duplicate, AddDeferred, AddFallback, CallThrows, FallbackThrows
  <2>2. CASE TickThrows(w)
    BY <2>2 DEF TickThrows, Leave, IInv, ShapeInv
  <2>3. CASE Crash(w)
    BY <2>3 DEF Crash, Leave, LoseLock, jobVars, IInv, ShapeInv
  <2> QED
    BY <2>1, <2>2, <2>3
<1> QED
  BY <1>1, <1>2, FreeingKeeps

(* The steps of the API, the clock and the queue that touch no request. *)
LEMMA EnvironmentKeeps ==
  ASSUME IInv,
         \/ \E id \in Ids : Enqueue(id) \/ EnqueueLost(id) \/ DeliverAtComes(id)
         \/ \E j \in Jobs : FalseStall(j)
  PROVE  IInv'
<1>1. UNCHANGED <<kind, deferrals, status, sent, errors, late, worker, made>>
  BY DEF Enqueue, EnqueueLost, DeliverAtComes, FalseStall, LoseLock, requestVars, histVars,
     jobVars, Break
<1>2. ShapeInv' /\ Quiet
  BY <1>1 DEF IInv, ShapeInv, Quiet, LetsGo
<1> QED
  BY <1>2, QuietKeeps

LEMMA TakeJobKeeps ==
  ASSUME IInv, NEW w \in Workers, NEW j \in Jobs, TakeJob(w, j)
  PROVE  IInv'
<1> DEFINE new == [Idle EXCEPT !.at = "taken", !.job = j, !.tries = made[j]]
<1>1. new \in WorkerShape /\ new.at = "taken" /\ new.job = j
  BY DEF IInv, ShapeInv, WorkerShape, WorkerAt, Idle
<1>2. worker' = [worker EXCEPT ![w] = new]
  BY DEF TakeJob
<1>3. UNCHANGED <<kind, deferrals, status, sent, errors, late, made>>
  BY DEF TakeJob, requestVars, histVars
<1> HIDE DEF new
<1>4. ShapeInv'
  BY <1>1, <1>2, <1>3 DEF IInv, ShapeInv, WorkerShape
<1>5. Quiet
  BY <1>1, <1>2, <1>3 DEF IInv, ShapeInv, Quiet, LetsGo, Holding
<1> QED
  BY <1>4, <1>5, QuietKeeps

LEMMA TickKeeps ==
  ASSUME IInv, NEW w \in Workers, Tick(w)
  PROVE  IInv'
<1> DEFINE new == [Idle EXCEPT !.at = "releasing", !.todo = DueDigests]
<1>1. new \in WorkerShape /\ new.at = "releasing"
  BY DEF WorkerShape, WorkerAt, Idle, DueDigests
<1>2. worker' = [worker EXCEPT ![w] = new]
  BY DEF Tick
<1>3. UNCHANGED <<kind, deferrals, status, sent, errors, late, made>>
  BY DEF Tick, requestVars, histVars, jobVars
<1> HIDE DEF new
<1>4. ShapeInv'
  BY <1>1, <1>2, <1>3 DEF IInv, ShapeInv, WorkerShape, Holding
<1>5. Quiet
  BY <1>1, <1>2, <1>3 DEF IInv, ShapeInv, Quiet, LetsGo, Holding
<1> QED
  BY <1>4, <1>5, QuietKeeps

LEMMA AddDigestKeeps ==
  ASSUME IInv, NEW w \in Workers, AddDigest(w)
  PROVE  IInv'
<1>1. UNCHANGED <<kind, deferrals, status, sent, errors, late, made>>
  BY DEF AddDigest, requestVars, histVars
<1>2. CASE Leave(w)
  BY <1>1, <1>2, FreeingKeeps DEF Leave, IInv, ShapeInv
<1>3. CASE GoAdd(w, "releasing", Nothing)
  <2>1. ShapeInv'
    <3>1. worker[w] \in WorkerShape
      BY WorkerFacts
    <3>2. [worker[w] EXCEPT !.at = "releasing", !.adds = Nothing] \in WorkerShape
      BY <3>1 DEF WorkerShape, WorkerAt
    <3>3. worker' = [worker EXCEPT ![w] = [worker[w] EXCEPT !.at = "releasing", !.adds = Nothing]]
      BY <1>3, <3>1 DEF GoAdd, IInv, ShapeInv, WorkerShape
    <3>4. worker'[w].at = "releasing"
      BY <1>3, <3>1 DEF GoAdd, IInv, ShapeInv, WorkerShape
    <3> QED
      BY <1>1, <3>2, <3>3, <3>4 DEF IInv, ShapeInv, WorkerShape, Holding
  <2>2. Quiet
    BY <1>1, <1>3 DEF GoAdd, IInv, ShapeInv, Quiet, LetsGo, Holding
  <2> QED
    BY <2>1, <2>2, QuietKeeps
<1> QED
  BY <1>2, <1>3 DEF AddDigest

(* A worker that moves keeps its job; the others stay where they are. *)
LEMMA MoveFacts ==
  ASSUME IInv, NEW w \in Workers, NEW to \in WorkerAt, Go(w, to)
  PROVE  /\ worker' \in [Workers -> WorkerShape]
         /\ worker'[w].at = to /\ worker'[w].job = worker[w].job
         /\ \A v \in Workers \ {w} : worker'[v] = worker[v]
<1>1. worker[w] \in WorkerShape
  BY WorkerFacts
<1> QED
  BY <1>1 DEF Go, IInv, ShapeInv, WorkerShape

(* The request of a worker that holds one, or is about to. *)
LEMMA RequestFacts ==
  ASSUME IInv, NEW w \in Workers, worker[w].at \in Holding \union {"taken", "defer"}
  PROVE  Request(w) \in Ids
  BY IdFacts DEF IInv, ShapeInv, Request

LEMMA ClaimKeeps ==
  ASSUME IInv, NEW w \in Workers, Claim(w)
  PROVE  IInv'
<1> DEFINE id == Request(w)
<1>1. id \in Ids /\ status[id] \in {"queued", "deferred"}
  BY RequestFacts DEF Claim, Claimable, Request
<1>2. /\ worker' \in [Workers -> WorkerShape]
      /\ worker'[w].at = "claimed" /\ worker'[w].job = worker[w].job
      /\ \A v \in Workers \ {w} : worker'[v] = worker[v]
  BY MoveFacts DEF Claim, WorkerAt
<1>3. status' = [status EXCEPT ![id] = "sending"] /\ UNCHANGED <<kind, deferrals, sent, errors, late, made>>
  BY DEF Claim, Set, requestVars, histVars, jobVars
<1>4. \A v \in Workers : ~Holds(v, id)
  BY <1>1 DEF IInv, HoldInv, Open
<1>5. \A v \in Workers, i \in Ids : Holds(v, i)' <=> (IF v = w THEN i = id ELSE Holds(v, i))
  BY <1>2 DEF Holds, Holding, Request
<1>6. \A v \in Workers : worker'[v].at = worker[v].at \/ v = w
  BY <1>2
<1>7. worker[w].job \in Jobs
  BY DEF Claim, IInv, ShapeInv
<1>8. <<id, "queued">> \notin late
  BY <1>1 DEF IInv, HoldInv, Open
<1> HIDE DEF id
<1>9. ShapeInv'
  BY <1>2, <1>3, <1>7 DEF IInv, ShapeInv, WorkerShape, RequestStatus
<1>10. HoldInv'
  BY <1>1, <1>2, <1>3, <1>4, <1>5, <1>8 DEF IInv, HoldInv, ShapeInv, Open
<1>11. SentInv'
  BY <1>1, <1>2, <1>3, <1>4, <1>5, <1>6 DEF IInv, SentInv, ShapeInv, Open
<1>12. FallbackInv'
  <2>1. id[2] = "chosen" => status[Fallback(id)] = "absent"
    BY <1>1 DEF IInv, FallbackInv, Open
  <2>2. \A i \in Ids : status'[Fallback(i)] # "absent" => status[Fallback(i)] # "absent"
    BY <1>1, <1>3, IdFacts DEF IInv, ShapeInv
  <2>3. \A i \in Ids : i[2] = "chosen" /\ status'[Fallback(i)] # "absent" => i # id
    BY <2>1, <2>2
  <2> QED
    BY <1>1, <1>2, <1>3, <1>5, <2>2, <2>3 DEF IInv, FallbackInv, ShapeInv
<1>13. CleanInv'
  BY <1>1, <1>2, <1>3, <1>4, <1>5, <1>6 DEF IInv, CleanInv, ShapeInv
<1> QED
  BY <1>9, <1>10, <1>11, <1>12, <1>13 DEF IInv

LEMMA AllowedKeeps ==
  ASSUME IInv, NEW w \in Workers, Allowed(w)
  PROVE  IInv'
<1>1. /\ worker' \in [Workers -> WorkerShape]
      /\ worker'[w].at = "allowed" /\ worker'[w].job = worker[w].job /\ worker[w].at = "claimed"
      /\ \A v \in Workers \ {w} : worker'[v] = worker[v]
  BY MoveFacts DEF Allowed, WorkerAt
<1>2. UNCHANGED <<kind, deferrals, status, sent, errors, late, made>>
  BY DEF Allowed, requestVars, histVars, jobVars
<1>3. \A v \in Workers, i \in Ids : Holds(v, i)' <=> Holds(v, i)
  BY <1>1 DEF Holds, Holding
<1>4. \A v \in Workers :
        /\ worker'[v].at \in {"reserving", "fallback"} <=> worker[v].at \in {"reserving", "fallback"}
        /\ worker'[v].at # "accepted" => worker[v].at # "accepted"
        /\ worker'[v].job = worker[v].job
  BY <1>1
<1>5. ShapeInv'
  BY <1>1, <1>2 DEF IInv, ShapeInv, WorkerShape, Holding
<1>6. HoldInv'
  BY <1>2, <1>3, <1>4 DEF IInv, HoldInv
<1>7. SentInv'
  BY <1>2, <1>3, <1>4 DEF IInv, SentInv
<1>8. FallbackInv'
  BY <1>2, <1>3, <1>4 DEF IInv, FallbackInv
<1>9. CleanInv'
  BY <1>2, <1>3, <1>4 DEF IInv, CleanInv
<1> QED
  BY <1>5, <1>6, <1>7, <1>8, <1>9 DEF IInv

(* Moving with a job to add. *)
LEMMA AddMoveFacts ==
  ASSUME IInv, NEW w \in Workers, NEW to \in WorkerAt, NEW j \in Jobs \union {Nothing},
         GoAdd(w, to, j)
  PROVE  /\ worker' \in [Workers -> WorkerShape]
         /\ worker'[w].at = to /\ worker'[w].job = worker[w].job
         /\ \A v \in Workers \ {w} : worker'[v] = worker[v]
<1>1. worker[w] \in WorkerShape
  BY WorkerFacts
<1> QED
  BY <1>1 DEF GoAdd, IInv, ShapeInv, WorkerShape

(* What the invariant says of the worker that holds a request. *)
LEMMA HolderFacts ==
  ASSUME IInv, NEW w \in Workers, worker[w].at \in Holding
  PROVE  LET id == Request(w) IN
         /\ id \in Ids /\ Holds(w, id) /\ worker[w].job \in Jobs
         /\ status[id] \notin Open /\ <<id, "queued">> \notin late
         /\ \A v \in Workers : Holds(v, id) => v = w
         /\ sent[id] <= 1 + errors[id]
         /\ worker[w].at # "accepted" => sent[id] <= errors[id]
         /\ worker[w].at \notin {"reserving", "fallback"} =>
              (id[2] = "chosen" => status[Fallback(id)] = "absent")
<1> DEFINE id == Request(w)
<1>1. id \in Ids /\ Holds(w, id) /\ worker[w].job \in Jobs
  BY RequestFacts DEF Holds, Request, IInv, ShapeInv
<1>2. status[id] \notin Open /\ <<id, "queued">> \notin late /\ \A v \in Workers : Holds(v, id) => v = w
  BY <1>1 DEF IInv, HoldInv
<1>3. sent[id] <= 1 + errors[id] /\ (worker[w].at # "accepted" => sent[id] <= errors[id])
  BY <1>1 DEF IInv, SentInv
<1>4. worker[w].at \notin {"reserving", "fallback"} =>
        (id[2] = "chosen" => status[Fallback(id)] = "absent")
  BY <1>1 DEF IInv, FallbackInv
<1> QED
  BY <1>1, <1>2, <1>3, <1>4

(* The holder of a request without errors is its only writer. *)
LEMMA CleanHolder ==
  ASSUME IInv, NEW w \in Workers, worker[w].at \in Holding \ {"reserving", "fallback"},
         errors[Request(w)] = 0
  PROVE  /\ status[Request(w)] = "sending"
         /\ \A s \in RequestStatus : <<Request(w), s>> \notin late
  BY HolderFacts DEF IInv, CleanInv

LEMMA LimitedKeeps ==
  ASSUME IInv, NEW w \in Workers, Limited(w)
  PROVE  IInv'
<1> DEFINE id == Request(w)
<1>1. /\ id \in Ids /\ Holds(w, id) /\ worker[w].job \in Jobs
      /\ status[id] \notin Open /\ <<id, "queued">> \notin late
      /\ \A v \in Workers : Holds(v, id) => v = w
      /\ sent[id] <= errors[id]
      /\ id[2] = "chosen" => status[Fallback(id)] = "absent"
      /\ errors[id] = 0 => \A s \in RequestStatus : <<id, s>> \notin late
  BY HolderFacts, CleanHolder DEF Limited, Holding
<1>2. status' = [status EXCEPT ![id] = "deferred"] /\ UNCHANGED <<kind, sent, errors, late, made>>
  BY DEF Limited, Set, histVars, jobVars
<1>3. /\ worker' \in [Workers -> WorkerShape]
      /\ worker'[w].at = "defer" /\ worker'[w].job = worker[w].job
      /\ \A v \in Workers \ {w} : worker'[v] = worker[v]
  <2>1. <<id, deferrals[id] + 1>> \in Jobs
    BY <1>1, NotificationAssumption DEF Limited, IInv, ShapeInv, Jobs
  <2> QED
    BY <2>1, AddMoveFacts DEF Limited, WorkerAt, Adding
<1>4. \A v \in Workers, i \in Ids : Holds(v, i)' <=> v # w /\ Holds(v, i)
  BY <1>3 DEF Holds, Holding
<1>5. deferrals' \in [Ids -> 0 .. MaxDeferrals]
  BY <1>1, NotificationAssumption DEF Limited, IInv, ShapeInv
<1> HIDE DEF id
<1>6. ShapeInv'
  BY <1>1, <1>2, <1>3, <1>5 DEF IInv, ShapeInv, WorkerShape, RequestStatus, Holding
<1>7. HoldInv'
  BY <1>1, <1>2, <1>3, <1>4 DEF IInv, HoldInv, ShapeInv
<1>8. SentInv'
  BY <1>1, <1>2, <1>3, <1>4 DEF IInv, SentInv, ShapeInv
<1>9. FallbackInv'
  <2>1. \A i \in Ids : status'[Fallback(i)] # "absent" => status[Fallback(i)] # "absent"
    BY <1>1, <1>2, IdFacts DEF IInv, ShapeInv, Open
  <2> QED
    BY <1>1, <1>2, <1>3, <1>4, <2>1 DEF IInv, FallbackInv, ShapeInv
<1>10. CleanInv'
  BY <1>1, <1>2, <1>3, <1>4 DEF IInv, CleanInv, ShapeInv
<1> QED
  BY <1>6, <1>7, <1>8, <1>9, <1>10 DEF IInv

LEMMA SendKeeps ==
  ASSUME IInv, NEW w \in Workers, Send(w)
  PROVE  IInv'
<1> DEFINE id == Request(w)
<1>1. /\ id \in Ids /\ Holds(w, id) /\ worker[w].job \in Jobs
      /\ status[id] \notin Open /\ <<id, "queued">> \notin late
      /\ \A v \in Workers : Holds(v, id) => v = w
      /\ sent[id] <= errors[id]
      /\ id[2] = "chosen" => status[Fallback(id)] = "absent"
      /\ errors[id] = 0 => status[id] = "sending" /\ \A s \in RequestStatus : <<id, s>> \notin late
  BY HolderFacts, CleanHolder DEF Send, Holding
<1>2. UNCHANGED <<kind, deferrals, status, errors, late, made>>
  BY DEF Send, requestVars, jobVars
<1>3. \/ Go(w, "caught") /\ sent' = sent
      \/ Go(w, "accepted") /\ sent' = [sent EXCEPT ![id] = @ + 1]
  BY DEF Send
<1>4. /\ worker' \in [Workers -> WorkerShape]
      /\ worker'[w].at \in {"caught", "accepted"} /\ worker'[w].job = worker[w].job
      /\ \A v \in Workers \ {w} : worker'[v] = worker[v]
      /\ sent' \in [Ids -> Nat]
      /\ \A i \in Ids : i # id => sent'[i] = sent[i]
      /\ sent'[id] <= sent[id] + 1
      /\ worker'[w].at = "caught" => sent'[id] = sent[id]
  <2>1. CASE Go(w, "caught") /\ sent' = sent
    BY <1>1, <2>1, MoveFacts DEF WorkerAt, IInv, ShapeInv
  <2>2. CASE Go(w, "accepted") /\ sent' = [sent EXCEPT ![id] = @ + 1]
    BY <1>1, <2>2, MoveFacts DEF WorkerAt, IInv, ShapeInv
  <2> QED
    BY <1>3, <2>1, <2>2
<1>5. \A v \in Workers, i \in Ids : Holds(v, i)' <=> Holds(v, i)
  BY <1>1, <1>4 DEF Holds, Holding
<1>6. \A v \in Workers :
        /\ worker'[v].at \in {"reserving", "fallback"} <=> worker[v].at \in {"reserving", "fallback"}
        /\ v # w => worker'[v].at = worker[v].at
        /\ worker'[v].job = worker[v].job
  BY <1>4 DEF Send
<1> HIDE DEF id
<1>7. ShapeInv'
  BY <1>1, <1>2, <1>4 DEF IInv, ShapeInv, WorkerShape, Holding
<1>8. HoldInv'
  BY <1>2, <1>5, <1>6 DEF IInv, HoldInv
<1>9. SentInv'
  <2>1. ASSUME NEW i \in Ids, i # id
        PROVE  /\ sent'[i] <= 1 + errors'[i]
               /\ status'[i] \in Open \/ <<i, "queued">> \in late' => sent'[i] <= errors'[i]
               /\ \A v \in Workers : Holds(v, i)' /\ worker'[v].at # "accepted" => sent'[i] <= errors'[i]
    <3>1. ~Holds(w, i)
      BY <1>1, <2>1 DEF Holds
    <3> QED
      BY <1>2, <1>4, <1>5, <1>6, <2>1, <3>1 DEF IInv, SentInv
  <2>2. /\ sent'[id] <= 1 + errors'[id]
        /\ ~(status'[id] \in Open \/ <<id, "queued">> \in late')
        /\ \A v \in Workers : Holds(v, id) /\ worker'[v].at # "accepted" => sent'[id] <= errors'[id]
    BY <1>1, <1>2, <1>4, <1>5 DEF IInv, ShapeInv
  <2> QED
    BY <1>5, <2>1, <2>2 DEF SentInv
<1>10. FallbackInv'
  <2>1. \A i \in Ids : i[2] = "chosen" /\ status[Fallback(i)] # "absent" => i # id
    BY <1>1
  <2> QED
    BY <1>2, <1>4, <1>5, <1>6, <2>1 DEF IInv, FallbackInv
<1>11. CleanInv'
  BY <1>2, <1>5, <1>6 DEF IInv, CleanInv
<1> QED
  BY <1>7, <1>8, <1>9, <1>10, <1>11 DEF IInv

LEMMA RecordDeliveredKeeps ==
  ASSUME IInv, NEW w \in Workers, RecordDelivered(w)
  PROVE  IInv'
<1> DEFINE id == Request(w)
<1>1. /\ id \in Ids /\ Holds(w, id)
      /\ status[id] \notin Open /\ <<id, "queued">> \notin late
      /\ \A v \in Workers : Holds(v, id) => v = w
      /\ sent[id] <= 1 + errors[id]
      /\ id[2] = "chosen" => status[Fallback(id)] = "absent"
      /\ errors[id] = 0 => \A s \in RequestStatus : <<id, s>> \notin late
  BY HolderFacts, CleanHolder DEF RecordDelivered, Holding
<1>2. /\ status' = [status EXCEPT ![id] = "delivered"]
      /\ UNCHANGED <<kind, deferrals, sent, errors, late>>
      /\ made' \in [Jobs -> Nat] /\ worker' = [worker EXCEPT ![w] = Idle]
  BY EndsJob DEF RecordDelivered, Set, requestVars, histVars
<1>3. Idle \in WorkerShape /\ Idle.at = "idle"
  BY WorkerFacts
<1>4. \A v \in Workers, i \in Ids : Holds(v, i)' <=> v # w /\ Holds(v, i)
  BY <1>2, <1>3 DEF IInv, ShapeInv, Holds, Holding
<1> HIDE DEF id
<1>5. ShapeInv'
  BY <1>1, <1>2, <1>3 DEF IInv, ShapeInv, WorkerShape, RequestStatus, Holding
<1>6. HoldInv'
  BY <1>1, <1>2, <1>3, <1>4 DEF IInv, HoldInv, ShapeInv, Open
<1>7. SentInv'
  BY <1>1, <1>2, <1>3, <1>4 DEF IInv, SentInv, ShapeInv, Open
<1>8. FallbackInv'
  <2>1. \A i \in Ids : status'[Fallback(i)] # "absent" => status[Fallback(i)] # "absent"
    BY <1>1, <1>2, IdFacts DEF IInv, ShapeInv, Open
  <2> QED
    BY <1>1, <1>2, <1>3, <1>4, <2>1 DEF IInv, FallbackInv, ShapeInv
<1>9. CleanInv'
  BY <1>1, <1>2, <1>3, <1>4 DEF IInv, CleanInv, ShapeInv
<1> QED
  BY <1>5, <1>6, <1>7, <1>8, <1>9 DEF IInv

(* After the error the message counts as paid for, whatever becomes of the update. *)
LEMMA RecordDeliveredThrowsKeeps ==
  ASSUME IInv, NEW w \in Workers, RecordDeliveredThrows(w)
  PROVE  IInv'
<1> DEFINE id == Request(w)
<1>1. /\ id \in Ids /\ Holds(w, id) /\ worker[w].job \in Jobs
      /\ status[id] \notin Open /\ <<id, "queued">> \notin late
      /\ \A v \in Workers : Holds(v, id) => v = w
      /\ sent[id] <= 1 + errors[id]
      /\ id[2] = "chosen" => status[Fallback(id)] = "absent"
  BY HolderFacts DEF RecordDeliveredThrows, Holding
<1>2. /\ status' \in {status, [status EXCEPT ![id] = "delivered"]}
      /\ late' \in {late, late \union {<<id, "delivered">>}}
      /\ errors' = [errors EXCEPT ![id] = @ + 1]
      /\ UNCHANGED <<kind, deferrals, sent, made>>
  BY DEF RecordDeliveredThrows, Set, requestVars, jobVars
<1>3. /\ worker' \in [Workers -> WorkerShape]
      /\ worker'[w].at = "caught" /\ worker'[w].job = worker[w].job /\ worker[w].at = "accepted"
      /\ \A v \in Workers \ {w} : worker'[v] = worker[v]
  BY MoveFacts DEF RecordDeliveredThrows, WorkerAt
<1>4. \A v \in Workers, i \in Ids : Holds(v, i)' <=> Holds(v, i)
  BY <1>1, <1>3 DEF Holds, Holding
<1> HIDE DEF id
<1>5. ShapeInv'
  BY <1>1, <1>2, <1>3 DEF IInv, ShapeInv, WorkerShape, RequestStatus, Holding
<1>6. \A i \in Ids : status'[i] \in Open <=> status[i] \in Open
  BY <1>1, <1>2 DEF IInv, ShapeInv, Open
<1>7. \A i \in Ids : status'[i] = "absent" <=> status[i] = "absent"
  BY <1>1, <1>2 DEF IInv, ShapeInv, Open
<1>8. \A i \in Ids : <<i, "queued">> \in late' <=> <<i, "queued">> \in late
  BY <1>2
<1>9. HoldInv'
  <2>1. \A i \in Ids, s \in RequestStatus : <<i, s>> \in late' => status'[i] # "absent"
    BY <1>1, <1>2, <1>7 DEF IInv, HoldInv, Open
  <2> QED
    BY <1>3, <1>4, <1>6, <1>8, <2>1 DEF IInv, HoldInv
<1>10. SentInv'
  <2>1. \A i \in Ids : errors'[i] >= errors[i] /\ errors'[i] \in Nat /\ sent[i] \in Nat /\ errors[i] \in Nat
    BY <1>1, <1>2 DEF IInv, ShapeInv
  <2>2. ASSUME NEW i \in Ids, i # id
        PROVE  /\ sent'[i] <= 1 + errors'[i]
               /\ status'[i] \in Open \/ <<i, "queued">> \in late' => sent'[i] <= errors'[i]
               /\ \A v \in Workers : Holds(v, i)' /\ worker'[v].at # "accepted" => sent'[i] <= errors'[i]
    <3>1. ~Holds(w, i)
      BY <1>1, <2>2 DEF Holds
    <3>2. \A v \in Workers : Holds(v, i)' => v # w /\ worker'[v].at = worker[v].at
      BY <1>3, <1>4, <3>1
    <3> QED
      BY <1>2, <1>4, <1>6, <1>8, <2>1, <3>2 DEF IInv, SentInv
  <2>3. sent'[id] <= 1 + errors'[id] /\ sent'[id] <= errors'[id]
    BY <1>1, <1>2 DEF IInv, ShapeInv
  <2> QED
    BY <2>2, <2>3 DEF SentInv
<1>11. FallbackInv'
  <2>1. \A i \in Ids : i[2] = "chosen" /\ status'[Fallback(i)] # "absent" =>
          i # id /\ status[Fallback(i)] # "absent"
    BY <1>1, <1>7, IdFacts
  <2>2. \A i \in Ids : i # id => errors'[i] = errors[i] /\ \A v \in Workers : Holds(v, i) => v # w
    BY <1>1, <1>2 DEF IInv, ShapeInv, Holds
  <2> QED
    BY <1>2, <1>3, <1>4, <1>6, <1>8, <2>1, <2>2 DEF IInv, FallbackInv
<1>12. CleanInv'
  <2>1. \A i \in Ids : errors'[i] = 0 =>
          i # id /\ errors[i] = 0 /\ status'[i] = status[i] /\ \A s : <<i, s>> \in late' <=> <<i, s>> \in late
    BY <1>1, <1>2 DEF IInv, ShapeInv
  <2> QED
    BY <1>3, <1>4, <2>1 DEF IInv, CleanInv, Holds
<1> QED
  BY <1>5, <1>9, <1>10, <1>11, <1>12 DEF IInv

(* The holder opens the request again, or has failed it for good and may reserve the fallback. *)
LEMMA RecordFailedKeeps ==
  ASSUME IInv, NEW w \in Workers, RecordFailed(w)
  PROVE  IInv'
<1> DEFINE id == Request(w)
<1>1. /\ id \in Ids /\ Holds(w, id) /\ worker[w].job \in Jobs
      /\ status[id] \notin Open /\ <<id, "queued">> \notin late
      /\ \A v \in Workers : Holds(v, id) => v = w
      /\ sent[id] <= errors[id]
      /\ id[2] = "chosen" => status[Fallback(id)] = "absent"
      /\ errors[id] = 0 => \A s \in RequestStatus : <<id, s>> \notin late
  BY HolderFacts, CleanHolder DEF RecordFailed, Holding
<1>2. status' = [status EXCEPT ![id] = AfterFailure(w)] /\ UNCHANGED <<kind, deferrals, sent, errors, late>>
  BY DEF RecordFailed, Set, requestVars, histVars
<1>3. AfterFailure(w) \in {"failed", "queued"}
  BY DEF AfterFailure
<1>4. /\ made' \in [Jobs -> Nat]
      /\ worker' \in [Workers -> WorkerShape]
      /\ \A v \in Workers \ {w} : worker'[v] = worker[v]
      /\ \/ worker'[w].at = "idle"
         \/ /\ worker'[w].at = "reserving" /\ worker'[w].job = worker[w].job
            /\ AfterFailure(w) = "failed" /\ id[2] = "chosen"
  <2>1. CASE JobThrew(w, job)
    <3>1. Idle \in WorkerShape /\ Idle.at = "idle"
      BY WorkerFacts
    <3> QED
      BY <2>1, <3>1, EndsJob DEF IInv, ShapeInv, WorkerShape
  <2>2. CASE Terminal(w) /\ HasFallback(id) /\ Go(w, "reserving") /\ UNCHANGED jobVars
    BY <2>2, MoveFacts DEF IInv, ShapeInv, jobVars, WorkerAt, AfterFailure, HasFallback
  <2> QED
    BY <2>1, <2>2 DEF RecordFailed
<1>5. \A v \in Workers, i \in Ids :
        Holds(v, i)' <=> Holds(v, i) /\ (v = w => worker'[w].at = "reserving")
  BY <1>1, <1>4 DEF Holds, Holding
<1> HIDE DEF id
<1>6. ShapeInv'
  BY <1>1, <1>2, <1>3, <1>4 DEF IInv, ShapeInv, WorkerShape, RequestStatus, Holding
<1>7. HoldInv'
  <2>1. ASSUME NEW v \in Workers, NEW i \in Ids, Holds(v, i)'
        PROVE  status'[i] \notin Open /\ <<i, "queued">> \notin late'
    <3>1. CASE i = id
      BY <1>1, <1>2, <1>4, <1>5, <2>1, <3>1 DEF IInv, ShapeInv, Open
    <3>2. CASE i # id
      BY <1>1, <1>2, <1>5, <2>1, <3>2 DEF IInv, HoldInv, ShapeInv
    <3> QED
      BY <3>1, <3>2
  <2>2. \A v \in Workers : worker'[v].at \in {"reserving", "fallback"} => worker'[v].job[1][2] = "chosen"
    BY <1>4 DEF IInv, HoldInv, id, Request
  <2>3. /\ \A i \in Ids : <<i, "queued">> \in late' => status'[i] \notin Open
        /\ \A i \in Ids, s \in RequestStatus : <<i, s>> \in late' => status'[i] # "absent"
    BY <1>1, <1>2, <1>3 DEF IInv, HoldInv, ShapeInv
  <2> QED
    BY <1>5, <2>1, <2>2, <2>3 DEF IInv, HoldInv
<1>8. SentInv'
  <2>1. sent'[id] <= errors'[id] /\ sent'[id] <= 1 + errors'[id]
    BY <1>1, <1>2 DEF IInv, ShapeInv
  <2>2. \A i \in Ids : i # id => status'[i] = status[i]
    BY <1>1, <1>2 DEF IInv, ShapeInv
  <2>3. \A v \in Workers, i \in Ids : i # id /\ Holds(v, i)' =>
          Holds(v, i) /\ worker'[v].at = worker[v].at
    BY <1>1, <1>4, <1>5 DEF Holds
  <2> QED
    BY <1>2, <2>1, <2>2, <2>3 DEF IInv, SentInv
<1>9. FallbackInv'
  <2>1. \A i \in Ids : i[2] = "chosen" /\ status'[Fallback(i)] # "absent" =>
          status[Fallback(i)] # "absent" /\ i # id
    BY <1>1, <1>2, IdFacts DEF IInv, ShapeInv, Open
  <2> QED
    BY <1>1, <1>2, <1>4, <1>5, <2>1 DEF IInv, FallbackInv, ShapeInv
<1>10. CleanInv'
  <2>1. \A i \in Ids : i # id => status'[i] = status[i]
    BY <1>1, <1>2 DEF IInv, ShapeInv
  <2>2. \A v \in Workers, i \in Ids :
          Holds(v, i)' /\ worker'[v].at \notin {"reserving", "fallback"} =>
            i # id /\ Holds(v, i) /\ worker[v].at \notin {"reserving", "fallback"}
    BY <1>1, <1>4, <1>5 DEF Holds, Holding
  <2> QED
    BY <1>1, <1>2, <2>1, <2>2 DEF IInv, CleanInv
<1> QED
  BY <1>6, <1>7, <1>8, <1>9, <1>10 DEF IInv

(* The update may land after the holder is gone: until it does, the request stays closed. *)
LEMMA RecordFailedThrowsKeeps ==
  ASSUME IInv, NEW w \in Workers, RecordFailedThrows(w)
  PROVE  IInv'
<1> DEFINE id == Request(w)
<1> DEFINE new == AfterFailure(w)
<1>1. /\ id \in Ids /\ Holds(w, id) /\ worker[w].job \in Jobs
      /\ status[id] \notin Open /\ <<id, "queued">> \notin late
      /\ \A v \in Workers : Holds(v, id) => v = w
      /\ sent[id] <= errors[id]
      /\ id[2] = "chosen" => status[Fallback(id)] = "absent"
      /\ errors[id] = 0 => status[id] = "sending" /\ \A s \in RequestStatus : <<id, s>> \notin late
  BY HolderFacts, CleanHolder DEF RecordFailedThrows, Holding
<1>2. /\ \/ status' = [status EXCEPT ![id] = new] /\ late' = late
         \/ status' = status /\ late' \in {late, late \union {<<id, new>>}}
      /\ UNCHANGED <<kind, deferrals, sent, errors>>
      /\ made' \in [Jobs -> Nat] /\ worker' = [worker EXCEPT ![w] = Idle]
  BY EndsJob DEF RecordFailedThrows, Set, requestVars, Break
<1>3. new \in {"failed", "queued"}
  BY DEF AfterFailure
<1>4. Idle \in WorkerShape /\ Idle.at = "idle"
  BY WorkerFacts
<1>5. \A v \in Workers, i \in Ids : Holds(v, i)' <=> v # w /\ Holds(v, i)
  BY <1>2, <1>4 DEF IInv, ShapeInv, Holds, Holding
<1>6. \A v \in Workers : worker'[v].at = worker[v].at \/ v = w
  BY <1>2 DEF IInv, ShapeInv
<1> HIDE DEF id, new
<1>7. ShapeInv'
  <2>1. status' \in [Ids -> RequestStatus]
    BY <1>1, <1>2, <1>3 DEF IInv, ShapeInv, RequestStatus
  <2>2. <<id, new>> \in Ids \X {"delivered", "queued", "failed"}
    BY <1>1, <1>3
  <2>3. late' \subseteq Ids \X {"delivered", "queued", "failed"}
    BY <1>2, <2>2 DEF IInv, ShapeInv
  <2> QED
    BY <1>2, <1>4, <2>1, <2>3 DEF IInv, ShapeInv, WorkerShape, Holding
<1>8. \A i \in Ids : i # id => status'[i] = status[i] /\ \A s : <<i, s>> \in late' <=> <<i, s>> \in late
  BY <1>1, <1>2 DEF IInv, ShapeInv
<1>9. status'[id] \in {status[id], new} /\ status'[id] # "absent"
  BY <1>1, <1>2, <1>3 DEF IInv, ShapeInv, Open
<1>10. \A s \in RequestStatus : <<id, s>> \in late' =>
         <<id, s>> \in late \/ (s = new /\ status' = status)
  BY <1>1, <1>2
<1>11. \A v \in Workers : ~Holds(v, id) \/ v = w
  BY <1>1
<1>12. <<id, "queued">> \in late' => status'[id] \notin Open
  BY <1>1, <1>2
<1>13. HoldInv'
  <2>1. ASSUME NEW v \in Workers, NEW i \in Ids, Holds(v, i)'
        PROVE  status'[i] \notin Open /\ <<i, "queued">> \notin late'
    BY <1>5, <1>8, <1>11, <2>1 DEF IInv, HoldInv
  <2>2. \A v \in Workers : worker'[v].at \in {"reserving", "fallback"} => worker'[v].job[1][2] = "chosen"
    BY <1>2, <1>4 DEF IInv, HoldInv, ShapeInv
  <2>3. \A i \in Ids : <<i, "queued">> \in late' => status'[i] \notin Open
    BY <1>8, <1>12 DEF IInv, HoldInv
  <2>4. \A i \in Ids, s \in RequestStatus : <<i, s>> \in late' => status'[i] # "absent"
    BY <1>8, <1>9 DEF IInv, HoldInv
  <2> QED
    BY <1>5, <2>1, <2>2, <2>3, <2>4 DEF IInv, HoldInv
<1>14. SentInv'
  <2>1. sent'[id] <= errors'[id] /\ sent'[id] <= 1 + errors'[id]
    BY <1>1, <1>2 DEF IInv, ShapeInv
  <2> QED
    BY <1>2, <1>5, <1>6, <1>8, <2>1 DEF IInv, SentInv
<1>15. FallbackInv'
  <2>1. \A i \in Ids : i[2] = "chosen" /\ status'[Fallback(i)] # "absent" =>
          status[Fallback(i)] # "absent" /\ i # id
    BY <1>1, <1>8, IdFacts DEF Open
  <2> QED
    BY <1>2, <1>5, <1>6, <1>8, <2>1 DEF IInv, FallbackInv
<1>16. CleanInv'
  <2>1. ASSUME NEW i \in Ids, errors'[i] = 0, i # id
        PROVE  /\ \A s, t \in RequestStatus : <<i, s>> \in late' /\ <<i, t>> \in late' => s = t
               /\ <<i, "delivered">> \notin late'
               /\ \A s \in RequestStatus : <<i, s>> \in late' => status'[i] = "sending"
               /\ \A v \in Workers :
                    Holds(v, i)' /\ worker'[v].at \notin {"reserving", "fallback"} =>
                      status'[i] = "sending" /\ \A s \in RequestStatus : <<i, s>> \notin late'
    BY <1>2, <1>5, <1>6, <1>8, <2>1 DEF IInv, CleanInv
  <2>2. ASSUME errors'[id] = 0
        PROVE  \A s \in RequestStatus : <<id, s>> \in late' => s = new /\ status'[id] = "sending"
    BY <1>1, <1>2, <1>10, <2>2
  <2>3. \A v \in Workers : Holds(v, id) => v = w
    BY <1>11
  <2> QED
    BY <1>3, <1>5, <2>1, <2>2, <2>3 DEF CleanInv, RequestStatus
<1> QED
  BY <1>7, <1>13, <1>14, <1>15, <1>16 DEF IInv

(* An update left behind lands: if it opens the request, nobody holds it. *)
LEMMA LateWriteKeeps ==
  ASSUME IInv, NEW id \in Ids, NEW new \in {"delivered", "queued", "failed"}, LateWrite(id, new)
  PROVE  IInv'
<1>1. /\ status' = [status EXCEPT ![id] = new] /\ late' = late \ {<<id, new>>}
      /\ <<id, new>> \in late
      /\ UNCHANGED <<kind, deferrals, sent, errors, made, worker>>
  BY DEF LateWrite, Set, requestVars, histVars, jobVars
<1>2. /\ \A v \in Workers, i \in Ids : Holds(v, i)' <=> Holds(v, i)
      /\ status[id] # "absent"
  BY <1>1 DEF Holds, IInv, HoldInv, RequestStatus
<1>3. \A i \in Ids : i # id => status'[i] = status[i] /\ \A s : <<i, s>> \in late' <=> <<i, s>> \in late
  BY <1>1 DEF IInv, ShapeInv
<1>4. status'[id] = new /\ new # "absent" /\ <<id, new>> \notin late' /\ \A s : <<id, s>> \in late' => <<id, s>> \in late
  BY <1>1 DEF IInv, ShapeInv
<1>5. ShapeInv'
  BY <1>1 DEF IInv, ShapeInv, RequestStatus
<1>6. new \in Open => /\ new = "queued"
                      /\ \A v \in Workers : ~Holds(v, id)
                      /\ sent[id] <= errors[id]
                      /\ id[2] = "chosen" => status[Fallback(id)] = "absent"
  BY <1>1 DEF IInv, HoldInv, SentInv, FallbackInv, Open
<1>7. HoldInv'
  BY <1>1, <1>2, <1>3, <1>4, <1>6 DEF IInv, HoldInv
<1>8. SentInv'
  BY <1>1, <1>2, <1>3, <1>4, <1>6 DEF IInv, SentInv
<1>9. FallbackInv'
  <2>1. \A i \in Ids : status'[Fallback(i)] # "absent" => status[Fallback(i)] # "absent"
    BY <1>2, <1>3, IdFacts
  <2> QED
    BY <1>1, <1>2, <1>3, <1>4, <1>6, <2>1 DEF IInv, FallbackInv
<1>10. CleanInv'
  <2>1. errors[id] = 0 =>
          /\ \A s \in RequestStatus : <<id, s>> \notin late'
          /\ \A v \in Workers : Holds(v, id) => worker[v].at \in {"reserving", "fallback"}
    BY <1>1, <1>4 DEF IInv, CleanInv, RequestStatus
  <2> QED
    BY <1>1, <1>2, <1>3, <2>1 DEF IInv, CleanInv, RequestStatus
<1> QED
  BY <1>5, <1>7, <1>8, <1>9, <1>10 DEF IInv

(* The fallback is reserved by the holder of a request that is over. *)
LEMMA ReserveFallbackKeeps ==
  ASSUME IInv, NEW w \in Workers, ReserveFallback(w)
  PROVE  IInv'
<1> DEFINE c == Request(w)
<1> DEFINE f == Fallback(c)
<1>1. /\ c \in Ids /\ Holds(w, c) /\ worker[w].job \in Jobs
      /\ status[c] \notin Open /\ <<c, "queued">> \notin late
      /\ \A v \in Workers : Holds(v, c) => v = w
      /\ sent[c] <= errors[c]
  BY HolderFacts DEF ReserveFallback, Holding
<1>2. f \in Ids /\ f[2] = "fallback" /\ c[2] = "chosen"
  BY <1>1, IdFacts DEF ReserveFallback, IInv, HoldInv, Request
<1>3. UNCHANGED <<kind, deferrals, sent, errors, late>>
  BY DEF ReserveFallback, requestVars, histVars
<1>4. CASE status[f] # "absent"
  BY <1>3, <1>4, EndsJob, FreeingKeeps DEF ReserveFallback
<1>5. CASE status[f] = "absent"
  <2>1. status' = [status EXCEPT ![f] = "queued"] /\ made' = made
    BY <1>5 DEF ReserveFallback, Set, jobVars
  <2>2. <<f, 0>> \in Jobs
    BY <1>2, NotificationAssumption DEF Jobs
  <2>3. /\ worker' \in [Workers -> WorkerShape]
        /\ worker'[w].at = "fallback" /\ worker'[w].job = worker[w].job /\ worker[w].at = "reserving"
        /\ \A v \in Workers \ {w} : worker'[v] = worker[v]
    BY <1>5, <2>2, AddMoveFacts DEF ReserveFallback, WorkerAt, Adding
  <2>4. \A v \in Workers, i \in Ids : Holds(v, i)' <=> Holds(v, i)
    BY <1>1, <2>3 DEF Holds, Holding
  <2>5. \A v \in Workers :
          /\ worker'[v].at \in {"reserving", "fallback"} <=> worker[v].at \in {"reserving", "fallback"}
          /\ worker'[v].at # "accepted" <=> worker[v].at # "accepted"
          /\ worker'[v].job = worker[v].job
    BY <2>3
  <2>6. /\ \A v \in Workers : ~Holds(v, f)
        /\ \A s \in RequestStatus : <<f, s>> \notin late
        /\ sent[f] <= errors[f]
    BY <1>2, <1>5 DEF IInv, HoldInv, SentInv, Open
  <2>7. \A i \in Ids : i # f => status'[i] = status[i]
    BY <1>2, <2>1 DEF IInv, ShapeInv
  <2>8. \A v \in Workers : Holds(v, c) => worker[v].at \in {"reserving", "fallback"}
    BY <1>1, <2>3
  <2> HIDE DEF c, f
  <2>9. ShapeInv'
    BY <1>1, <1>2, <1>3, <2>1, <2>3 DEF IInv, ShapeInv, WorkerShape, RequestStatus, Holding
  <2>10. HoldInv'
    <3>1. status'[f] = "queued"
      BY <1>2, <2>1 DEF IInv, ShapeInv
    <3> QED
      BY <1>3, <2>4, <2>5, <2>6, <2>7, <3>1 DEF IInv, HoldInv, RequestStatus
  <2>11. SentInv'
    BY <1>3, <2>4, <2>5, <2>6, <2>7 DEF IInv, SentInv
  <2>12. FallbackInv'
    <3>1. \A i \in Ids : i[2] = "chosen" => i # f
      BY <1>2
    <3>2. \A i \in Ids : i[2] = "chosen" /\ status'[Fallback(i)] # "absent" =>
            i = c \/ status[Fallback(i)] # "absent"
      BY <1>1, <1>2, <2>7, IdFacts DEF f
    <3> QED
      BY <1>1, <1>3, <2>4, <2>5, <2>7, <2>8, <3>1, <3>2 DEF IInv, FallbackInv
  <2>13. CleanInv'
    BY <1>3, <2>4, <2>5, <2>6, <2>7 DEF IInv, CleanInv
  <2> QED
    BY <2>9, <2>10, <2>11, <2>12, <2>13 DEF IInv
<1> QED
  BY <1>4, <1>5

(* A new status for a request that nobody holds and that stays open. *)
LEMMA OpenKeeps ==
  ASSUME IInv, NEW id \in Ids, NEW new \in Open \ {"absent"}, status[id] \in Open,
         id[2] = "chosen" \/ status[id] # "absent",
         status' = [status EXCEPT ![id] = new],
         UNCHANGED <<kind, deferrals, sent, errors, late>>, ShapeInv',
         \A v \in Workers, i \in Ids : Holds(v, i)' <=> Holds(v, i),
         \A v \in Workers : worker'[v] = worker[v] \/ (worker[v].at \notin Holding /\ worker'[v].at \notin Holding)
  PROVE  IInv'
<1>1. \A i \in Ids : i # id => status'[i] = status[i]
  BY DEF IInv, ShapeInv
<1>2. status'[id] = new
  BY DEF IInv, ShapeInv
<1>3. /\ \A v \in Workers : ~Holds(v, id)
      /\ <<id, "queued">> \notin late
      /\ sent[id] <= errors[id]
      /\ id[2] = "chosen" => status[Fallback(id)] = "absent"
  BY DEF IInv, HoldInv, SentInv, FallbackInv
<1>4. \A v \in Workers, i \in Ids : Holds(v, i) => worker'[v] = worker[v]
  BY DEF Holds
<1>5. HoldInv'
  <2>1. \A v \in Workers : worker'[v].at \in {"reserving", "fallback"} => worker'[v] = worker[v]
    BY DEF Holding
  <2> QED
    BY <1>1, <1>2, <1>3, <2>1 DEF IInv, HoldInv
<1>6. SentInv'
  BY <1>1, <1>2, <1>3, <1>4 DEF IInv, SentInv
<1>7. FallbackInv'
  <2>1. \A i \in Ids : i[2] = "chosen" /\ status'[Fallback(i)] # "absent" =>
          i # id /\ status[Fallback(i)] # "absent"
    BY <1>1, <1>3, IdFacts
  <2> QED
    BY <1>1, <1>4, <2>1 DEF IInv, FallbackInv
<1>8. CleanInv'
  <2>1. errors[id] = 0 => \A s \in RequestStatus : <<id, s>> \notin late
    BY DEF IInv, CleanInv, Open
  <2> QED
    BY <1>1, <1>3, <1>4, <2>1 DEF IInv, CleanInv
<1> QED
  BY <1>5, <1>6, <1>7, <1>8 DEF IInv

LEMMA ReserveKeeps ==
  ASSUME IInv, NEW r \in Requests, Reserve(r)
  PROVE  IInv'
<1> DEFINE id == <<r, "chosen">>
<1>1. id \in Ids /\ id[2] = "chosen" /\ status[id] = "absent"
  BY IdFacts DEF Reserve
<1>2. UNCHANGED <<kind, deferrals, sent, errors, late, made, worker>>
  BY DEF Reserve, histVars, jobVars
<1>3. PICK new \in Open \ {"absent"} : status' = [status EXCEPT ![id] = new]
  BY DEF Reserve, Open
<1>4. ShapeInv'
  BY <1>1, <1>2, <1>3 DEF IInv, ShapeInv, RequestStatus, Open
<1>5. \A v \in Workers, i \in Ids : Holds(v, i)' <=> Holds(v, i)
  BY <1>2 DEF Holds
<1> QED
  BY <1>1, <1>2, <1>3, <1>4, <1>5, OpenKeeps DEF Open

LEMMA ReleaseDigestKeeps ==
  ASSUME IInv, NEW w \in Workers, NEW id \in Ids, ReleaseDigest(w, id)
  PROVE  IInv'
<1> DEFINE rec == [worker[w] EXCEPT !.at = "digest", !.adds = <<id, 0>>, !.todo = @ \ {id}]
<1>1. rec \in WorkerShape /\ rec.at = "digest"
  <2>1. worker[w] \in WorkerShape
    BY WorkerFacts
  <2>2. <<id, 0>> \in Jobs
    BY NotificationAssumption DEF Jobs
  <2> QED
    BY <2>1, <2>2 DEF WorkerShape, WorkerAt, Adding
<1>2. worker' = [worker EXCEPT ![w] = rec]
  <2>1. worker[w] \in WorkerShape
    BY WorkerFacts
  <2> QED
    BY <2>1 DEF ReleaseDigest, WorkerShape, IInv, ShapeInv
<1> HIDE DEF rec
<1>3. worker[w].at = "releasing" /\ worker'[w].at = "digest" /\ \A v \in Workers : v # w => worker'[v] = worker[v]
  BY <1>1, <1>2 DEF ReleaseDigest, IInv, ShapeInv
<1>4. UNCHANGED <<kind, deferrals, sent, errors, late, made>>
  BY DEF ReleaseDigest, requestVars, histVars, jobVars
<1>5. CASE status[id] # "digest_pending"
  <2>1. status' = status
    BY <1>5 DEF ReleaseDigest, Released, IInv, ShapeInv
  <2>2. ShapeInv'
    BY <1>1, <1>2, <1>4, <2>1 DEF IInv, ShapeInv, WorkerShape, Holding
  <2>3. Quiet
    BY <1>3, <1>4, <2>1 DEF Quiet, LetsGo, Holding
  <2> QED
    BY <2>2, <2>3, QuietKeeps
<1>6. CASE status[id] = "digest_pending"
  <2>1. status' = [status EXCEPT ![id] = "queued"]
    BY <1>6 DEF ReleaseDigest, Released
  <2>2. ShapeInv'
    BY <1>1, <1>2, <1>4, <2>1 DEF IInv, ShapeInv, WorkerShape, RequestStatus, Holding
  <2>3. \A v \in Workers, i \in Ids : Holds(v, i)' <=> Holds(v, i)
    BY <1>3 DEF Holds, Holding
  <2> QED
    BY <1>3, <1>4, <1>6, <2>1, <2>2, <2>3, OpenKeeps DEF Open, Holding
<1> QED
  BY <1>5, <1>6

(* Every step keeps the invariant. *)
LEMMA StepKeeps == IInv /\ [Next]_vars => IInv'
<1> SUFFICES ASSUME IInv, [Next]_vars PROVE IInv'
  OBVIOUS
<1>1. CASE UNCHANGED vars
  <2>1. ShapeInv' /\ Quiet
    BY <1>1 DEF IInv, ShapeInv, Quiet, LetsGo, vars, requestVars, jobVars, histVars
  <2> QED
    BY <2>1, QuietKeeps
<1>2. CASE \E r \in Requests : Reserve(r)
  BY <1>2, ReserveKeeps
<1>3. CASE \E id \in Ids : Enqueue(id) \/ DeliverAtComes(id)
  BY <1>3, EnvironmentKeeps
<1>4. CASE \E w \in Workers, j \in Jobs : TakeJob(w, j)
  BY <1>4, TakeJobKeeps
<1>5. CASE \E w \in Workers : Tick(w)
  BY <1>5, TickKeeps
<1>6. CASE \E w \in Workers : WorkerStep(w)
  <2> SUFFICES ASSUME NEW w \in Workers, WorkerStep(w) PROVE IInv'
    BY <1>6
  <2> QED
    BY ClaimKeeps, EndingKeeps, AllowedKeeps, LimitedKeeps, SendKeeps, RecordDeliveredKeeps,
       RecordFailedKeeps, ReserveFallbackKeeps, AddDigestKeeps, ReleaseDigestKeeps DEF WorkerStep
<1>7. CASE \E l \in late : LateWrite(l[1], l[2])
  <2> PICK l \in late : LateWrite(l[1], l[2])
    BY <1>7
  <2>1. l[1] \in Ids /\ l[2] \in {"delivered", "queued", "failed"}
    BY DEF IInv, ShapeInv
  <2> QED
    BY <2>1, LateWriteKeeps
<1>8. CASE FaultStep
  BY <1>8, EnvironmentKeeps, EndingKeeps, RecordDeliveredThrowsKeeps, RecordFailedThrowsKeeps
     DEF FaultStep
<1> QED
  BY <1>1, <1>2, <1>3, <1>4, <1>5, <1>6, <1>7, <1>8 DEF Next

(* The inductive invariant holds in every reachable state. *)
THEOREM Invariance == Spec => []IInv
  BY InitInv, StepKeeps, PTL DEF Spec

(* What the processor's claim, its unfiltered updates and the reservation of the fallback together *)
(* guarantee: one message per request, and one more for each outcome that was not recorded.        *)
THEOREM ToldOnce == Spec => []NotifiedOnce
<1>1. IInv => NotifiedOnce
  <2> SUFFICES ASSUME IInv, NEW r \in Requests
               PROVE  LET c == <<r, "chosen">> f == <<r, "fallback">>
                      IN  sent[c] + sent[f] <= 1 + errors[c] + errors[f]
    BY DEF NotifiedOnce
  <2> DEFINE c == <<r, "chosen">>
  <2> DEFINE f == <<r, "fallback">>
  <2>1. c \in Ids /\ f \in Ids /\ c[2] = "chosen" /\ Fallback(c) = f
    BY DEF Ids, Fallback
  <2>2. {sent[c], sent[f], errors[c], errors[f]} \subseteq Nat
    BY <2>1 DEF IInv, ShapeInv
  <2>3. status[f] # "absent" => sent[c] <= errors[c] /\ sent[f] <= 1 + errors[f]
    BY <2>1 DEF IInv, FallbackInv, SentInv
  <2>4. status[f] = "absent" => sent[f] <= errors[f] /\ sent[c] <= 1 + errors[c]
    BY <2>1 DEF IInv, SentInv, Open
  <2> HIDE DEF c, f
  <2>5. sent[c] + sent[f] <= 1 + errors[c] + errors[f]
    BY <2>2, <2>3, <2>4
  <2> QED
    BY <2>5 DEF c, f
<1> QED
  BY Invariance, <1>1, PTL

(* Only a failure between sending and recording overwrites "delivered" or "failed": the worker that *)
(* held the request is the only one that writes it, and the digest release is filtered.             *)
THEOREM Finality == Spec => SettledStays
<1> DEFINE Stays == \A id \in Ids :
       status[id] \in {"delivered", "failed"} /\ errors[id] = 0 => status'[id] = status[id]
<1>1. IInv /\ [Next]_vars => Stays
  <2> SUFFICES ASSUME IInv, [Next]_vars, NEW id \in Ids,
                      status[id] \in {"delivered", "failed"}, errors[id] = 0
               PROVE  status'[id] = status[id]
    OBVIOUS
  <2>1. \A w \in Workers : \A new :
          worker[w].at \in Holding \ {"reserving", "fallback"} /\ Set(Request(w), new) =>
            status'[id] = status[id]
    BY CleanHolder, RequestFacts DEF Set, IInv, ShapeInv
  <2>2. CASE \E r \in Requests : Reserve(r)
    BY <2>2 DEF Reserve, IInv, ShapeInv
  <2>3. CASE \E w \in Workers : WorkerStep(w)
    <3> SUFFICES ASSUME NEW w \in Workers, WorkerStep(w) PROVE status'[id] = status[id]
      BY <2>3
    <3>1. CASE Claim(w)
      BY <3>1 DEF Claim, Claimable, Set, IInv, ShapeInv
    <3>2. CASE Limited(w) \/ RecordDelivered(w) \/ RecordFailed(w)
      BY <2>1, <3>2 DEF Limited, RecordDelivered, RecordFailed, Holding
    <3>3. CASE ReserveFallback(w)
      BY <3>3 DEF ReserveFallback, Set, IInv, ShapeInv
    <3>4. CASE \E i \in Ids : ReleaseDigest(w, i)
      BY <3>4 DEF ReleaseDigest, Released, IInv, ShapeInv
    <3>5. CASE Duplicate(w) \/ Allowed(w) \/ AddDeferred(w) \/ Send(w) \/ AddFallback(w) \/ AddDigest(w)
      BY <3>5 DEF Duplicate, Allowed, AddDeferred, Send, AddFallback, AddDigest
    <3> QED
      BY <3>1, <3>2, <3>3, <3>4, <3>5 DEF WorkerStep
  <2>4. CASE \E l \in late : LateWrite(l[1], l[2])
    <3> PICK l \in late : LateWrite(l[1], l[2])
      BY <2>4
    <3>1. l[1] \in Ids /\ l[2] \in RequestStatus /\ l = <<l[1], l[2]>>
      BY DEF IInv, ShapeInv, RequestStatus
    <3>2. l[1] # id
      BY <3>1 DEF IInv, CleanInv
    <3> QED
      BY <3>1, <3>2 DEF LateWrite, Set, IInv, ShapeInv
  <2>5. CASE FaultStep
    BY <2>1, <2>5 DEF FaultStep, EnqueueLost, FalseStall, Crash, CallThrows, TickThrows,
       RecordDeliveredThrows, RecordFailedThrows, FallbackThrows, Holding
  <2>6. CASE \/ \E i \in Ids : Enqueue(i) \/ DeliverAtComes(i)
             \/ \E w \in Workers, j \in Jobs : TakeJob(w, j)
             \/ \E w \in Workers : Tick(w)
    BY <2>6 DEF Enqueue, DeliverAtComes, TakeJob, Tick
  <2>7. CASE UNCHANGED vars
    BY <2>7 DEF vars
  <2> QED
    BY <2>2, <2>3, <2>4, <2>5, <2>6, <2>7 DEF Next
<1>2. Spec => [][Stays]_vars
  BY Invariance, <1>1, PTL DEF Spec
<1> QED
  BY <1>2 DEF SettledStays

----------------------------------------------------------------------------
(* The jobs of a request that no fault has touched *)

LEMMA JobFacts ==
  /\ Nothing \notin Jobs
  /\ \A j \in Jobs : j[1] \in Ids /\ j[2] \in 0 .. MaxDeferrals /\ j = <<j[1], j[2]>>
  /\ \A id \in Ids, n \in 0 .. MaxDeferrals : <<id, n>> \in Jobs /\ <<id, n>>[1] = id /\ <<id, n>>[2] = n
  /\ \A id \in Ids : <<id, 0>> \in Jobs /\ <<id, 0>>[1] = id
<1>1. Nothing \notin Jobs
  BY DEF Jobs, Nothing
<1>2. 0 \in 0 .. MaxDeferrals
  BY NotificationAssumption
<1> QED
  BY <1>1, <1>2 DEF Jobs

LEMMA JInitial == Init => JInv
<1> SUFFICES ASSUME Init PROVE JInv
  OBVIOUS
<1>1. /\ Idle.at = "idle" /\ Idle.job = Nothing /\ Idle.adds = Nothing /\ Idle.todo = {}
  BY DEF Idle
<1>2. QueueShape
  BY DEF Init, QueueShape, JobState
<1>3. HandInv
  BY <1>1 DEF Init, HandInv, Holding, Adding
<1>4. ASSUME NEW id \in Ids PROVE Followed(id)
  <2>1. \A w \in Workers : ~Runs(w, id) /\ ~Adds(w, id)
    BY <1>1 DEF Init, Runs, Adds
  <2>2. Locked(id)
    BY <1>1, JobFacts, NotificationAssumption DEF Init, Locked
  <2>3. Lined(id) /\ Begins(id) /\ Timely(id)
    BY <1>1, <2>1, JobFacts DEF Init, Lined, Begins, Timely, Queued
  <2>4. Sends(id) /\ Carried(id)
    BY <2>1 DEF Init, Sends, Carried
  <2> QED
    BY <2>2, <2>3, <2>4 DEF Followed
<1> QED
  BY <1>2, <1>3, <1>4 DEF JInv

(* A step leaves a request alone, though the worker that sends it may move on. *)
Free(w, id) == ~Runs(w, id) /\ ~Adds(w, id)

SameFor(w, id) ==
  \/ Free(w, id) /\ Free(w, id)'
  \/ /\ worker'[w].job = worker[w].job /\ worker'[w].tries = worker[w].tries
     /\ worker'[w].adds = worker[w].adds
     /\ worker'[w].at = worker[w].at \/ (worker[w].at \in Sending /\ worker'[w].at \in Sending)

SameJobs(id) ==
  \A j \in Jobs : j[1] = id => job'[j] = job[j] /\ made'[j] = made[j] /\ owner'[j] = owner[j]

Untouched(id) ==
  /\ kind' = kind
  /\ status'[id] = status[id] /\ due'[id] = due[id] /\ deferrals'[id] = deferrals[id]
  /\ id \in owed' <=> id \in owed
  /\ \A s \in RequestStatus : <<id, s>> \in late' => <<id, s>> \in late
  /\ SameJobs(id)
  /\ \A w \in Workers :
       /\ SameFor(w, id)
       /\ id \in worker'[w].todo => id \in worker[w].todo \/ (status[id] # "absent" /\ id \notin owed)

LEMMA UntouchedFollowed ==
  ASSUME IInv, IInv', NEW id \in Ids, Followed(id), Untouched(id)
  PROVE  Followed(id)'
<1>1. \A w \in Workers : /\ Runs(w, id)' <=> Runs(w, id)
                         /\ Adds(w, id)' <=> Adds(w, id)
  BY DEF Untouched, SameFor, Free, Runs, Adds
<1>2. \A w \in Workers :
        Runs(w, id) \/ Adds(w, id) =>
          /\ worker'[w].job = worker[w].job /\ worker'[w].tries = worker[w].tries
          /\ worker'[w].adds = worker[w].adds
          /\ worker'[w].at = worker[w].at \/ (worker[w].at \in Sending /\ worker'[w].at \in Sending)
  BY DEF Untouched, SameFor, Free
<1>3. \A w \in Workers, j \in Jobs : j[1] = id => /\ worker[w].job = j => Runs(w, id)
                                                  /\ worker'[w].job = j => Runs(w, id)'
  BY JobFacts DEF Runs
<1>4. \A w \in Workers : /\ Adds(w, id) => worker[w].adds \in Jobs /\ worker[w].adds[1] = id
                         /\ worker[w] \in WorkerShape
  BY DEF IInv, ShapeInv, WorkerShape, Adds
<1>5. <<id, 0>> \in Jobs /\ <<id, 0>>[1] = id
  BY JobFacts
<1>6. Locked(id)'
  BY <1>1, <1>2, <1>3 DEF Followed, Locked, Untouched, SameJobs
<1>7. Lined(id)'
  <2>1. \A j, k \in Jobs : j[1] = id /\ k[1] = id /\ Queued(j)' /\ Queued(k)' => j = k
    BY DEF Followed, Lined, Queued, Untouched, SameJobs
  <2>2. \A j \in Jobs : j[1] = id /\ job'[j] # "absent" => j[2] <= deferrals'[id] /\ job'[<<id, 0>>] # "absent"
    BY <1>5 DEF Followed, Lined, Untouched, SameJobs
  <2>3. \A w \in Workers :
          worker'[w].at = "defer" /\ Adds(w, id)' =>
            worker'[w].adds = <<id, deferrals'[id]>> /\ job'[worker'[w].adds] = "absent"
    BY <1>1, <1>2, <1>4 DEF Followed, Lined, Untouched, SameJobs, Sending
  <2> QED
    BY <2>1, <2>2, <2>3 DEF Lined
<1>8. Begins(id)'
  BY <1>1, <1>5 DEF Followed, Begins, Untouched, SameJobs
<1>9. Timely(id)'
  <2> SUFFICES ASSUME NEW j \in Jobs, j[1] = id, job'[j] \in {"waiting", "active"}, ~due'[id]
               PROVE  \E w \in Workers : worker'[w].at = "defer" /\ worker'[w].job = j
    BY DEF Timely
  <2>1. PICK w \in Workers : worker[w].at = "defer" /\ worker[w].job = j
    BY DEF Followed, Timely, Untouched, SameJobs
  <2> QED
    BY <1>2, <1>3, <2>1 DEF Sending
<1>10. Sends(id)'
  BY <1>1, <1>2 DEF Followed, Sends, Untouched, Settled, Sending
<1>11. Carried(id)'
  <2>1. Live(id)' <=> Live(id)
    BY DEF Live, Untouched, SameJobs
  <2>2. FailedOut(id)' <=> FailedOut(id)
    BY DEF FailedOut, Attempts, Untouched, SameJobs
  <2>3. \A w \in Workers : Adds(w, id) /\ job[worker[w].adds] = "absent"
                             => Adds(w, id)' /\ job'[worker'[w].adds] = "absent"
    BY <1>1, <1>2, <1>4 DEF Untouched, SameJobs
  <2> QED
    BY <2>1, <2>2, <2>3 DEF Followed, Carried, Untouched
<1> QED
  BY <1>6, <1>7, <1>8, <1>9, <1>10, <1>11 DEF Followed

(* A worker that ends its job touches no other one, and frees itself. *)
LEMMA EndFacts ==
  ASSUME IInv, JInv, NEW w \in Workers, NEW jobs \in [Jobs -> JobState],
         worker[w].job \in Jobs, JobDone(w, jobs) \/ JobThrew(w, jobs)
  PROVE  /\ job' \in [Jobs -> JobState] /\ owner' \in [Jobs -> Workers \union {NoWorker}]
         /\ worker' = [worker EXCEPT ![w] = Idle]
         /\ \A k \in Jobs : k # worker[w].job =>
              job'[k] = jobs[k] /\ made'[k] = made[k] /\ owner'[k] = owner[k]
         /\ worker[w].job[1] \in Ids \ broken =>
              /\ owner'[worker[w].job] = NoWorker
              /\ JobDone(w, jobs) => job'[worker[w].job] = "completed"
              /\ JobThrew(w, jobs) =>
                   job'[worker[w].job] =
                     IF made[worker[w].job] + 1 < Attempts(worker[w].job) THEN "waiting" ELSE "failed"
<1> DEFINE j == worker[w].job
<1>1. j[1] \in Ids \ broken => owner[j] = w
  BY DEF JInv, Followed, Locked
<1>2. /\ made \in [Jobs -> Nat] /\ owner \in [Jobs -> Workers \union {NoWorker}]
  BY DEF IInv, ShapeInv, JInv, QueueShape
<1> HIDE DEF j
<1>3. worker' = [worker EXCEPT ![w] = Idle]
  BY DEF JobDone, JobThrew, Leave
<1>4. j \in Jobs
  BY DEF j
<1>5. CASE JobDone(w, jobs)
  <2>1. \/ owner[j] = w /\ job' = [jobs EXCEPT ![j] = "completed"] /\ owner' = [owner EXCEPT ![j] = NoWorker] /\ made' = made
        \/ owner[j] # w /\ job' = jobs /\ owner' = owner /\ made' = made
    BY <1>5 DEF JobDone, j
  <2>2. job' \in [Jobs -> JobState] /\ owner' \in [Jobs -> Workers \union {NoWorker}]
    BY <1>2, <1>4, <2>1 DEF JobState
  <2>3. /\ \A k \in Jobs : k # j => job'[k] = jobs[k] /\ made'[k] = made[k] /\ owner'[k] = owner[k]
        /\ j[1] \in Ids \ broken => owner'[j] = NoWorker /\ job'[j] = "completed"
    BY <1>1, <1>2, <1>4, <2>1
  <2>4. j[1] \in Ids \ broken => ~JobThrew(w, jobs)
    <3>1. JobThrew(w, jobs) /\ owner[j] = w => made' = [made EXCEPT ![j] = @ + 1]
      BY DEF JobThrew, j
    <3> QED
      BY <1>1, <1>2, <1>4, <2>1, <3>1
  <2> QED
    BY <1>3, <2>2, <2>3, <2>4 DEF j
<1>6. CASE JobThrew(w, jobs)
  <2> DEFINE next == IF made[j] + 1 < Attempts(j) THEN "waiting" ELSE "failed"
  <2>1. \/ /\ owner[j] = w /\ job' = [jobs EXCEPT ![j] = next]
           /\ owner' = [owner EXCEPT ![j] = NoWorker] /\ made' = [made EXCEPT ![j] = @ + 1]
        \/ owner[j] # w /\ job' = jobs /\ owner' = owner /\ made' = made
    BY <1>6 DEF JobThrew, j
  <2>2. next \in JobState
    BY DEF JobState
  <2> HIDE DEF next
  <2>3. job' \in [Jobs -> JobState] /\ owner' \in [Jobs -> Workers \union {NoWorker}]
    BY <1>2, <1>4, <2>1, <2>2
  <2>4. /\ \A k \in Jobs : k # j => job'[k] = jobs[k] /\ made'[k] = made[k] /\ owner'[k] = owner[k]
        /\ j[1] \in Ids \ broken => owner'[j] = NoWorker /\ job'[j] = next
    BY <1>1, <1>2, <1>4, <2>1
  <2>5. j[1] \in Ids \ broken => ~JobDone(w, jobs)
    <3>1. JobDone(w, jobs) => made' = made
      BY DEF JobDone
    <3> QED
      BY <1>1, <1>2, <1>4, <2>1, <3>1
  <2> QED
    BY <1>3, <2>3, <2>4, <2>5 DEF j, next
<1> QED
  BY <1>5, <1>6

(* Where a worker that runs a job stands. *)
LEMMA RunFacts ==
  ASSUME IInv, JInv, NEW w \in Workers, NEW id \in Ids \ broken, Runs(w, id)
  PROVE  /\ worker[w].job \in Jobs /\ worker[w].job[1] = id
         /\ owner[worker[w].job] = w /\ job[worker[w].job] = "active"
         /\ worker[w].tries = made[worker[w].job]
         /\ job[<<id, 0>>] # "absent" /\ id \notin owed
         /\ status[id] \notin {"absent", "digest_pending"}
         /\ worker[w].at # "defer" => due[id]
         /\ \A v \in Workers : Runs(v, id) => v = w
<1>1. worker[w].job \in Jobs /\ worker[w].job[1] = id
  BY DEF IInv, ShapeInv, Runs
<1>2. owner[worker[w].job] = w /\ job[worker[w].job] = "active" /\ worker[w].tries = made[worker[w].job]
  BY <1>1 DEF JInv, Followed, Locked
<1>3. job[<<id, 0>>] # "absent"
  BY <1>1, <1>2 DEF JInv, Followed, Lined
<1>4. id \notin owed /\ status[id] \notin {"absent", "digest_pending"}
  BY <1>3 DEF JInv, Followed, Begins
<1>5. ASSUME NEW v \in Workers, Runs(v, id)
      PROVE  v = w
  <2>1. worker[v].job \in Jobs /\ worker[v].job[1] = id
    BY <1>5 DEF IInv, ShapeInv, Runs
  <2>2. owner[worker[v].job] = v /\ job[worker[v].job] = "active"
    BY <2>1 DEF JInv, Followed, Locked
  <2>3. worker[v].job = worker[w].job
    BY <1>1, <1>2, <2>1, <2>2 DEF JInv, Followed, Lined, Queued
  <2> QED
    BY <1>2, <2>2, <2>3
<1>6. ASSUME worker[w].at # "defer"
      PROVE  due[id]
  <2> SUFFICES ASSUME ~due[id] PROVE FALSE
    BY Zenon DEF JInv, QueueShape
  <2>1. PICK v \in Workers : worker[v].at = "defer" /\ worker[v].job = worker[w].job
    BY <1>1, <1>2 DEF JInv, Followed, Timely
  <2>2. v = w
    BY <1>1, <1>5, <2>1, JobFacts DEF Runs
  <2> QED
    BY <1>6, <2>1, <2>2
<1> QED
  BY <1>1, <1>2, <1>3, <1>4, <1>5, <1>6

(* The worker of a request moves on with it, after the claim and before its job ends. *)
LEMMA MovesOwn ==
  ASSUME IInv, IInv', JInv, NEW w \in Workers, NEW id \in Ids \ broken,
         Runs(w, id), worker[w].at # "defer", worker'[w].at \in Holding,
         worker'[w].job = worker[w].job, worker'[w].tries = worker[w].tries,
         worker'[w].todo = worker[w].todo, ~Adds(w, id), ~Adds(w, id)',
         \A v \in Workers \ {w} : worker'[v] = worker[v],
         UNCHANGED <<kind, jobVars, owed>>, due'[id] = due[id], deferrals'[id] = deferrals[id],
         \A s \in RequestStatus : <<id, s>> \in late' => <<id, s>> \in late \/ s = "delivered",
         status'[id] \notin {"absent", "digest_pending"},
         status'[id] = "sending" => worker'[w].at \in Sending,
         worker'[w].at \in {"reserving", "fallback"} => Settled(id)'
  PROVE  Followed(id)'
<1>1. /\ worker[w].job \in Jobs /\ worker[w].job[1] = id
      /\ job[worker[w].job] = "active" /\ id \notin owed
      /\ due[id] /\ \A v \in Workers : Runs(v, id) => v = w
  BY RunFacts
<1>2. worker'[w].at # "defer" /\ UNCHANGED <<job, made, owner>>
  BY DEF Holding, jobVars
<1>3. \A v \in Workers : /\ Runs(v, id)' <=> Runs(v, id)
                         /\ Adds(v, id)' <=> Adds(v, id)
                         /\ Adds(v, id) => v # w
  BY DEF Runs, Adds
<1>4. Locked(id)'
  <2>1. \A v \in Workers : worker'[v].job = worker[v].job /\ worker'[v].tries = worker[v].tries
    OBVIOUS
  <2> QED
    BY <1>2, <2>1 DEF JInv, Followed, Locked
<1>5. Lined(id)'
  <2>1. \A j, k \in Jobs : j[1] = id /\ k[1] = id /\ Queued(j)' /\ Queued(k)' => j = k
    BY <1>2 DEF JInv, Followed, Lined, Queued
  <2>2. \A j \in Jobs : j[1] = id /\ job'[j] # "absent" => j[2] <= deferrals'[id] /\ job'[<<id, 0>>] # "absent"
    BY <1>2 DEF JInv, Followed, Lined
  <2>3. \A v \in Workers :
          worker'[v].at = "defer" /\ Adds(v, id)' =>
            worker'[v].adds = <<id, deferrals'[id]>> /\ job'[worker'[v].adds] = "absent"
    BY <1>2, <1>3 DEF JInv, Followed, Lined
  <2> QED
    BY <2>1, <2>2, <2>3 DEF Lined
<1>6. Begins(id)'
  BY <1>1, <1>2 DEF Begins
<1>7. Timely(id)'
  BY <1>1 DEF Timely
<1>8. Sends(id)'
  <2>1. Runs(w, id)' /\ \A v \in Workers : Runs(v, id)' => v = w
    BY <1>1, <1>3
  <2> QED
    BY <2>1 DEF JInv, Followed, Sends
<1>9. Live(id)'
  BY <1>1, <1>2 DEF Live
<1> QED
  BY <1>4, <1>5, <1>6, <1>7, <1>8, <1>9 DEF Followed, Carried

(* The job of a request ends, and the request is over or its job runs again. *)
LEMMA EndsOwn ==
  ASSUME IInv, IInv', JInv, NEW w \in Workers, NEW id \in Ids \ broken,
         Runs(w, id), worker[w].at # "defer", ~Adds(w, id), NEW jobs \in [Jobs -> JobState],
         JobDone(w, jobs) \/ JobThrew(w, jobs), \A j \in Jobs : j[1] = id => jobs[j] = job[j],
         UNCHANGED <<kind, owed, late>>, due'[id] = due[id], deferrals'[id] = deferrals[id],
         \/ status'[id] \in {"delivered", "failed"}
         \/ status'[id] = "queued" /\ (Live(id)' \/ FailedOut(id)')
  PROVE  Followed(id)'
<1>1. /\ worker[w].job \in Jobs /\ worker[w].job[1] = id
      /\ job[worker[w].job] = "active" /\ id \notin owed /\ owner[worker[w].job] = w
      /\ due[id] /\ \A v \in Workers : Runs(v, id) => v = w
  BY RunFacts
<1> DEFINE own == worker[w].job
<1>2. /\ worker' = [worker EXCEPT ![w] = Idle]
      /\ \A k \in Jobs : k # own => job'[k] = jobs[k] /\ made'[k] = made[k] /\ owner'[k] = owner[k]
      /\ owner'[own] = NoWorker
      /\ job'[own] \in {"completed", "waiting", "failed"}
  BY <1>1, EndFacts
<1>3. /\ worker'[w].job = Nothing /\ worker'[w].adds = Nothing
      /\ \A v \in Workers \ {w} : worker'[v] = worker[v]
  BY <1>2 DEF IInv, ShapeInv, Idle
<1>4. \A v \in Workers : /\ ~Runs(v, id)'
                         /\ Adds(v, id)' => v # w /\ Adds(v, id)
  BY <1>1, <1>3 DEF Runs, Adds
<1> HIDE DEF own
<1>5. own \in Jobs /\ own[1] = id /\ job[own] = "active"
  BY <1>1 DEF own
<1>6. \A k \in Jobs : k[1] = id /\ k # own =>
        /\ job'[k] = job[k] /\ made'[k] = made[k] /\ owner'[k] = owner[k]
        /\ ~Queued(k)
  BY <1>2, <1>5 DEF JInv, Followed, Lined, Queued
<1>7. Locked(id)'
  <2> SUFFICES ASSUME NEW v \in Workers, NEW j \in Jobs, j[1] = id
               PROVE  owner'[j] # v /\ worker'[v].job # j
    BY DEF Locked
  <2>1. worker'[v].job # j
    BY <1>4, JobFacts DEF Runs
  <2>2. CASE j = own
    BY <1>2, <2>1, <2>2, NotificationAssumption
  <2>3. CASE j # own
    <3>1. owner[j] = v => worker[v].job = j
      BY DEF JInv, Followed, Locked
    <3>2. owner[j] = v => v = w
      BY <1>1, <3>1, JobFacts DEF Runs
    <3> QED
      BY <1>6, <2>1, <2>3, <3>1, <3>2 DEF own
  <2> QED
    BY <2>2, <2>3
<1>8. Lined(id)'
  <2>1. \A j, k \in Jobs : j[1] = id /\ k[1] = id /\ Queued(j)' /\ Queued(k)' => j = k
    BY <1>6 DEF Queued
  <2>2. \A j \in Jobs : j[1] = id /\ job'[j] # "absent" => j[2] <= deferrals'[id] /\ job'[<<id, 0>>] # "absent"
    BY <1>2, <1>5, <1>6, JobFacts DEF JInv, Followed, Lined
  <2>3. ASSUME NEW v \in Workers, worker'[v].at = "defer", Adds(v, id)'
        PROVE  FALSE
    <3>1. v # w /\ worker[v].at = "defer" /\ Adds(v, id)
      BY <1>3, <1>4, <2>3
    <3>2. Runs(v, id)
      BY <3>1 DEF JInv, HandInv, Holding, Adds, Runs
    <3> QED
      BY <1>1, <3>1, <3>2
  <2> QED
    BY <2>1, <2>2, <2>3 DEF Lined
<1>9. Begins(id)'
  BY <1>1 DEF Begins
<1>10. Timely(id)'
  BY <1>1 DEF Timely
<1>11. Sends(id)'
  BY <1>4 DEF JInv, Followed, Sends
<1>12. Carried(id)'
  BY DEF Carried
<1> QED
  BY <1>7, <1>8, <1>9, <1>10, <1>11, <1>12 DEF Followed

(* The own job of a request is added, by the one that had it to add. *)
LEMMA OwnAdded ==
  ASSUME IInv, IInv', JInv, NEW id \in Ids \ broken,
         job'[<<id, 0>>] = Added(<<id, 0>>)[<<id, 0>>],
         \A j \in Jobs : j[1] = id => /\ j # <<id, 0>> => job'[j] = job[j]
                                      /\ made'[j] = made[j] /\ owner'[j] = owner[j],
         UNCHANGED <<kind, status, late>>, due' = due, deferrals'[id] = deferrals[id],
         status[id] \notin {"absent", "digest_pending"}, id \notin owed',
         \A w \in Workers : \/ worker'[w] = worker[w]
                            \/ ~Runs(w, id) /\ Free(w, id)' /\ worker[w].at # "defer"
                               /\ (Adds(w, id) => worker[w].adds = <<id, 0>>)
  PROVE  Followed(id)'
<1>1. <<id, 0>> \in Jobs /\ <<id, 0>>[1] = id /\ job \in [Jobs -> JobState] /\ due[id] \in BOOLEAN
  BY JobFacts DEF JInv, QueueShape
<1>2. job'[<<id, 0>>] = IF job[<<id, 0>>] # "absent" THEN job[<<id, 0>>]
                        ELSE IF due[id] THEN "waiting" ELSE "delayed"
  BY <1>1 DEF Added
<1>3. job[<<id, 0>>] = "absent" => \A j \in Jobs : j[1] = id => job[j] = "absent"
  BY <1>1 DEF JInv, Followed, Lined
<1>4. \A w \in Workers : /\ Runs(w, id)' <=> Runs(w, id)
                         /\ Runs(w, id) => worker'[w] = worker[w]
                         /\ Adds(w, id)' => worker'[w] = worker[w] /\ Adds(w, id)
                         /\ Adds(w, id) => worker'[w] = worker[w] \/ worker[w].adds = <<id, 0>>
  BY DEF Free, Runs, Adds
<1>5. \A w \in Workers, j \in Jobs : j[1] = id => /\ worker[w].job = j => Runs(w, id)
                                                  /\ worker'[w].job = j => Runs(w, id)'
  BY JobFacts DEF Runs
<1>6. Locked(id)'
  <2>1. \A w \in Workers : ~Runs(w, id) \/ job[<<id, 0>>] # "absent"
    BY RunFacts
  <2> QED
    BY <1>2, <1>4, <1>5, <2>1 DEF JInv, Followed, Locked
<1>7. Lined(id)'
  <2>1. \A j, k \in Jobs : j[1] = id /\ k[1] = id /\ Queued(j)' /\ Queued(k)' => j = k
    BY <1>1, <1>2, <1>3 DEF JInv, Followed, Lined, Queued
  <2>2. 0 <= deferrals[id]
    BY NotificationAssumption DEF IInv, ShapeInv
  <2>3. \A j \in Jobs : j[1] = id /\ job'[j] # "absent" => j[2] <= deferrals'[id] /\ job'[<<id, 0>>] # "absent"
    <3> SUFFICES ASSUME NEW j \in Jobs, j[1] = id, job'[j] # "absent"
                 PROVE  j[2] <= deferrals[id] /\ job'[<<id, 0>>] # "absent"
      OBVIOUS
    <3>1. CASE j = <<id, 0>>
      BY <1>2, <2>2, <3>1
    <3>2. CASE j # <<id, 0>>
      BY <1>1, <1>2, <3>2 DEF JInv, Followed, Lined
    <3> QED
      BY <3>1, <3>2
  <2>4. ASSUME NEW w \in Workers, worker'[w].at = "defer", Adds(w, id)'
        PROVE  worker'[w].adds = <<id, deferrals'[id]>> /\ job'[worker'[w].adds] = "absent"
    <3>1. worker'[w] = worker[w] /\ Adds(w, id) /\ worker[w].at = "defer"
      BY <1>4, <2>4
    <3>2. worker[w].adds = <<id, deferrals[id]>> /\ job[worker[w].adds] = "absent"
      BY <3>1 DEF JInv, Followed, Lined
    <3>3. worker[w].adds \in Jobs /\ worker[w].adds[1] = id
      BY <3>1 DEF IInv, ShapeInv, Adds
    <3>4. Runs(w, id)
      BY <3>1 DEF JInv, HandInv, Adds, Runs, Holding
    <3>5. worker[w].adds # <<id, 0>>
      BY <3>2, <3>4, RunFacts
    <3> QED
      BY <3>1, <3>2, <3>3, <3>5
  <2> QED
    BY <2>1, <2>3, <2>4 DEF Lined
<1>8. Begins(id)'
  BY DEF Begins
<1>9. Timely(id)'
  <2> SUFFICES ASSUME NEW j \in Jobs, j[1] = id, job'[j] \in {"waiting", "active"}, ~due[id]
               PROVE  \E w \in Workers : worker'[w].at = "defer" /\ worker'[w].job = j
    BY DEF Timely
  <2>1. job[j] \in {"waiting", "active"}
    BY <1>1, <1>2
  <2>2. PICK w \in Workers : worker[w].at = "defer" /\ worker[w].job = j
    BY <2>1 DEF JInv, Followed, Timely
  <2> QED
    BY <1>4, <1>5, <2>2
<1>10. Sends(id)'
  BY <1>4 DEF JInv, Followed, Sends, Settled
<1>11. Carried(id)'
  <2> SUFFICES ASSUME status[id] \in {"queued", "deferred", "sending"}, id \notin owed'
               PROVE  \/ Live(id)' \/ FailedOut(id)'
                      \/ \E w \in Workers : Adds(w, id)' /\ job'[worker'[w].adds] = "absent"
    BY DEF Carried
  <2>1. CASE job[<<id, 0>>] = "absent"
    BY <1>1, <1>2, <2>1 DEF Live
  <2>2. CASE job[<<id, 0>>] # "absent"
    <3>1. \A j \in Jobs : j[1] = id => job'[j] = job[j]
      BY <1>2, <2>2
    <3>2. Live(id) => Live(id)'
      BY <3>1 DEF Live
    <3>3. FailedOut(id) => FailedOut(id)'
      BY <3>1 DEF FailedOut, Attempts
    <3>4. id \notin owed
      BY <2>2 DEF JInv, Followed, Begins
    <3>5. ASSUME NEW w \in Workers, Adds(w, id), job[worker[w].adds] = "absent"
          PROVE  Adds(w, id)' /\ job'[worker'[w].adds] = "absent"
      <4>1. worker[w].adds # <<id, 0>>
        BY <2>2, <3>5
      <4>2. worker[w].adds \in Jobs /\ worker[w].adds[1] = id
        BY <3>5 DEF IInv, ShapeInv, Adds
      <4> QED
        BY <1>4, <3>1, <3>5, <4>1, <4>2 DEF Adds
    <3> QED
      BY <3>2, <3>3, <3>4, <3>5 DEF JInv, Followed, Carried
  <2> QED
    BY <2>1, <2>2
<1> QED
  BY <1>6, <1>7, <1>8, <1>9, <1>10, <1>11 DEF Followed

LEMMA AddedFacts ==
  ASSUME JInv, NEW j \in Jobs
  PROVE  /\ Added(j) \in [Jobs -> JobState]
         /\ \A k \in Jobs : k # j => Added(j)[k] = job[k]
         /\ Added(j)[j] = IF job[j] # "absent" THEN job[j] ELSE IF due[j[1]] THEN "waiting" ELSE "delayed"
  BY DEF JInv, QueueShape, JobState, Added

(* A worker with nothing in hand for a request leaves it alone. *)
LEMMA Elsewhere ==
  ASSUME IInv, IInv', JInv, NEW w \in Workers, NEW id \in Ids \ broken, Free(w, id), Free(w, id)',
         \A v \in Workers \ {w} : worker'[v] = worker[v],
         worker'[w].todo \subseteq worker[w].todo, kind' = kind,
         status'[id] = status[id], due'[id] = due[id], deferrals'[id] = deferrals[id],
         id \in owed' <=> id \in owed,
         \A s \in RequestStatus : <<id, s>> \in late' => <<id, s>> \in late,
         SameJobs(id)
  PROVE  Followed(id)'
<1>1. Untouched(id)
  BY DEF Untouched, SameFor
<1> QED
  BY <1>1, UntouchedFollowed DEF JInv

(* A worker that ends its job, seen from a request it has nothing in hand for. *)
LEMMA EndsElsewhere ==
  ASSUME IInv, IInv', JInv, NEW w \in Workers, NEW id \in Ids \ broken, Free(w, id),
         NEW jobs \in [Jobs -> JobState], worker[w].job \in Jobs, JobDone(w, jobs) \/ JobThrew(w, jobs),
         \A j \in Jobs : j[1] = id => jobs[j] = job[j],
         kind' = kind, status'[id] = status[id], due'[id] = due[id], deferrals'[id] = deferrals[id],
         id \in owed' <=> id \in owed,
         \A s \in RequestStatus : <<id, s>> \in late' => <<id, s>> \in late
  PROVE  Followed(id)'
<1>1. /\ worker' = [worker EXCEPT ![w] = Idle]
      /\ \A k \in Jobs : k # worker[w].job =>
           job'[k] = jobs[k] /\ made'[k] = made[k] /\ owner'[k] = owner[k]
  BY EndFacts
<1>2. /\ worker'[w].job = Nothing /\ worker'[w].adds = Nothing /\ worker'[w].todo = {}
      /\ \A v \in Workers \ {w} : worker'[v] = worker[v]
  BY <1>1 DEF IInv, ShapeInv, Idle
<1>3. SameJobs(id)
  BY <1>1, JobFacts DEF SameJobs, Free, Runs
<1> QED
  BY <1>2, <1>3, Elsewhere DEF Free, Runs, Adds

(* The shapes after a worker has been freed. *)
LEMMA FreedShape ==
  ASSUME IInv, JInv, NEW w \in Workers, worker' = [worker EXCEPT ![w] = Idle]
  PROVE  HandInv'
<1>1. Idle.at = "idle" /\ Idle.job = Nothing /\ Idle.adds = Nothing
  BY DEF Idle
<1>2. worker'[w] = Idle /\ \A v \in Workers \ {w} : worker'[v] = worker[v]
  BY DEF IInv, ShapeInv
<1> QED
  BY <1>1, <1>2 DEF JInv, HandInv, Holding, Adding

LEMMA EndShape ==
  ASSUME IInv, JInv, NEW w \in Workers, NEW jobs \in [Jobs -> JobState], worker[w].job \in Jobs,
         JobDone(w, jobs) \/ JobThrew(w, jobs), due' \in [Ids -> BOOLEAN], owed' \subseteq Ids,
         broken' \subseteq Ids
  PROVE  QueueShape' /\ HandInv'
  BY EndFacts, FreedShape DEF QueueShape

(* What a worker has in hand where it stands. *)
LEMMA StandFacts ==
  ASSUME IInv, JInv, NEW w \in Workers
  PROVE  /\ worker[w].at \in Holding \union {"taken", "defer"} =>
              /\ worker[w].job \in Jobs /\ Request(w) \in Ids /\ Request(w) = worker[w].job[1]
              /\ \A id : Runs(w, id) <=> id = Request(w)
         /\ worker[w].at \notin Holding \union {"taken", "defer"} => \A id : ~Runs(w, id)
         /\ worker[w].at \in Adding =>
              /\ worker[w].adds \in Jobs /\ worker[w].adds[1] \in Ids
              /\ \A id : Adds(w, id) <=> id = worker[w].adds[1]
         /\ worker[w].at \notin Adding => \A id : ~Adds(w, id)
<1>1. worker[w] \in WorkerShape
  BY WorkerFacts
<1> QED
  BY <1>1, JobFacts DEF JInv, HandInv, WorkerShape, Request, Runs, Adds

LEMMA DuplicateFollowed ==
  ASSUME IInv, IInv', JInv, NEW w \in Workers, Duplicate(w)
  PROVE  JInv'
<1>1. /\ worker[w].job \in Jobs /\ \A id : ~Adds(w, id)
      /\ \A id : Runs(w, id) <=> id = Request(w)
  BY StandFacts DEF Duplicate, Adding
<1>2. JobDone(w, job) /\ UNCHANGED <<kind, deferrals, owed, status, due, late, broken>> /\ job \in [Jobs -> JobState]
  BY DEF Duplicate, requestVars, histVars, JInv, QueueShape
<1>3. QueueShape' /\ HandInv'
  BY <1>1, <1>2, EndShape DEF JInv, QueueShape
<1>4. ASSUME NEW id \in Ids \ broken
      PROVE  Followed(id)'
  <2>1. CASE Runs(w, id)
    <3>1. due[id] /\ status[id] \notin {"absent", "digest_pending"} /\ \A v \in Workers : Runs(v, id) => v = w
      BY <2>1, RunFacts DEF Duplicate
    <3>2. status[id] \notin {"queued", "deferred"}
      BY <1>1, <2>1, <3>1 DEF Duplicate, Claimable
    <3>3. status[id] # "sending"
      BY <2>1, <3>1 DEF JInv, Followed, Sends, Duplicate, Sending
    <3>4. status[id] \in {"delivered", "failed"}
      BY <3>1, <3>2, <3>3 DEF IInv, ShapeInv, RequestStatus
    <3> QED
      BY <1>1, <1>2, <2>1, <3>4, EndsOwn DEF Duplicate
  <2>2. CASE ~Runs(w, id)
    BY <1>1, <1>2, <2>2, EndsElsewhere DEF Free
  <2> QED
    BY <2>1, <2>2
<1> QED
  BY <1>2, <1>3, <1>4 DEF JInv

LEMMA RecordDeliveredFollowed ==
  ASSUME IInv, IInv', JInv, NEW w \in Workers, RecordDelivered(w)
  PROVE  JInv'
<1>1. /\ worker[w].job \in Jobs /\ \A id : ~Adds(w, id)
      /\ Request(w) \in Ids /\ \A id : Runs(w, id) <=> id = Request(w)
  BY StandFacts DEF RecordDelivered, Adding, Holding
<1>2. JobDone(w, job) /\ UNCHANGED <<kind, deferrals, owed, due, late, broken>> /\ job \in [Jobs -> JobState]
  BY DEF RecordDelivered, requestVars, histVars, JInv, QueueShape
<1>3. status'[Request(w)] = "delivered" /\ \A id \in Ids : id # Request(w) => status'[id] = status[id]
  BY <1>1 DEF RecordDelivered, Set, IInv, ShapeInv
<1>4. QueueShape' /\ HandInv'
  BY <1>1, <1>2, EndShape DEF JInv, QueueShape
<1>5. ASSUME NEW id \in Ids \ broken
      PROVE  Followed(id)'
  <2>1. CASE Runs(w, id)
    BY <1>1, <1>2, <1>3, <2>1, EndsOwn DEF RecordDelivered
  <2>2. CASE ~Runs(w, id)
    BY <1>1, <1>2, <1>3, <2>2, EndsElsewhere DEF Free
  <2> QED
    BY <2>1, <2>2
<1> QED
  BY <1>2, <1>4, <1>5 DEF JInv

LEMMA RecordFailedFollowed ==
  ASSUME IInv, IInv', JInv, NEW w \in Workers, RecordFailed(w)
  PROVE  JInv'
<1>1. /\ worker[w].job \in Jobs /\ \A id : ~Adds(w, id)
      /\ Request(w) \in Ids /\ \A id : Runs(w, id) <=> id = Request(w)
  BY StandFacts DEF RecordFailed, Adding, Holding
<1>2. UNCHANGED <<kind, deferrals, owed, due, late, broken>> /\ job \in [Jobs -> JobState]
  BY DEF RecordFailed, requestVars, histVars, JInv, QueueShape
<1>3. status'[Request(w)] = AfterFailure(w) /\ \A id \in Ids : id # Request(w) => status'[id] = status[id]
  BY <1>1 DEF RecordFailed, Set, IInv, ShapeInv
<1>4. CASE Terminal(w) /\ Go(w, "reserving") /\ UNCHANGED jobVars
  <2>1. /\ worker' \in [Workers -> WorkerShape]
        /\ worker'[w].at = "reserving" /\ worker'[w].job = worker[w].job
        /\ \A v \in Workers \ {w} : worker'[v] = worker[v]
    BY <1>4, MoveFacts DEF WorkerAt
  <2>2. worker'[w].tries = worker[w].tries /\ worker'[w].adds = worker[w].adds /\ worker'[w].todo = worker[w].todo
    <3>1. worker'[w] = [worker[w] EXCEPT !.at = "reserving"] /\ worker[w] \in WorkerShape
      BY <1>4, WorkerFacts
    <3> QED
      BY <3>1 DEF WorkerShape
  <2>3. QueueShape' /\ HandInv'
    <3>1. worker[w].adds = Nothing /\ worker[w].job # Nothing
      BY DEF RecordFailed, JInv, HandInv, Adding, Holding
    <3> QED
      BY <1>2, <1>4, <2>1, <2>2, <3>1 DEF JInv, HandInv, QueueShape, jobVars, Adding, Holding
  <2>4. ASSUME NEW id \in Ids \ broken
        PROVE  Followed(id)'
    <3>1. ~Adds(w, id)'
      BY <1>1, <2>2 DEF Adds
    <3>2. CASE Runs(w, id)
      <4>1. status'[id] = "failed"
        BY <1>1, <1>3, <1>4, <3>2 DEF AfterFailure
      <4>2. Settled(id)' /\ worker'[w].at \in Holding /\ worker[w].at # "defer"
        BY <2>1, <4>1 DEF Settled, Holding, RecordFailed
      <4> QED
        BY <1>1, <1>2, <1>4, <2>1, <2>2, <3>1, <3>2, <4>1, <4>2, MovesOwn
    <3>3. CASE ~Runs(w, id)
      <4>1. SameJobs(id)
        BY <1>4 DEF SameJobs, jobVars
      <4>2. Free(w, id) /\ Free(w, id)'
        BY <1>1, <2>1, <3>1, <3>3 DEF Free, Runs
      <4>3. status'[id] = status[id]
        BY <1>1, <1>3, <3>3
      <4> QED
        BY <1>2, <2>1, <2>2, <4>1, <4>2, <4>3, Elsewhere
    <3> QED
      BY <3>2, <3>3
  <2> QED
    BY <1>2, <2>3, <2>4 DEF JInv
<1>5. CASE JobThrew(w, job)
  <2>1. QueueShape' /\ HandInv'
    BY <1>1, <1>2, <1>5, EndShape DEF JInv, QueueShape
  <2>2. ASSUME NEW id \in Ids \ broken
        PROVE  Followed(id)'
    <3>1. CASE Runs(w, id)
      <4>1. CASE Terminal(w)
        <5>1. status'[id] = "failed"
          BY <1>1, <1>3, <3>1, <4>1 DEF AfterFailure
        <5> QED
          BY <1>1, <1>2, <1>5, <3>1, <5>1, EndsOwn DEF RecordFailed
      <4>2. CASE ~Terminal(w)
        <5> DEFINE own == worker[w].job
        <5>1. status'[id] = "queued"
          BY <1>1, <1>3, <3>1, <4>2 DEF AfterFailure
        <5>2. own \in Jobs /\ own[1] = id /\ worker[w].tries = made[own]
          BY <3>1, RunFacts
        <5>3. job'[own] = IF made[own] + 1 < Attempts(own) THEN "waiting" ELSE "failed"
          BY <1>1, <1>2, <1>5, <5>2, EndFacts
        <5>4. Attempts(own) \in {FirstAttempts, DefaultAttempts}
          BY DEF Attempts
        <5>5. made[own] \in Nat /\ made[own] < TerminalAfter
          BY <4>2, <5>2, NotificationAssumption DEF Terminal, IInv, ShapeInv
        <5> HIDE DEF own
        <5>6. made[own] + 1 < Attempts(own) \/ Attempts(own) = DefaultAttempts
          BY <5>4, <5>5, NotificationAssumption
        <5>7. Live(id)' \/ FailedOut(id)'
          <6>1. CASE made[own] + 1 < Attempts(own)
            BY <5>2, <5>3, <6>1 DEF Live
          <6>2. CASE ~(made[own] + 1 < Attempts(own))
            <7>1. Attempts(own) = DefaultAttempts /\ job'[own] = "failed"
              BY <5>3, <5>6, <6>2
            <7> QED
              BY <1>2, <5>2, <7>1 DEF FailedOut, Attempts
          <6> QED
            BY <6>1, <6>2
        <5> QED
          BY <1>1, <1>2, <1>5, <3>1, <5>1, <5>7, EndsOwn DEF RecordFailed
      <4> QED
        BY <4>1, <4>2
    <3>2. CASE ~Runs(w, id)
      BY <1>1, <1>2, <1>3, <1>5, <3>2, EndsElsewhere DEF Free
    <3> QED
      BY <3>1, <3>2
  <2> QED
    BY <1>2, <2>1, <2>2 DEF JInv
<1> QED
  BY <1>4, <1>5 DEF RecordFailed

LEMMA ThrowsFollowed ==
  ASSUME IInv, IInv', JInv, NEW w \in Workers,
         CallThrows(w) \/ FallbackThrows(w) \/ RecordFailedThrows(w)
  PROVE  JInv'
<1>1. worker[w].at \in Holding \union {"taken", "defer"}
  BY DEF CallThrows, FallbackThrows, RecordFailedThrows, Holding
<1>2. /\ worker[w].job \in Jobs /\ Request(w) = worker[w].job[1] /\ Request(w) \in Ids
      /\ \A id : Runs(w, id) <=> id = Request(w)
  BY <1>1, StandFacts
<1>3. PICK jobs : /\ JobThrew(w, jobs)
                  /\ jobs = job \/ (worker[w].at \in Adding /\ jobs = Added(worker[w].adds))
  BY DEF CallThrows, FallbackThrows, RecordFailedThrows, Adding
<1>4. /\ jobs \in [Jobs -> JobState]
      /\ \A k \in Jobs : worker[w].at \in Adding /\ k # worker[w].adds => jobs[k] = job[k]
      /\ worker[w].at \notin Adding => jobs = job
  <2>1. CASE jobs = job
    BY <2>1 DEF JInv, QueueShape
  <2>2. CASE worker[w].at \in Adding /\ jobs = Added(worker[w].adds)
    BY <2>2, AddedFacts, StandFacts
  <2> QED
    BY <1>3, <2>1, <2>2
<1>5. UNCHANGED <<kind, deferrals, owed, due>>
  BY DEF CallThrows, FallbackThrows, RecordFailedThrows, requestVars
<1>6. broken' = broken \union InHand(w)
  <2>1. CASE CallThrows(w) \/ FallbackThrows(w)
    BY <2>1 DEF CallThrows, FallbackThrows, Break
  <2>2. CASE RecordFailedThrows(w)
    <3>1. worker[w].adds = Nothing /\ worker[w].job # Nothing
      BY <2>2, <1>2, JobFacts DEF RecordFailedThrows, JInv, HandInv, Adding
    <3> QED
      BY <1>2, <2>2, <3>1 DEF RecordFailedThrows, Break, InHand
  <2> QED
    BY <2>1, <2>2
<1>7. broken' \subseteq Ids /\ \A id \in Ids \ broken' : id \notin broken /\ Free(w, id)
  <2>1. \A id : Free(w, id) <=> id \notin InHand(w)
    BY DEF Free, Runs, Adds, InHand
  <2>2. InHand(w) \subseteq Ids
    BY JobFacts DEF InHand, IInv, ShapeInv
  <2> QED
    BY <1>6, <2>1, <2>2 DEF JInv, QueueShape
<1>8. QueueShape' /\ HandInv'
  BY <1>2, <1>3, <1>4, <1>5, <1>7, EndShape DEF JInv, QueueShape
<1>9. ASSUME NEW id \in Ids \ broken'
      PROVE  Followed(id)'
  <2>1. id \notin broken /\ Free(w, id) /\ id # Request(w)
    BY <1>2, <1>7 DEF Free
  <2>2. /\ status'[id] = status[id]
        /\ \A s \in RequestStatus : <<id, s>> \in late' => <<id, s>> \in late
    <3>1. CASE CallThrows(w) \/ FallbackThrows(w)
      BY <3>1 DEF CallThrows, FallbackThrows
    <3>2. CASE RecordFailedThrows(w)
      <4>1. status' = status \/ Set(Request(w), AfterFailure(w))
        BY <3>2 DEF RecordFailedThrows
      <4>2. late' = late \/ late' = late \union {<<Request(w), AfterFailure(w)>>}
        BY <3>2 DEF RecordFailedThrows
      <4> QED
        BY <1>2, <2>1, <4>1, <4>2 DEF Set, IInv, ShapeInv
    <3> QED
      BY <3>1, <3>2
  <2>3. \A j \in Jobs : j[1] = id => jobs[j] = job[j]
    BY <1>4, <2>1, StandFacts DEF Free
  <2> QED
    BY <1>2, <1>3, <1>4, <1>5, <2>1, <2>2, <2>3, EndsElsewhere
<1> QED
  BY <1>8, <1>9 DEF JInv

(* A worker moves on with its request and has nothing to add. *)
LEMMA MovesFollowed ==
  ASSUME IInv, IInv', JInv, NEW w \in Workers, NEW to \in Holding \ {"fallback"}, Go(w, to),
         worker[w].at \in (Holding \union {"taken"}) \ {"fallback"},
         UNCHANGED <<kind, jobVars, owed, due, deferrals, broken>>,
         \A id \in Ids : id # Request(w) =>
           /\ status'[id] = status[id]
           /\ \A s \in RequestStatus : <<id, s>> \in late' => <<id, s>> \in late,
         Request(w) \notin broken =>
           /\ \A s \in RequestStatus : <<Request(w), s>> \in late' => <<Request(w), s>> \in late \/ s = "delivered"
           /\ status'[Request(w)] \notin {"absent", "digest_pending"}
           /\ status'[Request(w)] = "sending" => to \in Sending
           /\ to = "reserving" => status'[Request(w)] \in {"delivered", "failed"}
  PROVE  JInv'
<1>1. /\ worker[w].job \in Jobs /\ Request(w) \in Ids /\ \A id : ~Adds(w, id)
      /\ \A id : Runs(w, id) <=> id = Request(w)
  BY StandFacts DEF Adding, Holding
<1>2. to \in WorkerAt /\ to \notin Adding /\ worker[w].adds = Nothing /\ worker[w].job # Nothing
  BY <1>1, JobFacts DEF WorkerAt, Holding, Adding, JInv, HandInv
<1>3. /\ worker' \in [Workers -> WorkerShape]
      /\ worker'[w].at = to /\ worker'[w].job = worker[w].job
      /\ \A v \in Workers \ {w} : worker'[v] = worker[v]
  BY <1>2, MoveFacts
<1>4. worker'[w].tries = worker[w].tries /\ worker'[w].adds = worker[w].adds /\ worker'[w].todo = worker[w].todo
  <2>1. worker'[w] = [worker[w] EXCEPT !.at = to] /\ worker[w] \in WorkerShape
    BY WorkerFacts
  <2> QED
    BY <2>1 DEF WorkerShape
<1>5. QueueShape'
  BY DEF JInv, QueueShape, jobVars
<1>6. HandInv'
  BY <1>2, <1>3, <1>4 DEF JInv, HandInv, Holding, Adding
<1>7. ASSUME NEW id \in Ids \ broken
      PROVE  Followed(id)'
  <2>1. ~Adds(w, id)'
    BY <1>1, <1>4 DEF Adds
  <2>2. CASE Runs(w, id)
    <3>1. id = Request(w)
      BY <1>1, <2>2
    <3>2. /\ \A s \in RequestStatus : <<id, s>> \in late' => <<id, s>> \in late \/ s = "delivered"
          /\ status'[id] \notin {"absent", "digest_pending"}
          /\ status'[id] = "sending" => worker'[w].at \in Sending
      BY <1>3, <3>1
    <3>3. worker'[w].at \in {"reserving", "fallback"} => Settled(id)'
      BY <1>3, <3>1 DEF Settled
    <3>4. worker[w].at # "defer" /\ worker'[w].at \in Holding
      BY <1>3 DEF Holding
    <3> QED
      BY <1>1, <1>3, <1>4, <2>1, <2>2, <3>2, <3>3, <3>4, MovesOwn
  <2>3. CASE ~Runs(w, id)
    <3>1. SameJobs(id)
      BY DEF SameJobs, jobVars
    <3>2. Free(w, id) /\ Free(w, id)'
      BY <1>1, <1>3, <2>1, <2>3 DEF Free, Runs
    <3>3. id # Request(w)
      BY <1>1, <2>3
    <3> QED
      BY <1>3, <1>4, <3>1, <3>2, <3>3, Elsewhere
  <2> QED
    BY <2>2, <2>3
<1> QED
  BY <1>5, <1>6, <1>7 DEF JInv

LEMMA MovingFollowed ==
  ASSUME IInv, IInv', JInv, NEW w \in Workers,
         Claim(w) \/ Allowed(w) \/ Send(w) \/ RecordDeliveredThrows(w)
  PROVE  JInv'
<1>1. worker[w].at \in (Holding \union {"taken"}) \ {"fallback"}
  BY DEF Claim, Allowed, Send, RecordDeliveredThrows, Holding
<1>2. Request(w) \in Ids /\ Runs(w, Request(w))
  BY <1>1, StandFacts
<1>3. UNCHANGED <<kind, jobVars, owed, due, deferrals, broken>>
  BY DEF Claim, Allowed, Send, RecordDeliveredThrows, requestVars, histVars
<1>4. Request(w) \notin broken => status[Request(w)] \notin {"absent", "digest_pending"}
  BY <1>2, RunFacts
<1>5. CASE Claim(w)
  <2>1. late' = late /\ status' = [status EXCEPT ![Request(w)] = "sending"] /\ Go(w, "claimed")
    BY <1>5 DEF Claim, Set
  <2>2. status'[Request(w)] = "sending" /\ \A id \in Ids : id # Request(w) => status'[id] = status[id]
    BY <1>2, <2>1 DEF IInv, ShapeInv
  <2>3. "claimed" \in Holding \ {"fallback"} /\ "claimed" \in Sending
    BY DEF Holding, Sending
  <2> QED
    BY <1>1, <1>3, <2>1, <2>2, <2>3, MovesFollowed
<1>6. CASE Allowed(w) \/ Send(w)
  <2>1. PICK to \in Sending : Go(w, to)
    BY <1>6 DEF Allowed, Send, Sending
  <2>2. late' = late /\ status' = status
    BY <1>6 DEF Allowed, Send
  <2>3. to \in Holding \ {"fallback"} /\ to # "reserving"
    BY DEF Holding, Sending
  <2> QED
    BY <1>1, <1>3, <1>4, <2>1, <2>2, <2>3, MovesFollowed
<1>7. CASE RecordDeliveredThrows(w)
  <2>1. /\ late' = late \/ late' = late \union {<<Request(w), "delivered">>}
        /\ status' = status \/ status' = [status EXCEPT ![Request(w)] = "delivered"]
        /\ Go(w, "caught")
    BY <1>7 DEF RecordDeliveredThrows, Set
  <2>2. /\ \A id \in Ids : id # Request(w) =>
             /\ status'[id] = status[id]
             /\ \A s \in RequestStatus : <<id, s>> \in late' => <<id, s>> \in late
        /\ status'[Request(w)] \in {status[Request(w)], "delivered"}
        /\ \A s \in RequestStatus : <<Request(w), s>> \in late' => <<Request(w), s>> \in late \/ s = "delivered"
    BY <1>2, <2>1 DEF IInv, ShapeInv
  <2>3. "caught" \in Holding \ {"fallback"} /\ "caught" \in Sending
    BY DEF Holding, Sending
  <2> QED
    BY <1>1, <1>3, <1>4, <2>1, <2>2, <2>3, MovesFollowed
<1> QED
  BY <1>5, <1>6, <1>7

LEMMA LimitedFollowed ==
  ASSUME IInv, IInv', JInv, NEW w \in Workers, Limited(w)
  PROVE  JInv'
<1>1. /\ worker[w].job \in Jobs /\ Request(w) \in Ids /\ \A i : ~Adds(w, i)
      /\ \A i : Runs(w, i) <=> i = Request(w)
  BY StandFacts DEF Limited, Holding, Adding
<1>2. PICK id \in Ids : id = Request(w)
  BY <1>1
<1>3. deferrals[id] \in 0 .. MaxDeferrals /\ deferrals[id] < MaxDeferrals
  BY <1>2 DEF Limited, IInv, ShapeInv
<1>4. PICK next \in Jobs : next = <<id, deferrals[id] + 1>>
  <2>1. deferrals[id] + 1 \in 0 .. MaxDeferrals
    BY <1>3, NotificationAssumption
  <2> QED
    BY <2>1, JobFacts
<1>5. next[1] = id /\ next[2] = deferrals[id] + 1
  BY <1>4
<1>6. /\ worker'[w].at = "defer" /\ worker'[w].job = worker[w].job
      /\ worker'[w].tries = worker[w].tries /\ worker'[w].todo = worker[w].todo /\ worker'[w].adds = next
      /\ \A v \in Workers \ {w} : worker'[v] = worker[v]
  <2>1. worker' = [worker EXCEPT ![w].at = "defer", ![w].adds = next]
    BY <1>2, <1>4 DEF Limited, GoAdd
  <2> QED
    BY <2>1 DEF IInv, ShapeInv
<1>7. /\ UNCHANGED <<kind, job, made, owner, owed, late, broken>>
      /\ status' = [status EXCEPT ![id] = "deferred"] /\ due' = [due EXCEPT ![id] = FALSE]
      /\ deferrals' = [deferrals EXCEPT ![id] = @ + 1]
  BY <1>2 DEF Limited, Set, jobVars, histVars
<1>8. /\ status'[id] = "deferred" /\ deferrals'[id] = deferrals[id] + 1
      /\ \A i \in Ids : i # id => status'[i] = status[i] /\ due'[i] = due[i] /\ deferrals'[i] = deferrals[i]
  BY <1>7 DEF IInv, ShapeInv, JInv, QueueShape
<1>9. QueueShape'
  BY <1>7 DEF JInv, QueueShape
<1>10. HandInv'
  <2>1. worker[w].job[1] = id /\ worker[w].job # Nothing /\ next # Nothing
    BY <1>1, <1>2, JobFacts DEF Request
  <2> QED
    BY <1>5, <1>6, <2>1 DEF JInv, HandInv, Holding, Adding
<1>11. ASSUME NEW i \in Ids \ broken
       PROVE  Followed(i)'
  <2>1. CASE i # id
    <3>1. Free(w, i) /\ Free(w, i)'
      BY <1>1, <1>2, <1>5, <1>6, <2>1 DEF Free, Runs, Adds
    <3>2. SameJobs(i)
      BY <1>7 DEF SameJobs
    <3> QED
      BY <1>6, <1>7, <1>8, <2>1, <3>1, <3>2, Elsewhere
  <2>2. CASE i = id
    <3>1. Runs(w, id)
      BY <1>1, <1>2
    <3>2. /\ worker[w].job \in Jobs /\ worker[w].job[1] = id
          /\ job[worker[w].job] = "active" /\ job[<<id, 0>>] # "absent" /\ id \notin owed
          /\ \A v \in Workers : Runs(v, id) => v = w
      BY <2>2, <3>1, RunFacts
    <3>3. \A v \in Workers : /\ worker'[v].job = worker[v].job /\ worker'[v].tries = worker[v].tries
                             /\ Runs(v, id)' <=> Runs(v, id)
                             /\ Adds(v, id) => Adds(v, id)'
                             /\ v # w => worker'[v] = worker[v]
      BY <1>1, <1>6 DEF Runs, Adds
    <3>4. Locked(id)'
      BY <1>7, <2>2, <3>3 DEF JInv, Followed, Locked
    <3>5. \A j \in Jobs : j[1] = id /\ job[j] # "absent" => j[2] <= deferrals[id]
      BY <2>2 DEF JInv, Followed, Lined
    <3>6. Lined(id)'
      <4>1. \A j, k \in Jobs : j[1] = id /\ k[1] = id /\ Queued(j)' /\ Queued(k)' => j = k
        BY <1>7, <2>2 DEF JInv, Followed, Lined, Queued
      <4>2. \A j \in Jobs : j[1] = id /\ job'[j] # "absent" => j[2] <= deferrals'[id] /\ job'[<<id, 0>>] # "absent"
        <5>1. \A j \in Jobs : j[2] \in 0 .. MaxDeferrals
          BY JobFacts
        <5> QED
          BY <1>3, <1>7, <1>8, <3>2, <3>5, <5>1
      <4>3. ASSUME NEW v \in Workers, worker'[v].at = "defer", Adds(v, id)'
            PROVE  worker'[v].adds = <<id, deferrals'[id]>> /\ job'[worker'[v].adds] = "absent"
        <5>1. CASE v = w
          <6>1. job[next] = "absent"
            BY <1>3, <1>5, <3>5
          <6> QED
            BY <1>4, <1>6, <1>7, <1>8, <5>1, <6>1
        <5>2. CASE v # w
          <6>1. worker[v].at = "defer" /\ Adds(v, id)
            BY <3>3, <4>3, <5>2 DEF Adds
          <6>2. Runs(v, id)
            BY <6>1 DEF JInv, HandInv, Adds, Runs, Holding
          <6> QED
            BY <3>2, <5>2, <6>2
        <5> QED
          BY <5>1, <5>2
      <4> QED
        BY <4>1, <4>2, <4>3 DEF Lined
    <3>7. Begins(id)'
      BY <1>7, <1>8, <3>2 DEF Begins
    <3>8. Timely(id)'
      <4>1. \A j \in Jobs : j[1] = id /\ job[j] \in {"waiting", "active"} => j = worker[w].job
        BY <2>2, <3>2 DEF JInv, Followed, Lined, Queued
      <4> QED
        BY <1>6, <1>7, <4>1 DEF Timely
    <3>9. Sends(id)'
      <4>1. \A v \in Workers : Runs(v, id)' => worker'[v].at = "defer"
        BY <1>6, <3>2, <3>3
      <4> QED
        BY <1>7, <1>8, <2>2, <4>1 DEF JInv, Followed, Sends
    <3>10. Live(id)'
      BY <1>7, <3>2 DEF Live
    <3> QED
      BY <2>2, <3>4, <3>6, <3>7, <3>8, <3>9, <3>10 DEF Followed, Carried
  <2> QED
    BY <2>1, <2>2
<1> QED
  BY <1>7, <1>9, <1>10, <1>11 DEF JInv

LEMMA AddDeferredFollowed ==
  ASSUME IInv, IInv', JInv, NEW w \in Workers, AddDeferred(w)
  PROVE  JInv'
<1>1. /\ worker[w].job \in Jobs /\ Request(w) \in Ids
      /\ \A i : Runs(w, i) <=> i = Request(w)
      /\ worker[w].adds \in Jobs
      /\ \A i : Adds(w, i) <=> i = worker[w].adds[1]
  BY StandFacts DEF AddDeferred, Adding
<1>2. PICK id \in Ids, next \in Jobs, own \in Jobs :
        id = Request(w) /\ next = worker[w].adds /\ own = worker[w].job
  BY <1>1
<1>3. own[1] = id /\ next[1] = id
  BY <1>2, StandFacts DEF AddDeferred, JInv, HandInv, Request
<1>4. /\ Added(next) \in [Jobs -> JobState]
      /\ \A k \in Jobs : k # next => Added(next)[k] = job[k]
      /\ Added(next)[next] = IF job[next] # "absent" THEN job[next] ELSE IF due[id] THEN "waiting" ELSE "delayed"
  BY <1>3, AddedFacts
<1>5. JobDone(w, Added(next)) /\ UNCHANGED <<kind, deferrals, owed, status, due, late, broken>>
  BY <1>2 DEF AddDeferred, requestVars, histVars
<1>6. QueueShape' /\ HandInv'
  BY <1>1, <1>4, <1>5, EndShape DEF JInv, QueueShape
<1>7. ASSUME NEW i \in Ids \ broken
      PROVE  Followed(i)'
  <2>1. CASE i # id
    <3>1. Free(w, i)
      BY <1>1, <1>2, <1>3, <2>1 DEF Free
    <3>2. \A j \in Jobs : j[1] = i => Added(next)[j] = job[j]
      BY <1>3, <1>4, <2>1
    <3> QED
      BY <1>1, <1>4, <1>5, <3>1, <3>2, EndsElsewhere
  <2>2. CASE i = id
    <3>1. Runs(w, id) /\ Adds(w, id) /\ worker[w].at = "defer"
      BY <1>1, <1>2, <1>3 DEF AddDeferred
    <3>2. /\ job[own] = "active" /\ job[<<id, 0>>] # "absent" /\ id \notin owed
          /\ status[id] \notin {"absent", "digest_pending"}
          /\ \A v \in Workers : Runs(v, id) => v = w
      BY <1>2, <2>2, <3>1, RunFacts
    <3>3. next = <<id, deferrals[id]>> /\ job[next] = "absent" /\ next # own
      BY <1>2, <2>2, <3>1, <3>2 DEF JInv, Followed, Lined
    <3>4. /\ worker' = [worker EXCEPT ![w] = Idle]
          /\ \A k \in Jobs : k # own => job'[k] = Added(next)[k] /\ made'[k] = made[k] /\ owner'[k] = owner[k]
          /\ owner'[own] = NoWorker /\ job'[own] = "completed"
      BY <1>1, <1>2, <1>3, <1>4, <1>5, <2>2, EndFacts
    <3>5. /\ worker'[w].job = Nothing /\ worker'[w].adds = Nothing
          /\ \A v \in Workers \ {w} : worker'[v] = worker[v]
      BY <3>4 DEF IInv, ShapeInv, Idle
    <3>6. \A v \in Workers : /\ ~Runs(v, id)'
                             /\ Adds(v, id)' => v # w /\ Adds(v, id)
      BY <3>2, <3>5 DEF Runs, Adds
    <3>7. /\ job'[next] = IF due[id] THEN "waiting" ELSE "delayed"
          /\ \A k \in Jobs : k[1] = id /\ k # next => ~Queued(k)' /\ (job'[k] # "absent" => job[k] # "absent")
      <4>1. \A k \in Jobs : k[1] = id /\ k # own => ~Queued(k)
        BY <1>3, <2>2, <3>2 DEF JInv, Followed, Lined, Queued
      <4> QED
        BY <1>4, <3>2, <3>3, <3>4, <4>1 DEF Queued
    <3>8. Locked(id)'
      <4> SUFFICES ASSUME NEW v \in Workers, NEW j \in Jobs, j[1] = id
                   PROVE  owner'[j] # v /\ worker'[v].job # j
        BY DEF Locked
      <4>1. worker'[v].job # j
        BY <3>6, JobFacts DEF Runs
      <4>2. owner[j] = v => worker[v].job = j
        BY <2>2 DEF JInv, Followed, Locked
      <4>3. owner[j] = v => j = own
        BY <1>2, <3>2, <4>2, JobFacts DEF Runs
      <4> QED
        BY <3>4, <4>1, <4>3, NotificationAssumption
    <3>9. Lined(id)'
      <4>1. \A j, k \in Jobs : j[1] = id /\ k[1] = id /\ Queued(j)' /\ Queued(k)' => j = k
        BY <3>7
      <4>2. \A j \in Jobs : j[1] = id /\ job'[j] # "absent" => j[2] <= deferrals[id] /\ job'[<<id, 0>>] # "absent"
        <5>1. deferrals[id] \in 0 .. MaxDeferrals
          BY DEF IInv, ShapeInv
        <5>2. \A j \in Jobs : j[1] = id /\ job'[j] # "absent" => j[2] <= deferrals[id]
          <6>1. next[2] <= deferrals[id]
            BY <3>3, <5>1
          <6> QED
            BY <2>2, <3>7, <6>1 DEF JInv, Followed, Lined
        <5>3. job'[<<id, 0>>] # "absent"
          <6>1. <<id, 0>> \in Jobs /\ <<id, 0>> # next
            BY <3>2, <3>3, JobFacts
          <6> QED
            BY <1>4, <3>2, <3>4, <6>1
        <5> QED
          BY <5>2, <5>3
      <4>3. ASSUME NEW v \in Workers, worker'[v].at = "defer", Adds(v, id)'
            PROVE  FALSE
        <5>1. v # w /\ worker[v].at = "defer" /\ Adds(v, id)
          BY <3>5, <3>6, <4>3
        <5>2. Runs(v, id)
          BY <5>1 DEF JInv, HandInv, Adds, Runs, Holding
        <5> QED
          BY <3>2, <5>1, <5>2
      <4> QED
        BY <1>5, <4>1, <4>2, <4>3 DEF Lined
    <3>10. Begins(id)'
      BY <1>5, <3>2 DEF Begins
    <3>11. Timely(id)'
      <4>1. \A j \in Jobs : j[1] = id /\ job'[j] \in {"waiting", "active"} => j = next
        BY <3>7 DEF Queued
      <4> QED
        BY <1>5, <3>7, <4>1 DEF Timely
    <3>12. Sends(id)'
      <4>1. status[id] # "sending"
        BY <2>2, <3>1, <3>2 DEF JInv, Followed, Sends, Sending
      <4> QED
        BY <1>5, <2>2, <3>6, <4>1 DEF JInv, Followed, Sends
    <3>13. Live(id)'
      BY <1>3, <3>7 DEF Live
    <3> QED
      BY <2>2, <3>8, <3>9, <3>10, <3>11, <3>12, <3>13 DEF Followed, Carried
  <2> QED
    BY <2>1, <2>2
<1> QED
  BY <1>5, <1>6, <1>7 DEF JInv

LEMMA ReserveFallbackFollowed ==
  ASSUME IInv, IInv', JInv, NEW w \in Workers, ReserveFallback(w)
  PROVE  JInv'
<1>1. /\ worker[w].job \in Jobs /\ Request(w) \in Ids /\ \A i : ~Adds(w, i)
      /\ \A i : Runs(w, i) <=> i = Request(w)
  BY StandFacts DEF ReserveFallback, Holding, Adding
<1>2. PICK id \in Ids, fid \in Ids : id = Request(w) /\ fid = Fallback(id)
  BY <1>1, IdFacts
<1>3. fid # id
  <2>1. id[2] = "chosen"
    BY <1>2 DEF ReserveFallback, IInv, HoldInv, Request
  <2> QED
    BY <1>2, <2>1, IdFacts
<1>4. UNCHANGED <<kind, deferrals, owed, late, broken>>
  BY DEF ReserveFallback, requestVars, histVars
<1>5. CASE status[fid] = "absent"
  <2>1. /\ status' = [status EXCEPT ![fid] = "queued"] /\ due' = [due EXCEPT ![fid] = TRUE]
        /\ worker' = [worker EXCEPT ![w].at = "fallback", ![w].adds = <<fid, 0>>]
        /\ UNCHANGED <<job, made, owner>>
    BY <1>2, <1>5 DEF ReserveFallback, Set, GoAdd, jobVars
  <2>2. /\ worker'[w].at = "fallback" /\ worker'[w].job = worker[w].job
        /\ worker'[w].tries = worker[w].tries /\ worker'[w].todo = worker[w].todo /\ worker'[w].adds = <<fid, 0>>
        /\ \A v \in Workers \ {w} : worker'[v] = worker[v]
    BY <2>1 DEF IInv, ShapeInv
  <2>3. /\ status'[fid] = "queued"
        /\ \A i \in Ids : i # fid => status'[i] = status[i] /\ due'[i] = due[i]
    BY <2>1 DEF IInv, ShapeInv, JInv, QueueShape
  <2>4. <<fid, 0>> \in Jobs /\ <<fid, 0>>[1] = fid /\ <<fid, 0>>[2] = 0 /\ <<fid, 0>> # Nothing
    BY JobFacts
  <2>5. QueueShape'
    BY <1>4, <2>1 DEF JInv, QueueShape
  <2>6. HandInv'
    <3>1. worker[w].job # Nothing /\ worker[w].job[1] = id
      BY <1>1, <1>2, JobFacts DEF Request
    <3> QED
      BY <1>2, <2>2, <2>4, <3>1 DEF JInv, HandInv, Holding, Adding
  <2>7. ASSUME NEW i \in Ids \ broken
        PROVE  Followed(i)'
    <3>1. CASE i = id
      <4>1. Runs(w, id) /\ ~Adds(w, id) /\ ~Adds(w, id)'
        BY <1>1, <1>2, <1>3, <2>2, <2>4 DEF Adds
      <4>2. Settled(id)
        BY <3>1, <4>1 DEF ReserveFallback, JInv, Followed, Sends
      <4>3. status'[id] = status[id] /\ due'[id] = due[id] /\ deferrals'[id] = deferrals[id]
        BY <1>3, <1>4, <2>3
      <4>4. Settled(id)' /\ status'[id] \notin {"absent", "digest_pending", "sending"}
        BY <4>2, <4>3 DEF Settled
      <4>5. worker'[w].at \in Holding /\ worker[w].at # "defer" /\ UNCHANGED jobVars
        BY <2>1, <2>2 DEF Holding, ReserveFallback, jobVars
      <4> QED
        BY <1>4, <2>2, <3>1, <4>1, <4>3, <4>4, <4>5, MovesOwn
    <3>2. CASE i = fid
      <4>1. \A v \in Workers : ~Runs(v, fid)
        BY <1>5, <3>2, RunFacts
      <4>2. /\ fid \notin owed /\ \A v \in Workers : ~Adds(v, fid)
            /\ \A j \in Jobs : j[1] = fid => job[j] = "absent"
        BY <1>5, <3>2 DEF JInv, Followed, Begins, Lined
      <4>3. \A v \in Workers : /\ worker'[v].job = worker[v].job /\ worker'[v].tries = worker[v].tries
                               /\ ~Runs(v, fid)'
                               /\ v # w => ~Adds(v, fid)'
        BY <2>2, <4>1, <4>2 DEF Runs, Adds
      <4>4. Locked(fid)'
        <5>1. Locked(fid)
          BY <3>2 DEF JInv, Followed
        <5>2. \A v \in Workers : worker'[v].job = worker[v].job /\ worker'[v].tries = worker[v].tries
          BY <4>3
        <5>3. job' = job /\ made' = made /\ owner' = owner
          BY <2>1
        <5> QED
          BY <5>1, <5>2, <5>3 DEF Locked
      <4>5. Lined(fid)' /\ Timely(fid)'
        BY <2>1, <2>2, <4>2, <4>3 DEF Lined, Timely, Queued
      <4>6. Begins(fid)'
        BY <1>4, <2>3, <4>2 DEF Begins
      <4>7. Sends(fid)'
        BY <1>4, <2>3, <3>2, <4>3 DEF JInv, Followed, Sends
      <4>8. Adds(w, fid)' /\ job'[worker'[w].adds] = "absent"
        BY <2>1, <2>2, <2>4, <4>2 DEF Adds
      <4> QED
        BY <3>2, <4>4, <4>5, <4>6, <4>7, <4>8 DEF Followed, Carried
    <3>3. CASE i # id /\ i # fid
      <4>1. Free(w, i) /\ Free(w, i)'
        BY <1>1, <1>2, <2>2, <2>4, <3>3 DEF Free, Runs, Adds
      <4>2. SameJobs(i)
        BY <2>1 DEF SameJobs
      <4>3. /\ status'[i] = status[i] /\ due'[i] = due[i] /\ deferrals'[i] = deferrals[i]
            /\ \A s \in RequestStatus : <<i, s>> \in late' => <<i, s>> \in late
            /\ i \in owed' <=> i \in owed
        BY <1>4, <2>3, <3>3
      <4> QED
        BY <1>4, <2>2, <4>1, <4>2, <4>3, Elsewhere
    <3> QED
      BY <3>1, <3>2, <3>3
  <2> QED
    BY <1>4, <2>5, <2>6, <2>7 DEF JInv
<1>6. CASE status[fid] # "absent"
  <2>1. JobThrew(w, job) /\ status' = status /\ due' = due /\ job \in [Jobs -> JobState]
    BY <1>2, <1>6 DEF ReserveFallback, JInv, QueueShape
  <2>2. QueueShape' /\ HandInv'
    BY <1>1, <1>4, <2>1, EndShape DEF JInv, QueueShape
  <2>3. ASSUME NEW i \in Ids \ broken
        PROVE  Followed(i)'
    <3>1. CASE Runs(w, i)
      <4>1. status'[i] \in {"delivered", "failed"}
        BY <2>1, <3>1 DEF ReserveFallback, JInv, Followed, Sends, Settled
      <4> QED
        BY <1>1, <1>4, <2>1, <3>1, <4>1, EndsOwn DEF ReserveFallback
    <3>2. CASE ~Runs(w, i)
      BY <1>1, <1>4, <2>1, <3>2, EndsElsewhere DEF Free
    <3> QED
      BY <3>1, <3>2
  <2> QED
    BY <1>4, <2>2, <2>3 DEF JInv
<1> QED
  BY <1>5, <1>6

LEMMA AddFallbackFollowed ==
  ASSUME IInv, IInv', JInv, NEW w \in Workers, AddFallback(w)
  PROVE  JInv'
<1>1. /\ worker[w].job \in Jobs /\ Request(w) \in Ids
      /\ \A i : Runs(w, i) <=> i = Request(w)
      /\ worker[w].adds \in Jobs /\ worker[w].adds[1] \in Ids
      /\ \A i : Adds(w, i) <=> i = worker[w].adds[1]
  BY StandFacts DEF AddFallback, Holding, Adding
<1>2. PICK id \in Ids, fid \in Ids : id = Request(w) /\ fid = worker[w].adds[1]
  BY <1>1
<1>3. fid # id
  <2>1. id[2] = "chosen" /\ fid = Fallback(id)
    BY <1>2 DEF AddFallback, IInv, HoldInv, JInv, HandInv, Request
  <2> QED
    BY <2>1, IdFacts
<1>4. worker[w].adds = <<fid, 0>> /\ <<fid, 0>> \in Jobs
  <2>1. worker[w].adds[2] = 0
    BY DEF AddFallback, JInv, HandInv
  <2> QED
    BY <1>1, <1>2, <2>1, JobFacts
<1>5. /\ Added(<<fid, 0>>) \in [Jobs -> JobState]
      /\ \A k \in Jobs : k # <<fid, 0>> => Added(<<fid, 0>>)[k] = job[k]
  BY <1>4, AddedFacts
<1>6. JobThrew(w, Added(<<fid, 0>>)) /\ UNCHANGED <<kind, deferrals, owed, status, due, late, broken>>
  BY <1>4 DEF AddFallback, requestVars, histVars
<1>7. QueueShape' /\ HandInv'
  BY <1>1, <1>5, <1>6, EndShape DEF JInv, QueueShape
<1>8. ASSUME NEW i \in Ids \ broken
      PROVE  Followed(i)'
  <2>1. i # fid => \A j \in Jobs : j[1] = i => Added(<<fid, 0>>)[j] = job[j]
    BY <1>5, JobFacts
  <2>2. CASE i = id
    <3>1. Runs(w, i) /\ ~Adds(w, i)
      BY <1>1, <1>2, <1>3, <2>2
    <3>2. status'[i] \in {"delivered", "failed"}
      BY <1>6, <3>1 DEF AddFallback, JInv, Followed, Sends, Settled
    <3> QED
      BY <1>3, <1>5, <1>6, <2>1, <2>2, <3>1, <3>2, EndsOwn DEF AddFallback
  <2>3. CASE i = fid
    <3>1. Adds(w, fid) /\ ~Runs(w, fid)
      BY <1>1, <1>2, <1>3
    <3>2. fid \notin owed /\ status[fid] \notin {"absent", "digest_pending"}
      BY <2>3, <3>1 DEF JInv, Followed, Begins
    <3>3. /\ worker' = [worker EXCEPT ![w] = Idle]
          /\ \A k \in Jobs : k # worker[w].job =>
               job'[k] = Added(<<fid, 0>>)[k] /\ made'[k] = made[k] /\ owner'[k] = owner[k]
      BY <1>1, <1>5, <1>6, EndFacts
    <3>4. /\ worker'[w].job = Nothing /\ worker'[w].adds = Nothing
          /\ \A v \in Workers \ {w} : worker'[v] = worker[v]
      BY <3>3 DEF IInv, ShapeInv, Idle
    <3>5. \A k \in Jobs : k[1] = fid => k # worker[w].job
      BY <1>1, <3>1, JobFacts DEF Runs
    <3>6. Free(w, fid)'
      BY <3>4 DEF Free, Runs, Adds
    <3>7. <<fid, 0>>[1] = fid
      BY JobFacts
    <3>8. /\ job'[<<fid, 0>>] = Added(<<fid, 0>>)[<<fid, 0>>]
          /\ \A j \in Jobs : j[1] = fid => /\ j # <<fid, 0>> => job'[j] = job[j]
                                           /\ made'[j] = made[j] /\ owner'[j] = owner[j]
      BY <1>4, <1>5, <3>3, <3>5, <3>7
    <3>9. worker[w].at # "defer"
      BY DEF AddFallback
    <3> QED
      BY <1>4, <1>6, <2>3, <3>1, <3>2, <3>4, <3>6, <3>8, <3>9, OwnAdded
  <2>4. CASE i # id /\ i # fid
    <3>1. Free(w, i)
      BY <1>1, <1>2, <2>4 DEF Free
    <3> QED
      BY <1>1, <1>5, <1>6, <2>1, <2>4, <3>1, EndsElsewhere
  <2> QED
    BY <2>2, <2>3, <2>4
<1> QED
  BY <1>6, <1>7, <1>8 DEF JInv

(* A worker that dies, or whose tick breaks off. *)
LEMMA BreaksOffFollowed ==
  ASSUME IInv, IInv', JInv, NEW w \in Workers, Crash(w) \/ TickThrows(w)
  PROVE  JInv'
<1>1. /\ UNCHANGED <<kind, deferrals, owed, status, due, late>>
      /\ worker' = [worker EXCEPT ![w] = Idle] /\ broken' = broken \union InHand(w)
  BY DEF Crash, TickThrows, Leave, Break, requestVars
<1>2. HandInv'
  BY <1>1, FreedShape
<1>3. broken' \subseteq Ids /\ \A id \in Ids \ broken' : id \notin broken /\ Free(w, id)
  <2>1. \A id : Free(w, id) <=> id \notin InHand(w)
    BY DEF Free, Runs, Adds, InHand
  <2>2. InHand(w) \subseteq Ids
    BY JobFacts DEF InHand, IInv, ShapeInv
  <2> QED
    BY <1>1, <2>1, <2>2 DEF JInv, QueueShape
<1>4. QueueShape' /\ \A id \in Ids \ broken' : SameJobs(id)
  <2>1. CASE Crash(w)
    <3>1. CASE UNCHANGED jobVars
      BY <1>1, <1>3, <3>1 DEF JInv, QueueShape, jobVars, SameJobs
    <3>2. ASSUME NEW j \in Jobs, owner[j] = w, LoseLock(j)
          PROVE  QueueShape' /\ \A id \in Ids \ broken' : SameJobs(id)
      <4>1. QueueShape'
        BY <1>1, <1>3, <3>2 DEF LoseLock, JInv, QueueShape, JobState
      <4>2. ASSUME NEW id \in Ids \ broken'
            PROVE  SameJobs(id)
        <5>1. id \notin broken /\ ~Runs(w, id)
          BY <1>3 DEF Free
        <5>2. j[1] # id
          BY <3>2, <5>1, JobFacts DEF JInv, Followed, Locked, Runs
        <5> QED
          BY <3>2, <5>2 DEF LoseLock, SameJobs, JInv, QueueShape
      <4> QED
        BY <4>1, <4>2
    <3> QED
      BY <2>1, <3>1, <3>2 DEF Crash
  <2>2. CASE TickThrows(w)
    <3>1. CASE job' = job
      BY <1>1, <1>3, <2>2, <3>1 DEF TickThrows, JInv, QueueShape, SameJobs
    <3>2. CASE worker[w].at = "digest" /\ job' = Added(worker[w].adds)
      <4>1. worker[w].adds \in Jobs /\ Adds(w, worker[w].adds[1])
        BY <3>2, StandFacts DEF Adding
      <4>2. job' \in [Jobs -> JobState] /\ \A k \in Jobs : k # worker[w].adds => job'[k] = job[k]
        BY <3>2, <4>1, AddedFacts
      <4>3. made' = made /\ owner' = owner
        BY <2>2 DEF TickThrows
      <4> QED
        BY <1>1, <1>3, <4>1, <4>2, <4>3 DEF JInv, QueueShape, SameJobs, Free
    <3> QED
      BY <2>2, <3>1, <3>2 DEF TickThrows
  <2> QED
    BY <2>1, <2>2
<1>5. ASSUME NEW id \in Ids \ broken'
      PROVE  Followed(id)'
  <2>1. /\ worker'[w].job = Nothing /\ worker'[w].adds = Nothing /\ worker'[w].todo = {}
        /\ \A v \in Workers \ {w} : worker'[v] = worker[v]
    BY <1>1 DEF IInv, ShapeInv, Idle
  <2>2. Free(w, id)'
    BY <2>1 DEF Free, Runs, Adds
  <2> QED
    BY <1>1, <1>3, <1>4, <2>1, <2>2, Elsewhere
<1> QED
  BY <1>2, <1>4, <1>5 DEF JInv

LEMMA TakeJobFollowed ==
  ASSUME IInv, IInv', JInv, NEW w \in Workers, NEW j \in Jobs, TakeJob(w, j)
  PROVE  JInv'
<1>1. /\ ~(\E i : Runs(w, i) \/ Adds(w, i)) /\ worker[w].job = Nothing
      /\ job[j] = "waiting" /\ job \in [Jobs -> JobState] /\ owner \in [Jobs -> Workers \union {NoWorker}]
  BY StandFacts DEF TakeJob, Holding, Adding, JInv, HandInv, QueueShape
<1>2. /\ UNCHANGED <<kind, deferrals, owed, status, due, made, late, broken>>
      /\ job' = [job EXCEPT ![j] = "active"] /\ owner' = [owner EXCEPT ![j] = w]
  BY DEF TakeJob, requestVars, histVars
<1>3. /\ worker'[w].at = "taken" /\ worker'[w].job = j /\ worker'[w].tries = made[j]
      /\ worker'[w].adds = Nothing /\ worker'[w].todo = {}
      /\ \A v \in Workers \ {w} : worker'[v] = worker[v]
  BY DEF TakeJob, Idle, IInv, ShapeInv
<1>4. PICK id \in Ids : id = j[1]
  BY JobFacts
<1>5. QueueShape'
  BY <1>2 DEF JInv, QueueShape, JobState
<1>6. HandInv'
  <2>1. j # Nothing
    BY JobFacts
  <2> QED
    BY <1>3, <2>1 DEF JInv, HandInv, Holding, Adding
<1>7. ASSUME NEW i \in Ids \ broken
      PROVE  Followed(i)'
  <2>1. CASE i # id
    <3>1. Free(w, i) /\ Free(w, i)'
      BY <1>1, <1>3, <1>4, <2>1 DEF Free, Runs, Adds
    <3>2. SameJobs(i)
      BY <1>1, <1>2, <1>4, <2>1 DEF SameJobs
    <3> QED
      BY <1>2, <1>3, <3>1, <3>2, Elsewhere
  <2>2. CASE i = id
    <3>1. /\ \A k \in Jobs : k # j => job'[k] = job[k] /\ owner'[k] = owner[k]
          /\ job'[j] = "active" /\ owner'[j] = w
      BY <1>1, <1>2
    <3>2. \A v \in Workers : ~Runs(v, id)
      <4> SUFFICES ASSUME NEW v \in Workers, Runs(v, id) PROVE FALSE
        OBVIOUS
      <4>1. worker[v].job \in Jobs /\ worker[v].job[1] = id /\ job[worker[v].job] = "active"
        BY <2>2, RunFacts
      <4> QED
        BY <1>1, <1>4, <2>2, <4>1 DEF JInv, Followed, Lined, Queued
    <3>3. Locked(id)'
      <4> SUFFICES ASSUME NEW v \in Workers, NEW k \in Jobs, k[1] = id
                   PROVE  /\ owner'[k] = v <=> worker'[v].job = k
                          /\ worker'[v].job = k => job'[k] = "active" /\ worker'[v].tries = made'[k]
        BY DEF Locked
      <4>1. owner[k] # v /\ worker[v].job # k
        <5>1. worker[v].job # k
          BY <3>2, JobFacts DEF Runs
        <5> QED
          BY <2>2, <5>1 DEF JInv, Followed, Locked
      <4> QED
        BY <1>1, <1>2, <1>3, <3>1, <4>1
    <3>4. Lined(id)'
      <4>1. \A k \in Jobs : /\ Queued(k)' => Queued(k)
                            /\ job'[k] # "absent" <=> job[k] # "absent"
        BY <1>1, <3>1 DEF Queued
      <4>2. \A v \in Workers : worker'[v].at = "defer" /\ Adds(v, id)' =>
                                 worker[v].at = "defer" /\ Adds(v, id) /\ worker'[v] = worker[v]
        BY <1>3 DEF Adds
      <4>3. \A v \in Workers : Adds(v, id) => worker[v].adds \in Jobs
        BY DEF Adds, IInv, ShapeInv
      <4>4. <<id, 0>> \in Jobs
        BY JobFacts
      <4>5. Lined(id)
        BY <2>2 DEF JInv, Followed
      <4>6. \A a, b \in Jobs : a[1] = id /\ b[1] = id /\ Queued(a)' /\ Queued(b)' => a = b
        BY <4>1, <4>5 DEF Lined
      <4>7. \A a \in Jobs : a[1] = id /\ job'[a] # "absent" => a[2] <= deferrals'[id] /\ job'[<<id, 0>>] # "absent"
        BY <1>2, <4>1, <4>4, <4>5 DEF Lined
      <4>8. \A v \in Workers : worker'[v].at = "defer" /\ Adds(v, id)' =>
              worker'[v].adds = <<id, deferrals'[id]>> /\ job'[worker'[v].adds] = "absent"
        BY <1>2, <4>1, <4>2, <4>3, <4>5 DEF Lined
      <4> QED
        BY <4>6, <4>7, <4>8 DEF Lined
    <3>5. Begins(id)'
      <4>1. status[id] \notin {"absent", "digest_pending"} /\ id \notin owed
        BY <1>1, <1>4, <2>2 DEF JInv, Followed, Begins, Lined
      <4> QED
        BY <1>2, <4>1 DEF Begins
    <3>6. Timely(id)'
      <4>1. \A k \in Jobs : k[1] = id /\ job'[k] \in {"waiting", "active"} => job[k] \in {"waiting", "active"}
        BY <1>1, <3>1
      <4>2. \A v \in Workers, k \in Jobs : k[1] = id => worker[v].job # k
        BY <3>2, JobFacts DEF Runs
      <4> QED
        BY <1>2, <2>2, <4>1, <4>2 DEF JInv, Followed, Timely
    <3>7. Sends(id)'
      <4>1. status[id] # "sending"
        BY <2>2, <3>2 DEF JInv, Followed, Sends
      <4>2. \A v \in Workers : Runs(v, id)' => worker'[v].at = "taken"
        BY <1>3, <3>2 DEF Runs
      <4> QED
        BY <1>2, <2>2, <4>1, <4>2 DEF JInv, Followed, Sends
    <3>8. Live(id)'
      BY <1>4, <3>1 DEF Live
    <3> QED
      BY <2>2, <3>3, <3>4, <3>5, <3>6, <3>7, <3>8 DEF Followed, Carried
  <2> QED
    BY <2>1, <2>2
<1> QED
  BY <1>2, <1>5, <1>6, <1>7 DEF JInv

(* The tick reads a list of requests that are reserved and that nobody owes a job. *)
LEMMA TickFollowed ==
  ASSUME IInv, IInv', JInv, NEW w \in Workers, Tick(w)
  PROVE  JInv'
<1>1. /\ \A i : Free(w, i)
      /\ worker'[w].at = "releasing" /\ worker'[w].job = Nothing /\ worker'[w].adds = Nothing
      /\ worker'[w].todo = DueDigests
      /\ \A v \in Workers \ {w} : worker'[v] = worker[v]
  BY StandFacts DEF Tick, Idle, IInv, ShapeInv, Free, Holding, Adding
<1>2. UNCHANGED <<kind, deferrals, owed, status, due, job, made, owner, late, broken>>
  BY DEF Tick, requestVars, histVars, jobVars
<1>3. QueueShape' /\ HandInv'
  BY <1>1, <1>2 DEF JInv, QueueShape, HandInv, Holding, Adding
<1>4. ASSUME NEW i \in Ids \ broken
      PROVE  Followed(i)'
  <2>1. Free(w, i)'
    BY <1>1 DEF Free, Runs, Adds
  <2>2. i \in worker'[w].todo => status[i] # "absent" /\ i \notin owed
    BY <1>1 DEF DueDigests, JInv, Followed, Begins
  <2>3. Untouched(i)
    BY <1>1, <1>2, <2>1, <2>2 DEF Untouched, SameFor, SameJobs
  <2> QED
    BY <2>3, UntouchedFollowed DEF JInv
<1> QED
  BY <1>2, <1>3, <1>4 DEF JInv

LEMMA AddDigestFollowed ==
  ASSUME IInv, IInv', JInv, NEW w \in Workers, AddDigest(w)
  PROVE  JInv'
<1>1. /\ worker[w].adds \in Jobs /\ worker[w].adds[1] \in Ids /\ worker[w].adds[2] = 0
      /\ \A i : Adds(w, i) <=> i = worker[w].adds[1]
      /\ \A i : ~Runs(w, i)
  BY StandFacts DEF AddDigest, Adding, Holding, JInv, HandInv
<1>2. PICK id \in Ids : id = worker[w].adds[1]
  BY <1>1
<1>3. worker[w].adds = <<id, 0>> /\ <<id, 0>> \in Jobs /\ <<id, 0>>[1] = id
  BY <1>1, <1>2, JobFacts
<1>4. /\ job' = Added(<<id, 0>>)
      /\ UNCHANGED <<kind, deferrals, owed, status, due, made, owner, late, broken>>
  BY <1>3 DEF AddDigest, requestVars, histVars
<1>5. /\ job' \in [Jobs -> JobState]
      /\ \A k \in Jobs : k # <<id, 0>> => job'[k] = job[k]
  BY <1>3, <1>4, AddedFacts
<1>6. /\ worker'[w].at \in {"idle", "releasing"} /\ worker'[w].job = Nothing /\ worker'[w].adds = Nothing
      /\ worker'[w].todo \subseteq worker[w].todo
      /\ \A v \in Workers \ {w} : worker'[v] = worker[v]
  <2>1. worker[w].job = Nothing
    BY DEF AddDigest, JInv, HandInv, Holding
  <2>2. CASE Leave(w)
    BY <2>2 DEF Leave, Idle, IInv, ShapeInv
  <2>3. CASE GoAdd(w, "releasing", Nothing)
    BY <2>1, <2>3 DEF GoAdd, IInv, ShapeInv
  <2> QED
    BY <2>2, <2>3 DEF AddDigest
<1>7. QueueShape' /\ HandInv'
  BY <1>4, <1>5, <1>6 DEF JInv, QueueShape, HandInv, Holding, Adding
<1>8. ASSUME NEW i \in Ids \ broken
      PROVE  Followed(i)'
  <2>1. Free(w, i)'
    BY <1>6 DEF Free, Runs, Adds
  <2>2. CASE i # id
    <3>1. SameJobs(i)
      BY <1>3, <1>4, <1>5, <2>2 DEF SameJobs
    <3>2. Free(w, i)
      BY <1>1, <1>2, <2>2 DEF Free
    <3> QED
      BY <1>4, <1>6, <2>1, <3>1, <3>2, Elsewhere
  <2>3. CASE i = id
    <3>1. id \notin owed /\ status[id] \notin {"absent", "digest_pending"}
      BY <1>1, <1>2, <2>3 DEF JInv, Followed, Begins
    <3>2. /\ job'[<<id, 0>>] = Added(<<id, 0>>)[<<id, 0>>]
          /\ \A j \in Jobs : j[1] = id => /\ j # <<id, 0>> => job'[j] = job[j]
                                          /\ made'[j] = made[j] /\ owner'[j] = owner[j]
      BY <1>4, <1>5
    <3>3. worker[w].at # "defer"
      BY DEF AddDigest
    <3> QED
      BY <1>1, <1>3, <1>4, <1>6, <2>1, <2>3, <3>1, <3>2, <3>3, OwnAdded
  <2> QED
    BY <2>2, <2>3
<1> QED
  BY <1>4, <1>7, <1>8 DEF JInv

LEMMA ReleaseDigestFollowed ==
  ASSUME IInv, IInv', JInv, NEW w \in Workers, NEW id \in Ids, ReleaseDigest(w, id)
  PROVE  JInv'
<1>1. /\ \A i : Free(w, i)
      /\ worker[w].job = Nothing
  BY StandFacts DEF ReleaseDigest, Free, Holding, Adding, JInv, HandInv
<1>2. /\ worker'[w].at = "digest" /\ worker'[w].job = Nothing /\ worker'[w].adds = <<id, 0>>
      /\ worker'[w].todo = worker[w].todo \ {id}
      /\ \A v \in Workers \ {w} : worker'[v] = worker[v]
  BY <1>1 DEF ReleaseDigest, IInv, ShapeInv
<1>3. UNCHANGED <<kind, deferrals, owed, due, job, made, owner, late, broken>>
  BY DEF ReleaseDigest, requestVars, histVars, jobVars
<1>4. /\ status'[id] = IF status[id] = "digest_pending" THEN "queued" ELSE status[id]
      /\ \A i \in Ids : i # id => status'[i] = status[i]
  BY DEF ReleaseDigest, Released, IInv, ShapeInv
<1>5. <<id, 0>> \in Jobs /\ <<id, 0>>[1] = id /\ <<id, 0>>[2] = 0 /\ <<id, 0>> # Nothing
  BY JobFacts, NotificationAssumption
<1>6. QueueShape' /\ HandInv'
  BY <1>2, <1>3, <1>5 DEF JInv, QueueShape, HandInv, Holding, Adding
<1>7. ASSUME NEW i \in Ids \ broken
      PROVE  Followed(i)'
  <2>1. CASE i # id
    <3>1. SameJobs(i)
      BY <1>3 DEF SameJobs
    <3>2. Free(w, i)'
      BY <1>2, <1>5, <2>1 DEF Free, Runs, Adds
    <3> QED
      BY <1>1, <1>2, <1>3, <1>4, <2>1, <3>1, <3>2, Elsewhere
  <2>2. CASE i = id
    <3>1. status[id] # "absent" /\ id \notin owed
      BY <2>2 DEF ReleaseDigest, JInv, Followed, Begins
    <3>2. status'[id] \notin {"absent", "digest_pending"}
      BY <1>4, <3>1
    <3>3. \A v \in Workers : /\ worker'[v].job = worker[v].job
                             /\ Runs(v, id)' <=> Runs(v, id)
                             /\ Runs(v, id) => v # w
                             /\ Adds(v, id) => v # w /\ Adds(v, id)'
                             /\ v # w => worker'[v] = worker[v]
      BY <1>1, <1>2 DEF Runs, Adds, Free
    <3>4. Followed(id)
      BY <2>2 DEF JInv
    <3>5. Locked(id)'
      <4>1. \A v \in Workers, j \in Jobs : j[1] = id /\ worker[v].job = j => v # w
        BY <3>3, JobFacts DEF Runs
      <4> QED
        BY <1>3, <3>3, <3>4, <4>1 DEF Followed, Locked
    <3>6. Lined(id)'
      <4>1. \A v \in Workers : worker'[v].at = "defer" /\ Adds(v, id)' =>
                                 worker[v].at = "defer" /\ Adds(v, id) /\ worker'[v] = worker[v]
        BY <1>2 DEF Adds
      <4>2. \A j, k \in Jobs : j[1] = id /\ k[1] = id /\ Queued(j)' /\ Queued(k)' => j = k
        BY <1>3, <3>4 DEF Followed, Lined, Queued
      <4>3. \A j \in Jobs : j[1] = id /\ job'[j] # "absent" => j[2] <= deferrals'[id] /\ job'[<<id, 0>>] # "absent"
        BY <1>3, <3>4 DEF Followed, Lined
      <4>4. \A v \in Workers : worker'[v].at = "defer" /\ Adds(v, id)' =>
              worker'[v].adds = <<id, deferrals'[id]>> /\ job'[worker'[v].adds] = "absent"
        BY <1>3, <3>4, <4>1 DEF Followed, Lined
      <4> QED
        BY <4>2, <4>3, <4>4 DEF Lined
    <3>7. Begins(id)'
      BY <1>3, <3>1, <3>2 DEF Begins
    <3>8. Timely(id)'
      <4>1. \A v \in Workers : worker[v].at = "defer" => v # w
        BY DEF ReleaseDigest
      <4> QED
        BY <1>3, <3>3, <3>4, <4>1 DEF Followed, Timely
    <3>9. Sends(id)'
      <4>1. /\ status'[id] = "sending" => status[id] = "sending"
            /\ status[id] \in {"delivered", "failed"} => status'[id] = status[id]
        BY <1>4
      <4> QED
        BY <1>3, <3>3, <3>4, <4>1 DEF Followed, Sends, Settled
    <3>10. Carried(id)'
      <4>1. CASE status[id] = "digest_pending"
        <5>1. job'[<<id, 0>>] = "absent" /\ Adds(w, id)'
          BY <1>2, <1>3, <1>5, <3>4, <4>1 DEF Followed, Begins, Adds
        <5> QED
          BY <1>2, <5>1 DEF Carried
      <4>2. CASE status[id] # "digest_pending"
        <5>1. status'[id] = status[id]
          BY <1>4, <4>2
        <5>2. Live(id)' <=> Live(id)
          BY <1>3 DEF Live
        <5>3. FailedOut(id)' <=> FailedOut(id)
          BY <1>3 DEF FailedOut, Attempts
        <5>4. \A v \in Workers : Adds(v, id) /\ job[worker[v].adds] = "absent"
                                   => Adds(v, id)' /\ job'[worker'[v].adds] = "absent"
          BY <1>3, <3>3
        <5> QED
          BY <1>3, <3>4, <5>1, <5>2, <5>3, <5>4 DEF Followed, Carried
      <4> QED
        BY <4>1, <4>2
    <3> QED
      BY <2>2, <3>5, <3>6, <3>7, <3>8, <3>9, <3>10 DEF Followed
  <2> QED
    BY <2>1, <2>2
<1> QED
  BY <1>3, <1>6, <1>7 DEF JInv

LEMMA ReserveFollowed ==
  ASSUME IInv, IInv', JInv, NEW r \in Requests, Reserve(r)
  PROVE  JInv'
<1>1. PICK id \in Ids : id = <<r, "chosen">>
  BY IdFacts
<1>2. /\ UNCHANGED <<kind, deferrals, job, made, owner, worker, late, broken>>
      /\ status[id] = "absent"
      /\ owed' \in {owed, owed \union {id}}
      /\ \A i \in Ids : i # id => status'[i] = status[i] /\ due'[i] = due[i]
      /\ due' \in [Ids -> BOOLEAN]
      /\ \/ status'[id] = "digest_pending" /\ owed' = owed
         \/ status'[id] \in {"queued", "deferred"} /\ id \in owed'
  <2>1. UNCHANGED <<kind, deferrals, job, made, owner, worker, late, broken>> /\ status[id] = "absent"
    BY <1>1 DEF Reserve, jobVars, histVars
  <2>2. CASE kind[r].digest
    <3>1. status' = [status EXCEPT ![id] = "digest_pending"] /\ due' = due /\ owed' = owed
      BY <1>1, <2>2 DEF Reserve
    <3> QED
      BY <2>1, <3>1 DEF IInv, ShapeInv, JInv, QueueShape
  <2>3. CASE ~kind[r].digest
    <3>1. PICK quiet \in BOOLEAN :
            /\ status' = [status EXCEPT ![id] = IF quiet THEN "deferred" ELSE "queued"]
            /\ due' = [due EXCEPT ![id] = ~quiet]
      BY <1>1, <2>3 DEF Reserve
    <3>2. owed' = owed \union {id}
      BY <1>1, <2>3 DEF Reserve
    <3> QED
      BY <2>1, <3>1, <3>2 DEF IInv, ShapeInv, JInv, QueueShape
  <2> QED
    BY <2>2, <2>3
<1>3. QueueShape' /\ HandInv'
  BY <1>2 DEF JInv, QueueShape, HandInv
<1>4. ASSUME NEW i \in Ids \ broken
      PROVE  Followed(i)'
  <2>1. CASE i # id
    <3>1. Untouched(i)
      BY <1>2, <2>1 DEF Untouched, SameFor, SameJobs
    <3> QED
      BY <3>1, UntouchedFollowed DEF JInv
  <2>2. CASE i = id
    <3>1. Followed(id)
      BY <2>2 DEF JInv
    <3>2. /\ job[<<id, 0>>] = "absent" /\ (\A w \in Workers : ~Adds(w, id)) /\ id \notin owed
          /\ \A w \in Workers : id \notin worker[w].todo
          /\ \A j \in Jobs : j[1] = id => job[j] = "absent"
      BY <1>2, <3>1 DEF Followed, Begins, Lined
    <3>3. \A w \in Workers : /\ Runs(w, id)' <=> Runs(w, id)
                             /\ ~Adds(w, id)'
      BY <1>2, <3>2 DEF Runs, Adds
    <3>4. Locked(id)' /\ Lined(id)'
      BY <1>2, <3>1, <3>2, <3>3 DEF Followed, Locked, Lined, Queued
    <3>5. Timely(id)' /\ Begins(id)'
      BY <1>2, <3>2, <3>3 DEF Timely, Begins
    <3>6. Sends(id)'
      <4>1. \A w \in Workers : ~Runs(w, id)
        BY <1>2, <2>2, RunFacts
      <4> QED
        BY <1>2, <3>1, <3>3, <4>1 DEF Followed, Sends
    <3>7. Carried(id)'
      BY <1>2 DEF Carried
    <3> QED
      BY <2>2, <3>4, <3>5, <3>6, <3>7 DEF Followed
  <2> QED
    BY <2>1, <2>2
<1> QED
  BY <1>2, <1>3, <1>4 DEF JInv

LEMMA EnqueueFollowed ==
  ASSUME IInv, IInv', JInv, NEW id \in Ids, Enqueue(id)
  PROVE  JInv'
<1>1. <<id, 0>> \in Jobs /\ <<id, 0>>[1] = id
  BY JobFacts
<1>2. /\ UNCHANGED <<kind, deferrals, status, due, made, owner, worker, late, broken>>
      /\ job' = Added(<<id, 0>>) /\ owed' = owed \ {id} /\ id \in owed
  BY DEF Enqueue, histVars
<1>3. /\ job' \in [Jobs -> JobState]
      /\ \A k \in Jobs : k # <<id, 0>> => job'[k] = job[k]
  BY <1>1, <1>2, AddedFacts
<1>4. QueueShape' /\ HandInv'
  BY <1>2, <1>3 DEF JInv, QueueShape, HandInv
<1>5. ASSUME NEW i \in Ids \ broken
      PROVE  Followed(i)'
  <2>1. CASE i # id
    <3>1. Untouched(i)
      BY <1>1, <1>2, <1>3, <2>1 DEF Untouched, SameFor, SameJobs
    <3> QED
      BY <3>1, UntouchedFollowed DEF JInv
  <2>2. CASE i = id
    <3>1. status[id] \notin {"absent", "digest_pending"} /\ id \notin owed'
      BY <1>2, <2>2 DEF JInv, Followed, Begins
    <3>2. /\ job'[<<id, 0>>] = Added(<<id, 0>>)[<<id, 0>>]
          /\ \A j \in Jobs : j[1] = id => /\ j # <<id, 0>> => job'[j] = job[j]
                                          /\ made'[j] = made[j] /\ owner'[j] = owner[j]
      BY <1>2, <1>3
    <3> QED
      BY <1>2, <2>2, <3>1, <3>2, OwnAdded
  <2> QED
    BY <2>1, <2>2
<1> QED
  BY <1>2, <1>4, <1>5 DEF JInv

LEMMA DeliverAtComesFollowed ==
  ASSUME IInv, IInv', JInv, NEW id \in Ids, DeliverAtComes(id)
  PROVE  JInv'
<1>1. /\ UNCHANGED <<kind, deferrals, status, owed, made, owner, worker, late, broken>>
      /\ due' = [due EXCEPT ![id] = TRUE]
      /\ job' = [j \in Jobs |-> IF j[1] = id /\ job[j] = "delayed" THEN "waiting" ELSE job[j]]
  BY DEF DeliverAtComes, requestVars, histVars
<1>2. QueueShape' /\ HandInv'
  <2>1. job' \in [Jobs -> JobState]
    BY <1>1 DEF JInv, QueueShape, JobState
  <2>2. due' \in [Ids -> BOOLEAN]
    BY <1>1 DEF JInv, QueueShape
  <2> QED
    BY <1>1, <2>1, <2>2 DEF JInv, QueueShape, HandInv
<1>3. ASSUME NEW i \in Ids \ broken
      PROVE  Followed(i)'
  <2>1. CASE i # id
    <3>1. Untouched(i)
      BY <1>1, <2>1 DEF Untouched, SameFor, SameJobs, JInv, QueueShape
    <3> QED
      BY <3>1, UntouchedFollowed DEF JInv
  <2>2. CASE i = id
    <3>1. Followed(id)
      BY <2>2 DEF JInv
    <3>2. \A j \in Jobs : /\ Queued(j)' <=> Queued(j)
                          /\ job'[j] # "absent" <=> job[j] # "absent"
                          /\ job'[j] = "active" <=> job[j] = "active"
                          /\ job[j] = "failed" => job'[j] = "failed"
      BY <1>1 DEF Queued
    <3>3. \A w \in Workers : /\ Runs(w, id)' <=> Runs(w, id)
                             /\ Adds(w, id)' <=> Adds(w, id)
                             /\ Adds(w, id) => worker[w].adds \in Jobs
      BY <1>1 DEF Runs, Adds, IInv, ShapeInv
    <3>4. <<id, 0>> \in Jobs
      BY JobFacts
    <3>5. Locked(id)'
      BY <1>1, <3>1, <3>2 DEF Followed, Locked
    <3>6. Lined(id)'
      <4>1. \A j, k \in Jobs : j[1] = id /\ k[1] = id /\ Queued(j)' /\ Queued(k)' => j = k
        BY <3>1, <3>2 DEF Followed, Lined
      <4>2. \A j \in Jobs : j[1] = id /\ job'[j] # "absent" => j[2] <= deferrals'[id] /\ job'[<<id, 0>>] # "absent"
        BY <1>1, <3>1, <3>2, <3>4 DEF Followed, Lined
      <4>3. \A v \in Workers : worker'[v].at = "defer" /\ Adds(v, id)' =>
              worker'[v].adds = <<id, deferrals'[id]>> /\ job'[worker'[v].adds] = "absent"
        BY <1>1, <3>1, <3>2, <3>3 DEF Followed, Lined
      <4> QED
        BY <4>1, <4>2, <4>3 DEF Lined
    <3>7. Begins(id)'
      BY <1>1, <3>1, <3>2, <3>3, <3>4 DEF Followed, Begins
    <3>8. Timely(id)'
      <4>1. due'[id]
        BY <1>1 DEF JInv, QueueShape
      <4> QED
        BY <4>1 DEF Timely
    <3>9. Sends(id)'
      BY <1>1, <3>1, <3>3 DEF Followed, Sends, Settled
    <3>10. Carried(id)'
      <4>1. Live(id) => Live(id)'
        BY <3>2 DEF Live, Queued
      <4>2. FailedOut(id) => FailedOut(id)'
        BY <1>1, <3>2 DEF FailedOut, Attempts
      <4>3. \A v \in Workers : Adds(v, id) /\ job[worker[v].adds] = "absent"
                                 => Adds(v, id)' /\ job'[worker'[v].adds] = "absent"
        BY <1>1, <3>2, <3>3
      <4> QED
        BY <1>1, <3>1, <4>1, <4>2, <4>3 DEF Followed, Carried
    <3> QED
      BY <2>2, <3>5, <3>6, <3>7, <3>8, <3>9, <3>10 DEF Followed
  <2> QED
    BY <2>1, <2>2
<1> QED
  BY <1>1, <1>2, <1>3 DEF JInv

(* A fault of the API or of the queue concerns one request. *)
LEMMA OutsideFaultFollowed ==
  ASSUME IInv, IInv', JInv,
         (\E id \in Ids : EnqueueLost(id)) \/ \E j \in Jobs : FalseStall(j)
  PROVE  JInv'
<1>1. PICK id \in Ids :
        /\ UNCHANGED <<kind, deferrals, status, due, worker, late>>
        /\ broken' = broken \union {id}
        /\ owed' \in {owed, owed \ {id}}
        /\ job' \in [Jobs -> JobState] /\ owner' \in [Jobs -> Workers \union {NoWorker}]
        /\ \A i \in Ids : i # id => SameJobs(i)
  <2>1. ASSUME NEW id \in Ids, EnqueueLost(id)
        PROVE  /\ UNCHANGED <<kind, deferrals, status, due, worker, late, job, made, owner>>
               /\ broken' = broken \union {id}
               /\ owed' = owed \ {id}
    BY <2>1 DEF EnqueueLost, jobVars, Break
  <2>2. ASSUME NEW j \in Jobs, FalseStall(j)
        PROVE  /\ UNCHANGED <<kind, deferrals, status, due, worker, late, owed>>
               /\ broken' = broken \union {j[1]} /\ j[1] \in Ids
               /\ job' \in [Jobs -> JobState] /\ owner' \in [Jobs -> Workers \union {NoWorker}]
               /\ \A i \in Ids : i # j[1] => SameJobs(i)
    <3>1. /\ UNCHANGED <<kind, deferrals, status, due, worker, late, owed, made>>
          /\ broken' = broken \union {j[1]}
          /\ owner' = [owner EXCEPT ![j] = NoWorker]
          /\ \E s \in {"waiting", "failed"} : job' = [job EXCEPT ![j] = s]
      BY <2>2 DEF FalseStall, LoseLock, requestVars, Break
    <3>2. job' \in [Jobs -> JobState] /\ owner' \in [Jobs -> Workers \union {NoWorker}]
      BY <3>1 DEF JInv, QueueShape, JobState
    <3>3. \A i \in Ids : i # j[1] => SameJobs(i)
      BY <3>1 DEF JInv, QueueShape, SameJobs
    <3> QED
      BY <3>1, <3>2, <3>3, JobFacts
  <2>3. CASE \E id \in Ids : EnqueueLost(id)
    BY <2>1, <2>3 DEF JInv, QueueShape, SameJobs
  <2>4. CASE \E j \in Jobs : FalseStall(j)
    BY <2>2, <2>4
  <2> QED
    BY <2>3, <2>4
<1>2. QueueShape' /\ HandInv'
  BY <1>1 DEF JInv, QueueShape, HandInv
<1>3. ASSUME NEW i \in Ids \ broken'
      PROVE  Followed(i)'
  <2>1. i # id /\ i \notin broken
    BY <1>1
  <2>2. Untouched(i)
    BY <1>1, <2>1 DEF Untouched, SameFor
  <2> QED
    BY <2>1, <2>2, UntouchedFollowed DEF JInv
<1> QED
  BY <1>2, <1>3 DEF JInv

LEMMA LateWriteFollowed ==
  ASSUME IInv, IInv', JInv, NEW id \in Ids, NEW new \in RequestStatus, LateWrite(id, new)
  PROVE  JInv'
<1>1. /\ UNCHANGED <<kind, deferrals, due, owed, job, made, owner, worker, broken>>
      /\ late' = late \ {<<id, new>>} /\ <<id, new>> \in late
      /\ status'[id] = new /\ \A i \in Ids : i # id => status'[i] = status[i]
  BY DEF LateWrite, Set, requestVars, jobVars, histVars, IInv, ShapeInv
<1>2. QueueShape' /\ HandInv'
  BY <1>1 DEF JInv, QueueShape, HandInv
<1>3. ASSUME NEW i \in Ids \ broken
      PROVE  Followed(i)'
  <2>1. CASE i # id
    <3>1. Untouched(i)
      BY <1>1, <2>1 DEF Untouched, SameFor, SameJobs
    <3> QED
      BY <3>1, UntouchedFollowed DEF JInv
  <2>2. CASE i = id
    <3>1. Followed(id)
      BY <2>2 DEF JInv
    <3>2. new = "delivered"
      BY <1>1, <3>1 DEF Followed, Sends
    <3>3. \A w \in Workers : /\ Runs(w, id)' <=> Runs(w, id)
                             /\ Adds(w, id)' <=> Adds(w, id)
      BY <1>1 DEF Runs, Adds
    <3>4. Locked(id)'
      BY <1>1, <3>1 DEF Followed, Locked
    <3>5. Lined(id)'
      BY <1>1, <3>1, <3>3 DEF Followed, Lined, Queued
    <3>6. Begins(id)'
      BY <1>1, <3>1, <3>2, <3>3 DEF Followed, Begins
    <3>7. Timely(id)'
      BY <1>1, <3>1 DEF Followed, Timely
    <3>8. Sends(id)' /\ Carried(id)'
      BY <1>1, <3>1, <3>2, <3>3 DEF Followed, Sends, Settled, Carried
    <3> QED
      BY <2>2, <3>4, <3>5, <3>6, <3>7, <3>8 DEF Followed
  <2> QED
    BY <2>1, <2>2
<1> QED
  BY <1>1, <1>2, <1>3 DEF JInv

LEMMA StepFollowed == IInv /\ IInv' /\ JInv /\ [Next]_vars => JInv'
<1> SUFFICES ASSUME IInv, IInv', JInv, [Next]_vars
             PROVE  JInv'
  OBVIOUS
<1>1. CASE \E r \in Requests : Reserve(r)
  BY <1>1, ReserveFollowed
<1>2. CASE \E id \in Ids : Enqueue(id) \/ DeliverAtComes(id)
  BY <1>2, EnqueueFollowed, DeliverAtComesFollowed
<1>3. CASE \E w \in Workers, j \in Jobs : TakeJob(w, j)
  BY <1>3, TakeJobFollowed
<1>4. CASE \E w \in Workers : Tick(w)
  BY <1>4, TickFollowed
<1>5. CASE \E w \in Workers : WorkerStep(w)
  <2> SUFFICES ASSUME NEW w \in Workers, WorkerStep(w) PROVE JInv'
    BY <1>5
  <2> QED
    BY DuplicateFollowed, MovingFollowed, LimitedFollowed, AddDeferredFollowed, RecordDeliveredFollowed,
       RecordFailedFollowed, ReserveFallbackFollowed, AddFallbackFollowed, AddDigestFollowed,
       ReleaseDigestFollowed DEF WorkerStep
<1>6. CASE \E l \in late : LateWrite(l[1], l[2])
  <2> PICK l \in late : LateWrite(l[1], l[2])
    BY <1>6
  <2>1. l[1] \in Ids /\ l[2] \in RequestStatus
    BY DEF IInv, ShapeInv, RequestStatus
  <2> QED
    BY <2>1, LateWriteFollowed
<1>7. CASE FaultStep
  <2> SUFFICES ASSUME \E w \in Workers : \/ Crash(w) \/ CallThrows(w) \/ TickThrows(w)
                                         \/ RecordDeliveredThrows(w) \/ RecordFailedThrows(w)
                                         \/ FallbackThrows(w)
               PROVE  JInv'
    BY <1>7, OutsideFaultFollowed DEF FaultStep
  <2> QED
    BY ThrowsFollowed, BreaksOffFollowed, MovingFollowed
<1>8. CASE UNCHANGED vars
  <2>1. /\ UNCHANGED <<kind, deferrals, status, due, owed, job, made, owner, worker, late, broken>>
    BY <1>8 DEF vars, requestVars, jobVars, histVars
  <2>2. \A id \in Ids : Untouched(id)
    BY <2>1 DEF Untouched, SameFor, SameJobs
  <2>3. QueueShape' /\ HandInv'
    BY <2>1 DEF JInv, QueueShape, HandInv
  <2> QED
    BY <2>1, <2>2, <2>3, UntouchedFollowed DEF JInv
<1> QED
  BY <1>1, <1>2, <1>3, <1>4, <1>5, <1>6, <1>7, <1>8 DEF Next

(* A request with no job left to settle it was hit by a fault or used up the five attempts of a job *)
(* that the orchestrator did not add: neither the digest tick that finds its work done, nor a rate  *)
(* limit, nor a lock kept to the end loses a job (notification-delivery.processor, process).        *)
THEOREM StrandedHasCause == Spec => []StrandedNeedsCause
<1>1. IInv /\ JInv => StrandedNeedsCause
  BY DEF JInv, Followed, Carried, StrandedNeedsCause, Adds
<1>2. Spec => []JInv
  <2>1. Spec => []IInv
    BY Invariance
  <2> QED
    BY <2>1, JInitial, StepFollowed, PTL DEF Spec
<1> QED
  BY Invariance, <1>1, <1>2, PTL
==============================================================================
