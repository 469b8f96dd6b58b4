------------------------ MODULE EventDeliveryProofs ------------------------
(***************************************************************************)
(* Proofs about EventDelivery, for any number of events, publishers and    *)
(* consumers and any attempt limits that satisfy DeliveryAssumption.       *)
(*                                                                         *)
(* IInv is inductive.  Its core is ownership: a "publishing" row belongs   *)
(* to one publisher, an inbox row to one consumer, and as long as nobody   *)
(* leaves a claim behind, that consumer also owns the job, so the failures *)
(* recorded never outnumber the attempts the job has made.  One lemma per  *)
(* action shows that it keeps IInv; the properties follow.                 *)
(***************************************************************************)
EXTENDS EventDelivery, TLAPS

(* What the queue does with a job whose processor threw keeps the types. *)
LEMMA JobThrewTypes ==
  ASSUME TypeOK, JobInv, NEW c \in Consumers, NEW e \in Events, JobThrew(c, e)
  PROVE  /\ job' \in [Events -> JobState]
         /\ made' \in [Events -> 0..JobAttempts]
         /\ stalls' \in [Events -> 0..MaxStalls]
         /\ owner' \in [Events -> Consumers \union {None}]
<1>1. CASE owner[e] = c
  <2>1. made[e] < JobAttempts
    BY <1>1, DeliveryAssumption DEF JobInv
  <2>2. made[e] + 1 \in 0..JobAttempts
    BY <2>1, DeliveryAssumption DEF TypeOK
  <2> QED
    BY <1>1, <2>2 DEF TypeOK, JobThrew, JobState
<1>2. CASE owner[e] # c
  BY <1>2 DEF TypeOK, JobThrew, jobVars
<1> QED
  BY <1>1, <1>2

(* Init gives IInv: nothing has happened to any event. *)
LEMMA InitInv == Init => IInv
  BY DeliveryAssumption DEF Init, IInv, TypeOK, PublisherInv, OwnClaim, ConsumerInv, JobInv, CommittedInv,
     UninterruptedInv, Accounted, Recorded, Handled, QueuedInv, PublishedMeansQueued, Handling,
     OutboxStatus, InboxStatus, JobState, PubStep, ConStep, NoticeState

(* Append: a fresh row has no job, no claim and no publisher. *)
LEMMA AppendKeeps ==
  ASSUME IInv, NEW e \in Events, Append(e)
  PROVE  IInv'
<1> USE DeliveryAssumption DEF IInv, Append, consumeSide, pubVars, jobVars, inboxVars, conVars,
      effectVars, leftVars, budgetVars
<1>1. TypeOK'
  BY DEF TypeOK, PublisherInv, OwnClaim, ConsumerInv, JobInv, OutboxStatus, InboxStatus, JobState, PubStep,
         ConStep, NoticeState
<1>2. PublisherInv'
  BY DEF TypeOK, PublisherInv, OwnClaim
<1>3. ConsumerInv' /\ JobInv'
  BY DEF TypeOK, ConsumerInv, JobInv, Handling
<1>4. UninterruptedInv'
  BY DEF TypeOK, ConsumerInv, JobInv, UninterruptedInv, Accounted, Recorded, Handled, Handling
<1>5. QueuedInv' /\ PublishedMeansQueued'
  BY DEF TypeOK, PublisherInv, OwnClaim, ConsumerInv, JobInv, UninterruptedInv, Accounted, Handled,
         QueuedInv, PublishedMeansQueued
<1>6. CommittedInv'
  BY DEF TypeOK, PublisherInv, OwnClaim, ConsumerInv, CommittedInv
<1> QED
  BY <1>1, <1>2, <1>3, <1>4, <1>5, <1>6

(* Replay: a row somebody works on is replayed only if it is processed and he has not heard so. *)
LEMMA ReplayKeeps ==
  ASSUME IInv, NEW e \in Events, Replay(e)
  PROVE  IInv'
<1> USE DeliveryAssumption DEF IInv, Replay, Overtakes, consumeSide, pubVars, jobVars, inboxVars, conVars,
      effectVars, leftVars
<1>1. TypeOK'
  BY DEF TypeOK, PublisherInv, OwnClaim, ConsumerInv, JobInv, OutboxStatus, InboxStatus, JobState, PubStep,
         ConStep, NoticeState
<1>2. PublisherInv'
  <2>1. \A p \in Publishers : pubStep[p] # "idle" /\ pubEvent[p] = e => overtaken'[e]
    <3> SUFFICES ASSUME NEW p \in Publishers, pubStep[p] # "idle", pubEvent[p] = e, ~overtaken[e]
                 PROVE  Overtakes(e)
      BY DEF TypeOK
    <3>1. outbox[e] = "processed" /\ pubStep[p] = "failing"
      BY DEF PublisherInv, OwnClaim
    <3> QED
      BY <3>1
  <2>2. \A x \in Events : x # e => outbox'[x] = outbox[x] /\ overtaken'[x] = overtaken[x]
    BY DEF TypeOK
  <2>3. outbox'[e] = "pending" /\ overtaken' \in [Events -> BOOLEAN] /\ (overtaken[e] => overtaken'[e])
    BY DEF TypeOK
  <2> QED
    BY <2>1, <2>2, <2>3 DEF TypeOK, PublisherInv, OwnClaim
<1>3. ConsumerInv' /\ JobInv'
  BY DEF TypeOK, ConsumerInv, JobInv, Handling
<1>4. UninterruptedInv'
  BY DEF TypeOK, ConsumerInv, JobInv, UninterruptedInv, Accounted, Recorded, Handled, Handling
<1>5. QueuedInv' /\ PublishedMeansQueued'
  BY DEF TypeOK, PublisherInv, OwnClaim, ConsumerInv, JobInv, UninterruptedInv, Accounted, Handled,
         QueuedInv, PublishedMeansQueued
<1>6. CommittedInv'
  BY DEF TypeOK, PublisherInv, OwnClaim, ConsumerInv, CommittedInv
<1> QED
  BY <1>1, <1>2, <1>3, <1>4, <1>5, <1>6

(* Stall: an uninterrupted event whose job has no live owner has no running consumer. *)
LEMMA StallKeeps ==
  ASSUME IInv, NEW e \in Events, Stall(e)
  PROVE  IInv'
<1> USE DeliveryAssumption DEF IInv, Stall, LoseLock, Alive, publishSide, outboxVars, pubVars,
      inboxVars, conVars, effectVars, leftVars, budgetVars
<1>1. TypeOK'
  BY DEF TypeOK, PublisherInv, OwnClaim, ConsumerInv, JobInv, OutboxStatus, InboxStatus, JobState, PubStep,
         ConStep, NoticeState
<1>2. PublisherInv'
  BY DEF TypeOK, PublisherInv, OwnClaim
<1>3. ConsumerInv' /\ JobInv'
  BY DEF TypeOK, ConsumerInv, JobInv, Handling
<1>4. UninterruptedInv'
  BY DEF TypeOK, ConsumerInv, JobInv, UninterruptedInv, Accounted, Recorded, Handled, Handling
<1>5. QueuedInv' /\ PublishedMeansQueued'
  BY DEF TypeOK, PublisherInv, OwnClaim, ConsumerInv, JobInv, UninterruptedInv, Accounted, Handled,
         QueuedInv, PublishedMeansQueued
<1>6. CommittedInv'
  BY DEF TypeOK, PublisherInv, OwnClaim, ConsumerInv, CommittedInv
<1> QED
  BY <1>1, <1>2, <1>3, <1>4, <1>5, <1>6

(* ReapJob: a completed job was handled. *)
LEMMA ReapJobKeeps ==
  ASSUME IInv, NEW e \in Events, ReapJob(e)
  PROVE  IInv'
<1> USE DeliveryAssumption DEF IInv, ReapJob, publishSide, consumeSide, outboxVars, pubVars,
      inboxVars, conVars, effectVars, leftVars, budgetVars
<1>1. TypeOK'
  BY DEF TypeOK, PublisherInv, OwnClaim, ConsumerInv, JobInv, OutboxStatus, InboxStatus, JobState, PubStep,
         ConStep, NoticeState
<1>2. PublisherInv'
  BY DEF TypeOK, PublisherInv, OwnClaim
<1>3. ConsumerInv' /\ JobInv'
  BY DEF TypeOK, ConsumerInv, JobInv, Handling
<1>4. UninterruptedInv'
  BY DEF TypeOK, ConsumerInv, JobInv, UninterruptedInv, Accounted, Recorded, Handled, Handling
<1>5. QueuedInv' /\ PublishedMeansQueued'
  BY DEF TypeOK, PublisherInv, OwnClaim, ConsumerInv, JobInv, UninterruptedInv, Accounted, Handled,
         QueuedInv, PublishedMeansQueued
<1>6. CommittedInv'
  BY DEF TypeOK, PublisherInv, OwnClaim, ConsumerInv, CommittedInv
<1> QED
  BY <1>1, <1>2, <1>3, <1>4, <1>5, <1>6

(* FalseStall: the event counts as interrupted from here on. *)
LEMMA FalseStallKeeps ==
  ASSUME IInv, NEW e \in Events, FalseStall(e)
  PROVE  IInv'
<1> USE DeliveryAssumption DEF IInv, FalseStall, LoseLock, Alive, Fault, publishSide, outboxVars,
      pubVars, inboxVars, conVars, effectVars, leftVars
<1>1. TypeOK'
  BY DEF TypeOK, PublisherInv, OwnClaim, ConsumerInv, JobInv, OutboxStatus, InboxStatus, JobState, PubStep,
         ConStep, NoticeState
<1>2. PublisherInv'
  BY DEF TypeOK, PublisherInv, OwnClaim
<1>3. ConsumerInv' /\ JobInv'
  BY DEF TypeOK, ConsumerInv, JobInv, Handling
<1>4. UninterruptedInv'
  BY DEF TypeOK, ConsumerInv, JobInv, UninterruptedInv, Accounted, Recorded, Handled, Handling
<1>5. QueuedInv' /\ PublishedMeansQueued'
  BY DEF TypeOK, PublisherInv, OwnClaim, ConsumerInv, JobInv, UninterruptedInv, Accounted, Handled,
         QueuedInv, PublishedMeansQueued
<1>6. CommittedInv'
  BY DEF TypeOK, PublisherInv, OwnClaim, ConsumerInv, CommittedInv
<1> QED
  BY <1>1, <1>2, <1>3, <1>4, <1>5, <1>6

(* Claim: the row claimed was not "publishing", so its publisher is the only one. *)
LEMMA ClaimKeeps ==
  ASSUME IInv, NEW p \in Publishers, NEW e \in Events, Claim(p, e)
  PROVE  IInv'
<1> USE DeliveryAssumption DEF IInv, Claim, Claimable, consumeSide, jobVars, inboxVars, conVars,
      effectVars, leftVars, budgetVars
<1>1. TypeOK'
  BY DEF TypeOK, PublisherInv, OwnClaim, ConsumerInv, JobInv, OutboxStatus, InboxStatus, JobState, PubStep,
         ConStep, NoticeState
<1>2. PublisherInv'
  BY DEF TypeOK, PublisherInv, OwnClaim
<1>3. ConsumerInv' /\ JobInv'
  BY DEF TypeOK, ConsumerInv, JobInv, Handling
<1>4. UninterruptedInv'
  BY DEF TypeOK, ConsumerInv, JobInv, UninterruptedInv, Accounted, Recorded, Handled, Handling
<1>5. QueuedInv' /\ PublishedMeansQueued'
  BY DEF TypeOK, PublisherInv, OwnClaim, ConsumerInv, JobInv, UninterruptedInv, Accounted, Handled,
         QueuedInv, PublishedMeansQueued
<1>6. CommittedInv'
  BY DEF TypeOK, PublisherInv, OwnClaim, ConsumerInv, CommittedInv
<1> QED
  BY <1>1, <1>2, <1>3, <1>4, <1>5, <1>6

(* TakeJob: the job was waiting, so nobody owned it. *)
LEMMA TakeJobKeeps ==
  ASSUME IInv, NEW c \in Consumers, NEW e \in Events, TakeJob(c, e)
  PROVE  IInv'
<1> USE DeliveryAssumption DEF IInv, TakeJob, publishSide, outboxVars, pubVars, inboxVars,
      effectVars, leftVars, budgetVars
<1>1. TypeOK'
  BY DEF TypeOK, PublisherInv, OwnClaim, ConsumerInv, JobInv, OutboxStatus, InboxStatus, JobState, PubStep,
         ConStep, NoticeState
<1>2. PublisherInv'
  BY DEF TypeOK, PublisherInv, OwnClaim
<1>3. ConsumerInv' /\ JobInv'
  BY DEF TypeOK, ConsumerInv, JobInv, Handling
<1>4. UninterruptedInv'
  BY DEF TypeOK, ConsumerInv, JobInv, UninterruptedInv, Accounted, Recorded, Handled, Handling
<1>5. QueuedInv' /\ PublishedMeansQueued'
  BY DEF TypeOK, PublisherInv, OwnClaim, ConsumerInv, JobInv, UninterruptedInv, Accounted, Handled,
         QueuedInv, PublishedMeansQueued
<1>6. CommittedInv'
  BY DEF TypeOK, PublisherInv, OwnClaim, ConsumerInv, CommittedInv
<1> QED
  BY <1>1, <1>2, <1>3, <1>4, <1>5, <1>6

(* QueueAdd: the job is in the queue when the publisher comes back. *)
LEMMA QueueAddKeeps ==
  ASSUME IInv, NEW p \in Publishers, QueueAdd(p)
  PROVE  IInv'
<1> USE DeliveryAssumption DEF IInv, QueueAdd, PublisherGoes, AddJob, consumeSide, outboxVars,
      jobVars, inboxVars, conVars, effectVars, leftVars, budgetVars
<1>1. TypeOK'
  BY DEF TypeOK, PublisherInv, OwnClaim, ConsumerInv, JobInv, OutboxStatus, InboxStatus, JobState, PubStep,
         ConStep, NoticeState
<1>2. PublisherInv'
  BY DEF TypeOK, PublisherInv, OwnClaim
<1>3. ConsumerInv' /\ JobInv'
  BY DEF TypeOK, ConsumerInv, JobInv, Handling
<1>4. UninterruptedInv'
  BY DEF TypeOK, ConsumerInv, JobInv, UninterruptedInv, Accounted, Recorded, Handled, Handling
<1>5. QueuedInv' /\ PublishedMeansQueued'
  BY DEF TypeOK, PublisherInv, OwnClaim, ConsumerInv, JobInv, UninterruptedInv, Accounted, Handled,
         QueuedInv, PublishedMeansQueued
<1>6. CommittedInv'
  BY DEF TypeOK, PublisherInv, OwnClaim, ConsumerInv, CommittedInv
<1> QED
  BY <1>1, <1>2, <1>3, <1>4, <1>5, <1>6

(* QueueAddThrows: whether or not the job was added, the row stays this publisher's. *)
LEMMA QueueAddThrowsKeeps ==
  ASSUME IInv, NEW p \in Publishers, QueueAddThrows(p)
  PROVE  IInv'
<1> USE DeliveryAssumption DEF IInv, QueueAddThrows, PublisherGoes, AddJob, consumeSide,
      outboxVars, jobVars, inboxVars, conVars, effectVars, leftVars, budgetVars
<1>1. TypeOK'
  BY DEF TypeOK, PublisherInv, OwnClaim, ConsumerInv, JobInv, OutboxStatus, InboxStatus, JobState, PubStep,
         ConStep, NoticeState
<1>2. PublisherInv'
  BY DEF TypeOK, PublisherInv, OwnClaim
<1>3. ConsumerInv' /\ JobInv'
  BY DEF TypeOK, ConsumerInv, JobInv, Handling
<1>4. UninterruptedInv'
  BY DEF TypeOK, ConsumerInv, JobInv, UninterruptedInv, Accounted, Recorded, Handled, Handling
<1>5. QueuedInv' /\ PublishedMeansQueued'
  BY DEF TypeOK, PublisherInv, OwnClaim, ConsumerInv, JobInv, UninterruptedInv, Accounted, Handled,
         QueuedInv, PublishedMeansQueued
<1>6. CommittedInv'
  BY DEF TypeOK, PublisherInv, OwnClaim, ConsumerInv, CommittedInv
<1> QED
  BY <1>1, <1>2, <1>3, <1>4, <1>5, <1>6

(* MarkProcessed: the publisher leaves the row with its job queued. *)
LEMMA MarkProcessedKeeps ==
  ASSUME IInv, NEW p \in Publishers, MarkProcessed(p)
  PROVE  IInv'
<1> USE DeliveryAssumption DEF IInv, MarkProcessed, PublisherGoes, consumeSide, jobVars,
      inboxVars, conVars, effectVars, leftVars, budgetVars
<1>1. TypeOK'
  BY DEF TypeOK, PublisherInv, OwnClaim, ConsumerInv, JobInv, OutboxStatus, InboxStatus, JobState, PubStep,
         ConStep, NoticeState
<1>2. PublisherInv'
  BY DEF TypeOK, PublisherInv, OwnClaim
<1>3. ConsumerInv' /\ JobInv'
  BY DEF TypeOK, ConsumerInv, JobInv, Handling
<1>4. UninterruptedInv'
  BY DEF TypeOK, ConsumerInv, JobInv, UninterruptedInv, Accounted, Recorded, Handled, Handling
<1>5. QueuedInv' /\ PublishedMeansQueued'
  BY DEF TypeOK, PublisherInv, OwnClaim, ConsumerInv, JobInv, UninterruptedInv, Accounted, Handled,
         QueuedInv, PublishedMeansQueued
<1>6. CommittedInv'
  BY DEF TypeOK, PublisherInv, OwnClaim, ConsumerInv, CommittedInv
<1> QED
  BY <1>1, <1>2, <1>3, <1>4, <1>5, <1>6

(* MarkProcessedThrows: the row is still this publisher's, "publishing" or "processed". *)
LEMMA MarkProcessedThrowsKeeps ==
  ASSUME IInv, NEW p \in Publishers, MarkProcessedThrows(p)
  PROVE  IInv'
<1> USE DeliveryAssumption DEF IInv, MarkProcessedThrows, PublisherGoes, consumeSide, outboxVars,
      jobVars, inboxVars, conVars, effectVars, leftVars, budgetVars
<1>1. TypeOK'
  BY DEF TypeOK, PublisherInv, OwnClaim, ConsumerInv, JobInv, OutboxStatus, InboxStatus, JobState, PubStep,
         ConStep, NoticeState
<1>2. PublisherInv'
  BY DEF TypeOK, PublisherInv, OwnClaim
<1>3. ConsumerInv' /\ JobInv'
  BY DEF TypeOK, ConsumerInv, JobInv, Handling
<1>4. UninterruptedInv'
  BY DEF TypeOK, ConsumerInv, JobInv, UninterruptedInv, Accounted, Recorded, Handled, Handling
<1>5. QueuedInv' /\ PublishedMeansQueued'
  BY DEF TypeOK, PublisherInv, OwnClaim, ConsumerInv, JobInv, UninterruptedInv, Accounted, Handled,
         QueuedInv, PublishedMeansQueued
<1>6. CommittedInv'
  BY DEF TypeOK, PublisherInv, OwnClaim, ConsumerInv, CommittedInv
<1> QED
  BY <1>1, <1>2, <1>3, <1>4, <1>5, <1>6

(* MarkFailed: the row is still the one this publisher claimed. *)
LEMMA MarkFailedKeeps ==
  ASSUME IInv, NEW p \in Publishers, MarkFailed(p)
  PROVE  IInv'
<1> USE DeliveryAssumption DEF IInv, MarkFailed, PublisherGoes, consumeSide, jobVars, inboxVars,
      conVars, effectVars, leftVars, budgetVars
<1>1. TypeOK'
  BY DEF TypeOK, PublisherInv, OwnClaim, ConsumerInv, JobInv, OutboxStatus, InboxStatus, JobState, PubStep,
         ConStep, NoticeState
<1>2. PublisherInv'
  BY DEF TypeOK, PublisherInv, OwnClaim
<1>3. ConsumerInv' /\ JobInv'
  BY DEF TypeOK, ConsumerInv, JobInv, Handling
<1>4. UninterruptedInv'
  BY DEF TypeOK, ConsumerInv, JobInv, UninterruptedInv, Accounted, Recorded, Handled, Handling
<1>5. QueuedInv' /\ PublishedMeansQueued'
  BY DEF TypeOK, PublisherInv, OwnClaim, ConsumerInv, JobInv, UninterruptedInv, Accounted, Handled,
         QueuedInv, PublishedMeansQueued
<1>6. CommittedInv'
  BY DEF TypeOK, PublisherInv, OwnClaim, ConsumerInv, CommittedInv
<1> QED
  BY <1>1, <1>2, <1>3, <1>4, <1>5, <1>6

(* PublisherAborts: the row stays "publishing" with no publisher, which IInv allows. *)
LEMMA PublisherAbortsKeeps ==
  ASSUME IInv, NEW p \in Publishers, PublisherAborts(p)
  PROVE  IInv'
<1> USE DeliveryAssumption DEF IInv, PublisherAborts, PublisherGoes, Fault, consumeSide,
      outboxVars, jobVars, inboxVars, conVars, effectVars, leftVars
<1>1. TypeOK'
  BY DEF TypeOK, PublisherInv, OwnClaim, ConsumerInv, JobInv, OutboxStatus, InboxStatus, JobState, PubStep,
         ConStep, NoticeState
<1>2. PublisherInv'
  BY DEF TypeOK, PublisherInv, OwnClaim
<1>3. ConsumerInv' /\ JobInv'
  BY DEF TypeOK, ConsumerInv, JobInv, Handling
<1>4. UninterruptedInv'
  BY DEF TypeOK, ConsumerInv, JobInv, UninterruptedInv, Accounted, Recorded, Handled, Handling
<1>5. QueuedInv' /\ PublishedMeansQueued'
  BY DEF TypeOK, PublisherInv, OwnClaim, ConsumerInv, JobInv, UninterruptedInv, Accounted, Handled,
         QueuedInv, PublishedMeansQueued
<1>6. CommittedInv'
  BY DEF TypeOK, PublisherInv, OwnClaim, ConsumerInv, CommittedInv
<1> QED
  BY <1>1, <1>2, <1>3, <1>4, <1>5, <1>6

(* ClaimInbox: the row was absent, so nobody else is inside the handler. *)
LEMMA ClaimInboxKeeps ==
  ASSUME IInv, NEW c \in Consumers, ClaimInbox(c)
  PROVE  IInv'
<1> USE DeliveryAssumption DEF IInv, ClaimInbox, ConsumerGoes, publishSide, outboxVars, pubVars,
      jobVars, effectVars, leftVars, budgetVars
<1>1. TypeOK'
  BY DEF TypeOK, PublisherInv, OwnClaim, ConsumerInv, JobInv, OutboxStatus, InboxStatus, JobState, PubStep,
         ConStep, NoticeState
<1>2. PublisherInv'
  BY DEF TypeOK, PublisherInv, OwnClaim
<1>3. ConsumerInv' /\ JobInv'
  BY DEF TypeOK, ConsumerInv, JobInv, Handling
<1>4. UninterruptedInv'
  BY DEF TypeOK, ConsumerInv, JobInv, UninterruptedInv, Accounted, Recorded, Handled, Handling
<1>5. QueuedInv' /\ PublishedMeansQueued'
  BY DEF TypeOK, PublisherInv, OwnClaim, ConsumerInv, JobInv, UninterruptedInv, Accounted, Handled,
         QueuedInv, PublishedMeansQueued
<1>6. CommittedInv'
  BY DEF TypeOK, PublisherInv, OwnClaim, ConsumerInv, CommittedInv
<1> QED
  BY <1>1, <1>2, <1>3, <1>4, <1>5, <1>6

(* Duplicate: had the event been uninterrupted and unhandled, this consumer itself would hold
   the row. *)
LEMMA DuplicateKeeps ==
  ASSUME IInv, NEW c \in Consumers, Duplicate(c)
  PROVE  IInv'
<1> USE DeliveryAssumption DEF IInv, Duplicate, ConsumerGoes, JobDone, publishSide, outboxVars,
      pubVars, jobVars, inboxVars, effectVars, leftVars, budgetVars
<1>1. TypeOK'
  <2>1. /\ job' \in [Events -> JobState] /\ owner' \in [Events -> Consumers \union {None}]
        /\ conStep' \in [Consumers -> ConStep] /\ conEvent' \in [Consumers -> Events \union {None}]
        /\ UNCHANGED <<made, stalls>>
    BY DEF TypeOK, JobState, ConStep
  <2>2. UNCHANGED <<outbox, attempts, pubStep, pubEvent, pubAttempt, inbox, failures, activity, notice,
                    replays, faults, interrupted, overtaken, late>>
    OBVIOUS
  <2> HIDE DEF Duplicate, ConsumerGoes, JobDone
  <2> QED
    BY <2>1, <2>2 DEF TypeOK
<1>2. PublisherInv'
  BY DEF TypeOK, PublisherInv, OwnClaim
<1>3. ConsumerInv' /\ JobInv'
  BY DEF TypeOK, ConsumerInv, JobInv, Handling
<1>4. UninterruptedInv'
  <2> SUFFICES ASSUME NEW f \in Events, ~interrupted[f] PROVE Accounted(f)'
    BY DEF UninterruptedInv
  <2>1. Accounted(f) /\ conEvent[c] \in Events
    BY DEF UninterruptedInv, ConsumerInv
  <2>2. CASE f = conEvent[c]
    <3>1. owner[f] = c
      BY <2>1, <2>2 DEF Accounted
    <3>2. inbox[f] = "processed"
      <4>1. \A d \in Consumers : conStep[d] \in Handling => conEvent[d] # f
        BY <2>1, <3>1 DEF Accounted, Handling
      <4> QED
        BY <2>1, <2>2, <4>1 DEF Accounted, Handled, TypeOK, InboxStatus
    <3>3. ~Handled(f)'
      BY <2>1, <2>2, <3>1 DEF Accounted, Handled, Handling, TypeOK
    <3>4. UNCHANGED <<inbox, failures, made>>
      OBVIOUS
    <3>5. /\ \A d \in Consumers : conStep'[d] # "idle" /\ conEvent'[d] = f => owner'[f] = d
          /\ job'[f] # "absent"
      BY <2>1, <2>2, <3>1 DEF Accounted, TypeOK
    <3> QED
      BY <3>2, <3>3, <3>4, <3>5 DEF Accounted
  <2>3. CASE f # conEvent[c]
    <3>1. UNCHANGED <<inbox[f], failures[f], made[f], job[f], owner[f]>>
      BY <2>1, <2>3 DEF TypeOK
    <3>2. \A d \in Consumers : conEvent'[d] = f <=> conEvent[d] = f
      BY <2>3, DeliveryAssumption DEF TypeOK
    <3>3. \A d \in Consumers : conEvent[d] = f => conStep'[d] = conStep[d]
      BY <2>3 DEF TypeOK
    <3> QED
      BY <2>1, <3>1, <3>2, <3>3 DEF Accounted, Recorded, Handled, Handling
  <2> QED
    BY <2>2, <2>3
<1>5. QueuedInv' /\ PublishedMeansQueued'
  BY DEF TypeOK, PublisherInv, OwnClaim, ConsumerInv, JobInv, UninterruptedInv, Accounted, Handled,
         QueuedInv, PublishedMeansQueued
<1>6. CommittedInv'
  BY DEF TypeOK, PublisherInv, OwnClaim, ConsumerInv, CommittedInv
<1> QED
  BY <1>1, <1>2, <1>3, <1>4, <1>5, <1>6

(* ClaimInboxThrows: an attempt is used up, no claim was taken. *)
LEMMA ClaimInboxThrowsKeeps ==
  ASSUME IInv, NEW c \in Consumers, ClaimInboxThrows(c)
  PROVE  IInv'
<1> USE DeliveryAssumption DEF IInv, ClaimInboxThrows, ConsumerGoes
<1>e. conEvent[c] \in Events
  BY DEF ConsumerInv
<1>j. /\ job' \in [Events -> JobState] /\ made' \in [Events -> 0..JobAttempts]
      /\ stalls' \in [Events -> 0..MaxStalls] /\ owner' \in [Events -> Consumers \union {None}]
  BY <1>e, JobThrewTypes
<1>f. conStep' \in [Consumers -> ConStep] /\ conEvent' \in [Consumers -> Events \union {None}]
  BY DEF TypeOK, ConStep
<1>1. TypeOK'
  BY <1>e, <1>j DEF TypeOK, InboxStatus, ConStep, publishSide, outboxVars, pubVars, inboxVars,
         effectVars, leftVars, budgetVars
<1> USE DEF JobThrew, publishSide, outboxVars, pubVars, jobVars, inboxVars, effectVars, leftVars, budgetVars
<1>2. PublisherInv'
  BY DEF TypeOK, PublisherInv, OwnClaim
<1>3. ConsumerInv' /\ JobInv'
  BY DEF TypeOK, ConsumerInv, JobInv, Handling
<1>4. UninterruptedInv'
  BY DEF TypeOK, ConsumerInv, JobInv, UninterruptedInv, Accounted, Recorded, Handled, Handling
<1>5. QueuedInv' /\ PublishedMeansQueued'
  BY DEF TypeOK, PublisherInv, OwnClaim, ConsumerInv, JobInv, UninterruptedInv, Accounted, Handled,
         QueuedInv, PublishedMeansQueued
<1>6. CommittedInv'
  BY DEF TypeOK, PublisherInv, OwnClaim, ConsumerInv, CommittedInv
<1> QED
  BY <1>1, <1>2, <1>3, <1>4, <1>5, <1>6

(* ClaimInboxUnheard: a claim nobody acts on; the event counts as interrupted from here on. *)
LEMMA ClaimInboxUnheardKeeps ==
  ASSUME IInv, NEW c \in Consumers, ClaimInboxUnheard(c)
  PROVE  IInv'
<1> USE DeliveryAssumption DEF IInv, ClaimInboxUnheard, ConsumerGoes, Fault
<1>e. conEvent[c] \in Events
  BY DEF ConsumerInv
<1>j. /\ job' \in [Events -> JobState] /\ made' \in [Events -> 0..JobAttempts]
      /\ stalls' \in [Events -> 0..MaxStalls] /\ owner' \in [Events -> Consumers \union {None}]
  BY <1>e, JobThrewTypes
<1>f. conStep' \in [Consumers -> ConStep] /\ conEvent' \in [Consumers -> Events \union {None}]
  BY DEF TypeOK, ConStep
<1>1. TypeOK'
  <2>1. /\ inbox' \in [Events -> InboxStatus] /\ failures' \in [Events -> Nat]
        /\ interrupted' \in [Events -> BOOLEAN] /\ late' \in [Events -> BOOLEAN]
    BY <1>e DEF TypeOK, InboxStatus, inboxVars, leftVars
  <2>2. /\ faults' \in 0..MaxFaults /\ replays' \in 0..MaxReplays
        /\ overtaken' \in [Events -> BOOLEAN]
    BY DEF TypeOK
  <2>3. UNCHANGED <<outbox, attempts, pubStep, pubEvent, pubAttempt, activity, notice>>
    BY DEF publishSide, outboxVars, pubVars, effectVars, leftVars
  <2> HIDE DEF ClaimInboxUnheard, ConsumerGoes, Fault
  <2> QED
    BY <1>j, <1>f, <2>1, <2>2, <2>3 DEF TypeOK
<1> USE DEF JobThrew, publishSide, outboxVars, pubVars, jobVars, inboxVars, effectVars, leftVars
<1>2. PublisherInv'
  BY DEF TypeOK, PublisherInv, OwnClaim
<1>3. ConsumerInv' /\ JobInv'
  BY DEF TypeOK, ConsumerInv, JobInv, Handling
<1>4. UninterruptedInv'
  BY DEF TypeOK, ConsumerInv, JobInv, UninterruptedInv, Accounted, Recorded, Handled, Handling
<1>5. QueuedInv' /\ PublishedMeansQueued'
  BY DEF TypeOK, PublisherInv, OwnClaim, ConsumerInv, JobInv, UninterruptedInv, Accounted, Handled,
         QueuedInv, PublishedMeansQueued
<1>6. CommittedInv'
  BY DEF TypeOK, PublisherInv, OwnClaim, ConsumerInv, CommittedInv
<1> QED
  BY <1>1, <1>2, <1>3, <1>4, <1>5, <1>6

(* Project: only the timeline changes. *)
LEMMA ProjectKeeps ==
  ASSUME IInv, NEW c \in Consumers, Project(c)
  PROVE  IInv'
<1> USE DeliveryAssumption DEF IInv, Project, ConsumerGoes, publishSide, outboxVars, pubVars,
      jobVars, inboxVars, leftVars, budgetVars
<1>1. TypeOK'
  BY DEF TypeOK, PublisherInv, OwnClaim, ConsumerInv, JobInv, OutboxStatus, InboxStatus, JobState, PubStep,
         ConStep, NoticeState
<1>2. PublisherInv'
  BY DEF TypeOK, PublisherInv, OwnClaim
<1>3. ConsumerInv' /\ JobInv'
  BY DEF TypeOK, ConsumerInv, JobInv, Handling
<1>4. UninterruptedInv'
  BY DEF TypeOK, ConsumerInv, JobInv, UninterruptedInv, Accounted, Recorded, Handled, Handling
<1>5. QueuedInv' /\ PublishedMeansQueued'
  BY DEF TypeOK, PublisherInv, OwnClaim, ConsumerInv, JobInv, UninterruptedInv, Accounted, Handled,
         QueuedInv, PublishedMeansQueued
<1>6. CommittedInv'
  BY DEF TypeOK, PublisherInv, OwnClaim, ConsumerInv, CommittedInv
<1> QED
  BY <1>1, <1>2, <1>3, <1>4, <1>5, <1>6

(* ReserveNotice: only the notification changes. *)
LEMMA ReserveNoticeKeeps ==
  ASSUME IInv, NEW c \in Consumers, ReserveNotice(c)
  PROVE  IInv'
<1> USE DeliveryAssumption DEF IInv, ReserveNotice, ConsumerGoes, publishSide, outboxVars,
      pubVars, jobVars, inboxVars, leftVars, budgetVars
<1>1. TypeOK'
  BY DEF TypeOK, PublisherInv, OwnClaim, ConsumerInv, JobInv, OutboxStatus, InboxStatus, JobState, PubStep,
         ConStep, NoticeState
<1>2. PublisherInv'
  BY DEF TypeOK, PublisherInv, OwnClaim
<1>3. ConsumerInv' /\ JobInv'
  BY DEF TypeOK, ConsumerInv, JobInv, Handling
<1>4. UninterruptedInv'
  BY DEF TypeOK, ConsumerInv, JobInv, UninterruptedInv, Accounted, Recorded, Handled, Handling
<1>5. QueuedInv' /\ PublishedMeansQueued'
  BY DEF TypeOK, PublisherInv, OwnClaim, ConsumerInv, JobInv, UninterruptedInv, Accounted, Handled,
         QueuedInv, PublishedMeansQueued
<1>6. CommittedInv'
  BY DEF TypeOK, PublisherInv, OwnClaim, ConsumerInv, CommittedInv
<1> QED
  BY <1>1, <1>2, <1>3, <1>4, <1>5, <1>6

(* EnqueueNotice: only the notification changes. *)
LEMMA EnqueueNoticeKeeps ==
  ASSUME IInv, NEW c \in Consumers, EnqueueNotice(c)
  PROVE  IInv'
<1> USE DeliveryAssumption DEF IInv, EnqueueNotice, ConsumerGoes, publishSide, outboxVars,
      pubVars, jobVars, inboxVars, leftVars, budgetVars
<1>1. TypeOK'
  BY DEF TypeOK, PublisherInv, OwnClaim, ConsumerInv, JobInv, OutboxStatus, InboxStatus, JobState, PubStep,
         ConStep, NoticeState
<1>2. PublisherInv'
  BY DEF TypeOK, PublisherInv, OwnClaim
<1>3. ConsumerInv' /\ JobInv'
  BY DEF TypeOK, ConsumerInv, JobInv, Handling
<1>4. UninterruptedInv'
  BY DEF TypeOK, ConsumerInv, JobInv, UninterruptedInv, Accounted, Recorded, Handled, Handling
<1>5. QueuedInv' /\ PublishedMeansQueued'
  BY DEF TypeOK, PublisherInv, OwnClaim, ConsumerInv, JobInv, UninterruptedInv, Accounted, Handled,
         QueuedInv, PublishedMeansQueued
<1>6. CommittedInv'
  BY DEF TypeOK, PublisherInv, OwnClaim, ConsumerInv, CommittedInv
<1> QED
  BY <1>1, <1>2, <1>3, <1>4, <1>5, <1>6

(* HandlerThrows: the inbox row is still "processing" under this consumer. *)
LEMMA HandlerThrowsKeeps ==
  ASSUME IInv, NEW c \in Consumers, HandlerThrows(c)
  PROVE  IInv'
<1> USE DeliveryAssumption DEF IInv, HandlerThrows, ConsumerGoes, publishSide, outboxVars,
      pubVars, jobVars, inboxVars, effectVars, leftVars, budgetVars
<1>1. TypeOK'
  BY DEF TypeOK, PublisherInv, OwnClaim, ConsumerInv, JobInv, OutboxStatus, InboxStatus, JobState, PubStep,
         ConStep, NoticeState
<1>2. PublisherInv'
  BY DEF TypeOK, PublisherInv, OwnClaim
<1>3. ConsumerInv' /\ JobInv'
  BY DEF TypeOK, ConsumerInv, JobInv, Handling
<1>4. UninterruptedInv'
  BY DEF TypeOK, ConsumerInv, JobInv, UninterruptedInv, Accounted, Recorded, Handled, Handling
<1>5. QueuedInv' /\ PublishedMeansQueued'
  BY DEF TypeOK, PublisherInv, OwnClaim, ConsumerInv, JobInv, UninterruptedInv, Accounted, Handled,
         QueuedInv, PublishedMeansQueued
<1>6. CommittedInv'
  BY DEF TypeOK, PublisherInv, OwnClaim, ConsumerInv, CommittedInv
<1> QED
  BY <1>1, <1>2, <1>3, <1>4, <1>5, <1>6

(* HandlerUnheard: the effects or the row have moved on, the consumer still holds the event. *)
LEMMA HandlerUnheardKeeps ==
  ASSUME IInv, NEW c \in Consumers, HandlerUnheard(c)
  PROVE  IInv'
<1> USE DeliveryAssumption DEF IInv, HandlerUnheard, ConsumerGoes, publishSide, outboxVars,
      pubVars, jobVars, inboxVars, effectVars, leftVars, budgetVars
<1>1. TypeOK'
  <2>1. conEvent[c] \in Events
    BY DEF ConsumerInv
  <2>2. /\ conStep' \in [Consumers -> ConStep] /\ UNCHANGED conEvent
        /\ activity' \in [Events -> BOOLEAN] /\ notice' \in [Events -> NoticeState]
        /\ inbox' \in [Events -> InboxStatus]
    BY <2>1 DEF TypeOK, ConStep, NoticeState, InboxStatus
  <2>3. UNCHANGED <<outbox, attempts, pubStep, pubEvent, pubAttempt, job, made, stalls, owner, failures,
                    replays, faults, interrupted, overtaken, late>>
    OBVIOUS
  <2> HIDE DEF HandlerUnheard, ConsumerGoes
  <2> QED
    BY <2>2, <2>3 DEF TypeOK
<1>2. PublisherInv'
  BY DEF TypeOK, PublisherInv, OwnClaim
<1>3. ConsumerInv' /\ JobInv'
  BY DEF TypeOK, ConsumerInv, JobInv, Handling
<1>4. UninterruptedInv'
  BY DEF TypeOK, ConsumerInv, JobInv, UninterruptedInv, Accounted, Recorded, Handled, Handling
<1>5. QueuedInv' /\ PublishedMeansQueued'
  BY DEF TypeOK, PublisherInv, OwnClaim, ConsumerInv, JobInv, UninterruptedInv, Accounted, Handled,
         QueuedInv, PublishedMeansQueued
<1>6. CommittedInv'
  BY DEF TypeOK, PublisherInv, OwnClaim, ConsumerInv, CommittedInv
<1> QED
  BY <1>1, <1>2, <1>3, <1>4, <1>5, <1>6

(* FinishInbox: the row was "processing" under this consumer. *)
LEMMA FinishInboxKeeps ==
  ASSUME IInv, NEW c \in Consumers, FinishInbox(c)
  PROVE  IInv'
<1> USE DeliveryAssumption DEF IInv, FinishInbox, ConsumerGoes, JobDone, publishSide, outboxVars,
      pubVars, jobVars, effectVars, leftVars, budgetVars
<1>1. TypeOK'
  BY DEF TypeOK, PublisherInv, OwnClaim, ConsumerInv, JobInv, OutboxStatus, InboxStatus, JobState, PubStep,
         ConStep, NoticeState
<1>2. PublisherInv'
  BY DEF TypeOK, PublisherInv, OwnClaim
<1>3. ConsumerInv' /\ JobInv'
  BY DEF TypeOK, ConsumerInv, JobInv, Handling
<1>4. UninterruptedInv'
  BY DEF TypeOK, ConsumerInv, JobInv, UninterruptedInv, Accounted, Recorded, Handled, Handling
<1>5. QueuedInv' /\ PublishedMeansQueued'
  BY DEF TypeOK, PublisherInv, OwnClaim, ConsumerInv, JobInv, UninterruptedInv, Accounted, Handled,
         QueuedInv, PublishedMeansQueued
<1>6. CommittedInv'
  BY DEF TypeOK, PublisherInv, OwnClaim, ConsumerInv, CommittedInv
<1> QED
  BY <1>1, <1>2, <1>3, <1>4, <1>5, <1>6

(* RecordFailure: uninterrupted failures never outnumber the attempts made, so the quarantine
   branch is for interrupted events. *)
LEMMA RecordFailureKeeps ==
  ASSUME IInv, NEW c \in Consumers, RecordFailure(c)
  PROVE  IInv'
<1> USE DeliveryAssumption DEF IInv, RecordFailure, ConsumerGoes
<1>e. conEvent[c] \in Events
  BY DEF ConsumerInv
<1>j. /\ job' \in [Events -> JobState] /\ made' \in [Events -> 0..JobAttempts]
      /\ stalls' \in [Events -> 0..MaxStalls] /\ owner' \in [Events -> Consumers \union {None}]
  BY <1>e, JobThrewTypes DEF TypeOK, jobVars
<1>f. conStep' \in [Consumers -> ConStep] /\ conEvent' \in [Consumers -> Events \union {None}]
  BY DEF TypeOK, ConStep, JobThrew
<1>1. TypeOK'
  <2>1. /\ inbox' \in [Events -> InboxStatus] /\ failures' \in [Events -> Nat]
        /\ interrupted' \in [Events -> BOOLEAN] /\ late' \in [Events -> BOOLEAN]
    BY <1>e DEF TypeOK, InboxStatus, inboxVars, leftVars
  <2>2. /\ faults' \in 0..MaxFaults /\ replays' \in 0..MaxReplays
        /\ overtaken' \in [Events -> BOOLEAN]
    BY DEF TypeOK, budgetVars
  <2>3. UNCHANGED <<outbox, attempts, pubStep, pubEvent, pubAttempt, activity, notice>>
    BY DEF publishSide, outboxVars, pubVars, effectVars, leftVars
  <2> HIDE DEF RecordFailure, ConsumerGoes
  <2> QED
    BY <1>j, <1>f, <2>1, <2>2, <2>3 DEF TypeOK
<1> USE DEF JobThrew, publishSide, outboxVars, pubVars, jobVars, effectVars, leftVars, budgetVars
<1>2. PublisherInv'
  BY DEF TypeOK, PublisherInv, OwnClaim
<1>3. ConsumerInv' /\ JobInv'
  <2>1. ConsumerInv'
    BY DEF TypeOK, ConsumerInv, Handling
  <2>2. CASE UNCHANGED jobVars
    BY <2>1, <2>2 DEF JobInv
  <2>3. CASE JobThrew(c, conEvent[c])
    BY <2>1, <2>3, <1>e DEF TypeOK, JobInv
  <2> QED
    BY <2>2, <2>3
<1>4. UninterruptedInv'
  <2> DEFINE e == conEvent[c]
  <2>1. ASSUME ~interrupted[e] PROVE owner[e] = c /\ failures[e] <= made[e] /\ made[e] < JobAttempts
    <3>1. ~Recorded(e)
      BY DEF ConsumerInv, Recorded, Handling
    <3>2. Accounted(e)
      BY <1>e, <2>1 DEF UninterruptedInv
    <3>3. Handled(e)
      BY DEF Handled, Handling
    <3> QED
      BY <1>e, <3>1, <3>2, <3>3 DEF Accounted, JobInv, TypeOK
  <2>2. ~interrupted[e] =>
          conStep' = [conStep EXCEPT ![c] = "recorded"] /\ UNCHANGED <<conEvent, jobVars>>
    BY <1>e, <2>1 DEF TypeOK
  <2>3. SUFFICES ASSUME NEW f \in Events, ~interrupted[f] PROVE Accounted(f)'
    BY DEF UninterruptedInv
  <2>4. CASE f = e
    BY <1>e, <2>1, <2>2, <2>3, <2>4 DEF UninterruptedInv, Accounted, Recorded, Handled, Handling, TypeOK,
       JobInv
  <2>5. CASE f # e
    <3>1. Accounted(f) /\ UNCHANGED <<inbox[f], failures[f], made[f], job[f], owner[f]>>
      BY <1>e, <2>3, <2>5 DEF TypeOK, UninterruptedInv
    <3>2. \A d \in Consumers : conEvent'[d] = f <=> conEvent[d] = f
      BY <2>5 DEF TypeOK
    <3>3. \A d \in Consumers : conEvent[d] = f => conStep'[d] = conStep[d]
      BY <2>5 DEF TypeOK
    <3> QED
      BY <3>1, <3>2, <3>3 DEF Accounted, Recorded, Handled, Handling
  <2> QED
    BY <2>4, <2>5
<1>5. QueuedInv' /\ PublishedMeansQueued'
  BY DEF TypeOK, PublisherInv, OwnClaim, ConsumerInv, JobInv, UninterruptedInv, Accounted, Handled,
         QueuedInv, PublishedMeansQueued
<1>6. CommittedInv'
  BY DEF TypeOK, PublisherInv, OwnClaim, ConsumerInv, CommittedInv
<1> QED
  BY <1>1, <1>2, <1>3, <1>4, <1>5, <1>6

(* RecordFailureThrows: the event counts as interrupted from here on. *)
LEMMA RecordFailureThrowsKeeps ==
  ASSUME IInv, NEW c \in Consumers, RecordFailureThrows(c)
  PROVE  IInv'
<1> USE DeliveryAssumption DEF IInv, RecordFailureThrows, ConsumerGoes, Fault
<1>e. conEvent[c] \in Events
  BY DEF ConsumerInv
<1>j. /\ job' \in [Events -> JobState] /\ made' \in [Events -> 0..JobAttempts]
      /\ stalls' \in [Events -> 0..MaxStalls] /\ owner' \in [Events -> Consumers \union {None}]
  BY <1>e, JobThrewTypes
<1>f. conStep' \in [Consumers -> ConStep] /\ conEvent' \in [Consumers -> Events \union {None}]
  BY DEF TypeOK, ConStep
<1>1. TypeOK'
  <2>1. /\ inbox' \in [Events -> InboxStatus] /\ failures' \in [Events -> Nat]
        /\ interrupted' \in [Events -> BOOLEAN] /\ late' \in [Events -> BOOLEAN]
    <3>1. inbox' \in [Events -> InboxStatus] /\ late' \in [Events -> BOOLEAN]
      BY <1>e DEF TypeOK, InboxStatus
    <3>2. failures' \in [Events -> Nat]
      BY <1>e DEF TypeOK
    <3>3. interrupted' \in [Events -> BOOLEAN]
      BY <1>e DEF TypeOK
    <3> QED
      BY <3>1, <3>2, <3>3
  <2>2. /\ faults' \in 0..MaxFaults /\ replays' \in 0..MaxReplays
        /\ overtaken' \in [Events -> BOOLEAN]
    BY DEF TypeOK
  <2>3. UNCHANGED <<outbox, attempts, pubStep, pubEvent, pubAttempt, activity, notice>>
    BY DEF publishSide, outboxVars, pubVars, effectVars, leftVars
  <2> HIDE DEF RecordFailureThrows, ConsumerGoes, Fault
  <2> QED
    BY <1>j, <1>f, <2>1, <2>2, <2>3 DEF TypeOK
<1> USE DEF JobThrew, publishSide, outboxVars, pubVars, jobVars, inboxVars, effectVars, leftVars
<1>2. PublisherInv'
  BY DEF TypeOK, PublisherInv, OwnClaim
<1>3. ConsumerInv' /\ JobInv'
  BY DEF TypeOK, ConsumerInv, JobInv, Handling
<1>4. UninterruptedInv'
  BY DEF TypeOK, ConsumerInv, JobInv, UninterruptedInv, Accounted, Recorded, Handled, Handling
<1>5. QueuedInv' /\ PublishedMeansQueued'
  BY DEF TypeOK, PublisherInv, OwnClaim, ConsumerInv, JobInv, UninterruptedInv, Accounted, Handled,
         QueuedInv, PublishedMeansQueued
<1>6. CommittedInv'
  BY DEF TypeOK, PublisherInv, OwnClaim, ConsumerInv, CommittedInv
<1> QED
  BY <1>1, <1>2, <1>3, <1>4, <1>5, <1>6

(* ReleaseInbox: the attempt this costs pays for the failure recorded. *)
LEMMA ReleaseInboxKeeps ==
  ASSUME IInv, NEW c \in Consumers, ReleaseInbox(c)
  PROVE  IInv'
<1> USE DeliveryAssumption DEF IInv, ReleaseInbox, ConsumerGoes
<1>e. conEvent[c] \in Events
  BY DEF ConsumerInv
<1>j. /\ job' \in [Events -> JobState] /\ made' \in [Events -> 0..JobAttempts]
      /\ stalls' \in [Events -> 0..MaxStalls] /\ owner' \in [Events -> Consumers \union {None}]
  BY <1>e, JobThrewTypes
<1>f. conStep' \in [Consumers -> ConStep] /\ conEvent' \in [Consumers -> Events \union {None}]
  BY DEF TypeOK, ConStep
<1>1. TypeOK'
  BY <1>e, <1>j DEF TypeOK, InboxStatus, ConStep, publishSide, outboxVars, pubVars, effectVars, leftVars,
         budgetVars
<1> USE DEF JobThrew, publishSide, outboxVars, pubVars, jobVars, effectVars, leftVars, budgetVars
<1>2. PublisherInv'
  BY DEF TypeOK, PublisherInv, OwnClaim
<1>3. ConsumerInv' /\ JobInv'
  BY DEF TypeOK, ConsumerInv, JobInv, Handling
<1>4. UninterruptedInv'
  BY DEF TypeOK, ConsumerInv, JobInv, UninterruptedInv, Accounted, Recorded, Handled, Handling
<1>5. QueuedInv' /\ PublishedMeansQueued'
  BY DEF TypeOK, PublisherInv, OwnClaim, ConsumerInv, JobInv, UninterruptedInv, Accounted, Handled,
         QueuedInv, PublishedMeansQueued
<1>6. CommittedInv'
  BY DEF TypeOK, PublisherInv, OwnClaim, ConsumerInv, CommittedInv
<1> QED
  BY <1>1, <1>2, <1>3, <1>4, <1>5, <1>6

(* ReleaseInboxThrows: the event counts as interrupted from here on. *)
LEMMA ReleaseInboxThrowsKeeps ==
  ASSUME IInv, NEW c \in Consumers, ReleaseInboxThrows(c)
  PROVE  IInv'
<1> USE DeliveryAssumption DEF IInv, ReleaseInboxThrows, ConsumerGoes, Fault
<1>e. conEvent[c] \in Events
  BY DEF ConsumerInv
<1>j. /\ job' \in [Events -> JobState] /\ made' \in [Events -> 0..JobAttempts]
      /\ stalls' \in [Events -> 0..MaxStalls] /\ owner' \in [Events -> Consumers \union {None}]
  BY <1>e, JobThrewTypes
<1>f. conStep' \in [Consumers -> ConStep] /\ conEvent' \in [Consumers -> Events \union {None}]
  BY DEF TypeOK, ConStep
<1>1. TypeOK'
  <2>1. /\ inbox' \in [Events -> InboxStatus] /\ failures' \in [Events -> Nat]
        /\ interrupted' \in [Events -> BOOLEAN] /\ late' \in [Events -> BOOLEAN]
    BY <1>e DEF TypeOK, InboxStatus, inboxVars, leftVars
  <2>2. /\ faults' \in 0..MaxFaults /\ replays' \in 0..MaxReplays
        /\ overtaken' \in [Events -> BOOLEAN]
    BY DEF TypeOK
  <2>3. UNCHANGED <<outbox, attempts, pubStep, pubEvent, pubAttempt, activity, notice>>
    BY DEF publishSide, outboxVars, pubVars, effectVars, leftVars
  <2> HIDE DEF ReleaseInboxThrows, ConsumerGoes, Fault
  <2> QED
    BY <1>j, <1>f, <2>1, <2>2, <2>3 DEF TypeOK
<1> USE DEF JobThrew, publishSide, outboxVars, pubVars, jobVars, inboxVars, effectVars, leftVars
<1>2. PublisherInv'
  BY DEF TypeOK, PublisherInv, OwnClaim
<1>3. ConsumerInv' /\ JobInv'
  BY DEF TypeOK, ConsumerInv, JobInv, Handling
<1>4. UninterruptedInv'
  BY DEF TypeOK, ConsumerInv, JobInv, UninterruptedInv, Accounted, Recorded, Handled, Handling
<1>5. QueuedInv' /\ PublishedMeansQueued'
  BY DEF TypeOK, PublisherInv, OwnClaim, ConsumerInv, JobInv, UninterruptedInv, Accounted, Handled,
         QueuedInv, PublishedMeansQueued
<1>6. CommittedInv'
  BY DEF TypeOK, PublisherInv, OwnClaim, ConsumerInv, CommittedInv
<1> QED
  BY <1>1, <1>2, <1>3, <1>4, <1>5, <1>6

(* LateUpdate: it meets the row of an interrupted event that nobody handles. *)
LEMMA LateUpdateKeeps ==
  ASSUME IInv, NEW e \in Events, LateUpdate(e)
  PROVE  IInv'
<1> USE DeliveryAssumption DEF IInv, LateUpdate, jobVars, publishSide, outboxVars, pubVars,
      inboxVars, conVars, effectVars, leftVars, budgetVars
<1>1. TypeOK'
  BY DEF TypeOK, PublisherInv, OwnClaim, ConsumerInv, JobInv, OutboxStatus, InboxStatus, JobState, PubStep,
         ConStep, NoticeState
<1>2. PublisherInv'
  BY DEF TypeOK, PublisherInv, OwnClaim
<1>3. ConsumerInv' /\ JobInv'
  BY DEF TypeOK, ConsumerInv, JobInv, Handling
<1>4. UninterruptedInv'
  BY DEF TypeOK, ConsumerInv, JobInv, UninterruptedInv, Accounted, Recorded, Handled, Handling
<1>5. QueuedInv' /\ PublishedMeansQueued'
  BY DEF TypeOK, PublisherInv, OwnClaim, ConsumerInv, JobInv, UninterruptedInv, Accounted, Handled,
         QueuedInv, PublishedMeansQueued
<1>6. CommittedInv'
  BY DEF TypeOK, PublisherInv, OwnClaim, ConsumerInv, CommittedInv
<1> QED
  BY <1>1, <1>2, <1>3, <1>4, <1>5, <1>6

(* ConsumerCrashes: a consumer that held no inbox row leaves none behind, another interrupts
   its event. *)
LEMMA ConsumerCrashesKeeps ==
  ASSUME IInv, NEW c \in Consumers, ConsumerCrashes(c)
  PROVE  IInv'
<1> USE DeliveryAssumption DEF IInv, ConsumerCrashes, ConsumerGoes, Fault, publishSide,
      outboxVars, pubVars, jobVars, inboxVars, effectVars, leftVars
<1>1. TypeOK'
  BY DEF TypeOK, PublisherInv, OwnClaim, ConsumerInv, JobInv, OutboxStatus, InboxStatus, JobState, PubStep,
         ConStep, NoticeState
<1>2. PublisherInv'
  BY DEF TypeOK, PublisherInv, OwnClaim
<1>3. ConsumerInv' /\ JobInv'
  BY DEF TypeOK, ConsumerInv, JobInv, Handling
<1>4. UninterruptedInv'
  BY DEF TypeOK, ConsumerInv, JobInv, UninterruptedInv, Accounted, Recorded, Handled, Handling
<1>5. QueuedInv' /\ PublishedMeansQueued'
  BY DEF TypeOK, PublisherInv, OwnClaim, ConsumerInv, JobInv, UninterruptedInv, Accounted, Handled,
         QueuedInv, PublishedMeansQueued
<1>6. CommittedInv'
  BY DEF TypeOK, PublisherInv, OwnClaim, ConsumerInv, CommittedInv
<1> QED
  BY <1>1, <1>2, <1>3, <1>4, <1>5, <1>6

(* A stuttering step changes nothing IInv speaks of. *)
LEMMA StutterKeeps == IInv /\ UNCHANGED vars => IInv'
  BY DEF vars, outboxVars, pubVars, jobVars, inboxVars, conVars, effectVars, leftVars, budgetVars, IInv,
     TypeOK, PublisherInv, OwnClaim, ConsumerInv, JobInv, CommittedInv, UninterruptedInv, Accounted, Recorded, Handled,
     QueuedInv, PublishedMeansQueued

(* Every step keeps IInv. *)
LEMMA NextKeeps == IInv /\ [Next]_vars => IInv'
<1> SUFFICES ASSUME IInv, Next PROVE IInv'
  BY StutterKeeps
<1>1. ASSUME NEW e \in Events, Append(e) \/ Replay(e) \/ Stall(e) \/ ReapJob(e) \/ LateUpdate(e)
      PROVE  IInv'
  BY <1>1, AppendKeeps, ReplayKeeps, StallKeeps, ReapJobKeeps, LateUpdateKeeps
<1>2. ASSUME NEW p \in Publishers, NEW e \in Events, Claim(p, e) PROVE IInv'
  BY <1>2, ClaimKeeps
<1>3. ASSUME NEW c \in Consumers, NEW e \in Events, TakeJob(c, e) PROVE IInv'
  BY <1>3, TakeJobKeeps
<1>4. ASSUME NEW p \in Publishers, PublisherStep(p) PROVE IInv'
  BY <1>4, QueueAddKeeps, QueueAddThrowsKeeps, MarkProcessedKeeps, MarkProcessedThrowsKeeps,
     MarkFailedKeeps DEF PublisherStep
<1>5. ASSUME NEW c \in Consumers, ConsumerStep(c) PROVE IInv'
  BY <1>5, ClaimInboxKeeps, DuplicateKeeps, ClaimInboxThrowsKeeps, ProjectKeeps, ReserveNoticeKeeps,
     EnqueueNoticeKeeps, HandlerThrowsKeeps, HandlerUnheardKeeps, FinishInboxKeeps,
     RecordFailureKeeps, ReleaseInboxKeeps
     DEF ConsumerStep
<1>6. ASSUME FaultStep PROVE IInv'
  BY <1>6, PublisherAbortsKeeps, ClaimInboxUnheardKeeps, RecordFailureThrowsKeeps, ReleaseInboxThrowsKeeps,
     ConsumerCrashesKeeps, FalseStallKeeps DEF FaultStep
<1> QED
  BY <1>1, <1>2, <1>3, <1>4, <1>5, <1>6 DEF Next

(* The inductive invariant holds throughout. *)
LEMMA Invariance == Spec => []IInv
  BY InitInv, NextKeeps, PTL DEF Spec

(* Every variable keeps its type; a job never makes more attempts than it was given. *)
THEOREM TypeCorrect == Spec => []TypeOK
<1>1. IInv => TypeOK
  BY DEF IInv
<1> QED
  BY <1>1, Invariance, PTL

(* No two consumers are inside one event's handler; no two publishers work on one row, unless it
   was replayed under one of them. *)
THEOREM Exclusion == Spec => []ClaimsExclusive
<1>1. IInv => ClaimsExclusive
  BY DEF IInv, PublisherInv, OwnClaim, ConsumerInv, ClaimsExclusive
<1> QED
  BY <1>1, Invariance, PTL

(* A row marked processed left a job behind, or its event was handled or left half claimed. *)
THEOREM Publication == Spec => []PublishedMeansQueued
<1>1. IInv => PublishedMeansQueued
  BY DEF IInv
<1> QED
  BY <1>1, Invariance, PTL

(* A completed job was handled, unless a consumer left a claim on its event unreleased. *)
THEOREM NoSilentLoss == Spec => []LossNeedsInterruption
<1>1. IInv => LossNeedsInterruption
  BY DEF IInv, UninterruptedInv, Accounted, LossNeedsInterruption
<1> QED
  BY <1>1, Invariance, PTL

(* The unfiltered write of OutboxService.failed meets its own claim, or the update to "processed"
   that was applied without its publisher hearing of it, or a row overtaken by a replay. *)
THEOREM FailureMarks == Spec => FailureMarksOwnClaim
<1> DEFINE Own(p) == LET e == pubEvent[p] IN
      \/ overtaken[e]
      \/ outbox[e] \in {"publishing", "processed"} /\ pubAttempt[p] = attempts[e]
<1>1. IInv => \A p \in Publishers : MarkFailed(p) => Own(p)
  BY DEF IInv, PublisherInv, OwnClaim, MarkFailed, PublisherGoes
<1> QED
  BY <1>1, Invariance, PTL DEF FailureMarksOwnClaim

(* A consumer that changes an effect or the row holds a row that is not "processed", unless it is
   the one whose answer was lost. *)
LEMMA HandlerRow ==
  ASSUME IInv, NEW c \in Consumers, conStep[c] \in Handling
  PROVE  /\ conEvent[c] \in Events
         /\ conStep[c] # "threw" => inbox[conEvent[c]] \in {"processing", "failed"}
         /\ conStep[c] = "threw" => inbox[conEvent[c]] \in {"processing", "processed"}
  BY DEF IInv, ConsumerInv, Handling

(* One step never touches the effects of a handled event, and its inbox row only in doubt. *)
LEMMA ProcessedStays ==
  ASSUME IInv, [Next]_vars, NEW f \in Events, inbox[f] = "processed"
  PROVE  /\ activity'[f] = activity[f] /\ notice'[f] = notice[f]
         /\ inbox'[f] = "processed" \/ Doubted(f)
<1> DEFINE Goal == /\ activity'[f] = activity[f] /\ notice'[f] = notice[f]
                   /\ inbox'[f] = "processed" \/ Doubted(f)
<1>1. CASE UNCHANGED <<inboxVars, effectVars>>
  BY <1>1 DEF inboxVars, effectVars
<1>2. ASSUME NEW c \in Consumers, ClaimInbox(c) \/ ClaimInboxUnheard(c) PROVE Goal
  <2>1. conEvent[c] # f
    BY <1>2 DEF ClaimInbox, ClaimInboxUnheard
  <2> QED
    BY <1>2, <2>1 DEF ClaimInbox, ClaimInboxUnheard, effectVars, IInv, TypeOK
<1>3. ASSUME NEW c \in Consumers,
             \/ Project(c) \/ ReserveNotice(c) \/ EnqueueNotice(c) \/ HandlerUnheard(c)
             \/ FinishInbox(c) \/ ReleaseInbox(c)
      PROVE Goal
  <2>1. conEvent[c] # f
    BY <1>3, HandlerRow DEF Project, ReserveNotice, EnqueueNotice, HandlerUnheard, FinishInbox,
       ReleaseInbox, ConsumerGoes, Handling
  <2> QED
    BY <1>3, <2>1 DEF Project, ReserveNotice, EnqueueNotice, HandlerUnheard, FinishInbox,
       ReleaseInbox, inboxVars, effectVars, IInv, TypeOK
<1>4. ASSUME NEW c \in Consumers, RecordFailure(c) \/ RecordFailureThrows(c) PROVE Goal
  <2>1. conStep[c] = "threw" /\ UNCHANGED effectVars
    BY <1>4 DEF RecordFailure, RecordFailureThrows, ConsumerGoes
  <2>2. inbox' = [inbox EXCEPT ![conEvent[c]] = "failed"] \/ inbox' = inbox
    BY <1>4 DEF RecordFailure, RecordFailureThrows
  <2>3. inbox'[f] = inbox[f] \/ conEvent[c] = f
    BY <2>2 DEF IInv, TypeOK
  <2> QED
    BY <2>1, <2>3 DEF effectVars, Doubted
<1>5. ASSUME NEW e \in Events, LateUpdate(e) PROVE Goal
  BY <1>5 DEF LateUpdate, effectVars, Doubted, IInv, TypeOK
<1>6. ASSUME Next, ~UNCHANGED <<inboxVars, effectVars>>
      PROVE  \/ \E c \in Consumers :
                  \/ ClaimInbox(c) \/ ClaimInboxUnheard(c)
                  \/ Project(c) \/ ReserveNotice(c) \/ EnqueueNotice(c) \/ HandlerUnheard(c)
                  \/ FinishInbox(c) \/ RecordFailure(c) \/ RecordFailureThrows(c) \/ ReleaseInbox(c)
             \/ \E e \in Events : LateUpdate(e)
  BY <1>6 DEF Next, PublisherStep, ConsumerStep, FaultStep, Append, Replay, Stall, FalseStall, ReapJob,
     LoseLock, Claim, TakeJob, QueueAdd, QueueAddThrows, MarkProcessed, MarkProcessedThrows,
     MarkFailed, PublisherAborts, Duplicate, ClaimInboxThrows, HandlerThrows, ReleaseInboxThrows,
     ConsumerCrashes, consumeSide, inboxVars, effectVars
<1>7. CASE UNCHANGED vars
  BY <1>1, <1>7 DEF vars
<1> QED
  BY <1>1, <1>2, <1>3, <1>4, <1>5, <1>6, <1>7

(* A handled event stays handled: only a consumer that never heard of it hands it out again. *)
THEOREM Finality == Spec => ProcessedIsFinal
<1>1. IInv /\ [Next]_vars => [HandledStays]_vars
  BY ProcessedStays DEF HandledStays
<1> QED
  BY <1>1, Invariance, PTL DEF Spec, ProcessedIsFinal

(* The two initial predicates agree under the refinement mapping. *)
LEMMA PromiseInit == Init => Promise!Init
  BY DEF Init, Promise!Init, InHand, Doubted

(* A step that changes what the mapping sees of one event only, in one of six ways. *)
LEMMA PromiseAt ==
  ASSUME NEW e \in Events, \A f \in Events : outbox'[f] = "absent" <=> outbox[f] = "absent",
         \A f \in Events \ {e} : /\ InHand(f)' <=> InHand(f)
                                 /\ inbox'[f] = "processed" <=> inbox[f] = "processed",
         LET Done  == inbox[e] = "processed"
             Done1 == inbox'[e] = "processed"
         IN  \/ (InHand(e)' <=> InHand(e)) /\ (Done1 <=> Done)
             \/ ~InHand(e) /\ ~Done /\ outbox[e] # "absent" /\ InHand(e)' /\ ~Done1
             \/ InHand(e) /\ ~InHand(e)' /\ (Done1 \/ (Done1 <=> Done))
             \/ InHand(e) /\ InHand(e)' /\ Done1
             \/ InHand(e) /\ InHand(e)' /\ Done /\ ~Done1
  PROVE  [Promise!Next]_(Promise!vars)
<1> DEFINE Done  == inbox[e] = "processed"
           Done1 == inbox'[e] = "processed"
<1>1. CASE (InHand(e)' <=> InHand(e)) /\ (Done1 <=> Done)
  BY <1>1 DEF Promise!vars
<1>2. CASE ~InHand(e) /\ ~Done /\ outbox[e] # "absent" /\ InHand(e)' /\ ~Done1
  <2>1. Promise!Hold(e)
    BY <1>2 DEF Promise!Hold
  <2> QED
    BY <2>1 DEF Promise!Next
<1>3. CASE InHand(e) /\ ~InHand(e)' /\ (Done1 <=> Done)
  <2>1. Promise!GiveBack(e)
    BY <1>3 DEF Promise!GiveBack
  <2> QED
    BY <2>1 DEF Promise!Next
<1>4. CASE InHand(e) /\ ~InHand(e)' /\ Done1
  <2>1. Promise!Deliver(e)
    BY <1>4 DEF Promise!Deliver
  <2> QED
    BY <2>1 DEF Promise!Next
<1>5. CASE InHand(e) /\ InHand(e)' /\ Done1
  <2>1. Promise!DeliverUnheard(e)
    BY <1>5 DEF Promise!DeliverUnheard
  <2> QED
    BY <2>1 DEF Promise!Next
<1>6. CASE InHand(e) /\ InHand(e)' /\ Done /\ ~Done1
  <2>1. Promise!TakeBack(e)
    BY <1>6 DEF Promise!TakeBack
  <2> QED
    BY <2>1 DEF Promise!Next
<1> QED
  BY <1>1, <1>2, <1>3, <1>4, <1>5, <1>6

(* A step that changes neither a row of the inbox nor who doubts it is invisible. *)
LEMMA PromiseQuiet ==
  ASSUME \A f \in Events : outbox'[f] = "absent" <=> outbox[f] = "absent", UNCHANGED inbox,
         \A f \in Events : Doubted(f)' <=> Doubted(f)
  PROVE  UNCHANGED Promise!vars
<1>1. \A f \in Events : InHand(f)' <=> InHand(f)
  BY DEF InHand
<1> QED
  BY <1>1 DEF Promise!vars

(* A consumer's step leaves what the mapping sees of every event but its own. *)
LEMMA PromiseOthers ==
  ASSUME IInv, NEW c \in Consumers, NEW from, NEW to, ConsumerGoes(c, from, to), from # "idle",
         NEW f \in Events, f # conEvent[c], inbox'[f] = inbox[f], late'[f] = late[f]
  PROVE  InHand(f)' <=> InHand(f)
<1>1. \A d \in Consumers : conStep'[d] = "threw" /\ conEvent'[d] = f <=> conStep[d] = "threw" /\ conEvent[d] = f
  BY DeliveryAssumption DEF ConsumerGoes, IInv, TypeOK
<1>2. Doubted(f)' <=> Doubted(f)
  BY <1>1 DEF Doubted
<1> QED
  BY <1>2 DEF InHand

(* A consumer that neither starts nor ends in doubt changes nobody's doubt. *)
LEMMA PromiseCalm ==
  ASSUME IInv, NEW c \in Consumers, NEW from, NEW to, ConsumerGoes(c, from, to),
         from # "threw", to # "threw", UNCHANGED late, NEW f \in Events
  PROVE  Doubted(f)' <=> Doubted(f)
<1>1. \A d \in Consumers : conStep'[d] = "threw" /\ conEvent'[d] = f <=> conStep[d] = "threw" /\ conEvent[d] = f
  BY DeliveryAssumption DEF ConsumerGoes, IInv, TypeOK
<1> QED
  BY <1>1 DEF Doubted

(* Once the only consumer that handles an event is idle and no update is late, nobody doubts it. *)
LEMMA NoDoubt ==
  ASSUME IInv, NEW c \in Consumers, conStep[c] \in Handling, ConsumerGoes(c, conStep[c], "idle"),
         NEW e, e = conEvent[c], late'[e] = late[e]
  PROVE  ~Doubted(e)'
<1>1. e \in Events /\ ~late[e]
  BY DEF IInv, ConsumerInv, Handling
<1>2. \A d \in Consumers : conStep'[d] = "threw" => conEvent'[d] # e
  BY <1>1, DeliveryAssumption DEF ConsumerGoes, IInv, TypeOK, ConsumerInv, Handling
<1>3. ~\E d \in Consumers : conStep'[d] = "threw" /\ conEvent'[d] = e
  BY <1>2
<1> QED
  BY <1>1, <1>3 DEF Doubted

(* The inbox row and the doubts about it are all the mapping sees of a consumer: claiming the row is
   Hold, deleting it GiveBack, marking it processed Deliver or, unheard, DeliverUnheard, and marking
   it failed TakeBack or, when it was not processed, nothing. *)
LEMMA PromiseStep ==
  ASSUME IInv, [Next]_vars PROVE [Promise!Next]_(Promise!vars)
<1> DEFINE Goal == [Promise!Next]_(Promise!vars)
           SameC == \A f \in Events : outbox'[f] = "absent" <=> outbox[f] = "absent"
<1>1. ASSUME NEW e \in Events, Append(e) PROVE Goal
  <2>1. UNCHANGED <<inbox, late, conStep, conEvent>>
    BY <1>1 DEF Append, consumeSide, inboxVars, conVars, leftVars
  <2>2. \A f \in Events : InHand(f)' <=> InHand(f)
    BY <2>1 DEF InHand, Doubted
  <2>3. Promise!Commit(e)
    BY <1>1, <2>1, <2>2 DEF Append, IInv, TypeOK, Promise!Commit
  <2> QED
    BY <2>3 DEF Promise!Next
<1>2. ASSUME SameC, UNCHANGED <<inbox, late, conStep, conEvent>> PROVE Goal
  <2>1. \A f \in Events : Doubted(f)' <=> Doubted(f)
    BY <1>2 DEF Doubted
  <2> QED
    BY <1>2, <2>1, PromiseQuiet
<1>3. ASSUME UNCHANGED outbox PROVE SameC
  BY <1>3
<1>4. ASSUME NEW p \in Publishers,
             \/ \E e \in Events : Claim(p, e)
             \/ PublisherStep(p) \/ PublisherAborts(p)
      PROVE  Goal
  <2>1. UNCHANGED <<inbox, late, conStep, conEvent>>
    BY <1>4 DEF Claim, PublisherStep, QueueAdd, QueueAddThrows, MarkProcessed, MarkProcessedThrows,
       MarkFailed, PublisherAborts, consumeSide, inboxVars, conVars, leftVars
  <2>2. SameC
    BY <1>4 DEF Claim, Claimable, PublisherStep, QueueAdd, QueueAddThrows, MarkProcessed,
       MarkProcessedThrows, MarkFailed, PublisherAborts, PublisherGoes, outboxVars, IInv, TypeOK,
       PublisherInv
  <2> QED
    BY <1>2, <2>1, <2>2
<1>5. ASSUME NEW e \in Events, Replay(e) \/ Stall(e) \/ ReapJob(e) \/ FalseStall(e) PROVE Goal
  <2>1. UNCHANGED <<inbox, late, conStep, conEvent>>
    BY <1>5 DEF Replay, Stall, ReapJob, FalseStall, LoseLock, consumeSide, inboxVars, conVars, leftVars
  <2>2. SameC
    BY <1>5 DEF Replay, Stall, ReapJob, FalseStall, LoseLock, publishSide, outboxVars, IInv, TypeOK
  <2> QED
    BY <1>2, <2>1, <2>2
<1>6. ASSUME NEW e \in Events, LateUpdate(e) PROVE Goal
  <2>1. inbox[e] \in {"processing", "processed"} /\ Doubted(e)
    BY <1>6 DEF LateUpdate, IInv, ConsumerInv, Doubted
  <2>2. inbox'[e] = "failed" /\ InHand(e)
    BY <1>6, <2>1 DEF LateUpdate, IInv, TypeOK, InHand
  <2>6. InHand(e)'
    BY <2>2 DEF InHand
  <2>3. \A f \in Events \ {e} : UNCHANGED <<inbox[f], late[f]>>
    BY <1>6 DEF LateUpdate, IInv, TypeOK
  <2>4. \A f \in Events \ {e} : (InHand(f)' <=> InHand(f)) /\ inbox'[f] = inbox[f]
    BY <1>6, <2>3 DEF LateUpdate, conVars, InHand, Doubted
  <2>5. SameC
    BY <1>6, <1>3 DEF LateUpdate, publishSide, outboxVars
  <2> QED
    BY <2>1, <2>2, <2>4, <2>5, <2>6, PromiseAt
<1>7. ASSUME NEW c \in Consumers, NEW e \in Events, TakeJob(c, e) PROVE Goal
  <2>1. UNCHANGED <<inbox, late>> /\ SameC
    BY <1>7, <1>3 DEF TakeJob, publishSide, outboxVars, inboxVars, leftVars
  <2>2. \A d \in Consumers : conStep'[d] = "threw" <=> conStep[d] = "threw"
    BY <1>7 DEF TakeJob, IInv, TypeOK
  <2>3. \A d \in Consumers : conStep'[d] = "threw" => conEvent'[d] = conEvent[d]
    BY <1>7 DEF TakeJob, IInv, TypeOK
  <2>4. \A f \in Events : Doubted(f)' <=> Doubted(f)
    BY <2>1, <2>2, <2>3 DEF Doubted
  <2> QED
    BY <2>1, <2>4, PromiseQuiet
<1>8. ASSUME NEW c \in Consumers,
             \/ Duplicate(c) \/ ClaimInboxThrows(c) \/ Project(c) \/ ReserveNotice(c)
             \/ EnqueueNotice(c) \/ ReleaseInboxThrows(c)
      PROVE  Goal
  <2>1. UNCHANGED <<inbox, late>> /\ SameC
    BY <1>8, <1>3 DEF Duplicate, ClaimInboxThrows, Project, ReserveNotice, EnqueueNotice,
       ReleaseInboxThrows, publishSide, outboxVars, inboxVars, leftVars
  <2>2. \E from, to \in ConStep \ {"threw"} : ConsumerGoes(c, from, to)
    BY <1>8 DEF Duplicate, ClaimInboxThrows, Project, ReserveNotice, EnqueueNotice,
       ReleaseInboxThrows, ConStep
  <2>3. \A f \in Events : Doubted(f)' <=> Doubted(f)
    BY <2>1, <2>2, PromiseCalm
  <2> QED
    BY <2>1, <2>3, PromiseQuiet
<1>9. ASSUME NEW c \in Consumers,
             \/ ClaimInbox(c) \/ ClaimInboxUnheard(c) \/ HandlerThrows(c) \/ HandlerUnheard(c)
             \/ FinishInbox(c) \/ RecordFailure(c) \/ RecordFailureThrows(c) \/ ReleaseInbox(c)
             \/ ConsumerCrashes(c)
      PROVE  Goal
  <2>0. conEvent[c] \in Events /\ conStep[c] # "idle"
    BY <1>9 DEF ClaimInbox, ClaimInboxUnheard, HandlerThrows, HandlerUnheard, FinishInbox,
       RecordFailure, RecordFailureThrows, ReleaseInbox, ConsumerCrashes, ConsumerGoes, IInv, ConsumerInv
  <2> PICK e \in Events : e = conEvent[c]
    BY <2>0
  <2>1. e \in Events /\ e = conEvent[c] /\ conStep[c] # "idle"
    BY <2>0
  <2>2. SameC
    BY <1>9, <1>3 DEF ClaimInbox, ClaimInboxUnheard, HandlerThrows, HandlerUnheard, FinishInbox,
       RecordFailure, RecordFailureThrows, ReleaseInbox, ConsumerCrashes, publishSide, outboxVars
  <2>3. \E to \in ConStep : ConsumerGoes(c, conStep[c], to)
    BY <1>9 DEF ClaimInbox, ClaimInboxUnheard, HandlerThrows, HandlerUnheard, FinishInbox,
       RecordFailure, RecordFailureThrows, ReleaseInbox, ConsumerCrashes, ConsumerGoes, ConStep
  <2>4. \A f \in Events \ {e} : UNCHANGED <<inbox[f], late[f]>>
    BY <1>9 DEF ClaimInbox, ClaimInboxUnheard, HandlerThrows, HandlerUnheard, FinishInbox,
       RecordFailure, RecordFailureThrows, ReleaseInbox, ConsumerCrashes, inboxVars, leftVars, IInv,
       TypeOK
  <2>5. \A f \in Events \ {e} : /\ InHand(f)' <=> InHand(f)
                                /\ inbox'[f] = "processed" <=> inbox[f] = "processed"
    BY <2>1, <2>3, <2>4, PromiseOthers
  <2> DEFINE Done  == inbox[e] = "processed"
             Done1 == inbox'[e] = "processed"
             Way == \/ (InHand(e)' <=> InHand(e)) /\ (Done1 <=> Done)
                    \/ ~InHand(e) /\ ~Done /\ outbox[e] # "absent" /\ InHand(e)' /\ ~Done1
                    \/ InHand(e) /\ ~InHand(e)' /\ (Done1 \/ (Done1 <=> Done))
                    \/ InHand(e) /\ InHand(e)' /\ Done1
                    \/ InHand(e) /\ InHand(e)' /\ Done /\ ~Done1
  <2>6. ASSUME ClaimInbox(c) \/ ClaimInboxUnheard(c) PROVE Way
    <3>1. inbox[e] = "absent" /\ inbox'[e] = "processing"
      BY <2>1, <2>6 DEF ClaimInbox, ClaimInboxUnheard, IInv, TypeOK
    <3>2. outbox[e] # "absent"
      BY <2>1 DEF IInv, CommittedInv
    <3> QED
      BY <3>1, <3>2 DEF InHand
  <2>7. ASSUME HandlerThrows(c) \/ HandlerUnheard(c) PROVE Way
    <3>1. inbox[e] = "processing" /\ inbox'[e] \in {"processing", "processed"}
      BY <2>1, <2>7 DEF HandlerThrows, HandlerUnheard, ConsumerGoes, inboxVars, IInv, TypeOK,
         ConsumerInv, Handling
    <3>2. conStep'[c] = "threw" /\ conEvent'[c] = e
      BY <2>7 DEF HandlerThrows, HandlerUnheard, ConsumerGoes, IInv, TypeOK
    <3>3. Doubted(e)'
      BY <3>2 DEF Doubted
    <3> QED
      BY <3>1, <3>3 DEF InHand
  <2>8. ASSUME FinishInbox(c) PROVE Way
    <3>1. inbox[e] = "processing" /\ inbox'[e] = "processed"
      BY <2>1, <2>8 DEF FinishInbox, ConsumerGoes, IInv, TypeOK, ConsumerInv, Handling
    <3>2. ~Doubted(e)'
      BY <2>8, NoDoubt DEF FinishInbox, leftVars, Handling, ConsumerGoes
    <3> QED
      BY <3>1, <3>2 DEF InHand
  <2>9. ASSUME RecordFailure(c) PROVE Way
    <3>1. inbox[e] \in {"processing", "processed"} /\ inbox'[e] = "failed"
      BY <2>1, <2>9 DEF RecordFailure, IInv, TypeOK, ConsumerInv
    <3>2. Doubted(e)
      BY <2>9 DEF RecordFailure, Doubted
    <3> QED
      BY <3>1, <3>2 DEF InHand
  <2>10. ASSUME RecordFailureThrows(c) PROVE Way
    <3>1. inbox[e] \in {"processing", "processed"} /\ Doubted(e)
      BY <2>1, <2>10 DEF RecordFailureThrows, ConsumerGoes, IInv, ConsumerInv, Doubted
    <3>2. \/ inbox'[e] = "failed"
          \/ inbox'[e] = inbox[e] /\ late'[e]
          \/ inbox'[e] = inbox[e] /\ late'[e] = late[e]
      BY <2>1, <2>10 DEF RecordFailureThrows, IInv, TypeOK
    <3>3. late'[e] => Doubted(e)'
      BY DEF Doubted
    <3>4. late'[e] = late[e] => ~Doubted(e)'
      BY <2>10, NoDoubt DEF RecordFailureThrows, Handling, ConsumerGoes
    <3> QED
      BY <3>1, <3>2, <3>3, <3>4 DEF InHand
  <2>11. ASSUME ReleaseInbox(c) PROVE Way
    BY <2>1, <2>11 DEF ReleaseInbox, ConsumerGoes, IInv, TypeOK, ConsumerInv, InHand
  <2>12. ASSUME ConsumerCrashes(c) PROVE Way
    <3>1. inbox'[e] = inbox[e] /\ late'[e] = late[e]
      BY <2>12 DEF ConsumerCrashes, inboxVars
    <3>2. CASE conStep[c] = "threw"
      <4>1. inbox[e] \in {"processing", "processed"} /\ Doubted(e)
        BY <2>1, <3>2 DEF IInv, ConsumerInv, Doubted
      <4>2. ~Doubted(e)'
        BY <2>12, <3>1, <3>2, NoDoubt DEF ConsumerCrashes, Handling
      <4> QED
        BY <3>1, <4>1, <4>2 DEF InHand
    <3>3. CASE conStep[c] # "threw"
      <4>1. Doubted(e)' <=> Doubted(e)
        BY <2>1, <2>12, <3>3, PromiseCalm DEF ConsumerCrashes
      <4> QED
        BY <3>1, <4>1 DEF InHand
    <3> QED
      BY <3>2, <3>3
  <2>13. Way
    BY <1>9, <2>6, <2>7, <2>8, <2>9, <2>10, <2>11, <2>12
  <2> QED
    BY <2>1, <2>2, <2>5, <2>13, PromiseAt
<1>10. CASE Next
  <2>1. ASSUME NEW c \in Consumers,
               ConsumerStep(c) \/ ClaimInboxUnheard(c) \/ RecordFailureThrows(c)
               \/ ReleaseInboxThrows(c) \/ ConsumerCrashes(c)
        PROVE  Goal
    BY <2>1, <1>8, <1>9 DEF ConsumerStep
  <2> QED
    BY <1>10, <1>1, <1>4, <1>5, <1>6, <1>7, <2>1 DEF Next, FaultStep
<1>11. CASE UNCHANGED vars
  BY <1>2, <1>3, <1>11 DEF vars, outboxVars, inboxVars, conVars, leftVars
<1> QED
  BY <1>10, <1>11

(* The pipeline implements the abstract promise: at most one holder, and a delivery nobody doubts is
   final. *)
THEOREM Refinement == Spec => KeepsPromise
<1>1. IInv /\ [Next]_vars => [Promise!Next]_(Promise!vars)
  BY PromiseStep
<1> QED
  BY <1>1, PromiseInit, Invariance, PTL DEF Spec, KeepsPromise, Promise!Spec
=============================================================================
