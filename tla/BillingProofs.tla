---------------------------- MODULE BillingProofs ----------------------------
(***************************************************************************)
(* Proofs about Billing, for any plans, prices and limits, any number of   *)
(* concurrent requests and of the provider's events, and any bound on      *)
(* calls and faults.                                                       *)
(*                                                                         *)
(* IInv says what a request carries from its read of the subscription to   *)
(* its write, and that what the document and the requests between their    *)
(* call to the provider and their write say together is what the provider  *)
(* has, or one of those requests is about to be refused by the version.    *)
(* MeterInv bounds how far concurrent records pass the limit, and ApartInv *)
(* says that none does while no two overlap; both need what the fold that  *)
(* sums the usage comes to, which is proved first.                         *)
(***************************************************************************)
EXTENDS Billing, FiniteSetTheorems, TLAPS

USE BillingAssumption

----------------------------------------------------------------------------
(* Requests and the document they write *)

(* An event takes a status to a status, and none moves a cancelled subscription. *)
LEMMA TransitionsMove ==
  /\ \A s \in Status : \A k \in DOMAIN Transitions[s] : Transitions[s][k] \in Status
  /\ \A k \in Kinds : k \notin DOMAIN Transitions["cancelled"]
  <1>1. Transitions["trialing"] = [trial_expired |-> "active", payment_succeeded |-> "active",
                                   payment_failed |-> "grace_period", cancel |-> "cancelled"]
    BY DEF Transitions
  <1>2. Transitions["active"] = [payment_succeeded |-> "active", payment_failed |-> "past_due",
                                 cancel |-> "cancelled"]
    BY DEF Transitions
  <1>3. Transitions["past_due"] = [payment_succeeded |-> "active", payment_failed |-> "grace_period",
                                   cancel |-> "cancelled"]
    BY DEF Transitions
  <1>4. Transitions["grace_period"] = [payment_succeeded |-> "active", grace_expired |-> "expired",
                                       cancel |-> "cancelled"]
    BY DEF Transitions
  <1>5. Transitions["cancelled"] = [period_ended |-> "expired"]
    BY DEF Transitions
  <1>6. Transitions["expired"] = [k \in {} |-> "expired"]
    BY DEF Transitions
  <1>7. ASSUME NEW s \in Status, NEW k \in DOMAIN Transitions[s]
        PROVE  Transitions[s][k] \in Status
    <2>1. CASE s = "trialing"
      BY <1>1, <1>7, <2>1 DEF Status
    <2>2. CASE s = "active"
      BY <1>2, <1>7, <2>2 DEF Status
    <2>3. CASE s = "past_due"
      BY <1>3, <1>7, <2>3 DEF Status
    <2>4. CASE s = "grace_period"
      BY <1>4, <1>7, <2>4 DEF Status
    <2>5. CASE s = "cancelled"
      BY <1>5, <1>7, <2>5 DEF Status
    <2>6. CASE s = "expired"
      BY <1>6, <1>7, <2>6 DEF Status
    <2> QED
      BY <2>1, <2>2, <2>3, <2>4, <2>5, <2>6 DEF Status
  <1>8. \A k \in Kinds : k \notin DOMAIN Transitions["cancelled"]
    BY <1>5 DEF Kinds
  <1> QED
    BY <1>7, <1>8

(* A step writes the place of one request, and leaves the others. *)
LEMMA OneRequest ==
  ASSUME TypeOK, NEW r \in Requests, NEW q, req' = [req EXCEPT ![r] = q]
  PROVE  /\ req'[r] = q /\ DOMAIN req' = Requests
         /\ \A o \in Requests : o # r => req'[o] = req[o]
         /\ q \in Request => req' \in [Requests -> Request]
  BY DEF TypeOK

(* Goes moves a request on with all it carries, Ends forgets it. *)
LEMMA GoesEnds ==
  ASSUME TypeOK, NEW r \in Requests, NEW at \in At
  PROVE  /\ [req[r] EXCEPT !.at = at] \in Request
         /\ [req[r] EXCEPT !.at = at].at = at
         /\ \A f \in {"read", "set", "remote", "arg"} : [req[r] EXCEPT !.at = at][f] = req[r][f]
         /\ Goes(r, at) => req' = [req EXCEPT ![r] = [req[r] EXCEPT !.at = at]]
         /\ Idle \in Request /\ Idle.at = "idle"
  <1>1. req[r] \in Request /\ req \in [Requests -> Request]
    BY DEF TypeOK
  <1>2. Idle \in Request /\ Idle.at = "idle"
    BY DEF Idle, Request, At
  <1> DEFINE new == [req[r] EXCEPT !.at = at]
  <1>3. new \in Request /\ new.at = at
    BY <1>1 DEF Request
  <1>4. new.read = req[r].read /\ new.set = req[r].set /\ new.remote = req[r].remote /\ new.arg = req[r].arg
    BY <1>1 DEF Request
  <1>5. Goes(r, at) => req' = [req EXCEPT ![r] = new]
    BY <1>1 DEF Goes
  <1> QED
    BY <1>2, <1>3, <1>4, <1>5

(* The copy a request carries and the fields it sets. *)
LEMMA PersistedIs ==
  ASSUME TypeOK, CarryInv, NEW r \in Requests, req[r].at = "persist"
  PROVE  /\ sub # None /\ sub \in Subscription /\ Persisted(r) \in Subscription
         /\ Persisted(r).version = sub.version + 1 /\ Persisted(r).remote = sub.remote
         /\ Upgrades(req[r]) => /\ Persisted(r).plan = req[r].arg /\ Persisted(r).status = "active"
                                /\ Persisted(r).cancelAtPeriodEnd = sub.cancelAtPeriodEnd
         /\ ~Upgrades(req[r]) => Persisted(r).plan = sub.plan
         /\ CancelsLater(req[r]) => Persisted(r).cancelAtPeriodEnd
         /\ ~CancelsLater(req[r]) => Persisted(r).cancelAtPeriodEnd = sub.cancelAtPeriodEnd
         /\ CancelsNow(req[r]) => Persisted(r).status = "cancelled"
         /\ Applies(req[r]) => Persisted(r).status = Transitions[req[r].read.status][kind[req[r].arg]]
         /\ Schedules(req[r]) \/ CancelsLater(req[r]) => Persisted(r).status = sub.status
  <1> DEFINE q == req[r]
             new == Persisted(r)
  <1>1. q \in Request /\ q.set \in Change /\ q.read \in Subscription
    BY DEF TypeOK, Request, Fits
  <1>2. Carries(q) /\ sub \in Subscription
    BY DEF CarryInv, TypeOK, Carries
  <1>3. DOMAIN sub = {"status", "plan", "scheduled", "cancelAtPeriodEnd", "remote", "version"}
    BY <1>2 DEF Subscription
  <1>4. new = [status |-> IF "status" \in DOMAIN q.set THEN q.set.status ELSE sub.status,
               plan |-> IF "plan" \in DOMAIN q.set THEN q.set.plan ELSE sub.plan,
               scheduled |-> IF "scheduled" \in DOMAIN q.set THEN q.set.scheduled ELSE sub.scheduled,
               cancelAtPeriodEnd |-> IF "cancelAtPeriodEnd" \in DOMAIN q.set
                                     THEN q.set.cancelAtPeriodEnd ELSE sub.cancelAtPeriodEnd,
               remote |-> sub.remote,
               version |-> sub.version + 1]
    <2>1. "remote" \notin DOMAIN q.set
      <3>1. ASSUME q.set \in [status : {"active"}, plan : Plans, scheduled : {None}]
            PROVE  DOMAIN q.set = {"status", "plan", "scheduled"}
        BY <3>1
      <3>2. ASSUME q.set \in [scheduled : Plans]
            PROVE  DOMAIN q.set = {"scheduled"}
        BY <3>2
      <3>3. ASSUME q.set \in [cancelAtPeriodEnd : {TRUE}]
            PROVE  DOMAIN q.set = {"cancelAtPeriodEnd"}
        BY <3>3
      <3>4. ASSUME q.set \in [status : Status]
            PROVE  DOMAIN q.set = {"status"}
        BY <3>4
      <3>5. \/ q.set \in [status : {"active"}, plan : Plans, scheduled : {None}]
            \/ q.set \in [scheduled : Plans] \/ q.set \in [cancelAtPeriodEnd : {TRUE}]
            \/ q.set \in [status : Status]
        BY <1>1, Zenon DEF Change
      <3>6. \/ DOMAIN q.set = {"status", "plan", "scheduled"} \/ DOMAIN q.set = {"scheduled"}
            \/ DOMAIN q.set = {"cancelAtPeriodEnd"} \/ DOMAIN q.set = {"status"}
        BY <3>1, <3>2, <3>3, <3>4, <3>5, Zenon
      <3> HIDE DEF q
      <3> QED
        BY <3>6
    <2> QED
      BY <1>2, <1>3, <2>1 DEF Persisted
  <1>5. CASE Upgrades(q)
    <2>1. DOMAIN q.set = {"status", "plan", "scheduled"} /\ q.set.status = "active" /\ q.set.plan = q.arg /\ q.set.scheduled = None
      BY <1>5 DEF Upgrades
    <2>2. new = [status |-> "active", plan |-> q.arg, scheduled |-> None, cancelAtPeriodEnd |-> sub.cancelAtPeriodEnd,
                 remote |-> sub.remote, version |-> sub.version + 1]
      BY <1>4, <2>1
    <2>3. ~Schedules(q) /\ ~Applies(q) /\ ~CancelsLater(q) /\ ~CancelsNow(q)
      BY <1>5 DEF Upgrades, Schedules, Applies, CancelsLater, CancelsNow
    <2> QED
      BY <1>2, <1>5, <2>2, <2>3 DEF Subscription, Status, Upgrades
  <1>6. CASE Schedules(q)
    <2>1. DOMAIN q.set = {"scheduled"} /\ q.set.scheduled = q.arg /\ q.arg \in Plans
      BY <1>6 DEF Schedules
    <2>2. new = [status |-> sub.status, plan |-> sub.plan, scheduled |-> q.arg, cancelAtPeriodEnd |-> sub.cancelAtPeriodEnd,
                 remote |-> sub.remote, version |-> sub.version + 1]
      BY <1>4, <2>1
    <2>3. ~Upgrades(q) /\ ~Applies(q) /\ ~CancelsLater(q) /\ ~CancelsNow(q)
      BY <1>6 DEF Upgrades, Schedules, Applies, CancelsLater, CancelsNow
    <2> QED
      BY <1>2, <1>6, <2>1, <2>2, <2>3 DEF Subscription
  <1>7. CASE CancelsLater(q)
    <2>1. DOMAIN q.set = {"cancelAtPeriodEnd"} /\ q.set.cancelAtPeriodEnd = TRUE
      BY <1>7 DEF CancelsLater
    <2>2. new = [status |-> sub.status, plan |-> sub.plan, scheduled |-> sub.scheduled, cancelAtPeriodEnd |-> TRUE,
                 remote |-> sub.remote, version |-> sub.version + 1]
      BY <1>4, <2>1
    <2>3. ~Upgrades(q) /\ ~Applies(q) /\ ~Schedules(q) /\ ~CancelsNow(q)
      <3>1. q.set # [status |-> "cancelled"]
        BY <1>7 DEF CancelsLater
      <3> QED
        BY <1>7, <3>1 DEF Upgrades, Schedules, Applies, CancelsLater, CancelsNow
    <2>4. new \in Subscription
      BY <1>2, <2>2 DEF Subscription
    <2>5. new.status = sub.status /\ new.plan = sub.plan /\ new.version = sub.version + 1
            /\ new.remote = sub.remote /\ new.cancelAtPeriodEnd
      BY <2>2
    <2> QED
      BY <1>2, <1>7, <2>3, <2>4, <2>5
  <1>8. CASE CancelsNow(q)
    <2>1. DOMAIN q.set = {"status"} /\ q.set.status = "cancelled"
      BY <1>8 DEF CancelsNow
    <2>2. new = [status |-> "cancelled", plan |-> sub.plan, scheduled |-> sub.scheduled,
                 cancelAtPeriodEnd |-> sub.cancelAtPeriodEnd, remote |-> sub.remote, version |-> sub.version + 1]
      BY <1>4, <2>1
    <2>3. ~Upgrades(q) /\ ~Applies(q) /\ ~Schedules(q) /\ ~CancelsLater(q)
      <3>1. q.set # [cancelAtPeriodEnd |-> TRUE]
        BY <1>8 DEF CancelsNow
      <3> QED
        BY <1>8, <3>1 DEF Upgrades, Schedules, Applies, CancelsLater, CancelsNow
    <2>4. new \in Subscription
      BY <1>2, <2>2 DEF Subscription, Status
    <2>5. new.status = "cancelled" /\ new.plan = sub.plan /\ new.version = sub.version + 1
            /\ new.remote = sub.remote /\ new.cancelAtPeriodEnd = sub.cancelAtPeriodEnd
      BY <2>2
    <2> QED
      BY <1>2, <1>8, <2>3, <2>4, <2>5
  <1>9. CASE Applies(q)
    <2> DEFINE to == Transitions[q.read.status][kind[q.arg]]
    <2>1. DOMAIN q.set = {"status"} /\ q.set.status = to
      BY <1>9 DEF Applies
    <2>2. new = [status |-> to, plan |-> sub.plan, scheduled |-> sub.scheduled,
                 cancelAtPeriodEnd |-> sub.cancelAtPeriodEnd, remote |-> sub.remote, version |-> sub.version + 1]
      BY <1>4, <2>1
    <2>3. ~Upgrades(q) /\ ~Schedules(q) /\ ~CancelsLater(q) /\ ~CancelsNow(q)
      BY <1>9 DEF Upgrades, Schedules, Applies, CancelsLater, CancelsNow
    <2>4. to \in Status
      <3>1. q.set.status \in Status
        BY <1>1, <2>1 DEF Change, Status
      <3> QED
        BY <2>1, <3>1
    <2>5. to = Transitions[req[r].read.status][kind[req[r].arg]]
      OBVIOUS
    <2> HIDE DEF to
    <2>6. new \in Subscription
      BY <1>2, <2>2, <2>4 DEF Subscription
    <2>7. new.status = to /\ new.plan = sub.plan /\ new.version = sub.version + 1
            /\ new.remote = sub.remote /\ new.cancelAtPeriodEnd = sub.cancelAtPeriodEnd
      BY <2>2
    <2> QED
      BY <1>2, <1>9, <2>3, <2>5, <2>6, <2>7
  <1> QED
    BY <1>2, <1>5, <1>6, <1>7, <1>8, <1>9 DEF Carries

----------------------------------------------------------------------------
(* Steps that change neither the subscription nor the provider's, and no event *)

(* What no part of IInv but TypeOK speaks of. *)
RestOK ==
  /\ customer \in BOOLEAN /\ acked \subseteq Events /\ broken \subseteq Requests
  /\ usage \in [Keys -> {"none", "in", "after"}] /\ over \in BOOLEAN /\ overlapped \in BOOLEAN
  /\ calls \in 0 .. MaxCalls /\ faults \in 0 .. MaxFaults

Awaits(q) == q.at = "persist" /\ q.remote # None

(* Requests that await keep what they carry when nobody joins or leaves them. *)
LEMMA SyncKept ==
  ASSUME SyncInv, sub \in Subscription, sub' = sub, remote'[sub.remote] = remote[sub.remote],
         broken \subseteq broken',
         \A o \in Requests : Awaits(req[o]) \/ Awaits(req'[o]) => req'[o] = req[o]
  PROVE  SyncInv'
  <1>1. Awaiting' = Awaiting /\ \A o \in Awaiting : req'[o] = req[o]
    BY DEF Awaiting, Awaits
  <1>2. CASE sub.remote \in broken
    BY <1>2 DEF SyncInv
  <1>3. CASE \E o \in Awaiting : req[o].read.version # sub.version
    BY <1>1, <1>3 DEF SyncInv
  <1>4. ASSUME Together(remote[sub.remote])
        PROVE  Together(remote[sub.remote])'
    BY <1>1, <1>4 DEF Together, Upgrades, CancelsLater, CancelsNow
  <1> QED
    BY <1>2, <1>3, <1>4 DEF SyncInv

(* A request that takes a step of its own, and leaves behind what it had begun. *)
LEMMA NeutralStep ==
  ASSUME IInv, RestOK', NEW r \in Requests, NEW q \in Request, Fits(q),
         req' = [req EXCEPT ![r] = q], UNCHANGED <<sub, remote, kind, hook, applied>>,
         broken \subseteq broken',
         q.at \in {"provider", "persist"} => Carries(q),
         \A e \in Events : Holds(q, e) =>
           /\ Holds(req[r], e) /\ q.at # "complete"
           /\ q.at \in {"apply", "persist"} => req[r].at \in {"apply", "persist"},
         q.at \in {"customer", "subscribe"} => sub = None \/ r # sub.remote,
         q.at # "save", req[r].at = "save" => r \in broken',
         ~Awaits(q), Awaits(req[r]) => req[r].remote \in broken'
  PROVE  IInv'
  <1>1. /\ req'[r] = q /\ req' \in [Requests -> Request]
        /\ \A o \in Requests : o # r => req'[o] = req[o]
    BY OneRequest DEF IInv
  <1>2. TypeOK'
    BY <1>1 DEF IInv, TypeOK, RestOK, Fits
  <1>3. CarryInv'
    BY <1>1 DEF IInv, CarryInv, Carries, Upgrades, Schedules, Applies, CancelsLater, CancelsNow
  <1>4. HookInv'
    BY <1>1 DEF IInv, HookInv, Holds
  <1>5. WebhookOnce'
    BY DEF IInv, WebhookOnce
  <1>6. SavedInv'
    <2>1. sub # None => sub.remote \in Requests
      BY DEF IInv, TypeOK, Subscription
    <2> QED
      BY <1>1, <2>1 DEF IInv, SavedInv
  <1>7. SyncInv'
    <2>1. CASE sub = None
      BY <2>1 DEF SyncInv
    <2>2. CASE sub # None /\ Awaits(req[r])
      <3>1. req[r].remote = sub.remote
        BY <2>2 DEF IInv, CarryInv, Carries, Awaits, Upgrades, Schedules, Applies, CancelsLater, CancelsNow
      <3> QED
        BY <2>2, <3>1 DEF SyncInv
    <2>3. CASE sub # None /\ ~Awaits(req[r])
      <3>1. sub \in Subscription
        BY <2>3 DEF IInv, TypeOK
      <3>2. \A o \in Requests : Awaits(req[o]) \/ Awaits(req'[o]) => req'[o] = req[o]
        BY <1>1, <2>3
      <3> QED
        BY <3>1, <3>2, SyncKept DEF IInv
    <2> QED
      BY <2>1, <2>2, <2>3
  <1> QED
    BY <1>2, <1>3, <1>4, <1>5, <1>6, <1>7 DEF IInv

(* A request that ends. *)
LEMMA EndingStep ==
  ASSUME IInv, RestOK', NEW r \in Requests, Ends(r), UNCHANGED <<sub, remote, kind, hook, applied>>,
         broken \subseteq broken', req[r].at = "save" => r \in broken',
         Awaits(req[r]) => req[r].remote \in broken'
  PROVE  IInv'
  <1>1. Idle \in Request /\ Idle.at = "idle"
    BY DEF Idle, Request, At
  <1>2. req' = [req EXCEPT ![r] = Idle] /\ Fits(Idle)
    BY <1>1 DEF Ends, Fits
  <1>3. ~Awaits(Idle) /\ \A e \in Events : ~Holds(Idle, e)
    BY <1>1 DEF Awaits, Holds
  <1> QED
    BY <1>1, <1>2, <1>3, NeutralStep

(* A request that goes on with what it carries, to a place that writes nothing. *)
LEMMA GoingStep ==
  ASSUME IInv, RestOK', NEW r \in Requests, NEW at \in {"subscribe", "fail", "add"}, Goes(r, at),
         UNCHANGED <<sub, remote, kind, hook, applied>>, broken \subseteq broken',
         at = "subscribe" => req[r].at = "customer",
         at = "fail" => \E e \in Events : Holds(req[r], e),
         at = "add" => req[r].at = "totals",
         Awaits(req[r]) => req[r].remote \in broken'
  PROVE  IInv'
  <1> DEFINE q == [req[r] EXCEPT !.at = at]
  <1>1. TypeOK /\ at \in At /\ req[r] \in Request /\ Fits(req[r])
    BY DEF IInv, TypeOK, At
  <1>2. q \in Request /\ q.at = at /\ q.arg = req[r].arg /\ q.read = req[r].read
    BY <1>1 DEF Request
  <1>3. req' = [req EXCEPT ![r] = q]
    BY <1>1 DEF Goes, TypeOK
  <1> HIDE DEF q
  <1>4. Fits(q)
    BY <1>1, <1>2 DEF Fits, Holds
  <1>5. ~Awaits(q) /\ q.at \notin {"provider", "persist", "save", "complete", "apply"}
    BY <1>2 DEF Awaits
  <1>6. \A e \in Events : Holds(q, e) => Holds(req[r], e)
    BY <1>2 DEF Holds
  <1>7. at = "subscribe" => sub = None \/ r # sub.remote
    BY DEF IInv, SavedInv
  <1>8. req[r].at # "save"
    BY DEF Holds
  <1> QED
    BY <1>2, <1>3, <1>4, <1>5, <1>6, <1>7, <1>8, NeutralStep

LEMMA StartStep ==
  ASSUME IInv, NEW r \in Requests, NEW p \in Plans, Start(r, p)
  PROVE  IInv'
  <1> DEFINE q == [Idle EXCEPT !.at = IF customer THEN "subscribe" ELSE "customer", !.arg = p]
  <1>1. q \in Request /\ q.at \in {"subscribe", "customer"} /\ q.arg = p
    BY DEF Idle, Request, At
  <1>2. req' = [req EXCEPT ![r] = q]
    BY DEF Start, Enters
  <1> HIDE DEF q
  <1>3. RestOK'
    BY DEF Start, Begins, IInv, TypeOK, RestOK, meters, hookVars
  <1>4. Fits(q) /\ ~Awaits(q) /\ \A e \in Events : ~Holds(q, e)
    BY <1>1 DEF Fits, Awaits, Holds
  <1>5. req[r].at = "idle" /\ sub = None /\ broken' = broken /\ UNCHANGED <<sub, remote, kind, hook, applied>>
    BY DEF Start, Begins, hookVars
  <1>6. ~Awaits(req[r])
    BY <1>5 DEF Awaits
  <1> QED
    BY <1>1, <1>2, <1>3, <1>4, <1>5, <1>6, NeutralStep

LEMMA CreateCustomerStep ==
  ASSUME IInv, NEW r \in Requests, CreateCustomer(r)
  PROVE  IInv'
  <1>1. RestOK'
    BY DEF CreateCustomer, IInv, TypeOK, RestOK, meters, hookVars
  <1>2. req[r].at = "customer" /\ broken' = broken /\ UNCHANGED <<sub, remote, kind, hook, applied>>
    BY DEF CreateCustomer, hookVars
  <1>3. ~Awaits(req[r])
    BY <1>2 DEF Awaits
  <1>4. CASE Ends(r)
    BY <1>1, <1>2, <1>3, <1>4, EndingStep
  <1>5. CASE Goes(r, "subscribe")
    BY <1>1, <1>2, <1>3, <1>5, GoingStep
  <1> QED
    BY <1>4, <1>5 DEF CreateCustomer

LEMMA ChangePlanStep ==
  ASSUME IInv, NEW r \in Requests, NEW p \in Plans, ChangePlan(r, p)
  PROVE  IInv'
  <1> DEFINE up == [at |-> "provider", read |-> sub, remote |-> sub.remote, arg |-> p,
                    set |-> [status |-> "active", plan |-> p, scheduled |-> None]]
             later == [at |-> "persist", read |-> sub, remote |-> None, arg |-> p,
                       set |-> [scheduled |-> p]]
  <1>1. sub # None /\ sub \in Subscription /\ sub.version \in Nat /\ sub.remote \in Requests
    BY DEF ChangePlan, IInv, TypeOK, Subscription
  <1>2. up \in Request /\ up.set # None
    <2>1. up.set \in Change
      BY DEF Change
    <2> QED
      BY <1>1, <2>1 DEF Request, At
  <1>3. later \in Request /\ later.set # None
    <2>1. later.set \in Change
      BY DEF Change
    <2> QED
      BY <1>1, <2>1 DEF Request, At
  <1>4. RestOK'
    BY DEF ChangePlan, Begins, IInv, TypeOK, RestOK, meters, hookVars
  <1>5. req[r].at = "idle" /\ broken' = broken /\ UNCHANGED <<sub, remote, kind, hook, applied>>
    BY DEF ChangePlan, Begins, hookVars
  <1>6. ~Awaits(req[r])
    BY <1>5 DEF Awaits
  <1>7. p \notin Events /\ p # None
    OBVIOUS
  <1>8. CASE Price[p] > Price[sub.plan]
    <2>1. req' = [req EXCEPT ![r] = up]
      BY <1>8, Zenon DEF ChangePlan, Enters
    <2>2. Carries(up)
      BY <1>1, <1>8 DEF Carries, Upgrades
    <2>3. Fits(up) /\ ~Awaits(up) /\ \A e \in Events : ~Holds(up, e)
      BY <1>1, <1>2, <1>7 DEF Fits, Awaits, Holds
    <2>4. up.at = "provider"
      OBVIOUS
    <2> HIDE DEF up
    <2> QED
      BY <1>2, <1>4, <1>5, <1>6, <2>1, <2>2, <2>3, <2>4, NeutralStep
  <1>9. CASE ~(Price[p] > Price[sub.plan])
    <2>1. req' = [req EXCEPT ![r] = later]
      BY <1>9, Zenon DEF ChangePlan, Enters
    <2>2. Carries(later)
      BY <1>1, <1>9 DEF Carries, Schedules
    <2>3. Fits(later) /\ ~Awaits(later) /\ \A e \in Events : ~Holds(later, e)
      BY <1>1, <1>3, <1>7 DEF Fits, Awaits, Holds
    <2>4. later.at = "persist"
      OBVIOUS
    <2> HIDE DEF later
    <2> QED
      BY <1>3, <1>4, <1>5, <1>6, <2>1, <2>2, <2>3, <2>4, NeutralStep
  <1> QED
    BY <1>8, <1>9

LEMMA CancelStep ==
  ASSUME IInv, NEW r \in Requests, NEW atPeriodEnd \in BOOLEAN, Cancel(r, atPeriodEnd)
  PROVE  IInv'
  <1> DEFINE set == IF atPeriodEnd THEN [cancelAtPeriodEnd |-> TRUE] ELSE [status |-> "cancelled"]
             q == [at |-> "provider", read |-> sub, remote |-> sub.remote, arg |-> None, set |-> set]
  <1>1. sub # None /\ sub \in Subscription /\ sub.version \in Nat /\ sub.remote \in Requests
    BY DEF Cancel, IInv, TypeOK, Subscription
  <1>2. set \in Change
    <2>1. CASE atPeriodEnd
      BY <2>1 DEF Change
    <2>2. CASE ~atPeriodEnd
      BY <2>2 DEF Change, Status
    <2> QED
      BY <2>1, <2>2
  <1>3. set = [cancelAtPeriodEnd |-> TRUE] \/ set = [status |-> "cancelled"]
    OBVIOUS
  <1>4. req' = [req EXCEPT ![r] = q]
    BY Zenon DEF Cancel, Enters
  <1> HIDE DEF set
  <1>5. q \in Request /\ q.at = "provider" /\ q.read = sub /\ q.set = set /\ q.arg = None /\ q.remote = sub.remote
    BY <1>1, <1>2 DEF Request, At
  <1> HIDE DEF q
  <1>6. Carries(q)
    BY <1>1, <1>3, <1>5 DEF Carries, CancelsLater, CancelsNow
  <1>7. Fits(q) /\ ~Awaits(q) /\ \A e \in Events : ~Holds(q, e)
    BY <1>1, <1>2, <1>5 DEF Fits, Awaits, Holds
  <1>8. RestOK'
    BY DEF Cancel, Begins, IInv, TypeOK, RestOK, meters, hookVars
  <1>9. req[r].at = "idle" /\ broken' = broken /\ UNCHANGED <<sub, remote, kind, hook, applied>>
    BY DEF Cancel, Begins, hookVars
  <1>10. ~Awaits(req[r])
    BY <1>9 DEF Awaits
  <1> QED
    BY <1>4, <1>5, <1>6, <1>7, <1>8, <1>9, <1>10, NeutralStep

LEMMA PersistConflictStep ==
  ASSUME IInv, NEW r \in Requests, PersistConflict(r)
  PROVE  IInv'
  <1>1. req[r].at = "persist" /\ broken' = Abandoned(r) /\ UNCHANGED <<sub, remote, kind, hook, applied>>
    BY DEF PersistConflict, hookVars
  <1>2. req[r].remote \in Requests \union {None}
    BY DEF IInv, TypeOK, Request
  <1>3. broken \subseteq broken' /\ broken' \subseteq Requests
    BY <1>1, <1>2 DEF Abandoned, IInv, TypeOK
  <1>4. RestOK'
    BY <1>3 DEF PersistConflict, IInv, TypeOK, RestOK, meters, hookVars
  <1>5. Awaits(req[r]) => req[r].remote \in broken'
    BY <1>1, <1>2 DEF Awaits, Abandoned
  <1>6. CASE req[r].arg \in Events
    <2>1. Goes(r, "fail") /\ Holds(req[r], req[r].arg)
      BY <1>1, <1>6 DEF PersistConflict, Refused, Holds
    <2> QED
      BY <1>1, <1>3, <1>4, <1>5, <1>6, <2>1, GoingStep
  <1>7. CASE req[r].arg \notin Events
    <2>1. Ends(r)
      BY <1>7 DEF PersistConflict, Refused
    <2> QED
      BY <1>1, <1>3, <1>4, <1>5, <2>1, EndingStep
  <1> QED
    BY <1>6, <1>7

LEMMA ApplyEventStep ==
  ASSUME IInv, NEW r \in Requests, ApplyEvent(r)
  PROVE  IInv'
  <1> DEFINE e == req[r].arg
             k == kind[e]
             to == Transitions[sub.status][k]
             q == [req[r] EXCEPT !.at = "persist", !.read = sub, !.set = [status |-> to]]
  <1>1. /\ req[r].at = "apply" /\ broken' = broken /\ req[r] \in Request /\ e \in Events
        /\ UNCHANGED <<sub, remote, kind, hook, applied>> /\ Holds(req[r], e)
    BY DEF ApplyEvent, hookVars, IInv, TypeOK, Fits, Holds
  <1>2. RestOK'
    BY DEF ApplyEvent, IInv, TypeOK, RestOK, meters, hookVars
  <1>3. ~Awaits(req[r])
    BY <1>1 DEF Awaits
  <1>4. CASE Accepts(k)
    <2>1. req' = [req EXCEPT ![r] = q]
      BY <1>4, Zenon DEF ApplyEvent, Enters
    <2>2. sub # None /\ sub \in Subscription /\ k \in DOMAIN Transitions[sub.status]
      BY <1>4 DEF Accepts, IInv, TypeOK
    <2>3. to \in Status
      BY <2>2, TransitionsMove DEF Subscription
    <2>4. [status |-> to] \in Change
      BY <2>3 DEF Change
    <2>5. /\ q \in Request /\ q.at = "persist" /\ q.read = sub /\ q.set = [status |-> to]
          /\ q.arg = e /\ q.remote = req[r].remote
      BY <1>1, <2>2, <2>4 DEF Request, At
    <2>6. req[r].remote = None
      BY <1>1 DEF IInv, TypeOK, Fits
    <2>7. sub.version \in Nat
      BY <2>2 DEF Subscription
    <2> HIDE DEF q, to
    <2>8. Carries(q)
      <3>1. Applies(q)
        BY <1>1, <2>2, <2>5, <2>6 DEF Applies, to
      <3> QED
        BY <2>2, <2>5, <2>7, <3>1 DEF Carries
    <2>9. Fits(q)
      BY <2>2, <2>4, <2>5 DEF Fits
    <2>10. ~Awaits(q) /\ \A x \in Events : Holds(q, x) => Holds(req[r], x)
      BY <1>1, <2>5, <2>6 DEF Awaits, Holds
    <2> QED
      BY <1>1, <1>2, <1>3, <2>1, <2>5, <2>8, <2>9, <2>10, NeutralStep
  <1>5. CASE ~Accepts(k)
    <2>1. Goes(r, "fail")
      BY <1>5 DEF ApplyEvent
    <2> QED
      BY <1>1, <1>2, <1>3, <2>1, GoingStep
  <1> QED
    BY <1>4, <1>5

LEMMA CompleteThrowsStep ==
  ASSUME IInv, NEW r \in Requests, CompleteThrows(r)
  PROVE  IInv'
  <1> DEFINE e == req[r].arg
             q == [req[r] EXCEPT !.at = "fail"]
  <1>1. /\ req[r].at = "complete" /\ broken' = broken /\ e \in Events /\ req[r] \in Request
        /\ hook' \in {hook, [hook EXCEPT ![e] = "processed"]} /\ req' = [req EXCEPT ![r] = q]
        /\ UNCHANGED <<sub, remote, kind, applied>>
    BY DEF CompleteThrows, Goes, IInv, TypeOK, Fits
  <1>2. /\ q \in Request /\ q.at = "fail" /\ q.arg = e
    BY <1>1 DEF Request, At
  <1> HIDE DEF q
  <1>3. /\ req'[r] = q /\ req' \in [Requests -> Request]
        /\ \A o \in Requests : o # r => req'[o] = req[o]
    BY <1>1, <1>2, OneRequest DEF IInv
  <1>4. /\ hook' \in [Events -> HookStatus]
        /\ hook'[e] \in {hook[e], "processed"}
        /\ \A x \in Events : x # e => hook'[x] = hook[x]
    BY <1>1 DEF IInv, TypeOK, HookStatus
  <1>5. TypeOK'
    <2>1. RestOK'
      BY <1>4 DEF CompleteThrows, Fault, IInv, TypeOK, RestOK, meters
    <2>2. \A o \in Requests : Fits(req'[o])
      BY <1>1, <1>2, <1>3 DEF IInv, TypeOK, Fits
    <2> QED
      BY <1>1, <1>3, <1>4, <2>1, <2>2 DEF IInv, TypeOK, RestOK
  <1>6. CarryInv'
    BY <1>1, <1>2, <1>3 DEF IInv, CarryInv, Carries, Upgrades, Schedules, Applies, CancelsLater, CancelsNow
  <1>7. HookInv' /\ WebhookOnce'
    <2>1. \A o \in Requests : \A x \in Events : Holds(req'[o], x) => Holds(req[o], x)
      BY <1>1, <1>2, <1>3 DEF Holds
    <2>2. Holds(req[r], e)
      BY <1>1 DEF Holds
    <2>3. \A x \in Events : \A r1, r2 \in Requests : Holds(req'[r1], x) /\ Holds(req'[r2], x) => r1 = r2
      BY <2>1 DEF IInv, HookInv
    <2>4. /\ hook[e] # "none"
          /\ kind[e] # "unmapped" => applied[e] = 1
      BY <1>1, <2>2 DEF IInv, HookInv
    <2>5. \A o \in Requests : Holds(req'[o], e) => o = r
      BY <1>1, <2>1, <2>2 DEF IInv, HookInv
    <2>6. ASSUME NEW x \in Events
          PROVE  /\ hook'[x] = "none" => applied[x] = 0
                 /\ \A o \in Requests : Holds(req'[o], x) =>
                      /\ hook'[x] # "none"
                      /\ req'[o].at \in {"apply", "persist"} => applied[x] = 0
                      /\ req'[o].at = "complete" /\ kind[x] # "unmapped" => applied[x] = 1
                 /\ applied[x] <= 1
                 /\ hook'[x] = "processed" /\ kind[x] # "unmapped" => applied[x] = 1
      <3>1. CASE x = e
        <4>1. applied[e] <= 1
          BY <1>1 DEF IInv, WebhookOnce
        <4>2. hook'[e] # "none"
          BY <1>4, <2>4
        <4> QED
          BY <1>2, <1>3, <2>4, <2>5, <3>1, <4>1, <4>2
      <3>2. CASE x # e
        <4>1. \A o \in Requests : Holds(req'[o], x) => Holds(req[o], x) /\ req'[o] = req[o]
          BY <1>2, <1>3, <2>1, <3>2 DEF Holds
        <4> QED
          BY <1>4, <3>2, <4>1 DEF IInv, HookInv, WebhookOnce
      <3> QED
        BY <3>1, <3>2
    <2> QED
      BY <1>1, <2>3, <2>6 DEF HookInv, WebhookOnce
  <1>8. SavedInv'
    <2>1. sub # None => sub.remote \in Requests
      BY DEF IInv, TypeOK, Subscription
    <2> QED
      BY <1>1, <1>2, <1>3, <2>1 DEF IInv, SavedInv
  <1>9. SyncInv'
    <2>1. \A o \in Requests : Awaits(req[o]) \/ Awaits(req'[o]) => req'[o] = req[o]
      BY <1>1, <1>2, <1>3 DEF Awaits
    <2>2. CASE sub = None
      BY <1>1, <2>2 DEF SyncInv
    <2>3. CASE sub # None
      <3>1. sub \in Subscription
        BY <2>3 DEF IInv, TypeOK
      <3> QED
        BY <1>1, <2>1, <3>1, SyncKept DEF IInv
    <2> QED
      BY <2>2, <2>3
  <1> QED
    BY <1>5, <1>6, <1>7, <1>8, <1>9 DEF IInv

LEMMA RecordUsageStep ==
  ASSUME IInv, NEW r \in Requests, NEW k \in Keys, RecordUsage(r, k)
  PROVE  IInv'
  <1> DEFINE q == [Idle EXCEPT !.at = "totals", !.read = sub, !.arg = k]
  <1>1. sub # None /\ sub \in Subscription /\ req' = [req EXCEPT ![r] = q]
    BY DEF RecordUsage, Enters, IInv, TypeOK
  <1>2. q \in Request /\ q.at = "totals" /\ q.arg = k /\ q.read = sub
    BY <1>1 DEF Idle, Request, At
  <1> HIDE DEF q
  <1>3. RestOK'
    BY DEF RecordUsage, Begins, IInv, TypeOK, RestOK, meters, hookVars
  <1>4. Fits(q) /\ ~Awaits(q) /\ \A e \in Events : ~Holds(q, e)
    BY <1>1, <1>2 DEF Fits, Awaits, Holds
  <1>5. req[r].at = "idle" /\ broken' = broken /\ UNCHANGED <<sub, remote, kind, hook, applied>>
    BY DEF RecordUsage, Begins, hookVars
  <1>6. ~Awaits(req[r])
    BY <1>5 DEF Awaits
  <1> QED
    BY <1>1, <1>2, <1>3, <1>4, <1>5, <1>6, NeutralStep

LEMMA EnforceStep ==
  ASSUME IInv, NEW r \in Requests, Enforce(r)
  PROVE  IInv'
  <1>1. RestOK'
    <2>1. overlapped' \in BOOLEAN
      BY Zenon DEF Enforce, LetIn, IInv, TypeOK
    <2> QED
      BY <2>1, Zenon DEF Enforce, IInv, TypeOK, RestOK, hookVars
  <1>2. req[r].at = "totals" /\ broken' = broken /\ UNCHANGED <<sub, remote, kind, hook, applied>>
    BY DEF Enforce, hookVars
  <1>3. ~Awaits(req[r])
    BY <1>2 DEF Awaits
  <1>4. CASE Ends(r)
    BY <1>1, <1>2, <1>3, <1>4, EndingStep
  <1>5. CASE Goes(r, "add")
    BY <1>1, <1>2, <1>3, <1>5, GoingStep
  <1> QED
    BY <1>4, <1>5 DEF Enforce, LetIn

LEMMA AddUsageStep ==
  ASSUME IInv, NEW r \in Requests, AddUsage(r)
  PROVE  IInv'
  <1>1. req[r].at = "add" /\ broken' = broken /\ Ends(r) /\ UNCHANGED <<sub, remote, kind, hook, applied>>
    BY DEF AddUsage, hookVars
  <1>2. usage' \in [Keys -> {"none", "in", "after"}]
    BY DEF AddUsage, IInv, TypeOK
  <1>3. RestOK'
    BY <1>2 DEF AddUsage, IInv, TypeOK, RestOK, hookVars
  <1>4. ~Awaits(req[r])
    BY <1>1 DEF Awaits
  <1> QED
    BY <1>1, <1>3, <1>4, EndingStep

LEMMA CrashStep ==
  ASSUME IInv, NEW r \in Requests, Crash(r)
  PROVE  IInv'
  <1>1. broken' = broken \union Touched(r) /\ Ends(r) /\ UNCHANGED <<sub, remote, kind, hook, applied>>
    BY DEF Crash, hookVars
  <1>2. req[r].remote \in Requests \union {None}
    BY DEF IInv, TypeOK, Request
  <1>3. Touched(r) \subseteq Requests
    BY <1>2 DEF Touched
  <1>4. RestOK'
    BY <1>1, <1>3 DEF Crash, Fault, IInv, TypeOK, RestOK, meters, hookVars
  <1>5. (req[r].at = "save" => r \in broken') /\ (Awaits(req[r]) => req[r].remote \in broken')
    BY <1>1, <1>2 DEF Awaits, Touched
  <1> QED
    BY <1>1, <1>4, <1>5, EndingStep

(* The end of the period, and an event that another request has claimed. *)
LEMMA AloneStep ==
  ASSUME IInv, RestOK', UNCHANGED <<sub, remote, kind, hook, applied, req, broken>>
  PROVE  IInv'
  <1>1. TypeOK'
    BY DEF IInv, TypeOK, RestOK
  <1>2. CarryInv'
    BY DEF IInv, CarryInv, Carries, Upgrades, Schedules, Applies, CancelsLater, CancelsNow
  <1>3. HookInv' /\ WebhookOnce'
    BY DEF IInv, HookInv, Holds, WebhookOnce
  <1>4. SavedInv'
    BY DEF IInv, SavedInv
  <1>5. SyncInv'
    BY DEF IInv, SyncInv, Together, Awaiting, Upgrades, CancelsLater, CancelsNow
  <1> QED
    BY <1>1, <1>2, <1>3, <1>4, <1>5 DEF IInv

LEMMA PeriodEndsStep ==
  ASSUME IInv, PeriodEnds
  PROVE  IInv'
  <1>1. RestOK'
    BY DEF PeriodEnds, IInv, TypeOK, RestOK, hookVars
  <1> QED
    BY <1>1, AloneStep DEF PeriodEnds, hookVars

----------------------------------------------------------------------------
(* Steps that write the subscription *)

(* The request whose copy is current writes: every other copy is old from now on. *)
LEMMA WriteStep ==
  ASSUME IInv, RestOK', NEW r \in Requests, req[r].at = "persist", Current(r), sub' = Persisted(r),
         applied' = IF req[r].arg \in Events THEN [applied EXCEPT ![req[r].arg] = @ + 1] ELSE applied,
         NEW q \in Request, Fits(q), req' = [req EXCEPT ![r] = q],
         q.at \in {"idle", "complete", "fail"},
         \A e \in Events : Holds(q, e) => Holds(req[r], e),
         UNCHANGED <<remote, kind, hook, broken>>
  PROVE  IInv'
  <1>1. /\ req'[r] = q /\ req' \in [Requests -> Request]
        /\ \A o \in Requests : o # r => req'[o] = req[o]
    BY OneRequest DEF IInv
  <1>2. /\ sub \in Subscription /\ sub # None /\ sub' \in Subscription /\ sub' # None
        /\ sub.version \in Nat /\ sub.remote \in Requests
        /\ sub'.version = sub.version + 1 /\ sub'.remote = sub.remote
    <2>1. sub \in Subscription /\ sub # None /\ sub' \in Subscription
          /\ sub'.version = sub.version + 1 /\ sub'.remote = sub.remote
      BY PersistedIs DEF IInv
    <2> QED
      BY <2>1 DEF Subscription
  <1>3. Carries(req[r]) /\ req[r].read = sub
    BY DEF IInv, CarryInv, Carries, Current
  <1>4. \A e \in Events : applied[e] \in Nat
    BY DEF IInv, TypeOK
  <1>5. \A e \in Events : IF Holds(req[r], e) THEN applied'[e] = 1 ELSE applied'[e] = applied[e]
    <2>1. \A e \in Events : Holds(req[r], e) <=> req[r].arg = e
      BY DEF Holds
    <2>2. \A e \in Events : Holds(req[r], e) => applied[e] = 0
      BY DEF IInv, HookInv
    <2>3. applied \in [Events -> Nat]
      BY DEF IInv, TypeOK
    <2> QED
      BY <2>1, <2>2, <2>3
  <1>6. TypeOK'
    <2>1. \A o \in Requests : Fits(req'[o])
      BY <1>1 DEF IInv, TypeOK
    <2>2. applied' \in [Events -> Nat]
      BY DEF IInv, TypeOK
    <2> QED
      BY <1>1, <1>2, <2>1, <2>2 DEF IInv, TypeOK, RestOK
  <1>7. CarryInv'
    <2> SUFFICES ASSUME NEW o \in Requests, req'[o].at \in {"provider", "persist"}
                 PROVE  Carries(req[o])'
      BY DEF CarryInv
    <2>1. o # r /\ req'[o] = req[o]
      BY <1>1
    <2>2. Carries(req[o]) /\ req[o].read \in Subscription
      BY <2>1 DEF IInv, CarryInv, TypeOK, Fits, Request
    <2>3. req[o].read.version \in Nat
      BY <2>2 DEF Subscription
    <2>4. req[o].read.version < sub'.version
      BY <1>2, <2>2, <2>3 DEF Carries
    <2> QED
      BY <1>2, <2>1, <2>2, <2>3, <2>4 DEF Carries, Upgrades, Schedules, Applies, CancelsLater, CancelsNow
  <1>8. HookInv'
    <2> SUFFICES ASSUME NEW e \in Events
                 PROVE  /\ \A r1, r2 \in Requests : Holds(req'[r1], e) /\ Holds(req'[r2], e) => r1 = r2
                        /\ hook[e] = "none" => applied'[e] = 0
                        /\ \A o \in Requests : Holds(req'[o], e) =>
                             /\ hook[e] # "none"
                             /\ req'[o].at \in {"apply", "persist"} => applied'[e] = 0
                             /\ req'[o].at = "complete" /\ kind[e] # "unmapped" => applied'[e] = 1
      BY DEF HookInv
    <2>1. \A o \in Requests : Holds(req'[o], e) => Holds(req[o], e)
      BY <1>1
    <2>2. \A r1, r2 \in Requests : Holds(req'[r1], e) /\ Holds(req'[r2], e) => r1 = r2
      BY <2>1 DEF IInv, HookInv
    <2>3. hook[e] = "none" => applied'[e] = 0
      BY <1>5 DEF IInv, HookInv
    <2>4. ASSUME NEW o \in Requests, Holds(req'[o], e)
          PROVE  /\ hook[e] # "none"
                 /\ req'[o].at \in {"apply", "persist"} => applied'[e] = 0
                 /\ req'[o].at = "complete" /\ kind[e] # "unmapped" => applied'[e] = 1
      <3>1. Holds(req[o], e) /\ hook[e] # "none"
        BY <2>1, <2>4 DEF IInv, HookInv
      <3>2. CASE o = r
        BY <1>1, <1>5, <3>1, <3>2
      <3>3. CASE o # r
        <4>1. ~Holds(req[r], e)
          BY <3>1, <3>3 DEF IInv, HookInv
        <4> QED
          BY <1>1, <1>5, <3>1, <3>3, <4>1 DEF IInv, HookInv
      <3> QED
        BY <3>2, <3>3
    <2> QED
      BY <2>2, <2>3, <2>4
  <1>9. WebhookOnce'
    <2>1. ASSUME NEW e \in Events
          PROVE  applied'[e] <= 1 /\ (hook[e] = "processed" /\ kind[e] # "unmapped" => applied'[e] = 1)
      BY <1>5 DEF IInv, WebhookOnce
    <2> QED
      BY <2>1 DEF WebhookOnce
  <1>10. SavedInv'
    BY <1>1, <1>2 DEF IInv, SavedInv
  <1>11. SyncInv'
    <2> DEFINE far == remote[sub.remote]
    <2> SUFFICES ASSUME sub.remote \notin broken,
                        \A o \in Awaiting' : req'[o].read.version = sub'.version
                 PROVE  Together(far)'
      BY <1>2 DEF SyncInv
    <2>1. Awaiting' = {} /\ Awaiting \subseteq {r} /\ (r \in Awaiting <=> Awaits(req[r]))
      <3>1. \A o \in Requests : Awaits(req[o]) /\ o # r => o \in Awaiting'
        BY <1>1 DEF Awaiting, Awaits
      <3>2. \A o \in Requests : Awaits(req[o]) /\ o # r => req'[o].read.version # sub'.version
        <4>1. \A o \in Requests : Awaits(req[o]) => Carries(req[o]) /\ req[o].read \in Subscription
          BY DEF IInv, CarryInv, TypeOK, Fits, Request, Awaits
        <4>2. \A o \in Requests : Awaits(req[o]) => req[o].read.version \in Nat
          BY <4>1 DEF Subscription
        <4> QED
          BY <1>1, <1>2, <4>1, <4>2 DEF Carries
      <3>3. ~Awaits(q)
        BY DEF Awaits
      <3>4. Awaiting' = {}
        BY <1>1, <3>1, <3>2, <3>3 DEF Awaiting, Awaits
      <3> QED
        BY <3>1, <3>4 DEF Awaiting, Awaits
    <2>2. Together(far)
      <3>1. \A o \in Awaiting : req[o].read.version = sub.version
        BY <1>3, <2>1
      <3> QED
        BY <1>2, <3>1 DEF IInv, SyncInv
    <2>3. sub'.plan = far.plan
      <3>1. CASE Upgrades(req[r])
        <4>1. sub'.plan = req[r].arg
          BY <3>1, PersistedIs DEF IInv
        <4>2. req[r].remote # None /\ Awaits(req[r])
          BY <1>2, <1>3, <3>1 DEF Upgrades, Awaits
        <4> QED
          BY <2>1, <2>2, <3>1, <4>1, <4>2 DEF Together
      <3>2. CASE ~Upgrades(req[r])
        <4>1. sub'.plan = sub.plan
          BY <3>2, PersistedIs DEF IInv
        <4> QED
          BY <2>1, <2>2, <3>2, <4>1 DEF Together
      <3> QED
        BY <3>1, <3>2
    <2>4. far.end = "period" => sub'.cancelAtPeriodEnd
      <3>1. CASE CancelsLater(req[r])
        BY <3>1, PersistedIs DEF IInv
      <3>2. CASE ~CancelsLater(req[r])
        <4>1. sub'.cancelAtPeriodEnd = sub.cancelAtPeriodEnd
          BY <3>2, PersistedIs DEF IInv
        <4> QED
          BY <2>1, <2>2, <3>2, <4>1 DEF Together
      <3> QED
        BY <3>1, <3>2
    <2>5. far.end = "now" => sub'.status = "cancelled"
      <3> SUFFICES ASSUME far.end = "now"
                   PROVE  sub'.status = "cancelled"
        OBVIOUS
      <3>1. CASE CancelsNow(req[r])
        BY <3>1, PersistedIs DEF IInv
      <3>2. CASE ~CancelsNow(req[r])
        <4>1. sub.status = "cancelled" /\ Awaiting = {}
          BY <2>1, <2>2, <3>2 DEF Together
        <4>2. ~Awaits(req[r]) /\ req[r].remote = None
          BY <2>1, <4>1 DEF Awaits
        <4>3. Schedules(req[r]) \/ Applies(req[r])
          BY <1>2, <1>3, <4>2 DEF Carries, Upgrades, CancelsLater, CancelsNow
        <4>4. ~Applies(req[r])
          <5>1. req[r].arg \in Events => kind[req[r].arg] \in Kinds
            BY DEF IInv, TypeOK
          <5> QED
            BY <1>3, <4>1, <5>1, TransitionsMove DEF Applies
        <4>5. sub'.status = sub.status
          BY <4>3, <4>4, PersistedIs DEF IInv
        <4> QED
          BY <4>1, <4>5
      <3> QED
        BY <3>1, <3>2
    <2> QED
      BY <1>2, <2>1, <2>3, <2>4, <2>5 DEF Together
  <1> QED
    BY <1>6, <1>7, <1>8, <1>9, <1>10, <1>11 DEF IInv

LEMMA PersistStep ==
  ASSUME IInv, NEW r \in Requests, Persist(r) \/ PersistUnknown(r)
  PROVE  IInv'
  <1>1. /\ req[r].at = "persist" /\ Current(r) /\ sub' = Persisted(r)
        /\ applied' = IF req[r].arg \in Events THEN [applied EXCEPT ![req[r].arg] = @ + 1] ELSE applied
        /\ UNCHANGED <<remote, kind, hook, broken>>
    BY DEF Persist, PersistUnknown
  <1>2. RestOK'
    BY DEF Persist, PersistUnknown, Fault, IInv, TypeOK, RestOK, meters
  <1>3. ASSUME Ends(r)
        PROVE  IInv'
    <2>1. Idle \in Request /\ Idle.at = "idle"
      BY DEF Idle, Request, At
    <2>2. req' = [req EXCEPT ![r] = Idle] /\ Fits(Idle) /\ \A e \in Events : ~Holds(Idle, e)
      BY <1>3, <2>1 DEF Ends, Fits, Holds
    <2> QED
      BY <1>1, <1>2, <2>1, <2>2, WriteStep
  <1>4. ASSUME NEW at \in {"complete", "fail"}, Goes(r, at), req[r].arg \in Events
        PROVE  IInv'
    <2> DEFINE q == [req[r] EXCEPT !.at = at]
    <2>1. TypeOK /\ req[r] \in Request /\ at \in At
      BY DEF IInv, TypeOK, At
    <2>2. q \in Request /\ q.at = at /\ q.arg = req[r].arg
      BY <2>1 DEF Request
    <2>3. req' = [req EXCEPT ![r] = q]
      BY <1>4, <2>1 DEF Goes, TypeOK
    <2> HIDE DEF q
    <2>4. Fits(q)
      BY <1>4, <2>2 DEF Fits
    <2>5. \A e \in Events : Holds(q, e) => Holds(req[r], e)
      BY <1>1, <2>2 DEF Holds
    <2>6. q.at \in {"idle", "complete", "fail"}
      BY <2>2
    <2> QED
      BY <1>1, <1>2, <2>2, <2>3, <2>4, <2>5, <2>6, WriteStep
  <1>5. \/ Ends(r)
        \/ req[r].arg \in Events /\ (Goes(r, "complete") \/ Goes(r, "fail"))
    <2>1. Handled(r) \/ Refused(r)
      BY DEF Persist, PersistUnknown
    <2>2. CASE req[r].arg \in Events
      BY <2>1, <2>2, Zenon DEF Handled, Refused
    <2>3. CASE ~(req[r].arg \in Events)
      <3>1. Ends(r)
        BY <2>1, <2>3 DEF Handled, Refused
      <3> QED
        BY <3>1
    <2> QED
      BY <2>2, <2>3
  <1> QED
    BY <1>3, <1>4, <1>5

----------------------------------------------------------------------------
(* Steps that change the provider's subscription, or save it *)

LEMMA SubscribeStep ==
  ASSUME IInv, NEW r \in Requests, Subscribe(r)
  PROVE  IInv'
  <1> DEFINE q == [req[r] EXCEPT !.at = "save"]
             far == [plan |-> req[r].arg, end |-> "no"]
  <1>1. /\ req[r].at = "subscribe" /\ req[r] \in Request /\ req[r].arg \in Plans
        /\ UNCHANGED <<sub, kind, hook, applied, broken>>
        /\ remote \in [Requests -> Remote \union {None}]
        /\ sub # None => sub \in Subscription /\ sub.remote \in Requests
    BY DEF Subscribe, hookVars, IInv, TypeOK, Fits, Subscription
  <1>2. RestOK'
    BY DEF Subscribe, IInv, TypeOK, RestOK, hookVars, meters
  <1>3. far \in Remote /\ far # None
    BY <1>1 DEF Remote
  <1> HIDE DEF far
  <1>4. /\ remote' \in [Requests -> Remote \union {None}]
        /\ remote'[r] = IF remote[r] = None THEN far ELSE remote[r]
        /\ \A s \in Requests : s # r => remote'[s] = remote[s]
    BY <1>1, <1>3 DEF Subscribe, far
  <1>5. q \in Request /\ q.at = "save" /\ q.arg = req[r].arg /\ req' = [req EXCEPT ![r] = q]
    BY <1>1 DEF Request, At, Subscribe, Goes, IInv, TypeOK
  <1> HIDE DEF q
  <1>6. /\ req'[r] = q /\ req' \in [Requests -> Request]
        /\ \A o \in Requests : o # r => req'[o] = req[o]
    BY <1>5, OneRequest DEF IInv
  <1>7. r # sub.remote \/ sub = None
    BY <1>1 DEF IInv, SavedInv
  <1>8. TypeOK'
    <2>1. \A o \in Requests : Fits(req'[o])
      BY <1>1, <1>5, <1>6 DEF IInv, TypeOK, Fits
    <2> QED
      BY <1>1, <1>2, <1>4, <1>6, <2>1 DEF IInv, TypeOK, RestOK
  <1>9. CarryInv'
    BY <1>1, <1>5, <1>6 DEF IInv, CarryInv, Carries, Upgrades, Schedules, Applies, CancelsLater, CancelsNow
  <1>10. HookInv' /\ WebhookOnce'
    BY <1>1, <1>5, <1>6 DEF IInv, HookInv, Holds, WebhookOnce
  <1>11. SavedInv'
    <2>1. remote[r] # None => r \in broken
      BY <1>1, <1>7 DEF IInv, SavedInv
    <2>2. sub # None => remote'[sub.remote] # None /\ req'[sub.remote].at \notin {"customer", "subscribe", "save"}
      BY <1>1, <1>4, <1>6, <1>7 DEF IInv, SavedInv
    <2>3. ASSUME NEW s \in Requests
          PROVE  /\ req'[s].at = "save" =>
                      remote'[s] # None /\ (s \in broken \/ remote'[s] = [plan |-> req'[s].arg, end |-> "no"])
                 /\ remote'[s] # None /\ s \notin broken /\ req'[s].at # "save" => sub # None /\ sub.remote = s
      <3>1. CASE s = r
        BY <1>3, <1>4, <1>5, <1>6, <2>1, <3>1 DEF far
      <3>2. CASE s # r
        BY <1>4, <1>6, <3>2 DEF IInv, SavedInv
      <3> QED
        BY <3>1, <3>2
    <2> QED
      BY <1>1, <2>2, <2>3 DEF SavedInv
  <1>12. SyncInv'
    <2>1. CASE sub = None
      BY <1>1, <2>1 DEF SyncInv
    <2>2. CASE sub # None
      <3>1. \A o \in Requests : Awaits(req[o]) \/ Awaits(req'[o]) => req'[o] = req[o]
        BY <1>1, <1>5, <1>6 DEF Awaits
      <3>2. remote'[sub.remote] = remote[sub.remote] /\ sub \in Subscription
        BY <1>1, <1>4, <1>7, <2>2
      <3> QED
        BY <1>1, <3>1, <3>2, SyncKept DEF IInv
    <2> QED
      BY <2>1, <2>2
  <1> QED
    BY <1>8, <1>9, <1>10, <1>11, <1>12 DEF IInv

LEMMA SaveStep ==
  ASSUME IInv, NEW r \in Requests, Save(r)
  PROVE  IInv'
  <1>1. req[r].at = "save" /\ Ends(r) /\ UNCHANGED <<remote, kind, hook, applied>> /\ req[r].arg \in Plans
    BY DEF Save, hookVars, IInv, TypeOK, Fits
  <1>2. ~Awaits(req[r])
    BY <1>1 DEF Awaits
  <1>3. CASE sub # None
    <2>1. sub' = sub /\ broken' = broken \union {r}
      BY <1>3 DEF Save
    <2>2. RestOK'
      BY <2>1 DEF Save, IInv, TypeOK, RestOK, hookVars, meters
    <2> QED
      BY <1>1, <1>2, <2>1, <2>2, EndingStep
  <1>4. CASE sub = None
    <2>1. PICK st \in {"trialing", "active"} :
            sub' = [status |-> st, plan |-> req[r].arg, scheduled |-> None,
                    cancelAtPeriodEnd |-> FALSE, remote |-> r, version |-> 0]
      BY <1>4 DEF Save
    <2>2. broken' = broken
      BY <1>4 DEF Save
    <2>3. sub' \in Subscription
      BY <1>1, <2>1 DEF Subscription, Status
    <2>4. sub' # None /\ sub'.plan = req[r].arg /\ sub'.remote = r
      BY <2>1, <2>3
    <2>5. RestOK'
      BY <2>2 DEF Save, IInv, TypeOK, RestOK, hookVars, meters
    <2>6. Idle \in Request /\ Idle.at = "idle" /\ req' = [req EXCEPT ![r] = Idle]
      BY <1>1 DEF Idle, Request, At, Ends
    <2>7. /\ req'[r] = Idle /\ req' \in [Requests -> Request]
          /\ \A o \in Requests : o # r => req'[o] = req[o]
      BY <2>6, OneRequest DEF IInv
    <2>8. TypeOK'
      <3>1. \A o \in Requests : Fits(req'[o])
        BY <2>6, <2>7 DEF IInv, TypeOK, Fits
      <3> QED
        BY <1>1, <2>2, <2>3, <2>5, <2>7, <3>1 DEF IInv, TypeOK, RestOK
    <2>9. \A o \in Requests : req'[o].at \notin {"provider", "persist"}
      BY <1>4, <2>6, <2>7 DEF IInv, CarryInv, Carries
    <2>10. CarryInv'
      BY <2>9 DEF CarryInv
    <2>11. HookInv' /\ WebhookOnce'
      BY <1>1, <2>6, <2>7 DEF IInv, HookInv, Holds, WebhookOnce
    <2>12. remote[r] # None /\ (r \in broken \/ remote[r] = [plan |-> req[r].arg, end |-> "no"])
      BY <1>1 DEF IInv, SavedInv
    <2>13. SavedInv'
      <3>1. remote'[sub'.remote] # None /\ req'[sub'.remote].at \notin {"customer", "subscribe", "save"}
        BY <1>1, <2>4, <2>6, <2>7, <2>12
      <3>2. ASSUME NEW s \in Requests
            PROVE  /\ req'[s].at = "save" =>
                        remote[s] # None /\ (s \in broken \/ remote[s] = [plan |-> req'[s].arg, end |-> "no"])
                   /\ remote[s] # None /\ s \notin broken /\ req'[s].at # "save" => s = r
        BY <1>4, <2>6, <2>7 DEF IInv, SavedInv
      <3> QED
        BY <1>1, <2>2, <2>4, <3>1, <3>2 DEF SavedInv
    <2>14. SyncInv'
      <3>1. Awaiting' = {}
        BY <2>9 DEF Awaiting
      <3>2. r \notin broken => Together(remote[r])'
        BY <1>1, <2>4, <2>12, <3>1 DEF Together
      <3> QED
        BY <1>1, <2>2, <2>4, <3>2 DEF SyncInv
    <2> QED
      BY <2>8, <2>10, <2>11, <2>13, <2>14 DEF IInv
  <1> QED
    BY <1>3, <1>4

LEMMA CallProviderStep ==
  ASSUME IInv, NEW r \in Requests, CallProvider(r)
  PROVE  IInv'
  <1> DEFINE s == req[r].remote
             set == req[r].set
             new == [plan |-> IF "plan" \in DOMAIN set THEN set.plan ELSE remote[s].plan,
                     end |-> IF "cancelAtPeriodEnd" \in DOMAIN set THEN "period"
                             ELSE IF set.status = "cancelled" THEN "now" ELSE remote[s].end]
  <1>1. /\ req[r].at = "provider" /\ req[r] \in Request
        /\ UNCHANGED <<sub, kind, hook, applied, broken>>
    BY DEF CallProvider, hookVars, IInv, TypeOK
  <1>2. Carries(req[r]) /\ sub # None /\ sub \in Subscription /\ sub.remote \in Requests
    BY <1>1 DEF IInv, CarryInv, Carries, TypeOK, Subscription
  <1>3. Upgrades(req[r]) \/ CancelsLater(req[r]) \/ CancelsNow(req[r])
    BY <1>1, <1>2 DEF Carries, Schedules, Applies
  <1>4. s = sub.remote /\ s # None
    BY <1>2, <1>3 DEF Carries, Upgrades, CancelsLater, CancelsNow
  <1>5. RestOK'
    BY DEF CallProvider, IInv, TypeOK, RestOK, hookVars, meters
  <1>6. CASE remote[s].end = "now"
    <2>1. Ends(r) /\ remote' = remote
      BY <1>6, Zenon DEF CallProvider
    <2> QED
      BY <1>1, <1>5, <2>1, EndingStep DEF Awaits
  <1>7. CASE remote[s].end # "now"
    <2> DEFINE q == [req[r] EXCEPT !.at = "persist"]
    <2>1. /\ q \in Request /\ q.at = "persist" /\ q.arg = req[r].arg /\ q.read = req[r].read
          /\ q.set = req[r].set /\ q.remote = s
      BY <1>1 DEF Request, At
    <2>2. req' = [req EXCEPT ![r] = q] /\ remote' = [remote EXCEPT ![s] = new]
      BY <1>7, Zenon DEF CallProvider, Goes
    <2> HIDE DEF q
    <2>3. /\ req'[r] = q /\ req' \in [Requests -> Request]
          /\ \A o \in Requests : o # r => req'[o] = req[o]
      BY <2>1, <2>2, OneRequest DEF IInv
    <2>4. remote[s] # None /\ remote[s] \in Remote /\ remote \in [Requests -> Remote \union {None}]
      BY <1>2, <1>4 DEF IInv, SavedInv, TypeOK
    <2>5. /\ new \in Remote
          /\ new.plan = IF Upgrades(req[r]) THEN req[r].arg ELSE remote[s].plan
          /\ new.end = IF CancelsLater(req[r]) THEN "period"
                       ELSE IF CancelsNow(req[r]) THEN "now" ELSE remote[s].end
      <3>1. CASE Upgrades(req[r])
        <4>1. DOMAIN set = {"status", "plan", "scheduled"} /\ set.status = "active" /\ set.plan = req[r].arg
          BY <3>1 DEF Upgrades
        <4>2. new = [plan |-> req[r].arg, end |-> remote[s].end]
          BY <4>1
        <4>3. ~CancelsLater(req[r]) /\ ~CancelsNow(req[r]) /\ req[r].arg \in Plans
          BY <3>1 DEF Upgrades, CancelsLater, CancelsNow
        <4> QED
          BY <2>4, <3>1, <4>2, <4>3 DEF Remote
      <3>2. CASE CancelsLater(req[r])
        <4>1. DOMAIN set = {"cancelAtPeriodEnd"} /\ req[r].arg = None
          BY <3>2 DEF CancelsLater
        <4>2. new = [plan |-> remote[s].plan, end |-> "period"]
          BY <4>1
        <4>3. ~Upgrades(req[r])
          BY <4>1 DEF Upgrades
        <4> QED
          BY <2>4, <3>2, <4>2, <4>3 DEF Remote
      <3>3. CASE CancelsNow(req[r])
        <4>1. DOMAIN set = {"status"} /\ set.status = "cancelled" /\ req[r].arg = None
          BY <3>3 DEF CancelsNow
        <4>2. new = [plan |-> remote[s].plan, end |-> "now"]
          BY <4>1
        <4>3. ~Upgrades(req[r]) /\ ~CancelsLater(req[r])
          BY <4>1 DEF Upgrades, CancelsLater
        <4> QED
          BY <2>4, <3>3, <4>2, <4>3 DEF Remote
      <3> QED
        BY <1>3, <3>1, <3>2, <3>3
    <2> HIDE DEF new
    <2>6. /\ remote' \in [Requests -> Remote \union {None}] /\ remote'[s] = new /\ new # None
          /\ \A o \in Requests : o # s => remote'[o] = remote[o]
      <3>1. s \in Requests
        BY <1>2, <1>4
      <3> QED
        BY <2>2, <2>4, <2>5, <3>1
    <2>7. \A o \in Requests : req'[o].at = "persist" /\ o # r => req'[o] = req[o]
      BY <2>3
    <2>8. TypeOK'
      <3>1. \A o \in Requests : Fits(req'[o])
        BY <1>1, <2>1, <2>3 DEF IInv, TypeOK, Fits
      <3> QED
        BY <1>1, <1>5, <2>3, <2>6, <3>1 DEF IInv, TypeOK, RestOK
    <2>9. CarryInv'
      <3>1. ASSUME NEW o \in Requests, req'[o].at \in {"provider", "persist"}
            PROVE  Carries(req'[o])
        <4>1. CASE o = r
          <5>1. Upgrades(q) \/ CancelsLater(q) \/ CancelsNow(q)
            BY <1>3, <2>1 DEF Upgrades, CancelsLater, CancelsNow
          <5> QED
            BY <1>2, <2>1, <2>3, <4>1, <5>1 DEF Carries
        <4>2. CASE o # r
          BY <2>3, <3>1, <4>2 DEF IInv, CarryInv
        <4> QED
          BY <4>1, <4>2
      <3>2. \A x : Carries(x) => Carries(x)'
        BY <1>1 DEF Carries, Upgrades, Schedules, Applies, CancelsLater, CancelsNow
      <3> QED
        BY <3>1, <3>2 DEF CarryInv
    <2>10. \A e \in Events : ~Holds(q, e)
      BY <1>3, <2>1 DEF Holds, Upgrades, CancelsLater, CancelsNow
    <2>11. HookInv' /\ WebhookOnce'
      BY <1>1, <2>3, <2>10 DEF IInv, HookInv, Holds, WebhookOnce
    <2>12. SavedInv'
      <3>1. req'[s].at \notin {"customer", "subscribe", "save"}
        BY <1>2, <1>4, <2>1, <2>3 DEF IInv, SavedInv
      <3> QED
        <4>1. sub' = sub /\ remote'[sub.remote] # None
          BY <1>1, <1>4, <2>6
        <4>2. ASSUME NEW o \in Requests
              PROVE  /\ req'[o].at = "save" =>
                          remote'[o] # None /\ (o \in broken \/ remote'[o] = [plan |-> req'[o].arg, end |-> "no"])
                     /\ remote'[o] # None /\ o \notin broken /\ req'[o].at # "save" => sub.remote = o
          <5>1. CASE o = s
            BY <1>4, <3>1, <5>1
          <5>2. CASE o # s
            <6>1. remote'[o] = remote[o]
              BY <2>6, <5>2
            <6>2. req'[o].at = "save" <=> req[o].at = "save"
              BY <1>1, <2>1, <2>3
            <6>3. req'[o].at = "save" => req'[o] = req[o]
              BY <2>1, <2>3
            <6> QED
              BY <6>1, <6>2, <6>3 DEF IInv, SavedInv
          <5> QED
            BY <5>1, <5>2
        <4> QED
          BY <1>1, <1>2, <1>4, <3>1, <4>1, <4>2 DEF SavedInv
    <2>13. SyncInv'
      <3> SUFFICES ASSUME s \notin broken, \A o \in Awaiting' : req'[o].read.version = sub.version
                   PROVE  Together(remote[sub.remote])'
        BY <1>1, <1>4 DEF SyncInv
      <3>1. /\ r \in Awaiting' /\ r \notin Awaiting /\ Awaiting' = Awaiting \union {r}
            /\ \A o \in Awaiting : o # r /\ req'[o] = req[o]
        BY <1>1, <1>4, <2>1, <2>3 DEF Awaiting
      <3>2. Together(remote[s])
        BY <1>2, <1>4, <3>1 DEF IInv, SyncInv
      <3>3. /\ Upgrades(q) <=> Upgrades(req[r])
            /\ CancelsLater(q) <=> CancelsLater(req[r])
            /\ CancelsNow(q) <=> CancelsNow(req[r])
        BY <2>1 DEF Upgrades, CancelsLater, CancelsNow
      <3>4. \/ sub.plan = new.plan /\ \A o \in Awaiting' : ~Upgrades(req'[o])
            \/ \E o \in Awaiting' : Upgrades(req'[o]) /\ req'[o].arg = new.plan
        <4>1. CASE Upgrades(req[r])
          BY <2>1, <2>3, <2>5, <3>1, <3>3, <4>1
        <4>2. CASE ~Upgrades(req[r])
          BY <2>3, <2>5, <3>1, <3>2, <3>3, <4>2 DEF Together
        <4> QED
          BY <4>1, <4>2
      <3>5. new.end = "period" => sub.cancelAtPeriodEnd \/ \E o \in Awaiting' : CancelsLater(req'[o])
        <4>1. CASE CancelsLater(req[r])
          BY <2>3, <3>1, <3>3, <4>1
        <4>2. CASE ~CancelsLater(req[r])
          BY <2>3, <2>5, <3>1, <3>2, <3>3, <4>2 DEF Together
        <4> QED
          BY <4>1, <4>2
      <3>6. new.end = "now" => \E o \in Awaiting' : CancelsNow(req'[o])
        <4>1. CASE CancelsNow(req[r])
          BY <2>3, <3>1, <3>3, <4>1
        <4>2. CASE ~CancelsNow(req[r])
          BY <1>7, <2>5, <4>2
        <4> QED
          BY <4>1, <4>2
      <3>7. sub' = sub /\ remote'[sub'.remote] = new
        BY <1>1, <1>4, <2>6
      <3>8. new.end = "now" =>
              (\E o \in Awaiting' : CancelsNow(req'[o])) \/ (sub.status = "cancelled" /\ Awaiting' = {})
        BY <3>6
      <3> HIDE DEF s
      <3> QED
        BY <3>4, <3>5, <3>7, <3>8 DEF Together, Upgrades, CancelsLater, CancelsNow
    <2> QED
      BY <2>8, <2>9, <2>11, <2>12, <2>13 DEF IInv
  <1> QED
    BY <1>6, <1>7

----------------------------------------------------------------------------
(* The provider's events *)

LEMMA ReceiveStep ==
  ASSUME IInv, NEW r \in Requests, NEW e \in Events, NEW k \in Kinds, Receive(r, e, k)
  PROVE  IInv'
  <1>1. req[r].at = "idle" /\ UNCHANGED <<sub, remote, applied, broken>> /\ calls' \in 0 .. MaxCalls
    BY DEF Receive, Begins, IInv, TypeOK
  <1>2. RestOK'
    <2>1. acked' \subseteq Events
      BY DEF Receive, IInv, TypeOK
    <2> QED
      BY <1>1, <2>1 DEF Receive, IInv, TypeOK, RestOK, meters
  <1>3. CASE Claimed(e)
    <2>1. UNCHANGED <<kind, hook, req>>
      BY <1>3 DEF Receive
    <2> QED
      BY <1>1, <1>2, <2>1, AloneStep
  <1>4. CASE ~Claimed(e)
    <2> DEFINE q == [Idle EXCEPT !.at = IF k = "unmapped" THEN "complete" ELSE "apply", !.arg = e]
    <2>1. /\ hook[e] = "none" /\ kind' = [kind EXCEPT ![e] = k] /\ hook' = [hook EXCEPT ![e] = "received"]
          /\ req' = [req EXCEPT ![r] = q]
      BY <1>4 DEF Receive, Claimed, Enters
    <2>2. /\ q \in Request /\ q.arg = e /\ q.remote = None
          /\ q.at = IF k = "unmapped" THEN "complete" ELSE "apply"
      BY DEF Idle, Request, At
    <2> HIDE DEF q
    <2>3. /\ req'[r] = q /\ req' \in [Requests -> Request]
          /\ \A o \in Requests : o # r => req'[o] = req[o]
      BY <2>1, <2>2, OneRequest DEF IInv
    <2>4. /\ kind' \in [Events -> Kinds] /\ hook' \in [Events -> HookStatus]
          /\ kind'[e] = k /\ hook'[e] = "received"
          /\ \A x \in Events : x # e => kind'[x] = kind[x] /\ hook'[x] = hook[x]
      BY <2>1 DEF IInv, TypeOK, HookStatus
    <2>5. \A o \in Requests : ~Holds(req[o], e)
      BY <2>1 DEF IInv, HookInv
    <2>6. TypeOK'
      <3>1. \A o \in Requests : Fits(req'[o])
        BY <2>2, <2>3 DEF IInv, TypeOK, Fits
      <3> QED
        BY <1>1, <1>2, <2>3, <2>4, <3>1 DEF IInv, TypeOK, RestOK
    <2>7. CarryInv'
      <3> SUFFICES ASSUME NEW o \in Requests, req'[o].at \in {"provider", "persist"}
                   PROVE  Carries(req[o])'
        BY DEF CarryInv
      <3>1. o # r /\ req'[o] = req[o] /\ Carries(req[o])
        BY <2>2, <2>3 DEF IInv, CarryInv
      <3>2. Applies(req[o]) => kind'[req[o].arg] = kind[req[o].arg]
        BY <2>4, <2>5 DEF Applies, Holds
      <3> QED
        BY <1>1, <3>1, <3>2 DEF Carries, Upgrades, Schedules, Applies, CancelsLater, CancelsNow
    <2>8. HookInv' /\ WebhookOnce'
      <3>1. applied[e] = 0
        BY <2>1 DEF IInv, HookInv
      <3>2. ASSUME NEW x \in Events
            PROVE  /\ \A r1, r2 \in Requests : Holds(req'[r1], x) /\ Holds(req'[r2], x) => r1 = r2
                   /\ hook'[x] = "none" => applied[x] = 0
                   /\ \A o \in Requests : Holds(req'[o], x) =>
                        /\ hook'[x] # "none"
                        /\ req'[o].at \in {"apply", "persist"} => applied[x] = 0
                        /\ req'[o].at = "complete" /\ kind'[x] # "unmapped" => applied[x] = 1
                   /\ applied[x] <= 1
                   /\ hook'[x] = "processed" /\ kind'[x] # "unmapped" => applied[x] = 1
        <4>1. CASE x = e
          BY <2>2, <2>3, <2>4, <2>5, <3>1, <4>1 DEF Holds
        <4>2. CASE x # e
          <5>1. \A o \in Requests : Holds(req'[o], x) => Holds(req[o], x) /\ req'[o] = req[o]
            BY <2>2, <2>3, <4>2 DEF Holds
          <5> QED
            BY <2>4, <4>2, <5>1 DEF IInv, HookInv, WebhookOnce
        <4> QED
          BY <4>1, <4>2
      <3> QED
        BY <1>1, <3>2 DEF HookInv, WebhookOnce
    <2>9. SavedInv'
      <3>1. sub # None => sub.remote \in Requests
        BY DEF IInv, TypeOK, Subscription
      <3>2. req'[r].at \notin {"customer", "subscribe", "save"}
        BY <2>2, <2>3
      <3>3. \A o \in Requests : req'[o].at = "save" => o # r /\ req'[o] = req[o]
        BY <2>3, <3>2
      <3>4. \A o \in Requests : req'[o].at # "save" => req[o].at # "save"
        BY <1>1, <2>3
      <3>5. sub # None => req'[sub.remote].at \notin {"customer", "subscribe", "save"}
        BY <2>3, <3>1, <3>2 DEF IInv, SavedInv
      <3>6. ASSUME NEW o \in Requests
            PROVE  /\ req'[o].at = "save" =>
                        remote[o] # None /\ (o \in broken \/ remote[o] = [plan |-> req'[o].arg, end |-> "no"])
                   /\ remote[o] # None /\ o \notin broken /\ req'[o].at # "save" => sub # None /\ sub.remote = o
        BY <3>3, <3>4 DEF IInv, SavedInv
      <3>7. sub # None => remote[sub.remote] # None
        BY DEF IInv, SavedInv
      <3> QED
        BY <1>1, <3>5, <3>6, <3>7 DEF SavedInv
    <2>10. SyncInv'
      <3>1. \A o \in Requests : Awaits(req[o]) \/ Awaits(req'[o]) => req'[o] = req[o]
        BY <1>1, <2>2, <2>3 DEF Awaits
      <3>2. CASE sub = None
        BY <1>1, <3>2 DEF SyncInv
      <3>3. CASE sub # None
        <4>1. sub \in Subscription
          BY <3>3 DEF IInv, TypeOK
        <4> QED
          BY <1>1, <3>1, <4>1, SyncKept DEF IInv
      <3> QED
        BY <3>2, <3>3
    <2> QED
      BY <2>6, <2>7, <2>8, <2>9, <2>10 DEF IInv
  <1> QED
    BY <1>3, <1>4

(* The request that holds an event marks it and ends: processed, if it was handled. *)
LEMMA MarkStep ==
  ASSUME IInv, RestOK', NEW r \in Requests, NEW mark \in {"processed", "failed"}, Ends(r),
         req[r].at \in {"complete", "fail"}, mark = "processed" => req[r].at = "complete",
         hook' = [hook EXCEPT ![req[r].arg] = mark], UNCHANGED <<sub, remote, kind, applied, broken>>
  PROVE  IInv'
  <1> DEFINE e == req[r].arg
  <1>1. e \in Events /\ Holds(req[r], e)
    BY DEF IInv, TypeOK, Fits, Holds
  <1>2. /\ hook' \in [Events -> HookStatus] /\ hook'[e] = mark
        /\ \A x \in Events : x # e => hook'[x] = hook[x]
    BY <1>1 DEF IInv, TypeOK, HookStatus
  <1>3. Idle \in Request /\ Idle.at = "idle" /\ req' = [req EXCEPT ![r] = Idle]
    BY DEF Idle, Request, At, Ends
  <1>4. /\ req'[r] = Idle /\ req' \in [Requests -> Request]
        /\ \A o \in Requests : o # r => req'[o] = req[o]
    BY <1>3, OneRequest DEF IInv
  <1>5. TypeOK'
    <2>1. \A o \in Requests : Fits(req'[o])
      BY <1>3, <1>4 DEF IInv, TypeOK, Fits
    <2> QED
      BY <1>2, <1>4, <2>1 DEF IInv, TypeOK, RestOK
  <1>6. CarryInv'
    BY <1>3, <1>4 DEF IInv, CarryInv, Carries, Upgrades, Schedules, Applies, CancelsLater, CancelsNow
  <1>7. HookInv' /\ WebhookOnce'
    <2>1. \A o \in Requests : \A x \in Events : Holds(req'[o], x) => o # r /\ req'[o] = req[o]
      BY <1>3, <1>4 DEF Holds
    <2>2. \A o \in Requests : ~Holds(req'[o], e)
      BY <1>1, <2>1 DEF IInv, HookInv
    <2>3. mark = "processed" /\ kind[e] # "unmapped" => applied[e] = 1
      BY <1>1 DEF IInv, HookInv
    <2>4. ASSUME NEW x \in Events
          PROVE  /\ \A r1, r2 \in Requests : Holds(req'[r1], x) /\ Holds(req'[r2], x) => r1 = r2
                 /\ hook'[x] = "none" => applied[x] = 0
                 /\ \A o \in Requests : Holds(req'[o], x) =>
                      /\ hook'[x] # "none"
                      /\ req'[o].at \in {"apply", "persist"} => applied[x] = 0
                      /\ req'[o].at = "complete" /\ kind[x] # "unmapped" => applied[x] = 1
                 /\ applied[x] <= 1
                 /\ hook'[x] = "processed" /\ kind[x] # "unmapped" => applied[x] = 1
      <3>1. CASE x = e
        BY <1>2, <2>2, <2>3, <3>1 DEF IInv, WebhookOnce
      <3>2. CASE x # e
        BY <1>2, <2>1, <3>2 DEF IInv, HookInv, WebhookOnce
      <3> QED
        BY <3>1, <3>2
    <2> QED
      BY <2>4 DEF HookInv, WebhookOnce
  <1>8. SavedInv'
    <2>1. sub # None => sub.remote \in Requests
      BY DEF IInv, TypeOK, Subscription
    <2>2. \A o \in Requests :
            /\ req'[o].at = "save" => req'[o] = req[o]
            /\ req'[o].at # "save" => req[o].at # "save"
            /\ req'[o].at \in {"customer", "subscribe", "save"} => req'[o] = req[o]
      BY <1>3, <1>4
    <2>3. sub # None => /\ remote[sub.remote] # None
                        /\ req'[sub.remote].at \notin {"customer", "subscribe", "save"}
      BY <2>1, <2>2 DEF IInv, SavedInv
    <2>4. ASSUME NEW o \in Requests
          PROVE  /\ req'[o].at = "save" =>
                      remote[o] # None /\ (o \in broken \/ remote[o] = [plan |-> req'[o].arg, end |-> "no"])
                 /\ remote[o] # None /\ o \notin broken /\ req'[o].at # "save" => sub # None /\ sub.remote = o
      BY <2>2 DEF IInv, SavedInv
    <2> QED
      BY <2>3, <2>4 DEF SavedInv
  <1>9. SyncInv'
    <2>1. \A o \in Requests : Awaits(req[o]) \/ Awaits(req'[o]) => req'[o] = req[o]
      BY <1>3, <1>4 DEF Awaits
    <2>2. CASE sub = None
      BY <2>2 DEF SyncInv
    <2>3. CASE sub # None
      <3>1. sub \in Subscription
        BY <2>3 DEF IInv, TypeOK
      <3> QED
        BY <2>1, <3>1, SyncKept DEF IInv
    <2> QED
      BY <2>2, <2>3
  <1> QED
    BY <1>5, <1>6, <1>7, <1>8, <1>9 DEF IInv

LEMMA WebhookStep ==
  ASSUME IInv, NEW r \in Requests, CompleteWebhook(r) \/ FailWebhook(r)
  PROVE  IInv'
  <1>1. CASE CompleteWebhook(r)
    <2>1. RestOK'
      <3>1. acked' \subseteq Events
        BY <1>1 DEF CompleteWebhook, IInv, TypeOK, Fits
      <3> QED
        BY <1>1, <3>1 DEF CompleteWebhook, IInv, TypeOK, RestOK, meters
    <2> QED
      BY <1>1, <2>1, MarkStep DEF CompleteWebhook
  <1>2. CASE FailWebhook(r)
    <2>1. RestOK'
      BY <1>2 DEF FailWebhook, IInv, TypeOK, RestOK, meters
    <2> QED
      BY <1>2, <2>1, MarkStep DEF FailWebhook
  <1> QED
    BY <1>1, <1>2

----------------------------------------------------------------------------
(* The inductive invariant *)

LEMMA InitInv == Init => IInv
  <1> SUFFICES ASSUME Init
               PROVE  IInv
    OBVIOUS
  <1>1. Idle \in Request /\ Fits(Idle) /\ Idle.at = "idle"
    BY DEF Idle, Request, At, Fits
  <1>2. \A r \in Requests : req[r] = Idle
    BY DEF Init
  <1>3. TypeOK
    <2>1. customer \in BOOLEAN /\ over \in BOOLEAN /\ overlapped \in BOOLEAN
      BY DEF Init
    <2>2. kind \in [Events -> Kinds] /\ hook \in [Events -> HookStatus] /\ acked \subseteq Events
      BY DEF Init, Kinds, HookStatus
    <2>3. usage \in [Keys -> {"none", "in", "after"}]
      BY DEF Init
    <2>4. req \in [Requests -> Request] /\ \A r \in Requests : Fits(req[r])
      BY <1>1 DEF Init
    <2>5. /\ sub \in Subscription \union {None} /\ remote \in [Requests -> Remote \union {None}]
          /\ applied \in [Events -> Nat] /\ broken \subseteq Requests
          /\ calls \in 0 .. MaxCalls /\ faults \in 0 .. MaxFaults
      BY DEF Init
    <2> QED
      BY <2>1, <2>2, <2>3, <2>4, <2>5 DEF TypeOK
  <1>4. CarryInv /\ HookInv /\ WebhookOnce
    BY <1>1, <1>2 DEF Init, CarryInv, HookInv, Holds, WebhookOnce
  <1>5. SavedInv /\ SyncInv
    BY <1>1, <1>2 DEF Init, SavedInv, SyncInv
  <1> QED
    BY <1>3, <1>4, <1>5 DEF IInv

LEMMA NextInv == IInv /\ [Next]_vars => IInv'
  <1> SUFFICES ASSUME IInv, [Next]_vars
               PROVE  IInv'
    OBVIOUS
  <1>1. ASSUME NEW r \in Requests, RequestStep(r)
        PROVE  IInv'
    BY <1>1, CreateCustomerStep, SubscribeStep, SaveStep, CallProviderStep, PersistStep,
       PersistConflictStep, ApplyEventStep, WebhookStep, CompleteThrowsStep, EnforceStep,
       AddUsageStep, CrashStep DEF RequestStep
  <1>2. CASE UNCHANGED vars
    <2>1. RestOK'
      BY <1>2 DEF vars, hookVars, meters, IInv, TypeOK, RestOK
    <2> QED
      BY <1>2, <2>1, AloneStep DEF vars, hookVars
  <1> QED
    BY <1>1, <1>2, StartStep, ChangePlanStep, CancelStep, ReceiveStep, RecordUsageStep,
       PeriodEndsStep DEF Next

LEMMA SpecInv == Spec => []IInv
  BY InitInv, NextInv, PTL DEF Spec

(* Every document keeps a value its schema allows, and every request what its place needs. *)
THEOREM TypeCorrect == Spec => []TypeOK
  <1>1. IInv => TypeOK
    BY DEF IInv
  <1> QED
    BY <1>1, SpecInv, PTL

(* However often the provider redelivers an event, its handling changes the       *)
(* subscription at most once, and an event marked processed has done so (receive).*)
THEOREM EventsAppliedOnce == Spec => []WebhookOnce
  <1>1. IInv => WebhookOnce
    BY DEF IInv
  <1> QED
    BY <1>1, SpecInv, PTL

(* The provider's subscription and the local one only come apart while a request  *)
(* stands between its call and its transaction, or when one ended right there     *)
(* (changePlan, cancel and start, which call the provider before they write).     *)
THEOREM ProviderInSync == Spec => []RemoteInSync
  <1>1. ASSUME IInv, NEW s \in Requests, remote[s] # None, s \notin broken, req[s].at # "save",
               \A r \in Requests : ~(req[r].at = "persist" /\ req[r].remote = s)
        PROVE  /\ sub # None /\ sub.remote = s /\ sub.plan = remote[s].plan
               /\ remote[s].end = "period" => sub.cancelAtPeriodEnd
               /\ remote[s].end = "now" => sub.status = "cancelled"
    <2>1. sub # None /\ sub.remote = s
      BY <1>1 DEF IInv, SavedInv
    <2>2. Awaiting = {}
      <3>1. \A r \in Awaiting : Carries(req[r]) /\ req[r].remote # None
        BY <1>1 DEF IInv, CarryInv, Awaiting
      <3>2. \A r \in Awaiting : req[r].remote = s
        BY <2>1, <3>1 DEF Carries, Upgrades, Schedules, Applies, CancelsLater, CancelsNow
      <3> QED
        BY <1>1, <3>2 DEF Awaiting
    <2>3. Together(remote[s])
      BY <1>1, <2>1, <2>2 DEF IInv, SyncInv
    <2> QED
      BY <2>1, <2>2, <2>3 DEF Together
  <1>2. IInv => RemoteInSync
    BY <1>1 DEF RemoteInSync
  <1> QED
    BY <1>2, SpecInv, PTL

(* What SubscriptionMoves asks of a step. *)
Moves ==
  sub # None => /\ sub' # None
                /\ LegalMove(sub.status, sub'.status)
                /\ Price[sub'.plan] >= Price[sub.plan]
                /\ sub' # sub => sub'.version = sub.version + 1

LEMMA NextMoves == IInv /\ [Next]_vars => Moves
  <1> SUFFICES ASSUME IInv, [Next]_vars, sub # None
               PROVE  Moves
    BY DEF Moves
  <1>1. sub \in Subscription /\ \A p \in Plans : Price[p] \in Nat
    BY DEF IInv, TypeOK
  <1>2. sub.plan \in Plans
    BY <1>1 DEF Subscription
  <1>3. CASE sub' = sub
    BY <1>1, <1>2, <1>3 DEF Moves, LegalMove
  <1>4. ASSUME NEW r \in Requests, Persist(r) \/ PersistUnknown(r)
        PROVE  Moves
    <2>1. req[r].at = "persist" /\ Current(r) /\ sub' = Persisted(r)
      BY <1>4 DEF Persist, PersistUnknown
    <2>2. Carries(req[r]) /\ req[r].read = sub
      BY <2>1 DEF IInv, CarryInv, Carries, Current
    <2>3. sub' \in Subscription /\ sub'.version = sub.version + 1 /\ sub' # None
      BY <2>1, PersistedIs DEF IInv
    <2>4. Price[sub'.plan] >= Price[sub.plan]
      <3>1. CASE Upgrades(req[r])
        <4>1. sub'.plan = req[r].arg
          BY <2>1, <3>1, PersistedIs DEF IInv
        <4>2. Price[req[r].arg] > Price[sub.plan] /\ req[r].arg \in Plans
          BY <2>2, <3>1 DEF Upgrades
        <4> QED
          BY <1>1, <1>2, <4>1, <4>2
      <3>2. CASE ~Upgrades(req[r])
        <4>1. sub'.plan = sub.plan
          BY <2>1, <3>2, PersistedIs DEF IInv
        <4> QED
          BY <1>1, <1>2, <4>1
      <3> QED
        BY <3>1, <3>2
    <2>5. LegalMove(sub.status, sub'.status)
      <3>1. CASE Upgrades(req[r]) \/ Schedules(req[r]) \/ CancelsLater(req[r]) \/ CancelsNow(req[r])
        <4>1. sub'.status = sub.status \/ sub'.status \in {"active", "cancelled"}
          BY <2>1, <3>1, PersistedIs DEF IInv
        <4> QED
          BY <4>1 DEF LegalMove
      <3>2. CASE Applies(req[r])
        <4> DEFINE k == kind[req[r].arg]
        <4>1. k \in DOMAIN Transitions[sub.status]
          BY <2>2, <3>2 DEF Applies
        <4>2. sub'.status = Transitions[sub.status][k]
          BY <2>1, <2>2, <3>2, PersistedIs DEF IInv
        <4> QED
          BY <4>1, <4>2 DEF LegalMove
      <3> QED
        BY <2>2, <3>1, <3>2 DEF Carries
    <2> QED
      BY <2>3, <2>4, <2>5 DEF Moves
  <1>5. ASSUME NEW r \in Requests, RequestStep(r)
        PROVE  sub' = sub \/ Persist(r) \/ PersistUnknown(r)
    BY <1>5 DEF RequestStep, CreateCustomer, Subscribe, Save, CallProvider, PersistConflict,
       ApplyEvent, CompleteWebhook, CompleteThrows, FailWebhook, Enforce, AddUsage, Crash
  <1>6. ASSUME UNCHANGED vars \/ PeriodEnds
        PROVE  sub' = sub
    BY <1>6 DEF vars, PeriodEnds
  <1>7. ASSUME NEW r \in Requests,
               \/ \E p \in Plans : Start(r, p) \/ ChangePlan(r, p)
               \/ \E atPeriodEnd \in BOOLEAN : Cancel(r, atPeriodEnd)
               \/ \E e \in Events, k \in Kinds : Receive(r, e, k)
               \/ \E k \in Keys : RecordUsage(r, k)
        PROVE  sub' = sub
    BY <1>7 DEF Start, ChangePlan, Cancel, Receive, RecordUsage
  <1> QED
    BY <1>3, <1>4, <1>5, <1>6, <1>7 DEF Next

(* Nobody writes a status or a plan worked out from a document that has changed   *)
(* since (the version filter of updateSubscription), so that a status only moves  *)
(* along TRANSITIONS or by a command and no upgrade is undone by a cheaper plan.  *)
THEOREM StatusMovesLegally == Spec => SubscriptionMoves
  <1>1. IInv /\ [Next]_vars => [Moves]_vars
    BY NextMoves
  <1>2. Spec => [][Moves]_vars
    BY <1>1, SpecInv, PTL DEF Spec
  <1> QED
    BY <1>2 DEF SubscriptionMoves, Moves

----------------------------------------------------------------------------
(* What the keys of a set record in all *)

(* The units the keys of S record: a pair for each. *)
Units(S) == UNION {{k} \X (1 .. Quantity[k]) : k \in S}
Total(S) == MapThenSumSet(LAMBDA k : Quantity[k], S)

(* The units of one key. *)
LEMMA UnitsOf ==
  ASSUME NEW k \in Keys
  PROVE  IsFiniteSet({k} \X (1 .. Quantity[k])) /\ Cardinality({k} \X (1 .. Quantity[k])) = Quantity[k]
  <1>1. Quantity[k] \in Nat
    OBVIOUS
  <1>2. IsFiniteSet(1 .. Quantity[k]) /\ Cardinality(1 .. Quantity[k]) = Quantity[k]
    BY <1>1, FS_Interval
  <1>3. IsFiniteSet({k}) /\ Cardinality({k}) = 1
    BY FS_Singleton
  <1>4. /\ IsFiniteSet({k} \X (1 .. Quantity[k]))
        /\ Cardinality({k} \X (1 .. Quantity[k])) = Cardinality({k}) * Cardinality(1 .. Quantity[k])
    BY <1>2, <1>3, FS_Product
  <1> QED
    BY <1>1, <1>2, <1>3, <1>4

(* There are finitely many of a set of keys. *)
LEMMA UnitsFinite ==
  ASSUME NEW S \in SUBSET Keys
  PROVE  IsFiniteSet(Units(S)) /\ Cardinality(Units(S)) \in Nat
  <1> DEFINE parts == {{k} \X (1 .. Quantity[k]) : k \in S}
             f == [k \in S |-> {k} \X (1 .. Quantity[k])]
  <1>1. IsFiniteSet(S)
    BY FS_Subset
  <1>2. f \in Surjection(S, parts)
    BY DEF Surjection
  <1>3. IsFiniteSet(parts)
    BY <1>1, <1>2, FS_Surjection
  <1>4. \A p \in parts : IsFiniteSet(p)
    BY UnitsOf
  <1>5. IsFiniteSet(UNION parts)
    BY <1>3, <1>4, FS_UNION
  <1> QED
    BY <1>5, FS_CardinalityType DEF Units

(* Another key adds its own. *)
LEMMA UnitsAdd ==
  ASSUME NEW S \in SUBSET Keys, NEW k \in Keys, k \notin S
  PROVE  Cardinality(Units(S \union {k})) = Cardinality(Units(S)) + Quantity[k]
  <1> DEFINE own == {k} \X (1 .. Quantity[k])
  <1>1. Units(S \union {k}) = Units(S) \union own
    BY DEF Units
  <1>2. Units(S) \intersect own = {}
    BY DEF Units
  <1>3. /\ IsFiniteSet(Units(S)) /\ Cardinality(Units(S)) \in Nat
        /\ IsFiniteSet(own) /\ Cardinality(own) = Quantity[k]
    BY UnitsFinite, UnitsOf
  <1>4. Cardinality(Units(S) \intersect own) = 0
    BY <1>2, FS_EmptySet
  <1> HIDE DEF own
  <1>5. Cardinality(Units(S) \union own) =
          Cardinality(Units(S)) + Cardinality(own) - Cardinality(Units(S) \intersect own)
    BY <1>3, FS_Union
  <1>6. Quantity[k] \in Nat
    OBVIOUS
  <1>7. Cardinality(Units(S \union {k})) = Cardinality(Units(S) \union own)
    BY <1>1
  <1> QED
    BY <1>3, <1>4, <1>5, <1>6, <1>7

(* The recursion MapThenSumSet is defined by. *)
Folded(f, S) ==
  f = [s \in SUBSET S |-> IF s = {} THEN 0
                          ELSE Quantity[CHOOSE x \in s : TRUE] + f[s \ {CHOOSE x \in s : TRUE}]]

(* The sum is the value at S of what the recursion defines. *)
LEMMA TotalIsFold == \A S : Total(S) = (CHOOSE f : Folded(f, S))[S]
  BY DEF Total, MapThenSumSet, MapThenFoldSet, Folded

(* The recursion defines something: counting units satisfies it. *)
LEMMA FoldExists ==
  ASSUME NEW S \in SUBSET Keys
  PROVE  Folded([s \in SUBSET S |-> Cardinality(Units(s))], S)
  <1> DEFINE g == [s \in SUBSET S |-> Cardinality(Units(s))]
  <1>1. Cardinality(Units({})) = 0
    <2>1. Units({}) = {}
      BY DEF Units
    <2> QED
      BY <2>1, FS_EmptySet
  <1>2. ASSUME NEW s \in SUBSET S, s # {}
        PROVE  g[s] = Quantity[CHOOSE x \in s : TRUE] + g[s \ {CHOOSE x \in s : TRUE}]
    <2> DEFINE x == CHOOSE x \in s : TRUE
    <2>1. x \in s
      BY <1>2
    <2> HIDE DEF x
    <2>2. s \ {x} \in SUBSET Keys /\ x \in Keys /\ s = (s \ {x}) \union {x} /\ x \notin s \ {x}
      BY <2>1
    <2>3. Cardinality(Units(s)) = Cardinality(Units(s \ {x})) + Quantity[x]
      BY <2>2, UnitsAdd
    <2>4. Cardinality(Units(s \ {x})) \in Nat /\ Quantity[x] \in Nat
      BY <2>2, UnitsFinite
    <2>5. g[s] = Quantity[x] + g[s \ {x}]
      BY <2>3, <2>4
    <2> QED
      BY <2>5 DEF x
  <1>3. g[{}] = 0
    BY <1>1
  <1>4. g = [s \in SUBSET S |-> g[s]]
    OBVIOUS
  <1>5. \A s \in SUBSET S :
          g[s] = IF s = {} THEN 0 ELSE Quantity[CHOOSE x \in s : TRUE] + g[s \ {CHOOSE x \in s : TRUE}]
    BY <1>2, <1>3
  <1> HIDE DEF g
  <1>6. Folded(g, S)
    BY <1>4, <1>5, Zenon DEF Folded
  <1> QED
    BY <1>6 DEF g

(* Among sets of subsets of a finite set there is always a smallest one. *)
LEMMA SmallestSubset ==
  ASSUME NEW S, IsFiniteSet(S), NEW F, F \subseteq SUBSET S, F # {}
  PROVE  \E T \in F : \A U \in F : ~(<<U, T>> \in StrictSubsetOrdering(S))
  <1>1. FiniteSubsetsOf(S) = SUBSET S
    BY FS_FiniteSubsetsOfFinite
  <1>2. IsWellFoundedOn(StrictSubsetOrdering(S), FiniteSubsetsOf(S))
    BY FS_StrictSubsetOrderingWellFounded
  <1>3. F \subseteq FiniteSubsetsOf(S)
    BY <1>1
  <1> QED
    BY <1>2, <1>3, WFMin

(* And nothing else does: a smallest set where they differ loses one key on both sides. *)
LEMMA TotalIsUnits ==
  ASSUME NEW S \in SUBSET Keys
  PROVE  Total(S) = Cardinality(Units(S))
  <1> DEFINE f == CHOOSE f : Folded(f, S)
             wrong == {s \in SUBSET S : f[s] # Cardinality(Units(s))}
  <1>1. Folded(f, S)
    BY FoldExists
  <1> HIDE DEF f
  <1>2. ASSUME wrong # {} PROVE FALSE
    <2>1. IsFiniteSet(S)
      BY FS_Subset
    <2>2. wrong \subseteq SUBSET S
      OBVIOUS
    <2>3. PICK s \in wrong : \A t \in wrong : ~(<<t, s>> \in StrictSubsetOrdering(S))
      <3> HIDE DEF wrong
      <3> QED
        BY <1>2, <2>1, <2>2, SmallestSubset
    <2>4. s # {}
      <3>1. f[{}] = 0
        BY <1>1 DEF Folded
      <3>2. Units({}) = {}
        BY DEF Units
      <3>3. Cardinality(Units({})) = 0
        BY <3>2, FS_EmptySet
      <3> QED
        BY <3>1, <3>3
    <2> DEFINE x == CHOOSE x \in s : TRUE
    <2>5. x \in s
      BY <2>4
    <2>6. f[s] = Quantity[x] + f[s \ {x}]
      BY <1>1, <2>4 DEF Folded
    <2> HIDE DEF x
    <2>7. <<s \ {x}, s>> \in StrictSubsetOrdering(S)
      BY <2>5 DEF StrictSubsetOrdering
    <2>8. f[s \ {x}] = Cardinality(Units(s \ {x}))
      BY <2>3, <2>7
    <2>9. s \ {x} \in SUBSET Keys /\ x \in Keys /\ s = (s \ {x}) \union {x} /\ x \notin s \ {x}
      BY <2>5
    <2>10. Cardinality(Units(s)) = Cardinality(Units(s \ {x})) + Quantity[x]
      BY <2>9, UnitsAdd
    <2>11. Cardinality(Units(s \ {x})) \in Nat /\ Quantity[x] \in Nat
      BY <2>9, UnitsFinite
    <2> QED
      BY <2>6, <2>8, <2>10, <2>11
  <1>3. f[S] = Cardinality(Units(S))
    BY <1>2
  <1> QED
    BY <1>3, TotalIsFold DEF f

(* The usage the limit counts is a number, nothing at first, and grows by what is recorded. *)
LEMMA UsedIs ==
  ASSUME NEW u \in [Keys -> {"none", "in", "after"}]
  PROVE  /\ Used(u) \in Nat
         /\ (\A k \in Keys : u[k] = "none") => Used(u) = 0
         /\ \A k \in Keys : u[k] = "none" =>
              /\ Used([u EXCEPT ![k] = "in"]) = Used(u) + Quantity[k]
              /\ Used([u EXCEPT ![k] = "after"]) = Used(u)
  <1> DEFINE counted(v) == {k \in Keys : v[k] = "in"}
  <1>1. \A v : Used(v) = Total(counted(v))
    BY DEF Used, Total
  <1>2. \A v : Used(v) = Cardinality(Units(counted(v)))
    BY <1>1, TotalIsUnits
  <1>3. Used(u) \in Nat
    BY <1>2, UnitsFinite
  <1>4. ASSUME \A k \in Keys : u[k] = "none" PROVE Used(u) = 0
    <2>1. Units(counted(u)) = {}
      BY <1>4 DEF Units
    <2> QED
      BY <1>2, <2>1, FS_EmptySet
  <1>5. ASSUME NEW k \in Keys, u[k] = "none"
        PROVE  /\ Used([u EXCEPT ![k] = "in"]) = Used(u) + Quantity[k]
               /\ Used([u EXCEPT ![k] = "after"]) = Used(u)
    <2>1. counted([u EXCEPT ![k] = "in"]) = counted(u) \union {k} /\ k \notin counted(u)
      BY <1>5
    <2>2. counted([u EXCEPT ![k] = "after"]) = counted(u)
      BY <1>5
    <2>3. counted(u) \in SUBSET Keys
      OBVIOUS
    <2> HIDE DEF counted
    <2>4. Cardinality(Units(counted(u) \union {k})) = Cardinality(Units(counted(u))) + Quantity[k]
      BY <2>1, <2>3, UnitsAdd
    <2> QED
      BY <1>2, <2>1, <2>2, <2>4
  <1> QED
    BY <1>3, <1>4, <1>5

(* A key that records most exists: among the sets of the keys that record no less than a key, *)
(* a smallest one.                                                                            *)
LEMMA MostIs == Most \in Nat /\ \A k \in Keys : Quantity[k] <= Most
  <1> DEFINE above(k) == {j \in Keys : Quantity[j] >= Quantity[k]}
             family == {above(k) : k \in Keys}
  <1>1. IsFiniteSet(Keys)
    OBVIOUS
  <1>2. PICK some \in Keys : TRUE
    OBVIOUS
  <1>3. family \subseteq SUBSET Keys /\ above(some) \in family
    OBVIOUS
  <1>4. PICK T \in family : \A U \in family : ~(<<U, T>> \in StrictSubsetOrdering(Keys))
    <2> HIDE DEF family, above
    <2> QED
      BY <1>1, <1>3, SmallestSubset
  <1>5. PICK k \in Keys : T = above(k)
    OBVIOUS
  <1>6. ASSUME NEW j \in Keys, ~(Quantity[j] <= Quantity[k]) PROVE FALSE
    <2>1. Quantity[j] \in Nat /\ Quantity[k] \in Nat /\ \A i \in Keys : Quantity[i] \in Nat
      OBVIOUS
    <2>2. above(j) \subseteq above(k) /\ k \in above(k) /\ k \notin above(j)
      BY <1>6, <2>1
    <2>3. above(j) \in SUBSET Keys /\ above(k) \in SUBSET Keys /\ above(j) \in family
      OBVIOUS
    <2> HIDE DEF above, family
    <2>4. <<above(j), above(k)>> \in StrictSubsetOrdering(Keys)
      BY <2>2, <2>3 DEF StrictSubsetOrdering
    <2> QED
      BY <1>4, <1>5, <2>3, <2>4
  <1>7. \A j \in Keys : Quantity[j] <= Quantity[k] /\ Quantity[j] \in Nat
    BY <1>6
  <1> DEFINE S == {Quantity[j] : j \in Keys}
  <1>8. Quantity[k] \in S /\ \A y \in S : Quantity[k] >= y
    BY <1>7
  <1>9. Most \in S /\ \A y \in S : Most >= y
    <2> HIDE DEF S
    <2>1. (CHOOSE x \in S : \A y \in S : x >= y) \in S
          /\ \A y \in S : (CHOOSE x \in S : \A y1 \in S : x >= y1) >= y
      BY <1>8
    <2>2. Most = CHOOSE x \in S : \A y \in S : x >= y
      BY DEF Most, Max, S
    <2> QED
      BY <2>1, <2>2
  <1> QED
    BY <1>7, <1>9

----------------------------------------------------------------------------
(* How far concurrent calls pass the limit *)

(* What so many records of at most m come to. *)
LEMMA Fewer ==
  ASSUME NEW a \in Nat, NEW b \in Nat, NEW m \in Nat, a <= b
  PROVE  a * m <= b * m /\ (b + 1) * m = b * m + m /\ (b - 1) * m = b * m - m /\ b * m \in Nat
  <1>1. PICK d \in Nat : b = a + d
    <2>1. b - a \in Nat /\ b = a + (b - a)
      OBVIOUS
    <2> QED
      BY <2>1
  <1>2. a * m \in Nat /\ d * m \in Nat /\ b * m = a * m + d * m
    BY <1>1
  <1> QED
    BY <1>1, <1>2

(* Those about to add are some of the requests. *)
LEMMA AddingIs ==
  /\ IsFiniteSet(Adding) /\ Cardinality(Adding) \in Nat
  /\ IsFiniteSet(Requests) /\ Cardinality(Requests) \in Nat
  /\ Cardinality(Adding) <= Cardinality(Requests)
  BY FS_Subset, FS_CardinalityType DEF Adding

(* The numbers Room and Ceiling are made of. *)
LEMMA RoomNumbers ==
  ASSUME TypeOK
  PROVE  /\ Used(usage) \in Nat /\ Most \in Nat
         /\ \A p \in Plans : Limit[p] \in Int /\ Ceiling(p) \in Int
         /\ \A r \in Adding : Quantity[req[r].arg] \in Nat /\ Quantity[req[r].arg] <= Most
  <1>1. Used(usage) \in Nat /\ Most \in Nat
    BY UsedIs, MostIs DEF TypeOK
  <1>2. \A r \in Adding : req[r].arg \in Keys
    BY DEF TypeOK, Adding, Fits
  <1>3. (Cardinality(Requests) - 1) * Most \in Int
    BY <1>1, AddingIs
  <1>4. \A p \in Plans : Limit[p] \in Int /\ Ceiling(p) \in Int
    BY <1>3 DEF Ceiling
  <1>5. \A k \in Keys : Quantity[k] \in Nat
    OBVIOUS
  <1> QED
    BY <1>1, <1>2, <1>4, <1>5, MostIs

(* A step that lets nobody in and records nothing takes no room. *)
LEMMA RoomKept ==
  ASSUME TypeOK, usage' = usage, Adding' \subseteq Adding,
         \A r \in Adding' : req'[r].arg = req[r].arg,
         NEW p \in Plans, Room(p)
  PROVE  Room(p)'
  <1> DEFINE u == Used(usage)
             a == Cardinality(Adding)
             b == Cardinality(Adding')
             m == Most
             c == Ceiling(p)
  <1>1. /\ u \in Nat /\ a \in Nat /\ m \in Nat /\ c \in Int
        /\ \A r \in Adding : Quantity[req[r].arg] \in Nat /\ Quantity[req[r].arg] <= m
    BY RoomNumbers, AddingIs
  <1>2. b \in Nat /\ b <= a /\ (a = b => Adding = Adding')
    <2>1. IsFiniteSet(Adding)
      BY AddingIs
    <2> QED
      BY <2>1, FS_Subset, FS_CardinalityType
  <1>3. Room(p)' <=> \/ u + b * m <= c
                     \/ \E r \in Adding' : u + Quantity[req'[r].arg] + (b - 1) * m <= c
    BY DEF Room, Ceiling, Most
  <1>4. \/ u + a * m <= c
        \/ \E r \in Adding : u + Quantity[req[r].arg] + (a - 1) * m <= c
    BY DEF Room
  <1> HIDE DEF u, a, b, m, c
  <1>5. b * m \in Int /\ a * m \in Int /\ b * m <= a * m /\ (a - 1) * m = a * m - m
    BY <1>1, <1>2, Fewer
  <1>6. CASE u + a * m <= c
    BY <1>1, <1>3, <1>5, <1>6
  <1>7. CASE a = b /\ ~(u + a * m <= c)
    BY <1>2, <1>3, <1>4, <1>7
  <1>8. CASE a # b /\ ~(u + a * m <= c)
    <2>1. PICK r \in Adding : u + Quantity[req[r].arg] + (a - 1) * m <= c
      BY <1>4, <1>8
    <2>2. b <= a - 1 /\ a - 1 \in Nat
      BY <1>1, <1>2, <1>8
    <2>3. b * m <= (a - 1) * m
      BY <1>1, <1>2, <2>2, Fewer
    <2>4. u + b * m <= c
      BY <1>1, <1>5, <2>1, <2>3
    <2> QED
      BY <1>3, <2>4
  <1> QED
    BY <1>6, <1>7, <1>8

(* A request is let in when its record fits: then it is the one that has seen the rest. *)
LEMMA RoomMade ==
  ASSUME TypeOK, usage' = usage, NEW r \in Requests, r \notin Adding, Adding' = Adding \union {r},
         req'[r].arg = req[r].arg, req[r].arg \in Keys,
         NEW p \in Plans, Used(usage) + Quantity[req[r].arg] <= Limit[p]
  PROVE  Room(p)'
  <1> DEFINE u == Used(usage)
             a == Cardinality(Adding)
             b == Cardinality(Adding')
             n == Cardinality(Requests)
             q == Quantity[req[r].arg]
  <1>1. u \in Nat /\ a \in Nat /\ n \in Nat /\ Most \in Nat /\ Limit[p] \in Int /\ q \in Nat
    BY RoomNumbers, AddingIs
  <1>2. b = a + 1
    BY AddingIs, FS_AddElement
  <1>3. a + 1 <= n
    <2>1. Adding \union {r} \subseteq Requests
      BY DEF Adding
    <2> QED
      BY <1>2, <2>1, AddingIs, FS_Subset
  <1>4. Room(p)' <=> \/ u + b * Most <= Ceiling(p)
                     \/ \E s \in Adding' : u + Quantity[req'[s].arg] + (b - 1) * Most <= Ceiling(p)
    BY DEF Room, Ceiling, Most
  <1>5. r \in Adding' /\ Quantity[req'[r].arg] = q
    OBVIOUS
  <1>6. Ceiling(p) = Limit[p] + (n - 1) * Most /\ u + q <= Limit[p]
    BY DEF Ceiling
  <1> HIDE DEF u, a, b, n, q
  <1>7. n - 1 \in Nat /\ a <= n - 1
    BY <1>1, <1>3
  <1>8. a * Most <= (n - 1) * Most /\ a * Most \in Int /\ (n - 1) * Most \in Int
    BY <1>1, <1>7, Fewer
  <1>9. u + q + (b - 1) * Most <= Ceiling(p)
    <2>1. b - 1 = a
      BY <1>1, <1>2
    <2> QED
      BY <1>1, <1>6, <1>8, <2>1
  <1> QED
    BY <1>4, <1>5, <1>9

(* A record takes the room its request was let in for. *)
LEMMA RoomTaken ==
  ASSUME TypeOK, NEW r \in Adding, Adding' = Adding \ {r},
         \A s \in Adding' : req'[s].arg = req[s].arg,
         Used(usage') \in Nat, Used(usage') <= Used(usage) + Quantity[req[r].arg],
         NEW p \in Plans, Room(p)
  PROVE  Room(p)'
  <1> DEFINE u == Used(usage)
             v == Used(usage')
             a == Cardinality(Adding)
             m == Most
             c == Ceiling(p)
  <1>1. /\ u \in Nat /\ v \in Nat /\ a \in Nat /\ m \in Nat /\ c \in Int
        /\ \A s \in Adding : Quantity[req[s].arg] \in Nat /\ Quantity[req[s].arg] <= m
    BY RoomNumbers, AddingIs
  <1>2. Cardinality(Adding') = a - 1
    BY AddingIs, FS_RemoveElement
  <1>3. Room(p)' <=> \/ v + (a - 1) * m <= c
                     \/ \E s \in Adding' : v + Quantity[req'[s].arg] + (a - 1 - 1) * m <= c
    BY <1>2 DEF Room, Ceiling, Most
  <1>4. \/ u + a * m <= c
        \/ \E s \in Adding : u + Quantity[req[s].arg] + (a - 1) * m <= c
    BY DEF Room
  <1>5. v <= u + Quantity[req[r].arg]
    OBVIOUS
  <1> HIDE DEF u, v, a, m, c
  <1>6. a * m \in Int /\ (a - 1) * m = a * m - m /\ (a - 1 - 1) * m = a * m - m - m
    BY <1>1
  <1>7. CASE u + a * m <= c
    BY <1>1, <1>3, <1>5, <1>6, <1>7
  <1>8. ASSUME NEW s \in Adding, u + Quantity[req[s].arg] + (a - 1) * m <= c
        PROVE  Room(p)'
    <2>1. CASE s = r
      <3>1. v + (a - 1) * m <= c
        BY <1>1, <1>5, <1>6, <1>8, <2>1
      <3> QED
        BY <1>3, <3>1
    <2>2. CASE s # r
      <3>1. s \in Adding' /\ req'[s].arg = req[s].arg
        BY <2>2
      <3>2. v + Quantity[req[s].arg] + (a - 1 - 1) * m <= c
        BY <1>1, <1>5, <1>6, <1>8
      <3> QED
        BY <1>3, <3>1, <3>2
    <2> QED
      BY <2>1, <2>2
  <1> QED
    BY <1>4, <1>7, <1>8

(* A subscription only moves to dearer plans, so those it may have had stay such. *)
LEMMA HeldGrows ==
  ASSUME IInv, [Next]_vars, sub # None
  PROVE  sub' # None /\ Held \subseteq Held' /\ Price[sub.plan] <= Price[sub'.plan]
  <1>1. Moves
    BY NextMoves
  <1>2. sub' # None /\ Price[sub'.plan] >= Price[sub.plan]
    BY <1>1 DEF Moves
  <1>3. sub \in Subscription /\ sub' \in Subscription
    BY <1>2, NextInv DEF IInv, TypeOK
  <1>4. sub.plan \in Plans /\ sub'.plan \in Plans /\ \A p \in Plans : Price[p] \in Nat
    BY <1>3 DEF Subscription
  <1> QED
    BY <1>2, <1>4 DEF Held

(* Steps of requests that let nobody in and record nothing. *)
LEMMA MeterKept ==
  ASSUME IInv, MeterInv, [Next]_vars, usage' = usage, sub # None,
         \A r \in Requests : req'[r].at \in {"totals", "add"} => req'[r] = req[r]
  PROVE  MeterInv'
  <1>1. sub' # None /\ Held \subseteq Held' /\ Price[sub.plan] <= Price[sub'.plan]
    BY HeldGrows
  <1>2. /\ sub \in Subscription /\ sub' \in Subscription /\ TypeOK
        /\ sub.plan \in Plans /\ sub'.plan \in Plans /\ \A p \in Plans : Price[p] \in Nat
    BY <1>1, NextInv DEF IInv, TypeOK, Subscription
  <1>3. ASSUME NEW r \in Requests, req'[r].at = "totals"
        PROVE  Price[req'[r].read.plan] <= Price[sub'.plan]
    <2>1. req[r].at = "totals" /\ req'[r].read.plan = req[r].read.plan /\ req[r].read.plan \in Plans
      BY <1>2, <1>3 DEF TypeOK, Fits, Request, Subscription
    <2>2. Price[req[r].read.plan] <= Price[sub.plan]
      BY <2>1 DEF MeterInv
    <2> QED
      BY <1>1, <1>2, <2>1, <2>2
  <1>4. Adding' \subseteq Adding /\ \A r \in Adding' : req'[r].arg = req[r].arg
    BY DEF Adding
  <1>5. ASSUME \A p \in Held' : Limit[p] >= 0
        PROVE  \E p \in Held' : Room(p)'
    <2>1. PICK p \in Held : Room(p)
      BY <1>1, <1>5 DEF MeterInv
    <2>2. p \in Plans
      BY DEF Held
    <2>3. Room(p)'
      BY <1>2, <1>4, <2>1, <2>2, RoomKept
    <2> QED
      BY <1>1, <2>3
  <1> QED
    BY <1>1, <1>3, <1>5 DEF MeterInv

(* The API reads the limit, the totals and the plan in enforce, and lets the record in. *)
LEMMA EnforceMeter ==
  ASSUME IInv, MeterInv, NEW r \in Requests, Enforce(r)
  PROVE  MeterInv'
  <1>1. /\ sub' = sub /\ usage' = usage /\ req[r].at = "totals" /\ sub # None /\ Enforce(r)
        /\ [Next]_vars
    <2>1. [Next]_vars
      BY DEF Next, RequestStep
    <2> QED
      BY <2>1 DEF Enforce, MeterInv
  <1>2. /\ sub \in Subscription /\ TypeOK /\ req[r].arg \in Keys /\ req[r].read \in Subscription
        /\ req[r].read.plan \in Plans
    BY <1>1 DEF IInv, TypeOK, Fits, Request, Subscription
  <1>3. req \in [Requests -> Request]
    BY <1>2 DEF TypeOK
  <1>4. CASE Ends(r)
    <2>1. req' = [req EXCEPT ![r] = Idle]
      BY <1>4 DEF Ends
    <2>2. \A s \in Requests : req'[s].at \in {"totals", "add"} => req'[s] = req[s]
      BY <1>3, <2>1 DEF Idle
    <2> QED
      BY <1>1, <2>2, MeterKept
  <1>5. ASSUME Goes(r, "add"),
               LET limit == Limit[req[r].read.plan]
               IN  ~(limit >= 0 /\ Used(usage) + Quantity[req[r].arg] > limit)
        PROVE  MeterInv'
    <2>1. req' = [req EXCEPT ![r].at = "add"]
      BY <1>5 DEF Goes
    <2>2. /\ req'[r].at = "add" /\ req'[r].arg = req[r].arg
          /\ \A s \in Requests \ {r} : req'[s] = req[s]
      BY <1>3, <2>1 DEF Request
    <2>3. Adding' = Adding \union {r} /\ r \notin Adding
      BY <1>1, <2>2 DEF Adding
    <2>4. req[r].read.plan \in Held
      BY <1>1, <1>2 DEF MeterInv, Held
    <2>5. Held' = Held
      BY <1>1 DEF Held
    <2>6. ASSUME \A p \in Held' : Limit[p] >= 0
          PROVE  \E p \in Held' : Room(p)'
      <3> DEFINE p == req[r].read.plan
      <3>1. Limit[p] >= 0
        BY <2>4, <2>5, <2>6
      <3>2. Used(usage) + Quantity[req[r].arg] <= Limit[p]
        <4>1. Used(usage) \in Nat /\ Quantity[req[r].arg] \in Nat /\ Limit[p] \in Int
          BY <1>2, RoomNumbers
        <4> QED
          BY <1>5, <3>1, <4>1
      <3>3. PICK plan \in Plans : plan = p
        BY <1>2
      <3>4. Room(plan)'
        BY <1>1, <1>2, <2>2, <2>3, <3>2, <3>3, RoomMade
      <3> QED
        BY <2>4, <2>5, <3>3, <3>4
    <2>7. \A s \in Requests : req'[s].at = "totals" => Price[req'[s].read.plan] <= Price[sub'.plan]
      BY <1>1, <2>2 DEF MeterInv
    <2> QED
      BY <1>1, <2>6, <2>7 DEF MeterInv
  <1> QED
    BY <1>1, <1>4, <1>5 DEF Enforce, LetIn

(* addUsage: within the period, under a key not used yet, the record counts. *)
LEMMA RecordAdds ==
  ASSUME TypeOK, NEW r \in Requests, AddUsage(r), req[r].arg \in Keys
  PROVE  Used(usage') \in Nat /\ Used(usage') <= Used(usage) + Quantity[req[r].arg]
  <1> DEFINE k == req[r].arg
  <1>1. \/ usage' = usage
        \/ usage[k] = "none" /\ usage' = [usage EXCEPT ![k] = "in"]
        \/ usage[k] = "none" /\ usage' = [usage EXCEPT ![k] = "after"]
    BY DEF AddUsage
  <1>2. /\ usage \in [Keys -> {"none", "in", "after"}]
        /\ k \in Keys /\ Quantity[k] \in Nat /\ Used(usage) \in Nat
    BY UsedIs DEF TypeOK
  <1> HIDE DEF k
  <1>3. CASE usage' = usage
    BY <1>2, <1>3 DEF k
  <1>4. CASE usage[k] = "none" /\ usage' = [usage EXCEPT ![k] = "in"]
    <2>1. Used(usage') = Used(usage) + Quantity[k]
      BY <1>2, <1>4, UsedIs
    <2> QED
      BY <1>2, <2>1 DEF k
  <1>5. CASE usage[k] = "none" /\ usage' = [usage EXCEPT ![k] = "after"]
    <2>1. Used(usage') = Used(usage)
      BY <1>2, <1>5, UsedIs
    <2> QED
      BY <1>2, <2>1 DEF k
  <1> QED
    BY <1>1, <1>3, <1>4, <1>5 DEF k

(* The record takes the room its request was let in with. *)
LEMMA AddUsageMeter ==
  ASSUME IInv, MeterInv, NEW r \in Requests, AddUsage(r)
  PROVE  MeterInv'
  <1>1. /\ sub' = sub /\ req[r].at = "add" /\ sub # None /\ Ends(r)
    BY DEF AddUsage, MeterInv
  <1>2. /\ TypeOK /\ req[r].arg \in Keys /\ req \in [Requests -> Request]
        /\ usage \in [Keys -> {"none", "in", "after"}]
    BY <1>1 DEF IInv, TypeOK, Fits
  <1>3. req'[r] = Idle /\ \A s \in Requests \ {r} : req'[s] = req[s]
    BY <1>1, <1>2 DEF Ends
  <1>4. r \in Adding /\ Adding' = Adding \ {r} /\ \A s \in Adding' : req'[s].arg = req[s].arg
    BY <1>1, <1>3 DEF Adding, Idle
  <1>5. Used(usage') \in Nat /\ Used(usage') <= Used(usage) + Quantity[req[r].arg]
    BY <1>2, RecordAdds
  <1>6. Held' = Held
    BY <1>1 DEF Held
  <1>7. ASSUME \A p \in Held' : Limit[p] >= 0
        PROVE  \E p \in Held' : Room(p)'
    <2>1. PICK p \in Held : Room(p)
      BY <1>1, <1>6, <1>7 DEF MeterInv
    <2>2. p \in Plans
      BY DEF Held
    <2>3. Room(p)'
      BY <1>2, <1>4, <1>5, <2>1, <2>2, RoomTaken
    <2> QED
      BY <1>6, <2>3
  <1>8. \A s \in Requests : req'[s].at = "totals" => Price[req'[s].read.plan] <= Price[sub'.plan]
    BY <1>1, <1>3 DEF MeterInv, Idle
  <1> QED
    BY <1>1, <1>7, <1>8 DEF MeterInv

(* recordUsage begins with the subscription it reads. *)
LEMMA RecordUsageMeter ==
  ASSUME IInv, MeterInv, NEW r \in Requests, NEW k \in Keys, RecordUsage(r, k)
  PROVE  MeterInv'
  <1>1. /\ sub' = sub /\ usage' = usage /\ sub # None /\ req[r].at = "idle"
        /\ req' = [req EXCEPT ![r] = [Idle EXCEPT !.at = "totals", !.read = sub, !.arg = k]]
    BY DEF RecordUsage, Enters, Begins, meters
  <1>2. TypeOK /\ req \in [Requests -> Request] /\ sub \in Subscription
    BY <1>1 DEF IInv, TypeOK
  <1>3. /\ req'[r].at = "totals" /\ req'[r].read = sub
        /\ \A s \in Requests \ {r} : req'[s] = req[s]
    BY <1>1, <1>2 DEF Idle
  <1>4. sub.plan \in Plans /\ Price[sub.plan] \in Nat
    BY <1>2 DEF Subscription
  <1>5. \A s \in Requests : req'[s].at = "totals" => Price[req'[s].read.plan] <= Price[sub'.plan]
    BY <1>1, <1>3, <1>4 DEF MeterInv
  <1>6. Adding' = Adding /\ \A s \in Adding : req'[s].arg = req[s].arg
    BY <1>1, <1>3 DEF Adding
  <1>7. Held' = Held
    BY <1>1 DEF Held
  <1>8. ASSUME \A p \in Held' : Limit[p] >= 0
        PROVE  \E p \in Held' : Room(p)'
    <2>1. PICK p \in Held : Room(p)
      BY <1>1, <1>7, <1>8 DEF MeterInv
    <2>2. p \in Plans
      BY DEF Held
    <2>3. Room(p)'
      BY <1>1, <1>2, <1>6, <2>1, <2>2, RoomKept
    <2> QED
      BY <1>7, <2>3
  <1> QED
    BY <1>1, <1>5, <1>8 DEF MeterInv

(* Without a subscription nothing is recorded, and the first one begins with none. *)
LEMMA UnsubscribedMeter ==
  ASSUME IInv, MeterInv, [Next]_vars, sub = None, usage' = usage,
         \A r \in Requests : req'[r].at \in {"totals", "add"} => req'[r] = req[r]
  PROVE  MeterInv'
  <1>1. \A r \in Requests : req'[r].at \notin {"totals", "add"}
    BY DEF MeterInv
  <1>2. \A k \in Keys : usage[k] = "none"
    BY DEF MeterInv
  <1>3. ASSUME sub' # None, \A p \in Held' : Limit[p] >= 0
        PROVE  \E p \in Held' : Room(p)'
    <2>1. sub' \in Subscription
      BY <1>3, NextInv DEF IInv, TypeOK
    <2>2. sub'.plan \in Plans /\ Price[sub'.plan] \in Nat
      BY <2>1 DEF Subscription
    <2>3. PICK p \in Plans : p = sub'.plan
      BY <2>2
    <2>4. p \in Held'
      BY <2>2, <2>3 DEF Held
    <2>5. Limit[p] \in Nat
      BY <1>3, <2>3, <2>4
    <2>6. Used(usage) = 0 /\ Most \in Nat
      BY <1>2, UsedIs, MostIs DEF IInv, TypeOK
    <2>7. Adding' = {} /\ Cardinality(Adding') = 0
      BY <1>1, FS_EmptySet DEF Adding
    <2>8. Cardinality(Requests) - 1 \in Nat
      <3>1. sub'.remote \in Requests
        BY <2>1 DEF Subscription
      <3>2. Cardinality(Requests) # 0
        BY <3>1, FS_EmptySet
      <3> QED
        BY <3>2, AddingIs
    <2>9. (Cardinality(Requests) - 1) * Most \in Nat
      BY <2>6, <2>8
    <2>10. Used(usage) + Cardinality(Adding') * Most <= Ceiling(p)
      BY <2>5, <2>6, <2>7, <2>9 DEF Ceiling
    <2>11. Room(p)'
      BY <2>10 DEF Room, Ceiling, Most
    <2> QED
      BY <2>4, <2>11
  <1> QED
    BY <1>1, <1>2, <1>3 DEF MeterInv

(* A step of another kind records nothing and lets nobody in. *)
LEMMA OtherMeter ==
  ASSUME IInv, [Next]_vars,
         \A r \in Requests : ~Enforce(r) /\ ~AddUsage(r) /\ \A k \in Keys : ~RecordUsage(r, k)
  PROVE  /\ usage' = usage
         /\ \A r \in Requests : req'[r].at \in {"totals", "add"} => req'[r] = req[r]
  <1>1. req \in [Requests -> Request]
    BY DEF IInv, TypeOK
  <1>2. ASSUME NEW r \in Requests, NEW q, req' = [req EXCEPT ![r] = q], q.at \notin {"totals", "add"}
        PROVE  \A s \in Requests : req'[s].at \in {"totals", "add"} => req'[s] = req[s]
    BY <1>1, <1>2
  <1>3. ASSUME NEW r \in Requests, NEW at, Goes(r, at), at \notin {"totals", "add"}
        PROVE  \A s \in Requests : req'[s].at \in {"totals", "add"} => req'[s] = req[s]
    <2>1. req' = [req EXCEPT ![r] = [req[r] EXCEPT !.at = at]] /\ req[r] \in Request
      BY <1>1, <1>3 DEF Goes
    <2>2. [req[r] EXCEPT !.at = at].at = at
      BY <2>1 DEF Request
    <2> QED
      BY <1>2, <1>3, <2>1, <2>2
  <1>4. ASSUME NEW r \in Requests, Ends(r)
        PROVE  \A s \in Requests : req'[s].at \in {"totals", "add"} => req'[s] = req[s]
    BY <1>2, <1>4 DEF Ends, Idle
  <1>5. ASSUME NEW r \in Requests, RequestStep(r), ~Enforce(r), ~AddUsage(r)
        PROVE  /\ usage' = usage
               /\ \A s \in Requests : req'[s].at \in {"totals", "add"} => req'[s] = req[s]
    <2>1. usage' = usage
      BY <1>5 DEF RequestStep, CreateCustomer, Subscribe, Save, CallProvider, Persist, PersistConflict,
         PersistUnknown, ApplyEvent, CompleteWebhook, CompleteThrows, FailWebhook, Crash, meters
    <2>2. CASE ApplyEvent(r)
      <3>1. ASSUME Enters(r, [req[r] EXCEPT !.at = "persist", !.read = sub,
                              !.set = [status |-> Transitions[sub.status][kind[req[r].arg]]]])
            PROVE  \A s \in Requests : req'[s].at \in {"totals", "add"} => req'[s] = req[s]
        <4> DEFINE q == [req[r] EXCEPT !.at = "persist", !.read = sub,
                                       !.set = [status |-> Transitions[sub.status][kind[req[r].arg]]]]
        <4>1. q.at = "persist"
          BY <1>1 DEF Request
        <4>2. req' = [req EXCEPT ![r] = q]
          BY <3>1 DEF Enters
        <4> HIDE DEF q
        <4> QED
          BY <1>2, <4>1, <4>2
      <3>2. \/ Enters(r, [req[r] EXCEPT !.at = "persist", !.read = sub,
                                     !.set = [status |-> Transitions[sub.status][kind[req[r].arg]]]])
            \/ Goes(r, "fail")
        BY <2>2, Zenon DEF ApplyEvent
      <3>3. CASE Goes(r, "fail")
        BY <1>3, <2>1, <3>3
      <3> QED
        BY <2>1, <3>1, <3>2, <3>3
    <2>3. CASE ~ApplyEvent(r)
      <3>1. Ends(r) \/ \E at \in At \ {"totals", "add"} : Goes(r, at)
        BY <1>5, <2>3 DEF RequestStep, CreateCustomer, Subscribe, Save, CallProvider, Persist, PersistConflict,
           PersistUnknown, CompleteWebhook, CompleteThrows, FailWebhook, Crash, Handled, Refused, At
      <3>2. ASSUME NEW at \in At \ {"totals", "add"}, Goes(r, at)
            PROVE  \A s \in Requests : req'[s].at \in {"totals", "add"} => req'[s] = req[s]
        <4>1. at \notin {"totals", "add"}
          OBVIOUS
        <4> QED
          BY <1>3, <3>2, <4>1
      <3> QED
        BY <1>4, <2>1, <3>1, <3>2
    <2> QED
      BY <2>1, <2>2, <2>3
  <1>6. ASSUME NEW r \in Requests, NEW p \in Plans, Start(r, p)
        PROVE  /\ usage' = usage
               /\ \A s \in Requests : req'[s].at \in {"totals", "add"} => req'[s] = req[s]
    <2> DEFINE q == [Idle EXCEPT !.at = IF customer THEN "subscribe" ELSE "customer", !.arg = p]
    <2>1. q.at \notin {"totals", "add"}
      BY DEF Idle
    <2>2. usage' = usage /\ req' = [req EXCEPT ![r] = q]
      BY <1>6 DEF Start, Enters, meters
    <2> HIDE DEF q
    <2> QED
      BY <1>2, <2>1, <2>2
  <1>7. ASSUME NEW r \in Requests, NEW p \in Plans, ChangePlan(r, p)
        PROVE  /\ usage' = usage
               /\ \A s \in Requests : req'[s].at \in {"totals", "add"} => req'[s] = req[s]
    <2> DEFINE up == [at |-> "provider", read |-> sub, remote |-> sub.remote, arg |-> p,
                      set |-> [status |-> "active", plan |-> p, scheduled |-> None]]
               later == [at |-> "persist", read |-> sub, remote |-> None, arg |-> p,
                         set |-> [scheduled |-> p]]
    <2>1. up.at = "provider" /\ later.at = "persist"
      OBVIOUS
    <2>2. usage' = usage /\ (req' = [req EXCEPT ![r] = up] \/ req' = [req EXCEPT ![r] = later])
      BY <1>7, Zenon DEF ChangePlan, Enters, meters
    <2> HIDE DEF up, later
    <2>3. up.at \notin {"totals", "add"} /\ later.at \notin {"totals", "add"}
      BY <2>1
    <2> QED
      BY <1>2, <2>2, <2>3
  <1>8. ASSUME NEW r \in Requests, NEW atPeriodEnd \in BOOLEAN, Cancel(r, atPeriodEnd)
        PROVE  /\ usage' = usage
               /\ \A s \in Requests : req'[s].at \in {"totals", "add"} => req'[s] = req[s]
    <2> DEFINE q == [at |-> "provider", read |-> sub, remote |-> sub.remote, arg |-> None,
                     set |-> IF atPeriodEnd THEN [cancelAtPeriodEnd |-> TRUE] ELSE [status |-> "cancelled"]]
    <2>1. q.at \notin {"totals", "add"}
      OBVIOUS
    <2>2. usage' = usage /\ req' = [req EXCEPT ![r] = q]
      BY <1>8 DEF Cancel, Enters, meters
    <2> HIDE DEF q
    <2> QED
      BY <1>2, <2>1, <2>2
  <1>9. ASSUME NEW r \in Requests, NEW e \in Events, NEW k \in Kinds, Receive(r, e, k)
        PROVE  /\ usage' = usage
               /\ \A s \in Requests : req'[s].at \in {"totals", "add"} => req'[s] = req[s]
    <2> DEFINE q == [Idle EXCEPT !.at = IF k = "unmapped" THEN "complete" ELSE "apply", !.arg = e]
    <2>1. q.at \notin {"totals", "add"}
      BY DEF Idle
    <2>2. usage' = usage /\ (req' = req \/ req' = [req EXCEPT ![r] = q])
      BY <1>9 DEF Receive, Enters, meters
    <2> HIDE DEF q
    <2> QED
      BY <1>2, <2>1, <2>2
  <1>10. ASSUME UNCHANGED vars \/ PeriodEnds
         PROVE  usage' = usage /\ req' = req
    BY <1>10 DEF vars, meters, PeriodEnds
  <1> QED
    BY <1>5, <1>6, <1>7, <1>8, <1>9, <1>10 DEF Next

LEMMA MeterNext == IInv /\ MeterInv /\ [Next]_vars => MeterInv'
  <1> SUFFICES ASSUME IInv, MeterInv, [Next]_vars
               PROVE  MeterInv'
    OBVIOUS
  <1>1. CASE \A r \in Requests : ~Enforce(r) /\ ~AddUsage(r) /\ \A k \in Keys : ~RecordUsage(r, k)
    BY <1>1, OtherMeter, MeterKept, UnsubscribedMeter
  <1> QED
    BY <1>1, EnforceMeter, AddUsageMeter, RecordUsageMeter

----------------------------------------------------------------------------
(* A request that is let in alone keeps within the limit *)

(* A step that lets nobody in and records nothing. *)
LEMMA ApartKept ==
  ASSUME IInv, ApartInv, [Next]_vars, sub # None, usage' = usage, overlapped' = overlapped,
         Adding' \subseteq Adding, \A r \in Adding' : req'[r].arg = req[r].arg
  PROVE  ApartInv'
  <1>1. Held \subseteq Held'
    BY HeldGrows
  <1> SUFFICES ASSUME ~overlapped', \A r1, r2 \in Adding : r1 = r2
               PROVE  ApartInv'
    BY DEF ApartInv
  <1>2. ASSUME \A p \in Held' : Limit[p] >= 0
        PROVE  \E p \in Held' : Within(p)'
    <2>1. PICK p \in Held : Within(p)
      BY <1>1, <1>2 DEF ApartInv
    <2>2. Within(p)'
      BY <2>1 DEF Within
    <2> QED
      BY <1>1, <2>2
  <1> QED
    BY <1>2 DEF ApartInv

(* enforce lets a request in that finds nobody about to add, with room for its record. *)
LEMMA EnforceApart ==
  ASSUME IInv, MeterInv, ApartInv, NEW r \in Requests, Enforce(r)
  PROVE  ApartInv'
  <1>1. /\ sub' = sub /\ usage' = usage /\ req[r].at = "totals" /\ sub # None
        /\ [Next]_vars
    <2>1. [Next]_vars
      BY DEF Next, RequestStep
    <2> QED
      BY <2>1 DEF Enforce, MeterInv
  <1>2. /\ TypeOK /\ req \in [Requests -> Request] /\ req[r].arg \in Keys
        /\ req[r].read.plan \in Plans /\ req[r].read.plan \in Held /\ Held' = Held
    BY <1>1 DEF IInv, TypeOK, Fits, Request, Subscription, MeterInv, Held
  <1>3. CASE Ends(r) /\ overlapped' = overlapped
    <2>1. req'[r].at # "add" /\ \A s \in Requests \ {r} : req'[s] = req[s]
      BY <1>2, <1>3 DEF Ends, Idle
    <2>2. Adding' \subseteq Adding /\ \A s \in Adding' : req'[s].arg = req[s].arg
      BY <2>1 DEF Adding
    <2> QED
      BY <1>1, <1>3, <2>2, ApartKept
  <1>4. ASSUME LetIn(r), ~(Limit[req[r].read.plan] >= 0
                           /\ Used(usage) + Quantity[req[r].arg] > Limit[req[r].read.plan])
        PROVE  ApartInv'
    <2>1. /\ req'[r].at = "add" /\ req'[r].arg = req[r].arg
          /\ \A s \in Requests \ {r} : req'[s] = req[s]
      BY <1>2, <1>4 DEF LetIn, Goes, Request
    <2>2. ~overlapped' => Adding = {}
      BY <1>4 DEF LetIn
    <2>3. Adding' = Adding \union {r}
      BY <1>1, <2>1 DEF Adding
    <2>4. ASSUME ~overlapped', \A p \in Held' : Limit[p] >= 0
          PROVE  \E p \in Held' : Within(p)'
      <3> DEFINE p == req[r].read.plan
                 q == Quantity[req[r].arg]
      <3>1. Limit[p] >= 0 /\ Limit[p] \in Int /\ Used(usage) \in Nat /\ q \in Nat
        BY <1>2, <2>4, RoomNumbers
      <3>2. Used(usage) + q <= Limit[p] /\ Used(usage) <= Limit[p]
        BY <1>4, <3>1
      <3>3. \A s \in Adding' : Quantity[req'[s].arg] = q
        BY <2>1, <2>2, <2>3, <2>4
      <3> HIDE DEF q
      <3>4. PICK plan \in Held : plan = p
        BY <1>2
      <3>5. Within(plan)'
        BY <1>1, <3>2, <3>3, <3>4 DEF Within
      <3> QED
        BY <1>2, <3>4, <3>5
    <2> QED
      BY <2>2, <2>3, <2>4 DEF ApartInv
  <1> QED
    BY <1>3, <1>4 DEF Enforce

(* addUsage takes no more than the request was let in with, and leaves nobody about to add. *)
LEMMA AddUsageApart ==
  ASSUME IInv, MeterInv, ApartInv, NEW r \in Requests, AddUsage(r)
  PROVE  ApartInv'
  <1>1. /\ sub' = sub /\ overlapped' = overlapped /\ req[r].at = "add" /\ sub # None /\ Ends(r)
        /\ Held' = Held
    BY DEF AddUsage, MeterInv, Held
  <1>2. TypeOK /\ req[r].arg \in Keys /\ req \in [Requests -> Request]
    BY <1>1 DEF IInv, TypeOK, Fits
  <1>3. req'[r] = Idle /\ \A s \in Requests \ {r} : req'[s] = req[s]
    BY <1>1, <1>2 DEF Ends
  <1>4. r \in Adding /\ Adding' = Adding \ {r}
    BY <1>1, <1>3 DEF Adding, Idle
  <1>5. Used(usage') \in Nat /\ Used(usage') <= Used(usage) + Quantity[req[r].arg]
    BY <1>2, RecordAdds
  <1> SUFFICES ASSUME ~overlapped', \A r1, r2 \in Adding : r1 = r2
               PROVE  ApartInv'
    BY <1>1 DEF ApartInv
  <1>6. Adding' = {}
    BY <1>4
  <1>7. ASSUME \A p \in Held' : Limit[p] >= 0
        PROVE  \E p \in Held' : Within(p)'
    <2>1. PICK p \in Held : Within(p)
      BY <1>1, <1>7 DEF ApartInv
    <2>2. Used(usage) \in Nat /\ Quantity[req[r].arg] \in Nat /\ Limit[p] \in Int
      BY <1>2, RoomNumbers DEF Held
    <2>3. Used(usage) + Quantity[req[r].arg] <= Limit[p]
      BY <1>4, <2>1 DEF Within
    <2>4. Used(usage') <= Limit[p]
      BY <1>5, <2>2, <2>3
    <2>5. Within(p)'
      BY <1>6, <2>4 DEF Within
    <2> QED
      BY <1>1, <2>5
  <1> QED
    BY <1>6, <1>7 DEF ApartInv

(* Only enforce and addUsage touch what the history speaks of. *)
LEMMA OverlapKept ==
  ASSUME [Next]_vars, \A r \in Requests : ~Enforce(r) /\ ~AddUsage(r)
  PROVE  overlapped' = overlapped
  BY DEF Next, RequestStep, CreateCustomer, Subscribe, Save, CallProvider, Persist, PersistConflict,
     PersistUnknown, ApplyEvent, CompleteWebhook, CompleteThrows, FailWebhook, Crash, Start, ChangePlan,
     Cancel, Receive, RecordUsage, PeriodEnds, vars, meters

LEMMA ApartNext == IInv /\ MeterInv /\ ApartInv /\ [Next]_vars => ApartInv'
  <1> SUFFICES ASSUME IInv, MeterInv, ApartInv, [Next]_vars
               PROVE  ApartInv'
    OBVIOUS
  <1>1. ASSUME NEW r \in Requests, NEW k \in Keys, RecordUsage(r, k)
        PROVE  ApartInv'
    <2>1. /\ usage' = usage /\ overlapped' = overlapped /\ sub # None /\ req[r].at = "idle"
          /\ req' = [req EXCEPT ![r] = [Idle EXCEPT !.at = "totals", !.read = sub, !.arg = k]]
      BY <1>1 DEF RecordUsage, Enters, Begins, meters
    <2>2. req'[r].at = "totals" /\ \A s \in Requests \ {r} : req'[s] = req[s]
      BY <2>1 DEF Idle, IInv, TypeOK
    <2>3. Adding' = Adding /\ \A s \in Adding : req'[s].arg = req[s].arg
      BY <2>1, <2>2 DEF Adding
    <2> QED
      BY <2>1, <2>3, ApartKept
  <1>2. CASE \A r \in Requests : ~Enforce(r) /\ ~AddUsage(r) /\ \A k \in Keys : ~RecordUsage(r, k)
    <2>1. /\ usage' = usage /\ overlapped' = overlapped
          /\ \A r \in Requests : req'[r].at \in {"totals", "add"} => req'[r] = req[r]
      BY <1>2, OtherMeter, OverlapKept
    <2>2. Adding' \subseteq Adding /\ \A r \in Adding' : req'[r].arg = req[r].arg
      BY <2>1 DEF Adding
    <2>3. CASE sub # None
      BY <2>1, <2>2, <2>3, ApartKept
    <2>4. CASE sub = None
      <3>1. Adding' = {} /\ Used(usage') = 0
        BY <2>1, <2>2, <2>4, UsedIs DEF MeterInv, Adding, IInv, TypeOK
      <3>2. ASSUME sub' # None, \A p \in Held' : Limit[p] >= 0
            PROVE  \E p \in Held' : Within(p)'
        <4>1. sub' \in Subscription
          BY <3>2, NextInv DEF IInv, TypeOK
        <4>2. sub'.plan \in Plans /\ Price[sub'.plan] \in Nat
          BY <4>1 DEF Subscription
        <4>3. PICK p \in Plans : p = sub'.plan
          BY <4>2
        <4>4. p \in Held'
          BY <4>2, <4>3 DEF Held
        <4>5. Within(p)'
          BY <3>1, <3>2, <4>4 DEF Within
        <4> QED
          BY <4>4, <4>5
      <3> QED
        BY <3>1, <3>2 DEF ApartInv
    <2> QED
      BY <2>3, <2>4
  <1> QED
    BY <1>1, <1>2, EnforceApart, AddUsageApart

(* The usage of a period is within the limit of the plan, or of a cheaper one it replaced, *)
(* as long as no two recordUsage calls have overlapped between enforce and addUsage, and   *)
(* passes it by at most one record of each request but one when they have.                 *)
THEOREM OvershootIsBounded == Spec => []OvershootBounded
  <1>1. Init => MeterInv /\ ApartInv
    BY DEF Init, MeterInv, ApartInv, Adding, Idle
  <1>2. Spec => [](IInv /\ MeterInv /\ ApartInv)
    BY <1>1, InitInv, NextInv, MeterNext, ApartNext, PTL DEF Spec
  <1>3. IInv /\ MeterInv /\ ApartInv => OvershootBounded
    <2> SUFFICES ASSUME IInv, MeterInv, ApartInv, sub # None, \A p \in Held : Limit[p] >= 0
                 PROVE  \E p \in Held : Used(usage) <= IF overlapped THEN Ceiling(p) ELSE Limit[p]
      BY DEF OvershootBounded
    <2>a. CASE ~overlapped
      <3>1. PICK p \in Held : Within(p)
        BY <2>a DEF ApartInv
      <3> QED
        BY <2>a, <3>1 DEF Within
    <2>1. PICK p \in Held : Room(p)
      BY DEF MeterInv
    <2>2. p \in Plans /\ TypeOK
      BY DEF Held, IInv
    <2>3. /\ Used(usage) \in Nat /\ Most \in Nat /\ Ceiling(p) \in Int /\ Cardinality(Adding) \in Nat
          /\ \A r \in Adding : Quantity[req[r].arg] \in Nat
      BY <2>2, RoomNumbers, AddingIs
    <2>4. Cardinality(Adding) * Most \in Nat
      BY <2>3, Fewer
    <2>5. ASSUME NEW r \in Adding PROVE (Cardinality(Adding) - 1) * Most \in Nat
      <3>1. Cardinality(Adding) # 0
        BY AddingIs, FS_EmptySet
      <3>2. Cardinality(Adding) - 1 \in Nat
        BY <2>3, <3>1
      <3> QED
        BY <2>3, <3>2, Fewer
    <2>6. Used(usage) <= Ceiling(p)
      <3>1. CASE Used(usage) + Cardinality(Adding) * Most <= Ceiling(p)
        BY <2>3, <2>4, <3>1
      <3>2. ASSUME NEW r \in Adding,
                   Used(usage) + Quantity[req[r].arg] + (Cardinality(Adding) - 1) * Most <= Ceiling(p)
            PROVE  Used(usage) <= Ceiling(p)
        BY <2>3, <2>5, <3>2
      <3> QED
        BY <2>1, <3>1, <3>2 DEF Room
    <2> QED
      BY <2>a, <2>6
  <1> QED
    BY <1>2, <1>3, PTL

=============================================================================
