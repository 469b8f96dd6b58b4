------------------------------- MODULE Billing -------------------------------
(***************************************************************************)
(* The subscription and the metered usage of one workspace                 *)
(* (apps/api/src/modules/billing): start, changePlan, cancel, recordUsage  *)
(* and the provider's webhooks, each called by concurrent API requests.    *)
(*                                                                         *)
(* The billing provider is external: its subscriptions are modelled from   *)
(* the calls the code makes, and it redelivers an event until a 2xx.  A    *)
(* call that throws had no effect, unless the action says otherwise.       *)
(* Dates are abstracted to whether the current period is over; nothing in  *)
(* the code ever moves currentPeriodStart and currentPeriodEnd.            *)
(***************************************************************************)
EXTENDS Integers, FiniteSets, FiniteSetsExt

CONSTANTS
  Plans,      \* the active plans
  Price,      \* their price for the workspace's interval
  Limit,      \* their limit for the metered category; negative: unlimited
  Events,     \* ids of the provider's events
  Keys,       \* idempotency keys of recordUsage
  Quantity,   \* what each of those calls records
  Requests,   \* concurrent API requests; each has an idempotency key of its own
  None,       \* no plan, no subscription, no event or key
  MaxCalls,   \* bound: API requests and webhook deliveries
  MaxFaults   \* bound: crashes, unknown commits and database errors

Status == {"trialing", "active", "past_due", "grace_period", "cancelled", "expired"}
Subscription ==
  [status : Status, plan : Plans, scheduled : Plans \union {None}, cancelAtPeriodEnd : BOOLEAN,
   remote : Requests, version : Nat]
\* What a request sets of the subscription.
Change == [status : {"active"}, plan : Plans, scheduled : {None}] \union [scheduled : Plans]
            \union [cancelAtPeriodEnd : {TRUE}] \union [status : Status]
Remote == [plan : Plans, end : {"no", "period", "now"}]

ASSUME BillingAssumption ==
  /\ Price \in [Plans -> Nat] /\ Limit \in [Plans -> Int] /\ Quantity \in [Keys -> Nat \ {0}]
  /\ None \notin Plans \union Events \union Keys \union Requests
  /\ None \notin Subscription \union Remote \union Change
  /\ Plans \intersect Events = {} /\ Keys \intersect (Plans \union Events) = {}
  /\ {MaxCalls, MaxFaults} \subseteq Nat
  /\ IsFiniteSet(Requests) /\ IsFiniteSet(Keys) /\ Keys # {}

VARIABLES
  sub,       \* the subscriptions document of the workspace, or None
  customer,  \* its billing_customers document exists
  remote,    \* the provider's subscription created under each request's key, or None
  kind,      \* type of each event delivered so far, as EVENT_MAP maps it
  hook,      \* BillingWebhookEvent.status of each event
  acked,     \* events the provider has had a 2xx for
  usage,     \* UsageRecord of each key: none, within the period, or after its end
  over,      \* currentPeriodEnd has passed
  overlapped,\* history: a check let a request in while another was about to add its record
  req,       \* each request: where it is, what it read and what it will write
  applied,   \* history: how often each event changed the subscription
  broken,    \* history: remote subscriptions a call changed without recording it
  calls,
  faults

hookVars == <<kind, hook, acked, applied>>
meters   == <<usage, over, overlapped>>
vars     == <<sub, customer, remote, hookVars, meters, req, broken, calls, faults>>

Entitled == {"trialing", "active", "grace_period"}
Kinds == {"trial_expired", "payment_succeeded", "payment_failed", "cancel", "unmapped"}
HookStatus == {"none", "received", "processed", "failed"}
At == {"idle", "customer", "subscribe", "save", "provider", "persist", "apply",
       "complete", "fail", "totals", "add"}

\* TRANSITIONS of the state machine: where an event takes a status.  No event that
\* reaches applyEvent is a grace_expired or a period_ended.
Transitions ==
  [trialing     |-> [trial_expired |-> "active", payment_succeeded |-> "active",
                     payment_failed |-> "grace_period", cancel |-> "cancelled"],
   active       |-> [payment_succeeded |-> "active", payment_failed |-> "past_due",
                     cancel |-> "cancelled"],
   past_due     |-> [payment_succeeded |-> "active", payment_failed |-> "grace_period",
                     cancel |-> "cancelled"],
   grace_period |-> [payment_succeeded |-> "active", grace_expired |-> "expired",
                     cancel |-> "cancelled"],
   cancelled    |-> [period_ended |-> "expired"],
   expired      |-> [k \in {} |-> "expired"]]

\* A request: where it is, what it read, what it is going to set and for whom.
Request ==
  [at : At, read : Subscription \union {None}, set : Change \union {None},
   remote : Requests \union {None}, arg : Plans \union Events \union Keys \union {None}]
Idle == [at |-> "idle", read |-> None, set |-> None, remote |-> None, arg |-> None]

\* Usage the limit counts: occurredAt in [currentPeriodStart, currentPeriodEnd).
Used(u) == MapThenSumSet(LAMBDA k : Quantity[k], {k \in Keys : u[k] = "in"})

Init ==
  /\ sub = None /\ customer = FALSE
  /\ remote = [r \in Requests |-> None]
  /\ kind = [e \in Events |-> "unmapped"]
  /\ hook = [e \in Events |-> "none"] /\ acked = {}
  /\ usage = [k \in Keys |-> "none"] /\ over = FALSE /\ overlapped = FALSE
  /\ req = [r \in Requests |-> Idle]
  /\ applied = [e \in Events |-> 0] /\ broken = {}
  /\ calls = 0 /\ faults = 0

Goes(r, at) == req' = [req EXCEPT ![r].at = at]
Ends(r) == req' = [req EXCEPT ![r] = Idle]
Enters(r, rec) == req' = [req EXCEPT ![r] = rec]
Begins(r) == req[r].at = "idle" /\ calls < MaxCalls /\ calls' = calls + 1
Fault == faults < MaxFaults /\ faults' = faults + 1

-----------------------------------------------------------------------------
\* start: reads the subscription (409 when there is one) and the customer.
Start(r, p) ==
  /\ Begins(r) /\ sub = None
  /\ Enters(r, [Idle EXCEPT !.at = IF customer THEN "subscribe" ELSE "customer", !.arg = p])
  /\ UNCHANGED <<sub, customer, remote, hookVars, meters, broken, faults>>

\* Creates the provider's customer, then the local one: workspaceId is unique.
CreateCustomer(r) ==
  /\ req[r].at = "customer"
  /\ IF customer THEN Ends(r) ELSE Goes(r, "subscribe")
  /\ customer' = TRUE
  /\ UNCHANGED <<sub, remote, hookVars, meters, broken, calls, faults>>

\* createSubscription at the provider, under the request's idempotency key.
Subscribe(r) ==
  /\ req[r].at = "subscribe"
  /\ remote' = IF remote[r] = None THEN [remote EXCEPT ![r] = [plan |-> req[r].arg, end |-> "no"]] ELSE remote
  /\ Goes(r, "save")
  /\ UNCHANGED <<sub, customer, hookVars, meters, broken, calls, faults>>

\* The transaction of start: the insert fails when another request has subscribed.
\* Mutant of Save: the status the provider reports is stored as it comes.
SaveRaw(r) ==
  /\ req[r].at = "save"
  /\ sub' = IF sub = None THEN [status |-> "incomplete", plan |-> req[r].arg, scheduled |-> None,
                                cancelAtPeriodEnd |-> FALSE, remote |-> r, version |-> 0] ELSE sub
  /\ broken' = IF sub = None THEN broken ELSE broken \union {r}
  /\ Ends(r)
  /\ UNCHANGED <<customer, remote, hookVars, meters, calls, faults>>
Save(r) ==
  /\ req[r].at = "save"
  /\ IF sub = None
     THEN /\ \E s \in {"trialing", "active"} :
               sub' = [status |-> s, plan |-> req[r].arg, scheduled |-> None,
                       cancelAtPeriodEnd |-> FALSE, remote |-> r, version |-> 0]
          /\ broken' = broken
     ELSE sub' = sub /\ broken' = broken \union {r}
  /\ Ends(r)
  /\ UNCHANGED <<customer, remote, hookVars, meters, calls, faults>>

-----------------------------------------------------------------------------
\* changePlan: an upgrade goes to the provider first, anything else is only scheduled.
ChangePlan(r, p) ==
  /\ Begins(r) /\ sub # None
  /\ Enters(r, IF Price[p] > Price[sub.plan]
               THEN [at |-> "provider", read |-> sub, remote |-> sub.remote, arg |-> p,
                     set |-> [status |-> "active", plan |-> p, scheduled |-> None]]
               ELSE [at |-> "persist", read |-> sub, remote |-> None, arg |-> p,
                     set |-> [scheduled |-> p]])
  /\ UNCHANGED <<sub, customer, remote, hookVars, meters, broken, faults>>

\* cancel, now or at the end of the period.
Cancel(r, atPeriodEnd) ==
  /\ Begins(r) /\ sub # None
  /\ Enters(r, [at |-> "provider", read |-> sub, remote |-> sub.remote, arg |-> None,
                set |-> IF atPeriodEnd THEN [cancelAtPeriodEnd |-> TRUE]
                                       ELSE [status |-> "cancelled"]])
  /\ UNCHANGED <<sub, customer, remote, hookVars, meters, broken, faults>>

\* updateSubscription or cancelSubscription at the provider, which refuses to
\* change a subscription that has ended.
CallProvider(r) ==
  LET s == req[r].remote
      set == req[r].set
      new == [plan |-> IF "plan" \in DOMAIN set THEN set.plan ELSE remote[s].plan,
              end |-> IF "cancelAtPeriodEnd" \in DOMAIN set THEN "period"
                      ELSE IF set.status = "cancelled" THEN "now" ELSE remote[s].end]
  IN /\ req[r].at = "provider"
     /\ IF remote[s].end = "now" THEN Ends(r) /\ remote' = remote
        ELSE Goes(r, "persist") /\ remote' = [remote EXCEPT ![s] = new]
     /\ UNCHANGED <<sub, customer, hookVars, meters, broken, calls, faults>>

\* persistSubscriptionChange: $set of the fields under the version that was read.
\* Mutant of Current: the filter on version is dropped.
CurrentAlways(r) == sub # None
Current(r) == sub.version = req[r].read.version
\* Mutant of Persisted: the $inc of version is missing.
PersistedUncounted(r) ==
  [f \in DOMAIN sub |-> IF f \in DOMAIN req[r].set THEN req[r].set[f] ELSE sub[f]]
Persisted(r) ==
  [f \in DOMAIN sub |-> IF f = "version" THEN sub.version + 1
                        ELSE IF f \in DOMAIN req[r].set THEN req[r].set[f] ELSE sub[f]]
\* What becomes of the request: a webhook is then marked, a command has answered.
Handled(r) == IF req[r].arg \in Events THEN Goes(r, "complete") ELSE Ends(r)
Refused(r) == IF req[r].arg \in Events THEN Goes(r, "fail") ELSE Ends(r)
\* What a call that stops short leaves changed at the provider only.
Abandoned(r) == broken \union ({req[r].remote} \ {None})

Persist(r) ==
  /\ req[r].at = "persist" /\ Current(r)
  /\ sub' = Persisted(r)
  /\ applied' = IF req[r].arg \in Events THEN [applied EXCEPT ![req[r].arg] = @ + 1] ELSE applied
  /\ Handled(r)
  /\ UNCHANGED <<customer, remote, kind, hook, acked, meters, broken, calls, faults>>

PersistConflict(r) ==
  /\ req[r].at = "persist" /\ ~Current(r)
  /\ broken' = Abandoned(r)
  /\ Refused(r)
  /\ UNCHANGED <<sub, customer, remote, hookVars, meters, calls, faults>>

\* The commit happened but its answer was lost: the transaction manager runs the
\* operation again, which finds the version moved on and reports a conflict.
PersistUnknown(r) ==
  /\ req[r].at = "persist" /\ Current(r) /\ Fault
  /\ sub' = Persisted(r)
  /\ applied' = IF req[r].arg \in Events THEN [applied EXCEPT ![req[r].arg] = @ + 1] ELSE applied
  /\ Refused(r)
  /\ UNCHANGED <<customer, remote, kind, hook, acked, meters, broken, calls>>

-----------------------------------------------------------------------------
\* receive: the unique providerEventId decides who handles the event; a second
\* delivery is acknowledged, whatever became of the first.
\* Mutant of Claimed: an event whose handling did not finish is taken up again.
ClaimedWhenDone(e) == hook[e] = "processed"
Claimed(e) == hook[e] # "none"

Receive(r, e, k) ==
  /\ Begins(r) /\ e \notin acked
  /\ hook[e] # "none" => k = kind[e]
  /\ IF Claimed(e)
     THEN acked' = acked \union {e} /\ UNCHANGED <<kind, hook, req>>
     ELSE /\ kind' = [kind EXCEPT ![e] = k]
          /\ hook' = [hook EXCEPT ![e] = "received"] /\ acked' = acked
          /\ Enters(r, [Idle EXCEPT !.at = IF k = "unmapped" THEN "complete" ELSE "apply",
                                    !.arg = e])
  /\ UNCHANGED <<sub, customer, remote, applied, meters, broken, faults>>

\* applyEvent: no subscription, or no transition for the event, is an error.
Accepts(k) == sub # None /\ k \in DOMAIN Transitions[sub.status]

ApplyEvent(r) ==
  LET k == kind[req[r].arg] IN
  /\ req[r].at = "apply"
  /\ IF Accepts(k)
     THEN Enters(r, [req[r] EXCEPT !.at = "persist", !.read = sub,
                                   !.set = [status |-> Transitions[sub.status][k]]])
     ELSE Goes(r, "fail")
  /\ UNCHANGED <<sub, customer, remote, hookVars, meters, broken, calls, faults>>

CompleteWebhook(r) ==
  /\ req[r].at = "complete"
  /\ hook' = [hook EXCEPT ![req[r].arg] = "processed"]
  /\ acked' = acked \union {req[r].arg}
  /\ Ends(r)
  /\ UNCHANGED <<sub, customer, remote, kind, applied, meters, broken, calls, faults>>

\* completeWebhook throws inside the try, with its update done or not: its catch marks the
\* event failed.
CompleteThrows(r) ==
  /\ req[r].at = "complete" /\ Fault
  /\ hook' \in {hook, [hook EXCEPT ![req[r].arg] = "processed"]}
  /\ Goes(r, "fail")
  /\ UNCHANGED <<sub, customer, remote, kind, acked, applied, meters, broken, calls>>

\* The catch: marks the event failed and rethrows; the provider gets a 5xx or 4xx.
FailWebhook(r) ==
  /\ req[r].at = "fail"
  /\ hook' = [hook EXCEPT ![req[r].arg] = "failed"]
  /\ Ends(r)
  /\ UNCHANGED <<sub, customer, remote, kind, acked, applied, meters, broken, calls, faults>>

-----------------------------------------------------------------------------
\* recordUsage: enforce reads the subscription, its plan and the totals, and
\* addUsage inserts the record, whose idempotencyKey is unique.
RecordUsage(r, k) ==
  /\ Begins(r) /\ sub # None /\ sub.status \in Entitled
  /\ Enters(r, [Idle EXCEPT !.at = "totals", !.read = sub, !.arg = k])
  /\ UNCHANGED <<sub, customer, remote, hookVars, meters, broken, faults>>

Adding == {r \in Requests : req[r].at = "add"}
LetIn(r) == Goes(r, "add") /\ overlapped' = (overlapped \/ Adding # {})

\* Mutant of Enforce: the check leaves out the increment.
EnforceReached(r) ==
  LET limit == Limit[req[r].read.plan] IN
  /\ req[r].at = "totals"
  /\ IF limit >= 0 /\ Used(usage) > limit THEN Ends(r) /\ UNCHANGED overlapped ELSE LetIn(r)
  /\ UNCHANGED <<sub, customer, remote, hookVars, usage, over, broken, calls, faults>>

Enforce(r) ==
  LET limit == Limit[req[r].read.plan] IN
  /\ req[r].at = "totals"
  /\ IF limit >= 0 /\ Used(usage) + Quantity[req[r].arg] > limit
     THEN Ends(r) /\ UNCHANGED overlapped
     ELSE LetIn(r)
  /\ UNCHANGED <<sub, customer, remote, hookVars, usage, over, broken, calls, faults>>

AddUsage(r) ==
  LET k == req[r].arg IN
  /\ req[r].at = "add"
  /\ usage' = IF usage[k] = "none" THEN [usage EXCEPT ![k] = IF over THEN "after" ELSE "in"] ELSE usage
  /\ Ends(r)
  /\ UNCHANGED <<sub, customer, remote, hookVars, over, overlapped, broken, calls, faults>>

PeriodEnds ==
  /\ sub # None /\ ~over /\ over' = TRUE
  /\ UNCHANGED <<sub, customer, remote, hookVars, usage, overlapped, req, broken, calls, faults>>

-----------------------------------------------------------------------------
\* The API process dies, or a call that has not answered yet fails.
Touched(r) == IF req[r].at = "save" THEN {r}
              ELSE IF req[r].at = "persist" THEN {req[r].remote} \ {None} ELSE {}

Crash(r) ==
  /\ req[r].at # "idle" /\ Fault
  /\ Ends(r)
  /\ broken' = broken \union Touched(r)
  /\ UNCHANGED <<sub, customer, remote, hookVars, meters, calls>>

RequestStep(r) ==
  \/ CreateCustomer(r) \/ Subscribe(r) \/ Save(r)
  \/ CallProvider(r) \/ Persist(r) \/ PersistConflict(r) \/ PersistUnknown(r)
  \/ ApplyEvent(r) \/ CompleteWebhook(r) \/ CompleteThrows(r) \/ FailWebhook(r)
  \/ Enforce(r) \/ AddUsage(r) \/ Crash(r)

Next ==
  \/ \E r \in Requests :
       \/ RequestStep(r)
       \/ \E p \in Plans : Start(r, p) \/ ChangePlan(r, p)
       \/ \E atPeriodEnd \in BOOLEAN : Cancel(r, atPeriodEnd)
       \/ \E e \in Events, k \in Kinds : Receive(r, e, k)
       \/ \E k \in Keys : RecordUsage(r, k)
  \/ PeriodEnds

Spec == Init /\ [][Next]_vars

-----------------------------------------------------------------------------
Fits(q) ==
  /\ q.at \in {"customer", "subscribe", "save"} => q.arg \in Plans
  /\ q.at \in {"provider", "persist"} => q.read # None /\ q.set # None
  /\ q.at \in {"apply", "complete", "fail"} => q.arg \in Events
  /\ q.at \in {"totals", "add"} => q.arg \in Keys
  /\ q.at = "totals" => q.read # None
  /\ q.at = "apply" => q.remote = None

\* Every document has a value its schema allows, and a request only carries what
\* its place needs (billing.schemas.ts).
TypeOK ==
  /\ sub \in Subscription \union {None}
  /\ customer \in BOOLEAN
  /\ remote \in [Requests -> Remote \union {None}]
  /\ kind \in [Events -> Kinds] /\ hook \in [Events -> HookStatus] /\ acked \subseteq Events
  /\ usage \in [Keys -> {"none", "in", "after"}] /\ over \in BOOLEAN /\ overlapped \in BOOLEAN
  /\ req \in [Requests -> Request]
  /\ \A r \in Requests : Fits(req[r])
  /\ applied \in [Events -> Nat] /\ broken \subseteq Requests
  /\ calls \in 0 .. MaxCalls /\ faults \in 0 .. MaxFaults

\* What a command may do besides an event: an upgrade activates, a cancel cancels.
LegalMove(from, to) ==
  \/ from = to \/ to \in {"active", "cancelled"}
  \/ \E k \in DOMAIN Transitions[from] : Transitions[from][k] = to

\* However requests interleave, the status only moves along TRANSITIONS or by a
\* command, the plan is never replaced by a cheaper one and every change is
\* counted: nobody writes a status or a plan worked out from a document that
\* has changed since (the version filter of updateSubscription).
SubscriptionMoves ==
  [][sub # None => /\ sub' # None
                   /\ LegalMove(sub.status, sub'.status)
                   /\ Price[sub'.plan] >= Price[sub.plan]
                   /\ sub' # sub => sub'.version = sub.version + 1]_vars

\* A subscription at the provider is the local one, with its plan and its end,
\* unless a request is between its call to the provider and its transaction, or
\* one ended there: by a conflict, or because it died (changePlan, cancel, start).
RemoteInSync ==
  \A s \in Requests : remote[s] # None =>
    \/ s \in broken
    \/ req[s].at = "save"
    \/ \E r \in Requests : req[r].at = "persist" /\ req[r].remote = s
    \/ /\ sub # None /\ sub.remote = s /\ sub.plan = remote[s].plan
       /\ remote[s].end = "period" => sub.cancelAtPeriodEnd
       /\ remote[s].end = "now" => sub.status = "cancelled"

\* However often an event is delivered it changes the subscription at most once,
\* and one that is marked processed, and means something here, did change it.
WebhookOnce ==
  \A e \in Events :
    /\ applied[e] <= 1
    /\ hook[e] = "processed" /\ kind[e] # "unmapped" => applied[e] = 1

\* The usage of a period keeps within the limit as long as no check lets a request in while
\* another is about to add its record.  ADR-006 asks for strong consistency of usage-limit
\* claims, but recordUsage checks and then adds, in two steps and in no transaction: calls
\* that overlap overshoot the limit, by one record of each of the other requests at most.
\* The limit is that of the plan, or of a cheaper one it replaced: nothing makes a dearer
\* plan allow more.  (Usage after the period's end is not counted at all.)
Most == Max({Quantity[k] : k \in Keys})
Ceiling(p) == Limit[p] + (Cardinality(Requests) - 1) * Most
Held == {p \in Plans : Price[p] <= Price[sub.plan]}
OvershootBounded ==
  sub # None /\ (\A p \in Held : Limit[p] >= 0) =>
    \E p \in Held : Used(usage) <= IF overlapped THEN Ceiling(p) ELSE Limit[p]

-----------------------------------------------------------------------------
(* The inductive invariant behind SubscriptionMoves, WebhookOnce and RemoteInSync. *)

\* What a request that read a subscription came to write of it.
Upgrades(q) ==
  /\ q.arg \in Plans /\ q.set = [status |-> "active", plan |-> q.arg, scheduled |-> None]
  /\ Price[q.arg] > Price[q.read.plan] /\ q.remote = q.read.remote
Schedules(q) ==
  q.at = "persist" /\ q.arg \in Plans /\ q.set = [scheduled |-> q.arg] /\ q.remote = None
CancelsLater(q) ==
  q.arg = None /\ q.set = [cancelAtPeriodEnd |-> TRUE] /\ q.remote = q.read.remote
CancelsNow(q) ==
  q.arg = None /\ q.set = [status |-> "cancelled"] /\ q.remote = q.read.remote
Applies(q) ==
  /\ q.at = "persist" /\ q.arg \in Events /\ q.remote = None
  /\ kind[q.arg] \in DOMAIN Transitions[q.read.status]
  /\ q.set = [status |-> Transitions[q.read.status][kind[q.arg]]]

\* A request's copy is the document itself as long as the version has not moved.
Carries(q) ==
  /\ sub # None /\ q.read.remote = sub.remote
  /\ q.read.version <= sub.version
  /\ q.read.version = sub.version => q.read = sub
  /\ Upgrades(q) \/ Schedules(q) \/ Applies(q) \/ CancelsLater(q) \/ CancelsNow(q)
CarryInv == \A r \in Requests : req[r].at \in {"provider", "persist"} => Carries(req[r])

\* An event is in the hands of one request, which has not counted it twice.
Holds(q, e) == q.at \in {"apply", "persist", "complete", "fail"} /\ q.arg = e
HookInv ==
  \A e \in Events :
    /\ \A r1, r2 \in Requests : Holds(req[r1], e) /\ Holds(req[r2], e) => r1 = r2
    /\ hook[e] = "none" => applied[e] = 0
    /\ \A r \in Requests : Holds(req[r], e) =>
         /\ hook[e] # "none"
         /\ req[r].at \in {"apply", "persist"} => applied[e] = 0
         /\ req[r].at = "complete" /\ kind[e] # "unmapped" => applied[e] = 1

\* A subscription at the provider that nobody left behind is the local one, or is
\* about to be saved as it.
SavedInv ==
  /\ sub # None => /\ remote[sub.remote] # None
                   /\ req[sub.remote].at \notin {"customer", "subscribe", "save"}
  /\ \A s \in Requests :
       /\ req[s].at = "save" =>
            remote[s] # None /\ (s \in broken \/ remote[s] = [plan |-> req[s].arg, end |-> "no"])
       /\ remote[s] # None /\ s \notin broken /\ req[s].at # "save" => sub # None /\ sub.remote = s

\* Requests that have called the provider and not written yet.  What they and the
\* document say together is what the provider has, or one of them is going to fail.
Awaiting == {r \in Requests : req[r].at = "persist" /\ req[r].remote # None}
Together(far) ==
  /\ \/ sub.plan = far.plan /\ \A r \in Awaiting : ~Upgrades(req[r])
     \/ \E r \in Awaiting : Upgrades(req[r]) /\ req[r].arg = far.plan
  /\ far.end = "period" => sub.cancelAtPeriodEnd \/ \E r \in Awaiting : CancelsLater(req[r])
  /\ far.end = "now" => \/ \E r \in Awaiting : CancelsNow(req[r])
                        \/ sub.status = "cancelled" /\ Awaiting = {}
SyncInv ==
  sub # None /\ sub.remote \notin broken =>
    \/ \E r \in Awaiting : req[r].read.version # sub.version
    \/ Together(remote[sub.remote])

\* What OvershootBounded needs besides: each request about to add its record was let in with
\* room for it, and the last one let in had seen whatever had been added by then; one that is
\* alone has seen all there is.
Room(p) ==
  \/ Used(usage) + Cardinality(Adding) * Most <= Ceiling(p)
  \/ \E r \in Adding : Used(usage) + Quantity[req[r].arg] + (Cardinality(Adding) - 1) * Most <= Ceiling(p)
Within(p) ==
  Used(usage) <= Limit[p] /\ \A r \in Adding : Used(usage) + Quantity[req[r].arg] <= Limit[p]
ApartInv ==
  ~overlapped =>
    /\ \A r1, r2 \in Adding : r1 = r2
    /\ sub # None /\ (\A p \in Held : Limit[p] >= 0) => \E p \in Held : Within(p)
MeterInv ==
  /\ \A r \in Requests : req[r].at \in {"totals", "add"} => sub # None
  /\ \A r \in Requests : req[r].at = "totals" => Price[req[r].read.plan] <= Price[sub.plan]
  /\ sub = None => \A k \in Keys : usage[k] = "none"
  /\ sub # None /\ (\A p \in Held : Limit[p] >= 0) => \E p \in Held : Room(p)

IInv == TypeOK /\ CarryInv /\ HookInv /\ WebhookOnce /\ SavedInv /\ SyncInv
=============================================================================
