----------------------------- MODULE Appointments -----------------------------
(***************************************************************************)
(* Booking, moving and cancelling appointments (apps/api/src/modules/      *)
(* appointments) under the scheduling lock (modules/scheduling).           *)
(*                                                                         *)
(* A call takes the lock of the member of staff in Redis, which expires    *)
(* after fifteen seconds whatever its holder is doing; within it, one      *)
(* MongoDB transaction looks for conflicts in its snapshot and writes.     *)
(* The snapshot is the step that reads; the write goes through only if     *)
(* what it replaces, or the key it adds, has not changed since, and is     *)
(* tried again from the reads otherwise.  After the lock is released come  *)
(* the reminder's delayed job and the workflows, outside the transaction.  *)
(* Cancelling takes no lock and no transaction.                            *)
(*                                                                         *)
(* Every appointment has one reminder; nothing consumes its queue, so a    *)
(* job stays.  Notice and horizon may refuse any request.                  *)
(***************************************************************************)
EXTENDS Availability, FiniteSets

CONSTANTS
  Staff,
  Services,
  Buffer,           \* the buffers of each service, in minutes
  Rules,            \* availability rules an administrator may set
  Ranges,           \* requested times
  Keys,             \* idempotency keys
  Callers,          \* concurrent API requests
  None,             \* no member of staff, service, rule, key, lock holder or job
  MaxAppointments,  \* bound: rows of the collection
  MaxCalls,         \* bound: requests, those that change a rule included
  MaxFaults         \* bound: crashes, errors and commits of unknown outcome

Period == [start : Int, end : Int]

ASSUME AppointmentsAssumption ==
  /\ Ranges \subseteq Period /\ \A r \in Ranges : r.start < r.end
  /\ Buffer \in [Services -> [before : Nat, after : Nat]]
  /\ \A r \in Rules : r.before \in Nat /\ r.after \in Nat /\ Timed(r)
  /\ None \notin Staff \union Services \union Rules \union Keys \union Callers \union Int
  /\ {MaxAppointments, MaxCalls, MaxFaults} \subseteq Nat
  /\ IsFiniteSet(Callers)

VARIABLES
  rule,       \* the availability rule of each member of staff, or None
  row,        \* the appointments collection
  lock,       \* lock:scheduling:{workspace}:{staff}: its holder, or None
  call,       \* each request: where it is, its DTO and what it found
  reminder,   \* the instant the reminder job of each appointment is for, or None
  triggered,  \* appointments whose booking has triggered the workflows
  told,       \* events recorded of each appointment
  earlier,    \* history: the appointments that had their time before each one got its own
  under,      \* history: the rule each appointment was placed under, or None
  late,       \* history: requests whose lock expired under their transaction
  unguarded,  \* history: appointments such a request has placed
  cut,        \* history: bookings whose call broke off after the commit, and no other came through
  untold,     \* history: cancellations whose call broke off before its event
  calls,
  faults

history == <<earlier, under, late, unguarded, cut, untold>>
bounds  == <<calls, faults>>
vars    == <<rule, row, lock, call, reminder, triggered, told, history, bounds>>

Appointment == 1 .. MaxAppointments
New == 0
Idle == [at |-> "idle", op |-> "create", appt |-> New, staff |-> None, service |-> None, key |-> None,
         start |-> 0, end |-> 0, version |-> 0, rule |-> None]
Absent == [status |-> "absent", staff |-> None, key |-> None, start |-> 0, end |-> 0,
           before |-> 0, after |-> 0, version |-> 0]

Exists(a) == row[a].status # "absent"
Live(a)   == row[a].status = "confirmed"
InLock(c) == call[c].at \in {"locked", "insert", "update"}

\* Whether an appointment x with its buffers reaches into y without them (findConflict).
Reaches(x, y) == x.start - x.before * Minute < y.end /\ x.end + x.after * Minute > y.start

Init ==
  /\ rule \in [Staff -> Rules \union {None}]
  /\ row = [a \in Appointment |-> Absent]
  /\ lock = [s \in Staff |-> None]
  /\ call = [c \in Callers |-> Idle]
  /\ reminder = [a \in Appointment |-> None]
  /\ triggered = {}
  /\ told = [a \in Appointment |-> 0]
  /\ earlier = [a \in Appointment |-> {}] /\ under = [a \in Appointment |-> None]
  /\ late = {} /\ unguarded = {} /\ cut = {}
  /\ untold = [a \in Appointment |-> 0]
  /\ calls = 0 /\ faults = 0

Requested == calls < MaxCalls /\ calls' = calls + 1 /\ UNCHANGED faults
Fault == faults < MaxFaults /\ faults' = faults + 1 /\ UNCHANGED calls

Goes(c, at) == call' = [call EXCEPT ![c].at = at]
Ends(c) == call' = [call EXCEPT ![c] = Idle]

----------------------------------------------------------------------------
(* create and reschedule, up to the lock *)

Create(c) ==
  /\ call[c].at = "idle"
  /\ Requested
  /\ \E s \in Staff, v \in Services, r \in Ranges, k \in Keys :
       call' = [call EXCEPT ![c] = [at |-> "asked", op |-> "create", appt |-> New, staff |-> s,
                                    service |-> v, key |-> k, start |-> r.start, end |-> r.end,
                                    version |-> 0, rule |-> None]]
  /\ UNCHANGED <<rule, row, lock, reminder, triggered, told, history>>

\* The client sends the version it has seen; the row is read once before, for its staff.
Reschedule(c) ==
  /\ call[c].at = "idle"
  /\ Requested
  /\ \E a \in Appointment, r \in Ranges, k \in Keys :
       /\ Exists(a)
       /\ call' = [call EXCEPT ![c] = [at |-> "asked", op |-> "reschedule", appt |-> a,
                                       staff |-> row[a].staff, service |-> None, key |-> k,
                                       start |-> r.start, end |-> r.end,
                                       version |-> row[a].version, rule |-> None]]
  /\ UNCHANGED <<rule, row, lock, reminder, triggered, told, history>>

\* SET NX: the request fails at once when another holds the lock.
TakeLock(c) ==
  /\ call[c].at = "asked"
  /\ \/ /\ lock[call[c].staff] = None
        /\ lock' = [lock EXCEPT ![call[c].staff] = c]
        /\ Goes(c, "locked")
     \/ /\ lock[call[c].staff] # None
        /\ Ends(c) /\ UNCHANGED lock
  /\ late' = late \ {c}
  /\ UNCHANGED <<rule, row, reminder, triggered, told, earlier, under, unguarded, cut, untold, bounds>>

\* The key expires.
LockExpires(s) ==
  /\ lock[s] # None
  /\ lock' = [lock EXCEPT ![s] = None]
  /\ late' = IF InLock(lock[s]) /\ call[lock[s]].staff = s THEN late \union {lock[s]} ELSE late
  /\ UNCHANGED <<rule, row, call, reminder, triggered, told, earlier, under, unguarded, cut, untold,
                 bounds>>

----------------------------------------------------------------------------
(* The transaction *)

\* Mutant of Leaves: a duplicate keeps the times of its own DTO.
LeavesAsAsked(c, a, start) == call' = [call EXCEPT ![c].at = "release", ![c].appt = a]

\* The transaction ends without a write: with an error, or with the row the key already has.
Leaves(c, a, start) ==
  call' = [call EXCEPT ![c].at = "release", ![c].appt = a, ![c].start = start]

Permits(r, start, end) == r # None => assertAvailable(r, start, end)

FindConflict(s, x, a) == \E b \in Appointment \ {a} : Live(b) /\ row[b].staff = s /\ Reaches(x, row[b])

\* The buffers come from the rule when there is one, else from the service; a conflict is
\* looked for with those of the new appointment only.
Wanted(c) ==
  LET r == rule[call[c].staff]
      b == IF r # None THEN [before |-> r.before, after |-> r.after] ELSE Buffer[call[c].service]
  IN  [start |-> call[c].start, end |-> call[c].end, before |-> b.before, after |-> b.after]

ReadForCreate(c) ==
  LET s == call[c].staff
  IN  \/ \E a \in Appointment :
           Exists(a) /\ row[a].key = call[c].key /\ Leaves(c, a, row[a].start)
      \/ /\ \A a \in Appointment : row[a].key # call[c].key
         /\ \/ Leaves(c, New, call[c].start)
            \/ /\ Permits(rule[s], call[c].start, call[c].end)
               /\ ~FindConflict(s, Wanted(c), New)
               /\ call' = [call EXCEPT ![c].at = "insert", ![c].rule = rule[s]]

\* Moving looks at no status, and keeps the buffers the appointment was booked with.
ReadForReschedule(c) ==
  LET a == call[c].appt
      s == row[a].staff
      x == [row[a] EXCEPT !.start = call[c].start, !.end = call[c].end]
  IN  \/ Leaves(c, New, call[c].start)
      \/ /\ Permits(rule[s], call[c].start, call[c].end)
         /\ ~FindConflict(s, x, a)
         /\ row[a].version = call[c].version
         /\ \A b \in Appointment \ {a} : row[b].key # call[c].key
         /\ call' = [call EXCEPT ![c].at = "update", ![c].rule = rule[s]]

Read(c) ==
  /\ call[c].at = "locked"
  /\ IF call[c].op = "create" THEN ReadForCreate(c) ELSE ReadForReschedule(c)
  /\ UNCHANGED <<rule, row, lock, reminder, triggered, told, history, bounds>>

\* The buffers an insert writes are those it looked with.
Inserted(c) ==
  LET r == call[c].rule
      b == IF r # None THEN [before |-> r.before, after |-> r.after] ELSE Buffer[call[c].service]
  IN  [status |-> "confirmed", staff |-> call[c].staff, key |-> call[c].key, start |-> call[c].start,
       end |-> call[c].end, before |-> b.before, after |-> b.after, version |-> 0]

Moved(c) ==
  [row[call[c].appt] EXCEPT !.start = call[c].start, !.end = call[c].end, !.key = call[c].key,
                            !.version = @ + 1]

\* The unique index and the write conflicts of the transaction.
Clashes(c) ==
  \/ \E a \in Appointment \ {call[c].appt} : row[a].key = call[c].key
  \/ call[c].at = "update" /\ row[call[c].appt].version # call[c].version

\* The row and its event are written together.
Writes(c, a, new) ==
  /\ row' = [row EXCEPT ![a] = new]
  /\ told' = [told EXCEPT ![a] = @ + 1]
  /\ earlier' = [b \in Appointment |-> IF b = a THEN {d \in Appointment \ {a} : Exists(d)}
                                               ELSE earlier[b] \ {a}]
  /\ under' = [under EXCEPT ![a] = call[c].rule]
  /\ unguarded' = IF c \in late THEN unguarded \union {a} ELSE unguarded \ {a}

\* The id is new; ids are taken in order.
NextId(a) == ~Exists(a) /\ \A b \in Appointment : b < a => Exists(b)

Applies(c, a) ==
  \/ call[c].at = "insert" /\ NextId(a) /\ Writes(c, a, Inserted(c))
  \/ call[c].at = "update" /\ a = call[c].appt /\ Writes(c, a, Moved(c))

Commit(c) ==
  /\ call[c].at \in {"insert", "update"}
  /\ ~Clashes(c)
  /\ \E a \in Appointment :
       /\ Applies(c, a)
       /\ call' = [call EXCEPT ![c].at = "release", ![c].appt = a]
  /\ UNCHANGED <<rule, lock, reminder, triggered, late, cut, untold, bounds>>

\* Mutant of Retry: the event is recorded outside the session, and survives the transaction.
RetryTold(c) ==
  /\ call[c].at \in {"insert", "update"}
  /\ Clashes(c)
  /\ Goes(c, "locked")
  /\ told' = [a \in Appointment |-> IF a = call[c].appt THEN told[a] + 1 ELSE told[a]]
  /\ UNCHANGED <<rule, row, lock, reminder, triggered, history, bounds>>

\* A write conflict: withTransaction runs the operation again.
Retry(c) ==
  /\ call[c].at \in {"insert", "update"}
  /\ Clashes(c)
  /\ Goes(c, "locked")
  /\ UNCHANGED <<rule, row, lock, reminder, triggered, told, history, bounds>>

\* The commit goes through and its answer is lost: the operation runs again.
CommitUnknown(c) ==
  /\ call[c].at \in {"insert", "update"}
  /\ ~Clashes(c)
  /\ Fault
  /\ \E a \in Appointment :
       /\ Applies(c, a)
       /\ cut' = IF call[c].op = "create" THEN cut \union {a} ELSE cut
  /\ Goes(c, "locked")
  /\ UNCHANGED <<rule, lock, reminder, triggered, late, untold>>

\* Mutant of Release: the key is deleted whoever holds it.
ReleaseAny(c) ==
  /\ call[c].at = "release"
  /\ lock' = [lock EXCEPT ![call[c].staff] = None]
  /\ IF call[c].appt = New THEN Ends(c) ELSE Goes(c, "remind")
  /\ UNCHANGED <<rule, row, reminder, triggered, told, history, bounds>>

\* The key is deleted only if it still holds the request's own token.
Release(c) ==
  /\ call[c].at = "release"
  /\ lock' = IF lock[call[c].staff] = c THEN [lock EXCEPT ![call[c].staff] = None] ELSE lock
  /\ IF call[c].appt = New THEN Ends(c) ELSE Goes(c, "remind")
  /\ UNCHANGED <<rule, row, reminder, triggered, told, history, bounds>>

----------------------------------------------------------------------------
(* After the transaction *)

\* The job's id is made of the appointment and the minutes: a second one is not added.
Remind(c) ==
  /\ call[c].at = "remind"
  /\ reminder' = [reminder EXCEPT ![call[c].appt] = IF @ = None THEN call[c].start ELSE @]
  /\ IF call[c].op = "create" THEN Goes(c, "trigger") ELSE Ends(c)
  /\ UNCHANGED <<rule, row, lock, triggered, told, history, bounds>>

\* triggerEvent is idempotent: its key is made of the appointment.
Trigger(c) ==
  /\ call[c].at = "trigger"
  /\ triggered' = triggered \union {call[c].appt}
  /\ cut' = cut \ {call[c].appt}
  /\ Ends(c)
  /\ UNCHANGED <<rule, row, lock, reminder, told, earlier, under, late, unguarded, untold, bounds>>

\* One versioned update, and then its event.
Cancel(c) ==
  /\ call[c].at = "idle"
  /\ Requested
  /\ \E a \in Appointment :
       /\ Exists(a)
       /\ row' = [row EXCEPT ![a].status = "cancelled", ![a].version = @ + 1]
       /\ call' = [call EXCEPT ![c] = [Idle EXCEPT !.at = "record", !.op = "cancel", !.appt = a]]
  /\ UNCHANGED <<rule, lock, reminder, triggered, told, history>>

Record(c) ==
  /\ call[c].at = "record"
  /\ told' = [told EXCEPT ![call[c].appt] = @ + 1]
  /\ Ends(c)
  /\ UNCHANGED <<rule, row, lock, reminder, triggered, history, bounds>>

\* An administrator sets or removes a rule: no lock, and nothing booked is looked at.
SetRule(s) ==
  /\ Requested
  /\ \E r \in (Rules \union {None}) \ {rule[s]} : rule' = [rule EXCEPT ![s] = r]
  /\ UNCHANGED <<row, lock, call, reminder, triggered, told, history>>

----------------------------------------------------------------------------
(* Faults *)

BreaksOff(c) ==
  LET a == call[c].appt
  IN  /\ cut' = IF call[c].op = "create" /\ a # New THEN cut \union {a} ELSE cut
      /\ untold' = IF call[c].at = "record" THEN [untold EXCEPT ![a] = @ + 1] ELSE untold

\* The process dies, or an error ends the call; the lock stays until it expires.
Crash(c) ==
  /\ call[c].at # "idle"
  /\ Fault
  /\ BreaksOff(c)
  /\ Ends(c)
  /\ UNCHANGED <<rule, row, lock, reminder, triggered, told, earlier, under, late, unguarded>>

\* The database fails within the transaction, which is aborted; finally releases the lock.
Aborts(c) ==
  /\ InLock(c)
  /\ Fault
  /\ Leaves(c, New, call[c].start)
  /\ UNCHANGED <<rule, row, lock, reminder, triggered, told, history>>

Next ==
  \/ \E c \in Callers :
       \/ Create(c) \/ Reschedule(c) \/ TakeLock(c)
       \/ Read(c) \/ Commit(c) \/ Retry(c) \/ CommitUnknown(c) \/ Release(c)
       \/ Remind(c) \/ Trigger(c) \/ Cancel(c) \/ Record(c)
       \/ Crash(c) \/ Aborts(c)
  \/ \E s \in Staff : LockExpires(s) \/ SetRule(s)

Spec == Init /\ [][Next]_vars

----------------------------------------------------------------------------
(* Properties *)

\* No double booking: an appointment with its buffers never reaches into one that had its time
\* before it, unless the request that placed one of the two had lost its lock to the expiry.
\* The buffers of the earlier one are nobody's concern (findConflict).
ClearOfEarlier ==
  \A a, b \in Appointment :
    /\ Live(a) /\ Live(b) /\ row[a].staff = row[b].staff
    /\ b \in earlier[a]
    /\ {a, b} \intersect unguarded = {}
    => ~Reaches(row[a], row[b])

\* The check of the two ends keeps an appointment within working hours and outside the breaks of
\* the rule it was placed under, but for the minute it ends in and except across the hour the
\* clocks are set back.  Of an end only the whole minutes are compared: one up to a minute past
\* closing or into a break is let through.
PlacedAtWork ==
  \A a \in Appointment :
    /\ Exists(a) /\ under[a] # None
    /\ ~(Shift < 0 /\ row[a].start < ChangeAt /\ ChangeAt <= row[a].end)
    => \A t \in row[a].start .. row[a].end - 1 :
         AtWork(under[a], t) \/ zonedParts(t) = zonedParts(row[a].end)

\* A request that has found or made the appointment and is still to follow it up.
FollowsUp(c, a) ==
  call[c].op = "create" /\ call[c].appt = a /\ call[c].at \in {"release", "remind", "trigger"}

FollowedUp(a) ==
  a \in cut \/ (\E c \in Callers : FollowsUp(c, a)) \/ (reminder[a] # None /\ a \in triggered)

InTime(a) == reminder[a] \in {None, row[a].start} \/ row[a].version > 0

\* A booking gets its reminder and its workflows, from a repeated call if not from the first,
\* unless a call broke off after the commit; and the reminder is for the time of the appointment
\* unless it was changed since, which moves no reminder.
ReminderNeedsCause == \A a \in Appointment : Exists(a) => FollowedUp(a) /\ InTime(a)

\* Every change of an appointment has one event, however often its transaction ran, except a
\* cancellation whose call broke off between the two (cancel is not a transaction).
EveryChangeTold ==
  \A a \in Appointment : Exists(a) =>
    row[a].version + 1 =
      told[a] + untold[a] + Cardinality({c \in Callers : call[c].at = "record" /\ call[c].appt = a})

----------------------------------------------------------------------------
(* The inductive invariants (proved in AppointmentsProofs)                   *)

RowShape == [status : {"absent", "confirmed", "cancelled"}, staff : Staff \union {None},
             key : Keys \union {None}, start : Int, end : Int, before : Nat, after : Nat, version : Nat]
CallShape == [at : {"idle", "asked", "locked", "insert", "update", "release", "remind", "trigger", "record"},
              op : {"create", "reschedule", "cancel"}, appt : Appointment \union {New},
              staff : Staff \union {None}, service : Services \union {None},
              key : Keys \union {None}, start : Int, end : Int, version : Nat, rule : Rules \union {None}]

ShapeInv ==
  /\ rule \in [Staff -> Rules \union {None}]
  /\ row \in [Appointment -> RowShape] /\ \A a \in Appointment : Exists(a) => row[a].staff \in Staff
  /\ lock \in [Staff -> Callers \union {None}]
  /\ call \in [Callers -> CallShape]
  /\ reminder \in [Appointment -> Int \union {None}]
  /\ triggered \subseteq Appointment
  /\ earlier \in [Appointment -> SUBSET Appointment]
  /\ late \subseteq Callers /\ unguarded \subseteq Appointment /\ cut \subseteq Appointment

\* A request is about a member of staff from the start, and about a row that exists from when it
\* knows which; what it moves belongs to that member of staff.
About(c) ==
  /\ call[c].at \in {"asked", "locked", "insert", "update", "release"} => call[c].staff \in Staff
  /\ call[c].at \in {"asked", "locked", "insert", "update"} =>
       IF call[c].op = "create" THEN call[c].appt = New /\ call[c].service \in Services
       ELSE call[c].appt # New /\ row[call[c].appt].staff = call[c].staff
  /\ call[c].at = "insert" => call[c].op = "create"
  /\ call[c].at = "update" => call[c].op # "create"
  /\ call[c].at \in {"remind", "trigger", "record"} => call[c].appt # New
  /\ call[c].appt # New => Exists(call[c].appt)

\* A request within its lock holds it, unless it has expired.
Guard(c) == InLock(c) /\ c \notin late => lock[call[c].staff] = c

\* What such a request is about to write is still clear of everything that was not placed
\* by one whose lock had expired.
Candidate(c) == IF call[c].at = "insert" THEN Inserted(c) ELSE Moved(c)

Clear(c) ==
  call[c].at \in {"insert", "update"} /\ c \notin late =>
    \A b \in Appointment \ {call[c].appt} :
      Live(b) /\ row[b].staff = call[c].staff /\ b \notin unguarded => ~Reaches(Candidate(c), row[b])

AboutInv == \A c \in Callers : About(c)
GuardInv == \A c \in Callers : Guard(c)
ClearInv == \A c \in Callers : Clear(c)

IInv == ShapeInv /\ AboutInv /\ GuardInv /\ ClearInv /\ ClearOfEarlier

\* A request that is to add the reminder has the appointment's time, or that was changed since;
\* one that is to trigger the workflows has added it.
Reminds(c) ==
  /\ call[c].at \in {"release", "remind"} /\ call[c].appt # New =>
       call[c].start = row[call[c].appt].start \/ row[call[c].appt].version > 0
  /\ call[c].at = "trigger" => reminder[call[c].appt] # None

FollowInv ==
  /\ \A c \in Callers : Reminds(c)
  /\ \A a \in Appointment : ~Exists(a) => reminder[a] = None
  /\ ReminderNeedsCause

\* What has been checked is what is written, under the rule it was checked with.
PlacedInv ==
  /\ under \in [Appointment -> Rules \union {None}]
  /\ \A c \in Callers : call[c].at \in {"insert", "update"} =>
       Permits(call[c].rule, call[c].start, call[c].end)
  /\ \A a \in Appointment : Exists(a) => Permits(under[a], row[a].start, row[a].end)

\* Nothing is told of an appointment that does not exist.
ToldInv ==
  /\ told \in [Appointment -> Nat] /\ untold \in [Appointment -> Nat]
  /\ \A a \in Appointment : ~Exists(a) => told[a] = 0 /\ untold[a] = 0
  /\ EveryChangeTold
=============================================================================
