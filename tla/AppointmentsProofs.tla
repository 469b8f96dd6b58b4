-------------------------- MODULE AppointmentsProofs --------------------------
(***************************************************************************)
(* Proofs about Appointments, for any number of members of staff, callers  *)
(* and appointments, any rules and any number of faults.                   *)
(*                                                                         *)
(* No double booking (IInv): of the requests within the lock of a member   *)
(* of staff, at most one still holds it, so what the transaction of that   *)
(* one read stays true of everything but what the others write, and those  *)
(* placements are marked unguarded.                                        *)
(*                                                                         *)
(* The follow-up (FollowInv): a request that is to add a reminder has the  *)
(* time of the appointment or one it was moved from, and nobody takes away *)
(* a reminder, so the only way to lose one is to break off.                *)
(***************************************************************************)
EXTENDS Appointments, FiniteSetTheorems, TLAPS

(* A row that is moved or cancelled, and a request that goes on, are rows and requests again. *)
LEMMA RowMoves ==
  ASSUME NEW old \in RowShape, NEW k \in Keys \union {None}, NEW s \in Int, NEW e \in Int, NEW n \in Nat
  PROVE  [old EXCEPT !.start = s, !.end = e, !.key = k, !.version = n] \in RowShape
BY DEF RowShape

LEMMA RowCancelled ==
  ASSUME NEW old \in RowShape, NEW n \in Nat
  PROVE  [old EXCEPT !.status = "cancelled", !.version = n] \in RowShape
BY DEF RowShape

CallAt == {"idle", "asked", "locked", "insert", "update", "release", "remind", "trigger", "record"}

LEMMA CallGoes ==
  ASSUME NEW r \in CallShape, NEW at \in CallAt
  PROVE  [r EXCEPT !.at = at] \in CallShape
BY DEF CallShape, CallAt

LEMMA CallLeaves ==
  ASSUME NEW r \in CallShape, NEW a \in Appointment \union {New}, NEW s \in Int
  PROVE  [r EXCEPT !.at = "release", !.appt = a, !.start = s] \in CallShape
BY DEF CallShape

LEMMA CallDecides ==
  ASSUME NEW r \in CallShape, NEW at \in CallAt, NEW q \in Rules \union {None}
  PROVE  [r EXCEPT !.at = at, !.rule = q] \in CallShape
BY DEF CallShape, CallAt

LEMMA CallCommitted ==
  ASSUME NEW r \in CallShape, NEW a \in Appointment
  PROVE  [r EXCEPT !.at = "release", !.appt = a] \in CallShape
BY DEF CallShape

LEMMA IdleShape == Idle \in CallShape
BY DEF Idle, CallShape, New

LEMMA CallCancels ==
  ASSUME NEW r \in CallShape, NEW a \in Appointment
  PROVE  [r EXCEPT !.at = "record", !.op = "cancel", !.appt = a] \in CallShape
BY DEF CallShape

(* The request that makes a step is the only one to change. *)
LEMMA CallsShape ==
  ASSUME ShapeInv, NEW c \in Callers, NEW r \in CallShape, call' = [call EXCEPT ![c] = r]
  PROVE  call' \in [Callers -> CallShape]
BY DEF ShapeInv

(* The two shapes of a written row. *)
LEMMA CandidateShape ==
  ASSUME ShapeInv, AboutInv, NEW c \in Callers, call[c].at \in {"insert", "update"}
  PROVE  /\ Candidate(c) \in RowShape
         /\ Candidate(c).staff = call[c].staff /\ call[c].staff \in Staff
         /\ Candidate(c).status # "absent"
         /\ call[c].at = "update" => /\ call[c].appt \in Appointment
                                     /\ Exists(call[c].appt)
<1>1. CASE call[c].at = "insert"
  <2>1. call[c].op = "create" /\ call[c].staff \in Staff /\ call[c].service \in Services
    BY <1>1 DEF AboutInv, About
  <2>2. call[c] \in CallShape
    BY DEF ShapeInv
  <2>. DEFINE b == IF call[c].rule # None THEN [before |-> call[c].rule.before, after |-> call[c].rule.after]
                   ELSE Buffer[call[c].service]
  <2>3. b.before \in Nat /\ b.after \in Nat
    BY <2>1, <2>2, AppointmentsAssumption DEF CallShape
  <2>4. Candidate(c) = [status |-> "confirmed", staff |-> call[c].staff, key |-> call[c].key,
                        start |-> call[c].start, end |-> call[c].end, before |-> b.before,
                        after |-> b.after, version |-> 0]
    BY <1>1 DEF Candidate, Inserted
  <2>. QED  BY <1>1, <2>1, <2>2, <2>3, <2>4 DEF RowShape, CallShape
<1>2. CASE call[c].at = "update"
  <2>1. call[c] \in CallShape /\ call[c].op # "create"
    BY <1>2 DEF ShapeInv, AboutInv, About
  <2>2. call[c].appt \in Appointment /\ Exists(call[c].appt) /\ row[call[c].appt].staff = call[c].staff
    BY <1>2, <2>1 DEF AboutInv, About, CallShape
  <2>3. row[call[c].appt] \in RowShape
    BY <2>2 DEF ShapeInv
  <2>. DEFINE old == row[call[c].appt]
  <2>4. Candidate(c) = [old EXCEPT !.start = call[c].start, !.end = call[c].end, !.key = call[c].key,
                                   !.version = old.version + 1]
    BY <1>2 DEF Candidate, Moved
  <2>5. /\ old.version + 1 \in Nat
        /\ call[c].start \in Int /\ call[c].end \in Int /\ call[c].key \in Keys \union {None}
    BY <2>1, <2>3 DEF RowShape, CallShape
  <2>6. old \in RowShape
    BY <2>3
  <2>. HIDE DEF old
  <2>7. Candidate(c) \in RowShape
    <3>1. PICK n \in Nat : n = old.version + 1
      BY <2>5
    <3>. DEFINE new == [old EXCEPT !.start = call[c].start, !.end = call[c].end,
                                   !.key = call[c].key, !.version = n]
    <3>2. new \in RowShape
      BY <2>5, <2>6, RowMoves
    <3>3. Candidate(c) = new
      BY <2>4, <3>1
    <3>. HIDE DEF new
    <3>. QED  BY <3>2, <3>3
  <2>8. Candidate(c).staff = old.staff /\ Candidate(c).status = old.status
    BY <2>4, <2>6 DEF RowShape
  <2>9. call[c].staff \in Staff
    BY <1>2 DEF AboutInv, About
  <2>. QED  BY <1>2, <2>2, <2>7, <2>8, <2>9 DEF Exists, old
<1>. QED  BY <1>1, <1>2

(* What a write does, whichever it is. *)
Wrote(c, a) ==
  /\ row' = [row EXCEPT ![a] = Candidate(c)]
  /\ earlier' = [b \in Appointment |-> IF b = a THEN {d \in Appointment \ {a} : Exists(d)}
                                       ELSE earlier[b] \ {a}]
  /\ unguarded' = IF c \in late THEN unguarded \union {a} ELSE unguarded \ {a}
  /\ under' = [under EXCEPT ![a] = call[c].rule]
  /\ told' = [told EXCEPT ![a] = @ + 1]

LEMMA AppliesWrote ==
  ASSUME NEW c \in Callers, NEW a \in Appointment, Applies(c, a)
  PROVE  /\ Wrote(c, a)
         /\ \/ call[c].at = "insert" /\ ~Exists(a)
            \/ call[c].at = "update" /\ a = call[c].appt
<1>1. CASE call[c].at = "insert" /\ NextId(a) /\ Writes(c, a, Inserted(c))
  <2>1. Candidate(c) = Inserted(c)
    BY <1>1 DEF Candidate
  <2>2. Wrote(c, a)
    BY <1>1, <2>1 DEF Writes, Wrote
  <2>3. ~Exists(a) /\ call[c].at = "insert"
    BY <1>1 DEF NextId
  <2>. QED  BY <2>2, <2>3
<1>2. CASE call[c].at = "update" /\ a = call[c].appt /\ Writes(c, a, Moved(c))
  <2>1. Candidate(c) = Moved(c)
    BY <1>2 DEF Candidate
  <2>. QED  BY <1>2, <2>1 DEF Writes, Wrote
<1>. QED  BY <1>1, <1>2 DEF Applies

(* Init gives IInv and FollowInv. *)
LEMMA InitInv == Init => IInv /\ FollowInv
<1>. SUFFICES ASSUME Init PROVE IInv /\ FollowInv
  OBVIOUS
<1>1. ShapeInv
  BY AppointmentsAssumption DEF Init, Exists, ShapeInv, RowShape, CallShape, Idle, Absent, New
<1>2. AboutInv /\ GuardInv /\ ClearInv
  BY DEF Init, AboutInv, About, GuardInv, Guard, ClearInv, Clear, Idle, InLock, New
<1>3. ClearOfEarlier /\ FollowInv
  BY DEF Init, ClearOfEarlier, FollowInv, Reminds, ReminderNeedsCause, Absent, Live, Exists, Idle, New
<1>. QED  BY <1>1, <1>2, <1>3 DEF IInv

----------------------------------------------------------------------------
(* Types *)

LEMMA ShapeStep ==
  ASSUME ShapeInv, AboutInv, [Next]_vars
  PROVE  ShapeInv'
<1>. USE DEF ShapeInv, Exists
<1>1. ASSUME NEW c \in Callers, Create(c) PROVE ShapeInv'
  BY <1>1, AppointmentsAssumption DEF Create, CallShape, New, history, Period
<1>2. ASSUME NEW c \in Callers, Reschedule(c) PROVE ShapeInv'
  <2>1. PICK a \in Appointment, r \in Ranges, k \in Keys :
          call' = [call EXCEPT ![c] = [at |-> "asked", op |-> "reschedule", appt |-> a,
                                       staff |-> row[a].staff, service |-> None, key |-> k,
                                       start |-> r.start, end |-> r.end,
                                       version |-> row[a].version, rule |-> None]]
    BY <1>2 DEF Reschedule
  <2>2. row[a] \in RowShape /\ r \in Period
    BY AppointmentsAssumption
  <2>. QED  BY <1>2, <2>1, <2>2 DEF Reschedule, CallShape, RowShape, history, Period
<1>3. ASSUME NEW c \in Callers, TakeLock(c) PROVE ShapeInv'
  <2>1. call' \in [Callers -> CallShape]
    BY <1>3, CallsShape, CallGoes, IdleShape DEF TakeLock, Goes, Ends, CallAt
  <2>. QED  BY <1>3, <2>1 DEF TakeLock
<1>4. ASSUME NEW c \in Callers, Read(c) PROVE ShapeInv'
  <2>. DEFINE r == call[c]
  <2>1. r \in CallShape /\ r.start \in Int
    BY DEF CallShape
  <2>2. ASSUME NEW a \in Appointment \union {New}, NEW s \in Int, Leaves(c, a, s)
        PROVE  call' \in [Callers -> CallShape]
    <3>1. call' = [call EXCEPT ![c] = [r EXCEPT !.at = "release", !.appt = a, !.start = s]]
      BY <2>2 DEF Leaves
    <3>. QED  BY <2>1, <3>1, CallLeaves, CallsShape
  <2>3. ASSUME NEW at \in CallAt, NEW q \in Rules \union {None},
               call' = [call EXCEPT ![c].at = at, ![c].rule = q]
        PROVE  call' \in [Callers -> CallShape]
    <3>1. call' = [call EXCEPT ![c] = [r EXCEPT !.at = at, !.rule = q]]
      BY <2>3
    <3>. QED  BY <2>1, <3>1, CallDecides, CallsShape
  <2>4. \A a \in Appointment : row[a].start \in Int
    BY DEF RowShape
  <2>5. ASSUME NEW s \in Staff \union {None}, NEW at \in CallAt, s \in Staff,
               call' = [call EXCEPT ![c].at = at, ![c].rule = rule[s]]
        PROVE  call' \in [Callers -> CallShape]
    BY <2>3, <2>5
  <2>6. ASSUME r.op = "create" PROVE call' \in [Callers -> CallShape]
    <3>1. r.staff \in Staff
      BY <1>4 DEF Read, AboutInv, About
    <3>2. CASE \E a \in Appointment : row[a].key = call[c].key /\ Leaves(c, a, row[a].start)
      BY <2>2, <2>4, <3>2
    <3>3. CASE Leaves(c, New, call[c].start)
      BY <2>1, <2>2, <3>3
    <3>4. CASE call' = [call EXCEPT ![c].at = "insert", ![c].rule = rule[call[c].staff]]
      BY <2>5, <3>1, <3>4 DEF CallAt
    <3>. QED  BY <1>4, <2>6, <3>2, <3>3, <3>4 DEF Read, ReadForCreate
  <2>7. ASSUME r.op # "create" PROVE call' \in [Callers -> CallShape]
    <3>1. row[r.appt].staff \in Staff
      BY <1>4, <2>7 DEF Read, AboutInv, About
    <3>2. CASE Leaves(c, New, call[c].start)
      BY <2>1, <2>2, <3>2
    <3>3. CASE call' = [call EXCEPT ![c].at = "update", ![c].rule = rule[row[r.appt].staff]]
      BY <2>5, <3>1, <3>3 DEF CallAt
    <3>. QED  BY <1>4, <2>7, <3>2, <3>3 DEF Read, ReadForReschedule
  <2>. QED  BY <1>4, <2>6, <2>7 DEF Read, history
<1>5. ASSUME NEW c \in Callers, Commit(c) PROVE ShapeInv'
  <2>1. PICK a \in Appointment : /\ Applies(c, a)
                                 /\ call' = [call EXCEPT ![c].at = "release", ![c].appt = a]
    BY <1>5 DEF Commit
  <2>2. /\ Wrote(c, a) /\ Candidate(c) \in RowShape
        /\ Candidate(c).staff \in Staff
    BY <1>5, <2>1, AppliesWrote, CandidateShape DEF Commit
  <2>3. call' = [call EXCEPT ![c] = [call[c] EXCEPT !.at = "release", !.appt = a]]
    BY <2>1
  <2>4. call' \in [Callers -> CallShape]
    BY <2>3, CallCommitted, CallsShape
  <2>. QED  BY <1>5, <2>2, <2>4 DEF Commit, Wrote
<1>6. ASSUME NEW c \in Callers, CommitUnknown(c) PROVE ShapeInv'
  <2>1. PICK a \in Appointment : /\ Applies(c, a)
                                 /\ cut' = IF call[c].op = "create" THEN cut \union {a} ELSE cut
    BY <1>6 DEF CommitUnknown
  <2>2. /\ Wrote(c, a) /\ Candidate(c) \in RowShape
        /\ Candidate(c).staff \in Staff
    BY <1>6, <2>1, AppliesWrote, CandidateShape DEF CommitUnknown
  <2>3. call' \in [Callers -> CallShape]
    BY <1>6, CallsShape, CallGoes DEF CommitUnknown, Goes, CallAt
  <2>. QED  BY <1>6, <2>1, <2>2, <2>3 DEF CommitUnknown, Wrote
<1>7. ASSUME NEW c \in Callers, Retry(c) \/ Release(c) PROVE ShapeInv'
  <2>1. call' \in [Callers -> CallShape]
    BY <1>7, CallsShape, CallGoes, IdleShape DEF Retry, Release, Goes, Ends, CallAt
  <2>. QED  BY <1>7, <2>1 DEF Retry, Release, history
<1>8. ASSUME NEW c \in Callers, Remind(c) PROVE ShapeInv'
  <2>1. call' \in [Callers -> CallShape]
    BY <1>8, CallsShape, CallGoes, IdleShape DEF Remind, Goes, Ends, CallAt
  <2>2. call[c].start \in Int
    BY DEF CallShape
  <2>. QED  BY <1>8, <2>1, <2>2 DEF Remind, history
<1>9. ASSUME NEW c \in Callers, Trigger(c) PROVE ShapeInv'
  <2>1. call[c].appt \in Appointment
    BY <1>9 DEF Trigger, AboutInv, About, CallShape
  <2>2. call' \in [Callers -> CallShape]
    BY <1>9, CallsShape, IdleShape DEF Trigger, Ends
  <2>. QED  BY <1>9, <2>1, <2>2 DEF Trigger
<1>10. ASSUME NEW c \in Callers, Cancel(c) PROVE ShapeInv'
  <2>1. PICK a \in Appointment :
          /\ row' = [row EXCEPT ![a].status = "cancelled", ![a].version = @ + 1]
          /\ call' = [call EXCEPT ![c] = [Idle EXCEPT !.at = "record", !.op = "cancel", !.appt = a]]
    BY <1>10 DEF Cancel
  <2>2. row[a] \in RowShape /\ row[a].version + 1 \in Nat
    BY DEF RowShape
  <2>3. [row[a] EXCEPT !.status = "cancelled", !.version = row[a].version + 1] \in RowShape
    BY <2>2, RowCancelled
  <2>4. row' = [row EXCEPT ![a] = [row[a] EXCEPT !.status = "cancelled", !.version = row[a].version + 1]]
    BY <2>1
  <2>5. row' \in [Appointment -> RowShape]
    BY <2>3, <2>4
  <2>6. call' \in [Callers -> CallShape]
    BY <2>1, IdleShape, CallCancels, CallsShape
  <2>. QED  BY <1>10, <2>5, <2>6 DEF Cancel, history
<1>11. ASSUME NEW c \in Callers, Record(c) PROVE ShapeInv'
  <2>1. call' \in [Callers -> CallShape]
    BY <1>11, CallsShape, IdleShape DEF Record, Ends
  <2>. QED  BY <1>11, <2>1 DEF Record, history
<1>12. ASSUME NEW c \in Callers, Crash(c) PROVE ShapeInv'
  <2>1. call[c].appt # New => call[c].appt \in Appointment
    BY DEF CallShape
  <2>2. call' \in [Callers -> CallShape]
    BY <1>12, CallsShape, IdleShape DEF Crash, Ends
  <2>. QED  BY <1>12, <2>1, <2>2 DEF Crash, BreaksOff
<1>13. ASSUME NEW c \in Callers, Aborts(c) PROVE ShapeInv'
  <2>1. call' = [call EXCEPT ![c] = [call[c] EXCEPT !.at = "release", !.appt = New, !.start = call[c].start]]
    BY <1>13 DEF Aborts, Leaves
  <2>2. call[c].start \in Int
    BY DEF CallShape
  <2>3. call' \in [Callers -> CallShape]
    BY <2>1, <2>2, CallLeaves, CallsShape
  <2>. QED  BY <1>13, <2>3 DEF Aborts, history
<1>14. ASSUME NEW s \in Staff, LockExpires(s) \/ SetRule(s) PROVE ShapeInv'
  BY <1>14 DEF LockExpires, SetRule, history
<1>15. ASSUME UNCHANGED vars PROVE ShapeInv'
  BY <1>15 DEF vars, history
<1>. QED
  BY <1>1, <1>2, <1>3, <1>4, <1>5, <1>6, <1>7, <1>8, <1>9, <1>10, <1>11, <1>12, <1>13, <1>14, <1>15
     DEF Next

----------------------------------------------------------------------------
(* No double booking *)

(* The other requests and the rows, through a step of c that places nothing. *)
LEMMA OthersKeep ==
  ASSUME IInv, ShapeInv', NEW c,
         \A a \in Appointment :
           /\ row'[a].staff = row[a].staff /\ row'[a].start = row[a].start /\ row'[a].end = row[a].end
           /\ row'[a].before = row[a].before /\ row'[a].after = row[a].after
           /\ (Live(a)' => Live(a)) /\ (Exists(a) => Exists(a)'),
         earlier' = earlier, unguarded' = unguarded,
         \A d \in Callers \ {c} :
           /\ call'[d] = call[d]
           /\ d \in late => d \in late'
           /\ InLock(d) /\ d \notin late' => lock'[call[d].staff] = lock[call[d].staff]
  PROVE  /\ \A d \in Callers \ {c} : About(d)' /\ Guard(d)' /\ Clear(d)'
         /\ ClearOfEarlier'
<1>1. ASSUME NEW x, NEW y, NEW z, x.start = y.start, x.end = y.end, x.before = y.before, x.after = y.after
      PROVE  Reaches(x, z) <=> Reaches(y, z)
  BY <1>1 DEF Reaches
<1>2. \A x : \A a \in Appointment : Reaches(x, row'[a]) <=> Reaches(x, row[a])
  BY DEF Reaches
<1>3. ASSUME NEW d \in Callers \ {c} PROVE About(d)' /\ Guard(d)' /\ Clear(d)'
  <2>1. call[d] \in CallShape /\ About(d) /\ Guard(d) /\ Clear(d) /\ call'[d] = call[d]
    BY DEF IInv, ShapeInv, AboutInv, GuardInv, ClearInv
  <2>2. About(d)'
    BY <2>1 DEF About, CallShape
  <2>3. Guard(d)'
    BY <2>1 DEF Guard, InLock
  <2>4. ASSUME call[d].at \in {"insert", "update"}, NEW z
        PROVE  Reaches(Candidate(d)', z) <=> Reaches(Candidate(d), z)
    <3>1. CASE call[d].at = "insert"
      BY <2>1, <3>1 DEF Candidate, Inserted
    <3>2. CASE call[d].at = "update"
      <4>1. call[d].appt \in Appointment
        BY <2>1, <3>2 DEF About, CallShape
      <4>2. row[call[d].appt] \in RowShape /\ row'[call[d].appt] \in RowShape
        BY <4>1 DEF IInv, ShapeInv
      <4>3. /\ Candidate(d) = [row[call[d].appt] EXCEPT !.start = call[d].start, !.end = call[d].end,
                                  !.key = call[d].key, !.version = row[call[d].appt].version + 1]
            /\ Candidate(d)' = [row'[call[d].appt] EXCEPT !.start = call[d].start, !.end = call[d].end,
                                  !.key = call[d].key, !.version = row'[call[d].appt].version + 1]
        BY <2>1, <3>2 DEF Candidate, Moved
      <4>4. /\ Candidate(d)'.start = Candidate(d).start /\ Candidate(d)'.end = Candidate(d).end
            /\ Candidate(d)'.before = Candidate(d).before /\ Candidate(d)'.after = Candidate(d).after
        BY <4>1, <4>2, <4>3 DEF RowShape
      <4>. QED  BY <1>1, <4>4
    <3>. QED  BY <2>4, <3>1, <3>2
  <2>5. Clear(d)'
    BY <1>2, <2>1, <2>4 DEF Clear
  <2>. QED  BY <2>2, <2>3, <2>5
<1>4. ClearOfEarlier'
  BY <1>1, <1>2 DEF IInv, ClearOfEarlier
<1>. QED  BY <1>3, <1>4

(* The same, through a step of c that changes no row, no lock and no other request. *)
LEMMA OthersStay ==
  ASSUME IInv, ShapeInv', NEW c, row' = row, lock' = lock, late' = late,
         earlier' = earlier, unguarded' = unguarded,
         \A d \in Callers \ {c} : call'[d] = call[d]
  PROVE  /\ \A d \in Callers \ {c} : About(d)' /\ Guard(d)' /\ Clear(d)'
         /\ ClearOfEarlier'
<1>1. \A a \in Appointment :
         /\ row'[a].staff = row[a].staff /\ row'[a].start = row[a].start /\ row'[a].end = row[a].end
         /\ row'[a].before = row[a].before /\ row'[a].after = row[a].after
         /\ (Live(a)' => Live(a)) /\ (Exists(a) => Exists(a)')
  BY DEF Live, Exists
<1>2. \A d \in Callers \ {c} :
         /\ call'[d] = call[d]
         /\ d \in late => d \in late'
         /\ InLock(d) /\ d \notin late' => lock'[call[d].staff] = lock[call[d].staff]
  OBVIOUS
<1>. QED  BY <1>1, <1>2, OthersKeep

(* The step of a request that decides nothing and is not within its lock after it. *)
LEMMA SelfOut ==
  ASSUME NEW c \in Callers, About(c)', call'[c].at \notin {"locked", "insert", "update"}
  PROVE  About(c)' /\ Guard(c)' /\ Clear(c)'
BY DEF Guard, Clear, InLock

LEMMA Together ==
  ASSUME NEW c, \A d \in Callers \ {c} : About(d)' /\ Guard(d)' /\ Clear(d)',
         c \in Callers => About(c)' /\ Guard(c)' /\ Clear(c)',
         ShapeInv', ClearOfEarlier'
  PROVE  IInv'
BY DEF IInv, AboutInv, GuardInv, ClearInv

(* A request that ends is about nothing. *)
LEMMA IdleAbout ==
  ASSUME ShapeInv, NEW c \in Callers, Ends(c)
  PROVE  About(c)' /\ call'[c].at = "idle" /\ \A d \in Callers \ {c} : call'[d] = call[d]
BY DEF ShapeInv, Ends, Idle, About, New

(* A request that goes on with what it knows. *)
LEMMA GoesAbout ==
  ASSUME ShapeInv, NEW c \in Callers, NEW at \in CallAt, Goes(c, at)
  PROVE  /\ call'[c] = [call[c] EXCEPT !.at = at] /\ call'[c].at = at /\ call'[c].op = call[c].op
         /\ call'[c].appt = call[c].appt /\ call'[c].staff = call[c].staff
         /\ call'[c].service = call[c].service /\ call'[c].start = call[c].start
         /\ \A d \in Callers \ {c} : call'[d] = call[d]
BY DEF ShapeInv, CallShape, Goes

LEMMA LeavesAbout ==
  ASSUME ShapeInv, NEW c \in Callers, NEW a, NEW s, Leaves(c, a, s)
  PROVE  /\ call'[c].at = "release" /\ call'[c].appt = a /\ call'[c].staff = call[c].staff
         /\ call'[c].op = call[c].op /\ call'[c].start = s
         /\ \A d \in Callers \ {c} : call'[d] = call[d]
BY DEF ShapeInv, CallShape, Leaves

(* The lock goes to a request that finds it free. *)
LEMMA StepTakeLock ==
  ASSUME IInv, ShapeInv', NEW c \in Callers, TakeLock(c)
  PROVE  IInv'
<1>. USE DEF IInv
<1>1. About(c) /\ call[c].at = "asked" /\ call[c].staff \in Staff /\ None \notin Callers
  BY AppointmentsAssumption DEF TakeLock, AboutInv, About
<1>2. CASE lock[call[c].staff] = None /\ lock' = [lock EXCEPT ![call[c].staff] = c] /\ Goes(c, "locked")
  <2>1. /\ call'[c].at = "locked" /\ call'[c].op = call[c].op /\ call'[c].appt = call[c].appt
        /\ call'[c].staff = call[c].staff /\ call'[c].service = call[c].service
        /\ \A d \in Callers \ {c} : call'[d] = call[d]
    BY <1>2, GoesAbout DEF CallAt
  <2>2. About(c)' /\ Guard(c)' /\ Clear(c)'
    BY <1>1, <1>2, <2>1 DEF About, Guard, Clear, ShapeInv, TakeLock, Exists
  <2>3. \A d \in Callers \ {c} : InLock(d) /\ d \notin late' => lock'[call[d].staff] = lock[call[d].staff]
    BY <1>1, <1>2 DEF GuardInv, Guard, ShapeInv, TakeLock
  <2>. QED  BY <2>1, <2>2, <2>3, OthersKeep, Together DEF TakeLock, Live, Exists
<1>3. CASE Ends(c) /\ lock' = lock
  BY <1>3, IdleAbout, SelfOut, OthersKeep, Together DEF TakeLock, Live, Exists
<1>. QED  BY <1>2, <1>3 DEF TakeLock

(* The steps of a request outside its lock that place nothing. *)
LEMMA StepOutside ==
  ASSUME IInv, ShapeInv', NEW c \in Callers,
         Create(c) \/ Reschedule(c) \/ Release(c) \/ Remind(c) \/ Trigger(c) \/ Record(c) \/ Crash(c) \/ Aborts(c)
  PROVE  IInv'
<1>. USE DEF IInv
<1>1. About(c) /\ call[c] \in CallShape /\ None \notin Callers
  BY AppointmentsAssumption DEF AboutInv, ShapeInv
<1>2. row' = row /\ earlier' = earlier /\ unguarded' = unguarded /\ late' = late
  BY DEF Create, Reschedule, Release, Remind, Trigger, Record, Crash, Aborts, history
<1>3. \A d \in Callers \ {c} : InLock(d) /\ d \notin late' => lock'[call[d].staff] = lock[call[d].staff]
  <2>1. CASE Release(c)
    BY <1>1, <1>2, <2>1 DEF GuardInv, Guard, ShapeInv, Release
  <2>2. CASE ~Release(c)
    <3>1. lock' = lock
      BY <2>2 DEF Create, Reschedule, Remind, Trigger, Record, Crash, Aborts
    <3>. QED  BY <3>1
  <2>. QED  BY <2>1, <2>2
<1>4. /\ About(c)' /\ call'[c].at \notin {"locked", "insert", "update"}
      /\ \A d \in Callers \ {c} : call'[d] = call[d]
  <2>1. CASE Create(c)
    BY <2>1 DEF Create, About, ShapeInv, New
  <2>2. CASE Reschedule(c)
    <3>1. PICK a \in Appointment, r \in Ranges, k \in Keys :
            /\ Exists(a)
            /\ call' = [call EXCEPT ![c] = [at |-> "asked", op |-> "reschedule", appt |-> a,
                                            staff |-> row[a].staff, service |-> None, key |-> k,
                                            start |-> r.start, end |-> r.end,
                                            version |-> row[a].version, rule |-> None]]
      BY <2>2 DEF Reschedule
    <3>2. row[a].staff \in Staff /\ a # New
      BY <3>1, AppointmentsAssumption DEF ShapeInv, Appointment, New
    <3>. QED  BY <1>2, <3>1, <3>2 DEF About, ShapeInv, Exists
  <2>3. CASE Release(c) \/ Remind(c)
    <3>1. CASE Ends(c)
      BY <3>1, IdleAbout
    <3>2. CASE ~Ends(c)
      <4>1. \/ Goes(c, "remind") /\ call[c].appt # New
            \/ Goes(c, "trigger") /\ call[c].at = "remind"
        BY <2>3, <3>2 DEF Release, Remind
      <4>2. call[c].appt # New /\ Exists(call[c].appt)
        BY <1>1, <4>1 DEF About
      <4>. QED  BY <1>2, <4>1, <4>2, GoesAbout DEF About, Exists, CallAt
    <3>. QED  BY <3>1, <3>2
  <2>4. CASE Trigger(c) \/ Record(c) \/ Crash(c)
    BY <2>4, IdleAbout DEF Trigger, Record, Crash
  <2>5. CASE Aborts(c)
    BY <1>1, <2>5, LeavesAbout DEF Aborts, About, InLock, New
  <2>. QED  BY <2>1, <2>2, <2>3, <2>4, <2>5
<1>. QED  BY <1>2, <1>3, <1>4, SelfOut, OthersKeep, Together DEF Live, Exists

LEMMA StepRetry ==
  ASSUME IInv, ShapeInv', NEW c \in Callers, Retry(c)
  PROVE  IInv'
<1>. USE DEF IInv
<1>1. About(c) /\ Guard(c) /\ call[c].at \in {"insert", "update"}
  BY DEF AboutInv, GuardInv, Retry
<1>2. /\ call'[c].at = "locked" /\ call'[c].op = call[c].op /\ call'[c].appt = call[c].appt
      /\ call'[c].staff = call[c].staff /\ call'[c].service = call[c].service
      /\ \A d \in Callers \ {c} : call'[d] = call[d]
  BY GoesAbout DEF CallAt, Retry
<1>3. row' = row /\ lock' = lock /\ earlier' = earlier /\ unguarded' = unguarded /\ late' = late
  BY DEF Retry, history
<1>4. About(c)' /\ Guard(c)' /\ Clear(c)'
  BY <1>1, <1>2, <1>3 DEF About, Guard, Clear, InLock, Exists
<1>5. /\ \A d \in Callers \ {c} : About(d)' /\ Guard(d)' /\ Clear(d)'
      /\ ClearOfEarlier'
  BY <1>2, <1>3, OthersStay
<1>. QED  BY <1>4, <1>5, Together

(* What a transaction has found free is free. *)
LEMMA StepRead ==
  ASSUME IInv, ShapeInv', NEW c \in Callers, Read(c)
  PROVE  IInv'
<1>. USE DEF IInv
<1>1. /\ About(c) /\ Guard(c) /\ call[c] \in CallShape /\ call[c].at = "locked"
      /\ call[c].staff \in Staff
  BY DEF AboutInv, About, GuardInv, ShapeInv, Read
<1>2. row' = row /\ lock' = lock /\ earlier' = earlier /\ unguarded' = unguarded /\ late' = late /\ rule' = rule
  BY DEF Read, history
<1>3. ASSUME NEW a \in Appointment \union {New}, NEW s, Leaves(c, a, s), a # New => Exists(a)
      PROVE  IInv'
  <2>1. About(c)'
    BY <1>1, <1>2, <1>3, LeavesAbout DEF About, Exists
  <2>2. About(c)' /\ Guard(c)' /\ Clear(c)'
    BY <1>3, <2>1, LeavesAbout, SelfOut
  <2>3. \A d \in Callers \ {c} : call'[d] = call[d]
    BY <1>3, LeavesAbout
  <2>4. /\ \A d \in Callers \ {c} : About(d)' /\ Guard(d)' /\ Clear(d)'
        /\ ClearOfEarlier'
    BY <1>2, <2>3, OthersStay
  <2>. QED  BY <2>2, <2>4, Together
<1>4. ASSUME NEW at \in {"insert", "update"}, call' = [call EXCEPT ![c].at = at, ![c].rule = rule[call[c].staff]]
      PROVE  /\ call'[c] = [call[c] EXCEPT !.at = at, !.rule = rule[call[c].staff]]
             /\ call'[c].at = at /\ call'[c].rule = rule[call[c].staff] /\ call'[c].op = call[c].op
             /\ call'[c].appt = call[c].appt /\ call'[c].staff = call[c].staff
             /\ call'[c].service = call[c].service /\ call'[c].start = call[c].start
             /\ call'[c].end = call[c].end /\ call'[c].key = call[c].key
             /\ \A d \in Callers \ {c} : call'[d] = call[d]
  BY <1>4 DEF ShapeInv, CallShape
<1>5. CASE call[c].op = "create" /\ ~FindConflict(call[c].staff, Wanted(c), New)
           /\ call' = [call EXCEPT ![c].at = "insert", ![c].rule = rule[call[c].staff]]
  <2>1. About(c)' /\ Guard(c)'
    BY <1>1, <1>2, <1>4, <1>5 DEF About, Guard, InLock, Exists
  <2>2. \A z : Reaches(Candidate(c)', z) <=> Reaches(Wanted(c), z)
    BY <1>4, <1>5 DEF Candidate, Inserted, Wanted, Reaches
  <2>3. Clear(c)'
    BY <1>1, <1>2, <1>4, <1>5, <2>2 DEF Clear, FindConflict, Live, About
  <2>4. /\ \A d \in Callers \ {c} : About(d)' /\ Guard(d)' /\ Clear(d)'
        /\ ClearOfEarlier'
    BY <1>2, <1>4, <1>5, OthersStay
  <2>. QED  BY <2>1, <2>3, <2>4, Together
<1>6. CASE /\ call[c].op # "create"
           /\ ~FindConflict(call[c].staff, [row[call[c].appt] EXCEPT !.start = call[c].start, !.end = call[c].end],
                            call[c].appt)
           /\ call' = [call EXCEPT ![c].at = "update", ![c].rule = rule[call[c].staff]]
  <2>1. About(c)' /\ Guard(c)'
    BY <1>1, <1>2, <1>4, <1>6 DEF About, Guard, InLock, Exists
  <2>2. row[call[c].appt] \in RowShape
    BY <1>1, <1>6 DEF ShapeInv, About, CallShape
  <2>3. \A z : Reaches(Candidate(c)', z) <=>
                Reaches([row[call[c].appt] EXCEPT !.start = call[c].start, !.end = call[c].end], z)
    BY <1>2, <1>4, <1>6, <2>2 DEF Candidate, Moved, RowShape, Reaches
  <2>4. Clear(c)'
    BY <1>1, <1>2, <1>4, <1>6, <2>3 DEF Clear, FindConflict, Live
  <2>5. /\ \A d \in Callers \ {c} : About(d)' /\ Guard(d)' /\ Clear(d)'
        /\ ClearOfEarlier'
    BY <1>2, <1>4, <1>6, OthersStay
  <2>. QED  BY <2>1, <2>4, <2>5, Together
<1>7. CASE call[c].op = "create"
  <2>. QED  BY <1>3, <1>5, <1>7 DEF Read, ReadForCreate
<1>8. CASE call[c].op # "create"
  <2>1. row[call[c].appt].staff = call[c].staff
    BY <1>1, <1>8 DEF About
  <2>. QED  BY <1>3, <1>6, <1>8, <2>1 DEF Read, ReadForReschedule
<1>. QED  BY <1>7, <1>8

(* A cancellation frees time. *)
LEMMA StepCancel ==
  ASSUME IInv, ShapeInv', NEW c \in Callers, Cancel(c)
  PROVE  IInv'
<1>. USE DEF IInv
<1>1. PICK a \in Appointment :
        /\ Exists(a)
        /\ row' = [row EXCEPT ![a].status = "cancelled", ![a].version = @ + 1]
        /\ call' = [call EXCEPT ![c] = [Idle EXCEPT !.at = "record", !.op = "cancel", !.appt = a]]
  BY DEF Cancel
<1>2. row[a] \in RowShape
  BY DEF ShapeInv
<1>3. \A b \in Appointment :
        /\ row'[b].staff = row[b].staff /\ row'[b].start = row[b].start /\ row'[b].end = row[b].end
        /\ row'[b].before = row[b].before /\ row'[b].after = row[b].after
        /\ (Live(b)' => Live(b)) /\ (Exists(b) => Exists(b)')
  BY <1>1, <1>2 DEF ShapeInv, RowShape, Live, Exists
<1>4. earlier' = earlier /\ unguarded' = unguarded /\ late' = late /\ lock' = lock
  BY DEF Cancel, history
<1>5. /\ call'[c].at = "record" /\ call'[c].appt = a
      /\ \A d \in Callers \ {c} : call'[d] = call[d]
  BY <1>1 DEF ShapeInv, Idle
<1>6. About(c)'
  <2>1. a # New
    BY AppointmentsAssumption DEF Appointment, New
  <2>. QED  BY <1>1, <1>3, <1>5, <2>1 DEF About
<1>. QED  BY <1>3, <1>4, <1>5, <1>6, SelfOut, OthersKeep, Together

(* A lock expires: whoever was within it is late. *)
LEMMA StepLockExpires ==
  ASSUME IInv, ShapeInv', NEW s \in Staff, LockExpires(s)
  PROVE  IInv'
<1>. USE DEF IInv
<1>1. None \notin Callers
  BY AppointmentsAssumption
<1>2. \A d \in Callers : InLock(d) /\ d \notin late' => lock'[call[d].staff] = lock[call[d].staff]
  BY DEF LockExpires, GuardInv, Guard, ShapeInv
<1>3. /\ row' = row /\ call' = call /\ earlier' = earlier /\ unguarded' = unguarded
      /\ \A d \in Callers : d \in late => d \in late'
  BY DEF LockExpires
<1>. QED  BY <1>1, <1>2, <1>3, OthersKeep, Together DEF Live, Exists

LEMMA StepUnseen ==
  ASSUME IInv, ShapeInv', UNCHANGED <<row, lock, call, earlier, late, unguarded>>
  PROVE  IInv'
<1>1. None \notin Callers
  BY AppointmentsAssumption
<1>. QED  BY <1>1, OthersKeep, Together DEF Live, Exists

(* A write: what its request found free becomes the appointment's. *)
LEMMA StepWrite ==
  ASSUME IInv, ShapeInv', NEW c \in Callers, NEW a \in Appointment,
         Wrote(c, a), call[c].at \in {"insert", "update"}, late' = late, lock' = lock,
         \/ call[c].at = "insert" /\ ~Exists(a)
         \/ call[c].at = "update" /\ a = call[c].appt,
         \A d \in Callers \ {c} : call'[d] = call[d],
         call'[c].staff = call[c].staff /\ call'[c].op = call[c].op /\ call'[c].service = call[c].service,
         \/ call'[c].at = "release" /\ call'[c].appt = a
         \/ call'[c].at = "locked" /\ call'[c].appt = call[c].appt
  PROVE  IInv'
<1>. USE DEF IInv
<1>1. /\ Candidate(c) \in RowShape /\ Candidate(c).staff = call[c].staff /\ Candidate(c).status # "absent"
      /\ About(c) /\ Guard(c) /\ Clear(c) /\ call[c] \in CallShape
  BY CandidateShape DEF AboutInv, GuardInv, ClearInv, ShapeInv
<1>2. /\ row'[a] = Candidate(c) /\ Exists(a)'
      /\ \A b \in Appointment \ {a} : row'[b] = row[b] /\ (Live(b)' <=> Live(b)) /\ (Exists(b) => Exists(b)')
  BY <1>1 DEF Wrote, ShapeInv, Exists, Live
<1>3. \A b \in Appointment : Exists(b) => Exists(b)'
  BY <1>2
<1>4. call[c].at = "update" => row[a].staff = call[c].staff
  BY <1>1 DEF About
<1>5. ASSUME NEW d \in Callers \ {c} PROVE About(d)' /\ Guard(d)' /\ Clear(d)'
  <2>1. call[d] \in CallShape /\ About(d) /\ Guard(d) /\ Clear(d) /\ call'[d] = call[d]
    BY DEF ShapeInv, AboutInv, GuardInv, ClearInv
  <2>2. About(d)'
    <3>1. ASSUME call[d].at \in {"asked", "locked", "insert", "update"}, call[d].op # "create"
          PROVE  row'[call[d].appt].staff = call[d].staff
      <4>1. /\ call[d].appt \in Appointment /\ Exists(call[d].appt)
            /\ row[call[d].appt].staff = call[d].staff
        BY <2>1, <3>1 DEF About, CallShape
      <4>. QED  BY <1>1, <1>2, <1>4, <4>1
    <3>2. call[d].appt # New => Exists(call[d].appt)'
      BY <1>3, <2>1 DEF About, CallShape
    <3>. QED  BY <2>1, <3>1, <3>2 DEF About
  <2>3. Guard(d)'
    BY <2>1 DEF Guard, InLock
  <2>4. SUFFICES ASSUME call[d].at \in {"insert", "update"}, d \notin late,
                        NEW b \in Appointment \ {call[d].appt},
                        Live(b)', row'[b].staff = call[d].staff, b \notin unguarded'
                 PROVE  ~Reaches(Candidate(d), row[b])' 
    BY <2>1, <2>2, <2>3 DEF Clear
  <2>5. c \in late \/ call[c].staff # call[d].staff
    BY <1>1, <2>1, <2>4 DEF Guard, InLock
  <2>6. b # a
    BY <1>1, <1>2, <2>4, <2>5 DEF Wrote
  <2>7. Live(b) /\ row'[b] = row[b] /\ b \notin unguarded
    BY <1>2, <2>4, <2>6 DEF Wrote
  <2>8. ~Reaches(Candidate(d), row[b])
    BY <2>1, <2>4, <2>7 DEF Clear
  <2>9. Reaches(Candidate(d)', row[b]) <=> Reaches(Candidate(d), row[b])
    <3>1. CASE call[d].at = "insert"
      BY <2>1, <3>1 DEF Candidate, Inserted
    <3>2. CASE call[d].at = "update"
      <4>. DEFINE e == call[d].appt
      <4>1. e \in Appointment /\ Exists(e)
        BY <2>1, <3>2 DEF About, CallShape
      <4>2. row[e] \in RowShape /\ row'[e] \in RowShape
        BY <4>1 DEF ShapeInv
      <4>3. row'[e].before = row[e].before /\ row'[e].after = row[e].after
        <5>1. CASE e # a
          BY <1>2, <4>1, <5>1
        <5>2. CASE e = a
          <6>1. call[c].at = "update" /\ a = call[c].appt
            BY <4>1, <5>2
          <6>2. Candidate(c) = [row[a] EXCEPT !.start = call[c].start, !.end = call[c].end,
                                              !.key = call[c].key, !.version = row[a].version + 1]
            BY <6>1 DEF Candidate, Moved
          <6>. QED  BY <1>2, <4>2, <5>2, <6>2 DEF RowShape
        <5>. QED  BY <5>1, <5>2
      <4>4. /\ Candidate(d) = [row[e] EXCEPT !.start = call[d].start, !.end = call[d].end,
                                             !.key = call[d].key, !.version = row[e].version + 1]
            /\ Candidate(d)' = [row'[e] EXCEPT !.start = call[d].start, !.end = call[d].end,
                                               !.key = call[d].key, !.version = row'[e].version + 1]
        BY <2>1, <3>2 DEF Candidate, Moved
      <4>5. /\ Candidate(d)'.start = Candidate(d).start /\ Candidate(d)'.end = Candidate(d).end
            /\ Candidate(d)'.before = Candidate(d).before /\ Candidate(d)'.after = Candidate(d).after
        BY <4>2, <4>3, <4>4 DEF RowShape
      <4>. QED  BY <4>5 DEF Reaches
    <3>. QED  BY <2>4, <3>1, <3>2
  <2>. QED  BY <2>7, <2>8, <2>9
<1>6. About(c)' /\ Guard(c)' /\ Clear(c)'
  <2>1. a # New
    BY AppointmentsAssumption DEF Appointment, New
  <2>2. call[c].op # "create" => call[c].at = "update"
    BY <1>1 DEF About
  <2>3. About(c)'
    BY <1>1, <1>2, <2>1, <2>2 DEF About
  <2>. QED  BY <1>1, <2>3 DEF Guard, Clear, InLock
<1>7. ClearOfEarlier'
  <2>1. SUFFICES ASSUME NEW x \in Appointment, NEW y \in Appointment,
                        Live(x)', Live(y)', row'[x].staff = row'[y].staff, y \in earlier'[x],
                        {x, y} \intersect unguarded' = {}
                 PROVE  ~Reaches(row[x], row[y])'
    BY DEF ClearOfEarlier
  <2>2. CASE x = a
    <3>1. y # a /\ c \notin late /\ y \notin unguarded
      BY <2>1, <2>2 DEF Wrote
    <3>2. y # call[c].appt
      BY <1>1, <3>1 DEF About, Exists, Wrote, New, Appointment
    <3>. QED  BY <1>1, <1>2, <2>1, <2>2, <3>1, <3>2 DEF Clear
  <2>3. CASE x # a
    <3>1. y # a /\ y \in earlier[x] /\ x \notin unguarded /\ y \notin unguarded
      BY <2>1, <2>3 DEF Wrote
    <3>. QED  BY <1>2, <2>1, <2>3, <3>1 DEF ClearOfEarlier
  <2>. QED  BY <2>2, <2>3
<1>. QED  BY <1>5, <1>6, <1>7, Together

LEMMA StepCommit ==
  ASSUME IInv, ShapeInv', NEW c \in Callers, Commit(c) \/ CommitUnknown(c)
  PROVE  IInv'
<1>1. CASE Commit(c)
  <2>1. PICK a \in Appointment : /\ Applies(c, a)
                                 /\ call' = [call EXCEPT ![c].at = "release", ![c].appt = a]
    BY <1>1 DEF Commit
  <2>2. /\ call'[c].at = "release" /\ call'[c].appt = a /\ call'[c].staff = call[c].staff
        /\ call'[c].op = call[c].op /\ call'[c].service = call[c].service
        /\ \A d \in Callers \ {c} : call'[d] = call[d]
    BY <2>1 DEF IInv, ShapeInv, CallShape
  <2>. QED  BY <1>1, <2>1, <2>2, AppliesWrote, StepWrite DEF Commit
<1>2. CASE CommitUnknown(c)
  <2>1. PICK a \in Appointment : Applies(c, a)
    BY <1>2 DEF CommitUnknown
  <2>2. /\ call'[c].at = "locked" /\ call'[c].appt = call[c].appt /\ call'[c].staff = call[c].staff
        /\ call'[c].op = call[c].op /\ call'[c].service = call[c].service
        /\ \A d \in Callers \ {c} : call'[d] = call[d]
    BY <1>2, GoesAbout DEF IInv, CommitUnknown, CallAt
  <2>. QED  BY <1>2, <2>1, <2>2, AppliesWrote, StepWrite DEF CommitUnknown
<1>. QED  BY <1>1, <1>2

LEMMA StepInv == IInv /\ [Next]_vars => IInv'
<1>. SUFFICES ASSUME IInv, [Next]_vars PROVE IInv'
  OBVIOUS
<1>1. ShapeInv'
  BY ShapeStep DEF IInv
<1>2. ASSUME NEW s \in Staff, SetRule(s) PROVE IInv'
  BY <1>1, <1>2, StepUnseen DEF SetRule, history
<1>3. CASE UNCHANGED vars
  BY <1>1, <1>3, StepUnseen DEF vars, history
<1>. QED
  BY <1>1, <1>2, <1>3, StepTakeLock, StepOutside, StepRetry, StepRead, StepCancel, StepLockExpires, StepCommit
     DEF Next

(* An appointment with its buffers never reaches into one of the same member of staff that had its
   time before it, unless a request that had lost its lock placed one of the two. *)
THEOREM NoDoubleBooking == Spec => []ClearOfEarlier
<1>1. Init => IInv
  BY InitInv
<1>2. IInv => ClearOfEarlier
  BY DEF IInv
<1>. QED  BY <1>1, <1>2, StepInv, PTL DEF Spec

----------------------------------------------------------------------------
(* The follow-up *)

(* A step of c that loses no reminder and no trigger, and leaves no appointment without one. *)
LEMMA FollowFrom ==
  ASSUME IInv, FollowInv, NEW c \in Callers,
         \A d \in Callers \ {c} : call'[d] = call[d],
         Reminds(c)',
         \A a \in Appointment : Exists(a) =>
           /\ Exists(a)'
           /\ row'[a].start = row[a].start \/ row'[a].version > 0
           /\ row[a].version > 0 => row'[a].version > 0,
         \A a \in Appointment : reminder'[a] # reminder[a] =>
           reminder[a] = None /\ reminder'[a] # None /\ Exists(a) /\ InTime(a)',
         triggered \subseteq triggered',
         \A a \in Appointment :
           Exists(a)' /\ (~Exists(a) \/ (a \in cut /\ a \notin cut') \/ FollowsUp(c, a)) => FollowedUp(a)'
  PROVE  FollowInv'
<1>1. ASSUME NEW d \in Callers \ {c} PROVE Reminds(d)'
  <2>1. call'[d] = call[d] /\ Reminds(d) /\ About(d) /\ call[d] \in CallShape
    BY DEF FollowInv, IInv, AboutInv, ShapeInv
  <2>2. call[d].appt # New => call[d].appt \in Appointment /\ Exists(call[d].appt)
    BY <2>1 DEF About, CallShape
  <2>3. call[d].at = "trigger" => call[d].appt # New
    BY <2>1 DEF About
  <2>. QED  BY <2>1, <2>2, <2>3 DEF Reminds
<1>2. ASSUME NEW a \in Appointment, ~Exists(a)' PROVE reminder'[a] = None
  BY <1>2 DEF FollowInv
<1>3. ASSUME NEW a \in Appointment, Exists(a)' PROVE FollowedUp(a)'
  <2>1. CASE ~Exists(a) \/ (a \in cut /\ a \notin cut') \/ FollowsUp(c, a)
    BY <1>3, <2>1
  <2>2. CASE Exists(a) /\ ~(a \in cut /\ a \notin cut') /\ ~FollowsUp(c, a)
    <3>1. FollowedUp(a)
      BY <2>2 DEF FollowInv, ReminderNeedsCause
    <3>2. \A d \in Callers : FollowsUp(d, a) => FollowsUp(d, a)'
      BY <2>2 DEF FollowsUp
    <3>. QED  BY <2>2, <3>1, <3>2 DEF FollowedUp
  <2>. QED  BY <2>1, <2>2
<1>4. ASSUME NEW a \in Appointment, Exists(a)' PROVE InTime(a)'
  <2>1. CASE reminder'[a] # reminder[a]
    BY <2>1
  <2>2. CASE reminder'[a] = reminder[a] /\ ~Exists(a)
    BY <2>2 DEF FollowInv, InTime
  <2>3. CASE reminder'[a] = reminder[a] /\ Exists(a)
    BY <2>3 DEF FollowInv, ReminderNeedsCause, InTime
  <2>. QED  BY <2>1, <2>2, <2>3
<1>. QED  BY <1>1, <1>2, <1>3, <1>4 DEF FollowInv, ReminderNeedsCause

(* Before its transaction has ended a request has nothing to follow up. *)
LEMMA FollowQuiet ==
  ASSUME IInv, FollowInv, NEW c \in Callers, UNCHANGED <<row, reminder, triggered, cut>>,
         \A d \in Callers \ {c} : call'[d] = call[d],
         call[c].at \notin {"release", "remind", "trigger"},
         Reminds(c)'
  PROVE  FollowInv'
<1>1. \A a \in Appointment : ~FollowsUp(c, a)
  BY DEF FollowsUp
<1>2. \A a \in Appointment : Exists(a)' <=> Exists(a)
  BY DEF Exists
<1>. QED  BY <1>1, <1>2, FollowFrom

LEMMA FollowBefore ==
  ASSUME IInv, FollowInv, NEW c \in Callers,
         Create(c) \/ Reschedule(c) \/ TakeLock(c) \/ Read(c) \/ Retry(c) \/ Aborts(c) \/ Record(c)
  PROVE  FollowInv'
<1>. USE DEF IInv
<1>1. UNCHANGED <<row, reminder, triggered, cut>>
  BY DEF Create, Reschedule, TakeLock, Read, Retry, Aborts, Record, history
<1>2. call[c].at \notin {"release", "remind", "trigger"}
  BY DEF Create, Reschedule, TakeLock, Read, Retry, Aborts, Record, InLock
<1>3. ASSUME NEW a \in Appointment, NEW t, t = row[a].start, Leaves(c, a, t)
      PROVE  Reminds(c)' /\ \A d \in Callers \ {c} : call'[d] = call[d]
  BY <1>1, <1>3, LeavesAbout DEF Reminds
<1>4. ASSUME NEW t, Leaves(c, New, t)
      PROVE  Reminds(c)' /\ \A d \in Callers \ {c} : call'[d] = call[d]
  BY <1>4, LeavesAbout DEF Reminds
<1>5. ASSUME NEW at \in {"insert", "update"}, NEW q, call' = [call EXCEPT ![c].at = at, ![c].rule = q]
      PROVE  Reminds(c)' /\ \A d \in Callers \ {c} : call'[d] = call[d]
  BY <1>5 DEF ShapeInv, CallShape, Reminds
<1>6. Reminds(c)' /\ \A d \in Callers \ {c} : call'[d] = call[d]
  <2>1. CASE Create(c) \/ Reschedule(c)
    <3>1. call'[c].at = "asked" /\ \A d \in Callers \ {c} : call'[d] = call[d]
      BY <2>1 DEF Create, Reschedule, ShapeInv
    <3>. QED  BY <3>1 DEF Reminds
  <2>2. CASE TakeLock(c)
    <3>1. CASE Goes(c, "locked")
      BY <3>1, GoesAbout DEF Reminds, CallAt
    <3>2. CASE Ends(c)
      BY <3>2, IdleAbout DEF Reminds
    <3>. QED  BY <2>2, <3>1, <3>2 DEF TakeLock
  <2>3. CASE Read(c)
    BY <1>3, <1>4, <1>5, <2>3 DEF Read, ReadForCreate, ReadForReschedule
  <2>4. CASE Retry(c)
    BY <2>4, GoesAbout DEF Retry, Reminds, CallAt
  <2>5. CASE Aborts(c)
    BY <1>4, <2>5 DEF Aborts
  <2>6. CASE Record(c)
    BY <2>6, IdleAbout DEF Record, Reminds
  <2>. QED  BY <2>1, <2>2, <2>3, <2>4, <2>5, <2>6
<1>. QED  BY <1>1, <1>2, <1>6, FollowQuiet

(* A row that was moved or cancelled has a later version. *)
LEMMA FollowCancel ==
  ASSUME IInv, IInv', FollowInv, NEW c \in Callers, Cancel(c)
  PROVE  FollowInv'
<1>. USE DEF IInv
<1>1. PICK a \in Appointment :
        /\ Exists(a)
        /\ row' = [row EXCEPT ![a].status = "cancelled", ![a].version = @ + 1]
        /\ call' = [call EXCEPT ![c] = [Idle EXCEPT !.at = "record", !.op = "cancel", !.appt = a]]
  BY DEF Cancel
<1>2. call'[c].at = "record" /\ call[c].at = "idle" /\ \A d \in Callers \ {c} : call'[d] = call[d]
  BY <1>1 DEF ShapeInv, Idle, Cancel
<1>3. row[a] \in RowShape
  BY DEF ShapeInv
<1>4. \A b \in Appointment :
        /\ Exists(b)' <=> Exists(b)
        /\ row'[b].start = row[b].start
        /\ row[b].version > 0 => row'[b].version > 0
  BY <1>1, <1>3 DEF ShapeInv, RowShape, Exists
<1>5. UNCHANGED <<reminder, triggered, cut>>
  BY DEF Cancel, history
<1>6. Reminds(c)' /\ \A b \in Appointment : ~FollowsUp(c, b)
  BY <1>2 DEF Reminds, FollowsUp
<1>. QED  BY <1>2, <1>4, <1>5, <1>6, FollowFrom

LEMMA FollowRest ==
  ASSUME FollowInv, UNCHANGED <<row, call, reminder, triggered, cut>>
  PROVE  FollowInv'
<1>1. \A c \in Callers : Reminds(c)'
  BY DEF FollowInv, Reminds
<1>2. \A a \in Appointment : (Exists(a)' <=> Exists(a)) /\ (FollowedUp(a)' <=> FollowedUp(a)) /\ (InTime(a)' <=> InTime(a))
  BY DEF Exists, FollowedUp, FollowsUp, InTime
<1>. QED  BY <1>1, <1>2 DEF FollowInv, ReminderNeedsCause

(* What follows the transaction, or ends without it. *)
LEMMA FollowAfter ==
  ASSUME IInv, FollowInv, NEW c \in Callers, Release(c) \/ Remind(c) \/ Trigger(c) \/ Crash(c)
  PROVE  FollowInv'
<1>. USE DEF IInv
<1>. DEFINE e == call[c].appt
<1>1. About(c) /\ Reminds(c) /\ call[c] \in CallShape /\ None \notin Int
  BY AppointmentsAssumption DEF AboutInv, ShapeInv, FollowInv
<1>2. /\ row' = row
      /\ \A a \in Appointment : (Exists(a)' <=> Exists(a))
  BY DEF Release, Remind, Trigger, Crash, Exists
<1>3. e # New => e \in Appointment /\ Exists(e)
  BY <1>1 DEF About, CallShape
<1>4. \A a \in Appointment : FollowsUp(c, a) => a = e /\ e # New
  BY AppointmentsAssumption DEF FollowsUp, Appointment, New
<1>5. CASE Release(c)
  <2>1. UNCHANGED <<reminder, triggered, cut>> /\ call[c].at = "release"
    BY <1>5 DEF Release, history
  <2>2. CASE e = New /\ Ends(c)
    <3>1. Reminds(c)' /\ \A d \in Callers \ {c} : call'[d] = call[d]
      BY <2>2, IdleAbout DEF Reminds
    <3>. QED  BY <1>2, <1>4, <2>1, <2>2, <3>1, FollowFrom
  <2>3. CASE e # New /\ Goes(c, "remind")
    <3>1. /\ call'[c].at = "remind" /\ call'[c].op = call[c].op /\ call'[c].appt = e /\ call'[c].start = call[c].start
          /\ \A d \in Callers \ {c} : call'[d] = call[d]
      BY <2>3, GoesAbout DEF CallAt
    <3>2. Reminds(c)'
      BY <1>1, <1>2, <2>1, <2>3, <3>1 DEF Reminds
    <3>3. \A a \in Appointment : FollowsUp(c, a) => FollowsUp(c, a)'
      BY <3>1 DEF FollowsUp
    <3>4. \A a \in Appointment : FollowsUp(c, a)' => FollowedUp(a)'
      BY DEF FollowedUp
    <3>. QED  BY <1>2, <2>1, <3>1, <3>2, <3>3, <3>4, FollowFrom
  <2>. QED  BY <1>5, <2>2, <2>3 DEF Release
<1>6. CASE Remind(c)
  <2>1. /\ UNCHANGED <<triggered, cut>> /\ call[c].at = "remind" /\ e # New
        /\ reminder' = [reminder EXCEPT ![e] = IF @ = None THEN call[c].start ELSE @]
        /\ IF call[c].op = "create" THEN Goes(c, "trigger") ELSE Ends(c)
    BY <1>1, <1>6 DEF Remind, history, About
  <2>2. call[c].start \in Int /\ (call[c].start = row[e].start \/ row[e].version > 0)
    BY <1>1, <2>1 DEF CallShape, Reminds
  <2>3. \A a \in Appointment : reminder'[a] # reminder[a] =>
          reminder[a] = None /\ reminder'[a] # None /\ Exists(a) /\ InTime(a)'
    BY <1>1, <1>2, <1>3, <2>1, <2>2 DEF ShapeInv, InTime
  <2>4. reminder'[e] # None
    BY <1>1, <1>3, <2>1, <2>2 DEF ShapeInv
  <2>5. CASE call[c].op = "create"
    <3>1. /\ call'[c].at = "trigger" /\ call'[c].op = call[c].op /\ call'[c].appt = e
          /\ \A d \in Callers \ {c} : call'[d] = call[d]
      BY <2>1, <2>5, GoesAbout DEF CallAt
    <3>2. Reminds(c)'
      BY <2>4, <3>1 DEF Reminds
    <3>3. \A a \in Appointment : FollowsUp(c, a) => FollowsUp(c, a)'
      BY <3>1 DEF FollowsUp
    <3>4. \A a \in Appointment : FollowsUp(c, a)' => FollowedUp(a)'
      BY DEF FollowedUp
    <3>. QED  BY <1>2, <2>1, <2>3, <3>1, <3>2, <3>3, <3>4, FollowFrom
  <2>6. CASE call[c].op # "create"
    <3>1. Reminds(c)' /\ \A d \in Callers \ {c} : call'[d] = call[d]
      BY <2>1, <2>6, IdleAbout DEF Reminds
    <3>2. \A a \in Appointment : ~FollowsUp(c, a)
      BY <2>6 DEF FollowsUp
    <3>. QED  BY <1>2, <2>1, <2>3, <3>1, <3>2, FollowFrom
  <2>. QED  BY <2>5, <2>6
<1>7. CASE Trigger(c)
  <2>1. /\ call[c].at = "trigger" /\ e # New /\ reminder' = reminder
        /\ triggered' = triggered \union {e} /\ cut' = cut \ {e}
    BY <1>1, <1>7 DEF Trigger, About
  <2>2. Reminds(c)' /\ \A d \in Callers \ {c} : call'[d] = call[d]
    BY <1>7, IdleAbout DEF Trigger, Reminds
  <2>3. \A a \in Appointment : a = e => FollowedUp(a)'
    BY <1>1, <2>1 DEF Reminds, FollowedUp
  <2>. QED  BY <1>2, <1>4, <2>1, <2>2, <2>3, FollowFrom
<1>8. CASE Crash(c)
  <2>1. UNCHANGED <<reminder, triggered>> /\ cut \subseteq cut'
    BY <1>8 DEF Crash, BreaksOff
  <2>2. Reminds(c)' /\ \A d \in Callers \ {c} : call'[d] = call[d]
    BY <1>8, IdleAbout DEF Crash, Reminds
  <2>3. \A a \in Appointment : FollowsUp(c, a) => FollowedUp(a)'
    BY <1>4, <1>8 DEF FollowsUp, Crash, BreaksOff, FollowedUp
  <2>. QED  BY <1>2, <2>1, <2>2, <2>3, FollowFrom
<1>. QED  BY <1>5, <1>6, <1>7, <1>8

(* A write: a new appointment is its request's to follow up, and a moved one has a later version. *)
LEMMA FollowWrite ==
  ASSUME IInv, FollowInv, NEW c \in Callers, NEW a \in Appointment, Wrote(c, a),
         \/ call[c].at = "insert" /\ ~Exists(a)
         \/ call[c].at = "update" /\ a = call[c].appt,
         UNCHANGED <<reminder, triggered>>, cut \subseteq cut',
         \A d \in Callers \ {c} : call'[d] = call[d],
         \/ /\ call'[c].at = "release" /\ call'[c].appt = a
            /\ call'[c].op = call[c].op /\ call'[c].start = call[c].start
         \/ call'[c].at = "locked" /\ (call[c].op = "create" => a \in cut')
  PROVE  FollowInv'
<1>. USE DEF IInv
<1>1. /\ Candidate(c) \in RowShape /\ Candidate(c).status # "absent"
      /\ call[c] \in CallShape /\ About(c)
      /\ call[c].at = "update" => call[c].appt \in Appointment
  BY CandidateShape DEF ShapeInv, AboutInv
<1>2. row'[a] = Candidate(c) /\ Exists(a)' /\ \A b \in Appointment \ {a} : row'[b] = row[b]
  BY <1>1 DEF Wrote, ShapeInv, Exists
<1>3. row'[a].start = call[c].start /\ (call[c].at = "update" => row'[a].version > 0)
  <2>1. CASE call[c].at = "insert"
    BY <1>2, <2>1 DEF Candidate, Inserted
  <2>2. CASE call[c].at = "update"
    <3>1. row[a] \in RowShape /\ a = call[c].appt
      BY <2>2 DEF ShapeInv
    <3>2. Candidate(c) = [row[a] EXCEPT !.start = call[c].start, !.end = call[c].end,
                                        !.key = call[c].key, !.version = row[a].version + 1]
      BY <2>2, <3>1 DEF Candidate, Moved
    <3>. QED  BY <1>2, <3>1, <3>2 DEF RowShape
  <2>. QED  BY <2>1, <2>2
<1>4. \A b \in Appointment :
        /\ Exists(b) => Exists(b)'
        /\ Exists(b) => row'[b].start = row[b].start \/ row'[b].version > 0
        /\ Exists(b) /\ row[b].version > 0 => row'[b].version > 0
        /\ Exists(b)' /\ ~Exists(b) => b = a /\ call[c].at = "insert"
  <2>. SUFFICES ASSUME NEW b \in Appointment
                PROVE  /\ Exists(b) => Exists(b)'
                       /\ Exists(b) => row'[b].start = row[b].start \/ row'[b].version > 0
                       /\ Exists(b) /\ row[b].version > 0 => row'[b].version > 0
                       /\ Exists(b)' /\ ~Exists(b) => b = a /\ call[c].at = "insert"
    OBVIOUS
  <2>1. CASE b # a
    BY <1>2, <2>1 DEF Exists
  <2>2. CASE b = a
    <3>1. call[c].at = "update" => Exists(a)
      BY <1>1 DEF About, New, Appointment
    <3>. QED  BY <1>2, <1>3, <2>2, <3>1
  <2>. QED  BY <2>1, <2>2
<1>5. Reminds(c)'
  BY <1>3 DEF Reminds
<1>6. call[c].at = "insert" => FollowedUp(a)'
  <2>1. call[c].at = "insert" => call[c].op = "create"
    BY <1>1 DEF About
  <2>2. CASE call'[c].at = "release" /\ call'[c].appt = a /\ call'[c].op = call[c].op
    BY <2>1, <2>2 DEF FollowedUp, FollowsUp
  <2>3. CASE call[c].op = "create" => a \in cut'
    BY <2>1, <2>3 DEF FollowedUp
  <2>. QED  BY <2>2, <2>3
<1>7. \A b \in Appointment : ~FollowsUp(c, b)
  BY DEF FollowsUp
<1>. QED  BY <1>4, <1>5, <1>6, <1>7, FollowFrom

LEMMA FollowCommit ==
  ASSUME IInv, FollowInv, NEW c \in Callers, Commit(c) \/ CommitUnknown(c)
  PROVE  FollowInv'
<1>. USE DEF IInv
<1>1. CASE Commit(c)
  <2>1. PICK a \in Appointment : /\ Applies(c, a)
                                 /\ call' = [call EXCEPT ![c].at = "release", ![c].appt = a]
    BY <1>1 DEF Commit
  <2>2. /\ call'[c].at = "release" /\ call'[c].appt = a
        /\ call'[c].op = call[c].op /\ call'[c].start = call[c].start
        /\ \A d \in Callers \ {c} : call'[d] = call[d]
    BY <2>1 DEF ShapeInv, CallShape
  <2>. QED  BY <1>1, <2>1, <2>2, AppliesWrote, FollowWrite DEF Commit
<1>2. CASE CommitUnknown(c)
  <2>1. PICK a \in Appointment : /\ Applies(c, a)
                                 /\ cut' = IF call[c].op = "create" THEN cut \union {a} ELSE cut
    BY <1>2 DEF CommitUnknown
  <2>2. call'[c].at = "locked" /\ \A d \in Callers \ {c} : call'[d] = call[d]
    BY <1>2, GoesAbout DEF CommitUnknown, CallAt
  <2>3. UNCHANGED <<reminder, triggered>>
    BY <1>2 DEF CommitUnknown
  <2>. QED  BY <2>1, <2>2, <2>3, AppliesWrote, FollowWrite
<1>. QED  BY <1>1, <1>2

LEMMA FollowStep == IInv /\ IInv' /\ FollowInv /\ [Next]_vars => FollowInv'
<1>. SUFFICES ASSUME IInv, IInv', FollowInv, [Next]_vars PROVE FollowInv'
  OBVIOUS
<1>1. ASSUME NEW s \in Staff, LockExpires(s) \/ SetRule(s) PROVE FollowInv'
  BY <1>1, FollowRest DEF LockExpires, SetRule, history
<1>2. CASE UNCHANGED vars
  BY <1>2, FollowRest DEF vars, history
<1>. QED  BY <1>1, <1>2, FollowBefore, FollowCancel, FollowAfter, FollowCommit DEF Next

(* Every booking has its reminder and has triggered its workflows, or a request is about to do so,
   or one broke off after the commit; and the reminder is for the time the appointment was booked for,
   which is its time unless it was changed. *)
THEOREM FollowUp == Spec => []ReminderNeedsCause
<1>1. Init => IInv /\ FollowInv
  BY InitInv
<1>2. FollowInv => ReminderNeedsCause
  BY DEF FollowInv
<1>. QED  BY <1>1, <1>2, StepInv, FollowStep, PTL DEF Spec

----------------------------------------------------------------------------
(* The working hours *)

LEMMA DayOrder ==
  ASSUME NEW d \in Nat \ {0}, NEW x \in Int, NEW y \in Int, x <= y
  PROVE  x \div d <= y \div d
  BY SMTT(20)

LEMMA MinuteOrder ==
  ASSUME NEW d \in Nat \ {0}, NEW x \in Int, NEW y \in Int, x \div d = y \div d
  PROVE  (x < y => x % d < y % d) /\ (x <= y => x % d <= y % d)
  BY SMTT(20)

LEMMA DayType ==
  ASSUME NEW d \in Nat \ {0}, NEW x \in Int
  PROVE  x \div d \in Int /\ x % d \in Int
  OBVIOUS

Local(t)    == IF t < ChangeAt THEN t ELSE t + Shift
MinuteOf(t) == Local(t) \div Minute

LEMMA ZonedParts ==
  ASSUME NEW t
  PROVE  zonedParts(t) = [date |-> MinuteOf(t) \div Day, weekday |-> (MinuteOf(t) \div Day) % 7,
                          minutes |-> MinuteOf(t) % Day]
  BY DEF zonedParts, MinuteOf, Local

(* Of a rule only the date and the weekday decide the times. *)
LEMMA SameTimes ==
  ASSUME NEW r, NEW p, NEW q, NEW field, p.date = q.date, p.weekday = q.weekday
  PROVE  Time(r, p, field) = Time(r, q, field)
  BY DEF Time

LEMMA TimeType ==
  ASSUME NEW r, Timed(r), NEW p, NEW field \in {"opening", "closing"}
  PROVE  Time(r, p, field) = Unset \/ Time(r, p, field) \in Int
  <1> DEFINE hours == r.workingHours[p.weekday]
             own   == r.dateOverrides[p.date]
  <1>1. p.weekday \in DOMAIN r.workingHours => hours[field] \in Int \union {Unset}
    BY DEF Timed
  <1>2. p.date \in DOMAIN r.dateOverrides => own[field] \in Int \union {Unset}
    BY DEF Timed
  <1> HIDE DEF hours, own
  <1>3. \/ Time(r, p, field) = Unset
        \/ p.weekday \in DOMAIN r.workingHours /\ Time(r, p, field) = hours[field]
        \/ p.date \in DOMAIN r.dateOverrides /\ Time(r, p, field) = own[field]
    BY DEF Time, hours, own
  <1> QED
    BY <1>1, <1>2, <1>3

(* Between two ends on one day that the check accepts, and no hour passed twice, staff are at work *)
(* but for the minute of the later one.                                                            *)
LEMMA Between ==
  ASSUME NEW r, Timed(r), NEW start \in Int, NEW end \in Int, assertAvailable(r, start, end),
         ~(Shift < 0 /\ start < ChangeAt /\ ChangeAt <= end),
         NEW t \in start .. end - 1
  PROVE  AtWork(r, t) \/ zonedParts(t) = zonedParts(end)
  <1> USE AvailabilityAssumption
  <1>0. /\ MinuteOf(start) \in Int /\ MinuteOf(t) \in Int /\ MinuteOf(end) \in Int
        /\ MinuteOf(start) <= MinuteOf(t) /\ MinuteOf(t) <= MinuteOf(end)
    <2>1. /\ Local(start) \in Int /\ Local(t) \in Int /\ Local(end) \in Int
          /\ Local(start) <= Local(t) /\ Local(t) <= Local(end)
      BY DEF Local
    <2> QED
      BY <2>1, DayOrder, DayType DEF MinuteOf
  <1>LAST. CASE MinuteOf(t) = MinuteOf(end)
    BY <1>LAST, ZonedParts
  <1>EARLIER. SUFFICES ASSUME MinuteOf(t) # MinuteOf(end) PROVE AtWork(r, t)
    BY <1>LAST
  <1>1. /\ MinuteOf(start) \in Int /\ MinuteOf(t) \in Int /\ MinuteOf(end) \in Int
        /\ MinuteOf(start) <= MinuteOf(t) /\ MinuteOf(t) < MinuteOf(end)
    BY <1>0, <1>EARLIER
  <1> DEFINE from == zonedParts(start)
             to   == zonedParts(end)
             p    == zonedParts(t)
  <1>2. /\ from.date = to.date
        /\ ~DayOff(r, from.date)
        /\ Time(r, from, "opening") # Unset
        /\ from.minutes >= Time(r, from, "opening")
        /\ Time(r, from, "closing") # Unset => to.minutes <= Time(r, from, "closing")
        /\ \A b \in r.breaks : ~(from.minutes < b.end /\ to.minutes > b.start)
    BY DEF assertAvailable
  <1>3. MinuteOf(start) \div Day = MinuteOf(end) \div Day
    BY <1>2, ZonedParts
  <1>4. MinuteOf(t) \div Day = MinuteOf(start) \div Day
    <2>1. MinuteOf(start) \div Day <= MinuteOf(t) \div Day /\ MinuteOf(t) \div Day <= MinuteOf(end) \div Day
      BY <1>1, DayOrder
    <2>2. MinuteOf(start) \div Day \in Int /\ MinuteOf(t) \div Day \in Int
      BY <1>1, DayType
    <2> QED
      BY <1>3, <2>1, <2>2
  <1>5. p.date = from.date /\ p.weekday = from.weekday
    BY <1>4, ZonedParts
  <1>6. /\ from.minutes \in Int /\ p.minutes \in Int /\ to.minutes \in Int
        /\ from.minutes <= p.minutes /\ p.minutes < to.minutes
    <2>1. MinuteOf(start) % Day <= MinuteOf(t) % Day /\ MinuteOf(t) % Day < MinuteOf(end) % Day
      BY <1>1, <1>3, <1>4, MinuteOrder
    <2>2. MinuteOf(start) % Day \in Int /\ MinuteOf(t) % Day \in Int /\ MinuteOf(end) % Day \in Int
      BY <1>1, DayType
    <2> QED
      BY <2>1, <2>2, ZonedParts
  <1>7. /\ Time(r, p, "opening") = Time(r, from, "opening")
        /\ Time(r, p, "closing") = Time(r, from, "closing")
    BY <1>5, SameTimes
  <1>8. /\ Time(r, from, "opening") \in Int
        /\ Time(r, from, "closing") = Unset \/ Time(r, from, "closing") \in Int
    BY <1>2, TimeType
  <1> HIDE DEF from, to, p
  <1>9. p.minutes >= Time(r, p, "opening") /\ (Time(r, p, "closing") # Unset => p.minutes < Time(r, p, "closing"))
    BY <1>2, <1>6, <1>7, <1>8
  <1>10. ASSUME NEW b \in r.breaks
         PROVE  p.minutes \notin b.start .. b.end - 1
    <2>1. b.start \in Int /\ b.end \in Int
      BY DEF Timed
    <2> QED
      BY <1>2, <1>6, <2>1
  <1> QED
    BY <1>2, <1>5, <1>7, <1>9, <1>10 DEF AtWork, p

(* The shapes and the invariant of a request at one step. *)
LEMMA PlacedInit == Init => PlacedInv
  BY DEF Init, PlacedInv, Exists, Absent, Idle

(* A step that places nothing, moves nothing and makes no request decide. *)
LEMMA PlacedKept ==
  ASSUME ShapeInv, PlacedInv, under' = under, NEW c,
         \A d \in Callers \ {c} : call'[d] = call[d],
         c \in Callers => call'[c].at \notin {"insert", "update"},
         \A a \in Appointment :
           row'[a].start = row[a].start /\ row'[a].end = row[a].end /\ (Exists(a)' => Exists(a))
  PROVE  PlacedInv'
  <1>1. \A d \in Callers : call'[d].at \in {"insert", "update"} =>
          Permits(call'[d].rule, call'[d].start, call'[d].end)
    BY DEF PlacedInv
  <1>2. \A a \in Appointment : Exists(a)' => Permits(under'[a], row'[a].start, row'[a].end)
    BY DEF PlacedInv
  <1> QED
    BY <1>1, <1>2 DEF PlacedInv

LEMMA PlacedRead ==
  ASSUME ShapeInv, PlacedInv, NEW c \in Callers, Read(c)
  PROVE  PlacedInv'
  <1>1. under' = under /\ row' = row /\ call[c] \in CallShape
    BY DEF Read, history, ShapeInv
  <1>2. ASSUME NEW a, NEW s, Leaves(c, a, s)
        PROVE  PlacedInv'
    BY <1>1, <1>2, LeavesAbout, PlacedKept DEF Exists
  <1>3. ASSUME NEW at \in {"insert", "update"}, NEW q, Permits(q, call[c].start, call[c].end),
               call' = [call EXCEPT ![c].at = at, ![c].rule = q]
        PROVE  PlacedInv'
    <2>1. /\ call'[c].rule = q /\ call'[c].start = call[c].start /\ call'[c].end = call[c].end
          /\ \A d \in Callers \ {c} : call'[d] = call[d]
      BY <1>3 DEF ShapeInv, CallShape
    <2>2. \A d \in Callers : call'[d].at \in {"insert", "update"} =>
            Permits(call'[d].rule, call'[d].start, call'[d].end)
      BY <1>3, <2>1 DEF PlacedInv
    <2> QED
      BY <1>1, <2>2 DEF PlacedInv, Exists
  <1> QED
    BY <1>2, <1>3 DEF Read, ReadForCreate, ReadForReschedule

LEMMA PlacedWrite ==
  ASSUME IInv, PlacedInv, NEW c \in Callers, NEW a \in Appointment, Wrote(c, a),
         call[c].at \in {"insert", "update"},
         call[c].at = "update" => a = call[c].appt,
         \A d \in Callers \ {c} : call'[d] = call[d],
         call'[c].at \notin {"insert", "update"}
  PROVE  PlacedInv'
  <1> USE DEF IInv
  <1>1. Candidate(c) \in RowShape /\ call[c] \in CallShape
    BY CandidateShape DEF ShapeInv
  <1>2. /\ row'[a] = Candidate(c) /\ \A b \in Appointment \ {a} : row'[b] = row[b]
        /\ under' = [under EXCEPT ![a] = call[c].rule]
    BY <1>1 DEF Wrote, ShapeInv
  <1>3. Candidate(c).start = call[c].start /\ Candidate(c).end = call[c].end
    <2>1. CASE call[c].at = "insert"
      BY <2>1 DEF Candidate, Inserted
    <2>2. CASE call[c].at = "update"
      <3>1. row[a] \in RowShape /\ a = call[c].appt
        BY <2>2 DEF ShapeInv
      <3>2. Candidate(c) = [row[a] EXCEPT !.start = call[c].start, !.end = call[c].end,
                                          !.key = call[c].key, !.version = row[a].version + 1]
        BY <2>2, <3>1 DEF Candidate, Moved
      <3> QED
        BY <3>1, <3>2 DEF RowShape
    <2> QED
      BY <2>1, <2>2
  <1>4. \A d \in Callers : call'[d].at \in {"insert", "update"} =>
          Permits(call'[d].rule, call'[d].start, call'[d].end)
    BY DEF PlacedInv
  <1>5. under' \in [Appointment -> Rules \union {None}] /\ under'[a] = call[c].rule
    BY <1>1, <1>2 DEF PlacedInv, CallShape
  <1>6. ASSUME NEW b \in Appointment, Exists(b)'
        PROVE  Permits(under'[b], row'[b].start, row'[b].end)
    <2>1. CASE b = a
      BY <1>2, <1>3, <1>5, <2>1 DEF PlacedInv
    <2>2. CASE b # a
      BY <1>2, <1>6, <2>2 DEF PlacedInv, Exists
    <2> QED
      BY <2>1, <2>2
  <1> QED
    BY <1>4, <1>5, <1>6 DEF PlacedInv

LEMMA PlacedCommit ==
  ASSUME IInv, PlacedInv, NEW c \in Callers, Commit(c) \/ CommitUnknown(c)
  PROVE  PlacedInv'
  <1> USE DEF IInv
  <1>1. CASE Commit(c)
    <2>1. PICK a \in Appointment : /\ Applies(c, a)
                                   /\ call' = [call EXCEPT ![c].at = "release", ![c].appt = a]
      BY <1>1 DEF Commit
    <2>2. call'[c].at = "release" /\ \A d \in Callers \ {c} : call'[d] = call[d]
      BY <2>1 DEF ShapeInv, CallShape
    <2> QED
      BY <1>1, <2>1, <2>2, AppliesWrote, PlacedWrite DEF Commit
  <1>2. CASE CommitUnknown(c)
    <2>1. PICK a \in Appointment : Applies(c, a)
      BY <1>2 DEF CommitUnknown
    <2>2. call'[c].at = "locked" /\ \A d \in Callers \ {c} : call'[d] = call[d]
      BY <1>2, GoesAbout DEF CommitUnknown, CallAt
    <2> QED
      BY <1>2, <2>1, <2>2, AppliesWrote, PlacedWrite DEF CommitUnknown
  <1> QED
    BY <1>1, <1>2

\* What a request does to itself outside its reads and its writes.
LEMMA PlacedOwn ==
  ASSUME ShapeInv, NEW c \in Callers,
         \/ Create(c) \/ Reschedule(c) \/ TakeLock(c) \/ Retry(c) \/ Release(c) \/ Remind(c)
         \/ Trigger(c) \/ Cancel(c) \/ Record(c) \/ Crash(c) \/ Aborts(c)
  PROVE  call'[c].at \notin {"insert", "update"} /\ \A d \in Callers \ {c} : call'[d] = call[d]
  <1>1. CASE Create(c) \/ Reschedule(c)
    <2>1. call'[c].at = "asked" /\ \A d \in Callers \ {c} : call'[d] = call[d]
      BY <1>1 DEF Create, Reschedule, ShapeInv
    <2> QED
      BY <2>1
  <1>2. CASE Cancel(c)
    <2>1. PICK a \in Appointment :
            call' = [call EXCEPT ![c] = [Idle EXCEPT !.at = "record", !.op = "cancel", !.appt = a]]
      BY <1>2 DEF Cancel
    <2> QED
      BY <2>1 DEF ShapeInv, Idle
  <1>3. CASE Aborts(c)
    BY <1>3, LeavesAbout DEF Aborts
  <1>4. CASE TakeLock(c) \/ Retry(c) \/ Release(c) \/ Remind(c) \/ Trigger(c) \/ Record(c) \/ Crash(c)
    <2>1. Ends(c) \/ \E at \in {"locked", "remind", "trigger"} : Goes(c, at)
      BY <1>4 DEF TakeLock, Retry, Release, Remind, Trigger, Record, Crash
    <2> QED
      BY <2>1, IdleAbout, GoesAbout DEF CallAt
  <1> QED
    BY <1>1, <1>2, <1>3, <1>4

LEMMA PlacedStep == IInv /\ PlacedInv /\ [Next]_vars => PlacedInv'
  <1> SUFFICES ASSUME IInv, PlacedInv, [Next]_vars
               PROVE  PlacedInv'
    OBVIOUS
  <1> USE DEF IInv
  <1>1. ASSUME NEW c \in Callers,
               \/ Create(c) \/ Reschedule(c) \/ TakeLock(c) \/ Retry(c) \/ Release(c) \/ Remind(c)
               \/ Trigger(c) \/ Record(c) \/ Crash(c) \/ Aborts(c)
        PROVE  PlacedInv'
    <2>1. row' = row /\ under' = under
      BY <1>1 DEF Create, Reschedule, TakeLock, Retry, Release, Remind, Trigger, Record, Crash, Aborts, history
    <2> QED
      BY <1>1, <2>1, PlacedOwn, PlacedKept DEF Exists
  <1>2. ASSUME NEW c \in Callers, Cancel(c)
        PROVE  PlacedInv'
    <2>1. PICK a \in Appointment :
            Exists(a) /\ row' = [row EXCEPT ![a].status = "cancelled", ![a].version = @ + 1]
      BY <1>2 DEF Cancel
    <2>2. under' = under
      BY <1>2 DEF Cancel, history
    <2>3. \A b \in Appointment :
            row'[b].start = row[b].start /\ row'[b].end = row[b].end /\ (Exists(b)' => Exists(b))
      BY <2>1 DEF ShapeInv, RowShape, Exists
    <2> QED
      BY <1>2, <2>2, <2>3, PlacedOwn, PlacedKept
  <1>3. ASSUME NEW s \in Staff, LockExpires(s) \/ SetRule(s)
        PROVE  PlacedInv'
    BY <1>3 DEF LockExpires, SetRule, history, PlacedInv, Exists
  <1>4. CASE UNCHANGED vars
    BY <1>4 DEF vars, history, PlacedInv, Exists
  <1> QED
    BY <1>1, <1>2, <1>3, <1>4, PlacedRead, PlacedCommit DEF Next

(* Comparing the two ends with the rule keeps all that lies between them within working hours and *)
(* outside the breaks, but for the minute of the later one, of which the wall clock drops the      *)
(* seconds, and unless the clocks are set back in between (availability-policy, zonedParts).       *)
THEOREM WithinHours == Spec => []PlacedAtWork
  <1>1. Init => IInv /\ PlacedInv
    BY InitInv, PlacedInit
  <1>2. IInv /\ PlacedInv => PlacedAtWork
    <2>1. SUFFICES ASSUME IInv, PlacedInv, NEW a \in Appointment, Exists(a), under[a] # None,
                          ~(Shift < 0 /\ row[a].start < ChangeAt /\ ChangeAt <= row[a].end),
                          NEW t \in row[a].start .. row[a].end - 1
                   PROVE  AtWork(under[a], t) \/ zonedParts(t) = zonedParts(row[a].end)
      BY DEF PlacedAtWork
    <2>2. under[a] \in Rules /\ Timed(under[a]) /\ assertAvailable(under[a], row[a].start, row[a].end)
      BY <2>1, AppointmentsAssumption DEF PlacedInv, Permits
    <2>3. row[a].start \in Int /\ row[a].end \in Int
      BY <2>1 DEF IInv, ShapeInv, RowShape
    <2> QED
      BY <2>1, <2>2, <2>3, Between
  <1> QED
    BY <1>1, <1>2, StepInv, PlacedStep, PTL DEF Spec

----------------------------------------------------------------------------
(* The events *)

Recording(a) == {c \in Callers : call[c].at = "record" /\ call[c].appt = a}
Balanced(a)  == row[a].version + 1 = told[a] + untold[a] + Cardinality(Recording(a))

\* A step after which the same requests have an event to record, of the same appointments.
LEMMA ToldKept ==
  ASSUME ShapeInv, ToldInv, UNCHANGED <<told, untold>>,
         \A a \in Appointment :
           (Exists(a)' <=> Exists(a)) /\ row'[a].version = row[a].version /\ Recording(a)' = Recording(a)
  PROVE  ToldInv'
  <1>1. \A a \in Appointment : Exists(a)' => Balanced(a)'
    BY DEF ToldInv, EveryChangeTold, Balanced, Recording
  <1> QED
    BY <1>1 DEF ToldInv, EveryChangeTold, Balanced, Recording

LEMMA SameRecording ==
  ASSUME ShapeInv, NEW c \in Callers, \A d \in Callers \ {c} : call'[d] = call[d],
         call[c].at # "record", call'[c].at # "record"
  PROVE  \A a : Recording(a)' = Recording(a)
  BY DEF Recording

LEMMA RecordingCounts ==
  ASSUME NEW a
  PROVE  IsFiniteSet(Recording(a)) /\ Cardinality(Recording(a)) \in Nat
  BY AppointmentsAssumption, FS_Subset, FS_CardinalityType DEF Recording

(* Only a request that records counts as one that is still to tell. *)
LEMMA ToldWrite ==
  ASSUME IInv, ToldInv, NEW c \in Callers, NEW a \in Appointment, Wrote(c, a), untold' = untold,
         \/ call[c].at = "insert" /\ ~Exists(a)
         \/ call[c].at = "update" /\ a = call[c].appt,
         \A d \in Callers \ {c} : call'[d] = call[d],
         call'[c].at # "record"
  PROVE  ToldInv'
  <1> USE DEF IInv
  <1>1. /\ Candidate(c) \in RowShape /\ Candidate(c).status # "absent"
        /\ call[c] \in CallShape /\ About(c)
        /\ call[c].at = "update" => Exists(call[c].appt)
    BY CandidateShape DEF ShapeInv, AboutInv
  <1>2. /\ row'[a] = Candidate(c) /\ Exists(a)'
        /\ \A b \in Appointment \ {a} : row'[b] = row[b] /\ (Exists(b)' <=> Exists(b))
    BY <1>1 DEF Wrote, ShapeInv, Exists
  <1>3. told' = [told EXCEPT ![a] = @ + 1] /\ told' \in [Appointment -> Nat] /\ untold' \in [Appointment -> Nat]
    BY DEF Wrote, ToldInv
  <1>4. \A b : Recording(b)' = Recording(b)
    BY SameRecording
  <1>5. row'[a].version + 1 = told'[a] + untold'[a] + Cardinality(Recording(a))
    <2>1. CASE call[c].at = "insert" /\ ~Exists(a)
      <3>1. row'[a].version = 0
        BY <1>2, <2>1 DEF Candidate, Inserted
      <3>2. told[a] = 0 /\ untold[a] = 0
        BY <2>1 DEF ToldInv
      <3>3. Recording(a) = {}
        <4>1. ASSUME NEW d \in Callers, call[d].at = "record", call[d].appt = a
              PROVE  FALSE
          BY <2>1, <4>1 DEF AboutInv, About
        <4> QED
          BY <4>1 DEF Recording
      <3>4. Cardinality(Recording(a)) = 0 /\ told'[a] = 1 /\ untold'[a] = 0
        BY <1>3, <3>2, <3>3, FS_EmptySet DEF ToldInv
      <3> QED
        BY <3>1, <3>4
    <2>2. CASE call[c].at = "update" /\ a = call[c].appt
      <3>1. row[a] \in RowShape
        BY DEF ShapeInv
      <3>2. Candidate(c) = [row[a] EXCEPT !.start = call[c].start, !.end = call[c].end,
                                          !.key = call[c].key, !.version = row[a].version + 1]
        BY <2>2, <3>1 DEF Candidate, Moved
      <3>3. row'[a].version = row[a].version + 1 /\ row[a].version \in Nat
        BY <1>2, <3>1, <3>2 DEF RowShape
      <3>4. Balanced(a)
        BY <1>1, <2>2 DEF ToldInv, EveryChangeTold, Balanced, Recording
      <3>5. told'[a] = told[a] + 1 /\ told[a] \in Nat /\ untold'[a] = untold[a] /\ untold[a] \in Nat
        BY <1>3 DEF ToldInv
      <3> QED
        BY <3>3, <3>4, <3>5, RecordingCounts DEF Balanced
    <2> QED
      BY <2>1, <2>2
  <1>6. ASSUME NEW b \in Appointment, Exists(b)'
        PROVE  Balanced(b)'
    <2>1. CASE b = a
      BY <1>4, <1>5, <2>1 DEF Balanced
    <2>2. CASE b # a
      <3>1. Balanced(b)
        BY <1>2, <1>6, <2>2 DEF ToldInv, EveryChangeTold, Balanced, Recording
      <3>2. row'[b].version = row[b].version /\ told'[b] = told[b] /\ untold'[b] = untold[b]
        BY <1>2, <1>3, <2>2 DEF ToldInv
      <3> QED
        BY <1>4, <3>1, <3>2 DEF Balanced
    <2> QED
      BY <2>1, <2>2
  <1>7. \A b \in Appointment : ~Exists(b)' => told'[b] = 0 /\ untold'[b] = 0
    BY <1>2, <1>3 DEF ToldInv
  <1> QED
    BY <1>3, <1>6, <1>7 DEF ToldInv, EveryChangeTold, Balanced, Recording

LEMMA ToldCommit ==
  ASSUME IInv, ToldInv, NEW c \in Callers, Commit(c) \/ CommitUnknown(c)
  PROVE  ToldInv'
  <1> USE DEF IInv
  <1>1. CASE Commit(c)
    <2>1. PICK a \in Appointment : /\ Applies(c, a)
                                   /\ call' = [call EXCEPT ![c].at = "release", ![c].appt = a]
      BY <1>1 DEF Commit
    <2>2. call'[c].at = "release" /\ (\A d \in Callers \ {c} : call'[d] = call[d]) /\ untold' = untold
      BY <1>1, <2>1 DEF ShapeInv, CallShape, Commit
    <2> QED
      BY <2>1, <2>2, AppliesWrote, ToldWrite
  <1>2. CASE CommitUnknown(c)
    <2>1. PICK a \in Appointment : Applies(c, a)
      BY <1>2 DEF CommitUnknown
    <2>2. call'[c].at = "locked" /\ (\A d \in Callers \ {c} : call'[d] = call[d]) /\ untold' = untold
      BY <1>2, GoesAbout DEF CommitUnknown, CallAt
    <2> QED
      BY <2>1, <2>2, AppliesWrote, ToldWrite
  <1> QED
    BY <1>1, <1>2

LEMMA ToldCancel ==
  ASSUME IInv, ToldInv, NEW c \in Callers, Cancel(c)
  PROVE  ToldInv'
  <1> USE DEF IInv
  <1>1. PICK a \in Appointment :
          /\ Exists(a)
          /\ row' = [row EXCEPT ![a].status = "cancelled", ![a].version = @ + 1]
          /\ call' = [call EXCEPT ![c] = [Idle EXCEPT !.at = "record", !.op = "cancel", !.appt = a]]
    BY DEF Cancel
  <1>2. UNCHANGED <<told, untold>> /\ call[c].at = "idle"
    BY DEF Cancel, history
  <1>3. /\ call'[c].at = "record" /\ call'[c].appt = a
        /\ \A d \in Callers \ {c} : call'[d] = call[d]
    BY <1>1 DEF ShapeInv, Idle
  <1>4. /\ Recording(a)' = Recording(a) \union {c} /\ c \notin Recording(a)
        /\ \A b \in Appointment \ {a} : Recording(b)' = Recording(b)
    BY <1>2, <1>3 DEF Recording
  <1>5. Cardinality(Recording(a)') = Cardinality(Recording(a)) + 1
    BY <1>4, RecordingCounts, FS_AddElement
  <1>6. /\ row'[a].version = row[a].version + 1 /\ row[a].version \in Nat
        /\ \A b \in Appointment \ {a} : row'[b] = row[b]
        /\ \A b \in Appointment : Exists(b)' <=> Exists(b)
    BY <1>1 DEF ShapeInv, RowShape, Exists
  <1>7. ASSUME NEW b \in Appointment, Exists(b)
        PROVE  Balanced(b)'
    <2>1. Balanced(b) /\ told[b] \in Nat /\ untold[b] \in Nat
      BY <1>7 DEF ToldInv, EveryChangeTold, Balanced, Recording
    <2>2. CASE b = a
      BY <1>2, <1>5, <1>6, <2>1, <2>2, RecordingCounts DEF Balanced
    <2>3. CASE b # a
      BY <1>2, <1>4, <1>6, <2>1, <2>3 DEF Balanced
    <2> QED
      BY <2>2, <2>3
  <1> QED
    BY <1>2, <1>6, <1>7 DEF ToldInv, EveryChangeTold, Balanced, Recording

\* The request records its event, or breaks off before that.
LEMMA ToldRecord ==
  ASSUME IInv, ToldInv, NEW c \in Callers, NEW a \in Appointment,
         call[c].at = "record", call[c].appt = a, Ends(c), row' = row,
         \/ told' = [told EXCEPT ![a] = @ + 1] /\ untold' = untold
         \/ told' = told /\ untold' = [untold EXCEPT ![a] = @ + 1]
  PROVE  ToldInv'
  <1> USE DEF IInv
  <1>1. Exists(a)
    BY DEF AboutInv, About, ShapeInv, CallShape
  <1>2. call'[c].at = "idle" /\ \A d \in Callers \ {c} : call'[d] = call[d]
    BY IdleAbout
  <1>3. /\ Recording(a)' = Recording(a) \ {c} /\ c \in Recording(a)
        /\ \A b \in Appointment \ {a} : Recording(b)' = Recording(b)
    BY <1>2 DEF Recording
  <1>4. Cardinality(Recording(a)') = Cardinality(Recording(a)) - 1
    BY <1>3, RecordingCounts, FS_RemoveElement
  <1>5. /\ told' \in [Appointment -> Nat] /\ untold' \in [Appointment -> Nat]
        /\ told'[a] + untold'[a] = told[a] + untold[a] + 1
        /\ \A b \in Appointment \ {a} : told'[b] = told[b] /\ untold'[b] = untold[b]
    BY <1>1 DEF ToldInv
  <1>6. ASSUME NEW b \in Appointment, Exists(b)
        PROVE  Balanced(b)'
    <2>1. Balanced(b) /\ told[b] \in Nat /\ untold[b] \in Nat /\ told'[b] \in Nat /\ untold'[b] \in Nat
      BY <1>5, <1>6 DEF ToldInv, EveryChangeTold, Balanced, Recording
    <2>2. CASE b = a
      <3>1. row[a].version + 1 = told[a] + untold[a] + Cardinality(Recording(a))
        BY <2>1, <2>2 DEF Balanced
      <3>2. row[a].version + 1 = told'[a] + untold'[a] + Cardinality(Recording(a)')
        BY <1>4, <1>5, <2>1, <2>2, <3>1, RecordingCounts
      <3> QED
        BY <2>2, <3>2 DEF Balanced
    <2>3. CASE b # a
      BY <1>3, <1>5, <2>1, <2>3 DEF Balanced
    <2> QED
      BY <2>2, <2>3
  <1>7. \A b \in Appointment : ~Exists(b) => told'[b] = 0 /\ untold'[b] = 0
    BY <1>1, <1>5 DEF ToldInv
  <1> QED
    BY <1>5, <1>6, <1>7 DEF ToldInv, EveryChangeTold, Balanced, Recording, Exists

LEMMA ToldStep == IInv /\ ToldInv /\ [Next]_vars => ToldInv'
  <1> SUFFICES ASSUME IInv, ToldInv, [Next]_vars
               PROVE  ToldInv'
    OBVIOUS
  <1> USE DEF IInv
  <1>1. ASSUME NEW c \in Callers,
               \/ Create(c) \/ Reschedule(c) \/ TakeLock(c) \/ Retry(c) \/ Release(c) \/ Remind(c)
               \/ Trigger(c) \/ Aborts(c) \/ Read(c) \/ (Crash(c) /\ call[c].at # "record")
        PROVE  ToldInv'
    <2>1. UNCHANGED <<row, told, untold>> /\ call[c].at # "record"
      BY <1>1 DEF Create, Reschedule, TakeLock, Retry, Release, Remind, Trigger, Aborts, Read, Crash, BreaksOff,
         InLock, history
    <2>2. call'[c].at # "record" /\ \A d \in Callers \ {c} : call'[d] = call[d]
      <3>1. CASE Create(c) \/ Reschedule(c)
        <4>1. call'[c].at = "asked" /\ \A d \in Callers \ {c} : call'[d] = call[d]
          BY <3>1 DEF Create, Reschedule, ShapeInv
        <4> QED
          BY <4>1
      <3>2. CASE Aborts(c)
        BY <3>2, LeavesAbout DEF Aborts
      <3>3. CASE TakeLock(c) \/ Retry(c) \/ Release(c) \/ Remind(c) \/ Trigger(c) \/ Crash(c)
        <4>1. Ends(c) \/ \E at \in {"locked", "remind", "trigger"} : Goes(c, at)
          BY <3>3 DEF TakeLock, Retry, Release, Remind, Trigger, Crash
        <4> QED
          BY <4>1, IdleAbout, GoesAbout DEF CallAt
      <3>4. CASE Read(c)
        <4>1. \/ \E a, s : Leaves(c, a, s)
              \/ \E at \in {"insert", "update"} : \E q : call' = [call EXCEPT ![c].at = at, ![c].rule = q]
          BY <3>4 DEF Read, ReadForCreate, ReadForReschedule
        <4>2. ASSUME NEW at \in {"insert", "update"}, NEW q, call' = [call EXCEPT ![c].at = at, ![c].rule = q]
              PROVE  call'[c].at # "record" /\ \A d \in Callers \ {c} : call'[d] = call[d]
          BY <4>2 DEF ShapeInv, CallShape
        <4> QED
          BY <4>1, <4>2, LeavesAbout
      <3> QED
        BY <1>1, <3>1, <3>2, <3>3, <3>4
    <2>3. \A a : Recording(a)' = Recording(a)
      BY <2>1, <2>2, SameRecording
    <2> QED
      BY <2>1, <2>3, ToldKept DEF Exists
  <1>2. ASSUME NEW c \in Callers, Record(c) \/ (Crash(c) /\ call[c].at = "record")
        PROVE  ToldInv'
    <2>1. call[c].at = "record" /\ Ends(c) /\ row' = row
      BY <1>2 DEF Record, Crash, BreaksOff
    <2>2. PICK a \in Appointment : a = call[c].appt
      BY <2>1 DEF AboutInv, About, ShapeInv, CallShape
    <2>3. \/ told' = [told EXCEPT ![a] = @ + 1] /\ untold' = untold
          \/ told' = told /\ untold' = [untold EXCEPT ![a] = @ + 1]
      BY <1>2, <2>1, <2>2 DEF Record, Crash, BreaksOff, history
    <2> QED
      BY <2>1, <2>2, <2>3, ToldRecord
  <1>3. ASSUME NEW s \in Staff, LockExpires(s) \/ SetRule(s)
        PROVE  ToldInv'
    BY <1>3, ToldKept DEF LockExpires, SetRule, history, Exists, Recording
  <1>4. CASE UNCHANGED vars
    BY <1>4, ToldKept DEF vars, history, Exists, Recording
  <1> QED
    BY <1>1, <1>2, <1>3, <1>4, ToldCommit, ToldCancel DEF Next

(* Every change of an appointment has one event, whatever the transaction manager repeats, but for *)
(* cancellations cut short before theirs (appointments.service, cancel).                           *)
THEOREM ChangesTold == Spec => []EveryChangeTold
  <1>1. Init => IInv /\ ToldInv
    <2>1. Init => ToldInv
      BY DEF Init, ToldInv, EveryChangeTold, Exists, Absent
    <2> QED
      BY <2>1, InitInv
  <1>2. ToldInv => EveryChangeTold
    BY DEF ToldInv
  <1> QED
    BY <1>1, <1>2, StepInv, ToldStep, PTL DEF Spec
=============================================================================
