----------------------------- MODULE Availability -----------------------------
(***************************************************************************)
(* When a member of staff can be booked: the availability rule and the     *)
(* check of a requested time against it (apps/api/src/modules/scheduling/  *)
(* availability-policy.ts and time.ts).                                    *)
(*                                                                         *)
(* Instants are finer than the minutes a rule is written in: a request may *)
(* name seconds and milliseconds (parseInstant), of which the wall clock   *)
(* keeps the whole minutes only (zonedParts).  The wall clock of the       *)
(* rule's timezone runs with the instants but for one change of the        *)
(* clocks; the notice and the horizon, which only refuse more, are left to *)
(* the caller.                                                             *)
(***************************************************************************)
EXTENDS Integers

CONSTANTS
  Minute,    \* instants of a minute (60 000: they are milliseconds)
  Day,       \* minutes of a day
  ChangeAt,  \* the instant the clocks of the timezone change
  Shift,     \* by how much; negative: they are set back
  Unset      \* a field the rule leaves out

ASSUME AvailabilityAssumption ==
  {Minute, Day} \subseteq Nat \ {0} /\ ChangeAt \in Int /\ Shift \in Int

\* Date, weekday and minutes on the wall clock; what is left of the last minute is dropped.
zonedParts(t) ==
  LET local == (IF t < ChangeAt THEN t ELSE t + Shift) \div Minute
      date  == local \div Day
  IN  [date |-> date, weekday |-> date % 7, minutes |-> local % Day]

\* A date's own times come before those of its weekday; a weekday that is not enabled has none.
Time(rule, parts, field) ==
  LET hours == IF parts.weekday \in DOMAIN rule.workingHours
                 THEN rule.workingHours[parts.weekday][field] ELSE Unset
      own   == IF parts.date \in DOMAIN rule.dateOverrides
                 THEN rule.dateOverrides[parts.date][field] ELSE Unset
  IN  IF own # Unset THEN own ELSE hours

\* The times of a rule are minutes, or left out.
Timed(rule) ==
  /\ \A hours \in {rule.workingHours[d] : d \in DOMAIN rule.workingHours}
                    \union {rule.dateOverrides[d] : d \in DOMAIN rule.dateOverrides} :
       {hours["opening"], hours["closing"]} \subseteq Int \union {Unset}
  /\ \A b \in rule.breaks : {b.start, b.end} \subseteq Int

DayOff(rule, date) ==
  \/ date \in rule.holidays
  \/ date \in DOMAIN rule.dateOverrides /\ ~rule.dateOverrides[date].available

\* Mutant of assertAvailable: an appointment may reach over a break it does not start in.
assertAvailableAtStart(rule, start, end) ==
  LET from    == zonedParts(start)
      to      == zonedParts(end)
      closing == Time(rule, from, "closing")
  IN  /\ from.date = to.date
      /\ ~DayOff(rule, from.date)
      /\ Time(rule, from, "opening") # Unset
      /\ from.minutes >= Time(rule, from, "opening")
      /\ closing # Unset => to.minutes <= closing
      /\ \A b \in rule.breaks : from.minutes \notin b.start .. b.end - 1

\* The check compares only the two ends.  Without an opening time it refuses; without a
\* closing time the comparison with NaN is false, and any end is accepted.
assertAvailable(rule, start, end) ==
  LET from    == zonedParts(start)
      to      == zonedParts(end)
      closing == Time(rule, from, "closing")
  IN  /\ from.date = to.date
      /\ ~DayOff(rule, from.date)
      /\ Time(rule, from, "opening") # Unset
      /\ from.minutes >= Time(rule, from, "opening")
      /\ closing # Unset => to.minutes <= closing
      /\ \A b \in rule.breaks : ~(from.minutes < b.end /\ to.minutes > b.start)

\* What the rule means: staff are at work at instant t (its times are whole minutes).
AtWork(rule, t) ==
  LET p == zonedParts(t)
  IN  /\ ~DayOff(rule, p.date)
      /\ Time(rule, p, "opening") # Unset /\ p.minutes >= Time(rule, p, "opening")
      /\ Time(rule, p, "closing") # Unset => p.minutes < Time(rule, p, "closing")
      /\ \A b \in rule.breaks : p.minutes \notin b.start .. b.end - 1
=============================================================================
