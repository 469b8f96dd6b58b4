---------------------------- MODULE MCAppointments ----------------------------
(***************************************************************************)
(* Model checking of Appointments on a day of eight minutes of two         *)
(* instants each, whose clocks are set back by a minute at instant 6: the  *)
(* instants 4 to 7 are twice minute 2 on the wall clock.  The rule has a   *)
(* break at that minute and no buffer; the service has a buffer of one     *)
(* minute after each appointment.  Of the requested times the first        *)
(* reaches over the change, the second starts in the break, the third ends *)
(* half a minute past closing and the last, a week later, reaches over the *)
(* break.                                                                  *)
(***************************************************************************)
EXTENDS Appointments, TLC

MCBuffer == [v \in Services |-> [before |-> 0, after |-> 1]]
MCWeekday == [opening |-> 1, closing |-> 5]
MCRule ==
  [workingHours |-> 0 :> MCWeekday, dateOverrides |-> 1 :> [available |-> FALSE, opening |-> 0, closing |-> 8],
   holidays |-> {}, breaks |-> {[start |-> 2, end |-> 3]}, before |-> 0, after |-> 0]
MCShift == -2
MCRules == {MCRule}
MCRanges ==
  {[start |-> 2, end |-> 6], [start |-> 6, end |-> 10], [start |-> 8, end |-> 13], [start |-> 116, end |-> 122]}
MCSymmetry == Permutations(Callers) \union Permutations(Keys)
=============================================================================
