SPECIFICATION Spec
CONSTANTS
  Minute = 2
  Day = 8
  ChangeAt = 6
  Shift <- MCShift
  Unset = Unset
  Staff = {s1}
  Services = {v1}
  Buffer <- MCBuffer
  Rules <- MCRules
  Ranges <- MCRanges
  Keys = {k1, k2}
  Callers = {c1, c2}
  None = None
  MaxAppointments = 2
  MaxCalls = 3
  MaxFaults = 1
SYMMETRY MCSymmetry
INVARIANTS ClearOfEarlier PlacedAtWork ReminderNeedsCause EveryChangeTold
CHECK_DEADLOCK FALSE
