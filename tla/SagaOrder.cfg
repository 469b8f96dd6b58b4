SPECIFICATION FairSpec
CONSTANTS
  LastStep = 3
  Reversible <- MCReversible
  Workers = {w1}
  MaxAttempts = 2
  MaxFailures = 1
  MaxOps = 0
  MaxFaults = 0
PROPERTIES UndoLastFirst ForwardEnds
CHECK_DEADLOCK FALSE
