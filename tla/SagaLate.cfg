SPECIFICATION Spec
CONSTANTS
  LastStep = 2
  Reversible <- MCReversible
  Workers = {w1}
  MaxAttempts = 2
  MaxFailures = 0
  MaxOps = 1
  MaxFaults = 0
INVARIANTS LateStepIsUndone
CHECK_DEADLOCK FALSE
