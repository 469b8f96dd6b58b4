SPECIFICATION Spec
CONSTANTS
  LastStep = 2
  Reversible <- MCFirst
  Workers = {w1, w2}
  MaxAttempts = 2
  MaxFailures = 0
  MaxOps = 1
  MaxFaults = 1
INVARIANTS TypeOK CompletedMeansPerformed
PROPERTIES TerminalIsFinal
CHECK_DEADLOCK FALSE
