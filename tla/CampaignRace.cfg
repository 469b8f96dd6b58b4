SPECIFICATION Spec
CONSTANTS
  Size = 2
  BatchSize = 2
  Workers = {w1, w2}
  NoWorker = NoWorker
  JobAttempts = 2
  MaxCommands = 1
  MaxFaults = 2
INVARIANTS AtMostOneSend StatusMatchesProvider
SYMMETRY MCSymmetry
CHECK_DEADLOCK FALSE
