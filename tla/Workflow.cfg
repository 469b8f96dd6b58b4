SPECIFICATION Spec
CONSTANTS
  NodeOrder <- MCNodes
  Kind <- MCKind
  Watched <- MCWatched
  Fallback <- MCFallback
  Recoverable <- MCRecoverable
  Retry <- MCRetry
  Graphs <- MCGraphs
  None = None
  MaxIterations = 2
  DefaultAttempts = 2
  SlotLimit = 1
  Workers = {w1, w2}
  MaxJobs = 3
  MaxCommands = 1
  MaxFaults = 1
INVARIANTS TypeOK CyclesHaveLoop StrandedNeedsCause SlotsBounded LateStepsBounded LoopBounded
SYMMETRY MCSymmetry
CHECK_DEADLOCK FALSE
