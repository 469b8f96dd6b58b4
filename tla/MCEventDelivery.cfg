SPECIFICATION FairSpec
CONSTANTS
  Events = {e1}
  Publishers = {p1, p2}
  Consumers = {c1, c2}
  None = None
  QuarantineAfter = 3
  JobAttempts = 2
  MaxStalls = 1
  MaxReplays = 1
  MaxFaults = 1
INVARIANTS
  TypeOK
  ClaimsExclusive
  PublishedMeansQueued
  LossNeedsInterruption
PROPERTIES
  FailureMarksOwnClaim
  ProcessedIsFinal
  KeepsPromise
  PendingSettles
CHECK_DEADLOCK FALSE
