SPECIFICATION FairSpec
CONSTANTS
  Events = {e1}
  Publishers = {p1}
  Consumers = {c1}
  None = None
  QuarantineAfter = 3
  JobAttempts = 2
  MaxStalls = 1
  MaxReplays = 0
  MaxFaults = 1
PROPERTY CommittedIsPublished
CHECK_DEADLOCK FALSE
