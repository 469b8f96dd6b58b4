SPECIFICATION FairSpec
CONSTANTS
  Size = 3
  BatchSize = 3
  Workers = {w1}
  NoWorker = NoWorker
  JobAttempts = 2
  MaxCommands = 0
  MaxFaults = 0
PROPERTIES RecipientsReached
CHECK_DEADLOCK FALSE
