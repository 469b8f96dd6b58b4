SPECIFICATION FairSpec
CONSTANTS
  Requests = {r1}
  Workers = {w1, w2}
  NoWorker = NoWorker
  TerminalAfter = 2
  FirstAttempts = 3
  DefaultAttempts = 2
  MaxDeferrals = 1
  MaxFaults = 2
INVARIANTS NotifiedOnce StrandedNeedsCause
PROPERTIES SettledStays RequestsSettle
CHECK_DEADLOCK FALSE
