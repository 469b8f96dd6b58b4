SPECIFICATION Spec
CONSTANTS
  Transfers = {t1}
  Rows = 2
  Capacity = 1
  GuardLimit = 1
  JobAttempts = 2
  ScanAttempts = 2
  MaxRemovals = 1
  MaxFaults = 2
INVARIANTS ActiveHasObject StrandedNeedsCause LateRowsBounded ReportTruthful
PROPERTIES ClosedStays
CHECK_DEADLOCK FALSE
