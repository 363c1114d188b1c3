SPECIFICATION FairSpec
CONSTANTS
  a = a
  b = b
  t = t
  s1 = s1
  nobody = nobody
  Nobody = nobody
  Ids = {a, b}
  Rows <- MCRows
  Runner = t
  Others = {s1}
  Existing = {a}
  MaxRuns = 4
  MaxFaults = 1
  MaxCalls <- MCCalls
INVARIANTS FailureKeeps SuccessKeeps OpenOnlyAfterThrow SavedChangesStay
PROPERTIES RowsCreated OthersAnswer
\* A run that has answered, and sessions that have made their calls, stop.
CHECK_DEADLOCK FALSE
