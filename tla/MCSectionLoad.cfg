SPECIFICATION FairSpec
CONSTANTS
  t1 = t1
  t2 = t2
  Thread = {t1, t2}
  Files <- MCFiles
  MaxCalls = 1
  New = New
  Done = Done
  None = None
INVARIANTS TypeOK SameAnswer RelocsComplete NothingDangles WaitsDownwards
PROPERTIES CallsReturn
CHECK_DEADLOCK FALSE
