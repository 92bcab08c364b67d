SPECIFICATION FairSpec
CONSTANTS
  MaxAddr = 7
  t1 = t1
  t2 = t2
  Thread = {t1, t2}
  Asked <- MCAsked
  Files <- MCFiles
  MaxCalls = 1
  New = New
  Done = Done
  None = None
INVARIANTS IndexRight InlineRight SameSites
PROPERTIES CallsReturn
CHECK_DEADLOCK FALSE
