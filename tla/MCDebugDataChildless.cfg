SPECIFICATION Spec
CONSTANTS
  MaxAddr = 7
  t1 = t1
  t2 = t2
  Thread = {t1, t2}
  Asked <- MCAsked
  Files <- ChildlessFiles
  MaxCalls = 1
  New = New
  Done = Done
  None = None
INVARIANT InlineRight
CHECK_DEADLOCK FALSE
