SPECIFICATION Spec
CONSTANTS
  t1 = t1
  t2 = t2
  Thread = {t1, t2}
  Files <- MCFiles
  MaxCalls = 1
  New = New
  Done = Done
  None = None
INVARIANTS ErrorReported
CHECK_DEADLOCK FALSE
