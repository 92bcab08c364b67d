SPECIFICATION Spec
CONSTANTS
  W = 8
  IdW = 8
  Files <- Executables
  None = None
INVARIANTS FirstKept
CHECK_DEADLOCK FALSE
