SPECIFICATION Spec
CONSTANTS
  W = 8
  IdW = 8
  Files <- MCFiles
  None = None
INVARIANTS TypeOK SymbolsResolve DataInside IncreasingOrder AddendsFromHome TargetBounded InsideKept
CHECK_DEADLOCK FALSE
