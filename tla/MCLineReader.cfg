SPECIFICATION Spec
CONSTANTS
  MaxAddr = 9
  CU = {"c1", "c2"}
  Sub <- MCSub
  Site <- MCSite
  None = None
  All = All
  Worlds <- MCWorlds
  LineCacheFreq = 2
  Rescope = FALSE
INVARIANTS
  ScopeRespected
  StackRight
PROPERTIES
  SeekRight
  NextRight
