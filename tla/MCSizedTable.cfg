SPECIFICATION SizedSpec
CONSTANTS
  W = 7
  Section <- MCSection
  Mapped <- MCMapped
  Name = {"f", "g"}
  NoSection = 0
  NoSym = NoSym
  Bounds <- MCBounds
  Tables <- MCTables
INVARIANTS
  WellFormed
  StackIsCurrent
  Complete
  Innermost
  ReachesNext
  SizedCovers
CHECK_DEADLOCK FALSE
