SPECIFICATION SizedSpec
CONSTANTS
  W = 7
  Section <- MCSection
  Mapped <- MCMapped
  Name = {"f", "g"}
  NoSection = 0
  NoSym = NoSym
  Bounds <- MCBounds
  Tables <- Unsized
INVARIANTS AllSized
CHECK_DEADLOCK FALSE
