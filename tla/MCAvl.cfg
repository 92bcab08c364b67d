SPECIFICATION MCSpec
CONSTANTS
  MaxKey = 12
  SmallKeys = 7
  MinNodes = 10
INVARIANTS WellFormed Ordered Balanced DetachedNotRotated RotatesOnce
PROPERTIES MCRefinement WalkClimbs
