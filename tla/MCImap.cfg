SPECIFICATION FairSpec
CONSTANTS
  MaxAddr = 4
  Value = {u, v}
  NoValue = NoValue
  Node = {n1, n2, n3, n4, n5}
  NoNode = NoNode
INVARIANTS WellFormed FindMaximal KeyFresh
PROPERTIES OrderStable Refinement Termination
