---------------------------- MODULE OrderedNodes ----------------------------
(***************************************************************************)
(* What internal/imap's avlTree promises to Imap: a set of nodes, one per  *)
(* key, that grows by the node Insert returns and shrinks by exactly the   *)
(* node Delete is given.  It is the `tree' of module Imap.                 *)
(***************************************************************************)
CONSTANT Node

VARIABLE nodes

Init == nodes = {}

Add(m) == m \notin nodes /\ nodes' = nodes \cup {m}
Remove(m) == m \in nodes /\ nodes' = nodes \ {m}

Next == \E m \in Node : Add(m) \/ Remove(m)

Spec == Init /\ [][Next]_nodes
=============================================================================
