------------------------------- MODULE Imap --------------------------------
(***************************************************************************)
(* internal/imap.Imap: an interval map kept as a search tree of disjoint   *)
(* intervals.  Insert runs one iteration of its loop per step, so every    *)
(* intermediate state of the tree is a state of the model.                 *)
(*                                                                         *)
(* The tree is the set of its nodes here: Search, Next, Insert and Delete  *)
(* are taken by what they promise.  Module Avl models how the tree does    *)
(* it, and what it needs from this module is OrderStable.                  *)
(***************************************************************************)
EXTENDS Naturals

CONSTANTS
  MaxAddr,   \* the greatest address, 2^64-1 in the code
  Value,     \* the values a client may insert
  NoValue,   \* the value of an address no interval contains (nil)
  Node,      \* the nodes that may be allocated
  NoNode     \* the nil *avlNode

ASSUME MaxAddrAssumption == MaxAddr \in Nat
ASSUME NoValueAssumption == NoValue \notin Value
ASSUME NoNodeAssumption == NoNode \notin Node

Addr == 0..MaxAddr

VARIABLES
  tree,   \* the nodes linked into m.tree
  node,   \* the fields of every node; a deleted node keeps them while the
          \* call that deleted it may still look at them
  n,      \* Insert's local n: the interval its loop looks at next
  pred,   \* Insert's local pred: where Search first landed
  arg,    \* Insert's arguments: key.Low, key.High and value
  pc      \* "idle" between calls, "loop" at imap.go:41, "merge" at :80

vars == <<tree, node, n, pred, arg, pc>>

NodeFields == [key : Addr, high : Addr, value : Value \cup {NoValue}]
NoFields == [key |-> 0, high |-> 0, value |-> NoValue]
NoArg == [low |-> 0, high |-> 0, val |-> NoValue]

-----------------------------------------------------------------------------
(* Interval *)

Empty(i) == i.high <= i.low

\* The parts of interval i below and above interval o; either may be empty.
Subtract(i, o) ==
  [below |-> IF i.low < o.low THEN [low |-> i.low, high |-> o.low]
                              ELSE [low |-> 0, high |-> 0],
   above |-> IF o.high < i.high THEN [low |-> o.high, high |-> i.high]
                                ELSE [low |-> 0, high |-> 0]]

Interval(m) == [low |-> node[m].key, high |-> node[m].high]

-----------------------------------------------------------------------------
(* The tree, as module Avl implements it *)

\* The node of S that comes first in the tree's order.
First(S) ==
  IF S = {} THEN NoNode
  ELSE CHOOSE m \in S : \A k \in S : node[m].key <= node[k].key

\* avlNode.Next
NextNode(m) == First({k \in tree : node[k].key > node[m].key})

\* avlTree.Insert returns a node with the given key: the one in the tree, or
\* else a new one, some node that no variable refers to.
NodesFor(k) ==
  IF \E m \in tree : node[m].key = k
  THEN {m \in tree : node[m].key = k}
  ELSE Node \ (tree \cup {n, pred})

\* A node that holds the given interval and value.
Fields(k, h, v) == [key |-> k, high |-> h, value |-> v]

-----------------------------------------------------------------------------
Init ==
  /\ tree = {}
  /\ node = [m \in Node |-> NoFields]
  /\ n = NoNode
  /\ pred = NoNode
  /\ arg = NoArg
  /\ pc = "idle"

\* The call returns with tree t and fields f: its locals are gone, and the
\* nodes it deleted with them.
Return(t, f) ==
  /\ tree' = t
  /\ node' = [m \in Node |-> IF m \in t THEN f[m] ELSE NoFields]
  /\ n' = NoNode
  /\ pred' = NoNode
  /\ arg' = NoArg
  /\ pc' = "idle"

\* A client calls Insert.  The empty interval returns at once.
Insert(low, high, val) ==
  /\ pc = "idle"
  /\ ~ Empty([low |-> low, high |-> high])
  /\ n' = First({m \in tree : low <= node[m].high})
  /\ pred' = n'
  /\ arg' = [low |-> low, high |-> high, val |-> val]
  /\ pc' = "loop"
  /\ UNCHANGED <<tree, node>>

\* Mutant: the loop stops before an interval that starts one below the new
\* high.
OverlapsOffByOne == n # NoNode /\ node[n].key + 1 < arg.high

\* The loop's condition, and what is left of n below and above the new interval.
Overlaps == n # NoNode /\ node[n].key < arg.high
AtOverlap == pc = "loop" /\ Overlaps

Rest == Subtract(Interval(n), [low |-> arg.low, high |-> arg.high])
Lok == ~ Empty(Rest.below)
Hok == ~ Empty(Rest.above)

\* n overlaps the low end of the new interval: adjust its high.
TrimHigh ==
  /\ AtOverlap
  /\ Lok /\ ~ Hok
  /\ n' = NextNode(n)
  /\ node' = [node EXCEPT ![n].high = Rest.below.high]
  /\ UNCHANGED <<tree, pred, arg, pc>>

\* n overlaps the high end of the new interval: adjust its low, leave the loop.
TrimLow ==
  /\ AtOverlap
  /\ ~ Lok /\ Hok
  /\ node' = [node EXCEPT ![n].key = Rest.above.low]
  /\ pc' = "merge"
  /\ UNCHANGED <<tree, n, pred, arg>>

\* The new interval lies inside n, which has its value already.
SplitSame ==
  /\ AtOverlap
  /\ Lok /\ Hok
  /\ node[n].value = arg.val
  /\ Return(tree, node)

\* Mutant: the upper half takes the new value.
SplitNewValue ==
  /\ AtOverlap
  /\ Lok /\ Hok
  /\ node[n].value # arg.val
  /\ \E n2 \in NodesFor(Rest.above.low) :
       /\ tree' = tree \cup {n2}
       /\ node' = [node EXCEPT
            ![n].high = Rest.below.high,
            ![n2] = Fields(Rest.above.low, Rest.above.high, arg.val)]
       /\ n' = n2
  /\ pc' = "merge"
  /\ UNCHANGED <<pred, arg>>

\* The new interval lies inside n: split n in two, leave the loop.
Split ==
  /\ AtOverlap
  /\ Lok /\ Hok
  /\ node[n].value # arg.val
  /\ \E n2 \in NodesFor(Rest.above.low) :
       /\ tree' = tree \cup {n2}
       /\ node' = [node EXCEPT
            ![n].high = Rest.below.high,
            ![n2] = Fields(Rest.above.low, Rest.above.high, node[n].value)]
       /\ n' = n2
  /\ pc' = "merge"
  /\ UNCHANGED <<pred, arg>>

\* Mutant: the covered interval stays in the tree.
CoverLeaves ==
  /\ AtOverlap
  /\ ~ Lok /\ ~ Hok
  /\ n' = NextNode(n)
  /\ UNCHANGED <<tree, node, pred, arg, pc>>

\* Mutant: the loop does not move on from the interval it deleted.
CoverStands ==
  /\ AtOverlap
  /\ ~ Lok /\ ~ Hok
  /\ tree' = tree \ {n}
  /\ UNCHANGED <<node, n, pred, arg, pc>>

\* The new interval covers n: delete it.
Cover ==
  /\ AtOverlap
  /\ ~ Lok /\ ~ Hok
  /\ n' = NextNode(n)
  /\ tree' = tree \ {n}
  /\ UNCHANGED <<node, pred, arg, pc>>

LoopExit ==
  /\ pc = "loop"
  /\ ~ Overlaps
  /\ pc' = "merge"
  /\ UNCHANGED <<tree, node, n, pred, arg>>

\* The predecessor ends where the new interval starts, with its value.
JoinsPred ==
  /\ pred # NoNode
  /\ node[pred].high = arg.low
  /\ node[pred].value = arg.val

\* The successor starts where the new interval ends, with its value.
JoinsSucc ==
  /\ n # NoNode
  /\ node[n].key = arg.high
  /\ node[n].value = arg.val

\* Mutant: the predecessor is extended, and the successor it now abuts
\* forgotten.
MergePredOnly ==
  /\ pc = "merge"
  /\ JoinsPred
  /\ Return(tree, [node EXCEPT ![pred].high = arg.high])

\* Extend the predecessor over the new interval, and over the successor if
\* it runs right into it.
MergePred ==
  /\ pc = "merge"
  /\ JoinsPred
  /\ IF JoinsSucc
     THEN Return(tree \ {n}, [node EXCEPT ![pred].high = node[n].high])
     ELSE Return(tree, [node EXCEPT ![pred].high = arg.high])

\* Extend the successor over the new interval.
MergeSucc ==
  /\ pc = "merge"
  /\ ~ JoinsPred
  /\ JoinsSucc
  /\ Return(tree, [node EXCEPT ![n].key = arg.low])

\* Nothing to merge with: a node for the new interval.
NewNode ==
  /\ pc = "merge"
  /\ ~ JoinsPred
  /\ ~ JoinsSucc
  /\ \E new \in NodesFor(arg.low) :
       Return(tree \cup {new},
              [node EXCEPT ![new] = Fields(arg.low, arg.high, arg.val)])

Step ==
  \/ TrimHigh \/ TrimLow \/ SplitSame \/ Split \/ Cover \/ LoopExit
  \/ MergePred \/ MergeSucc \/ NewNode

Next ==
  \/ \E low, high \in Addr, val \in Value : Insert(low, high, val)
  \/ Step

Spec == Init /\ [][Next]_vars

\* A call runs to its end: Insert blocks on nothing.
FairSpec == Spec /\ WF_vars(Step)

-----------------------------------------------------------------------------
(* Reading the map *)

\* Mutant: an interval still counts at the address where it ends.
IterStartInclusive(addr) == First({m \in tree : addr <= node[m].high})

\* Iter(addr): the node the iterator starts on.
IterStart(addr) == First({m \in tree : addr < node[m].high})

\* Find(addr): the interval that contains addr and its value.
Find(addr) ==
  LET m == IterStart(addr)
  IN IF m # NoNode /\ node[m].key <= addr
     THEN [key |-> Interval(m), value |-> node[m].value]
     ELSE [key |-> [low |-> 0, high |-> 0], value |-> NoValue]

-----------------------------------------------------------------------------
(* Properties *)

Contains(f, m, a) == f[m].key <= a /\ a < f[m].high

\* The value of address a, read off the intervals of tree t.
ValueIn(t, f, a) ==
  IF \E m \in t : Contains(f, m, a)
  THEN f[CHOOSE m \in t : Contains(f, m, a)].value
  ELSE NoValue

\* The map a client sees: an Insert takes effect the moment it is called.
AbsAt(a) ==
  IF pc # "idle" /\ arg.low <= a /\ a < arg.high THEN arg.val
                                               ELSE ValueIn(tree, node, a)
Abs == [a \in Addr |-> AbsAt(a)]

\* The Insert under way; one that has returned has left no trace.
Call == IF pc = "idle" THEN NoArg ELSE arg

IM == INSTANCE IntervalMap WITH map <- Abs, call <- Call

\* Every behaviour of Insert's steps is one of the abstract map: a call gives
\* its interval its value when it begins, and no split, trim, deletion or merge
\* on the way to its return changes the value of any address (imap.go:25-100).
Refinement == IM!Spec

\* Every variable has its type.
TypeOK ==
  /\ tree \subseteq Node
  /\ node \in [Node -> NodeFields]
  /\ n \in Node \cup {NoNode}
  /\ pred \in Node \cup {NoNode}
  /\ arg \in [low : Addr, high : Addr, val : Value \cup {NoValue}]
  /\ pc \in {"idle", "loop", "merge"}

NonEmpty == \A m \in tree : node[m].key < node[m].high /\ node[m].value \in Value

Disjoint ==
  \A m, k \in tree : m # k =>
    node[m].high <= node[k].key \/ node[k].high <= node[m].key

Canonical ==
  \A m, k \in tree : node[m].high = node[k].key => node[m].value # node[k].value

\* The tree holds disjoint, non-empty intervals and abutting ones differ in
\* value, between calls and at every step inside one (imap.go:39-99).
WellFormed == NonEmpty /\ Disjoint /\ Canonical

\* Find reports the whole run of equal values around an address, and nothing
\* for an address outside every interval (imap.go:102-113): whatever the
\* history of splits and merges, neither neighbour of the reported interval
\* has its value.
FindMaximal ==
  pc = "idle" => \A a \in Addr :
    LET f == Find(a)
    IN /\ f.value = Abs[a]
       /\ f.value # NoValue =>
            /\ f.key.low <= a /\ a < f.key.high
            /\ \A b \in Addr :
                 f.key.low <= b /\ b < f.key.high => Abs[b] = f.value
            /\ \A b \in Addr :
                 b + 1 = f.key.low \/ b = f.key.high => Abs[b] # f.value

\* Changing a key in place never reorders the tree: nodes that stay linked
\* keep their order, which is all the search tree relies on when Insert
\* assigns n.key ("Order doesn't change", imap.go:51, :55, :93).
OrderStable ==
  [][\A m, k \in tree \cap tree' :
       node[m].key < node[k].key => node'[m].key < node'[k].key]_vars

\* Insert keeps pred across deletions; when it goes on to extend pred, pred
\* is still linked into the tree (imap.go:37, :72, :80-82).
PredAlive == pc = "merge" /\ JoinsPred => pred \in tree /\ pred # n

\* The tree's Insert is never asked for a key it has already: it would hand
\* back a live node for Insert to overwrite (imap.go:66, :98).
KeyFresh ==
  /\ AtOverlap /\ Lok /\ Hok =>
       \A m \in tree : node[m].key # Rest.above.low
  /\ pc = "merge" /\ ~ JoinsPred /\ ~ JoinsSucc =>
       \A m \in tree : node[m].key # arg.low

\* Every call of Insert returns.
Termination == pc # "idle" ~> pc = "idle"

-----------------------------------------------------------------------------
(* The inductive invariant *)

\* What the loop knows of the interval it stands on: everything before it
\* ends at or below low, and whatever ends exactly at low is pred.
LoopInv ==
  /\ n # NoNode =>
       /\ n \in tree
       /\ arg.low <= node[n].high
       /\ n = pred \/ arg.low <= node[n].key
       /\ \A m \in tree : node[m].key < node[n].key => node[m].high <= arg.low
  /\ n = NoNode => \A m \in tree : node[m].high <= arg.low

\* What the merge relies on: the new interval's addresses are free, and the
\* only interval that may start at its high is n.
MergeInv ==
  /\ \A m \in tree : node[m].high <= arg.low \/ arg.high <= node[m].key
  /\ \A m \in tree : node[m].key = arg.high => m = n
  /\ n # NoNode => n \in tree /\ arg.high <= node[n].key

CallInv ==
  pc # "idle" =>
    /\ arg.low < arg.high
    /\ arg.val \in Value
    /\ \A m \in tree : node[m].high = arg.low => m = pred
    /\ pred # NoNode /\ node[pred].high = arg.low => pred \in tree

IInv ==
  /\ TypeOK
  /\ WellFormed
  /\ CallInv
  /\ pc = "loop" => LoopInv
  /\ pc = "merge" => MergeInv
=============================================================================
