----------------------------- MODULE ImapProofs -----------------------------
(***************************************************************************)
(* Theorems about Imap, for every range of addresses, set of values and    *)
(* set of nodes.                                                           *)
(***************************************************************************)
EXTENDS Imap, TLAPS, WellFoundedInduction

-----------------------------------------------------------------------------
(* The tree's order *)

\* A non-empty set of naturals has a least element.
LEMMA LeastNat ==
  ASSUME NEW T \in SUBSET Nat, T # {}
  PROVE  \E x \in T : \A y \in T : x <= y
<1> DEFINE R == {p \in Nat \X Nat : p[1] < p[2]}
<1>1. IsWellFoundedOn(R, Nat)
  BY NatLessThanWellFounded DEF OpToRel
<1>2. PICK x \in T : \A y \in T : ~ (<<y, x>> \in R)
  BY <1>1, WFMin
<1>3. ASSUME NEW y \in T PROVE x <= y
  <2>1. x \in Nat /\ y \in Nat
    OBVIOUS
  <2>2. ~ (y < x)
    BY <1>2, <2>1
  <2> QED
    BY <2>1, <2>2
<1> QED
  BY <1>3

\* First returns a node of a non-empty set, and none comes before it.
LEMMA FirstIsLeast ==
  ASSUME node \in [Node -> NodeFields], NEW S \in SUBSET Node, S # {}
  PROVE  /\ First(S) \in S
         /\ \A k \in S : node[First(S)].key <= node[k].key
<1> DEFINE T == {node[k].key : k \in S}
<1>1. T \in SUBSET Nat /\ T # {}
  BY MaxAddrAssumption DEF NodeFields, Addr
<1>2. PICK x \in T : \A y \in T : x <= y
  BY <1>1, LeastNat
<1>3. PICK m \in S : node[m].key = x
  BY <1>2
<1>4. \A k \in S : node[m].key <= node[k].key
  BY <1>2, <1>3
<1> QED
  BY <1>4 DEF First

\* First says that a set is empty by returning no node.
LEMMA FirstOfEmpty ==
  ASSUME NEW S \in SUBSET Node
  PROVE  S = {} => First(S) = NoNode
BY DEF First

\* NextNode steps to the node that follows in the tree's order.
LEMMA NextNodeFollows ==
  ASSUME node \in [Node -> NodeFields], tree \subseteq Node, NEW m \in Node
  PROVE  /\ NextNode(m) = NoNode => \A k \in tree : node[k].key <= node[m].key
         /\ NextNode(m) # NoNode =>
              /\ NextNode(m) \in tree
              /\ node[m].key < node[NextNode(m)].key
              /\ \A k \in tree : node[m].key < node[k].key =>
                                 node[NextNode(m)].key <= node[k].key
<1> DEFINE S == {k \in tree : node[k].key > node[m].key}
<1>1. \A k \in Node : node[k].key \in Nat
  BY MaxAddrAssumption DEF NodeFields, Addr
<1>2. CASE S = {}
  BY <1>1, <1>2, FirstOfEmpty DEF NextNode
<1>3. CASE S # {}
  <2>1. First(S) \in S /\ \A k \in S : node[First(S)].key <= node[k].key
    BY <1>3, FirstIsLeast
  <2>2. First(S) # NoNode
    BY <2>1, NoNodeAssumption
  <2> QED
    BY <1>1, <2>1, <2>2 DEF NextNode
<1> QED
  BY <1>2, <1>3

-----------------------------------------------------------------------------
(* Subtract, where Insert uses it *)

\* Inside the loop, Subtract tells on which sides n sticks out of the new
\* interval, and returns exactly those two pieces.
LEMMA RestOfN ==
  ASSUME TypeOK, AtOverlap
  PROVE  /\ n \in Node
         /\ Lok <=> node[n].key < arg.low
         /\ Hok <=> arg.high < node[n].high
         /\ Lok => Rest.below.high = arg.low
         /\ Hok => Rest.above.low = arg.high /\ Rest.above.high = node[n].high
<1>1. n \in Node
  BY DEF TypeOK, AtOverlap, Overlaps
<1>2. /\ node[n].key \in Nat /\ node[n].high \in Nat
      /\ arg.low \in Nat /\ arg.high \in Nat
  BY <1>1, MaxAddrAssumption DEF TypeOK, NodeFields, Addr
<1> QED
  BY <1>1, <1>2 DEF Lok, Hok, Rest, Subtract, Empty, Interval

-----------------------------------------------------------------------------
(* The invariant, one lemma per action *)

\* Keys, highs and the arguments are numbers.
LEMMA Numbers ==
  ASSUME TypeOK
  PROVE  /\ \A m \in Node : node[m].key \in Nat /\ node[m].high \in Nat
         /\ arg.low \in Nat /\ arg.high \in Nat
         /\ Addr \subseteq Nat
BY MaxAddrAssumption DEF TypeOK, NodeFields, Addr

\* The empty tree satisfies the invariant.
LEMMA InitInv == Init => IInv
BY MaxAddrAssumption
DEF Init, IInv, TypeOK, WellFormed, NonEmpty, Disjoint, Canonical, CallInv,
    NodeFields, NoFields, NoArg, Addr

\* The search at the start of a call lands where the loop needs it (imap.go:30-40).
LEMMA InsertInv ==
  ASSUME IInv, NEW low \in Addr, NEW high \in Addr, NEW val \in Value,
         Insert(low, high, val)
  PROVE  IInv'
<1> DEFINE S == {m \in tree : low <= node[m].high}
<1>1. low < high /\ low \in Nat /\ high \in Nat
  BY MaxAddrAssumption DEF Insert, Empty, Addr
<1>2. tree' = tree /\ node' = node /\ pc' = "loop" /\ n' = First(S) /\ pred' = n'
      /\ arg' = [low |-> low, high |-> high, val |-> val]
  BY DEF Insert
<1>3. \A m \in Node : node[m].key \in Nat /\ node[m].high \in Nat
  BY Numbers DEF IInv
<1>4. /\ S = {} => n' = NoNode
      /\ S # {} => /\ n' \in S
                   /\ \A k \in S : node[n'].key <= node[k].key
  BY <1>2, FirstOfEmpty, FirstIsLeast DEF IInv, TypeOK
<1>5. TypeOK'
  BY <1>2, <1>4 DEF IInv, TypeOK
<1>6. WellFormed'
  BY <1>2 DEF IInv, WellFormed, NonEmpty, Disjoint, Canonical
<1>7. LoopInv'
  <2>1. arg'.low = low /\ tree \subseteq Node
    BY <1>2 DEF IInv, TypeOK
  <2>2. CASE S = {}
    <3>1. \A m \in tree : node[m].high <= low
      BY <1>1, <1>3, <2>1, <2>2
    <3> QED
      BY <1>2, <1>4, <2>1, <2>2, <3>1 DEF LoopInv
  <2>3. CASE S # {}
    <3>1. n' \in tree /\ low <= node[n'].high
      BY <1>4, <2>3
    <3>2. \A m \in tree : node[m].key < node[n'].key => node[m].high <= low
      BY <1>1, <1>3, <1>4, <2>1, <2>3, <3>1
    <3> QED
      BY <1>2, <2>1, <3>1, <3>2, NoNodeAssumption DEF LoopInv
  <2> QED
    BY <2>2, <2>3
<1>8. CallInv'
  <2>1. ASSUME NEW m \in tree, node[m].high = low PROVE m = n'
    <3>1. m \in S /\ n' \in S /\ node[n'].key <= node[m].key
      BY <1>1, <1>4, <2>1
    <3>2. node[n'].key < node[n'].high /\ node[m].key < node[m].high
      BY <3>1 DEF IInv, WellFormed, NonEmpty
    <3> QED
      BY <1>1, <1>3, <2>1, <3>1, <3>2 DEF IInv, WellFormed, Disjoint, TypeOK
  <2> QED
    BY <1>1, <1>2, <1>4, <2>1 DEF CallInv
<1> QED
  BY <1>2, <1>5, <1>6, <1>7, <1>8 DEF IInv

\* What the loop's body may assume of n.
LEMMA LoopBody ==
  ASSUME IInv, AtOverlap
  PROVE  /\ pc = "loop" /\ n \in tree /\ n \in Node /\ n # NoNode
         /\ node[n].key < arg.high /\ arg.low <= node[n].high
         /\ IF Lok THEN node[n].key < arg.low /\ n = pred
                   ELSE arg.low <= node[n].key
         /\ IF Hok THEN arg.high < node[n].high ELSE node[n].high <= arg.high
         /\ \A m \in tree : node[m].key < node[n].key => node[m].high <= arg.low
<1>1. pc = "loop" /\ n # NoNode /\ node[n].key < arg.high /\ TypeOK /\ LoopInv
  BY DEF AtOverlap, Overlaps, IInv
<1>2. n \in tree /\ n \in Node
  BY <1>1 DEF TypeOK, LoopInv
<1>3. /\ node[n].key \in Nat /\ node[n].high \in Nat
      /\ arg.low \in Nat /\ arg.high \in Nat
  BY <1>1, <1>2, Numbers
<1>4. /\ Lok <=> node[n].key < arg.low
      /\ Hok <=> arg.high < node[n].high
  BY <1>1, RestOfN
<1>5. /\ arg.low <= node[n].high
      /\ n = pred \/ arg.low <= node[n].key
      /\ \A m \in tree : node[m].key < node[n].key => node[m].high <= arg.low
  BY <1>1 DEF LoopInv
<1> QED
  BY <1>1, <1>2, <1>3, <1>4, <1>5

\* Cutting off the part of n above the new low (imap.go:49-52).
LEMMA TrimHighInv == ASSUME IInv, TrimHigh PROVE IInv'
<1>1. /\ AtOverlap /\ Lok /\ ~ Hok /\ TypeOK /\ WellFormed /\ CallInv
      /\ tree' = tree /\ pred' = pred /\ arg' = arg /\ pc' = "loop"
      /\ n' = NextNode(n)
  BY DEF TrimHigh, AtOverlap, IInv
<1>2. /\ pc = "loop" /\ n \in tree /\ n \in Node /\ n = pred /\ tree \subseteq Node
      /\ node[n].key < arg.low /\ node[n].high <= arg.high /\ arg.low <= node[n].high
      /\ \A m \in tree : node[m].key < node[n].key => node[m].high <= arg.low
  BY <1>1, LoopBody DEF TypeOK
<1>3. node' = [node EXCEPT ![n].high = arg.low]
  BY <1>1, RestOfN DEF TrimHigh
<1>4. /\ \A m \in Node : /\ node'[m].key = node[m].key
                         /\ node'[m].value = node[m].value
                         /\ m # n => node'[m].high = node[m].high
      /\ node'[n].high = arg.low
      /\ \A m \in Node : node[m].key \in Nat /\ node[m].high \in Nat
      /\ arg.low \in Nat /\ arg.high \in Nat
  BY <1>1, <1>2, <1>3, Numbers DEF TypeOK, NodeFields
<1>5. TypeOK'
  <2>1. node' \in [Node -> NodeFields]
    BY <1>1, <1>3 DEF TypeOK, NodeFields
  <2> QED
    BY <1>1, <1>2, <2>1, NextNodeFollows DEF TypeOK
<1>6. WellFormed'
  BY <1>1, <1>2, <1>4 DEF WellFormed, NonEmpty, Disjoint, Canonical
<1>7. CallInv'
  BY <1>1, <1>2, <1>4 DEF CallInv
<1>8. LoopInv'
  BY <1>1, <1>2, <1>4, NextNodeFollows
  DEF LoopInv, TypeOK, WellFormed, NonEmpty, Disjoint
<1> QED
  BY <1>1, <1>5, <1>6, <1>7, <1>8 DEF IInv

\* Moving n's key up to the new high (imap.go:53-57).
LEMMA TrimLowInv == ASSUME IInv, TrimLow PROVE IInv'
<1>1. /\ AtOverlap /\ ~ Lok /\ Hok /\ TypeOK /\ WellFormed /\ CallInv
      /\ tree' = tree /\ pred' = pred /\ arg' = arg /\ pc' = "merge" /\ n' = n
  BY DEF TrimLow, AtOverlap, IInv
<1>2. /\ pc = "loop" /\ n \in tree /\ n \in Node /\ n # NoNode /\ tree \subseteq Node
      /\ arg.low <= node[n].key /\ node[n].key < arg.high /\ arg.high < node[n].high
      /\ \A m \in tree : node[m].key < node[n].key => node[m].high <= arg.low
  BY <1>1, LoopBody DEF TypeOK
<1>3. node' = [node EXCEPT ![n].key = arg.high]
  BY <1>1, RestOfN DEF TrimLow
<1>4. /\ \A m \in Node : /\ node'[m].high = node[m].high
                         /\ node'[m].value = node[m].value
                         /\ m # n => node'[m].key = node[m].key
      /\ node'[n].key = arg.high
      /\ \A m \in Node : node[m].key \in Nat /\ node[m].high \in Nat
      /\ arg.low \in Nat /\ arg.high \in Nat
  BY <1>1, <1>2, <1>3, Numbers DEF TypeOK, NodeFields
<1>5. TypeOK'
  <2>1. node' \in [Node -> NodeFields]
    BY <1>1, <1>3 DEF TypeOK, NodeFields
  <2> QED
    BY <1>1, <2>1 DEF TypeOK
<1>6. WellFormed'
  BY <1>1, <1>2, <1>4 DEF WellFormed, NonEmpty, Disjoint, Canonical
<1>7. CallInv'
  BY <1>1, <1>2, <1>4, NoNodeAssumption DEF CallInv, TypeOK
<1>8. MergeInv'
  BY <1>1, <1>2, <1>4 DEF MergeInv, WellFormed, NonEmpty, Disjoint
<1> QED
  BY <1>1, <1>5, <1>6, <1>7, <1>8 DEF IInv

\* Deleting a covered n; pred may be the node deleted (imap.go:70-73).
LEMMA CoverInv == ASSUME IInv, Cover PROVE IInv'
<1>1. /\ AtOverlap /\ ~ Lok /\ ~ Hok /\ TypeOK /\ WellFormed /\ CallInv
      /\ tree' = tree \ {n} /\ node' = node /\ pred' = pred /\ arg' = arg
      /\ pc' = "loop" /\ n' = NextNode(n)
  BY DEF Cover, AtOverlap, IInv
<1>2. /\ pc = "loop" /\ n \in tree /\ n \in Node /\ tree \subseteq Node
      /\ arg.low <= node[n].key /\ node[n].high <= arg.high
      /\ \A m \in tree : node[m].key < node[n].key => node[m].high <= arg.low
  BY <1>1, LoopBody DEF TypeOK
<1>3. /\ \A m \in Node : node[m].key \in Nat /\ node[m].high \in Nat
      /\ arg.low \in Nat /\ arg.high \in Nat
  BY <1>1, Numbers
<1>4. TypeOK'
  BY <1>1, <1>2, NextNodeFollows DEF TypeOK
<1>5. WellFormed'
  BY <1>1 DEF WellFormed, NonEmpty, Disjoint, Canonical
<1>6. CallInv'
  \* n covers more than the point low, so it is not the interval ending there
  <2>1. node[n].high # arg.low
    BY <1>1, <1>2, <1>3 DEF WellFormed, NonEmpty
  <2> QED
    BY <1>1, <1>2, <2>1 DEF CallInv
<1>7. LoopInv'
  BY <1>1, <1>2, <1>3, NextNodeFollows
  DEF LoopInv, TypeOK, WellFormed, NonEmpty, Disjoint
<1> QED
  BY <1>1, <1>4, <1>5, <1>6, <1>7 DEF IInv

\* Leaving the loop at the first interval that does not overlap (imap.go:41).
LEMMA LoopExitInv == ASSUME IInv, LoopExit PROVE IInv'
<1>1. /\ pc = "loop" /\ ~ Overlaps /\ TypeOK /\ WellFormed /\ CallInv /\ LoopInv
      /\ tree' = tree /\ node' = node /\ n' = n /\ pred' = pred /\ arg' = arg
      /\ pc' = "merge"
  BY DEF LoopExit, IInv
<1>2. /\ \A m \in Node : node[m].key \in Nat /\ node[m].high \in Nat
      /\ arg.low \in Nat /\ arg.high \in Nat /\ tree \subseteq Node
  BY <1>1, Numbers DEF TypeOK
<1>3. MergeInv
  BY <1>1, <1>2 DEF MergeInv, LoopInv, Overlaps, WellFormed, NonEmpty, Disjoint, CallInv
<1>4. TypeOK' /\ WellFormed' /\ CallInv' /\ MergeInv'
  BY <1>1, <1>3 DEF TypeOK, WellFormed, NonEmpty, Disjoint, Canonical, CallInv, MergeInv
<1> QED
  BY <1>1, <1>4 DEF IInv

\* Splitting n around the new interval (imap.go:65-69).
LEMMA SplitInv == ASSUME IInv, Split PROVE IInv'
<1>1. /\ AtOverlap /\ Lok /\ Hok /\ TypeOK /\ WellFormed /\ CallInv
      /\ node[n].value # arg.val
      /\ pred' = pred /\ arg' = arg /\ pc' = "merge"
  BY DEF Split, AtOverlap, IInv
<1>2. /\ pc = "loop" /\ n \in tree /\ n \in Node /\ n = pred /\ tree \subseteq Node
      /\ node[n].key < arg.low /\ arg.low < arg.high /\ arg.high < node[n].high
      /\ \A m \in tree : node[m].key < node[n].key => node[m].high <= arg.low
  BY <1>1, LoopBody DEF TypeOK, CallInv
<1>3. /\ \A m \in Node : node[m].key \in Nat /\ node[m].high \in Nat
      /\ arg.low \in Nat /\ arg.high \in Nat
  BY <1>1, Numbers
<1>4. \A m \in tree : node[m].key # arg.high
  BY <1>1, <1>2, <1>3 DEF WellFormed, NonEmpty, Disjoint
<1>5. PICK n2 \in Node \ tree :
        /\ tree' = tree \cup {n2}
        /\ node' = [node EXCEPT
             ![n].high = arg.low,
             ![n2] = Fields(arg.high, node[n].high, node[n].value)]
        /\ n' = n2
  BY <1>1, <1>4, RestOfN DEF Split, NodesFor
<1>6. /\ \A m \in tree : /\ node'[m].key = node[m].key
                         /\ node'[m].value = node[m].value
                         /\ m # n => node'[m].high = node[m].high
      /\ node'[n].high = arg.low
      /\ node'[n2].key = arg.high /\ node'[n2].high = node[n].high
      /\ node'[n2].value = node[n].value
      /\ tree' = tree \cup {n2} /\ n' = n2 /\ n2 \in Node /\ n2 \notin tree /\ n2 # n
  BY <1>1, <1>2, <1>5 DEF TypeOK, NodeFields, Fields
<1>7. TypeOK'
  <2>1. Fields(arg.high, node[n].high, node[n].value) \in NodeFields
    BY <1>1, <1>2 DEF TypeOK, NodeFields, Fields
  <2>2. node' \in [Node -> NodeFields]
    BY <1>1, <1>2, <1>5, <2>1 DEF TypeOK, NodeFields
  <2> QED
    BY <1>1, <1>5, <2>2 DEF TypeOK
<1>8. WellFormed'
  <2>1. NonEmpty'
    BY <1>1, <1>2, <1>3, <1>6 DEF WellFormed, NonEmpty
  <2>2. Disjoint'
    BY <1>1, <1>2, <1>3, <1>6 DEF WellFormed, NonEmpty, Disjoint
  <2>3. Canonical'
    BY <1>1, <1>2, <1>3, <1>6 DEF WellFormed, NonEmpty, Disjoint, Canonical
  <2> QED
    BY <2>1, <2>2, <2>3 DEF WellFormed
<1>9. CallInv'
  BY <1>1, <1>2, <1>3, <1>6 DEF CallInv
<1>10. MergeInv'
  <2>1. \A m \in tree' : node'[m].high <= arg.low \/ arg.high <= node'[m].key
    BY <1>1, <1>2, <1>3, <1>6 DEF WellFormed, NonEmpty, Disjoint
  <2>2. \A m \in tree' : node'[m].key = arg.high => m = n'
    BY <1>2, <1>4, <1>6
  <2> QED
    BY <1>1, <1>3, <1>6, <2>1, <2>2 DEF MergeInv
<1> QED
  BY <1>1, <1>7, <1>8, <1>9, <1>10 DEF IInv

\* A call that returns with a well-formed tree leaves the invariant true.
LEMMA ReturnInv ==
  ASSUME NEW t \in SUBSET Node, NEW f \in [Node -> NodeFields], Return(t, f),
         \A m \in t : f[m].key < f[m].high /\ f[m].value \in Value,
         \A m, k \in t : m # k => f[m].high <= f[k].key \/ f[k].high <= f[m].key,
         \A m, k \in t : f[m].high = f[k].key => f[m].value # f[k].value
  PROVE  IInv'
<1>1. /\ tree' = t /\ node' = [m \in Node |-> IF m \in t THEN f[m] ELSE NoFields]
      /\ n' = NoNode /\ pred' = NoNode /\ arg' = NoArg /\ pc' = "idle"
  BY DEF Return
<1>2. TypeOK'
  BY <1>1, MaxAddrAssumption DEF TypeOK, NodeFields, NoFields, NoArg, Addr
<1>3. WellFormed'
  BY <1>1 DEF WellFormed, NonEmpty, Disjoint, Canonical
<1> QED
  BY <1>1, <1>2, <1>3 DEF IInv, CallInv

\* Returning early from inside an interval of the same value (imap.go:61-64).
LEMMA SplitSameInv == ASSUME IInv, SplitSame PROVE IInv'
<1>1. Return(tree, node) /\ TypeOK /\ WellFormed
  BY DEF SplitSame, IInv
<1> QED
  BY <1>1, ReturnInv DEF TypeOK, WellFormed, NonEmpty, Disjoint, Canonical

\* What the merge may assume.
LEMMA MergeBody ==
  ASSUME IInv, pc = "merge"
  PROVE  /\ TypeOK /\ WellFormed /\ MergeInv /\ tree \subseteq Node
         /\ arg.low < arg.high /\ arg.val \in Value
         /\ arg.low \in Nat /\ arg.high \in Nat
         /\ \A m \in Node : node[m].key \in Nat /\ node[m].high \in Nat
         /\ \A m \in tree : node[m].high = arg.low => m = pred
         /\ JoinsPred => pred \in tree /\ pred # n
         /\ JoinsSucc => n \in tree
<1>1. TypeOK /\ WellFormed /\ MergeInv /\ CallInv
  BY DEF IInv
<1>2. /\ arg.low \in Nat /\ arg.high \in Nat
      /\ \A m \in Node : node[m].key \in Nat /\ node[m].high \in Nat
  BY <1>1, Numbers
<1>3. JoinsSucc => n \in tree
  BY <1>1 DEF JoinsSucc, MergeInv
<1>4. ASSUME JoinsPred PROVE pred \in tree /\ pred # n
  <2>1. pred \in tree /\ node[pred].high = arg.low
    BY <1>1, <1>4 DEF JoinsPred, CallInv
  <2>2. node[pred].key < arg.low
    BY <1>1, <2>1 DEF WellFormed, NonEmpty
  <2>3. ASSUME pred = n PROVE FALSE
    <3>1. arg.high <= node[pred].key
      BY <1>1, <2>1, <2>3, NoNodeAssumption DEF MergeInv, TypeOK
    <3> QED
      BY <1>1, <1>2, <2>1, <2>2, <3>1 DEF CallInv, TypeOK
  <2> QED
    BY <2>1, <2>3
<1> QED
  BY <1>1, <1>2, <1>3, <1>4 DEF TypeOK, CallInv

\* Extending pred, and over n too when they meet (imap.go:80-90).
LEMMA MergePredInv == ASSUME IInv, MergePred PROVE IInv'
<1>1. pc = "merge" /\ JoinsPred
  BY DEF MergePred
<1>2. /\ TypeOK /\ WellFormed /\ MergeInv /\ tree \subseteq Node
      /\ arg.low < arg.high /\ arg.low \in Nat /\ arg.high \in Nat
      /\ \A m \in Node : node[m].key \in Nat /\ node[m].high \in Nat
      /\ pred \in tree /\ pred # n
  BY <1>1, MergeBody
<1>3. node[pred].high = arg.low /\ node[pred].value = arg.val
  BY <1>1 DEF JoinsPred
<1>4. \A m \in tree : m # pred => \/ node[m].high <= node[pred].key
                                 \/ arg.high <= node[m].key
  BY <1>2, <1>3 DEF MergeInv, WellFormed, NonEmpty, Disjoint
<1>5. CASE JoinsSucc
  <2>1. /\ n \in tree /\ n \in Node
        /\ node[n].key = arg.high /\ node[n].value = arg.val
    BY <1>1, <1>2, <1>5, MergeBody DEF JoinsSucc
  <2>2. PICK f \in [Node -> NodeFields] : f = [node EXCEPT ![pred].high = node[n].high]
    BY <1>2, <2>1 DEF TypeOK, NodeFields
  <2>3. /\ Return(tree \ {n}, f)
        /\ \A m \in Node : /\ f[m].key = node[m].key /\ f[m].value = node[m].value
                           /\ m # pred => f[m].high = node[m].high
        /\ f[pred].high = node[n].high
    BY <1>2, <1>5, <2>2 DEF MergePred, TypeOK, NodeFields
  <2>4. \A m \in tree \ {n} : f[m].key < f[m].high /\ f[m].value \in Value
    BY <1>2, <1>3, <2>1, <2>3 DEF WellFormed, NonEmpty
  <2>5. \A m, k \in tree \ {n} :
          m # k => f[m].high <= f[k].key \/ f[k].high <= f[m].key
    BY <1>2, <1>4, <2>1, <2>3 DEF WellFormed, NonEmpty, Disjoint
  <2>6. \A m, k \in tree \ {n} : f[m].high = f[k].key => f[m].value # f[k].value
    BY <1>2, <1>3, <2>1, <2>3 DEF WellFormed, Canonical
  <2> QED
    BY <1>2, <2>3, <2>4, <2>5, <2>6, ReturnInv
<1>6. CASE ~ JoinsSucc
  <2>1. PICK f \in [Node -> NodeFields] : f = [node EXCEPT ![pred].high = arg.high]
    BY <1>2 DEF TypeOK, NodeFields
  <2>2. /\ Return(tree, f)
        /\ \A m \in Node : /\ f[m].key = node[m].key /\ f[m].value = node[m].value
                           /\ m # pred => f[m].high = node[m].high
        /\ f[pred].high = arg.high
    BY <1>2, <1>6, <2>1 DEF MergePred, TypeOK, NodeFields
  <2>3. \A m \in tree : f[m].key < f[m].high /\ f[m].value \in Value
    BY <1>2, <1>3, <2>2 DEF WellFormed, NonEmpty
  <2>4. \A m, k \in tree : m # k => f[m].high <= f[k].key \/ f[k].high <= f[m].key
    BY <1>2, <1>4, <2>2 DEF WellFormed, Disjoint
  <2>5. ASSUME NEW k \in tree, node[k].key = arg.high PROVE node[k].value # arg.val
    <3>1. k = n /\ n # NoNode
      BY <1>2, <2>5, NoNodeAssumption DEF MergeInv
    <3> QED
      BY <1>6, <2>5, <3>1 DEF JoinsSucc
  <2>6. \A m, k \in tree : f[m].high = f[k].key => f[m].value # f[k].value
    BY <1>2, <1>3, <2>2, <2>5 DEF WellFormed, Canonical
  <2> QED
    BY <1>2, <2>2, <2>3, <2>4, <2>6, ReturnInv
<1> QED
  BY <1>5, <1>6

\* Extending n downwards (imap.go:91-95).
LEMMA MergeSuccInv == ASSUME IInv, MergeSucc PROVE IInv'
<1>1. /\ pc = "merge" /\ ~ JoinsPred /\ JoinsSucc
      /\ Return(tree, [node EXCEPT ![n].key = arg.low])
  BY DEF MergeSucc
<1>2. /\ TypeOK /\ WellFormed /\ MergeInv /\ tree \subseteq Node
      /\ arg.low < arg.high /\ arg.low \in Nat /\ arg.high \in Nat
      /\ \A m \in Node : node[m].key \in Nat /\ node[m].high \in Nat
      /\ \A m \in tree : node[m].high = arg.low => m = pred
      /\ n \in tree
  BY <1>1, MergeBody
<1>3. node[n].key = arg.high /\ node[n].value = arg.val
  BY <1>1 DEF JoinsSucc
<1>4. PICK f \in [Node -> NodeFields] :
        /\ Return(tree, f)
        /\ \A m \in Node : /\ f[m].high = node[m].high /\ f[m].value = node[m].value
                           /\ m # n => f[m].key = node[m].key
        /\ f[n].key = arg.low
  <2>1. [node EXCEPT ![n].key = arg.low] \in [Node -> NodeFields]
    BY <1>2 DEF TypeOK, NodeFields
  <2> QED
    BY <1>1, <1>2, <2>1 DEF TypeOK, NodeFields
<1>5. \A m \in tree : f[m].key < f[m].high /\ f[m].value \in Value
  BY <1>2, <1>3, <1>4 DEF WellFormed, NonEmpty
<1>6. \A m \in tree : m # n => \/ node[m].high <= arg.low
                              \/ node[n].high <= node[m].key
  BY <1>2, <1>3 DEF MergeInv, WellFormed, NonEmpty, Disjoint
<1>7. \A m, k \in tree : m # k => f[m].high <= f[k].key \/ f[k].high <= f[m].key
  BY <1>2, <1>4, <1>6 DEF WellFormed, Disjoint
<1>8. ASSUME NEW m \in tree, node[m].high = arg.low PROVE node[m].value # arg.val
  <2>1. m = pred /\ pred # NoNode
    BY <1>2, <1>8, NoNodeAssumption
  <2> QED
    BY <1>1, <1>8, <2>1 DEF JoinsPred
<1>9. \A m, k \in tree : f[m].high = f[k].key => f[m].value # f[k].value
  BY <1>2, <1>3, <1>4, <1>8 DEF WellFormed, Canonical
<1> QED
  BY <1>2, <1>4, <1>5, <1>7, <1>9, ReturnInv

\* Adding a node when nothing can be extended (imap.go:97-99).
LEMMA NewNodeInv == ASSUME IInv, NewNode PROVE IInv'
<1>1. pc = "merge" /\ ~ JoinsPred /\ ~ JoinsSucc
  BY DEF NewNode
<1>2. /\ TypeOK /\ WellFormed /\ MergeInv /\ tree \subseteq Node
      /\ arg.low < arg.high /\ arg.val \in Value
      /\ arg.low \in Nat /\ arg.high \in Nat
      /\ \A m \in Node : node[m].key \in Nat /\ node[m].high \in Nat
      /\ \A m \in tree : node[m].high = arg.low => m = pred
  BY <1>1, MergeBody
<1>3. \A m \in tree : node[m].key # arg.low
  BY <1>2 DEF MergeInv, WellFormed, NonEmpty
<1>4. PICK new \in Node \ tree :
        Return(tree \cup {new},
               [node EXCEPT ![new] = Fields(arg.low, arg.high, arg.val)])
  BY <1>3 DEF NewNode, NodesFor
<1> DEFINE f == [node EXCEPT ![new] = Fields(arg.low, arg.high, arg.val)]
           t == tree \cup {new}
<1>5. /\ f \in [Node -> NodeFields]
      /\ \A m \in tree : f[m] = node[m]
      /\ f[new].key = arg.low /\ f[new].high = arg.high /\ f[new].value = arg.val
  BY <1>2 DEF TypeOK, NodeFields, Fields
<1>6. Return(t, f)
  BY <1>4
<1> HIDE DEF f
<1>7. \A m \in t : f[m].key < f[m].high /\ f[m].value \in Value
  BY <1>2, <1>5 DEF WellFormed, NonEmpty
<1>8. \A m, k \in t : m # k => f[m].high <= f[k].key \/ f[k].high <= f[m].key
  BY <1>2, <1>5 DEF WellFormed, Disjoint, MergeInv
<1>9. ASSUME NEW m \in tree
      PROVE  /\ node[m].high = arg.low => node[m].value # arg.val
             /\ node[m].key = arg.high => node[m].value # arg.val
  BY <1>1, <1>2, NoNodeAssumption DEF JoinsPred, JoinsSucc, MergeInv
<1>10. \A m, k \in t : f[m].high = f[k].key => f[m].value # f[k].value
  BY <1>2, <1>5, <1>9 DEF WellFormed, Canonical
<1> QED
  BY <1>2, <1>5, <1>6, <1>7, <1>8, <1>10, ReturnInv

\* The invariant holds in every state of every behaviour: the intervals stay
\* disjoint, non-empty and maximal through every step of every Insert.
THEOREM Invariance == Spec => []IInv
<1>1. IInv /\ [Next]_vars => IInv'
  <2> SUFFICES ASSUME IInv, [Next]_vars PROVE IInv'
    OBVIOUS
  <2>1. CASE \E low, high \in Addr, val \in Value : Insert(low, high, val)
    BY <2>1, InsertInv
  <2>2. CASE Step
    BY <2>2, TrimHighInv, TrimLowInv, SplitSameInv, SplitInv, CoverInv, LoopExitInv,
       MergePredInv, MergeSuccInv, NewNodeInv DEF Step
  <2>3. CASE UNCHANGED vars
    BY <2>3 DEF vars, IInv, TypeOK, WellFormed, NonEmpty, Disjoint, Canonical,
                CallInv, LoopInv, MergeInv
  <2> QED
    BY <2>1, <2>2, <2>3 DEF Next
<1> QED
  BY InitInv, <1>1, PTL DEF Spec

\* Every variable has its type: no key, high or argument leaves the addresses.
THEOREM AlwaysTypeOK == Spec => []TypeOK
<1>1. IInv => TypeOK
  BY DEF IInv
<1> QED
  BY <1>1, Invariance, PTL

\* The tree holds disjoint, non-empty intervals and abutting ones differ in
\* value, in the middle of an Insert too (imap.go:39-99).
THEOREM AlwaysWellFormed == Spec => []WellFormed
<1>1. IInv => WellFormed
  BY DEF IInv
<1> QED
  BY <1>1, Invariance, PTL

\* Insert never extends a node it has deleted: pred is still linked whenever
\* the merge goes on to assign its high (imap.go:80-90).
THEOREM AlwaysPredAlive == Spec => []PredAlive
<1>1. IInv => PredAlive
  BY MergeBody DEF PredAlive
<1> QED
  BY <1>1, Invariance, PTL

\* The tree's Insert is never asked for a key it holds, so that the node it
\* returns is a new one (imap.go:66, :98).
THEOREM AlwaysKeyFresh == Spec => []KeyFresh
<1>1. ASSUME IInv, AtOverlap, Lok, Hok, NEW m \in tree
      PROVE  node[m].key # Rest.above.low
  <2>1. TypeOK /\ WellFormed /\ tree \subseteq Node
    BY <1>1 DEF IInv, TypeOK
  <2>2. Rest.above.low = arg.high /\ arg.high < node[n].high
    BY <1>1, <2>1, RestOfN, LoopBody
  <2>3. n \in tree /\ node[n].key < arg.high
    BY <1>1, LoopBody
  <2> QED
    BY <2>1, <2>2, <2>3, Numbers DEF WellFormed, NonEmpty, Disjoint
<1>2. ASSUME IInv, pc = "merge", NEW m \in tree PROVE node[m].key # arg.low
  BY <1>2, MergeBody DEF MergeInv, WellFormed, NonEmpty
<1>3. IInv => KeyFresh
  BY <1>1, <1>2 DEF KeyFresh
<1> QED
  BY <1>3, Invariance, PTL

-----------------------------------------------------------------------------
(* Changing keys in place *)

\* Nodes that stay linked keep their order in the tree, whichever of them
\* have their keys assigned ("Order doesn't change", imap.go:51, :55, :93).
THEOREM AlwaysOrderStable == Spec => OrderStable
<1> DEFINE Stable == \A m, k \in tree \cap tree' :
             node[m].key < node[k].key => node'[m].key < node'[k].key
<1>1. ASSUME IInv, [Next]_vars PROVE Stable
  <2>1. TypeOK /\ WellFormed /\ tree \subseteq Node
    BY <1>1 DEF IInv, TypeOK
  <2>2. /\ \A m \in Node : node[m].key \in Nat /\ node[m].high \in Nat
        /\ arg.low \in Nat /\ arg.high \in Nat
    BY <2>1, Numbers
  <2>3. ASSUME \A m \in tree \cap tree' : node'[m].key = node[m].key PROVE Stable
    BY <2>3
  <2>4. CASE (\E low, high \in Addr, val \in Value : Insert(low, high, val))
             \/ Cover \/ LoopExit \/ UNCHANGED vars
    BY <2>3, <2>4 DEF Insert, Cover, LoopExit, vars
  <2>5. CASE TrimHigh
    BY <2>1, <2>3, <2>5 DEF TrimHigh, TypeOK, NodeFields
  <2>6. CASE TrimLow
    <3>1. AtOverlap /\ ~ Lok /\ Hok /\ tree' = tree
      BY <2>6 DEF TrimLow
    <3>2. /\ n \in tree /\ node[n].key < arg.high /\ arg.high < node[n].high
          /\ node' = [node EXCEPT ![n].key = arg.high]
      BY <1>1, <2>1, <2>6, <3>1, LoopBody, RestOfN DEF TrimLow
    <3>3. /\ \A m \in tree : m # n => node'[m].key = node[m].key
          /\ node'[n].key = arg.high
      BY <2>1, <3>2 DEF TypeOK, NodeFields
    <3> QED
      BY <2>1, <2>2, <3>1, <3>2, <3>3 DEF WellFormed, NonEmpty, Disjoint
  <2>7. CASE SplitSame
    <3>1. \A m \in tree \cap tree' : node'[m].key = node[m].key
      BY <2>1, <2>7 DEF SplitSame, Return
    <3> QED
      BY <2>3, <3>1
  <2>8. CASE Split
    <3>1. /\ AtOverlap /\ Lok /\ Hok
          /\ \E n2 \in NodesFor(arg.high) :
               node' = [node EXCEPT
                 ![n].high = Rest.below.high,
                 ![n2] = Fields(Rest.above.low, Rest.above.high, node[n].value)]
      BY <2>1, <2>8, RestOfN DEF Split
    <3>2. n \in tree /\ node[n].key < arg.high /\ arg.high < node[n].high
      BY <1>1, <3>1, LoopBody
    <3>3. \A m \in tree : node[m].key # arg.high
      BY <2>1, <2>2, <3>2 DEF WellFormed, NonEmpty, Disjoint
    <3>4. PICK n2 \in Node \ tree :
            node' = [node EXCEPT
              ![n].high = Rest.below.high,
              ![n2] = Fields(Rest.above.low, Rest.above.high, node[n].value)]
      BY <3>1, <3>3 DEF NodesFor
    <3>5. \A m \in tree : node'[m].key = node[m].key
      BY <2>1, <3>2, <3>4 DEF TypeOK, NodeFields
    <3> QED
      BY <2>3, <3>5
  <2>9. CASE MergePred
    <3>1. \A m \in tree \cap tree' : node'[m].key = node[m].key
      BY <2>1, <2>9 DEF MergePred, Return, TypeOK, NodeFields
    <3> QED
      BY <2>3, <3>1
  <2>10. CASE MergeSucc
    <3>1. pc = "merge" /\ JoinsSucc /\ Return(tree, [node EXCEPT ![n].key = arg.low])
      BY <2>10 DEF MergeSucc
    <3>2. /\ n \in tree /\ arg.low < arg.high /\ node[n].key = arg.high
          /\ \A m \in tree : node[m].high <= arg.low \/ arg.high <= node[m].key
      BY <1>1, <3>1, MergeBody DEF JoinsSucc, MergeInv
    <3>3. /\ \A m \in tree : m # n => node'[m].key = node[m].key
          /\ node'[n].key = arg.low /\ tree' = tree
      BY <2>1, <3>1, <3>2 DEF TypeOK, NodeFields, Return
    <3> QED
      BY <2>1, <2>2, <3>2, <3>3 DEF WellFormed, NonEmpty, Disjoint
  <2>11. CASE NewNode
    <3>1. pc = "merge"
      BY <2>11 DEF NewNode
    <3>2. \A m \in tree : node[m].key # arg.low
      BY <1>1, <3>1, MergeBody DEF MergeInv, WellFormed, NonEmpty
    <3>3. \A m \in tree \cap tree' : node'[m].key = node[m].key
      BY <2>1, <2>11, <3>2 DEF NewNode, NodesFor, Return, TypeOK, NodeFields
    <3> QED
      BY <2>3, <3>3
  <2> QED
    BY <1>1, <2>4, <2>5, <2>6, <2>7, <2>8, <2>9, <2>10, <2>11 DEF Next, Step
<1>2. IInv /\ [Next]_vars => [Stable]_vars
  BY <1>1
<1> QED
  BY <1>2, Invariance, PTL DEF Spec, OrderStable

-----------------------------------------------------------------------------
(* Reading values off a tree of disjoint intervals *)

\* Tree t with fields f holds disjoint intervals.
Separate(t, f) ==
  /\ \A m \in t : f[m].key \in Nat /\ f[m].high \in Nat
  /\ \A m, k \in t : m # k => f[m].high <= f[k].key \/ f[k].high <= f[m].key

\* The invariant's intervals are separate, in terms of the tree and its fields.
LEMMA TreeSeparate ==
  ASSUME IInv, IInv' PROVE Separate(tree, node) /\ Separate(tree', node')
<1>1. TypeOK /\ WellFormed /\ TypeOK' /\ WellFormed'
  BY DEF IInv
<1>2. \A m \in Node : node[m].key \in Nat /\ node[m].high \in Nat
  BY <1>1, Numbers
<1>3. \A m \in Node : node'[m].key \in Nat /\ node'[m].high \in Nat
  BY <1>1, MaxAddrAssumption DEF TypeOK, NodeFields, Addr
<1> QED
  BY <1>1, <1>2, <1>3 DEF TypeOK, WellFormed, Disjoint, Separate

\* An address inside an interval has that interval's value.
LEMMA ValueInside ==
  ASSUME NEW t, NEW f, Separate(t, f), NEW a \in Nat,
         NEW m \in t, Contains(f, m, a)
  PROVE  ValueIn(t, f, a) = f[m].value
<1> DEFINE c == CHOOSE k \in t : Contains(f, k, a)
<1>1. c \in t /\ Contains(f, c, a)
  OBVIOUS
<1> HIDE DEF c
<1>2. c = m
  BY <1>1 DEF Contains, Separate
<1> QED
  BY <1>2 DEF ValueIn, c

\* An address outside every interval has none.
LEMMA ValueOutside ==
  ASSUME NEW t, NEW f, NEW a, \A m \in t : ~ Contains(f, m, a)
  PROVE  ValueIn(t, f, a) = NoValue
BY DEF ValueIn

\* Two trees give an address the same value when the interval around it in
\* either has a counterpart in the other.
LEMMA SameValue ==
  ASSUME NEW t, NEW f, NEW u, NEW g, Separate(t, f), Separate(u, g), NEW a \in Nat,
         \A m \in t : Contains(f, m, a) =>
           \E k \in u : Contains(g, k, a) /\ g[k].value = f[m].value,
         \A k \in u : Contains(g, k, a) => \E m \in t : Contains(f, m, a)
  PROVE  ValueIn(u, g, a) = ValueIn(t, f, a)
<1>1. CASE \E m \in t : Contains(f, m, a)
  <2>1. PICK m \in t : Contains(f, m, a)
    BY <1>1
  <2>2. PICK k \in u : Contains(g, k, a) /\ g[k].value = f[m].value
    BY <2>1
  <2>3. ValueIn(t, f, a) = f[m].value
    BY <2>1, ValueInside
  <2>4. ValueIn(u, g, a) = g[k].value
    BY <2>2, ValueInside
  <2> QED
    BY <2>2, <2>3, <2>4
<1>2. CASE ~ \E m \in t : Contains(f, m, a)
  <2>1. ValueIn(t, f, a) = NoValue
    BY <1>2, ValueOutside
  <2>2. ValueIn(u, g, a) = NoValue
    BY <1>2, ValueOutside
  <2> QED
    BY <2>1, <2>2
<1> QED
  BY <1>1, <1>2

-----------------------------------------------------------------------------
(* The steps of Insert leave the abstract map alone *)

\* What n loses lies inside the new interval, which has its value already.
LEMMA TrimHighKeeps ==
  ASSUME IInv, IInv', TrimHigh, NEW a \in Addr PROVE AbsAt(a)' = AbsAt(a)
<1>1. /\ AtOverlap /\ Lok /\ ~ Hok /\ TypeOK /\ tree \subseteq Node
      /\ tree' = tree /\ arg' = arg /\ pc = "loop" /\ pc' = "loop" /\ a \in Nat
  BY Numbers DEF TrimHigh, AtOverlap, IInv, TypeOK
<1>2. /\ n \in tree /\ node[n].high <= arg.high /\ arg.low <= node[n].high
      /\ node' = [node EXCEPT ![n].high = arg.low]
  BY <1>1, LoopBody, RestOfN DEF TrimHigh
<1>3. /\ \A m \in tree : /\ node'[m].key = node[m].key
                         /\ node'[m].value = node[m].value
                         /\ m # n => node'[m].high = node[m].high
      /\ node'[n].high = arg.low
  BY <1>1, <1>2 DEF TypeOK, NodeFields
<1>4. CASE arg.low <= a /\ a < arg.high
  BY <1>1, <1>4 DEF AbsAt
<1>5. CASE ~ (arg.low <= a /\ a < arg.high)
  <2>1. \A m \in tree : Contains(node, m, a) <=> Contains(node', m, a)
    BY <1>1, <1>2, <1>3, <1>5, Numbers DEF Contains
  <2>2. \A m \in tree : Contains(node, m, a) =>
          \E k \in tree' : Contains(node', k, a) /\ node'[k].value = node[m].value
    BY <1>1, <1>3, <2>1
  <2>3. ValueIn(tree', node', a) = ValueIn(tree, node, a)
    BY <1>1, <2>1, <2>2, TreeSeparate, SameValue
  <2> QED
    BY <1>1, <1>5, <2>3 DEF AbsAt
<1> QED
  BY <1>4, <1>5

\* What n loses lies inside the new interval, which has its value already.
LEMMA TrimLowKeeps ==
  ASSUME IInv, IInv', TrimLow, NEW a \in Addr PROVE AbsAt(a)' = AbsAt(a)
<1>1. /\ AtOverlap /\ ~ Lok /\ Hok /\ TypeOK /\ tree \subseteq Node
      /\ tree' = tree /\ arg' = arg /\ pc = "loop" /\ pc' = "merge" /\ a \in Nat
  BY Numbers DEF TrimLow, AtOverlap, IInv, TypeOK
<1>2. /\ n \in tree /\ arg.low <= node[n].key /\ node[n].key < arg.high
      /\ node' = [node EXCEPT ![n].key = arg.high]
  BY <1>1, LoopBody, RestOfN DEF TrimLow
<1>3. /\ \A m \in tree : /\ node'[m].high = node[m].high
                         /\ node'[m].value = node[m].value
                         /\ m # n => node'[m].key = node[m].key
      /\ node'[n].key = arg.high
  BY <1>1, <1>2 DEF TypeOK, NodeFields
<1>4. CASE arg.low <= a /\ a < arg.high
  BY <1>1, <1>4 DEF AbsAt
<1>5. CASE ~ (arg.low <= a /\ a < arg.high)
  <2>1. \A m \in tree : Contains(node, m, a) <=> Contains(node', m, a)
    BY <1>1, <1>2, <1>3, <1>5, Numbers DEF Contains
  <2>2. \A m \in tree : Contains(node, m, a) =>
          \E k \in tree' : Contains(node', k, a) /\ node'[k].value = node[m].value
    BY <1>1, <1>3, <2>1
  <2>3. ValueIn(tree', node', a) = ValueIn(tree, node, a)
    BY <1>1, <2>1, <2>2, TreeSeparate, SameValue
  <2> QED
    BY <1>1, <1>5, <2>3 DEF AbsAt
<1> QED
  BY <1>4, <1>5

\* The deleted interval lies inside the new one, which has its value already.
LEMMA CoverKeeps ==
  ASSUME IInv, IInv', Cover, NEW a \in Addr PROVE AbsAt(a)' = AbsAt(a)
<1>1. /\ AtOverlap /\ ~ Lok /\ ~ Hok /\ TypeOK /\ tree \subseteq Node
      /\ tree' = tree \ {n} /\ node' = node /\ arg' = arg
      /\ pc = "loop" /\ pc' = "loop" /\ a \in Nat
  BY Numbers DEF Cover, AtOverlap, IInv, TypeOK
<1>2. n \in tree /\ arg.low <= node[n].key /\ node[n].high <= arg.high
  BY <1>1, LoopBody
<1>3. CASE arg.low <= a /\ a < arg.high
  BY <1>1, <1>3 DEF AbsAt
<1>4. CASE ~ (arg.low <= a /\ a < arg.high)
  <2>1. ~ Contains(node, n, a)
    BY <1>1, <1>2, <1>4, Numbers DEF Contains
  <2>2. ValueIn(tree', node', a) = ValueIn(tree, node, a)
    BY <1>1, <2>1, TreeSeparate, SameValue
  <2> QED
    BY <1>1, <1>4, <2>2 DEF AbsAt
<1> QED
  BY <1>3, <1>4

\* The two halves have the old value of n outside the new interval.
LEMMA SplitKeeps ==
  ASSUME IInv, IInv', Split, NEW a \in Addr PROVE AbsAt(a)' = AbsAt(a)
<1>1. /\ AtOverlap /\ Lok /\ Hok /\ TypeOK /\ tree \subseteq Node /\ WellFormed
      /\ arg' = arg /\ pc = "loop" /\ pc' = "merge" /\ a \in Nat
  BY Numbers DEF Split, AtOverlap, IInv, TypeOK
<1>2. /\ n \in tree /\ node[n].key < arg.low /\ arg.high < node[n].high
      /\ arg.low < arg.high /\ n \in Node
  BY <1>1, LoopBody DEF IInv, CallInv
<1>3. /\ \A m \in Node : node[m].key \in Nat /\ node[m].high \in Nat
      /\ arg.low \in Nat /\ arg.high \in Nat
  BY <1>1, Numbers
<1>4. \A m \in tree : node[m].key # arg.high
  BY <1>1, <1>2, <1>3 DEF WellFormed, NonEmpty, Disjoint
<1>5. PICK n2 \in Node \ tree :
        /\ tree' = tree \cup {n2}
        /\ node' = [node EXCEPT
             ![n].high = arg.low,
             ![n2] = Fields(arg.high, node[n].high, node[n].value)]
  BY <1>1, <1>4, RestOfN DEF Split, NodesFor
<1>6. /\ \A m \in tree : /\ node'[m].key = node[m].key
                         /\ node'[m].value = node[m].value
                         /\ m # n => node'[m].high = node[m].high
      /\ node'[n].high = arg.low
      /\ node'[n2].key = arg.high /\ node'[n2].high = node[n].high
      /\ node'[n2].value = node[n].value
      /\ tree' = tree \cup {n2}
  BY <1>1, <1>2, <1>5 DEF TypeOK, NodeFields, Fields
<1>7. CASE arg.low <= a /\ a < arg.high
  BY <1>1, <1>7 DEF AbsAt
<1>8. CASE ~ (arg.low <= a /\ a < arg.high)
  <2>1. \A m \in tree : m # n => (Contains(node, m, a) <=> Contains(node', m, a))
    BY <1>1, <1>6 DEF Contains
  <2>2. Contains(node, n, a) <=> Contains(node', n, a) \/ Contains(node', n2, a)
    BY <1>1, <1>2, <1>3, <1>6, <1>8 DEF Contains
  <2>3. \A m \in tree : Contains(node, m, a) =>
          \E k \in tree' : Contains(node', k, a) /\ node'[k].value = node[m].value
    BY <1>6, <2>1, <2>2
  <2>4. \A k \in tree' : Contains(node', k, a) => \E m \in tree : Contains(node, m, a)
    BY <1>2, <1>6, <2>1, <2>2
  <2>5. ValueIn(tree', node', a) = ValueIn(tree, node, a)
    BY <1>1, <2>3, <2>4, TreeSeparate, SameValue
  <2> QED
    BY <1>1, <1>8, <2>5 DEF AbsAt
<1> QED
  BY <1>7, <1>8

\* A call that returns from the merge leaves the abstract map alone if its
\* tree has the new value inside the new interval and the old ones outside.
LEMMA ReturnKeeps ==
  ASSUME IInv, IInv', pc # "idle", NEW t, NEW f, Return(t, f), NEW a \in Addr,
         arg.low <= a /\ a < arg.high =>
           \E m \in t : Contains(f, m, a) /\ f[m].value = arg.val,
         ~ (arg.low <= a /\ a < arg.high) =>
           /\ \A m \in tree : Contains(node, m, a) =>
                \E k \in t : Contains(f, k, a) /\ f[k].value = node[m].value
           /\ \A k \in t : Contains(f, k, a) =>
                \E m \in tree : Contains(node, m, a)
  PROVE  AbsAt(a)' = AbsAt(a)
<1>1. /\ tree' = t /\ pc' = "idle" /\ a \in Nat
      /\ \A m \in t : m \in Node => node'[m] = f[m]
  BY Numbers DEF Return, IInv
<1>2. \A m \in t : node'[m] = f[m]
  BY <1>1 DEF IInv, TypeOK
<1>3. AbsAt(a)' = ValueIn(tree', node', a)
  BY <1>1 DEF AbsAt
<1>4. Separate(tree, node) /\ Separate(tree', node')
  BY TreeSeparate
<1>5. CASE arg.low <= a /\ a < arg.high
  <2>1. PICK m \in t : Contains(f, m, a) /\ f[m].value = arg.val
    BY <1>5
  <2>2. m \in tree' /\ Contains(node', m, a) /\ node'[m].value = arg.val
    BY <1>1, <1>2, <2>1 DEF Contains
  <2>3. ValueIn(tree', node', a) = arg.val
    BY <1>1, <1>4, <2>2, ValueInside
  <2> QED
    BY <1>3, <1>5, <2>3 DEF AbsAt
<1>6. CASE ~ (arg.low <= a /\ a < arg.high)
  <2>1. \A m \in t : Contains(node', m, a) <=> Contains(f, m, a)
    BY <1>2 DEF Contains
  <2>2. ValueIn(tree', node', a) = ValueIn(tree, node, a)
    BY <1>1, <1>2, <1>4, <1>6, <2>1, SameValue
  <2> QED
    BY <1>3, <1>6, <2>2 DEF AbsAt
<1> QED
  BY <1>5, <1>6

\* Nothing changes, and the new interval had its value before.
LEMMA SplitSameKeeps ==
  ASSUME IInv, IInv', SplitSame, NEW a \in Addr PROVE AbsAt(a)' = AbsAt(a)
<1>1. /\ AtOverlap /\ Lok /\ Hok /\ TypeOK /\ pc = "loop"
      /\ node[n].value = arg.val /\ Return(tree, node) /\ a \in Nat
  BY Numbers DEF SplitSame, AtOverlap, IInv, TypeOK
<1>2. n \in tree /\ n \in Node /\ node[n].key < arg.low /\ arg.high < node[n].high
  BY <1>1, LoopBody
<1>3. arg.low <= a /\ a < arg.high => Contains(node, n, a)
  BY <1>1, <1>2, Numbers DEF Contains
<1> QED
  BY <1>1, <1>2, <1>3, ReturnKeeps

\* The extended pred covers the new interval, with its value, and no more.
LEMMA MergePredKeeps ==
  ASSUME IInv, IInv', MergePred, NEW a \in Addr PROVE AbsAt(a)' = AbsAt(a)
<1>1. pc = "merge" /\ JoinsPred /\ a \in Nat
  BY Numbers DEF MergePred, IInv
<1>2. /\ TypeOK /\ WellFormed /\ MergeInv /\ tree \subseteq Node
      /\ arg.low < arg.high /\ arg.low \in Nat /\ arg.high \in Nat
      /\ \A m \in Node : node[m].key \in Nat /\ node[m].high \in Nat
      /\ pred \in tree /\ pred # n
  BY <1>1, MergeBody
<1>3. node[pred].high = arg.low /\ node[pred].value = arg.val
  BY <1>1 DEF JoinsPred
<1>4. node[pred].key < arg.low
  BY <1>2, <1>3 DEF WellFormed, NonEmpty
<1>5. CASE JoinsSucc
  <2>1. /\ n \in tree /\ n \in Node
        /\ node[n].key = arg.high /\ node[n].value = arg.val
        /\ arg.high < node[n].high
    BY <1>1, <1>2, <1>5, MergeBody DEF JoinsSucc, WellFormed, NonEmpty
  <2>2. PICK f : f = [node EXCEPT ![pred].high = node[n].high]
    OBVIOUS
  <2>3. /\ Return(tree \ {n}, f)
        /\ \A m \in Node : /\ f[m].key = node[m].key
                           /\ f[m].value = node[m].value
                           /\ m # pred => f[m].high = node[m].high
        /\ f[pred].high = node[n].high
    BY <1>2, <1>5, <2>2 DEF MergePred, TypeOK, NodeFields
  <2>4. \A m \in tree : m # pred => (Contains(f, m, a) <=> Contains(node, m, a))
    BY <1>2, <2>3 DEF Contains
  <2>5. arg.low <= a /\ a < arg.high => Contains(f, pred, a)
    BY <1>1, <1>2, <1>4, <2>1, <2>3 DEF Contains
  <2>6. ~ (arg.low <= a /\ a < arg.high) =>
          (Contains(f, pred, a) <=> Contains(node, pred, a) \/ Contains(node, n, a))
    BY <1>1, <1>2, <1>3, <1>4, <2>1, <2>3 DEF Contains
  <2>7. f[pred].value = arg.val
    BY <1>2, <1>3, <2>3
  <2>8. ASSUME ~ (arg.low <= a /\ a < arg.high), NEW m \in tree, Contains(node, m, a)
        PROVE  \E k \in tree \ {n} : Contains(f, k, a) /\ f[k].value = node[m].value
    <3>1. CASE m = pred \/ m = n
      BY <1>2, <1>3, <2>1, <2>6, <2>7, <2>8, <3>1
    <3>2. CASE m # pred /\ m # n
      BY <1>2, <2>3, <2>4, <2>8, <3>2
    <3> QED
      BY <3>1, <3>2
  <2>9. ASSUME ~ (arg.low <= a /\ a < arg.high), NEW k \in tree \ {n}, Contains(f, k, a)
        PROVE  \E m \in tree : Contains(node, m, a)
    BY <1>2, <2>1, <2>4, <2>6, <2>9
  <2> QED
    BY <1>1, <1>2, <2>3, <2>5, <2>7, <2>8, <2>9, ReturnKeeps
<1>6. CASE ~ JoinsSucc
  <2>1. PICK f : f = [node EXCEPT ![pred].high = arg.high]
    OBVIOUS
  <2>2. /\ Return(tree, f)
        /\ \A m \in Node : /\ f[m].key = node[m].key
                           /\ f[m].value = node[m].value
                           /\ m # pred => f[m].high = node[m].high
        /\ f[pred].high = arg.high
    BY <1>2, <1>6, <2>1 DEF MergePred, TypeOK, NodeFields
  <2>3. \A m \in tree : m # pred => (Contains(f, m, a) <=> Contains(node, m, a))
    BY <1>2, <2>2 DEF Contains
  <2>4. arg.low <= a /\ a < arg.high => Contains(f, pred, a)
    BY <1>1, <1>2, <1>4, <2>2 DEF Contains
  <2>5. ~ (arg.low <= a /\ a < arg.high) =>
          (Contains(f, pred, a) <=> Contains(node, pred, a))
    BY <1>1, <1>2, <1>3, <1>4, <2>2 DEF Contains
  <2>6. f[pred].value = arg.val
    BY <1>2, <1>3, <2>2
  <2>7. ASSUME ~ (arg.low <= a /\ a < arg.high), NEW m \in tree
        PROVE  /\ Contains(f, m, a) <=> Contains(node, m, a)
               /\ f[m].value = node[m].value
    BY <1>2, <2>2, <2>3, <2>5, <2>7
  <2> QED
    BY <1>1, <1>2, <2>2, <2>4, <2>6, <2>7, ReturnKeeps
<1> QED
  BY <1>5, <1>6

\* The extended n covers the new interval, with its value, and no more.
LEMMA MergeSuccKeeps ==
  ASSUME IInv, IInv', MergeSucc, NEW a \in Addr PROVE AbsAt(a)' = AbsAt(a)
<1>1. pc = "merge" /\ JoinsSucc /\ a \in Nat
  BY Numbers DEF MergeSucc, IInv
<1>2. /\ TypeOK /\ WellFormed /\ tree \subseteq Node
      /\ arg.low < arg.high /\ arg.low \in Nat /\ arg.high \in Nat
      /\ \A m \in Node : node[m].key \in Nat /\ node[m].high \in Nat
      /\ n \in tree
  BY <1>1, MergeBody
<1>3. /\ node[n].key = arg.high /\ node[n].value = arg.val
      /\ arg.high < node[n].high
  BY <1>1, <1>2 DEF JoinsSucc, WellFormed, NonEmpty
<1>4. PICK f : f = [node EXCEPT ![n].key = arg.low]
  OBVIOUS
<1>5. /\ Return(tree, f)
      /\ \A m \in Node : /\ f[m].high = node[m].high
                         /\ f[m].value = node[m].value
                         /\ m # n => f[m].key = node[m].key
      /\ f[n].key = arg.low
  BY <1>2, <1>4 DEF MergeSucc, TypeOK, NodeFields
<1>6. \A m \in tree : m # n => (Contains(f, m, a) <=> Contains(node, m, a))
  BY <1>2, <1>5 DEF Contains
<1>7. arg.low <= a /\ a < arg.high => Contains(f, n, a)
  BY <1>1, <1>2, <1>3, <1>5 DEF Contains
<1>8. ~ (arg.low <= a /\ a < arg.high) => (Contains(f, n, a) <=> Contains(node, n, a))
  BY <1>1, <1>2, <1>3, <1>5 DEF Contains
<1>9. f[n].value = arg.val
  BY <1>2, <1>3, <1>5
<1>10. ASSUME ~ (arg.low <= a /\ a < arg.high), NEW m \in tree
       PROVE  /\ Contains(f, m, a) <=> Contains(node, m, a)
              /\ f[m].value = node[m].value
  BY <1>2, <1>5, <1>6, <1>8, <1>10
<1> QED
  BY <1>1, <1>2, <1>5, <1>7, <1>9, <1>10, ReturnKeeps

\* The new node covers the new interval, with its value, and no more.
LEMMA NewNodeKeeps ==
  ASSUME IInv, IInv', NewNode, NEW a \in Addr PROVE AbsAt(a)' = AbsAt(a)
<1>1. pc = "merge" /\ a \in Nat
  BY Numbers DEF NewNode, IInv
<1>2. /\ TypeOK /\ WellFormed /\ MergeInv /\ tree \subseteq Node
      /\ arg.low < arg.high /\ arg.low \in Nat /\ arg.high \in Nat
      /\ \A m \in Node : node[m].key \in Nat /\ node[m].high \in Nat
  BY <1>1, MergeBody
<1>3. \A m \in tree : node[m].key # arg.low
  BY <1>2 DEF MergeInv, WellFormed, NonEmpty
<1>4. PICK new \in Node \ tree :
        Return(tree \cup {new},
               [node EXCEPT ![new] = Fields(arg.low, arg.high, arg.val)])
  BY <1>3 DEF NewNode, NodesFor
<1>5. PICK f : f = [node EXCEPT ![new] = Fields(arg.low, arg.high, arg.val)]
  OBVIOUS
<1>6. /\ Return(tree \cup {new}, f)
      /\ \A m \in tree : f[m] = node[m]
      /\ f[new].key = arg.low /\ f[new].high = arg.high /\ f[new].value = arg.val
  BY <1>2, <1>4, <1>5 DEF TypeOK, NodeFields, Fields
<1>7. \A m \in tree : Contains(f, m, a) <=> Contains(node, m, a)
  BY <1>6 DEF Contains
<1>8. Contains(f, new, a) <=> arg.low <= a /\ a < arg.high
  BY <1>6 DEF Contains
<1> QED
  BY <1>1, <1>6, <1>7, <1>8, ReturnKeeps

\* Every behaviour of Insert's steps is a behaviour of the abstract map: an
\* Insert gives its interval its value the moment it is called, and nothing
\* it then does to the tree changes the value of an address (imap.go:25-100).
THEOREM ImplementsIntervalMap == Spec => Refinement
<1>1. Init => IM!Init
  <2>1. ASSUME Init, NEW a \in Addr PROVE AbsAt(a) = NoValue
    BY <2>1, ValueOutside DEF Init, AbsAt
  <2> QED
    BY <2>1 DEF IM!Init, IM!Addr, IM!NoCall, Abs, Addr, Call, NoArg, Init
<1>2. ASSUME IInv, IInv', NEW low \in Addr, NEW high \in Addr, NEW val \in Value,
             Insert(low, high, val)
      PROVE  IM!Next
  <2>1. /\ pc = "idle" /\ pc' = "loop" /\ tree' = tree /\ node' = node
        /\ arg' = [low |-> low, high |-> high, val |-> val] /\ low < high
    BY <1>2, MaxAddrAssumption DEF Insert, Empty, Addr
  <2>2. ASSUME NEW a \in Addr
        PROVE  AbsAt(a)' = IF low <= a /\ a < high THEN val ELSE AbsAt(a)
    BY <2>1 DEF AbsAt
  <2>3. Abs' = [a \in Addr |-> IF low <= a /\ a < high THEN val ELSE Abs[a]]
    BY <2>2 DEF Abs
  <2>4. Call = NoArg /\ Call' = [low |-> low, high |-> high, val |-> val]
    BY <2>1 DEF Call
  <2>5. IM!Insert(low, high, val)
    BY <2>1, <2>3, <2>4 DEF IM!Insert, IM!NoCall, IM!Addr, Addr, NoArg
  <2> QED
    BY <1>2, <2>5 DEF IM!Next, IM!Addr, Addr
<1>3. ASSUME IInv, IInv', Step PROVE Abs' = Abs
  <2>1. ASSUME NEW a \in Addr PROVE AbsAt(a)' = AbsAt(a)
    <3>1. CASE LoopExit
      BY <3>1 DEF LoopExit, AbsAt
    <3> QED
      BY <1>3, <3>1, TrimHighKeeps, TrimLowKeeps, SplitSameKeeps, SplitKeeps,
         CoverKeeps, MergePredKeeps, MergeSuccKeeps, NewNodeKeeps DEF Step
  <2> QED
    BY <2>1 DEF Abs
<1>4. ASSUME IInv, Step PROVE Call' = Call \/ (Call # NoArg /\ Call' = NoArg)
  <2>1. pc # "idle" /\ Call = arg
    BY <1>4 DEF Step, AtOverlap, TrimHigh, TrimLow, SplitSame, Split, Cover,
                LoopExit, MergePred, MergeSucc, NewNode, Call
  <2>2. arg # NoArg
    BY <1>4, <2>1 DEF IInv, CallInv, NoArg
  <2>3. (arg' = arg /\ pc' # "idle") \/ pc' = "idle"
    BY <1>4, <2>1 DEF Step, TrimHigh, TrimLow, SplitSame, Split, Cover,
                      LoopExit, MergePred, MergeSucc, NewNode, Return
  <2> QED
    BY <2>1, <2>2, <2>3 DEF Call
<1>5. IInv /\ IInv' /\ [Next]_vars => [IM!Next]_<<Abs, Call>>
  <2>1. ASSUME UNCHANGED vars PROVE Abs' = Abs /\ Call' = Call
    BY <2>1 DEF vars, Abs, AbsAt, Call
  <2>2. NoArg = IM!NoCall
    BY DEF NoArg, IM!NoCall
  <2> QED
    BY <1>2, <1>3, <1>4, <2>1, <2>2 DEF Next, IM!Next, IM!Return
<1> QED
  BY <1>1, <1>5, Invariance, PTL DEF Spec, Refinement, IM!Spec

-----------------------------------------------------------------------------
(* Find *)

\* Find's node contains the address if any node does.
LEMMA FindSearches ==
  ASSUME IInv, NEW a \in Addr
  PROVE  LET m == IterStart(a)
         IN  IF m # NoNode /\ node[m].key <= a
             THEN m \in tree /\ Contains(node, m, a)
             ELSE \A k \in tree : ~ Contains(node, k, a)
<1> DEFINE S == {m \in tree : a < node[m].high}
           m == IterStart(a)
<1>1. /\ TypeOK /\ tree \subseteq Node /\ a \in Nat
      /\ \A k \in Node : node[k].key \in Nat /\ node[k].high \in Nat
  BY Numbers DEF IInv, TypeOK
<1>2. CASE S = {}
  <2>1. m = NoNode
    BY <1>1, <1>2, FirstOfEmpty DEF IterStart
  <2> QED
    BY <1>2, <2>1 DEF Contains
<1>3. CASE S # {}
  <2>1. m \in S /\ \A k \in S : node[m].key <= node[k].key
    BY <1>1, <1>3, FirstIsLeast DEF IterStart, TypeOK
  <2>2. m # NoNode
    BY <1>1, <2>1, NoNodeAssumption
  <2>3. CASE node[m].key <= a
    BY <2>1, <2>2, <2>3 DEF Contains
  <2>4. CASE ~ (node[m].key <= a)
    BY <1>1, <2>1, <2>4 DEF Contains
  <2> QED
    BY <2>2, <2>3, <2>4
<1> QED
  BY <1>2, <1>3

\* The intervals that touch m's ends hold other values.
LEMMA NeighboursDiffer ==
  ASSUME IInv, NEW m \in tree, NEW b \in Addr,
         b + 1 = node[m].key \/ b = node[m].high
  PROVE  ValueIn(tree, node, b) # node[m].value
<1>1. /\ TypeOK /\ WellFormed /\ tree \subseteq Node /\ b \in Nat
      /\ \A k \in Node : node[k].key \in Nat /\ node[k].high \in Nat
  BY Numbers DEF IInv, TypeOK
<1>2. Separate(tree, node)
  BY <1>1 DEF Separate, WellFormed, Disjoint
<1>3. CASE \E k \in tree : Contains(node, k, b)
  <2>1. PICK k \in tree : Contains(node, k, b)
    BY <1>3
  <2>2. ValueIn(tree, node, b) = node[k].value
    BY <1>1, <1>2, <2>1, ValueInside
  <2>3. k # m
    BY <1>1, <2>1 DEF Contains
  <2>4. node[k].high = node[m].key \/ node[m].high = node[k].key
    BY <1>1, <2>1, <2>3 DEF WellFormed, NonEmpty, Disjoint, Contains
  <2> QED
    BY <1>1, <2>2, <2>4 DEF WellFormed, Canonical
<1>4. CASE ~ \E k \in tree : Contains(node, k, b)
  <2>1. ValueIn(tree, node, b) = NoValue
    BY <1>4, ValueOutside
  <2> QED
    BY <1>1, <2>1, NoValueAssumption DEF WellFormed, NonEmpty
<1> QED
  BY <1>3, <1>4

\* Between calls Find reports the value of an address in the abstract map and
\* the whole run of addresses around it that share it (imap.go:102-113).
THEOREM AlwaysFindMaximal == Spec => []FindMaximal
<1>1. ASSUME IInv, pc = "idle", NEW a \in Addr
      PROVE  LET f == Find(a)
             IN /\ f.value = Abs[a]
                /\ f.value # NoValue =>
                     /\ f.key.low <= a /\ a < f.key.high
                     /\ \A b \in Addr :
                          f.key.low <= b /\ b < f.key.high => Abs[b] = f.value
                     /\ \A b \in Addr :
                          b + 1 = f.key.low \/ b = f.key.high => Abs[b] # f.value
  <2> DEFINE m == IterStart(a)
  <2>1. \A b \in Addr : Abs[b] = ValueIn(tree, node, b) /\ b \in Nat
    BY <1>1, Numbers DEF Abs, AbsAt, IInv
  <2>2. Separate(tree, node)
    BY <1>1, Numbers DEF Separate, IInv, TypeOK, WellFormed, Disjoint
  <2>3. CASE m # NoNode /\ node[m].key <= a
    <3>1. m \in tree /\ Contains(node, m, a)
      BY <1>1, <2>3, FindSearches
    <3>2. Find(a) = [key |-> [low |-> node[m].key, high |-> node[m].high],
                     value |-> node[m].value]
      BY <2>3 DEF Find, Interval
    <3> HIDE DEF m
    <3>3. \A b \in Addr : Contains(node, m, b) => Abs[b] = node[m].value
      BY <2>1, <2>2, <3>1, ValueInside
    <3>4. \A b \in Addr :
            b + 1 = node[m].key \/ b = node[m].high => Abs[b] # node[m].value
      BY <1>1, <2>1, <3>1, NeighboursDiffer
    <3> QED
      BY <1>1, <3>1, <3>2, <3>3, <3>4 DEF Contains
  <2>4. CASE ~ (m # NoNode /\ node[m].key <= a)
    <3>1. \A k \in tree : ~ Contains(node, k, a)
      BY <1>1, <2>4, FindSearches
    <3>2. Find(a).value = NoValue
      BY <2>4 DEF Find
    <3> QED
      BY <1>1, <2>1, <3>1, <3>2, ValueOutside
  <2> QED
    BY <2>3, <2>4
<1>2. IInv => FindMaximal
  BY <1>1 DEF FindMaximal
<1> QED
  BY <1>2, Invariance, PTL
=============================================================================
