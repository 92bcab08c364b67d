------------------------------- MODULE AvlTrees ------------------------------
(***************************************************************************)
(* Lemmas for the theorems about Avl, for every range of keys: what is so  *)
(* of the trees, heaps and operators that it is built from, whatever the   *)
(* calls.                                                                  *)
(*                                                                         *)
(* The first half is about trees as such: functions from nodes to nodes.   *)
(* What is so of left and right is so of right and left in the opposite    *)
(* order, and is stated once, of an order and two functions.               *)
(***************************************************************************)
EXTENDS Avl, TLAPS, FiniteSetTheorems, WellFoundedInduction

-----------------------------------------------------------------------------
(* Numbers *)

\* A non-empty set of naturals has a least element.
LEMMA LeastNat ==
  ASSUME NEW S \in SUBSET Nat, S # {}
  PROVE  \E x \in S : \A y \in S : x <= y
<1> DEFINE R == {p \in Nat \X Nat : p[1] < p[2]}
<1>1. IsWellFoundedOn(R, Nat)
  BY NatLessThanWellFounded DEF OpToRel
<1>2. PICK x \in S : \A y \in S : ~ (<<y, x>> \in R)
  BY <1>1, WFMin
<1>3. ASSUME NEW y \in S PROVE x <= y
  <2>1. x \in Nat /\ y \in Nat
    OBVIOUS
  <2>2. ~ (y < x)
    BY <1>2, <2>1
  <2> QED
    BY <2>1, <2>2
<1> QED
  BY <1>3

LEMMA NodeFacts == Nil \notin Node /\ Node \in SUBSET Nat /\ Nil \in Pointer /\ Node \subseteq Pointer
BY MaxKeyAssumption DEF Node, Nil, Pointer

\* The greater of two numbers.
LEMMA MaxOfTwo ==
  ASSUME NEW a \in Int, NEW b \in Int
  PROVE  Max({a, b}) = IF a > b THEN a ELSE b
<1>1. PICK x \in {a, b} : \A y \in {a, b} : x >= y
  OBVIOUS
<1>2. Max({a, b}) \in {a, b} /\ \A y \in {a, b} : Max({a, b}) >= y
  BY <1>1 DEF Max
<1> QED
  BY <1>2

-----------------------------------------------------------------------------
(* Orders *)

\* ord[a] is what comes after a, in a total order of the nodes.
IsOrder(ord) ==
  /\ ord \in [Node -> SUBSET Node]
  /\ \A a \in Node : a \notin ord[a] /\ \A b \in ord[a] : ord[b] \subseteq ord[a]
  /\ \A S \in SUBSET Node : S # {} => \E v \in S : \A x \in S : x = v \/ x \in ord[v]

Greater == [a \in Node |-> {b \in Node : a < b}]
Smaller == [a \in Node |-> {b \in Node : b < a}]

\* The first node of a set in an order, if there is one.
First(ord, S) == IF S = {} THEN Nil ELSE CHOOSE v \in S : \A x \in S : x = v \/ x \in ord[v]

LEMMA GreaterIsOrder == IsOrder(Greater)
<1>1. ASSUME NEW S \in SUBSET Node, S # {}
      PROVE  \E v \in S : \A x \in S : x = v \/ x \in Greater[v]
  <2>1. PICK v \in S : \A x \in S : v <= x
    BY <1>1, NodeFacts, LeastNat
  <2> QED
    BY <2>1, NodeFacts DEF Greater
<1>2. /\ Greater \in [Node -> SUBSET Node]
      /\ \A a, b \in Node : b \in Greater[a] <=> a < b
  BY DEF Greater
<1>3. ASSUME NEW a \in Node PROVE a \notin Greater[a] /\ \A b \in Greater[a] : Greater[b] \subseteq Greater[a]
  <2>1. a \notin Greater[a]
    BY <1>2, NodeFacts
  <2>2. ASSUME NEW b \in Greater[a], NEW c \in Greater[b] PROVE c \in Greater[a]
    <3>1. a \in Nat /\ b \in Node /\ c \in Node /\ b \in Nat /\ c \in Nat
      BY <1>2, NodeFacts
    <3>2. a < b /\ b < c
      BY <1>2, <3>1
    <3>3. a < c
      BY <3>1, <3>2
    <3> QED
      BY <1>2, <3>1, <3>3
  <2> QED
    BY <2>1, <2>2
<1> QED
  BY <1>1, <1>2, <1>3 DEF IsOrder

LEMMA SmallerIsOrder == IsOrder(Smaller)
<1>1. ASSUME NEW S \in SUBSET Node, S # {}
      PROVE  \E v \in S : \A x \in S : x = v \/ x \in Smaller[v]
  <2> DEFINE T == {MaxKey - x : x \in S}
  <2>1. T \in SUBSET Nat /\ T # {}
    <3>1. \A x \in Node : MaxKey - x \in Nat
      BY MaxKeyAssumption DEF Node
    <3> QED
      BY <1>1, <3>1
  <2>2. PICK u \in T : \A y \in T : u <= y
    BY <2>1, LeastNat
  <2>3. PICK v \in S : u = MaxKey - v
    BY <2>2
  <2>4. ASSUME NEW x \in S PROVE x <= v
    <3>1. MaxKey - v <= MaxKey - x
      BY <2>2, <2>3
    <3> QED
      BY <3>1, MaxKeyAssumption DEF Node
  <2>5. ASSUME NEW x \in S PROVE x = v \/ x \in Smaller[v]
    <3>1. x \in Node /\ v \in Node /\ x \in Nat /\ v \in Nat /\ x <= v
      BY <2>4, NodeFacts
    <3>2. x = v \/ x < v
      BY <3>1
    <3> QED
      BY <3>1, <3>2 DEF Smaller
  <2> QED
    BY <2>5
<1>2. /\ Smaller \in [Node -> SUBSET Node]
      /\ \A a, b \in Node : b \in Smaller[a] <=> b < a
  BY DEF Smaller
<1>3. ASSUME NEW a \in Node PROVE a \notin Smaller[a] /\ \A b \in Smaller[a] : Smaller[b] \subseteq Smaller[a]
  <2>1. a \notin Smaller[a]
    BY <1>2, NodeFacts
  <2>2. ASSUME NEW b \in Smaller[a], NEW c \in Smaller[b] PROVE c \in Smaller[a]
    <3>1. a \in Nat /\ b \in Node /\ c \in Node /\ b \in Nat /\ c \in Nat
      BY <1>2, NodeFacts
    <3>2. b < a /\ c < b
      BY <1>2, <3>1
    <3>3. c < a
      BY <3>1, <3>2
    <3> QED
      BY <1>2, <3>1, <3>3
  <2> QED
    BY <2>1, <2>2
<1> QED
  BY <1>1, <1>2, <1>3 DEF IsOrder

\* Two nodes come one after the other, and not the other way round too.
LEMMA OrderFacts ==
  ASSUME NEW ord, IsOrder(ord), NEW a \in Node, NEW b \in Node, a # b
  PROVE  /\ a \in ord[b] \/ b \in ord[a]
         /\ ~ (a \in ord[b] /\ b \in ord[a])
<1>1. {a, b} \in SUBSET Node /\ {a, b} # {}
  OBVIOUS
<1>2. \E v \in {a, b} : \A x \in {a, b} : x = v \/ x \in ord[v]
  BY <1>1 DEF IsOrder
<1> QED
  BY <1>2 DEF IsOrder

LEMMA FirstFacts ==
  ASSUME NEW ord, IsOrder(ord), NEW S \in SUBSET Node
  PROVE  /\ S = {} => First(ord, S) = Nil
         /\ S # {} => /\ First(ord, S) \in S
                      /\ \A x \in S : x = First(ord, S) \/ x \in ord[First(ord, S)]
         /\ \A v \in S : (\A x \in S : x = v \/ x \in ord[v]) => v = First(ord, S)
<1>1. S = {} => First(ord, S) = Nil
  BY DEF First
<1>2. ASSUME S # {}
      PROVE  /\ First(ord, S) \in S
             /\ \A x \in S : x = First(ord, S) \/ x \in ord[First(ord, S)]
  <2>1. \E v \in S : \A x \in S : x = v \/ x \in ord[v]
    BY <1>2 DEF IsOrder
  <2> QED
    BY <2>1, <1>2 DEF First
<1>3. ASSUME NEW v \in S, \A x \in S : x = v \/ x \in ord[v] PROVE v = First(ord, S)
  BY <1>2, <1>3, OrderFacts
<1> QED
  BY <1>1, <1>2, <1>3

-----------------------------------------------------------------------------
(* Trees *)

\* f is what each node leads to by lf and rt: first, in the order, what it leads to
\* by lf, then the node, then what it leads to by rt.
IsTree(lf, rt, f, ord) ==
  /\ lf \in [Node -> Pointer] /\ rt \in [Node -> Pointer]
  /\ f \in [Pointer -> SUBSET Node] /\ f[Nil] = {}
  /\ \A m \in Node : /\ f[m] = {m} \cup f[lf[m]] \cup f[rt[m]]
                     /\ \A k \in f[lf[m]] : m \in ord[k]
                     /\ f[rt[m]] \subseteq ord[m]

LEMMA TreeFacts ==
  ASSUME NEW ord, IsOrder(ord), NEW lf, NEW rt, NEW f, IsTree(lf, rt, f, ord),
         NEW m \in Node
  PROVE  /\ lf[m] \in Pointer /\ rt[m] \in Pointer
         /\ f[m] \in SUBSET Node /\ f[lf[m]] \in SUBSET Node /\ f[rt[m]] \in SUBSET Node
         /\ f[m] = {m} \cup f[lf[m]] \cup f[rt[m]]
         /\ m \in f[m] /\ m \notin f[lf[m]] /\ m \notin f[rt[m]]
         /\ f[lf[m]] \cap f[rt[m]] = {}
         /\ lf[m] # m /\ rt[m] # m
         /\ lf[m] # Nil => lf[m] \in f[lf[m]] /\ lf[m] # rt[m]
         /\ rt[m] # Nil => rt[m] \in f[rt[m]]
<1>1. /\ lf[m] \in Pointer /\ rt[m] \in Pointer
      /\ f[m] \in SUBSET Node /\ f[lf[m]] \in SUBSET Node /\ f[rt[m]] \in SUBSET Node
  BY DEF IsTree, Pointer
<1>2. /\ f[m] = {m} \cup f[lf[m]] \cup f[rt[m]]
      /\ \A k \in f[lf[m]] : m \in ord[k]
      /\ f[rt[m]] \subseteq ord[m]
  BY DEF IsTree
<1>3. m \notin f[lf[m]] /\ m \notin f[rt[m]]
  BY <1>1, <1>2 DEF IsOrder
<1>4. f[lf[m]] \cap f[rt[m]] = {}
  BY <1>1, <1>2, OrderFacts, <1>3
<1>5. \A c \in Node : c \in f[c]
  BY DEF IsTree
<1>6. \A c \in Pointer : c # Nil => c \in f[c]
  BY <1>5 DEF Pointer
<1>7. m # Nil
  BY NodeFacts
<1> QED
  BY <1>1, <1>2, <1>3, <1>4, <1>6, <1>7

\* A node leads to more nodes than its children.
LEMMA TreeSizes ==
  ASSUME NEW ord, IsOrder(ord), NEW lf, NEW rt, NEW f, IsTree(lf, rt, f, ord),
         NEW m \in Node
  PROVE  /\ IsFiniteSet(f[m]) /\ Cardinality(f[m]) \in Nat
         /\ Cardinality(f[lf[m]]) \in Nat /\ Cardinality(f[lf[m]]) < Cardinality(f[m])
         /\ Cardinality(f[rt[m]]) \in Nat /\ Cardinality(f[rt[m]]) < Cardinality(f[m])
<1>1. /\ IsFiniteSet(Node)
  BY FS_Interval, MaxKeyAssumption DEF Node
<1>2. \A S \in SUBSET Node : IsFiniteSet(S) /\ Cardinality(S) \in Nat
  BY <1>1, FS_Subset, FS_CardinalityType
<1>3. ASSUME NEW c \in {lf[m], rt[m]} PROVE Cardinality(f[c]) < Cardinality(f[m])
  <2>1. f[c] \in SUBSET f[m] /\ f[c] # f[m] /\ f[m] \in SUBSET Node /\ f[c] \in SUBSET Node
    BY TreeFacts
  <2>2. IsFiniteSet(f[m]) /\ Cardinality(f[m]) \in Nat /\ Cardinality(f[c]) \in Nat
    BY <1>2, <2>1
  <2>3. Cardinality(f[c]) <= Cardinality(f[m]) /\ Cardinality(f[c]) # Cardinality(f[m])
    BY <2>1, <2>2, FS_Subset
  <2> QED
    BY <2>2, <2>3
<1> QED
  BY <1>2, <1>3, TreeFacts

\* Induction over the nodes, from the leaves up: of a set of nodes some node has no
\* child in the set.
LEMMA LowestNode ==
  ASSUME NEW ord, IsOrder(ord), NEW lf, NEW rt, NEW f, IsTree(lf, rt, f, ord),
         NEW S \in SUBSET Node, S # {}
  PROVE  \E x \in S : lf[x] \notin S /\ rt[x] \notin S
<1> DEFINE T == {Cardinality(f[x]) : x \in S}
<1>1. T \in SUBSET Nat /\ T # {}
  BY TreeSizes
<1>2. PICK u \in T : \A y \in T : u <= y
  BY <1>1, LeastNat
<1>3. PICK x \in S : u = Cardinality(f[x])
  BY <1>2
<1>4. ASSUME NEW c \in {lf[x], rt[x]}, c \in S PROVE FALSE
  <2>1. Cardinality(f[c]) \in Nat /\ Cardinality(f[x]) \in Nat /\ Cardinality(f[c]) < Cardinality(f[x])
    BY TreeSizes
  <2>2. u <= Cardinality(f[c])
    BY <1>2, <1>4
  <2> QED
    BY <1>3, <2>1, <2>2
<1> QED
  BY <1>4

\* What a node leads to leads nowhere else.
LEMMA Transitive ==
  ASSUME NEW ord, IsOrder(ord), NEW lf, NEW rt, NEW f, IsTree(lf, rt, f, ord),
         NEW x \in Node, NEW y \in f[x]
  PROVE  f[y] \subseteq f[x]
<1> DEFINE S == {z \in Node : \E w \in f[z] : ~ (f[w] \subseteq f[z])}
<1>0. S \in SUBSET Node /\ \A z \in Node : z \in S <=> \E w \in f[z] : ~ (f[w] \subseteq f[z])
  OBVIOUS
<1> HIDE DEF S
<1>1. ASSUME S # {} PROVE FALSE
  <2>1. PICK z \in S : lf[z] \notin S /\ rt[z] \notin S
    BY <1>0, <1>1, LowestNode
  <2>2. PICK w \in f[z] : ~ (f[w] \subseteq f[z])
    BY <1>0
  <2>3. f[z] = {z} \cup f[lf[z]] \cup f[rt[z]] /\ lf[z] \in Pointer /\ rt[z] \in Pointer
    BY <1>0, TreeFacts
  <2>4. PICK c \in {lf[z], rt[z]} : w \in f[c]
    BY <2>2, <2>3
  <2>5. c \in Node
    BY <2>3, <2>4 DEF Pointer, IsTree
  <2>6. f[w] \subseteq f[c]
    BY <1>0, <2>1, <2>4, <2>5
  <2> QED
    BY <2>2, <2>3, <2>4, <2>6
<1> QED
  BY <1>0, <1>1

\* The equation of Subtrees has one solution.
LEMMA OneSolution ==
  ASSUME NEW ord, IsOrder(ord), NEW lf, NEW rt, NEW f, IsTree(lf, rt, f, ord),
         NEW g, g = [m \in Pointer |-> IF m = Nil THEN {}
                                       ELSE {m} \cup g[lf[m]] \cup g[rt[m]]]
  PROVE  g = f
<1> DEFINE S == {m \in Node : g[m] # f[m]}
<1>0. g[Nil] = f[Nil]
  BY NodeFacts DEF IsTree
<1>1. ASSUME S # {} PROVE FALSE
  <2>1. PICK m \in S : lf[m] \notin S /\ rt[m] \notin S
    BY <1>1, LowestNode
  <2>2. m \in Pointer /\ m # Nil /\ lf[m] \in Pointer /\ rt[m] \in Pointer
    BY NodeFacts, TreeFacts
  <2>3. g[lf[m]] = f[lf[m]] /\ g[rt[m]] = f[rt[m]]
    BY <2>1, <2>2, <1>0 DEF Pointer
  <2>4. g[m] = {m} \cup g[lf[m]] \cup g[rt[m]]
    BY <2>2
  <2>5. f[m] = {m} \cup f[lf[m]] \cup f[rt[m]]
    BY TreeFacts
  <2> QED
    BY <2>3, <2>4, <2>5
<1>2. \A m \in Pointer : g[m] = f[m]
  BY <1>0, <1>1 DEF Pointer
<1>3. g = [m \in Pointer |-> g[m]]
  <2> DEFINE e(m) == IF m = Nil THEN {} ELSE {m} \cup g[lf[m]] \cup g[rt[m]]
  <2>1. g = [m \in Pointer |-> e(m)]
    OBVIOUS
  <2> HIDE DEF e
  <2> QED
    BY <2>1
<1> QED
  BY <1>2, <1>3 DEF IsTree

\* Whatever a node leads to, but itself, is a child of some node on the way.
LEMMA Holder ==
  ASSUME NEW ord, IsOrder(ord), NEW lf, NEW rt, NEW f, IsTree(lf, rt, f, ord),
         NEW x \in Node, NEW m \in f[x], m # x
  PROVE  \E p \in f[x] : m \in {lf[p], rt[p]}
<1> DEFINE S == {z \in Node : m \in f[z] /\ m # z /\ ~ \E p \in f[z] : m \in {lf[p], rt[p]}}
<1>0. /\ S \in SUBSET Node
      /\ \A z \in Node : z \in S <=> m \in f[z] /\ m # z /\ ~ \E p \in f[z] : m \in {lf[p], rt[p]}
  OBVIOUS
<1> HIDE DEF S
<1>1. ASSUME S # {} PROVE FALSE
  <2>1. PICK z \in S : lf[z] \notin S /\ rt[z] \notin S
    BY <1>0, <1>1, LowestNode
  <2>2. z \in Node /\ m \in f[z] /\ m # z /\ ~ \E p \in f[z] : m \in {lf[p], rt[p]}
    BY <1>0
  <2>3. f[z] = {z} \cup f[lf[z]] \cup f[rt[z]] /\ lf[z] \in Pointer /\ rt[z] \in Pointer
    BY <2>2, TreeFacts
  <2>4. PICK c \in {lf[z], rt[z]} : m \in f[c]
    BY <2>2, <2>3
  <2>5. c \in Node
    BY <2>3, <2>4 DEF Pointer, IsTree
  <2>6. m = c \/ \E p \in f[c] : m \in {lf[p], rt[p]}
    BY <1>0, <2>1, <2>4, <2>5
  <2> QED
    BY <2>2, <2>3, <2>4, <2>6
<1> QED
  BY <1>0, <1>1

-----------------------------------------------------------------------------
(* Heaps *)

Heap == [root : Pointer, left : [Node -> Pointer], right : [Node -> Pointer],
         parent : [Node -> Pointer], height : [Node -> Nat]]

\* The heap h is one of trees, and its nodes lead to f.
Trees(h, f, ord) == IsTree(h.left, h.right, f, ord)

\* The parent pointers to the nodes of X are right.
Linked(h, X) ==
  /\ h.root # Nil => h.parent[h.root] = Nil
  /\ \A x \in X : /\ h.left[x] # Nil => h.parent[h.left[x]] = x
                  /\ h.right[x] # Nil => h.parent[h.right[x]] = x

LEMMA SubtreesAre ==
  ASSUME NEW ord, IsOrder(ord), NEW h, NEW f, Trees(h, f, ord)
  PROVE  Subtrees(h) = f
<1> DEFINE Sol(g) == g = [m \in Pointer |-> IF m = Nil THEN {}
                                            ELSE {m} \cup g[h.left[m]] \cup g[h.right[m]]]
<1>1. Subtrees(h) = CHOOSE g : Sol(g)
  BY DEF Subtrees
<1>2. Sol(f)
  <2>1. f = [m \in Pointer |-> f[m]] /\ f[Nil] = {}
    BY DEF Trees, IsTree
  <2>2. \A m \in Pointer : f[m] = IF m = Nil THEN {} ELSE {m} \cup f[h.left[m]] \cup f[h.right[m]]
    <3>1. \A m \in Node : m # Nil /\ f[m] = {m} \cup f[h.left[m]] \cup f[h.right[m]]
      BY NodeFacts DEF Trees, IsTree
    <3> QED
      BY <2>1, <3>1 DEF Pointer
  <2> QED
    BY <2>1, <2>2
<1>3. \A g : Sol(g) => g = f
  BY OneSolution DEF Trees
<1> HIDE DEF Sol
<1>4. Sol(CHOOSE g : Sol(g))
  BY <1>2
<1> QED
  BY <1>1, <1>3, <1>4

LEMMA HeapFacts ==
  ASSUME NEW h \in Heap
  PROVE  /\ h.root \in Pointer /\ h.left \in [Node -> Pointer] /\ h.right \in [Node -> Pointer]
         /\ h.parent \in [Node -> Pointer] /\ h.height \in [Node -> Nat]
         /\ \A m \in Node : /\ h.left[m] \in Pointer /\ h.right[m] \in Pointer
                            /\ h.parent[m] \in Pointer /\ h.height[m] \in Nat
BY DEF Heap

\* A node of the tree is the root, or a child of its parent, which is in the tree too.
LEMMA ParentInside ==
  ASSUME NEW h \in Heap, NEW ord, IsOrder(ord), NEW f, Trees(h, f, ord),
         Linked(h, f[h.root]), NEW m \in f[h.root]
  PROVE  /\ m \in Node
         /\ m = h.root => h.parent[m] = Nil
         /\ m # h.root => /\ h.parent[m] \in f[h.root]
                          /\ h.parent[m] \in Node /\ h.parent[m] # Nil
                          /\ m \in {h.left[h.parent[m]], h.right[h.parent[m]]}
<1>1. h.root \in Node /\ h.root # Nil /\ m \in Node /\ f[h.root] \in SUBSET Node
  BY HeapFacts, NodeFacts DEF Trees, IsTree, Pointer
<1>2. CASE m # h.root
  <2>1. PICK p \in f[h.root] : m \in {h.left[p], h.right[p]}
    BY <1>1, <1>2, Holder DEF Trees
  <2>2. h.parent[m] = p
    BY <1>1, <2>1, NodeFacts DEF Linked
  <2> QED
    BY <1>1, <1>2, <2>1, <2>2, NodeFacts
<1> QED
  BY <1>1, <1>2 DEF Linked

LEMMA SlotFacts ==
  /\ Root \in Slots /\ Root.of = Nil /\ Root.side = "root"
  /\ \A m \in Node : /\ Left(m) \in Slots /\ Left(m).of = m /\ Left(m).side = "left"
                     /\ Right(m) \in Slots /\ Right(m).of = m /\ Right(m).side = "right"
  /\ \A s \in Slots : s = Root \/ \E m \in Node : s = Left(m) \/ s = Right(m)
  /\ \A h : Get(h, Root) = h.root
  /\ \A h : \A m \in Node : Get(h, Left(m)) = h.left[m] /\ Get(h, Right(m)) = h.right[m]
BY DEF Slots, Root, Left, Right, Get

\* NodeP finds the slot that holds a node of the tree, and none that holds any other.
LEMMA NodePFacts ==
  ASSUME NEW h \in Heap, NEW ord, IsOrder(ord), NEW f, Trees(h, f, ord),
         Linked(h, f[h.root]), NEW m \in Node, h.parent[m] \in f[h.root] \cup {Nil}
  PROVE  /\ NodeP(h, m) \in Slots
         /\ NodeP(h, m).of = h.parent[m]
         /\ m \in f[h.root] <=> Get(h, NodeP(h, m)) = m
<1> DEFINE p == h.parent[m]
<1>1. m \in f[m] /\ f[Nil] = {} /\ h.root \in Pointer
  BY HeapFacts DEF Trees, IsTree
<1>2. CASE p = Nil
  <2>1. NodeP(h, m) = Root
    BY <1>2 DEF NodeP
  <2>2. m \in f[h.root] => m = h.root
    BY <1>2, ParentInside
  <2> QED
    BY <1>1, <1>2, <2>1, <2>2, SlotFacts
<1>3. CASE p # Nil
  <2>1. p \in f[h.root] /\ p \in Node
    BY <1>3, ParentInside
  <2>2. NodeP(h, m) = IF h.left[p] = m THEN Left(p) ELSE Right(p)
    BY <1>3 DEF NodeP
  <2>3. Get(h, NodeP(h, m)) = m <=> m \in {h.left[p], h.right[p]}
    BY <2>1, <2>2, SlotFacts
  <2>4. m \in f[h.root] => m \in {h.left[p], h.right[p]}
    BY <1>3, ParentInside
  <2>5. m \in {h.left[p], h.right[p]} => m \in f[p]
    BY <1>1, <2>1 DEF Trees, IsTree
  <2>6. f[p] \subseteq f[h.root]
    BY <1>1, <2>1, Transitive DEF Trees, Pointer
  <2> QED
    BY <2>1, <2>2, <2>3, <2>4, <2>5, <2>6, SlotFacts
<1> QED
  BY <1>2, <1>3

-----------------------------------------------------------------------------
(* Loops: functions that a walk computes *)

\* g is what the walk by next finds, that ends where stop says, with val.
IsWalk(g, D, stop, next, val) ==
  g = [x \in D |-> IF x \in stop THEN val[x] ELSE g[next[x]]]

\* The recursive function of a walk exists, whether the walk ends or not.
LEMMA WalkExists ==
  ASSUME NEW D, NEW stop \in SUBSET D, NEW next, \A x \in D \ stop : next[x] \in D, NEW val
  PROVE  \E g : IsWalk(g, D, stop, next, val)
<1> DEFINE Closed(S) == \A y \in S : y \in stop \/ next[y] \in S
           Way(x) == {y \in D : \A S \in SUBSET D : x \in S /\ Closed(S) => y \in S}
           End(Z) == CHOOSE y : y \in Z
           g == [x \in D |-> val[End(Way(x) \cap stop)]]
<1>1. ASSUME NEW x \in D PROVE x \in Way(x)
  OBVIOUS
<1>2. ASSUME NEW x \in stop PROVE Way(x) \cap stop = {x}
  <2>1. {x} \in SUBSET D /\ x \in {x} /\ Closed({x})
    OBVIOUS
  <2>2. \A y \in Way(x) : y \in {x}
    BY <2>1
  <2> QED
    BY <1>1, <2>2
<1>3. ASSUME NEW x \in D \ stop PROVE Way(x) = {x} \cup Way(next[x])
  <2>1. next[x] \in D
    OBVIOUS
  <2>2. ASSUME NEW y \in Way(next[x]) PROVE y \in Way(x)
    BY <2>1
  <2>3. ASSUME NEW y \in Way(x), y # x PROVE y \in Way(next[x])
    <3>1. SUFFICES ASSUME NEW S \in SUBSET D, next[x] \in S, Closed(S) PROVE y \in S
      OBVIOUS
    <3>2. S \cup {x} \in SUBSET D /\ x \in S \cup {x} /\ Closed(S \cup {x})
      BY <3>1
    <3>3. y \in S \cup {x}
      BY <3>2
    <3> QED
      BY <3>3, <2>3
  <2> QED
    BY <1>1, <2>2, <2>3
<1>4. ASSUME NEW x \in D PROVE g[x] = IF x \in stop THEN val[x] ELSE g[next[x]]
  <2> HIDE DEF Way
  <2>1. CASE x \in stop
    BY <1>2, <2>1
  <2>2. CASE x \notin stop
    <3>1. Way(x) \cap stop = Way(next[x]) \cap stop
      BY <1>3, <2>2
    <3>2. next[x] \in D
      BY <2>2
    <3> QED
      BY <2>2, <3>1, <3>2
  <2> QED
    BY <2>1, <2>2
<1>5. g = [x \in D |-> g[x]]
  OBVIOUS
<1> HIDE DEF g
<1>6. IsWalk(g, D, stop, next, val)
  BY <1>4, <1>5 DEF IsWalk
<1> QED
  BY <1>6

\* Going down by lf as far as it goes.
Down(lf, m) ==
  LET down[k \in Node] == IF lf[k] = Nil THEN k ELSE down[lf[k]]
  IN down[m]

\* It leads to the first node.
LEMMA DownIsFirst ==
  ASSUME NEW ord, IsOrder(ord), NEW lf, NEW rt, NEW f, IsTree(lf, rt, f, ord),
         NEW m \in Node
  PROVE  Down(lf, m) = First(ord, f[m])
<1> DEFINE Sol(g) == g = [k \in Node |-> IF lf[k] = Nil THEN k ELSE g[lf[k]]]
<1>1. \E g : Sol(g)
  <2> DEFINE stop == {k \in Node : lf[k] = Nil}
             val == [k \in Node |-> k]
  <2>1. stop \in SUBSET Node /\ \A x \in Node \ stop : lf[x] \in Node
    BY DEF IsTree, Pointer
  <2> HIDE DEF stop, val
  <2>2. PICK g : IsWalk(g, Node, stop, lf, val)
    BY <2>1, WalkExists
  <2>3. \A x \in Node : (IF x \in stop THEN val[x] ELSE g[lf[x]]) = IF lf[x] = Nil THEN x ELSE g[lf[x]]
    BY DEF stop, val
  <2>4. Sol(g)
    BY <2>2, <2>3 DEF IsWalk
  <2> QED
    BY <2>4
<1>2. ASSUME NEW g, Sol(g) PROVE g[m] = First(ord, f[m])
  <2> DEFINE S == {k \in Node : g[k] # First(ord, f[k])}
  <2>1. S \in SUBSET Node /\ \A k \in Node : k \in S <=> g[k] # First(ord, f[k])
    OBVIOUS
  <2> HIDE DEF S
  <2>2. ASSUME S # {} PROVE FALSE
    <3>1. PICK k \in S : lf[k] \notin S
      BY <2>1, <2>2, LowestNode
    <3>2. k \in Node /\ g[k] = IF lf[k] = Nil THEN k ELSE g[lf[k]]
      BY <1>2, <2>1
    <3>3. /\ lf[k] \in Pointer /\ f[k] \in SUBSET Node /\ f[lf[k]] \in SUBSET Node
          /\ f[k] = {k} \cup f[lf[k]] \cup f[rt[k]] /\ f[rt[k]] \subseteq ord[k]
          /\ \A x \in f[lf[k]] : k \in ord[x] /\ ord[k] \subseteq ord[x]
      <4>1. /\ lf[k] \in Pointer /\ f[k] \in SUBSET Node /\ f[lf[k]] \in SUBSET Node
            /\ f[k] = {k} \cup f[lf[k]] \cup f[rt[k]] /\ f[rt[k]] \subseteq ord[k]
            /\ \A x \in f[lf[k]] : k \in ord[x]
        BY <3>2, TreeFacts DEF IsTree
      <4> QED
        BY <3>2, <4>1 DEF IsOrder
    <3>4. CASE lf[k] = Nil
      <4>1. f[lf[k]] = {}
        BY <3>4 DEF IsTree
      <4>2. k \in f[k] /\ \A x \in f[k] : x = k \/ x \in ord[k]
        BY <3>3, <4>1
      <4>3. k = First(ord, f[k])
        BY <3>3, <4>2, FirstFacts
      <4> QED
        BY <2>1, <3>2, <3>4, <4>3
    <3>5. CASE lf[k] # Nil
      <4> DEFINE v == First(ord, f[lf[k]])
      <4>1. lf[k] \in Node /\ g[k] = v
        BY <2>1, <3>1, <3>2, <3>3, <3>5 DEF Pointer
      <4>2. f[lf[k]] # {}
        BY <4>1, TreeFacts
      <4>3. v \in f[lf[k]] /\ \A x \in f[lf[k]] : x = v \/ x \in ord[v]
        BY <3>3, <4>2, FirstFacts
      <4> HIDE DEF v
      <4>4. v \in f[k] /\ \A x \in f[k] : x = v \/ x \in ord[v]
        BY <3>3, <4>3
      <4>5. v = First(ord, f[k])
        BY <3>3, <4>4, FirstFacts
      <4> QED
        BY <2>1, <4>1, <4>5
    <3> QED
      BY <3>4, <3>5
  <2> QED
    BY <2>1, <2>2
<1> HIDE DEF Sol
<1>3. Sol(CHOOSE g : Sol(g))
  BY <1>1
<1>4. (CHOOSE g : Sol(g))[m] = First(ord, f[m])
  BY <1>2, <1>3
<1> QED
  BY <1>4 DEF Sol, Down

\* The first node leads to none before it.
LEMMA FirstHasNone ==
  ASSUME NEW ord, IsOrder(ord), NEW lf, NEW rt, NEW f, IsTree(lf, rt, f, ord),
         NEW m \in Node
  PROVE  First(ord, f[m]) \in f[m] /\ First(ord, f[m]) \in Node /\ lf[First(ord, f[m])] = Nil
<1> DEFINE v == First(ord, f[m])
<1>1. f[m] \in SUBSET Node /\ f[m] # {}
  BY TreeFacts
<1>2. v \in f[m] /\ \A x \in f[m] : x = v \/ x \in ord[v]
  BY <1>1, FirstFacts
<1> HIDE DEF v
<1>3. ASSUME lf[v] # Nil PROVE FALSE
  <2>1. v \in Node /\ lf[v] \in f[lf[v]] /\ f[lf[v]] \subseteq f[v] /\ lf[v] \in Node /\ v \notin f[lf[v]]
    BY <1>1, <1>2, <1>3, TreeFacts
  <2>2. v \in ord[lf[v]]
    BY <2>1 DEF IsTree
  <2>3. lf[v] \in f[m]
    BY <1>2, <2>1, Transitive
  <2> QED
    BY <1>2, <2>1, <2>2, <2>3, OrderFacts
<1> QED
  BY <1>1, <1>2, <1>3 DEF v

\* The nodes that y leads to have no other node between them.
LEMMA Convex ==
  ASSUME NEW ord, IsOrder(ord), NEW lf, NEW rt, NEW f, IsTree(lf, rt, f, ord),
         NEW r \in Node, NEW y \in f[r], NEW x \in f[r], x \notin f[y], NEW a \in f[y]
  PROVE  /\ y \in ord[x] => a \in ord[x]
         /\ x \in ord[y] => x \in ord[a]
<1> DEFINE P == /\ y \in ord[x] => a \in ord[x]
                /\ x \in ord[y] => x \in ord[a]
           S == {z \in Node : y \in f[z] /\ x \in f[z] /\ ~ P}
<1>0. S \in SUBSET Node /\ \A z \in Node : z \in S <=> y \in f[z] /\ x \in f[z] /\ ~ P
  OBVIOUS
<1>1. x \in Node /\ y \in Node /\ f[y] \in SUBSET Node /\ a \in Node /\ y \in f[y] /\ x # y
  BY TreeFacts
<1> HIDE DEF S
<1>2. ASSUME S # {} PROVE FALSE
  <2>1. PICK z \in S : lf[z] \notin S /\ rt[z] \notin S
    BY <1>0, <1>2, LowestNode
  <2>2. z \in Node /\ y \in f[z] /\ x \in f[z] /\ ~ P
    BY <1>0, <2>1
  <2>3. /\ f[z] = {z} \cup f[lf[z]] \cup f[rt[z]] /\ lf[z] \in Pointer /\ rt[z] \in Pointer
        /\ f[lf[z]] \in SUBSET Node /\ f[rt[z]] \in SUBSET Node
        /\ \A k \in f[lf[z]] : z \in ord[k] /\ ord[z] \subseteq ord[k]
        /\ f[rt[z]] \subseteq ord[z]
    <3>1. /\ f[z] = {z} \cup f[lf[z]] \cup f[rt[z]] /\ lf[z] \in Pointer /\ rt[z] \in Pointer
          /\ f[lf[z]] \in SUBSET Node /\ f[rt[z]] \in SUBSET Node
          /\ \A k \in f[lf[z]] : z \in ord[k]
          /\ f[rt[z]] \subseteq ord[z]
      BY <2>2, TreeFacts DEF IsTree
    <3> QED
      BY <2>2, <3>1 DEF IsOrder
  <2>4. y # z
    BY <1>1, <2>2
  <2>5. ASSUME NEW c \in {lf[z], rt[z]}, y \in f[c] PROVE c \in Node /\ f[y] \subseteq f[c] /\ x \notin f[c]
    <3>1. c \in Node
      BY <2>3, <2>5 DEF Pointer, IsTree
    <3> QED
      BY <1>0, <2>1, <2>2, <2>5, <3>1, Transitive
  <2>6. CASE y \in f[lf[z]]
    <3>1. f[y] \subseteq f[lf[z]] /\ x \notin f[lf[z]]
      BY <2>5, <2>6
    <3>2. x = z \/ x \in ord[z]
      BY <2>2, <2>3, <3>1
    <3>3. x \in ord[a] /\ x \in ord[y]
      BY <1>1, <2>3, <3>1, <3>2
    <3> QED
      BY <1>1, <2>2, <3>3, OrderFacts
  <2>7. CASE y \in f[rt[z]]
    <3>1. f[y] \subseteq f[rt[z]] /\ x \notin f[rt[z]]
      BY <2>5, <2>7
    <3>2. x = z \/ (x \in f[lf[z]] /\ ord[z] \subseteq ord[x])
      BY <2>2, <2>3, <3>1
    <3>3. a \in ord[x] /\ y \in ord[x]
      BY <1>1, <2>3, <3>1, <3>2
    <3> QED
      BY <1>1, <2>2, <3>3, OrderFacts
  <2> QED
    BY <2>2, <2>3, <2>4, <2>6, <2>7
<1> QED
  BY <1>0, <1>2

\* The parents of X, a tree's nodes but its root, are right.
ParentsIn(lf, rt, pa, X, r) ==
  /\ r \in X /\ X \subseteq Node /\ pa[r] = Nil
  /\ \A m \in X : m # r => pa[m] \in X /\ m \in {lf[pa[m]], rt[pa[m]]}

\* Induction over the nodes of a tree, from the root down: of a set of its nodes
\* some node's parent is not in the set.
LEMMA HighestNode ==
  ASSUME NEW ord, IsOrder(ord), NEW lf, NEW rt, NEW f, IsTree(lf, rt, f, ord),
         NEW pa, NEW X, NEW r, ParentsIn(lf, rt, pa, X, r),
         NEW S \in SUBSET X, S # {}
  PROVE  \E x \in S : pa[x] \notin S
<1> DEFINE T == {MaxKey - Cardinality(f[x]) : x \in S}
<1>0. S \in SUBSET Node
  BY DEF ParentsIn
<1>1. ASSUME NEW x \in Node
      PROVE  Cardinality(f[x]) \in Nat /\ Cardinality(f[x]) <= MaxKey
  <2>1. IsFiniteSet(Node) /\ Cardinality(Node) = MaxKey
    <3>1. 1 \in Int /\ MaxKey \in Int
      BY MaxKeyAssumption
    <3>2. Cardinality(1..MaxKey) = IF 1 > MaxKey THEN 0 ELSE MaxKey - 1 + 1
      BY <3>1, FS_Interval
    <3> QED
      BY <3>1, <3>2, FS_Interval, MaxKeyAssumption DEF Node
  <2>2. f[x] \in SUBSET Node
    BY TreeFacts
  <2> QED
    BY <2>1, <2>2, FS_Subset, FS_CardinalityType
<1>2. T \in SUBSET Nat /\ T # {}
  <2>1. \A x \in S : MaxKey - Cardinality(f[x]) \in Nat
    BY <1>0, <1>1, MaxKeyAssumption
  <2> QED
    BY <2>1
<1>3. PICK u \in T : \A y \in T : u <= y
  BY <1>2, LeastNat
<1>4. PICK x \in S : u = MaxKey - Cardinality(f[x])
  BY <1>3
<1>5. ASSUME pa[x] \in S PROVE FALSE
  <2>1. x # r
    BY <1>0, <1>5, NodeFacts DEF ParentsIn
  <2>2. pa[x] \in Node /\ x \in Node /\ x \in {lf[pa[x]], rt[pa[x]]}
    BY <1>0, <2>1, <1>5 DEF ParentsIn
  <2>3. Cardinality(f[x]) < Cardinality(f[pa[x]])
    BY <2>2, TreeSizes
  <2>4. Cardinality(f[x]) \in Nat /\ Cardinality(f[pa[x]]) \in Nat
    BY <1>1, <2>2
  <2>5. MaxKey - Cardinality(f[x]) <= MaxKey - Cardinality(f[pa[x]])
    BY <1>3, <1>4, <1>5
  <2> QED
    BY <2>3, <2>4, <2>5, MaxKeyAssumption
<1> QED
  BY <1>5

\* What comes after m, of what r leads to; and that of it which is not below m.
After(ord, f, r, m) == {x \in f[r] : x \in ord[m]}
Above(ord, f, r, m) == {x \in f[r] : x \in ord[m] /\ x \notin f[m]}

\* Going up as long as it comes from rt.
Up(rt, pa, m) ==
  LET up[k \in Node] == LET p == pa[k]
                        IN IF p # Nil /\ rt[p] = k THEN up[p] ELSE p
  IN up[m]

\* It leads to the next node that is not below.
LEMMA UpIsNext ==
  ASSUME NEW ord, IsOrder(ord), NEW lf, NEW rt, NEW f, IsTree(lf, rt, f, ord),
         NEW pa \in [Node -> Pointer], NEW r \in Node, ParentsIn(lf, rt, pa, f[r], r),
         NEW m \in f[r]
  PROVE  Up(rt, pa, m) = First(ord, Above(ord, f, r, m))
<1> DEFINE Sol(g) == g = [k \in Node |-> LET p == pa[k]
                                         IN IF p # Nil /\ rt[p] = k THEN g[p] ELSE p]
           Aft(k) == {x \in f[r] : x \in ord[k] /\ x \notin f[k]}
<1>0. f[r] \in SUBSET Node
  BY TreeFacts
<1>1. \E g : Sol(g)
  <2> DEFINE stop == {k \in Node : ~ (pa[k] # Nil /\ rt[pa[k]] = k)}
  <2>1. stop \in SUBSET Node /\ \A x \in Node \ stop : pa[x] \in Node
    BY DEF Pointer
  <2>2. \A x \in Node : x \in stop <=> ~ (pa[x] # Nil /\ rt[pa[x]] = x)
    OBVIOUS
  <2> HIDE DEF stop
  <2>3. PICK g : IsWalk(g, Node, stop, pa, pa)
    BY <2>1, WalkExists
  <2>4. g = [x \in Node |-> IF x \in stop THEN pa[x] ELSE g[pa[x]]]
    BY <2>3 DEF IsWalk
  <2>5. Sol(g)
    BY <2>2, <2>4
  <2> QED
    BY <2>5
<1>2. ASSUME NEW g, Sol(g) PROVE g[m] = First(ord, Aft(m))
  <2> DEFINE S == {k \in f[r] : g[k] # First(ord, Aft(k))}
  <2>1. S \in SUBSET f[r] /\ \A k \in f[r] : k \in S <=> g[k] # First(ord, Aft(k))
    OBVIOUS
  <2> HIDE DEF S
  <2>2. ASSUME S # {} PROVE FALSE
    <3>1. PICK k \in S : pa[k] \notin S
      BY <2>1, <2>2, HighestNode
    <3> DEFINE p == pa[k]
    <3>2. k \in f[r] /\ k \in Node /\ p \in Pointer
      BY <1>0, <2>1
    <3>3. g[k] = IF p # Nil /\ rt[p] = k THEN g[p] ELSE p
      BY <1>2, <3>2
    <3>4. Aft(k) \in SUBSET Node
      BY <1>0
    <3>5. CASE p = Nil
      <4>1. k = r
        BY <1>0, <3>2, <3>5, NodeFacts DEF ParentsIn
      <4>2. Aft(k) = {}
        BY <4>1
      <4>3. First(ord, Aft(k)) = Nil
        BY <4>2 DEF First
      <4> QED
        BY <2>1, <3>3, <3>5, <4>3
    <3>6. CASE p # Nil
      <4>1. p \in f[r] /\ p \in Node /\ k \in {lf[p], rt[p]}
        BY <1>0, <3>2, <3>6 DEF ParentsIn
      <4>2. /\ f[p] = {p} \cup f[lf[p]] \cup f[rt[p]] /\ f[p] \in SUBSET Node
            /\ k \in f[k] /\ f[rt[p]] \subseteq ord[p] /\ \A x \in f[lf[p]] : p \in ord[x]
            /\ p \notin f[lf[p]] /\ p \notin f[rt[p]] /\ f[lf[p]] \cap f[rt[p]] = {}
        BY <3>2, <4>1, TreeFacts DEF IsTree
      <4>3. k \in f[p] /\ k # p /\ p \notin f[k]
        BY <4>1, <4>2
      <4>4. ASSUME NEW x \in f[r], x \notin f[p] PROVE x \in ord[p] <=> x \in ord[k]
        <5>1. /\ p \in ord[x] => k \in ord[x]
              /\ x \in ord[p] => x \in ord[k]
          BY <4>1, <4>3, <4>4, Convex
        <5>2. x \in Node /\ x # p /\ x # k
          BY <1>0, <4>2, <4>3, <4>4
        <5>3. /\ x \in ord[p] \/ p \in ord[x]
              /\ ~ (x \in ord[k] /\ k \in ord[x])
          BY <3>2, <4>1, <5>2, OrderFacts
        <5> QED
          BY <5>1, <5>3
      <4>5. CASE rt[p] = k
        <5>1. ASSUME NEW x \in f[r] PROVE x \in Aft(k) <=> x \in Aft(p)
          <6>1. CASE x \notin f[p]
            BY <4>2, <4>4, <4>5, <6>1
          <6>2. CASE x \in f[p]
            <7>1. k \in ord[p]
              BY <4>2, <4>5
            <7>2. x \notin f[k] => x \notin ord[k]
              <8>1. SUFFICES ASSUME x \notin f[k], x \in ord[k] PROVE FALSE
                OBVIOUS
              <8>2. x = p \/ (x \in f[lf[p]] /\ p \in ord[x])
                BY <4>2, <4>5, <6>2, <8>1
              <8>3. ord[x] \subseteq ord[k]
                BY <3>2, <8>1 DEF IsOrder
              <8>4. p \in ord[k]
                BY <8>1, <8>2, <8>3
              <8> QED
                BY <3>2, <4>1, <4>3, <7>1, <8>4, OrderFacts
            <7> QED
              BY <6>2, <7>2
          <6> QED
            BY <6>1, <6>2
        <5>2. Aft(k) = Aft(p)
          BY <5>1
        <5>3. g[k] = g[p] /\ g[p] = First(ord, Aft(p))
          BY <2>1, <3>1, <3>3, <3>6, <4>1, <4>5
        <5> HIDE DEF Aft
        <5> QED
          BY <2>1, <5>2, <5>3
      <4>6. CASE rt[p] # k
        <5>1. k = lf[p]
          BY <4>1, <4>6
        <5>2. p \in Aft(k)
          BY <4>1, <4>2, <4>3, <5>1
        <5>3. ASSUME NEW x \in Aft(k) PROVE x = p \/ x \in ord[p]
          <6>1. CASE x \notin f[p]
            BY <4>4, <6>1
          <6>2. CASE x \in f[p]
            BY <4>2, <5>1, <6>2
          <6> QED
            BY <6>1, <6>2
        <5> HIDE DEF Aft
        <5>4. p = First(ord, Aft(k))
          BY <3>4, <5>2, <5>3, FirstFacts
        <5> QED
          BY <2>1, <3>3, <4>6, <5>4
      <4> QED
        BY <4>5, <4>6
    <3> QED
      BY <3>5, <3>6
  <2> HIDE DEF Aft
  <2> QED
    BY <2>1, <2>2
<1> HIDE DEF Sol
<1>3. Sol(CHOOSE g : Sol(g))
  BY <1>1
<1>4. (CHOOSE g : Sol(g))[m] = First(ord, Aft(m))
  BY <1>2, <1>3
<1> QED
  BY <1>4 DEF Sol, Up, Above

-----------------------------------------------------------------------------
(* Reading *)

LEMMA OrderMeans ==
  /\ \A a, b \in Node : b \in Greater[a] <=> b > a
  /\ \A a, b \in Node : b \in Smaller[a] <=> b < a
BY NodeFacts DEF Greater, Smaller

\* Two orders, each the other backwards.
Opposite(ord, dro) == /\ IsOrder(ord) /\ IsOrder(dro)
                      /\ \A a, b \in Node : b \in ord[a] <=> a \in dro[b]

LEMMA GreaterOpposite == Opposite(Greater, Smaller) /\ Opposite(Smaller, Greater)
BY GreaterIsOrder, SmallerIsOrder, OrderMeans DEF Opposite

\* Left and right in an order, right and left in the opposite order.
LEMMA Mirror ==
  ASSUME NEW ord, NEW dro, Opposite(ord, dro), NEW lf, NEW rt, NEW f
  PROVE  IsTree(lf, rt, f, ord) <=> IsTree(rt, lf, f, dro)
<1>1. \A a, b \in Node : b \in ord[a] <=> a \in dro[b]
  BY DEF Opposite
<1>2. ASSUME lf \in [Node -> Pointer], rt \in [Node -> Pointer], f \in [Pointer -> SUBSET Node],
             NEW m \in Node
      PROVE  /\ (\A k \in f[lf[m]] : m \in ord[k]) <=> f[lf[m]] \subseteq dro[m]
             /\ f[rt[m]] \subseteq ord[m] <=> (\A k \in f[rt[m]] : m \in dro[k])
  <2>1. f[lf[m]] \in SUBSET Node /\ f[rt[m]] \in SUBSET Node
    BY <1>2
  <2> QED
    BY <1>1, <2>1
<1> QED
  BY <1>2 DEF IsTree

LEMMA FirstIsLeast ==
  ASSUME NEW S \in SUBSET Node
  PROVE  First(Greater, S) = Least(S) /\ First(Smaller, S) = Greatest(S)
<1>1. CASE S = {}
  BY <1>1 DEF First, Least, Greatest
<1>2. CASE S # {}
  <2>1. S \in SUBSET Nat
    BY NodeFacts
  <2>2. \A v \in S : (\A x \in S : x = v \/ x \in Greater[v]) <=> (\A x \in S : v <= x)
    BY <2>1, OrderMeans
  <2>3. \A v \in S : (\A x \in S : x = v \/ x \in Smaller[v]) <=> (\A x \in S : v >= x)
    BY <2>1, OrderMeans
  <2>4. /\ First(Greater, S) \in S
        /\ \A x \in S : x = First(Greater, S) \/ x \in Greater[First(Greater, S)]
    BY <1>2, GreaterIsOrder, FirstFacts
  <2>5. /\ First(Smaller, S) \in S
        /\ \A x \in S : x = First(Smaller, S) \/ x \in Smaller[First(Smaller, S)]
    BY <1>2, SmallerIsOrder, FirstFacts
  <2>6. Min(S) \in S /\ \A x \in S : Min(S) <= x
    BY <2>2, <2>4 DEF Min
  <2>7. Max(S) \in S /\ \A x \in S : Max(S) >= x
    BY <2>3, <2>5 DEF Max
  <2>8. First(Greater, S) = Min(S)
    <3>1. First(Greater, S) <= Min(S) /\ Min(S) <= First(Greater, S)
      BY <2>2, <2>4, <2>6
    <3>2. First(Greater, S) \in Nat /\ Min(S) \in Nat
      BY <2>1, <2>4, <2>6
    <3> QED
      BY <3>1, <3>2
  <2>9. First(Smaller, S) = Max(S)
    <3>1. First(Smaller, S) <= Max(S) /\ Max(S) <= First(Smaller, S)
      BY <2>3, <2>5, <2>7
    <3>2. First(Smaller, S) \in Nat /\ Max(S) \in Nat
      BY <2>1, <2>5, <2>7
    <3> QED
      BY <3>1, <3>2
  <2> QED
    BY <1>2, <2>8, <2>9 DEF Least, Greatest
<1> QED
  BY <1>1, <1>2

\* The heap h is a well-formed search tree.
Sound(h, f) == h \in Heap /\ Trees(h, f, Greater) /\ Linked(h, f[h.root])

LEMMA SoundFacts ==
  ASSUME NEW h, NEW f, Sound(h, f)
  PROVE  /\ h \in Heap /\ Trees(h, f, Greater) /\ Linked(h, f[h.root]) /\ Subtrees(h) = f
         /\ IsTree(h.left, h.right, f, Greater) /\ IsTree(h.right, h.left, f, Smaller)
         /\ f[Nil] = {} /\ f[h.root] \in SUBSET Node
         /\ h.root \in Pointer /\ h.parent \in [Node -> Pointer]
         /\ h.root # Nil => /\ h.root \in Node
                            /\ ParentsIn(h.left, h.right, h.parent, f[h.root], h.root)
                            /\ ParentsIn(h.right, h.left, h.parent, f[h.root], h.root)
<1>1. /\ h \in Heap /\ Trees(h, f, Greater) /\ Linked(h, f[h.root]) /\ Subtrees(h) = f
      /\ IsTree(h.left, h.right, f, Greater) /\ IsTree(h.right, h.left, f, Smaller)
  BY SubtreesAre, GreaterIsOrder, GreaterOpposite, Mirror DEF Sound, Trees
<1>2. /\ f[Nil] = {} /\ h.root \in Pointer /\ h.parent \in [Node -> Pointer]
  BY <1>1, HeapFacts DEF IsTree
<1>3. f[h.root] \in SUBSET Node
  BY <1>1, <1>2 DEF IsTree
<1>4. ASSUME h.root # Nil
      PROVE  /\ h.root \in Node
             /\ ParentsIn(h.left, h.right, h.parent, f[h.root], h.root)
             /\ ParentsIn(h.right, h.left, h.parent, f[h.root], h.root)
  <2>1. h.root \in Node
    BY <1>2, <1>4 DEF Pointer
  <2>2. h.root \in f[h.root]
    BY <1>1, <2>1, TreeFacts, GreaterIsOrder
  <2>3. \A m \in f[h.root] : m # h.root => /\ h.parent[m] \in f[h.root]
                                           /\ m \in {h.left[h.parent[m]], h.right[h.parent[m]]}
    BY <1>1, ParentInside, GreaterIsOrder
  <2> QED
    BY <1>1, <1>3, <1>4, <2>1, <2>2, <2>3 DEF ParentsIn, Linked
<1> QED
  BY <1>1, <1>2, <1>3, <1>4

\* The node after m is the first that rt leads to or, if there is none, the first
\* after m that is not below m.
LEMMA AfterIs ==
  ASSUME NEW ord, IsOrder(ord), NEW lf, NEW rt, NEW f, IsTree(lf, rt, f, ord),
         NEW r \in Node, NEW m \in f[r]
  PROVE  First(ord, After(ord, f, r, m)) =
           IF rt[m] = Nil THEN First(ord, Above(ord, f, r, m)) ELSE First(ord, f[rt[m]])
<1> DEFINE Aft == {x \in f[r] : x \in ord[m]}
           Abv == {x \in f[r] : x \in ord[m] /\ x \notin f[m]}
<1>0. Aft = After(ord, f, r, m) /\ Abv = Above(ord, f, r, m)
  BY DEF After, Above
<1>1. m \in Node /\ f[r] \in SUBSET Node
  BY TreeFacts
<1>2. /\ f[m] = {m} \cup f[lf[m]] \cup f[rt[m]] /\ rt[m] \in Pointer
      /\ \A k \in f[lf[m]] : k \notin ord[m]
      /\ f[rt[m]] \subseteq ord[m] /\ m \notin ord[m] /\ f[m] \subseteq f[r]
  <2>1. /\ f[m] = {m} \cup f[lf[m]] \cup f[rt[m]] /\ rt[m] \in Pointer
        /\ \A k \in f[lf[m]] : m \in ord[k] /\ k \in Node /\ k # m
        /\ f[rt[m]] \subseteq ord[m] /\ m \notin ord[m]
    BY <1>1, TreeFacts DEF IsTree, IsOrder
  <2>2. f[m] \subseteq f[r]
    BY <1>1, Transitive
  <2> QED
    BY <1>1, <2>1, <2>2, OrderFacts
<1>3. CASE rt[m] = Nil
  <2>1. f[rt[m]] = {}
    BY <1>1, <1>3 DEF IsTree
  <2>2. Abv = Aft
    BY <1>2, <2>1
  <2> QED
    BY <1>0, <1>3, <2>2
<1>4. CASE rt[m] # Nil
  <2> DEFINE v == First(ord, f[rt[m]])
  <2>1. rt[m] \in Node
    BY <1>2, <1>4 DEF Pointer
  <2>3. f[rt[m]] \in SUBSET Node /\ f[rt[m]] # {} /\ f[rt[m]] \subseteq f[r]
    BY <1>1, <1>2, <2>1, TreeFacts
  <2>4. v \in f[rt[m]] /\ \A x \in f[rt[m]] : x = v \/ x \in ord[v]
    BY <2>3, FirstFacts
  <2> HIDE DEF v
  <2>5. v \in Aft
    BY <1>2, <2>3, <2>4
  <2>6. ASSUME NEW x \in Aft PROVE x = v \/ x \in ord[v]
    <3>1. CASE x \in f[m]
      BY <1>2, <2>4, <2>6, <3>1
    <3>2. CASE x \notin f[m]
      <4>1. v \in f[m] /\ m \in f[r] /\ x \in f[r] /\ x \in ord[m]
        BY <1>2, <2>4
      <4> QED
        BY <1>1, <3>2, <4>1, Convex
    <3> QED
      BY <3>1, <3>2
  <2>7. Aft \in SUBSET Node
    BY <1>1
  <2> HIDE DEF Aft
  <2>8. v = First(ord, Aft)
    BY <2>5, <2>6, <2>7, FirstFacts
  <2> QED
    BY <1>0, <1>4, <2>8 DEF v
<1> QED
  BY <1>3, <1>4

LEMMA NextIs ==
  ASSUME NEW f, Sound(t, f), NEW m \in f[t.root]
  PROVE  NextNode(m) = First(Greater, After(Greater, f, t.root, m))
<1>1. /\ t.root \in Node /\ m \in Node /\ t.left \in [Node -> Pointer] /\ t.right[m] \in Pointer
      /\ IsOrder(Greater) /\ IsTree(t.left, t.right, f, Greater) /\ t.parent \in [Node -> Pointer]
      /\ ParentsIn(t.left, t.right, t.parent, f[t.root], t.root)
  BY SoundFacts, HeapFacts, GreaterIsOrder
<1>2. NextNode(m) = IF t.right[m] = Nil THEN Up(t.right, t.parent, m) ELSE Down(t.left, t.right[m])
  BY DEF NextNode, Leftmost, Up, Down
<1>3. Up(t.right, t.parent, m) = First(Greater, Above(Greater, f, t.root, m))
  BY <1>1, UpIsNext
<1>4. t.right[m] # Nil => Down(t.left, t.right[m]) = First(Greater, f[t.right[m]])
  <2>1. t.right[m] # Nil => t.right[m] \in Node
    BY <1>1 DEF Pointer
  <2> QED
    BY <1>1, <2>1, DownIsFirst
<1>5. First(Greater, After(Greater, f, t.root, m)) =
        IF t.right[m] = Nil THEN First(Greater, Above(Greater, f, t.root, m))
        ELSE First(Greater, f[t.right[m]])
  BY <1>1, AfterIs
<1> QED
  BY <1>2, <1>3, <1>4, <1>5

LEMMA PrevIs ==
  ASSUME NEW f, Sound(t, f), NEW m \in f[t.root]
  PROVE  PrevNode(m) = First(Smaller, After(Smaller, f, t.root, m))
<1>1. /\ t.root \in Node /\ m \in Node /\ t.right \in [Node -> Pointer] /\ t.left[m] \in Pointer
      /\ IsOrder(Smaller) /\ IsTree(t.right, t.left, f, Smaller) /\ t.parent \in [Node -> Pointer]
      /\ ParentsIn(t.right, t.left, t.parent, f[t.root], t.root)
  BY SoundFacts, HeapFacts, SmallerIsOrder
<1>2. PrevNode(m) = IF t.left[m] = Nil THEN Up(t.left, t.parent, m) ELSE Down(t.right, t.left[m])
  BY DEF PrevNode, Rightmost, Up, Down
<1>3. Up(t.left, t.parent, m) = First(Smaller, Above(Smaller, f, t.root, m))
  BY <1>1, UpIsNext
<1>4. t.left[m] # Nil => Down(t.right, t.left[m]) = First(Smaller, f[t.left[m]])
  <2>1. t.left[m] # Nil => t.left[m] \in Node
    BY <1>1 DEF Pointer
  <2> QED
    BY <1>1, <2>1, DownIsFirst
<1>5. First(Smaller, After(Smaller, f, t.root, m)) =
        IF t.left[m] = Nil THEN First(Smaller, Above(Smaller, f, t.root, m))
        ELSE First(Smaller, f[t.left[m]])
  BY <1>1, AfterIs
<1> QED
  BY <1>2, <1>3, <1>4, <1>5

\* The place s is right for key k among the nodes X.
Fits(h, f, s, k, X) ==
  \A x \in X :
    /\ (s.of = x /\ s.side = "left") \/ s.of \in f[h.left[x]] => k < x
    /\ (s.of = x /\ s.side = "right") \/ s.of \in f[h.right[x]] => x < k

\* No node leads to the slot that holds it.
LEMMA SlotIsAbove ==
  ASSUME NEW h \in Heap, NEW f, Trees(h, f, Greater), NEW s \in Slots
  PROVE  s.of \notin f[Get(h, s)] /\ s.of \in Pointer
<1>1. \A x \in Node : x \notin f[h.left[x]] /\ x \notin f[h.right[x]] /\ x \in Pointer
  BY GreaterIsOrder, TreeFacts, NodeFacts DEF Trees
<1>2. Nil \notin f[h.root] /\ Nil \in Pointer
  BY HeapFacts, NodeFacts DEF Trees, IsTree
<1> QED
  BY <1>1, <1>2, SlotFacts

LEMMA DescendIs ==
  ASSUME NEW f, Sound(t, f), NEW k \in Node
  PROVE  LET s == Descend(k)
         IN /\ s \in Slots
            /\ s = Root \/ s.of \in f[t.root]
            /\ Get(t, s) = IF k \in f[t.root] THEN k ELSE Nil
            /\ Fits(t, f, s, k, f[t.root])
<1> DEFINE Sol(g) == g = [s \in Slots |->
                            LET m == Get(t, s)
                            IN IF m = Nil \/ m = k THEN s
                               ELSE IF k < m THEN g[Left(m)] ELSE g[Right(m)]]
           Claim(m, s, r) == /\ r \in Slots /\ Get(t, r) \in {Nil, k}
                             /\ r = s \/ r.of \in f[m]
                             /\ k \in f[m] => Get(t, r) = k
                             /\ Fits(t, f, r, k, f[m])
<1>0. /\ t \in Heap /\ Trees(t, f, Greater) /\ IsTree(t.left, t.right, f, Greater) /\ f[Nil] = {}
      /\ t.root \in Pointer /\ f[t.root] \in SUBSET Node
  BY SoundFacts
<1>1. \A s \in Slots : Get(t, s) \in Pointer
  BY <1>0, HeapFacts, SlotFacts
<1>2. \E g : Sol(g)
  <2> DEFINE stop == {s \in Slots : Get(t, s) = Nil \/ Get(t, s) = k}
             next == [s \in Slots |-> IF k < Get(t, s) THEN Left(Get(t, s)) ELSE Right(Get(t, s))]
             val == [s \in Slots |-> s]
  <2>1. stop \in SUBSET Slots /\ \A s \in Slots \ stop : next[s] \in Slots
    BY <1>1, SlotFacts DEF Pointer
  <2>2. \A s \in Slots : /\ val[s] = s /\ (s \in stop <=> Get(t, s) = Nil \/ Get(t, s) = k)
                         /\ next[s] = IF k < Get(t, s) THEN Left(Get(t, s)) ELSE Right(Get(t, s))
    OBVIOUS
  <2> HIDE DEF stop, next, val
  <2>3. PICK g : IsWalk(g, Slots, stop, next, val)
    BY <2>1, WalkExists
  <2>4. g = [s \in Slots |-> IF s \in stop THEN val[s] ELSE g[next[s]]]
    BY <2>3 DEF IsWalk
  <2>5. \A s \in Slots : (IF s \in stop THEN val[s] ELSE g[next[s]]) =
                         LET m == Get(t, s)
                         IN IF m = Nil \/ m = k THEN s
                            ELSE IF k < m THEN g[Left(m)] ELSE g[Right(m)]
    BY <2>2
  <2>6. Sol(g)
    BY <2>4, <2>5
  <2> QED
    BY <2>6
<1>3. ASSUME NEW g, Sol(g), NEW s \in Slots PROVE Claim(Get(t, s), s, g[s])
  <2> DEFINE S == {m \in Node : \E u \in Slots : Get(t, u) = m /\ ~ Claim(m, u, g[u])}
  <2>1. S \in SUBSET Node /\ \A m \in Node : m \in S <=> \E u \in Slots : Get(t, u) = m /\ ~ Claim(m, u, g[u])
    OBVIOUS
  <2> HIDE DEF S
  <2>2. ASSUME NEW u \in Slots
        PROVE  LET m == Get(t, u)
               IN g[u] = IF m = Nil \/ m = k THEN u
                         ELSE IF k < m THEN g[Left(m)] ELSE g[Right(m)]
    BY <1>3
  <2>3. ASSUME NEW u \in Slots, Get(t, u) = Nil PROVE Claim(Nil, u, g[u])
    BY <1>0, <2>2, <2>3 DEF Fits
  <2>4. ASSUME S # {} PROVE FALSE
    <3>1. PICK m \in S : t.left[m] \notin S /\ t.right[m] \notin S
      BY <1>0, <2>1, <2>4, LowestNode, GreaterIsOrder
    <3>2. PICK u \in Slots : m \in Node /\ Get(t, u) = m /\ ~ Claim(m, u, g[u])
      BY <2>1, <3>1
    <3>3. /\ f[m] = {m} \cup f[t.left[m]] \cup f[t.right[m]]
          /\ t.left[m] \in Pointer /\ t.right[m] \in Pointer
          /\ f[t.left[m]] \in SUBSET Node /\ f[t.right[m]] \in SUBSET Node
          /\ m \notin f[t.left[m]] /\ m \notin f[t.right[m]]
          /\ f[t.left[m]] \cap f[t.right[m]] = {} /\ m # Nil
      BY <1>0, <3>2, TreeFacts, GreaterIsOrder, NodeFacts
    <3>4. /\ \A x \in f[t.left[m]] : x < m
          /\ \A x \in f[t.right[m]] : m < x
      BY <1>0, <3>2, <3>3, OrderMeans DEF IsTree
    <3>5. /\ Claim(t.left[m], Left(m), g[Left(m)]) /\ Claim(t.right[m], Right(m), g[Right(m)])
      BY <2>1, <2>3, <3>1, <3>2, <3>3, SlotFacts DEF Pointer
    <3>6. \A x \in Node : f[x] = {x} \cup f[t.left[x]] \cup f[t.right[x]]
      BY <1>0, TreeFacts, GreaterIsOrder
    <3>7. /\ \A x \in f[t.left[m]] : f[x] \subseteq f[t.left[m]]
          /\ \A x \in f[t.right[m]] : f[x] \subseteq f[t.right[m]]
      BY <1>0, <3>3, Transitive, GreaterIsOrder DEF Pointer
    <3> HIDE DEF Claim
    <3>8. CASE m = k
      <4>1. g[u] = u /\ u.of \notin f[m]
        BY <1>0, <2>2, <3>2, <3>8, SlotIsAbove
      <4>2. \A x \in f[m] : u.of # x /\ u.of \notin f[t.left[x]] /\ u.of \notin f[t.right[x]]
        BY <3>3, <3>6, <3>7, <4>1
      <4>3. Fits(t, f, u, k, f[m])
        BY <4>2 DEF Fits
      <4> QED
        BY <3>2, <3>8, <4>1, <4>3 DEF Claim
    <3>9. CASE m # k /\ k < m
      <4> DEFINE r == g[Left(m)]
      <4>1. g[u] = r
        BY <2>2, <3>2, <3>3, <3>9
      <4> HIDE DEF r
      <4>2. /\ r \in Slots /\ Get(t, r) \in {Nil, k}
            /\ r = Left(m) \/ r.of \in f[t.left[m]]
            /\ k \in f[t.left[m]] => Get(t, r) = k
            /\ Fits(t, f, r, k, f[t.left[m]])
        BY <3>5 DEF Claim, r
      <4>3. k \in f[m] => k \in f[t.left[m]]
        BY <3>2, <3>3, <3>4, <3>9, NodeFacts
      <4>4. ASSUME NEW x \in f[m]
            PROVE  /\ (r.of = x /\ r.side = "left") \/ r.of \in f[t.left[x]] => k < x
                   /\ (r.of = x /\ r.side = "right") \/ r.of \in f[t.right[x]] => x < k
        <5>1. CASE x = m
          BY <3>2, <3>3, <3>9, <4>2, <5>1, SlotFacts
        <5>2. CASE x \in f[t.left[m]]
          BY <4>2, <5>2 DEF Fits
        <5>3. CASE x \in f[t.right[m]]
          <6>1. r.of \notin f[x]
            BY <3>2, <3>3, <3>7, <4>2, <5>3, SlotFacts
          <6> QED
            BY <3>3, <3>6, <5>3, <6>1
        <5> QED
          BY <3>3, <5>1, <5>2, <5>3
      <4>5. Fits(t, f, r, k, f[m])
        BY <4>4 DEF Fits
      <4>6. r.of \in f[m]
        <5>1. Left(m).of = m
          BY <3>2, SlotFacts
        <5> QED
          BY <3>3, <4>2, <5>1
      <4>7. Claim(m, u, r)
        BY <4>2, <4>3, <4>5, <4>6 DEF Claim
      <4> QED
        BY <3>2, <4>1, <4>7
    <3>10. CASE m # k /\ ~ k < m
      <4> DEFINE r == g[Right(m)]
      <4>1. g[u] = r /\ m < k
        BY <2>2, <3>2, <3>3, <3>10, NodeFacts
      <4> HIDE DEF r
      <4>2. /\ r \in Slots /\ Get(t, r) \in {Nil, k}
            /\ r = Right(m) \/ r.of \in f[t.right[m]]
            /\ k \in f[t.right[m]] => Get(t, r) = k
            /\ Fits(t, f, r, k, f[t.right[m]])
        BY <3>5 DEF Claim, r
      <4>3. k \in f[m] => k \in f[t.right[m]]
        BY <3>2, <3>3, <3>4, <3>10, NodeFacts
      <4>4. ASSUME NEW x \in f[m]
            PROVE  /\ (r.of = x /\ r.side = "left") \/ r.of \in f[t.left[x]] => k < x
                   /\ (r.of = x /\ r.side = "right") \/ r.of \in f[t.right[x]] => x < k
        <5>1. CASE x = m
          BY <3>2, <3>3, <4>1, <4>2, <5>1, SlotFacts
        <5>2. CASE x \in f[t.right[m]]
          BY <4>2, <5>2 DEF Fits
        <5>3. CASE x \in f[t.left[m]]
          <6>1. r.of \notin f[x]
            BY <3>2, <3>3, <3>7, <4>2, <5>3, SlotFacts
          <6> QED
            BY <3>3, <3>6, <5>3, <6>1
        <5> QED
          BY <3>3, <5>1, <5>2, <5>3
      <4>5. Fits(t, f, r, k, f[m])
        BY <4>4 DEF Fits
      <4>6. r.of \in f[m]
        <5>1. Right(m).of = m
          BY <3>2, SlotFacts
        <5> QED
          BY <3>3, <4>2, <5>1
      <4>7. Claim(m, u, r)
        BY <4>2, <4>3, <4>5, <4>6 DEF Claim
      <4> QED
        BY <3>2, <4>1, <4>7
    <3> QED
      BY <3>8, <3>9, <3>10
  <2> HIDE DEF Claim
  <2> QED
    BY <1>1, <2>1, <2>3, <2>4 DEF Pointer
<1> HIDE DEF Sol
<1>4. Sol(CHOOSE g : Sol(g))
  BY <1>2
<1>5. Descend(k) = (CHOOSE g : Sol(g))[Root]
  BY DEF Descend, Sol
<1> HIDE DEF Claim
<1>6. Claim(t.root, Root, Descend(k))
  BY <1>3, <1>4, <1>5, SlotFacts
<1> DEFINE s == Descend(k)
<1>7. k \notin f[t.root] => Get(t, s) # k
  <2>1. ASSUME Get(t, s) = k PROVE k \in f[t.root]
    <3>1. k \in f[k] /\ k # Nil
      BY <1>0, TreeFacts, GreaterIsOrder, NodeFacts
    <3>2. CASE s = Root
      BY <2>1, <3>1, <3>2, SlotFacts
    <3>3. CASE s # Root
      <4>1. s.of \in f[t.root] /\ s \in Slots
        BY <1>6, <3>3 DEF Claim
      <4>2. s.of \in Node /\ k \in {t.left[s.of], t.right[s.of]}
        BY <1>0, <2>1, <3>3, <4>1, SlotFacts
      <4>3. k \in f[s.of]
        BY <1>0, <3>1, <4>2, TreeFacts, GreaterIsOrder
      <4>4. t.root \in Node
        BY <1>0, <4>1 DEF Pointer
      <4> QED
        BY <1>0, <4>1, <4>3, <4>4, Transitive, GreaterIsOrder
    <3> QED
      BY <3>2, <3>3
  <2> QED
    BY <2>1
<1> QED
  BY <1>6, <1>7 DEF Claim

\* Search finds the first node of a set that holds, with a node, all greater ones.
LEMMA SearchIs ==
  ASSUME NEW f, Sound(t, f), NEW P \in SUBSET Node, \A a \in P : Greater[a] \subseteq P
  PROVE  Search(P) = First(Greater, f[t.root] \cap P)
<1> DEFINE Sol(g) == g = [p \in Pointer \X Pointer |->
                            IF p[1] = Nil THEN p[2]
                            ELSE IF p[1] \in P THEN g[<<t.left[p[1]], p[1]>>]
                            ELSE g[<<t.right[p[1]], p[2]>>]]
           Found(m, best) == IF f[m] \cap P = {} THEN best ELSE First(Greater, f[m] \cap P)
<1>0. /\ t \in Heap /\ IsTree(t.left, t.right, f, Greater) /\ f[Nil] = {} /\ t.root \in Pointer
      /\ Nil \in Pointer /\ Node \subseteq Pointer /\ Nil \notin Node
  BY SoundFacts, NodeFacts
<1>1. \E g : Sol(g)
  <2> DEFINE D == Pointer \X Pointer
             stop == {s \in D : s[1] = Nil}
             next == [s \in D |-> IF s[1] \in P THEN <<t.left[s[1]], s[1]>> ELSE <<t.right[s[1]], s[2]>>]
             val == [s \in D |-> s[2]]
  <2>1. stop \in SUBSET D /\ \A s \in D \ stop : next[s] \in D
    <3>1. \A s \in D \ stop : s[1] \in Node /\ s[2] \in Pointer
      BY DEF Pointer
    <3>2. \A s \in D \ stop : t.left[s[1]] \in Pointer /\ t.right[s[1]] \in Pointer
      BY <1>0, <3>1, HeapFacts
    <3> QED
      BY <3>1, <3>2, <1>0
  <2>2. \A s \in D : /\ val[s] = s[2] /\ (s \in stop <=> s[1] = Nil)
                     /\ next[s] = IF s[1] \in P THEN <<t.left[s[1]], s[1]>>
                                  ELSE <<t.right[s[1]], s[2]>>
    OBVIOUS
  <2> HIDE DEF stop, next, val
  <2>3. PICK g : IsWalk(g, D, stop, next, val)
    BY <2>1, WalkExists
  <2>4. g = [s \in D |-> IF s \in stop THEN val[s] ELSE g[next[s]]]
    BY <2>3 DEF IsWalk
  <2>5. Sol(g)
    <3>1. \A s \in D : (IF s \in stop THEN val[s] ELSE g[next[s]]) =
                       IF s[1] = Nil THEN s[2]
                       ELSE IF s[1] \in P THEN g[<<t.left[s[1]], s[1]>>]
                       ELSE g[<<t.right[s[1]], s[2]>>]
      BY <2>2
    <3> QED
      BY <2>4, <3>1
  <2> QED
    BY <2>5
<1>2. ASSUME NEW g, Sol(g), NEW m \in Pointer, NEW best \in Pointer PROVE g[<<m, best>>] = Found(m, best)
  <2> DEFINE S == {n \in Node : \E b \in Pointer : g[<<n, b>>] # Found(n, b)}
  <2>1. S \in SUBSET Node /\ \A n \in Node : n \in S <=> \E b \in Pointer : g[<<n, b>>] # Found(n, b)
    OBVIOUS
  <2> HIDE DEF S
  <2>2. ASSUME NEW n \in Pointer, NEW b \in Pointer
        PROVE  g[<<n, b>>] = IF n = Nil THEN b
                            ELSE IF n \in P THEN g[<<t.left[n], n>>] ELSE g[<<t.right[n], b>>]
    BY <1>2
  <2>3. ASSUME NEW b \in Pointer PROVE g[<<Nil, b>>] = Found(Nil, b)
    BY <1>0, <2>2
  <2> HIDE DEF Sol
  <2>4. ASSUME S # {} PROVE FALSE
    <3>1. PICK n \in S : t.left[n] \notin S /\ t.right[n] \notin S
      BY <1>0, <2>1, <2>4, LowestNode, GreaterIsOrder
    <3>2. PICK b \in Pointer : n \in Node /\ n \in Pointer /\ n # Nil /\ g[<<n, b>>] # Found(n, b)
      BY <1>0, <2>1, <3>1
    <3>3. /\ f[n] = {n} \cup f[t.left[n]] \cup f[t.right[n]]
          /\ t.left[n] \in Pointer /\ t.right[n] \in Pointer
          /\ f[n] \in SUBSET Node /\ f[t.left[n]] \in SUBSET Node /\ f[t.right[n]] \in SUBSET Node
          /\ \A x \in f[t.left[n]] : n \in Greater[x]
          /\ f[t.right[n]] \subseteq Greater[n]
      BY <1>0, <3>2, TreeFacts, GreaterIsOrder DEF IsTree
    <3>4. /\ \A c \in Pointer : g[<<t.left[n], c>>] = Found(t.left[n], c)
          /\ \A c \in Pointer : g[<<t.right[n], c>>] = Found(t.right[n], c)
      BY <2>1, <2>3, <3>1, <3>3 DEF Pointer
    <3>5. CASE n \in P
      <4>1. g[<<n, b>>] = Found(t.left[n], n)
        BY <2>2, <3>2, <3>4, <3>5
      <4> DEFINE v == IF f[t.left[n]] \cap P = {} THEN n ELSE First(Greater, f[t.left[n]] \cap P)
      <4>2. f[t.left[n]] \cap P # {} =>
              /\ First(Greater, f[t.left[n]] \cap P) \in f[t.left[n]] \cap P
              /\ \A x \in f[t.left[n]] \cap P :
                   \/ x = First(Greater, f[t.left[n]] \cap P)
                   \/ x \in Greater[First(Greater, f[t.left[n]] \cap P)]
        BY <3>3, FirstFacts, GreaterIsOrder
      <4>3. v \in f[n] \cap P
        BY <3>3, <3>5, <4>2
      <4>4. v \in {n} \cup f[t.left[n]] /\ \A x \in f[t.left[n]] \cap P : x = v \/ x \in Greater[v]
        BY <4>2
      <4> HIDE DEF v
      <4>5. v # n => n \in Greater[v] /\ Greater[n] \subseteq Greater[v]
        <5>1. v # n => n \in Greater[v] /\ v \in Node /\ n \in Node
          BY <3>2, <3>3, <4>4
        <5> QED
          BY <5>1, GreaterIsOrder DEF IsOrder
      <4>6. \A x \in f[n] \cap P : x = v \/ x \in Greater[v]
        BY <3>3, <4>4, <4>5
      <4>7. v = First(Greater, f[n] \cap P)
        BY <3>3, <4>3, <4>6, FirstFacts, GreaterIsOrder
      <4> QED
        BY <3>2, <4>1, <4>3, <4>7 DEF v
    <3>6. CASE n \notin P
      <4>1. g[<<n, b>>] = Found(t.right[n], b)
        BY <2>2, <3>2, <3>4, <3>6
      <4>2. f[n] \cap P = f[t.right[n]] \cap P
        <5>1. ASSUME NEW x \in f[t.left[n]], x \in P PROVE FALSE
          BY <3>3, <3>6, <5>1
        <5> QED
          BY <3>3, <3>6, <5>1
      <4> QED
        BY <3>2, <4>1, <4>2
    <3> QED
      BY <3>5, <3>6
  <2> HIDE DEF Found
  <2> QED
    BY <2>1, <2>3, <2>4 DEF Pointer
<1> DEFINE from == CHOOSE g : Sol(g)
<1>4. Search(P) = from[<<t.root, Nil>>]
  BY DEF Search
<1> HIDE DEF Sol, Found
<1>5. Sol(from)
  BY <1>1
<1> HIDE DEF from
<1>6. from[<<t.root, Nil>>] = Found(t.root, Nil)
  BY <1>0, <1>2, <1>5
<1> QED
  BY <1>4, <1>6 DEF First, Found

\* In a well-formed search tree all the reads agree with the keys.
LEMMA ReadsAgree ==
  ASSUME NEW f, Sound(t, f)
  PROVE  Ordered
<1>1. Reached = f[t.root] /\ Reached \in SUBSET Node
  BY SoundFacts DEF Reached
<1>2. ASSUME NEW m \in Reached
      PROVE  /\ NextNode(m) = Least({k \in Reached : k > m})
             /\ PrevNode(m) = Greatest({k \in Reached : k < m})
  <2>1. /\ After(Greater, f, t.root, m) = {k \in Reached : k > m}
        /\ After(Smaller, f, t.root, m) = {k \in Reached : k < m}
    BY <1>1, OrderMeans DEF After
  <2>2. {k \in Reached : k > m} \in SUBSET Node /\ {k \in Reached : k < m} \in SUBSET Node
    BY <1>1
  <2> QED
    BY <1>1, <2>1, <2>2, NextIs, PrevIs, FirstIsLeast
<1>3. ASSUME NEW k \in Node
      PROVE  /\ Search({m \in Node : m >= k}) = Least({m \in Reached : m >= k})
             /\ Get(t, Descend(k)) = IF k \in Reached THEN k ELSE Nil
  <2> DEFINE P == {m \in Node : m >= k}
  <2>1. P \in SUBSET Node /\ \A a \in P : Greater[a] \subseteq P
    <3>1. ASSUME NEW a \in P, NEW b \in Greater[a] PROVE b \in P
      <4>1. a \in Node /\ b \in Node /\ a >= k /\ b > a
        BY OrderMeans DEF Greater
      <4> QED
        BY <4>1, NodeFacts
    <3> QED
      BY <3>1
  <2>2. f[t.root] \cap P = {m \in Reached : m >= k}
    BY <1>1
  <2>3. {m \in Reached : m >= k} \in SUBSET Node
    BY <1>1
  <2> HIDE DEF P
  <2>4. Search(P) = Least({m \in Reached : m >= k})
    BY <2>1, <2>2, <2>3, SearchIs, FirstIsLeast
  <2> QED
    BY <1>1, <2>4, DescendIs DEF P
<1> QED
  BY <1>2, <1>3 DEF Ordered

-----------------------------------------------------------------------------
(* Writing *)

LEMMA SetParentIs ==
  ASSUME NEW h \in Heap, NEW m \in Pointer, NEW p \in Pointer
  PROVE  LET r == SetParent(h, m, p)
         IN /\ r \in Heap /\ r.root = h.root /\ r.left = h.left /\ r.right = h.right
            /\ r.height = h.height
            /\ r.parent = [x \in Node |-> IF x = m THEN p ELSE h.parent[x]]
<1>1. CASE m = Nil
  BY <1>1, NodeFacts, HeapFacts DEF SetParent
<1>2. CASE m # Nil
  <2>1. SetParent(h, m, p) = [h EXCEPT !.parent[m] = p] /\ m \in Node
    BY <1>2 DEF SetParent, Pointer
  <2> QED
    BY <2>1 DEF Heap
<1> QED
  BY <1>1, <1>2

LEMMA HeightIs ==
  ASSUME NEW h \in Heap, NEW c \in Pointer
  PROVE  Height(h, c) \in Nat
BY HeapFacts DEF Height, Pointer

LEMMA UpdateHeightIs ==
  ASSUME NEW h \in Heap, NEW m \in Node
  PROVE  LET r == UpdateHeight(h, m)
             new == 1 + Max({Height(h, h.left[m]), Height(h, h.right[m])})
         IN /\ new \in Nat
            /\ r \in Heap /\ r.root = h.root /\ r.left = h.left /\ r.right = h.right
            /\ r.parent = h.parent
            /\ r.height = [x \in Node |-> IF x = m THEN new ELSE h.height[x]]
<1>1. Height(h, h.left[m]) \in Nat /\ Height(h, h.right[m]) \in Nat
  BY HeapFacts, HeightIs
<1>2. 1 + Max({Height(h, h.left[m]), Height(h, h.right[m])}) \in Nat
  BY <1>1, MaxOfTwo
<1> QED
  BY <1>2 DEF UpdateHeight, Heap

LEMMA PutIs ==
  ASSUME NEW h \in Heap, NEW s \in Slots, NEW c \in Pointer
  PROVE  LET r == Put(h, s, c)
         IN /\ r \in Heap /\ r.parent = h.parent /\ r.height = h.height
            /\ r.root = IF s = Root THEN c ELSE h.root
            /\ r.left = [x \in Node |-> IF s = Left(x) THEN c ELSE h.left[x]]
            /\ r.right = [x \in Node |-> IF s = Right(x) THEN c ELSE h.right[x]]
<1>1. CASE s = Root
  <2>1. Put(h, s, c) = [h EXCEPT !.root = c]
    BY <1>1 DEF Put, Root
  <2>2. \A x \in Node : s # Left(x) /\ s # Right(x)
    BY <1>1 DEF Root, Left, Right
  <2> QED
    BY <1>1, <2>1, <2>2 DEF Heap
<1>2. ASSUME NEW m \in Node, s = Left(m)
      PROVE  LET r == Put(h, s, c)
             IN /\ r \in Heap /\ r.parent = h.parent /\ r.height = h.height
                /\ r.root = IF s = Root THEN c ELSE h.root
                /\ r.left = [x \in Node |-> IF s = Left(x) THEN c ELSE h.left[x]]
                /\ r.right = [x \in Node |-> IF s = Right(x) THEN c ELSE h.right[x]]
  <2>1. Put(h, s, c) = [h EXCEPT !.left[m] = c]
    BY <1>2 DEF Put, Left
  <2>2. s # Root /\ \A x \in Node : (s = Left(x) <=> x = m) /\ s # Right(x)
    BY <1>2 DEF Root, Left, Right
  <2> QED
    BY <2>1, <2>2 DEF Heap
<1>3. ASSUME NEW m \in Node, s = Right(m)
      PROVE  LET r == Put(h, s, c)
             IN /\ r \in Heap /\ r.parent = h.parent /\ r.height = h.height
                /\ r.root = IF s = Root THEN c ELSE h.root
                /\ r.left = [x \in Node |-> IF s = Left(x) THEN c ELSE h.left[x]]
                /\ r.right = [x \in Node |-> IF s = Right(x) THEN c ELSE h.right[x]]
  <2>1. Put(h, s, c) = [h EXCEPT !.right[m] = c]
    BY <1>3 DEF Put, Right
  <2>2. s # Root /\ \A x \in Node : (s = Right(x) <=> x = m) /\ s # Left(x)
    BY <1>3 DEF Root, Left, Right
  <2> QED
    BY <2>1, <2>2 DEF Heap
<1> QED
  BY <1>1, <1>2, <1>3, SlotFacts

\* Each node is held by one slot, or none.
Threaded(h) == Linked(h, Node) /\ \A x \in Node : h.left[x] # Nil => h.left[x] # h.right[x]

LEMMA OneSlot ==
  ASSUME NEW h \in Heap, Threaded(h), NEW s \in Slots, NEW m \in Node, Get(h, s) = m
  PROVE  /\ s = Root <=> h.root = m
         /\ \A x \in Node : /\ s = Left(x) <=> h.left[x] = m
                            /\ s = Right(x) <=> h.right[x] = m
<1>1. m # Nil
  BY NodeFacts
<1>2. /\ h.root = m => h.parent[m] = Nil
      /\ \A x \in Node : (h.left[x] = m \/ h.right[x] = m) => h.parent[m] = x
      /\ \A x \in Node : ~ (h.left[x] = m /\ h.right[x] = m)
  BY <1>1 DEF Linked, Threaded
<1>3. \A x \in Node : x # Nil
  BY NodeFacts
<1>4. /\ \A x \in Node : s = Left(x) => h.left[x] = m
      /\ \A x \in Node : s = Right(x) => h.right[x] = m
      /\ s = Root => h.root = m
  BY SlotFacts
<1>5. s = Root \/ \E x \in Node : s = Left(x) \/ s = Right(x)
  BY SlotFacts
<1> QED
  BY <1>2, <1>3, <1>4, <1>5

-----------------------------------------------------------------------------
(* Rotations *)

\* Left and right changed over.
Flip(h) == [root |-> h.root, left |-> h.right, right |-> h.left,
            parent |-> h.parent, height |-> h.height]

\* r is h after the right child of m has taken m's place and m has become the left
\* child of that.
Rotated(h, r, m) ==
  LET mr == h.right[m]
      mrl == h.left[mr]
      hold(c) == IF c = m THEN mr ELSE c
      low == 1 + Max({Height(h, h.left[m]), Height(h, mrl)})
  IN /\ r.root = hold(h.root)
     /\ r.left = [x \in Node |-> IF x = m THEN h.left[m] ELSE IF x = mr THEN m ELSE hold(h.left[x])]
     /\ r.right = [x \in Node |-> IF x = m THEN mrl ELSE IF x = mr THEN h.right[mr] ELSE hold(h.right[x])]
     /\ r.parent = [x \in Node |-> IF x = m THEN mr ELSE IF x = mr THEN h.parent[m]
                                   ELSE IF x = mrl THEN m ELSE h.parent[x]]
     /\ r.height = [x \in Node |-> IF x = m THEN low
                                   ELSE IF x = mr THEN 1 + Max({low, Height(h, h.right[mr])})
                                   ELSE h.height[x]]

\* What a rotation needs of the pointers around m: they lead to different nodes.
Apart(h, m) ==
  LET mr == h.right[m]
  IN /\ mr \in Node /\ mr # m /\ h.left[m] \notin {m, mr}
     /\ h.left[mr] \notin {m, mr} /\ h.right[mr] \notin {m, mr}
     /\ h.left[m] # h.right[m]

LEMMA RotateLeftIs ==
  ASSUME NEW h \in Heap, Threaded(h), NEW s \in Slots, NEW m \in Node, Get(h, s) = m,
         Apart(h, m)
  PROVE  Rotated(h, RotateLeft(h, s), m) /\ RotateLeft(h, s) \in Heap
<1> DEFINE mr == h.right[m]
           mrl == h.left[mr]
           linked == [h EXCEPT !.parent[m] = mr, !.right[m] = mrl,
                               !.parent[mr] = h.parent[m], !.left[mr] = m]
           moved == SetParent(linked, mrl, m)
           up1 == UpdateHeight(moved, m)
           up2 == UpdateHeight(up1, mr)
           r == RotateLeft(h, s)
           low == 1 + Max({Height(h, h.left[m]), Height(h, mrl)})
           high == 1 + Max({low, Height(h, h.right[mr])})
<1>0. r = Put(up2, s, mr)
  BY DEF RotateLeft
<1>1. /\ h.root \in Pointer /\ h.left \in [Node -> Pointer] /\ h.right \in [Node -> Pointer]
      /\ h.parent \in [Node -> Pointer] /\ h.height \in [Node -> Nat]
      /\ mr \in Node /\ mr # m /\ mrl \in Pointer /\ mrl # m /\ mrl # mr /\ Nil \notin Node
      /\ h.left[m] \in Pointer /\ h.left[m] # m /\ h.left[m] # mr
      /\ h.right[mr] \in Pointer /\ h.right[mr] # m /\ h.right[mr] # mr
      /\ m \in Pointer /\ mr \in Pointer /\ mr = h.right[m] /\ mrl = h.left[mr]
  BY HeapFacts, NodeFacts DEF Apart
<1> HIDE DEF mr, mrl
<1>2. /\ linked \in Heap
      /\ linked.root = h.root /\ linked.left = [h.left EXCEPT ![mr] = m]
      /\ linked.right = [h.right EXCEPT ![m] = mrl]
      /\ linked.parent = [h.parent EXCEPT ![m] = mr, ![mr] = h.parent[m]]
      /\ linked.height = h.height
  BY <1>1 DEF Heap, Pointer
<1> HIDE DEF linked
<1>3. /\ moved \in Heap
      /\ moved.root = h.root /\ moved.left = [h.left EXCEPT ![mr] = m]
      /\ moved.right = [h.right EXCEPT ![m] = mrl]
      /\ moved.parent = [x \in Node |-> IF x = m THEN mr ELSE IF x = mr THEN h.parent[m]
                                        ELSE IF x = mrl THEN m ELSE h.parent[x]]
      /\ moved.height = h.height
  <2>1. linked \in Heap /\ mrl \in Pointer /\ m \in Pointer
    BY <1>1, <1>2
  <2>2. /\ moved \in Heap /\ moved.root = linked.root /\ moved.left = linked.left
        /\ moved.right = linked.right /\ moved.height = linked.height
        /\ moved.parent = [x \in Node |-> IF x = mrl THEN m ELSE linked.parent[x]]
    BY <2>1, SetParentIs
  <2> HIDE DEF moved
  <2>3. \A x \in Node : (IF x = mrl THEN m ELSE linked.parent[x]) =
                       IF x = m THEN mr ELSE IF x = mr THEN h.parent[m]
                       ELSE IF x = mrl THEN m ELSE h.parent[x]
    BY <1>1, <1>2
  <2> QED
    BY <1>2, <2>2, <2>3
<1> HIDE DEF moved
<1>4. /\ moved.left[m] = h.left[m] /\ moved.right[m] = mrl
      /\ moved.left[mr] = m /\ moved.right[mr] = h.right[mr]
  BY <1>1, <1>3
<1>5. /\ up1 \in Heap /\ low \in Nat
      /\ up1.root = h.root /\ up1.left = moved.left /\ up1.right = moved.right
      /\ up1.parent = moved.parent
      /\ up1.height = [x \in Node |-> IF x = m THEN low ELSE h.height[x]]
  <2>1. Height(moved, h.left[m]) = Height(h, h.left[m]) /\ Height(moved, mrl) = Height(h, mrl)
    BY <1>1, <1>3 DEF Height
  <2>2. low = 1 + Max({Height(moved, moved.left[m]), Height(moved, moved.right[m])})
    BY <1>4, <2>1
  <2>3. moved \in Heap
    BY <1>3
  <2> HIDE DEF low
  <2>4. /\ up1 \in Heap /\ low \in Nat
        /\ up1.root = moved.root /\ up1.left = moved.left /\ up1.right = moved.right
        /\ up1.parent = moved.parent
        /\ up1.height = [x \in Node |-> IF x = m THEN low ELSE moved.height[x]]
    BY <2>2, <2>3, UpdateHeightIs
  <2> QED
    BY <1>3, <2>4
<1> HIDE DEF up1, low
<1>6. /\ up2 \in Heap /\ high \in Nat
      /\ up2.root = h.root /\ up2.left = moved.left /\ up2.right = moved.right
      /\ up2.parent = moved.parent
      /\ up2.height = [x \in Node |-> IF x = mr THEN high ELSE up1.height[x]]
  <2>1. Height(up1, h.right[mr]) = Height(h, h.right[mr]) /\ Height(up1, m) = low
    BY <1>1, <1>5 DEF Height, Pointer
  <2>2. high = 1 + Max({Height(up1, up1.left[mr]), Height(up1, up1.right[mr])})
    BY <1>4, <1>5, <2>1
  <2>3. up1 \in Heap /\ mr \in Node
    BY <1>1, <1>5
  <2> HIDE DEF high
  <2>4. /\ up2 \in Heap /\ high \in Nat
        /\ up2.root = up1.root /\ up2.left = up1.left /\ up2.right = up1.right
        /\ up2.parent = up1.parent
        /\ up2.height = [x \in Node |-> IF x = mr THEN high ELSE up1.height[x]]
    BY <2>2, <2>3, UpdateHeightIs
  <2> QED
    BY <1>5, <2>4
<1> HIDE DEF up2, high
<1>7. /\ r \in Heap /\ r.parent = up2.parent /\ r.height = up2.height
      /\ r.root = IF s = Root THEN mr ELSE up2.root
      /\ r.left = [x \in Node |-> IF s = Left(x) THEN mr ELSE up2.left[x]]
      /\ r.right = [x \in Node |-> IF s = Right(x) THEN mr ELSE up2.right[x]]
  <2>1. up2 \in Heap /\ mr \in Pointer
    BY <1>1, <1>6
  <2> HIDE DEF r
  <2> QED
    BY <1>0, <2>1, PutIs
<1> HIDE DEF r
<1>8. /\ s = Root <=> h.root = m
      /\ \A x \in Node : /\ s = Left(x) <=> h.left[x] = m
                         /\ s = Right(x) <=> h.right[x] = m
  BY OneSlot
<1> DEFINE hold(c) == IF c = m THEN mr ELSE c
<1>9. r.root = hold(h.root)
  BY <1>6, <1>7, <1>8
<1>10. ASSUME NEW x \in Node
       PROVE  /\ r.left[x] = IF x = m THEN h.left[m] ELSE IF x = mr THEN m ELSE hold(h.left[x])
              /\ r.right[x] = IF x = m THEN mrl ELSE IF x = mr THEN h.right[mr] ELSE hold(h.right[x])
  <2>1. /\ r.left[x] = IF s = Left(x) THEN mr ELSE [h.left EXCEPT ![mr] = m][x]
        /\ r.right[x] = IF s = Right(x) THEN mr ELSE [h.right EXCEPT ![m] = mrl][x]
    BY <1>3, <1>5, <1>6, <1>7
  <2>2. /\ s = Left(x) <=> h.left[x] = m
        /\ s = Right(x) <=> h.right[x] = m
    BY <1>8
  <2> QED
    BY <1>1, <2>1, <2>2
<1>11. r.left \in [Node -> Pointer] /\ r.right \in [Node -> Pointer]
  BY <1>7, HeapFacts
<1>12. /\ r.left = [x \in Node |-> IF x = m THEN h.left[m] ELSE IF x = mr THEN m ELSE hold(h.left[x])]
       /\ r.right = [x \in Node |-> IF x = m THEN mrl ELSE IF x = mr THEN h.right[mr] ELSE hold(h.right[x])]
  <2> HIDE DEF hold
  <2> QED
    BY <1>10, <1>11
<1>13. /\ r.parent = [x \in Node |-> IF x = m THEN mr ELSE IF x = mr THEN h.parent[m]
                                     ELSE IF x = mrl THEN m ELSE h.parent[x]]
       /\ r.height = [x \in Node |-> IF x = m THEN low ELSE IF x = mr THEN high ELSE h.height[x]]
  <2>1. \A x \in Node : (IF x = mr THEN high ELSE up1.height[x]) =
                        IF x = m THEN low ELSE IF x = mr THEN high ELSE h.height[x]
    BY <1>1, <1>5
  <2> QED
    BY <1>3, <1>5, <1>6, <1>7, <2>1
<1> QED
  BY <1>7, <1>9, <1>12, <1>13 DEF Rotated, r, mr, mrl, low, high

FlipSlot(s) == IF s.side = "left" THEN Right(s.of) ELSE IF s.side = "right" THEN Left(s.of) ELSE s

LEMMA HeapEqual ==
  ASSUME NEW g \in Heap, NEW h \in Heap, g.root = h.root, g.left = h.left, g.right = h.right,
         g.parent = h.parent, g.height = h.height
  PROVE  g = h
BY DEF Heap

LEMMA FlipIs ==
  ASSUME NEW h \in Heap
  PROVE  /\ Flip(h) \in Heap /\ Flip(h).root = h.root /\ Flip(h).left = h.right
         /\ Flip(h).right = h.left /\ Flip(h).parent = h.parent /\ Flip(h).height = h.height
         /\ \A c \in Pointer : Height(Flip(h), c) = Height(h, c)
BY DEF Flip, Heap, Height

LEMMA FlipSlotIs ==
  /\ FlipSlot(Root) = Root
  /\ \A m \in Node : FlipSlot(Left(m)) = Right(m) /\ FlipSlot(Right(m)) = Left(m)
  /\ \A s \in Slots : /\ FlipSlot(s) \in Slots
                      /\ FlipSlot(s) = Root <=> s = Root
                      /\ \A m \in Node : /\ FlipSlot(s) = Left(m) <=> s = Right(m)
                                         /\ FlipSlot(s) = Right(m) <=> s = Left(m)
<1>1. /\ FlipSlot(Root) = Root
      /\ \A m \in Node : FlipSlot(Left(m)) = Right(m) /\ FlipSlot(Right(m)) = Left(m)
  BY DEF FlipSlot, Root, Left, Right
<1>2. \A m, n \in Node : /\ Left(m) = Left(n) <=> m = n
                         /\ Right(m) = Right(n) <=> m = n
                         /\ Left(m) # Right(n) /\ Left(m) # Root /\ Right(m) # Root
  BY DEF Root, Left, Right
<1> QED
  BY <1>1, <1>2, SlotFacts

LEMMA FlipWrites ==
  ASSUME NEW h \in Heap
  PROVE  /\ \A m, p \in Pointer : SetParent(Flip(h), m, p) = Flip(SetParent(h, m, p))
         /\ \A m \in Node : UpdateHeight(Flip(h), m) = Flip(UpdateHeight(h, m))
         /\ \A s \in Slots : /\ Get(Flip(h), FlipSlot(s)) = Get(h, s)
                             /\ \A c \in Pointer : Put(Flip(h), FlipSlot(s), c) = Flip(Put(h, s, c))
<1>0. Flip(h) \in Heap
  BY FlipIs
<1>1. ASSUME NEW m \in Pointer, NEW p \in Pointer
      PROVE  SetParent(Flip(h), m, p) = Flip(SetParent(h, m, p))
  <2>1. /\ SetParent(Flip(h), m, p) \in Heap /\ SetParent(h, m, p) \in Heap
        /\ Flip(SetParent(h, m, p)) \in Heap
    BY <1>0, SetParentIs, FlipIs
  <2>2. /\ SetParent(Flip(h), m, p).root = h.root /\ SetParent(Flip(h), m, p).left = h.right
        /\ SetParent(Flip(h), m, p).right = h.left /\ SetParent(Flip(h), m, p).height = h.height
        /\ SetParent(Flip(h), m, p).parent = [x \in Node |-> IF x = m THEN p ELSE h.parent[x]]
    <3> DEFINE g == Flip(h)
    <3>1. g \in Heap /\ g.root = h.root /\ g.left = h.right /\ g.right = h.left
          /\ g.height = h.height /\ g.parent = h.parent
      BY <1>0, FlipIs
    <3> HIDE DEF g
    <3>2. /\ SetParent(g, m, p).root = h.root /\ SetParent(g, m, p).left = h.right
          /\ SetParent(g, m, p).right = h.left /\ SetParent(g, m, p).height = h.height
          /\ SetParent(g, m, p).parent = [x \in Node |-> IF x = m THEN p ELSE g.parent[x]]
      BY <3>1, SetParentIs
    <3> QED
      BY <3>1, <3>2 DEF g
  <2>3. /\ SetParent(h, m, p).root = h.root /\ SetParent(h, m, p).left = h.left
        /\ SetParent(h, m, p).right = h.right /\ SetParent(h, m, p).height = h.height
        /\ SetParent(h, m, p).parent = [x \in Node |-> IF x = m THEN p ELSE h.parent[x]]
    BY SetParentIs
  <2> DEFINE x == SetParent(h, m, p)
             y == SetParent(Flip(h), m, p)
  <2>4. x \in Heap /\ y \in Heap /\ Flip(x) \in Heap
    BY <2>1
  <2>5. y.root = x.root /\ y.left = x.right /\ y.right = x.left /\ y.height = x.height /\ y.parent = x.parent
    BY <2>2, <2>3
  <2> HIDE DEF x, y
  <2>6. y = Flip(x)
    BY <2>4, <2>5, FlipIs, HeapEqual
  <2> QED
    BY <2>6 DEF x, y
<1>2. ASSUME NEW m \in Node PROVE UpdateHeight(Flip(h), m) = Flip(UpdateHeight(h, m))
  <2> DEFINE a == Height(h, h.left[m])
             b == Height(h, h.right[m])
  <2>1. /\ UpdateHeight(Flip(h), m) \in Heap /\ UpdateHeight(h, m) \in Heap
        /\ Flip(UpdateHeight(h, m)) \in Heap
    BY <1>0, UpdateHeightIs, FlipIs
  <2>2. {a, b} = {b, a}
    OBVIOUS
  <2>3. /\ Height(Flip(h), Flip(h).left[m]) = b /\ Height(Flip(h), Flip(h).right[m]) = a
    BY FlipIs, HeapFacts
  <2> HIDE DEF a, b
  <2>4. UpdateHeight(Flip(h), m).height = [x \in Node |-> IF x = m THEN 1 + Max({a, b}) ELSE h.height[x]]
    BY <1>0, <2>2, <2>3, UpdateHeightIs, FlipIs
  <2>5. UpdateHeight(h, m).height = [x \in Node |-> IF x = m THEN 1 + Max({a, b}) ELSE h.height[x]]
    BY UpdateHeightIs DEF a, b
  <2>6. Flip(UpdateHeight(h, m)).height = UpdateHeight(h, m).height
    BY <2>1, FlipIs
  <2>7. UpdateHeight(Flip(h), m).height = Flip(UpdateHeight(h, m)).height
    BY <2>4, <2>5, <2>6
  <2> DEFINE x == UpdateHeight(h, m)
             g == Flip(h)
             y == UpdateHeight(g, m)
  <2>8. x.root = h.root /\ x.left = h.left /\ x.right = h.right /\ x.parent = h.parent
    BY UpdateHeightIs
  <2>9. g \in Heap /\ g.root = h.root /\ g.left = h.right /\ g.right = h.left /\ g.parent = h.parent
    BY FlipIs
  <2> HIDE DEF g
  <2>10. y.root = g.root /\ y.left = g.left /\ y.right = g.right /\ y.parent = g.parent
    BY <2>9, UpdateHeightIs
  <2>11. x \in Heap /\ y \in Heap /\ Flip(x) \in Heap /\ y.height = Flip(x).height
    BY <2>1, <2>7 DEF g
  <2> HIDE DEF x, y
  <2>12. y = Flip(x)
    BY <2>8, <2>9, <2>10, <2>11, FlipIs, HeapEqual
  <2> QED
    BY <2>12 DEF x, y, g
<1>3. ASSUME NEW s \in Slots PROVE Get(Flip(h), FlipSlot(s)) = Get(h, s)
  BY FlipIs, FlipSlotIs, SlotFacts
<1>4. ASSUME NEW s \in Slots, NEW c \in Pointer
      PROVE  Put(Flip(h), FlipSlot(s), c) = Flip(Put(h, s, c))
  <2> DEFINE u == FlipSlot(s)
  <2>0. /\ u \in Slots
        /\ u = Root <=> s = Root
        /\ \A m \in Node : (u = Left(m) <=> s = Right(m)) /\ (u = Right(m) <=> s = Left(m))
    BY FlipSlotIs
  <2> HIDE DEF u
  <2>1. /\ Put(Flip(h), u, c) \in Heap /\ Put(h, s, c) \in Heap /\ Flip(Put(h, s, c)) \in Heap
    BY <1>0, <2>0, PutIs, FlipIs
  <2> DEFINE x == Put(h, s, c)
             g == Flip(h)
             y == Put(g, u, c)
  <2>2. /\ x.root = IF s = Root THEN c ELSE h.root
        /\ x.right = [n \in Node |-> IF s = Right(n) THEN c ELSE h.right[n]]
        /\ x.left = [n \in Node |-> IF s = Left(n) THEN c ELSE h.left[n]]
        /\ x.parent = h.parent /\ x.height = h.height
    BY PutIs
  <2>3. /\ g \in Heap /\ g.root = h.root /\ g.left = h.right /\ g.right = h.left
        /\ g.parent = h.parent /\ g.height = h.height
    BY FlipIs
  <2> HIDE DEF g
  <2>4. /\ y.root = IF u = Root THEN c ELSE g.root
        /\ y.right = [n \in Node |-> IF u = Right(n) THEN c ELSE g.right[n]]
        /\ y.left = [n \in Node |-> IF u = Left(n) THEN c ELSE g.left[n]]
        /\ y.parent = g.parent /\ y.height = g.height
    BY <2>0, <2>3, PutIs
  <2>5. x \in Heap /\ y \in Heap /\ Flip(x) \in Heap
    BY <2>1 DEF g
  <2> HIDE DEF x, y
  <2>6. y.root = x.root /\ y.left = x.right /\ y.right = x.left
    BY <2>0, <2>2, <2>3, <2>4
  <2>7. y = Flip(x)
    BY <2>2, <2>3, <2>4, <2>5, <2>6, FlipIs, HeapEqual
  <2> QED
    BY <2>7 DEF x, y, g, u
<1> QED
  BY <1>1, <1>2, <1>3, <1>4

LEMMA FlipThreaded ==
  ASSUME NEW h \in Heap
  PROVE  Threaded(Flip(h)) <=> Threaded(h)
BY FlipIs, HeapFacts DEF Threaded, Linked

\* RotateRight is RotateLeft with left and right changed over.
LEMMA RotateRightIs ==
  ASSUME NEW h \in Heap, Threaded(h), NEW s \in Slots, NEW m \in Node, Get(h, s) = m,
         Apart(Flip(h), m)
  PROVE  Rotated(Flip(h), Flip(RotateRight(h, s)), m) /\ RotateRight(h, s) \in Heap
<1> DEFINE ml == h.left[m]
           mlr == h.right[ml]
           linked == [h EXCEPT !.parent[m] = ml, !.left[m] = mlr,
                               !.parent[ml] = h.parent[m], !.right[ml] = m]
           g == Flip(h)
           glinked == [g EXCEPT !.parent[m] = ml, !.right[m] = mlr,
                                !.parent[ml] = g.parent[m], !.left[ml] = m]
           moved == SetParent(linked, mlr, m)
           up1 == UpdateHeight(moved, m)
           up2 == UpdateHeight(up1, ml)
<1>1. /\ g \in Heap /\ g.left = h.right /\ g.right = h.left /\ g.parent = h.parent
      /\ ml \in Node /\ mlr \in Pointer /\ h.parent[m] \in Pointer
      /\ Node \subseteq Pointer
  BY FlipIs, HeapFacts, NodeFacts DEF Apart
<1>2. RotateRight(h, s) = Put(up2, s, ml)
  BY DEF RotateRight
<1>3. RotateLeft(g, FlipSlot(s)) =
        Put(UpdateHeight(UpdateHeight(SetParent(glinked, mlr, m), m), ml), FlipSlot(s), ml)
  <2>1. Get(g, FlipSlot(s)) = m /\ g.right[m] = ml /\ g.left[ml] = mlr
    BY <1>1, FlipWrites
  <2> HIDE DEF g, ml, mlr
  <2> QED
    BY <2>1 DEF RotateLeft
<1>4. linked \in Heap /\ glinked = Flip(linked)
  <2>1. linked \in Heap
    BY <1>1 DEF Heap, Pointer
  <2>2. /\ linked.root = h.root /\ linked.left = [h.left EXCEPT ![m] = mlr]
        /\ linked.right = [h.right EXCEPT ![ml] = m]
        /\ linked.parent = [h.parent EXCEPT ![m] = ml, ![ml] = h.parent[m]]
        /\ linked.height = h.height
    BY DEF Heap
  <2>3. glinked \in Heap
    <3> HIDE DEF g, ml, mlr
    <3> QED
      BY <1>1 DEF Heap, Pointer
  <2>4. /\ glinked.root = g.root /\ glinked.right = [g.right EXCEPT ![m] = mlr]
        /\ glinked.left = [g.left EXCEPT ![ml] = m]
        /\ glinked.parent = [g.parent EXCEPT ![m] = ml, ![ml] = g.parent[m]]
        /\ glinked.height = g.height
    <3> HIDE DEF g, ml, mlr
    <3> QED
      BY <1>1 DEF Heap
  <2>5. g.root = h.root /\ g.height = h.height
    BY FlipIs
  <2> HIDE DEF g, linked, glinked, ml, mlr
  <2>6. Flip(linked) \in Heap
    BY <2>1, FlipIs
  <2> QED
    BY <1>1, <2>1, <2>2, <2>3, <2>4, <2>5, <2>6, FlipIs, HeapEqual
<1> HIDE DEF linked, glinked, ml, mlr
<1>5. moved \in Heap /\ SetParent(glinked, mlr, m) = Flip(moved)
  BY <1>1, <1>4, SetParentIs, FlipWrites
<1> HIDE DEF moved
<1>6. up1 \in Heap /\ UpdateHeight(Flip(moved), m) = Flip(up1)
  BY <1>5, UpdateHeightIs, FlipWrites
<1> HIDE DEF up1
<1>7. up2 \in Heap /\ UpdateHeight(Flip(up1), ml) = Flip(up2)
  BY <1>1, <1>6, UpdateHeightIs, FlipWrites
<1> HIDE DEF up2
<1>8. Put(up2, s, ml) \in Heap /\ Put(Flip(up2), FlipSlot(s), ml) = Flip(Put(up2, s, ml))
  BY <1>1, <1>7, PutIs, FlipWrites
<1>9. RotateLeft(g, FlipSlot(s)) = Flip(RotateRight(h, s)) /\ RotateRight(h, s) \in Heap
  BY <1>2, <1>3, <1>5, <1>6, <1>7, <1>8
<1>10. Get(g, FlipSlot(s)) = m /\ FlipSlot(s) \in Slots /\ Threaded(g)
  BY FlipWrites, FlipSlotIs, FlipThreaded
<1> QED
  BY <1>1, <1>9, <1>10, RotateLeftIs

LEMMA ThreadedTrees ==
  ASSUME NEW ord, IsOrder(ord), NEW h \in Heap, NEW f, Trees(h, f, ord), Linked(h, Node)
  PROVE  Threaded(h)
<1>1. ASSUME NEW x \in Node, h.left[x] # Nil PROVE h.left[x] # h.right[x]
  BY <1>1, TreeFacts DEF Trees
<1> QED
  BY <1>1 DEF Threaded

LEMMA ApartTrees ==
  ASSUME NEW ord, IsOrder(ord), NEW h \in Heap, NEW f, Trees(h, f, ord),
         NEW m \in Node, h.right[m] # Nil
  PROVE  Apart(h, m)
<1> DEFINE mr == h.right[m]
           mrl == h.left[mr]
<1>1. /\ mr \in Node /\ mr # m /\ mr \in f[mr] /\ m \notin f[mr] /\ mr \notin f[h.left[m]]
      /\ h.left[m] # m /\ h.left[m] # mr
  <2>1. /\ mr \in Pointer /\ m \notin f[mr] /\ f[h.left[m]] \cap f[mr] = {}
        /\ mr \in f[mr] /\ h.left[m] # m /\ mr # m
        /\ h.left[m] # Nil => h.left[m] # mr
    <3>1. IsTree(h.left, h.right, f, ord)
      BY DEF Trees
    <3>2. /\ h.right[m] \in Pointer /\ m \notin f[h.right[m]]
          /\ f[h.left[m]] \cap f[h.right[m]] = {}
      BY <3>1, TreeFacts
    <3>3. h.left[m] # m /\ h.right[m] # m
      BY <3>1, TreeFacts
    <3>4. h.left[m] # Nil => h.left[m] # h.right[m]
      BY <3>1, TreeFacts
    <3>5. h.right[m] \in f[h.right[m]]
      BY <3>1, TreeFacts
    <3> QED
      BY <3>2, <3>3, <3>4, <3>5
  <2> QED
    BY <2>1 DEF Pointer
<1> HIDE DEF mr
<1>2. \A c \in {h.left[mr], h.right[mr]} : c # mr /\ c # m
  <2>1. /\ h.left[mr] # mr /\ h.right[mr] # mr
        /\ f[mr] = {mr} \cup f[h.left[mr]] \cup f[h.right[mr]]
    BY <1>1, TreeFacts DEF Trees
  <2>2. m \in f[m]
    BY TreeFacts DEF Trees
  <2> QED
    BY <1>1, <2>1, <2>2
<1> QED
  BY <1>1, <1>2 DEF Apart, mr

\* What nodes lead to after a rotation.
RotatedSets(h, f, m) ==
  [x \in Pointer |-> IF x = m THEN {m} \cup f[h.left[m]] \cup f[h.left[h.right[m]]]
                     ELSE IF x = h.right[m] THEN f[m] ELSE f[x]]

LEMMA RotatedTrees ==
  ASSUME NEW ord, IsOrder(ord), NEW h \in Heap, NEW f, Trees(h, f, ord), Threaded(h),
         NEW m \in Node, h.right[m] # Nil, NEW r \in Heap, Rotated(h, r, m)
  PROVE  /\ Trees(r, RotatedSets(h, f, m), ord) /\ Threaded(r)
         /\ RotatedSets(h, f, m)[r.root] = f[h.root]
<1> DEFINE mr == h.right[m]
           mrl == h.left[mr]
           mrr == h.right[mr]
           ml == h.left[m]
           hold(c) == IF c = m THEN mr ELSE c
           f2 == RotatedSets(h, f, m)
<1>1. /\ mr \in Node /\ mr # m /\ ml # m /\ ml # mr /\ mrl # m /\ mrl # mr /\ mrr # m /\ mrr # mr
      /\ ml \in Pointer /\ mrl \in Pointer /\ mrr \in Pointer /\ Nil \notin Node
      /\ m = m /\ mr = h.right[m] /\ mrl = h.left[mr] /\ mrr = h.right[mr] /\ ml = h.left[m]
  BY ApartTrees, HeapFacts, NodeFacts DEF Apart
<1>2. /\ IsTree(h.left, h.right, f, ord) /\ f \in [Pointer -> SUBSET Node]
      /\ f[Nil] = {}
  BY DEF Trees, IsTree
<1>3. /\ f[m] = {m} \cup f[ml] \cup f[mr] /\ f[mr] = {mr} \cup f[mrl] \cup f[mrr]
      /\ \A k \in f[ml] : m \in ord[k]
      /\ f[mr] \subseteq ord[m]
      /\ \A k \in f[mrl] : mr \in ord[k]
      /\ f[mrr] \subseteq ord[mr]
  BY <1>1, <1>2 DEF IsTree
<1>4. /\ r.root = hold(h.root)
      /\ \A x \in Node :
           /\ r.left[x] = IF x = m THEN ml ELSE IF x = mr THEN m ELSE hold(h.left[x])
           /\ r.right[x] = IF x = m THEN mrl ELSE IF x = mr THEN mrr ELSE hold(h.right[x])
           /\ r.parent[x] = IF x = m THEN mr ELSE IF x = mr THEN h.parent[m]
                            ELSE IF x = mrl THEN m ELSE h.parent[x]
  BY DEF Rotated
<1> HIDE DEF mr, mrl, mrr, ml
<1>5. /\ \A x \in Pointer : f2[x] = IF x = m THEN {m} \cup f[ml] \cup f[mrl]
                                    ELSE IF x = mr THEN f[m] ELSE f[x]
      /\ f2 \in [Pointer -> SUBSET Node]
  <2>1. f2 = [x \in Pointer |-> IF x = m THEN {m} \cup f[ml] \cup f[mrl]
                               ELSE IF x = mr THEN f[m] ELSE f[x]]
    BY DEF RotatedSets, mr, mrl, ml
  <2> QED
    BY <1>1, <1>2, <2>1, NodeFacts
<1> HIDE DEF f2
<1>6. /\ h.root # Nil => h.parent[h.root] = Nil
      /\ \A x \in Node : /\ h.left[x] # Nil => h.parent[h.left[x]] = x
                         /\ h.right[x] # Nil => h.parent[h.right[x]] = x
      /\ \A x \in Node : h.left[x] # Nil => h.left[x] # h.right[x]
  BY DEF Threaded, Linked
<1>7. \A x \in Node : h.left[x] \in Pointer /\ h.right[x] \in Pointer
  BY HeapFacts
<1>8. ASSUME NEW x \in Node, x # m
      PROVE  h.left[x] # mr /\ h.right[x] # mr /\ f2[hold(h.left[x])] = f[h.left[x]] /\ f2[hold(h.right[x])] = f[h.right[x]]
  <2>1. h.left[x] # mr /\ h.right[x] # mr
    BY <1>1, <1>6, <1>8
  <2>2. m \in Pointer /\ mr \in Pointer
    BY <1>1, NodeFacts
  <2> QED
    BY <1>1, <1>5, <1>7, <2>1, <2>2
<1>9. f2[Nil] = {} /\ f2[r.root] = f[h.root]
  <2>1. h.root \in Pointer /\ Nil \in Pointer /\ mr \in Pointer
    BY <1>1, HeapFacts, NodeFacts
  <2>2. h.root # mr
    BY <1>1, <1>6
  <2> QED
    BY <1>1, <1>2, <1>4, <1>5, <2>1, <2>2
<1>10. ASSUME NEW x \in Node
       PROVE  /\ f2[x] = {x} \cup f2[r.left[x]] \cup f2[r.right[x]]
              /\ \A k \in f2[r.left[x]] : x \in ord[k]
              /\ f2[r.right[x]] \subseteq ord[x]
  <2>0. m \in Pointer /\ mr \in Pointer
    BY <1>1, NodeFacts
  <2>1. CASE x = m
    <3>1. f2[r.left[x]] = f[ml] /\ f2[r.right[x]] = f[mrl]
      BY <1>1, <1>4, <1>5, <2>1
    <3> QED
      BY <1>3, <1>5, <2>0, <2>1, <3>1
  <2>2. CASE x = mr
    <3>1. f2[r.left[x]] = {m} \cup f[ml] \cup f[mrl] /\ f2[r.right[x]] = f[mrr]
      BY <1>1, <1>4, <1>5, <2>0, <2>2
    <3>2. f2[x] = f[m] /\ mr \in f[mr]
      BY <1>1, <1>3, <1>5, <2>0, <2>2
    <3>3. \A k \in f[ml] : mr \in ord[k]
      <4>1. mr \in ord[m]
        BY <1>3
      <4>2. \A k \in f[ml] : k \in Node /\ m \in ord[k]
        BY <1>1, <1>2, <1>3
      <4> QED
        BY <4>1, <4>2 DEF IsOrder
    <3> QED
      BY <1>3, <2>2, <3>1, <3>2, <3>3
  <2>3. CASE x # m /\ x # mr
    <3>1. f2[r.left[x]] = f[h.left[x]] /\ f2[r.right[x]] = f[h.right[x]]
      BY <1>4, <1>8, <2>3
    <3>2. f2[x] = f[x]
      BY <1>5, <2>3, NodeFacts
    <3>3. /\ f[x] = {x} \cup f[h.left[x]] \cup f[h.right[x]]
          /\ \A k \in f[h.left[x]] : x \in ord[k]
          /\ f[h.right[x]] \subseteq ord[x]
      BY <1>2 DEF IsTree
    <3> QED
      BY <3>1, <3>2, <3>3
  <2> QED
    BY <2>1, <2>2, <2>3
<1>11. Trees(r, f2, ord)
  <2>1. r.left \in [Node -> Pointer] /\ r.right \in [Node -> Pointer]
    BY HeapFacts
  <2> QED
    BY <1>5, <1>9, <1>10, <2>1 DEF Trees, IsTree
<1>12. ASSUME NEW x \in Node
       PROVE  /\ r.left[x] # Nil => r.parent[r.left[x]] = x
              /\ r.right[x] # Nil => r.parent[r.right[x]] = x
  <2>1. CASE x = m
    BY <1>1, <1>4, <1>6, <2>1 DEF Pointer
  <2>2. CASE x = mr
    BY <1>1, <1>4, <1>6, <2>2 DEF Pointer
  <2>3. CASE x # m /\ x # mr
    BY <1>1, <1>4, <1>6, <1>7, <2>3 DEF Pointer
  <2> QED
    BY <2>1, <2>2, <2>3
<1>13. r.root # Nil => r.parent[r.root] = Nil
  <2>1. h.root \in Pointer /\ h.root # mr /\ (h.root # Nil => h.root # mrl)
    BY <1>1, <1>6, HeapFacts DEF Pointer
  <2> QED
    BY <1>1, <1>4, <1>6, <2>1 DEF Pointer
<1>14. Linked(r, Node)
  BY <1>12, <1>13 DEF Linked
<1> QED
  BY <1>9, <1>11, <1>14, ThreadedTrees DEF f2

\* The heights of two subtrees, the higher one first in the sum.
LEMMA GoodIs ==
  ASSUME NEW h \in Heap, NEW m \in Node
  PROVE  LET l == Height(h, h.left[m])
             r == Height(h, h.right[m])
         IN /\ l \in Nat /\ r \in Nat /\ Balance(h, m) = l - r
            /\ Max({l, r}) = IF l > r THEN l ELSE r
            /\ Good(h, m) <=> /\ h.height[m] = 1 + IF l > r THEN l ELSE r
                              /\ -1 <= l - r /\ l - r <= 1
            /\ WasGood(h, m) <=>
                 \E dl, dr \in -1..1 :
                   /\ dl = 0 \/ dr = 0
                   /\ h.height[m] = 1 + IF l + dl > r + dr THEN l + dl ELSE r + dr
                   /\ -1 <= (l + dl) - (r + dr) /\ (l + dl) - (r + dr) <= 1
<1> DEFINE l == Height(h, h.left[m])
           r == Height(h, h.right[m])
<1>1. l \in Nat /\ r \in Nat
  BY HeapFacts, HeightIs
<1>2. Balance(h, m) = l - r
  BY DEF Balance
<1>3. Good(h, m) <=> h.height[m] = 1 + Max({l, r}) /\ Balance(h, m) \in -1..1
  BY DEF Good
<1>4. WasGood(h, m) <=>
        \E dl, dr \in -1..1 :
          /\ dl = 0 \/ dr = 0
          /\ h.height[m] = 1 + Max({l + dl, r + dr}) /\ (l + dl) - (r + dr) \in -1..1
  BY DEF WasGood
<1> HIDE DEF l, r
<1>5. Max({l, r}) = IF l > r THEN l ELSE r
  BY <1>1, MaxOfTwo
<1>6. Good(h, m) <=> /\ h.height[m] = 1 + IF l > r THEN l ELSE r
                     /\ -1 <= l - r /\ l - r <= 1
  BY <1>1, <1>2, <1>3, <1>5
<1>7. ASSUME NEW dl \in -1..1, NEW dr \in -1..1
      PROVE  /\ Max({l + dl, r + dr}) = IF l + dl > r + dr THEN l + dl ELSE r + dr
             /\ (l + dl) - (r + dr) \in -1..1 <=> -1 <= (l + dl) - (r + dr) /\ (l + dl) - (r + dr) <= 1
  <2>1. l + dl \in Int /\ r + dr \in Int
    BY <1>1
  <2> QED
    BY <2>1, MaxOfTwo
<1>8. WasGood(h, m) <=>
        \E dl, dr \in -1..1 :
          /\ dl = 0 \/ dr = 0
          /\ h.height[m] = 1 + IF l + dl > r + dr THEN l + dl ELSE r + dr
          /\ -1 <= (l + dl) - (r + dr) /\ (l + dl) - (r + dr) <= 1
  BY <1>4, <1>7
<1> QED
  BY <1>1, <1>2, <1>5, <1>6, <1>8 DEF l, r

\* A node whose own height is right stays so when what it looks at stays.
LEMMA GoodSame ==
  ASSUME NEW h, NEW r, NEW m, r.height[m] = h.height[m],
         Height(r, r.left[m]) = Height(h, h.left[m]),
         Height(r, r.right[m]) = Height(h, h.right[m])
  PROVE  /\ Balance(r, m) = Balance(h, m)
         /\ Good(r, m) <=> Good(h, m)
         /\ WasGood(r, m) <=> WasGood(h, m)
BY DEF Good, WasGood, Balance

\* A node was good when one of its children has changed its height by one.
LEMMA GoodBefore ==
  ASSUME NEW h \in Heap, NEW r \in Heap, NEW m \in Node, Good(h, m),
         r.height[m] = h.height[m],
         NEW dl \in -1..1, NEW dr \in -1..1, dl = 0 \/ dr = 0,
         Height(h, h.left[m]) = Height(r, r.left[m]) + dl,
         Height(h, h.right[m]) = Height(r, r.right[m]) + dr
  PROVE  WasGood(r, m)
BY DEF Good, WasGood, Balance

LEMMA FlipGood ==
  ASSUME NEW h \in Heap, NEW m \in Node
  PROVE  /\ Good(Flip(h), m) <=> Good(h, m)
         /\ WasGood(Flip(h), m) <=> WasGood(h, m)
<1> DEFINE g == Flip(h)
           l == Height(h, h.left[m])
           r == Height(h, h.right[m])
<1>1. g \in Heap /\ g.height = h.height /\ l \in Nat /\ r \in Nat /\ h.height[m] \in Nat
  BY FlipIs, HeapFacts, HeightIs
<1>2. Height(g, g.left[m]) = r /\ Height(g, g.right[m]) = l
  BY FlipIs, HeapFacts
<1> HIDE DEF g, l, r
<1>3. Good(g, m) <=> /\ h.height[m] = 1 + IF r > l THEN r ELSE l
                     /\ -1 <= r - l /\ r - l <= 1
  BY <1>1, <1>2, GoodIs
<1>4. Good(h, m) <=> /\ h.height[m] = 1 + IF l > r THEN l ELSE r
                     /\ -1 <= l - r /\ l - r <= 1
  BY GoodIs DEF l, r
<1> DEFINE P(x, y, dx, dy) == /\ dx = 0 \/ dy = 0
                              /\ h.height[m] = 1 + IF x + dx > y + dy THEN x + dx ELSE y + dy
                              /\ -1 <= (x + dx) - (y + dy) /\ (x + dx) - (y + dy) <= 1
<1>5. WasGood(g, m) <=> \E dl, dr \in -1..1 : P(r, l, dl, dr)
  <2> DEFINE lg == Height(g, g.left[m])
             rg == Height(g, g.right[m])
  <2>1. g.height[m] = h.height[m]
    BY <1>1
  <2>2. WasGood(g, m) <=>
          \E dl, dr \in -1..1 :
            /\ dl = 0 \/ dr = 0
            /\ g.height[m] = 1 + IF lg + dl > rg + dr THEN lg + dl ELSE rg + dr
            /\ -1 <= (lg + dl) - (rg + dr) /\ (lg + dl) - (rg + dr) <= 1
    BY <1>1, GoodIs
  <2>3. lg = r /\ rg = l
    BY <1>2
  <2> HIDE DEF lg, rg
  <2> QED
    BY <2>1, <2>2, <2>3
<1>6. WasGood(h, m) <=> \E dl, dr \in -1..1 : P(l, r, dl, dr)
  BY GoodIs DEF l, r
<1>7. ASSUME NEW dl \in -1..1, NEW dr \in -1..1 PROVE P(l, r, dl, dr) <=> P(r, l, dr, dl)
  BY <1>1
<1> HIDE DEF P
<1>8. WasGood(g, m) <=> WasGood(h, m)
  BY <1>5, <1>6, <1>7
<1>9. Good(g, m) <=> Good(h, m)
  BY <1>1, <1>3, <1>4
<1> QED
  BY <1>8, <1>9 DEF g

LEMMA RotatedHeights ==
  ASSUME NEW h \in Heap, Threaded(h), NEW m \in Node, Apart(h, m), NEW r \in Heap, Rotated(h, r, m)
  PROVE  LET mr == h.right[m]
             mrl == h.left[mr]
             a == Height(h, h.left[m])
             b == Height(h, mrl)
             c == Height(h, h.right[mr])
             low == 1 + IF a > b THEN a ELSE b
             high == 1 + IF low > c THEN low ELSE c
         IN /\ a \in Nat /\ b \in Nat /\ c \in Nat
            /\ r.height[m] = low /\ r.height[mr] = high
            /\ Height(r, r.left[m]) = a /\ Height(r, r.right[m]) = b
            /\ Height(r, r.left[mr]) = low /\ Height(r, r.right[mr]) = c
            /\ \A x \in Node \ {m, mr} :
                 /\ r.height[x] = h.height[x]
                 /\ Height(r, r.left[x]) = IF h.left[x] = m THEN high ELSE Height(h, h.left[x])
                 /\ Height(r, r.right[x]) = IF h.right[x] = m THEN high ELSE Height(h, h.right[x])
<1> DEFINE mr == h.right[m]
           mrl == h.left[mr]
           a == Height(h, h.left[m])
           b == Height(h, mrl)
           c == Height(h, h.right[mr])
           low == 1 + IF a > b THEN a ELSE b
           high == 1 + IF low > c THEN low ELSE c
           hold(n) == IF n = m THEN mr ELSE n
<1>1. /\ mr \in Node /\ mr # m /\ h.left[m] # m /\ h.left[m] # mr /\ mrl # m /\ mrl # mr
      /\ h.right[mr] # m /\ h.right[mr] # mr /\ Nil \notin Node
      /\ \A x \in Node : h.left[x] \in Pointer /\ h.right[x] \in Pointer
      /\ a \in Nat /\ b \in Nat /\ c \in Nat
  BY HeapFacts, HeightIs, NodeFacts DEF Apart
<1>2. /\ \A x \in Node :
           /\ r.left[x] = IF x = m THEN h.left[m] ELSE IF x = mr THEN m ELSE hold(h.left[x])
           /\ r.right[x] = IF x = m THEN mrl ELSE IF x = mr THEN h.right[mr] ELSE hold(h.right[x])
      /\ r.height = [x \in Node |-> IF x = m THEN 1 + Max({a, b})
                                    ELSE IF x = mr THEN 1 + Max({1 + Max({a, b}), c})
                                    ELSE h.height[x]]
  BY DEF Rotated
<1> HIDE DEF a, b, c
<1>3. 1 + Max({a, b}) = low /\ low \in Nat
  BY <1>1, MaxOfTwo
<1>4. 1 + Max({low, c}) = high /\ high \in Nat
  BY <1>1, <1>3, MaxOfTwo
<1> HIDE DEF low, high
<1>5. r.height = [x \in Node |-> IF x = m THEN low ELSE IF x = mr THEN high ELSE h.height[x]]
  BY <1>2, <1>3, <1>4
<1>6. \A x \in Pointer : Height(r, x) = IF x = m THEN low ELSE IF x = mr THEN high ELSE Height(h, x)
  BY <1>1, <1>5 DEF Height, Pointer
<1>7. /\ r.height[m] = low /\ r.height[mr] = high
      /\ Height(r, r.left[m]) = a /\ Height(r, r.right[m]) = b
      /\ Height(r, r.left[mr]) = low /\ Height(r, r.right[mr]) = c
  <2>1. /\ r.left[m] = h.left[m] /\ r.right[m] = mrl /\ r.left[mr] = m /\ r.right[mr] = h.right[mr]
        /\ h.left[m] \in Pointer /\ mrl \in Pointer /\ m \in Pointer /\ h.right[mr] \in Pointer
    BY <1>1, <1>2, NodeFacts
  <2> QED
    BY <1>1, <1>5, <1>6, <2>1 DEF a, b, c
<1>8. ASSUME NEW x \in Node \ {m, mr}
      PROVE  /\ r.height[x] = h.height[x]
             /\ Height(r, r.left[x]) = IF h.left[x] = m THEN high ELSE Height(h, h.left[x])
             /\ Height(r, r.right[x]) = IF h.right[x] = m THEN high ELSE Height(h, h.right[x])
  <2>1. h.left[x] # mr /\ h.right[x] # mr
    BY <1>1 DEF Threaded, Linked
  <2>2. mr \in Pointer
    BY <1>1, NodeFacts
  <2>3. r.left[x] = hold(h.left[x]) /\ r.right[x] = hold(h.right[x])
    BY <1>2
  <2> QED
    BY <1>1, <1>5, <1>6, <2>1, <2>2, <2>3
<1> QED
  BY <1>1, <1>7, <1>8 DEF low, high, a, b, c

\* No height but by d exceeds the number of nodes.
Within(h, f, d) == \A x \in Node : h.height[x] <= Cardinality(f[x]) + d

LEMMA FitsHigher ==
  ASSUME NEW ord, IsOrder(ord), NEW h \in Heap, NEW f, Trees(h, f, ord), NEW d \in Nat,
         NEW m \in Node, NEW a \in Nat, NEW b \in Nat,
         a <= Cardinality(f[h.left[m]]) + d, b <= Cardinality(f[h.right[m]]) + d
  PROVE  1 + (IF a > b THEN a ELSE b) <= Cardinality(f[m]) + d
<1>1. /\ Cardinality(f[m]) \in Nat
      /\ Cardinality(f[h.left[m]]) \in Nat /\ Cardinality(f[h.left[m]]) < Cardinality(f[m])
      /\ Cardinality(f[h.right[m]]) \in Nat /\ Cardinality(f[h.right[m]]) < Cardinality(f[m])
  BY TreeSizes DEF Trees
<1> QED
  BY <1>1

LEMMA FitsChild ==
  ASSUME NEW h \in Heap, NEW f, f[Nil] = {}, NEW d \in Nat, Within(h, f, d), NEW c \in Pointer
  PROVE  Height(h, c) <= Cardinality(f[c]) + d
<1>1. CASE c = Nil
  BY <1>1, FS_EmptySet DEF Height
<1>2. CASE c # Nil
  BY <1>2 DEF Height, Within, Pointer
<1> QED
  BY <1>1, <1>2

LEMMA RotatedFits ==
  ASSUME NEW ord, IsOrder(ord), NEW h \in Heap, NEW f, Trees(h, f, ord), Threaded(h),
         NEW m \in Node, h.right[m] # Nil, NEW r \in Heap, Rotated(h, r, m),
         NEW d \in Nat, Within(h, f, d)
  PROVE  Within(r, RotatedSets(h, f, m), d)
<1> DEFINE mr == h.right[m]
           mrl == h.left[mr]
           mrr == h.right[mr]
           ml == h.left[m]
           f2 == RotatedSets(h, f, m)
           a == Height(h, ml)
           b == Height(h, mrl)
           c == Height(h, mrr)
           low == 1 + IF a > b THEN a ELSE b
           high == 1 + IF low > c THEN low ELSE c
<1>1. /\ mr \in Node /\ mr # m /\ ml # m /\ ml # mr /\ mrl # m /\ mrl # mr /\ mrr # m /\ mrr # mr
      /\ ml \in Pointer /\ mrl \in Pointer /\ mrr \in Pointer
      /\ m \in Pointer /\ mr \in Pointer /\ Node \subseteq Pointer
  BY ApartTrees, HeapFacts, NodeFacts DEF Apart
<1>2. Trees(r, f2, ord) /\ Apart(h, m)
  BY RotatedTrees, ApartTrees
<1>3. f2 = [x \in Pointer |-> IF x = m THEN {m} \cup f[ml] \cup f[mrl]
                             ELSE IF x = mr THEN f[m] ELSE f[x]]
  BY DEF RotatedSets
<1>4. /\ a \in Nat /\ b \in Nat /\ c \in Nat
      /\ r.height[m] = low /\ r.height[mr] = high
      /\ \A x \in Node \ {m, mr} : r.height[x] = h.height[x]
  BY <1>2, RotatedHeights
<1>5. /\ r.left[m] = ml /\ r.right[m] = mrl /\ r.left[mr] = m /\ r.right[mr] = mrr
  BY <1>1 DEF Rotated
<1>6. f[Nil] = {}
  BY DEF Trees, IsTree
<1>7. /\ a <= Cardinality(f[ml]) + d /\ b <= Cardinality(f[mrl]) + d /\ c <= Cardinality(f[mrr]) + d
  BY <1>1, <1>6, FitsChild
<1> HIDE DEF ml, mr, mrl, mrr, f2, a, b, c
<1>8. f2[ml] = f[ml] /\ f2[mrl] = f[mrl] /\ f2[mrr] = f[mrr]
  BY <1>1, <1>3
<1>9. low <= Cardinality(f2[m]) + d /\ low \in Nat
  BY <1>2, <1>4, <1>5, <1>7, <1>8, FitsHigher
<1> HIDE DEF low
<1>10. high <= Cardinality(f2[mr]) + d
  BY <1>1, <1>2, <1>4, <1>5, <1>7, <1>8, <1>9, FitsHigher
<1> HIDE DEF high
<1>11. ASSUME NEW x \in Node PROVE r.height[x] <= Cardinality(f2[x]) + d
  <2>1. x \notin {m, mr} => f2[x] = f[x]
    BY <1>1, <1>3
  <2> QED
    BY <1>4, <1>9, <1>10, <2>1 DEF Within
<1> QED
  BY <1>11 DEF Within, f2

\* What rebalancing at m by rotations has done, when top is now the root of the
\* nodes that m led to.
Settled(h, r, f, f2, m, top, ord) ==
  /\ r \in Heap /\ Trees(r, f2, ord) /\ Threaded(r) /\ f2[r.root] = f[h.root]
  /\ top \in f[m] /\ r.parent[m] = top /\ r.parent[top] = h.parent[m]
  /\ Good(r, m) /\ Good(r, top)
  /\ \A x \in Node : x # m /\ x # h.parent[m] /\ Good(h, x) => Good(r, x)
  /\ \A x \in Node :
       x = h.parent[m] =>
         /\ r.height[x] = h.height[x]
         /\ Height(r, r.left[x]) = IF h.left[x] = m THEN r.height[top] ELSE Height(h, h.left[x])
         /\ Height(r, r.right[x]) = IF h.right[x] = m THEN r.height[top] ELSE Height(h, h.right[x])
  /\ \A x \in Node \ f[m] : /\ r.height[x] = h.height[x] /\ r.parent[x] = h.parent[x]
                            /\ h.left[x] = Nil => r.left[x] = Nil
                            /\ h.right[x] = Nil => r.right[x] = Nil

\* m is two lower on the left, and its right child no higher on the left.
LEMMA SingleSettles ==
  ASSUME NEW ord, IsOrder(ord), NEW h \in Heap, NEW f, Trees(h, f, ord), Threaded(h),
         NEW m \in f[h.root], NEW r \in Heap, Rotated(h, r, m), h.right[m] # Nil,
         LET mr == h.right[m]
             low == Height(h, h.left[m])
         IN /\ Height(h, mr) = low + 2 /\ Good(h, mr)
            /\ Height(h, h.left[mr]) <= Height(h, h.right[mr])
  PROVE  /\ Settled(h, r, f, RotatedSets(h, f, m), m, h.right[m], ord)
         /\ r.height[h.right[m]] - Height(h, h.left[m]) \in 2..3
<1> DEFINE mr == h.right[m]
           mrl == h.left[mr]
           mrr == h.right[mr]
           ml == h.left[m]
           f2 == RotatedSets(h, f, m)
           a == Height(h, ml)
           b == Height(h, mrl)
           c == Height(h, mrr)
           low == 1 + IF a > b THEN a ELSE b
           high == 1 + IF low > c THEN low ELSE c
<1>0. /\ m \in Node
      /\ m = h.root => h.parent[m] = Nil
      /\ m # h.root => m \in {h.left[h.parent[m]], h.right[h.parent[m]]}
  <2>1. f[h.root] \in SUBSET Node /\ Linked(h, f[h.root])
    BY HeapFacts DEF Trees, IsTree, Threaded, Linked
  <2> QED
    BY <2>1, ParentInside
<1>1. /\ mr \in Node /\ mr # m /\ ml # m /\ ml # mr /\ mrl # m /\ mrl # mr /\ mrr # m /\ mrr # mr
      /\ ml \in Pointer /\ mrl \in Pointer /\ mrr \in Pointer
      /\ m \in Node /\ m # Nil /\ mr # Nil /\ Apart(h, m)
  BY <1>0, ApartTrees, HeapFacts, NodeFacts DEF Apart
<1>2. r \in Heap /\ Trees(r, f2, ord) /\ Threaded(r) /\ f2[r.root] = f[h.root]
  BY <1>0, RotatedTrees
<1>3. /\ a \in Nat /\ b \in Nat /\ c \in Nat
      /\ r.height[m] = low /\ r.height[mr] = high
      /\ Height(r, r.left[m]) = a /\ Height(r, r.right[m]) = b
      /\ Height(r, r.left[mr]) = low /\ Height(r, r.right[mr]) = c
  BY <1>1, RotatedHeights
<1>4. \A x \in Node \ {m, mr} :
         /\ r.height[x] = h.height[x]
         /\ Height(r, r.left[x]) = IF h.left[x] = m THEN high ELSE Height(h, h.left[x])
         /\ Height(r, r.right[x]) = IF h.right[x] = m THEN high ELSE Height(h, h.right[x])
  BY <1>1, RotatedHeights
<1>5. \A x \in Node : /\ r.parent[x] = IF x = m THEN mr ELSE IF x = mr THEN h.parent[m]
                                       ELSE IF x = mrl THEN m ELSE h.parent[x]
                      /\ x # m /\ x # mr /\ h.left[x] = Nil => r.left[x] = Nil
                      /\ x # m /\ x # mr /\ h.right[x] = Nil => r.right[x] = Nil
  BY <1>1 DEF Rotated
<1>6. /\ mr \in f[m] /\ m \in f[m] /\ (mrl # Nil => mrl \in f[m])
      /\ \A x \in Node : (h.left[x] = m \/ h.right[x] = m) => h.parent[m] = x
      /\ h.parent[m] # m /\ h.parent[m] # mr
  <2>1. /\ IsTree(h.left, h.right, f, ord)
        /\ f[m] = {m} \cup f[ml] \cup f[mr] /\ f[mr] = {mr} \cup f[mrl] \cup f[mrr]
    BY <1>1 DEF Trees, IsTree
  <2>2. mrl # Nil => mrl \in f[mrl]
    BY <1>1, <2>1, TreeFacts
  <2>3. \A x \in Node : (h.left[x] = m \/ h.right[x] = m) => h.parent[m] = x
    BY <1>1 DEF Threaded, Linked
  <2>4. mr \in f[m] /\ m \in f[m] /\ (mrl # Nil => mrl \in f[m])
    BY <2>1, <2>2
  <2>5. h.parent[m] # m /\ h.parent[m] # mr
    BY <1>0, <1>1
  <2> QED
    BY <2>3, <2>4, <2>5
<1>7. high = r.height[mr] /\ high - a \in 2..3 /\ Good(r, m) /\ Good(r, mr)
  <2>1. /\ h.height[mr] = 1 + IF b > c THEN b ELSE c
        /\ -1 <= b - c /\ b - c <= 1
    BY <1>1, GoodIs
  <2>2. h.height[mr] = a + 2 /\ b <= c
    BY <1>1 DEF Height
  <2> HIDE DEF a, b, c, mr
  <2>3. high - a \in 2..3 /\ -1 <= a - b /\ a - b <= 1 /\ -1 <= low - c /\ low - c <= 1
    BY <1>3, <2>1, <2>2
  <2>4. Good(r, m) /\ Good(r, mr)
    <3>1. /\ Good(r, m) <=> /\ r.height[m] = 1 + IF a > b THEN a ELSE b
                            /\ -1 <= a - b /\ a - b <= 1
      BY <1>1, <1>3, GoodIs
    <3> HIDE DEF low
    <3>2. Good(r, mr) <=> /\ r.height[mr] = 1 + IF low > c THEN low ELSE c
                          /\ -1 <= low - c /\ low - c <= 1
      BY <1>1, <1>3, GoodIs
    <3> QED
      BY <1>3, <2>3, <3>1, <3>2 DEF low
  <2> QED
    BY <1>3, <2>3, <2>4
<1> HIDE DEF high, mr, f2
<1>8. ASSUME NEW x \in Node, x # m, x # h.parent[m], Good(h, x) PROVE Good(r, x)
  BY <1>4, <1>6, <1>7, <1>8, GoodSame
<1>9. ASSUME NEW x \in Node \ f[m]
      PROVE  /\ r.height[x] = h.height[x] /\ r.parent[x] = h.parent[x]
             /\ h.left[x] = Nil => r.left[x] = Nil
             /\ h.right[x] = Nil => r.right[x] = Nil
  <2>1. x # m /\ x # mr /\ x # mrl
    BY <1>6, NodeFacts
  <2> QED
    BY <1>4, <1>5, <2>1
<1>10. r.parent[m] = mr /\ r.parent[mr] = h.parent[m]
  BY <1>1, <1>5
<1>11. Settled(h, r, f, f2, m, mr, ord)
  BY <1>2, <1>4, <1>6, <1>7, <1>8, <1>9, <1>10 DEF Settled
<1> QED
  BY <1>7, <1>11 DEF mr, f2

LEMMA FlipTrees ==
  ASSUME NEW ord, NEW dro, Opposite(ord, dro), NEW h \in Heap, NEW f
  PROVE  Trees(Flip(h), f, dro) <=> Trees(h, f, ord)
BY FlipIs, Mirror DEF Trees

\* m is two lower on the left, and its right child higher on the left: that one
\* rotates first, the other way round.
LEMMA DoubleSettles ==
  ASSUME NEW ord, NEW dro, Opposite(ord, dro), NEW h \in Heap, NEW f, Trees(h, f, ord), Threaded(h),
         NEW m \in f[h.root], h.right[m] # Nil,
         NEW i \in Heap, Rotated(Flip(h), Flip(i), h.right[m]),
         NEW r \in Heap, Rotated(i, r, m), NEW d \in Nat, Within(h, f, d),
         LET mr == h.right[m]
             low == Height(h, h.left[m])
         IN /\ Height(h, mr) = low + 2 /\ Good(h, mr)
            /\ Height(h, h.left[mr]) > Height(h, h.right[mr])
            /\ h.left[mr] # Nil => Good(h, h.left[mr])
  PROVE  \E f2 : /\ Settled(h, r, f, f2, m, h.left[h.right[m]], ord)
                 /\ r.height[h.left[h.right[m]]] - Height(h, h.left[m]) \in 2..3
                 /\ Within(r, f2, d)
<1> DEFINE mr == h.right[m]
           mrl == h.left[mr]
           mrr == h.right[mr]
           ml == h.left[m]
           ma == h.left[mrl]
           mb == h.right[mrl]
           g == Flip(h)
           e == Flip(i)
           f3 == RotatedSets(g, f, mr)
           f4 == RotatedSets(i, f3, m)
           ha == Height(h, ma)
           hb == Height(h, mb)
           hr == Height(h, mrr)
           hl == Height(h, ml)
<1>0. /\ m \in Node /\ IsOrder(ord) /\ IsOrder(dro)
      /\ m = h.root => h.parent[m] = Nil
      /\ m # h.root => /\ m \in {h.left[h.parent[m]], h.right[h.parent[m]]}
                       /\ h.parent[m] \in Node
  <2>1. f[h.root] \in SUBSET Node /\ Linked(h, f[h.root]) /\ IsOrder(ord) /\ IsOrder(dro)
    BY HeapFacts DEF Trees, IsTree, Threaded, Linked, Opposite
  <2> QED
    BY <2>1, ParentInside
<1>1. /\ mr \in Node /\ mr # m /\ ml # m /\ ml # mr /\ mrl # m /\ mrl # mr /\ mrr # m /\ mrr # mr
      /\ ml \in Pointer /\ mrl \in Pointer /\ mrr \in Pointer /\ Node \subseteq Pointer
      /\ m \in Node /\ m # Nil /\ mr # Nil /\ Apart(h, m)
  BY <1>0, ApartTrees, HeapFacts, NodeFacts DEF Apart
<1>2. /\ g \in Heap /\ Trees(g, f, dro) /\ Threaded(g) /\ g.left = h.right /\ g.right = h.left
      /\ g.parent = h.parent /\ g.root = h.root /\ g.height = h.height
      /\ \A c \in Pointer : Height(g, c) = Height(h, c)
  BY FlipIs, FlipTrees, FlipThreaded
<1>3. /\ e \in Heap /\ e.left = i.right /\ e.right = i.left /\ e.parent = i.parent
      /\ e.root = i.root /\ e.height = i.height
      /\ \A c \in Pointer : Height(e, c) = Height(i, c)
  BY FlipIs
<1>4. /\ h.height[mr] = hl + 2 /\ Good(h, mr) /\ Height(h, mrl) > hr /\ hr \in Nat /\ hl \in Nat
      /\ Height(h, mrl) \in Nat
  BY <1>1, HeightIs DEF Height
<1>5. mrl \in Node /\ mrl # Nil /\ Good(h, mrl) /\ Height(h, mrl) = h.height[mrl]
  <2>1. mrl # Nil
    BY <1>4 DEF Height
  <2> QED
    BY <1>1, <2>1 DEF Height, Pointer
<1>6. /\ h.height[mrl] = hr + 1 /\ hl = hr
      /\ h.height[mrl] = 1 + IF ha > hb THEN ha ELSE hb
      /\ -1 <= ha - hb /\ ha - hb <= 1 /\ ha \in Nat /\ hb \in Nat
  <2>1. LET b == Height(h, mrl)
        IN h.height[mr] = 1 + (IF b > hr THEN b ELSE hr) /\ -1 <= b - hr /\ b - hr <= 1
    BY <1>1, <1>4, GoodIs
  <2>2. LET b == h.height[mrl]
        IN h.height[mr] = 1 + (IF b > hr THEN b ELSE hr) /\ -1 <= b - hr /\ b - hr <= 1 /\ b > hr /\ b \in Nat
    BY <1>4, <1>5, <2>1
  <2>3. /\ h.height[mrl] = 1 + IF ha > hb THEN ha ELSE hb
        /\ -1 <= ha - hb /\ ha - hb <= 1 /\ ha \in Nat /\ hb \in Nat
    BY <1>5, GoodIs
  <2>4. h.height[mrl] = hr + 1 /\ hl = hr
    BY <1>4, <2>2
  <2> QED
    BY <2>3, <2>4
<1>7. ma \in Pointer /\ mb \in Pointer /\ Apart(g, mr)
  BY <1>0, <1>1, <1>2, <1>5, ApartTrees, HeapFacts
<1>8. /\ mr # Nil /\ mrl # Nil /\ g.right[mr] = mrl /\ g.left[mrl] = mb /\ g.right[mrl] = ma
      /\ g.left[mr] = mrr
  BY <1>1, <1>2, <1>5
<1>9. /\ Trees(i, f3, ord) /\ Threaded(i) /\ f3[i.root] = f[h.root]
  <2>1. Trees(e, f3, dro) /\ Threaded(e) /\ f3[e.root] = f[g.root]
    BY <1>0, <1>1, <1>2, <1>3, <1>8, RotatedTrees
  <2> QED
    BY <1>2, <1>3, <2>1, FlipTrees, FlipThreaded
<1>10. /\ i.left[m] = ml /\ i.right[m] = mrl /\ i.left[mr] = mb /\ i.right[mr] = mrr
       /\ i.left[mrl] = ma /\ i.right[mrl] = mr
       /\ \A x \in Node : i.parent[x] = IF x = mr THEN mrl ELSE IF x = mrl THEN h.parent[mr]
                                        ELSE IF x = mb THEN mr ELSE h.parent[x]
       /\ \A x \in Node : /\ x # mr /\ x # mrl /\ h.left[x] = Nil => i.left[x] = Nil
                          /\ x # mr /\ x # mrl /\ h.right[x] = Nil => i.right[x] = Nil
                          /\ x # mr /\ x # mrl /\ h.left[x] # mr => i.left[x] = h.left[x]
                          /\ x # mr /\ x # mrl /\ h.right[x] # mr => i.right[x] = h.right[x]
  <2>1. Rotated(g, e, mr)
    OBVIOUS
  <2> HIDE DEF g, e, mr, mrl, ma, mb, ml, mrr
  <2>2. /\ \A x \in Node : /\ e.left[x] = IF x = mr THEN mrr ELSE IF x = mrl THEN mr
                                          ELSE IF g.left[x] = mr THEN mrl ELSE g.left[x]
                           /\ e.right[x] = IF x = mr THEN mb ELSE IF x = mrl THEN ma
                                           ELSE IF g.right[x] = mr THEN mrl ELSE g.right[x]
                           /\ e.parent[x] = IF x = mr THEN mrl ELSE IF x = mrl THEN g.parent[mr]
                                            ELSE IF x = mb THEN mr ELSE g.parent[x]
    <3>1. /\ e.left = [x \in Node |-> IF x = mr THEN g.left[mr] ELSE IF x = g.right[mr] THEN mr
                                     ELSE IF g.left[x] = mr THEN g.right[mr] ELSE g.left[x]]
          /\ e.right = [x \in Node |-> IF x = mr THEN g.left[g.right[mr]]
                                      ELSE IF x = g.right[mr] THEN g.right[g.right[mr]]
                                      ELSE IF g.right[x] = mr THEN g.right[mr] ELSE g.right[x]]
          /\ e.parent = [x \in Node |-> IF x = mr THEN g.right[mr]
                                       ELSE IF x = g.right[mr] THEN g.parent[mr]
                                       ELSE IF x = g.left[g.right[mr]] THEN mr ELSE g.parent[x]]
      BY <2>1 DEF Rotated
    <3> QED
      BY <1>8, <3>1
  <2>3. h.left[m] = ml /\ h.right[m] = mr
    BY DEF ml, mr
  <2> QED
    BY <1>1, <1>2, <1>3, <1>5, <2>2, <2>3
<1> DEFINE low1 == 1 + hr
           high1 == 2 + hr
           low2 == 1 + hl
           high2 == 2 + hl
<1>11. /\ i.height[mr] = low1 /\ i.height[mrl] = high1
       /\ Height(i, ma) = ha /\ Height(i, mb) = hb /\ Height(i, mrr) = hr
       /\ \A x \in Node \ {mr, mrl} :
            /\ i.height[x] = h.height[x]
            /\ h.left[x] # mr => Height(i, i.left[x]) = Height(h, h.left[x])
            /\ h.right[x] = mr => Height(i, i.right[x]) = high1
            /\ h.right[x] # mr => Height(i, i.right[x]) = Height(h, h.right[x])
  <2> DEFINE a1 == Height(g, g.left[mr])
             b1 == Height(g, g.left[g.right[mr]])
             c1 == Height(g, g.right[g.right[mr]])
             l1 == 1 + IF a1 > b1 THEN a1 ELSE b1
             t1 == 1 + IF l1 > c1 THEN l1 ELSE c1
  <2>1. Rotated(g, e, mr)
    OBVIOUS
  <2>2. a1 = hr /\ b1 = hb /\ c1 = ha
    BY <1>1, <1>2, <1>7, <1>8
  <2> HIDE DEF g, e, mr
  <2>3. /\ e.height[mr] = l1 /\ e.height[g.right[mr]] = t1
        /\ Height(e, e.left[mr]) = a1 /\ Height(e, e.right[mr]) = b1
        /\ Height(e, e.right[g.right[mr]]) = c1
    BY <1>1, <1>2, <1>3, <1>7, <2>1, RotatedHeights
  <2>4. \A x \in Node \ {mr, g.right[mr]} :
          /\ e.height[x] = g.height[x]
          /\ Height(e, e.left[x]) = IF g.left[x] = mr THEN t1 ELSE Height(g, g.left[x])
          /\ Height(e, e.right[x]) = IF g.right[x] = mr THEN t1 ELSE Height(g, g.right[x])
    BY <1>1, <1>2, <1>3, <1>7, <2>1, RotatedHeights
  <2> HIDE DEF a1, b1, c1, mrl, mrr, ma, mb, ha, hb, hr
  <2>5. l1 = low1 /\ t1 = high1
    BY <1>4, <1>6, <2>2
  <2> HIDE DEF l1, t1
  <2>6. /\ i.height[mr] = low1 /\ i.height[mrl] = high1
        /\ Height(i, mb) = hb /\ Height(i, mrr) = hr
    BY <1>1, <1>3, <1>8, <1>10, <2>2, <2>3, <2>5, HeapFacts
  <2>7. Height(i, ma) = ha
    BY <1>3, <1>5, <1>7, <1>8, <1>10, <2>2, <2>3
  <2>8. ASSUME NEW x \in Node \ {mr, mrl}
        PROVE /\ i.height[x] = h.height[x]
              /\ h.left[x] # mr => Height(i, i.left[x]) = Height(h, h.left[x])
              /\ h.right[x] = mr => Height(i, i.right[x]) = high1
              /\ h.right[x] # mr => Height(i, i.right[x]) = Height(h, h.right[x])
    <3>1. /\ i.left[x] \in Pointer /\ i.right[x] \in Pointer
          /\ h.left[x] \in Pointer /\ h.right[x] \in Pointer
      BY HeapFacts
    <3> QED
      BY <1>2, <1>3, <1>8, <2>4, <2>5, <3>1
  <2> QED
    BY <2>6, <2>7, <2>8
<1>12. /\ ma # m /\ mb # m /\ mrl \in f[m] /\ mr \in f[m] /\ m \in f[m]
       /\ (ma # Nil => ma \in f[m]) /\ (mb # Nil => mb \in f[m])
  <2>1. /\ IsTree(h.left, h.right, f, ord)
        /\ f[m] = {m} \cup f[ml] \cup f[mr] /\ f[mr] = {mr} \cup f[mrl] \cup f[mrr]
        /\ f[mrl] = {mrl} \cup f[ma] \cup f[mb]
    BY <1>1, <1>5 DEF Trees, IsTree
  <2>2. m \notin f[mr]
    <3>1. IsTree(h.left, h.right, f, ord) /\ m \in Node /\ IsOrder(ord)
      BY <1>0, <2>1
    <3>2. m \notin f[h.right[m]]
      BY <3>1, TreeFacts
    <3> QED
      BY <3>2
  <2>3. (ma # Nil => ma \in f[ma]) /\ (mb # Nil => mb \in f[mb])
    <3>1. \A x \in Node : x \in f[x]
      BY <2>1 DEF IsTree
    <3> QED
      BY <1>7, <3>1 DEF Pointer
  <2> QED
    BY <1>1, <2>1, <2>2, <2>3
<1>13. h.parent[m] \notin {m, mr, mrl} /\ i.parent[m] = h.parent[m]
  <2>1. h.parent[m] \notin {m, mr, mrl}
    BY <1>0, <1>1, <1>5, <1>12
  <2> QED
    BY <1>1, <1>10, <1>12, <2>1
<1>14. /\ \A x \in Node : h.left[x] = m \/ h.right[x] = m => h.parent[m] = x
       /\ \A x \in Node \ {m, mr, mrl} : h.left[x] # mr /\ h.right[x] # mr
  BY <1>1 DEF Threaded, Linked
<1> HIDE DEF f3, f4, g, e, mr, mrl, mrr, ml, ma, mb, ha, hb, hr, hl, low1, high1, low2, high2
<1>15. m \in Node /\ i.right[m] # Nil /\ i.right[m] = mrl /\ i.left[mrl] = ma /\ i.right[mrl] = mr
  BY <1>0, <1>5, <1>10
<1>16. Trees(r, f4, ord) /\ Threaded(r) /\ f4[r.root] = f[h.root]
  BY <1>0, <1>9, <1>15, RotatedTrees DEF f4
<1>17. /\ r.height[m] = low2 /\ r.height[mrl] = high2
       /\ Height(r, r.left[m]) = hl /\ Height(r, r.right[m]) = ha
       /\ Height(r, r.left[mrl]) = low2 /\ Height(r, r.right[mrl]) = low1
       /\ \A x \in Node \ {m, mrl} :
            /\ r.height[x] = i.height[x]
            /\ Height(r, r.left[x]) = IF i.left[x] = m THEN high2 ELSE Height(i, i.left[x])
            /\ Height(r, r.right[x]) = IF i.right[x] = m THEN high2 ELSE Height(i, i.right[x])
  <2> DEFINE a2 == Height(i, i.left[m])
             b2 == Height(i, i.left[i.right[m]])
             c2 == Height(i, i.right[i.right[m]])
             l2 == 1 + IF a2 > b2 THEN a2 ELSE b2
             t2 == 1 + IF l2 > c2 THEN l2 ELSE c2
  <2>0. Apart(i, m)
    BY <1>0, <1>9, <1>15, ApartTrees
  <2>1. /\ r.height[m] = l2 /\ r.height[i.right[m]] = t2
        /\ Height(r, r.left[m]) = a2 /\ Height(r, r.right[m]) = b2
        /\ Height(r, r.left[i.right[m]]) = l2
        /\ Height(r, r.right[i.right[m]]) = c2
    BY <1>0, <1>9, <2>0, RotatedHeights
  <2>2. \A x \in Node \ {m, i.right[m]} :
          /\ r.height[x] = i.height[x]
          /\ Height(r, r.left[x]) = IF i.left[x] = m THEN t2 ELSE Height(i, i.left[x])
          /\ Height(r, r.right[x]) = IF i.right[x] = m THEN t2 ELSE Height(i, i.right[x])
    BY <1>0, <1>9, <2>0, RotatedHeights
  <2>3. a2 = hl /\ b2 = ha /\ c2 = low1
    <3>1. a2 = hl
      BY <1>1, <1>11 DEF ml, hl
    <3>2. Height(i, mr) = low1
      BY <1>1, <1>11 DEF Height
    <3> QED
      BY <1>11, <1>15, <3>1, <3>2
  <2> HIDE DEF a2, b2, c2
  <2>4. l2 = low2 /\ t2 = high2
    BY <1>4, <1>6, <2>3 DEF low1, low2, high2
  <2> HIDE DEF l2, t2
  <2> QED
    BY <1>15, <2>1, <2>2, <2>3, <2>4
<1>18. /\ r.height[mr] = low1 /\ Height(r, r.left[mr]) = hb /\ Height(r, r.right[mr]) = hr
  BY <1>1, <1>10, <1>11, <1>12, <1>17
<1>19. Good(r, m) /\ Good(r, mr) /\ Good(r, mrl)
  <2>1. Good(r, m) <=> /\ r.height[m] = 1 + IF hl > ha THEN hl ELSE ha
                       /\ -1 <= hl - ha /\ hl - ha <= 1
    BY <1>0, <1>17, GoodIs
  <2>2. Good(r, mr) <=> /\ r.height[mr] = 1 + IF hb > hr THEN hb ELSE hr
                        /\ -1 <= hb - hr /\ hb - hr <= 1
    BY <1>1, <1>18, GoodIs
  <2>3. Good(r, mrl) <=> /\ r.height[mrl] = 1 + IF low2 > low1 THEN low2 ELSE low1
                         /\ -1 <= low2 - low1 /\ low2 - low1 <= 1
    <3>1. mrl \in Node
      BY <1>5
    <3>2. LET a == Height(r, r.left[mrl])
              b == Height(r, r.right[mrl])
          IN Good(r, mrl) <=> /\ r.height[mrl] = 1 + IF a > b THEN a ELSE b
                              /\ -1 <= a - b /\ a - b <= 1
      BY <3>1, GoodIs
    <3> QED
      BY <1>17, <3>2
  <2> QED
    BY <1>4, <1>6, <1>17, <1>18, <2>1, <2>2, <2>3 DEF low1, low2, high2
<1>20. \A x \in Node \ {m, mr, mrl} :
         /\ r.height[x] = h.height[x]
         /\ Height(r, r.left[x]) = IF h.left[x] = m THEN high2 ELSE Height(h, h.left[x])
         /\ Height(r, r.right[x]) = IF h.right[x] = m THEN high2 ELSE Height(h, h.right[x])
  BY <1>10, <1>11, <1>14, <1>17
<1>21. ASSUME NEW x \in Node, x # m, x # h.parent[m], Good(h, x) PROVE Good(r, x)
  <2>1. CASE x \in {mr, mrl}
    BY <1>19, <2>1
  <2>2. CASE x \notin {mr, mrl}
    <3>1. h.left[x] # m /\ h.right[x] # m
      BY <1>14, <1>21
    <3> QED
      BY <1>20, <1>21, <2>2, <3>1, GoodSame
  <2> QED
    BY <2>1, <2>2
<1>22. \A x \in Node : r.parent[x] = IF x = m THEN mrl ELSE IF x = mrl THEN h.parent[m]
                                       ELSE IF x = ma THEN m ELSE i.parent[x]
  <2>1. r.parent = [x \in Node |-> IF x = m THEN i.right[m] ELSE IF x = i.right[m] THEN i.parent[m]
                                  ELSE IF x = i.left[i.right[m]] THEN m ELSE i.parent[x]]
    BY DEF Rotated
  <2> QED
    BY <1>13, <1>15, <2>1
<1>23. ASSUME NEW x \in Node \ f[m]
       PROVE  /\ r.height[x] = h.height[x] /\ r.parent[x] = h.parent[x]
              /\ h.left[x] = Nil => r.left[x] = Nil
              /\ h.right[x] = Nil => r.right[x] = Nil
  <2>1. x \notin {m, mr, mrl, ma, mb}
    BY <1>12, NodeFacts
  <2>2. /\ i.left[x] = Nil => r.left[x] = Nil
        /\ i.right[x] = Nil => r.right[x] = Nil
    <3>1. /\ r.left = [y \in Node |-> IF y = m THEN i.left[m] ELSE IF y = i.right[m] THEN m
                                      ELSE IF i.left[y] = m THEN i.right[m] ELSE i.left[y]]
          /\ r.right = [y \in Node |-> IF y = m THEN i.left[i.right[m]]
                                       ELSE IF y = i.right[m] THEN i.right[i.right[m]]
                                       ELSE IF i.right[y] = m THEN i.right[m] ELSE i.right[y]]
      BY DEF Rotated
    <3> QED
      BY <1>1, <1>15, <2>1, <3>1
  <2> QED
    BY <1>10, <1>20, <1>22, <2>1, <2>2
<1>24. Settled(h, r, f, f4, m, mrl, ord)
  <2>1. r.parent[m] = mrl /\ r.parent[mrl] = h.parent[m]
    BY <1>0, <1>1, <1>5, <1>22
  <2>2. \A x \in Node :
       x = h.parent[m] =>
         /\ r.height[x] = h.height[x]
         /\ Height(r, r.left[x]) = IF h.left[x] = m THEN r.height[mrl] ELSE Height(h, h.left[x])
         /\ Height(r, r.right[x]) = IF h.right[x] = m THEN r.height[mrl] ELSE Height(h, h.right[x])
    BY <1>13, <1>17, <1>20
  <2>3. Good(r, m) /\ Good(r, mrl) /\ mrl \in f[m]
    BY <1>12, <1>19
  <2> QED
    BY <1>16, <1>21, <1>23, <2>1, <2>2, <2>3 DEF Settled
<1>25. Within(r, f4, d)
  <2>1. Within(g, f, d)
    BY <1>2 DEF Within
  <2>2. Rotated(g, e, mr)
    BY DEF g, e, mr
  <2>3. Within(e, f3, d)
    BY <1>0, <1>1, <1>2, <1>3, <1>8, <2>1, <2>2, RotatedFits DEF f3
  <2>4. Within(i, f3, d)
    BY <1>3, <2>3 DEF Within
  <2> QED
    BY <1>0, <1>9, <1>15, <2>4, RotatedFits DEF f4
<1>26. r.height[mrl] - hl \in 2..3
  BY <1>4, <1>17 DEF high2
<1> QED
  BY <1>24, <1>25, <1>26 DEF mr, mrl, hl, ml
=============================================================================
