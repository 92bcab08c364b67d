------------------------------ MODULE AvlProofs ------------------------------
(***************************************************************************)
(* Theorems about Avl, for every range of keys: the inductive invariant,   *)
(* that each step keeps it, and what it says of the tree.                  *)
(*                                                                         *)
(* A step's lemma is about any heap h with an f, the nodes that each node  *)
(* leads to, of which Holds is true; it gives an f for the heap after it.  *)
(***************************************************************************)
EXTENDS AvlTrees

-----------------------------------------------------------------------------
(* The invariant *)

\* The inductive invariant, of a heap whose nodes lead to f and a walk that stands on a.
Holds(h, a, f) ==
  /\ Sound(h, f) /\ a \in Pointer /\ \A m \in Node : h.height[m] <= MaxKey
  /\ OutsideOK(h, a, f[h.root]) /\ HeightsOK(h, a, f[h.root]) /\ HeightsFit(h, a, f)

LEMMA SearchTreeIs ==
  ASSUME NEW h \in Heap, NEW f
  PROVE  SearchTree(h, f) <=> Trees(h, f, Greater)
<1>1. ASSUME SearchTree(h, f) PROVE Trees(h, f, Greater)
  <2> DEFINE e(m) == IF m = Nil THEN {} ELSE {m} \cup f[h.left[m]] \cup f[h.right[m]]
  <2>1. /\ f = [m \in Pointer |-> e(m)]
        /\ \A m \in Node : /\ f[h.left[m]] \subseteq 1..(m - 1)
                           /\ f[h.right[m]] \subseteq (m + 1)..MaxKey
    BY <1>1 DEF SearchTree
  <2>2. \A m \in Pointer : f[m] = e(m)
    <3> HIDE DEF e
    <3> QED
      BY <2>1
  <2>3. f[Nil] = {} /\ \A m \in Node : f[m] = {m} \cup f[h.left[m]] \cup f[h.right[m]]
    BY <2>2, NodeFacts
  <2>4. ASSUME NEW m \in Node
        PROVE  /\ \A k \in f[h.left[m]] : k \in Node /\ m \in Greater[k]
               /\ f[h.right[m]] \subseteq Greater[m]
    <3>1. /\ \A k \in 1..(m - 1) : k \in Node /\ k < m
          /\ \A k \in (m + 1)..MaxKey : k \in Node /\ m < k
      BY MaxKeyAssumption DEF Node
    <3> QED
      BY <2>1, <3>1, OrderMeans
  <2>5. f \in [Pointer -> SUBSET Node]
    <3>1. \A m \in Pointer : f[m] \subseteq Node
      <4>1. \A m \in Node : f[m] \subseteq Node
        BY <2>3, <2>4 DEF Greater
      <4> QED
        BY <2>3, <4>1 DEF Pointer
    <3>2. f = [m \in Pointer |-> f[m]]
      <4> HIDE DEF e
      <4> QED
        BY <2>1
    <3> QED
      BY <3>1, <3>2
  <2> QED
    BY <2>3, <2>4, <2>5, HeapFacts DEF Trees, IsTree
<1>2. ASSUME Trees(h, f, Greater) PROVE SearchTree(h, f)
  <2> DEFINE e(m) == IF m = Nil THEN {} ELSE {m} \cup f[h.left[m]] \cup f[h.right[m]]
  <2>1. /\ f \in [Pointer -> SUBSET Node] /\ f[Nil] = {}
        /\ \A m \in Node : /\ f[m] = {m} \cup f[h.left[m]] \cup f[h.right[m]]
                           /\ \A k \in f[h.left[m]] : m \in Greater[k]
                           /\ f[h.right[m]] \subseteq Greater[m]
    BY <1>2 DEF Trees, IsTree
  <2>2. \A m \in Pointer : f[m] = e(m)
    BY <2>1, NodeFacts DEF Pointer
  <2>3. f = [m \in Pointer |-> e(m)]
    <3> HIDE DEF e
    <3> QED
      BY <2>1, <2>2
  <2>4. ASSUME NEW m \in Node
        PROVE  /\ f[h.left[m]] \subseteq 1..(m - 1)
               /\ f[h.right[m]] \subseteq (m + 1)..MaxKey
    <3>1. /\ \A k \in f[h.left[m]] : k \in Node /\ k < m
          /\ \A k \in f[h.right[m]] : k \in Node /\ m < k
      <4>1. f[h.left[m]] \subseteq Node /\ f[h.right[m]] \subseteq Node
        BY <2>1, HeapFacts
      <4> QED
        BY <2>1, <4>1, OrderMeans
    <3>2. \A k \in Node : k < m => k \in 1..(m - 1)
      BY MaxKeyAssumption DEF Node
    <3>3. \A k \in Node : m < k => k \in (m + 1)..MaxKey
      BY MaxKeyAssumption DEF Node
    <3> QED
      BY <3>1, <3>2, <3>3
  <2> QED
    BY <2>3, <2>4 DEF SearchTree
<1> QED
  BY <1>1, <1>2

LEMMA IInvHolds == IInv => Holds(t, at, Subtrees(t))
<1> SUFFICES ASSUME IInv PROVE Holds(t, at, Subtrees(t))
  OBVIOUS
<1> DEFINE f == Subtrees(t)
<1>1. /\ WellFormed /\ SearchTree(t, f) /\ OutsideOK(t, at, Reached) /\ HeightsOK(t, at, Reached)
      /\ HeightsFit(t, at, f) /\ Reached = f[t.root]
  BY DEF IInv, Reached
<1> HIDE DEF f
<1>2. t \in Heap /\ at \in Pointer /\ \A m \in Node : t.height[m] <= MaxKey
  <2>1. 0..MaxKey \subseteq Nat /\ \A k \in 0..MaxKey : k <= MaxKey
    BY MaxKeyAssumption
  <2>2. /\ t \in [root : Pointer, left : [Node -> Pointer], right : [Node -> Pointer],
                  parent : [Node -> Pointer], height : [Node -> 0..MaxKey]]
        /\ at \in Pointer
    BY <1>1 DEF WellFormed, TypeOK
  <2> QED
    BY <2>1, <2>2 DEF Heap
<1>3. Trees(t, f, Greater)
  BY <1>1, <1>2, SearchTreeIs
<1>4. Linked(t, f[t.root])
  BY <1>1 DEF WellFormed, Linked
<1> QED
  BY <1>1, <1>2, <1>3, <1>4 DEF Holds, Sound, f

\* What holds of a heap makes the invariant hold in a state that has that heap.
LEMMA HoldsFacts ==
  ASSUME NEW h, NEW a, NEW f, Holds(h, a, f)
  PROVE  /\ h \in [root : Pointer, left : [Node -> Pointer], right : [Node -> Pointer],
                   parent : [Node -> Pointer], height : [Node -> 0..MaxKey]]
         /\ a \in Pointer
         /\ Subtrees(h) = f /\ SearchTree(h, f)
         /\ h.root # Nil => h.parent[h.root] = Nil
         /\ \A m \in f[h.root] :
              /\ h.left[m] # Nil => h.parent[h.left[m]] = m
              /\ h.right[m] # Nil => h.parent[h.right[m]] = m
              /\ h.left[m] # Nil => h.left[m] # h.right[m]
<1>1. /\ h \in Heap /\ Trees(h, f, Greater) /\ Linked(h, f[h.root]) /\ Subtrees(h) = f
      /\ IsTree(h.left, h.right, f, Greater) /\ f[h.root] \in SUBSET Node
      /\ a \in Pointer /\ \A m \in Node : h.height[m] <= MaxKey
  BY SoundFacts DEF Holds
<1>2. h \in [root : Pointer, left : [Node -> Pointer], right : [Node -> Pointer],
             parent : [Node -> Pointer], height : [Node -> 0..MaxKey]]
  <2>1. \A m \in Node : h.height[m] \in 0..MaxKey
    BY <1>1, HeapFacts, MaxKeyAssumption
  <2> QED
    BY <1>1, <2>1 DEF Heap
<1>3. SearchTree(h, f)
  BY <1>1, SearchTreeIs
<1>4. ASSUME NEW m \in f[h.root], h.left[m] # Nil PROVE h.left[m] # h.right[m]
  BY <1>1, <1>4, TreeFacts, GreaterIsOrder
<1> QED
  BY <1>1, <1>2, <1>3, <1>4 DEF Linked

LEMMA HoldsIInv == ASSUME NEW f, Holds(t, at, f) PROVE IInv
BY HoldsFacts DEF IInv, WellFormed, TypeOK, Reached, Holds

LEMMA HoldsIInvNext == ASSUME NEW f, Holds(t', at', f) PROVE IInv' /\ Reached' = f[t'.root]
BY HoldsFacts DEF IInv, WellFormed, TypeOK, Reached, Holds

\* When the walk stands in the tree, the nodes outside of it are as new.
LEMMA CleanOutside ==
  ASSUME NEW h, NEW a, NEW f, Holds(h, a, f), a = Nil \/ a \in f[h.root]
  PROVE  /\ Threaded(h)
         /\ \A m \in Node \ f[h.root] :
              h.left[m] = Nil /\ h.right[m] = Nil /\ h.parent[m] = Nil /\ h.height[m] = 0
<1>1. /\ h \in Heap /\ Trees(h, f, Greater) /\ Linked(h, f[h.root]) /\ f[h.root] \in SUBSET Node
  BY SoundFacts DEF Holds
<1>2. \A m \in Node \ f[h.root] :
         h.left[m] = Nil /\ h.right[m] = Nil /\ h.parent[m] = Nil /\ h.height[m] = 0
  BY NodeFacts DEF Holds, OutsideOK
<1>3. Linked(h, Node)
  BY <1>1, <1>2 DEF Linked
<1> QED
  BY <1>1, <1>2, <1>3, ThreadedTrees, GreaterIsOrder

LEMMA FlipTwice == ASSUME NEW h \in Heap PROVE Flip(Flip(h)) = h
BY FlipIs, HeapEqual

LEMMA FlipSettled ==
  ASSUME NEW ord, NEW dro, Opposite(ord, dro), NEW h \in Heap, NEW r \in Heap, NEW f, NEW f2,
         NEW m \in Node, NEW top \in Node, Settled(Flip(h), Flip(r), f, f2, m, top, dro)
  PROVE  Settled(h, r, f, f2, m, top, ord)
<1> DEFINE g == Flip(h)
           q == Flip(r)
<1>1. /\ g.left = h.right /\ g.right = h.left /\ g.parent = h.parent /\ g.root = h.root
      /\ g.height = h.height /\ \A c \in Pointer : Height(g, c) = Height(h, c)
  BY FlipIs
<1>2. /\ q.left = r.right /\ q.right = r.left /\ q.parent = r.parent /\ q.root = r.root
      /\ q.height = r.height /\ \A c \in Pointer : Height(q, c) = Height(r, c)
  BY FlipIs
<1>3. \A x \in Node : (Good(g, x) <=> Good(h, x)) /\ (Good(q, x) <=> Good(r, x))
  BY FlipGood
<1>4. Trees(r, f2, ord) /\ Threaded(r)
  BY FlipTrees, FlipThreaded DEF Settled
<1>5. Settled(g, q, f, f2, m, top, dro)
  OBVIOUS
<1> HIDE DEF g, q
<1>6. \A x \in Node :
       x = h.parent[m] =>
         /\ r.height[x] = h.height[x]
         /\ Height(r, r.left[x]) = IF h.left[x] = m THEN r.height[top] ELSE Height(h, h.left[x])
         /\ Height(r, r.right[x]) = IF h.right[x] = m THEN r.height[top] ELSE Height(h, h.right[x])
  BY <1>1, <1>2, <1>5, HeapFacts DEF Settled
<1>7. \A x \in Node \ f[m] : /\ r.height[x] = h.height[x] /\ r.parent[x] = h.parent[x]
                             /\ h.left[x] = Nil => r.left[x] = Nil
                             /\ h.right[x] = Nil => r.right[x] = Nil
  BY <1>1, <1>2, <1>5 DEF Settled
<1> QED
  BY <1>1, <1>2, <1>3, <1>4, <1>5, <1>6, <1>7 DEF Settled

\* m is two lower on the left: what rebalancing there does, by one rotation or two.
LEMMA TurnSettles ==
  ASSUME NEW ord, NEW dro, Opposite(ord, dro), NEW h \in Heap, NEW f, Trees(h, f, ord), Threaded(h),
         NEW m \in f[h.root], h.right[m] # Nil, NEW d \in Nat, Within(h, f, d),
         NEW i \in Heap, NEW r \in Heap, Rotated(i, r, m),
         LET mr == h.right[m]
             low == Height(h, h.left[m])
         IN /\ Height(h, mr) = low + 2 /\ Good(h, mr)
            /\ h.left[mr] # Nil => Good(h, h.left[mr])
            /\ IF Height(h, h.left[mr]) > Height(h, h.right[mr])
               THEN Rotated(Flip(h), Flip(i), mr) ELSE i = h
  PROVE  \E f2 : \E top \in Node :
           /\ Settled(h, r, f, f2, m, top, ord)
           /\ r.height[top] - Height(h, h.left[m]) \in 2..3
           /\ Within(r, f2, d)
<1> DEFINE mr == h.right[m]
           mrl == h.left[mr]
<1>0. IsOrder(ord) /\ f[h.root] \in SUBSET Node /\ mr \in Node /\ m \in Node
      /\ mrl \in Pointer
  BY HeapFacts DEF Opposite, Trees, IsTree, Pointer
<1>1. CASE Height(h, mrl) > Height(h, h.right[mr])
  <2>1. Rotated(Flip(h), Flip(i), mr)
    BY <1>1
  <2>2. PICK f2 : /\ Settled(h, r, f, f2, m, mrl, ord)
                  /\ r.height[mrl] - Height(h, h.left[m]) \in 2..3
                  /\ Within(r, f2, d)
    BY <1>1, <2>1, DoubleSettles
  <2>3. mrl # Nil
    BY <1>0, <1>1, HeapFacts, HeightIs DEF Height
  <2> QED
    BY <1>0, <2>2, <2>3 DEF Pointer
<1>2. CASE ~ (Height(h, mrl) > Height(h, h.right[mr]))
  <2>1. i = h /\ Height(h, mrl) <= Height(h, h.right[mr])
    BY <1>0, <1>2, HeapFacts, HeightIs
  <2>2. Rotated(h, r, m)
    BY <2>1
  <2>3. /\ Settled(h, r, f, RotatedSets(h, f, m), m, mr, ord)
        /\ r.height[mr] - Height(h, h.left[m]) \in 2..3
    BY <1>0, <2>1, <2>2, SingleSettles
  <2>4. Within(r, RotatedSets(h, f, m), d)
    BY <1>0, <2>2, RotatedFits
  <2> QED
    BY <1>0, <2>3, <2>4
<1> QED
  BY <1>1, <1>2

\* The two rotations that bring down a node whose right child is too high, as the code
\* calls them.
LEMMA LeftTurn ==
  ASSUME NEW h \in Heap, NEW f, Trees(h, f, Greater), Threaded(h), NEW m \in f[h.root],
         LET mr == h.right[m] IN mr # Nil /\ (Balance(h, mr) > 0 => h.left[mr] # Nil)
  PROVE  LET mr == h.right[m]
             i == IF Balance(h, mr) > 0 THEN RotateRight(h, Right(m)) ELSE h
             r == RotateLeft(i, NodeP(i, m))
         IN /\ i \in Heap /\ r \in Heap /\ Rotated(i, r, m)
            /\ IF Height(h, h.left[mr]) > Height(h, h.right[mr])
               THEN Rotated(Flip(h), Flip(i), mr) ELSE i = h
<1> DEFINE mr == h.right[m]
           i == IF Balance(h, mr) > 0 THEN RotateRight(h, Right(m)) ELSE h
           r == RotateLeft(i, NodeP(i, m))
           g == Flip(h)
           e == Flip(i)
           f3 == RotatedSets(g, f, mr)
<1>0. /\ IsOrder(Greater) /\ IsOrder(Smaller) /\ Opposite(Greater, Smaller)
      /\ f[h.root] \in SUBSET Node /\ mr \in Node /\ m \in Node /\ mr # Nil /\ Nil \notin Node
      /\ h.left[mr] \in Pointer /\ h.right[mr] \in Pointer /\ h.right[m] = mr
  BY GreaterIsOrder, SmallerIsOrder, GreaterOpposite, HeapFacts, NodeFacts DEF Trees, IsTree, Pointer
<1>1. Balance(h, mr) > 0 <=> Height(h, h.left[mr]) > Height(h, h.right[mr])
  BY <1>0, HeapFacts, HeightIs DEF Balance
<1>2. /\ g \in Heap /\ Trees(g, f, Smaller) /\ Threaded(g) /\ g.left = h.right /\ g.right = h.left
      /\ g.root = h.root
  BY <1>0, FlipIs, FlipTrees, FlipThreaded
<1>3. CASE Balance(h, mr) > 0
  <2>1. i = RotateRight(h, Right(m)) /\ h.left[mr] # Nil
    BY <1>3
  <2>2. Right(m) \in Slots /\ Get(h, Right(m)) = mr
    BY <1>0, SlotFacts
  <2> HIDE DEF g, mr, i
  <2>3. Apart(g, mr)
    BY <1>0, <1>2, <2>1, ApartTrees
  <2>4. Rotated(g, e, mr) /\ i \in Heap
    BY <1>0, <2>1, <2>2, <2>3, RotateRightIs DEF g
  <2>5. e \in Heap /\ e.left = i.right /\ e.root = i.root
    BY <2>4, FlipIs
  <2>6. Trees(e, f3, Smaller) /\ Threaded(e) /\ f3[e.root] = f[h.root]
    BY <1>0, <1>2, <2>1, <2>4, <2>5, RotatedTrees
  <2>7. Trees(i, f3, Greater) /\ Threaded(i) /\ f3[i.root] = f[h.root]
    BY <1>0, <2>4, <2>5, <2>6, FlipTrees, FlipThreaded
  <2> HIDE DEF e, f3, r
  <2>8. i.right[m] # Nil
    <3>1. e.left = [x \in Node |-> IF x = mr THEN g.left[mr] ELSE IF x = g.right[mr] THEN mr
                                   ELSE IF g.left[x] = mr THEN g.right[mr] ELSE g.left[x]]
      BY <2>4 DEF Rotated
    <3> QED
      BY <1>0, <1>2, <2>1, <2>5, <3>1
  <2>9. NodeP(i, m) \in Slots /\ Get(i, NodeP(i, m)) = m
    <3>1. Linked(i, f3[i.root]) /\ m \in f3[i.root]
      BY <1>0, <2>7 DEF Threaded, Linked
    <3>2. i.parent[m] \in f3[i.root] \cup {Nil}
      BY <1>0, <2>4, <2>7, <3>1, ParentInside
    <3> QED
      BY <1>0, <2>4, <2>7, <3>1, <3>2, NodePFacts
  <2>10. Rotated(i, r, m) /\ r \in Heap
    <3>1. Apart(i, m)
      BY <1>0, <2>4, <2>7, <2>8, ApartTrees
    <3> QED
      BY <1>0, <2>4, <2>7, <2>9, <3>1, RotateLeftIs DEF r
  <2> QED
    BY <1>1, <1>3, <2>4, <2>10 DEF g, e, r, i, mr
<1>4. CASE ~ (Balance(h, mr) > 0)
  <2>1. i = h /\ r = RotateLeft(h, NodeP(h, m))
    BY <1>4
  <2>2. NodeP(h, m) \in Slots /\ Get(h, NodeP(h, m)) = m
    <3>1. Linked(h, f[h.root])
      BY <1>0 DEF Threaded, Linked
    <3>2. h.parent[m] \in f[h.root] \cup {Nil}
      BY <1>0, <3>1, ParentInside
    <3> QED
      BY <1>0, <3>1, <3>2, NodePFacts
  <2>3. Apart(h, m)
    BY <1>0, ApartTrees
  <2>4. Rotated(h, RotateLeft(h, NodeP(h, m)), m) /\ RotateLeft(h, NodeP(h, m)) \in Heap
    BY <1>0, <2>2, <2>3, RotateLeftIs
  <2> QED
    BY <1>1, <1>4, <2>1, <2>4
<1> QED
  BY <1>3, <1>4

LEMMA RightTurn ==
  ASSUME NEW h \in Heap, NEW f, Trees(h, f, Greater), Threaded(h), NEW m \in f[h.root],
         LET ml == h.left[m] IN ml # Nil /\ (Balance(h, ml) < 0 => h.right[ml] # Nil)
  PROVE  LET ml == h.left[m]
             i == IF Balance(h, ml) < 0 THEN RotateLeft(h, Left(m)) ELSE h
             r == RotateRight(i, NodeP(i, m))
         IN /\ i \in Heap /\ r \in Heap /\ Rotated(Flip(i), Flip(r), m)
            /\ IF Height(h, h.right[ml]) > Height(h, h.left[ml])
               THEN Rotated(h, i, ml) ELSE i = h
<1> DEFINE ml == h.left[m]
           i == IF Balance(h, ml) < 0 THEN RotateLeft(h, Left(m)) ELSE h
           r == RotateRight(i, NodeP(i, m))
           e == Flip(i)
           f3 == IF Balance(h, ml) < 0 THEN RotatedSets(h, f, ml) ELSE f
<1>0. /\ IsOrder(Greater) /\ IsOrder(Smaller) /\ Opposite(Greater, Smaller)
      /\ f[h.root] \in SUBSET Node /\ ml \in Node /\ m \in Node /\ ml # Nil /\ Nil \notin Node
      /\ h.left[ml] \in Pointer /\ h.right[ml] \in Pointer /\ h.left[m] = ml
  BY GreaterIsOrder, SmallerIsOrder, GreaterOpposite, HeapFacts, NodeFacts DEF Trees, IsTree, Pointer
<1>1. Balance(h, ml) < 0 <=> Height(h, h.right[ml]) > Height(h, h.left[ml])
  BY <1>0, HeapFacts, HeightIs DEF Balance
<1>2. /\ i \in Heap /\ Trees(i, f3, Greater) /\ Threaded(i) /\ f3[i.root] = f[h.root]
      /\ i.left[m] # Nil
      /\ IF Balance(h, ml) < 0 THEN Rotated(h, i, ml) ELSE i = h
  <2>1. CASE Balance(h, ml) < 0
    <3>1. /\ i = RotateLeft(h, Left(m)) /\ h.right[ml] # Nil /\ f3 = RotatedSets(h, f, ml)
      BY <2>1
    <3>2. Left(m) \in Slots /\ Get(h, Left(m)) = ml
      BY <1>0, SlotFacts
    <3> HIDE DEF ml, i, f3
    <3>3. Apart(h, ml)
      BY <1>0, <3>1, ApartTrees
    <3>4. Rotated(h, i, ml) /\ i \in Heap
      BY <1>0, <3>1, <3>2, <3>3, RotateLeftIs
    <3>5. Trees(i, f3, Greater) /\ Threaded(i) /\ f3[i.root] = f[h.root]
      BY <1>0, <3>1, <3>4, RotatedTrees
    <3>6. i.left[m] # Nil
      <4>1. i.left = [x \in Node |-> IF x = ml THEN h.left[ml] ELSE IF x = h.right[ml] THEN ml
                                     ELSE IF h.left[x] = ml THEN h.right[ml] ELSE h.left[x]]
        BY <3>4 DEF Rotated
      <4> QED
        BY <1>0, <3>1, <4>1
    <3> QED
      BY <2>1, <3>4, <3>5, <3>6
  <2>2. CASE ~ (Balance(h, ml) < 0)
    <3>1. i = h /\ f3 = f
      BY <2>2
    <3> QED
      BY <1>0, <2>2, <3>1
  <2> QED
    BY <2>1, <2>2
<1> HIDE DEF i, f3
<1>3. NodeP(i, m) \in Slots /\ Get(i, NodeP(i, m)) = m
  <2>1. Linked(i, f3[i.root]) /\ m \in f3[i.root]
    BY <1>0, <1>2 DEF Threaded, Linked
  <2>2. i.parent[m] \in f3[i.root] \cup {Nil}
    BY <1>0, <1>2, <2>1, ParentInside
  <2> QED
    BY <1>0, <1>2, <2>1, <2>2, NodePFacts
<1>4. Apart(e, m)
  <2>1. e \in Heap /\ e.right = i.left
    BY <1>2, FlipIs
  <2>2. Trees(e, f3, Smaller)
    BY <1>0, <1>2, FlipTrees
  <2> HIDE DEF e
  <2> QED
    BY <1>0, <1>2, <2>1, <2>2, ApartTrees
<1>5. Rotated(e, Flip(r), m) /\ r \in Heap
  BY <1>0, <1>2, <1>3, <1>4, RotateRightIs
<1> QED
  BY <1>1, <1>2, <1>5 DEF i, e, ml

-----------------------------------------------------------------------------
(* One iteration of rebalance *)

LEMMA Updated ==
  ASSUME NEW h \in Heap, NEW f, Trees(h, f, Greater), Threaded(h), NEW m \in Node,
         NEW d \in Nat, Within(h, f, d)
  PROVE  LET u == UpdateHeight(h, m)
             l == Height(h, h.left[m])
             r == Height(h, h.right[m])
         IN /\ u \in Heap /\ u.root = h.root /\ u.left = h.left /\ u.right = h.right
            /\ u.parent = h.parent
            /\ Trees(u, f, Greater) /\ Threaded(u) /\ Within(u, f, d)
            /\ l \in Nat /\ r \in Nat /\ u.height[m] = 1 + IF l > r THEN l ELSE r
            /\ \A x \in Node \ {m} : u.height[x] = h.height[x]
            /\ \A c \in Pointer \ {m} : Height(u, c) = Height(h, c)
            /\ Height(u, u.left[m]) = l /\ Height(u, u.right[m]) = r
            /\ \A x \in Node : x # m /\ x # h.parent[m] /\ Good(h, x) => Good(u, x)
<1> DEFINE u == UpdateHeight(h, m)
           l == Height(h, h.left[m])
           r == Height(h, h.right[m])
           new == 1 + Max({l, r})
<1>1. /\ u \in Heap /\ u.root = h.root /\ u.left = h.left /\ u.right = h.right
      /\ u.parent = h.parent
      /\ u.height = [x \in Node |-> IF x = m THEN new ELSE h.height[x]]
  BY UpdateHeightIs
<1>2. l \in Nat /\ r \in Nat
  BY HeapFacts, HeightIs
<1> HIDE DEF u
<1>3. u.height[m] = 1 + IF l > r THEN l ELSE r
  <2> HIDE DEF l, r
  <2> QED
    BY <1>1, <1>2, MaxOfTwo
<1> HIDE DEF new
<1>4. /\ \A x \in Node \ {m} : u.height[x] = h.height[x]
      /\ \A c \in Pointer \ {m} : Height(u, c) = Height(h, c)
  <2>1. \A x \in Node \ {m} : u.height[x] = h.height[x]
    BY <1>1
  <2> QED
    BY <2>1 DEF Height, Pointer
<1>5. Trees(u, f, Greater) /\ Threaded(u)
  BY <1>1 DEF Trees, Threaded, Linked
<1>6. h.left[m] # m /\ h.right[m] # m /\ h.left[m] \in Pointer /\ h.right[m] \in Pointer /\ f[Nil] = {}
  BY TreeFacts, GreaterIsOrder DEF Trees, IsTree
<1>7. Height(u, u.left[m]) = l /\ Height(u, u.right[m]) = r
  BY <1>1, <1>4, <1>6
<1>8. Within(u, f, d)
  <2>1. l <= Cardinality(f[h.left[m]]) + d /\ r <= Cardinality(f[h.right[m]]) + d
    BY <1>6, FitsChild
  <2> HIDE DEF l, r
  <2>2. u.height[m] <= Cardinality(f[m]) + d
    BY <1>2, <1>3, <2>1, FitsHigher, GreaterIsOrder
  <2> QED
    BY <1>4, <2>2 DEF Within
<1>9. ASSUME NEW x \in Node, x # m, x # h.parent[m], Good(h, x) PROVE Good(u, x)
  <2>1. h.left[x] \in Pointer \ {m} /\ h.right[x] \in Pointer \ {m}
    BY <1>9, HeapFacts, NodeFacts DEF Threaded, Linked
  <2> QED
    BY <1>1, <1>4, <1>9, <2>1, GoodSame
<1> QED
  BY <1>1, <1>2, <1>3, <1>4, <1>5, <1>7, <1>8, <1>9 DEF u, l, r

\* How far out of balance a node can be whose height was right, and what it was.
LEMMA WasHeight ==
  ASSUME NEW h \in Heap, NEW m \in Node, WasGood(h, m)
  PROVE  LET l == Height(h, h.left[m])
             r == Height(h, h.right[m])
             new == 1 + IF l > r THEN l ELSE r
         IN /\ l \in Nat /\ r \in Nat /\ h.height[m] \in Nat
            /\ Balance(h, m) = l - r /\ l - r \in -2..2
            /\ h.height[m] - new \in -1..1
            /\ l - r = -2 => h.height[m] - l \in 2..3
            /\ l - r = 2 => h.height[m] - r \in 2..3
<1> DEFINE l == Height(h, h.left[m])
           r == Height(h, h.right[m])
<1>1. /\ l \in Nat /\ r \in Nat /\ h.height[m] \in Nat /\ Balance(h, m) = l - r
      /\ \E dl, dr \in -1..1 :
           /\ dl = 0 \/ dr = 0
           /\ h.height[m] = 1 + IF l + dl > r + dr THEN l + dl ELSE r + dr
           /\ -1 <= (l + dl) - (r + dr) /\ (l + dl) - (r + dr) <= 1
  BY GoodIs, HeapFacts
<1> HIDE DEF l, r
<1>2. PICK dl \in -1..1, dr \in -1..1 :
           /\ dl = 0 \/ dr = 0
           /\ h.height[m] = 1 + IF l + dl > r + dr THEN l + dl ELSE r + dr
           /\ -1 <= (l + dl) - (r + dr) /\ (l + dl) - (r + dr) <= 1
  BY <1>1
<1>3. l - r \in -2..2
  BY <1>1, <1>2
<1>4. h.height[m] - (1 + IF l > r THEN l ELSE r) \in -1..1
  BY <1>1, <1>2
<1>5. (l - r = -2 => h.height[m] - l \in 2..3) /\ (l - r = 2 => h.height[m] - r \in 2..3)
  BY <1>1, <1>2
<1> QED
  BY <1>1, <1>3, <1>4, <1>5 DEF l, r

\* A good node one of whose children has a height that no other has.
LEMMA HigherChild ==
  ASSUME NEW h \in Heap, NEW c \in Pointer, NEW k \in Nat, Height(h, c) > k
  PROVE  c # Nil /\ c \in Node
BY HeightIs DEF Height, Pointer

\* The node that the walk stands on is two out of balance, and all others are good: the
\* children that the code rotates exist, and the node is settled.
LEMMA RebalanceSettles ==
  ASSUME NEW h \in Heap, NEW f, Trees(h, f, Greater), Threaded(h), NEW m \in f[h.root],
         NEW d \in Nat, Within(h, f, d),
         \A x \in f[h.root] : x = m \/ Good(h, x),
         WasGood(h, m), Balance(h, m) \notin -1..1
  PROVE  LET u == UpdateHeight(h, m)
             b == Balance(u, m)
             r == RebalanceAt(h, m)
         IN /\ b \in {-2, 2}
            /\ b = 2 /\ Balance(u, u.left[m]) < 0 => u.right[u.left[m]] # Nil
            /\ b = -2 /\ Balance(u, u.right[m]) > 0 => u.left[u.right[m]] # Nil
            /\ r \in Heap
            /\ \E f2 : \E top \in Node :
                 /\ Settled(u, r, f, f2, m, top, Greater)
                 /\ h.height[m] - r.height[top] \in -1..1
                 /\ Within(r, f2, d)
<1> DEFINE u == UpdateHeight(h, m)
           l == Height(h, h.left[m])
           k == Height(h, h.right[m])
           r == RebalanceAt(h, m)
           ml == h.left[m]
           mr == h.right[m]
<1>0. /\ f[h.root] \in SUBSET Node /\ m \in Node /\ f[m] \subseteq f[h.root] /\ Nil \notin Node
      /\ IsTree(h.left, h.right, f, Greater) /\ h.root \in Pointer /\ h.root # Nil
  <2>1. f[h.root] \in SUBSET Node /\ IsTree(h.left, h.right, f, Greater) /\ h.root \in Pointer
    BY HeapFacts DEF Trees, IsTree
  <2>2. h.root # Nil
    BY <2>1 DEF IsTree
  <2> QED
    BY <2>1, <2>2, Transitive, GreaterIsOrder, NodeFacts DEF Pointer
<1>1. /\ u \in Heap /\ u.root = h.root /\ u.left = h.left /\ u.right = h.right
      /\ Trees(u, f, Greater) /\ Threaded(u) /\ Within(u, f, d)
      /\ \A c \in Pointer \ {m} : Height(u, c) = Height(h, c)
      /\ Height(u, u.left[m]) = l /\ Height(u, u.right[m]) = k
      /\ \A x \in Node : x # m /\ x # h.parent[m] /\ Good(h, x) => Good(u, x)
  BY <1>0, Updated
<1>2. /\ l \in Nat /\ k \in Nat /\ h.height[m] \in Nat
      /\ Balance(u, m) = l - k /\ (l - k = -2 \/ l - k = 2)
      /\ l - k = -2 => h.height[m] - l \in 2..3
      /\ l - k = 2 => h.height[m] - k \in 2..3
  <2>1. Balance(u, m) = l - k
    BY <1>1 DEF Balance
  <2>2. /\ l \in Nat /\ k \in Nat /\ h.height[m] \in Nat
        /\ Balance(h, m) = l - k /\ l - k \in -2..2
        /\ l - k = -2 => h.height[m] - l \in 2..3
        /\ l - k = 2 => h.height[m] - k \in 2..3
    BY <1>0, WasHeight
  <2> HIDE DEF l, k, u
  <2> QED
    BY <2>1, <2>2
\* below m all is good
<1>3. ASSUME NEW x \in f[ml] \cup f[mr] PROVE x \in Node /\ x # m /\ Good(u, x)
  <2>1. x \in f[h.root] /\ x # m /\ x \in Node
    BY <1>0, TreeFacts, GreaterIsOrder
  <2>2. x # h.parent[m]
    <3>1. CASE m = h.root
      BY <1>0, <2>1, <3>1 DEF Threaded, Linked
    <3>2. CASE m # h.root
      <4>1. Linked(h, f[h.root])
        BY <1>0 DEF Threaded, Linked
      <4>2. m \in {h.left[h.parent[m]], h.right[h.parent[m]]} /\ h.parent[m] \in Node
        BY <3>2, <4>1, ParentInside, GreaterIsOrder
      <4>3. m \in f[h.parent[m]] /\ h.parent[m] # m
        BY <1>0, <4>2, TreeFacts, GreaterIsOrder DEF IsTree
      <4>4. x = h.parent[m] => m \in f[ml] \cup f[mr]
        <5>1. \A c \in Pointer : x \in f[c] => f[x] \subseteq f[c]
          BY <1>0, Transitive, GreaterIsOrder DEF Pointer, IsTree
        <5> QED
          BY <1>0, <4>3, <5>1, TreeFacts, GreaterIsOrder
      <4> QED
        BY <1>0, <4>4, TreeFacts, GreaterIsOrder
    <3> QED
      BY <3>1, <3>2
  <2> QED
    BY <1>1, <2>1, <2>2
<1>4. /\ ml \in Pointer /\ mr \in Pointer /\ ml # m /\ mr # m
      /\ \A c \in Node : /\ c \in f[c] /\ u.left[c] \in Pointer /\ u.right[c] \in Pointer
                         /\ (u.left[c] # Nil => u.left[c] \in f[c])
                         /\ (u.right[c] # Nil => u.right[c] \in f[c])
  <2>1. ml \in Pointer /\ mr \in Pointer /\ ml # m /\ mr # m
    BY <1>0, TreeFacts, GreaterIsOrder
  <2>2. ASSUME NEW c \in Node
        PROVE  /\ c \in f[c] /\ u.left[c] \in Pointer /\ u.right[c] \in Pointer
               /\ (u.left[c] # Nil => u.left[c] \in f[c])
               /\ (u.right[c] # Nil => u.right[c] \in f[c])
    BY <1>0, <1>1, TreeFacts, GreaterIsOrder
  <2> QED
    BY <2>1, <2>2
<1>5. /\ u.left[m] = ml /\ u.right[m] = mr
      /\ Height(u, ml) = l /\ Height(u, mr) = k
  BY <1>1
<1>6. RebalanceAt(h, m) =
        LET leftIn == IF Balance(u, u.left[m]) < 0 THEN RotateLeft(u, Left(m)) ELSE u
            rightIn == IF Balance(u, u.right[m]) > 0 THEN RotateRight(u, Right(m)) ELSE u
        IN IF Balance(u, m) > 1 THEN RotateRight(leftIn, NodeP(leftIn, m))
           ELSE IF Balance(u, m) < -1 THEN RotateLeft(rightIn, NodeP(rightIn, m))
           ELSE u
  BY DEF RebalanceAt
<1> HIDE DEF u, l, k, ml, mr
<1>7. CASE l - k = -2
  <2>1. mr # Nil /\ mr \in Node /\ Good(u, mr)
    <3>1. mr # Nil /\ mr \in Node
      BY <1>1, <1>2, <1>4, <1>5, <1>7, HigherChild
    <3> QED
      BY <1>3, <1>4, <3>1
  <2>2. Balance(u, mr) > 0 => u.left[mr] # Nil
    BY <1>1, <1>4, <2>1, HeightIs DEF Balance, Height
  <2>3. u.left[mr] # Nil => Good(u, u.left[mr])
    <3>1. u.left[mr] # Nil => u.left[mr] \in f[mr]
      BY <1>4, <2>1
    <3> QED
      BY <1>3, <3>1
  <2> DEFINE i == IF Balance(u, mr) > 0 THEN RotateRight(u, Right(m)) ELSE u
  <2>4. r = RotateLeft(i, NodeP(i, m))
    BY <1>2, <1>5, <1>6, <1>7
  <2>5. /\ i \in Heap /\ RotateLeft(i, NodeP(i, m)) \in Heap /\ Rotated(i, RotateLeft(i, NodeP(i, m)), m)
        /\ IF Height(u, u.left[mr]) > Height(u, u.right[mr])
           THEN Rotated(Flip(u), Flip(i), mr) ELSE i = u
    <3> DEFINE j == IF Balance(u, u.right[m]) > 0 THEN RotateRight(u, Right(m)) ELSE u
               q == RotateLeft(j, NodeP(j, m))
    <3>1. /\ j \in Heap /\ q \in Heap /\ Rotated(j, q, m)
          /\ IF Height(u, u.left[u.right[m]]) > Height(u, u.right[u.right[m]])
             THEN Rotated(Flip(u), Flip(j), u.right[m]) ELSE j = u
      BY <1>1, <1>5, <2>1, <2>2, LeftTurn
    <3> QED
      BY <1>5, <3>1
  <2> HIDE DEF r, i
  <2>6. Height(u, u.right[m]) = Height(u, u.left[m]) + 2
    BY <1>2, <1>5, <1>7
  <2>7. \E f2 : \E top \in Node :
           /\ Settled(u, r, f, f2, m, top, Greater)
           /\ r.height[top] - Height(u, u.left[m]) \in 2..3
           /\ Within(r, f2, d)
    <3>1. Rotated(i, r, m) /\ r \in Heap /\ i \in Heap
      BY <2>4, <2>5
    <3>2. LET mr1 == u.right[m]
              low == Height(u, u.left[m])
          IN /\ Height(u, mr1) = low + 2 /\ Good(u, mr1)
             /\ u.left[mr1] # Nil => Good(u, u.left[mr1])
             /\ IF Height(u, u.left[mr1]) > Height(u, u.right[mr1])
                THEN Rotated(Flip(u), Flip(i), mr1) ELSE i = u
      BY <1>5, <2>1, <2>3, <2>5, <2>6
    <3>3. u.right[m] # Nil /\ m \in f[u.root]
      BY <1>1, <1>5, <2>1
    <3> QED
      BY <1>1, <3>1, <3>2, <3>3, GreaterOpposite, TurnSettles
  <2>8a. PICK f2 : \E top \in Node :
           /\ Settled(u, r, f, f2, m, top, Greater)
           /\ r.height[top] - l \in 2..3
           /\ Within(r, f2, d)
    BY <1>5, <2>7
  <2>8. PICK top \in Node :
           /\ Settled(u, r, f, f2, m, top, Greater)
           /\ r.height[top] - l \in 2..3
           /\ Within(r, f2, d)
    BY <2>8a
  <2>9. h.height[m] - r.height[top] \in -1..1
    <3>1. r.height[top] \in Nat
      BY <2>8, HeapFacts DEF Settled
    <3> QED
      BY <1>2, <1>7, <2>8, <3>1
  <2>10. r \in Heap
    BY <2>8 DEF Settled
  <2>11. Balance(u, m) = -2
    BY <1>2, <1>7
  <2> QED
    BY <1>5, <2>2, <2>8, <2>9, <2>10, <2>11 DEF u, r
<1>8. CASE l - k = 2
  <2> DEFINE g == Flip(u)
  <2>0. /\ g \in Heap /\ g.left = u.right /\ g.right = u.left /\ g.root = u.root
        /\ Trees(g, f, Smaller) /\ Threaded(g) /\ Flip(g) = u
        /\ \A c \in Pointer : Height(g, c) = Height(u, c)
        /\ \A x \in Node : Good(g, x) <=> Good(u, x)
        /\ Within(g, f, d)
    <3>1. g.height = u.height
      BY <1>1, FlipIs
    <3>2. Within(g, f, d)
      BY <1>1, <3>1 DEF Within
    <3>3. Trees(g, f, Smaller) /\ Threaded(g)
      BY <1>1, FlipTrees, FlipThreaded, GreaterOpposite
    <3>4. \A x \in Node : Good(g, x) <=> Good(u, x)
      BY <1>1, FlipGood
    <3> QED
      BY <1>1, <3>2, <3>3, <3>4, FlipIs, FlipTwice
  <2>1. ml # Nil /\ ml \in Node /\ Good(u, ml)
    <3>1. ml # Nil /\ ml \in Node
      BY <1>1, <1>2, <1>4, <1>5, <1>8, HigherChild
    <3> QED
      BY <1>3, <1>4, <3>1
  <2>2. Balance(u, ml) < 0 => u.right[ml] # Nil
    BY <1>1, <1>4, <2>1, HeightIs DEF Balance, Height
  <2>3. u.right[ml] # Nil => u.right[ml] \in Node /\ Good(u, u.right[ml])
    <3>1. u.right[ml] # Nil => u.right[ml] \in f[ml]
      BY <1>4, <2>1
    <3> QED
      BY <1>3, <3>1
  <2> DEFINE i == IF Balance(u, ml) < 0 THEN RotateLeft(u, Left(m)) ELSE u
  <2>4. r = RotateRight(i, NodeP(i, m))
    BY <1>2, <1>5, <1>6, <1>8
  <2>5. /\ i \in Heap /\ RotateRight(i, NodeP(i, m)) \in Heap
        /\ Rotated(Flip(i), Flip(RotateRight(i, NodeP(i, m))), m)
        /\ IF Height(u, u.right[ml]) > Height(u, u.left[ml])
           THEN Rotated(u, i, ml) ELSE i = u
    <3> DEFINE j == IF Balance(u, u.left[m]) < 0 THEN RotateLeft(u, Left(m)) ELSE u
               q == RotateRight(j, NodeP(j, m))
    <3>1. /\ j \in Heap /\ q \in Heap /\ Rotated(Flip(j), Flip(q), m)
          /\ IF Height(u, u.right[u.left[m]]) > Height(u, u.left[u.left[m]])
             THEN Rotated(u, j, u.left[m]) ELSE j = u
      BY <1>1, <1>5, <2>1, <2>2, RightTurn
    <3> QED
      BY <1>5, <3>1
  <2> HIDE DEF r, i, g
  <2>6. Height(g, g.right[m]) = Height(g, g.left[m]) + 2
    BY <1>2, <1>4, <1>5, <1>8, <2>0
  <2>7. \E f2 : \E top \in Node :
           /\ Settled(g, Flip(r), f, f2, m, top, Smaller)
           /\ Flip(r).height[top] - Height(g, g.left[m]) \in 2..3
           /\ Within(Flip(r), f2, d)
    <3>1. Rotated(Flip(i), Flip(r), m) /\ r \in Heap /\ i \in Heap
          /\ Flip(r) \in Heap /\ Flip(i) \in Heap /\ Flip(Flip(i)) = i
      BY <2>4, <2>5, FlipIs, FlipTwice
    <3>2. LET mr1 == g.right[m]
              low == Height(g, g.left[m])
          IN /\ Height(g, mr1) = low + 2 /\ Good(g, mr1)
             /\ g.left[mr1] # Nil => Good(g, g.left[mr1])
             /\ IF Height(g, g.left[mr1]) > Height(g, g.right[mr1])
                THEN Rotated(Flip(g), Flip(Flip(i)), mr1) ELSE Flip(i) = g
      <4>1. Height(u, u.right[ml]) = Height(g, g.left[ml]) /\ Height(u, u.left[ml]) = Height(g, g.right[ml])
        BY <1>4, <2>0, <2>1
      <4>2. IF Height(g, g.left[ml]) > Height(g, g.right[ml])
            THEN Rotated(Flip(g), Flip(Flip(i)), ml) ELSE Flip(i) = g
        BY <2>0, <2>5, <3>1, <4>1 DEF g
      <4>3. Good(g, ml) /\ (g.left[ml] # Nil => Good(g, g.left[ml])) /\ g.right[m] = ml
        BY <1>5, <2>0, <2>1, <2>3
      <4> QED
        BY <2>6, <4>2, <4>3
    <3>3. g.right[m] # Nil /\ m \in f[g.root]
      BY <1>1, <1>5, <2>0, <2>1
    <3> QED
      BY <2>0, <3>1, <3>2, <3>3, GreaterOpposite, TurnSettles
  <2>8a. PICK f2 : \E top \in Node :
           /\ Settled(g, Flip(r), f, f2, m, top, Smaller)
           /\ Flip(r).height[top] - Height(g, g.left[m]) \in 2..3
           /\ Within(Flip(r), f2, d)
    BY <2>7
  <2>8. PICK top \in Node :
           /\ Settled(g, Flip(r), f, f2, m, top, Smaller)
           /\ Flip(r).height[top] - Height(g, g.left[m]) \in 2..3
           /\ Within(Flip(r), f2, d)
    BY <2>8a
  <2>9. r \in Heap /\ Flip(r).height = r.height
    BY <2>4, <2>5, FlipIs
  <2>10. Settled(u, r, f, f2, m, top, Greater)
    BY <1>0, <1>1, <2>8, <2>9, GreaterOpposite, FlipSettled DEF g
  <2>11. Within(r, f2, d)
    BY <2>8, <2>9 DEF Within
  <2>12. h.height[m] - r.height[top] \in -1..1
    <3>1. r.height[top] \in Nat /\ Height(g, g.left[m]) = k
      BY <1>4, <1>5, <2>0, <2>9, HeapFacts
    <3> QED
      BY <1>2, <1>8, <2>8, <2>9, <3>1
  <2>13. Balance(u, m) = 2
    BY <1>2, <1>8
  <2> QED
    BY <1>5, <2>2, <2>9, <2>10, <2>11, <2>12, <2>13 DEF u, r
<1> QED
  BY <1>2, <1>7, <1>8

\* A good node's height is what updateHeight makes it, and nothing is rotated there.
LEMMA GoodRests ==
  ASSUME NEW h \in Heap, NEW m \in Node, Good(h, m)
  PROVE  /\ UpdateHeight(h, m) = h /\ RebalanceAt(h, m) = h
         /\ Balance(h, m) \in -1..1 /\ WasGood(h, m)
<1> DEFINE u == UpdateHeight(h, m)
           new == 1 + Max({Height(h, h.left[m]), Height(h, h.right[m])})
<1>1. h.height[m] = new /\ Balance(h, m) \in -1..1
  BY DEF Good
<1>2. /\ u \in Heap /\ u.root = h.root /\ u.left = h.left /\ u.right = h.right
      /\ u.parent = h.parent
      /\ u.height = [x \in Node |-> IF x = m THEN new ELSE h.height[x]]
  BY UpdateHeightIs
<1> HIDE DEF u, new
<1>3. u.height = h.height
  BY <1>1, <1>2, HeapFacts
<1>4. u = h
  BY <1>2, <1>3, HeapEqual
<1>5. RebalanceAt(h, m) = h
  <2>1. UpdateHeight(h, m) = h
    BY <1>4 DEF u
  <2>2. ~ (Balance(h, m) > 1) /\ ~ (Balance(h, m) < -1)
    BY <1>1
  <2> QED
    BY <2>1, <2>2 DEF RebalanceAt
<1>6. WasGood(h, m)
  <2>1. /\ Height(h, h.left[m]) \in Nat /\ Height(h, h.right[m]) \in Nat
    BY HeapFacts, HeightIs
  <2>2. /\ Height(h, h.left[m]) = Height(h, h.left[m]) + 0
        /\ Height(h, h.right[m]) = Height(h, h.right[m]) + 0
    BY <2>1
  <2>3. 0 \in -1..1
    OBVIOUS
  <2> QED
    BY <2>2, <2>3, GoodBefore
<1> QED
  BY <1>1, <1>4, <1>5, <1>6 DEF u

\* When all of the tree is good, no height exceeds the number of nodes.
LEMMA GoodFits ==
  ASSUME NEW h, NEW f, Sound(h, f), \A x \in f[h.root] : Good(h, x)
  PROVE  \A x \in f[h.root] : h.height[x] <= Cardinality(f[x])
<1> DEFINE S == {x \in f[h.root] : ~ (h.height[x] <= Cardinality(f[x]))}
<1>1. /\ h \in Heap /\ IsTree(h.left, h.right, f, Greater) /\ Trees(h, f, Greater)
      /\ f[h.root] \in SUBSET Node /\ f[Nil] = {} /\ h.root \in Pointer
  BY SoundFacts
<1>2. ASSUME S # {} PROVE FALSE
  <2>1. PICK x \in S : h.left[x] \notin S /\ h.right[x] \notin S
    BY <1>1, <1>2, LowestNode, GreaterIsOrder
  <2>2. x \in f[h.root] /\ x \in Node /\ ~ (h.height[x] <= Cardinality(f[x]))
    BY <1>1, <2>1
  <2>3. f[x] \subseteq f[h.root]
    BY <1>1, <2>2, Transitive, GreaterIsOrder DEF Pointer
  <2>4. ASSUME NEW c \in {h.left[x], h.right[x]}
        PROVE  Height(h, c) <= Cardinality(f[c]) + 0
    <3>1. CASE c = Nil
      BY <1>1, <3>1, FS_EmptySet DEF Height
    <3>2. CASE c # Nil
      <4>1. c \in Node /\ c \in f[c] /\ f[c] \subseteq f[x]
        BY <1>1, <2>2, <3>2, TreeFacts, GreaterIsOrder DEF Pointer
      <4>2. h.height[c] <= Cardinality(f[c]) /\ Height(h, c) = h.height[c]
        BY <2>1, <2>3, <3>2, <4>1 DEF Height
      <4> QED
        BY <1>1, <4>1, <4>2, TreeSizes, GreaterIsOrder
    <3> QED
      BY <3>1, <3>2
  <2> DEFINE l == Height(h, h.left[x])
             r == Height(h, h.right[x])
  <2>5. /\ l \in Nat /\ r \in Nat /\ h.height[x] = 1 + IF l > r THEN l ELSE r
        /\ l <= Cardinality(f[h.left[x]]) + 0 /\ r <= Cardinality(f[h.right[x]]) + 0
    BY <1>1, <2>2, <2>4, GoodIs
  <2> HIDE DEF l, r
  <2>6. 1 + (IF l > r THEN l ELSE r) <= Cardinality(f[x]) + 0
    BY <1>1, <2>2, <2>5, FitsHigher, GreaterIsOrder
  <2>7. Cardinality(f[x]) \in Nat
    BY <1>1, <2>2, TreeSizes, GreaterIsOrder
  <2> QED
    BY <2>2, <2>5, <2>6, <2>7
<1> QED
  BY <1>2

\* Which node's height may be wrong: the one that the walk stands on or its parent.
LEMMA WhereWrong ==
  ASSUME NEW h, NEW a \in Node, NEW f, Holds(h, a, f)
  PROVE  LET p == h.parent[a]
             L == f[h.root]
         IN /\ p \in L \cup {Nil}
            /\ Get(h, NodeP(h, a)) = a <=> a \in L
            /\ \/ /\ Good(h, a) /\ (p # Nil => p \in L /\ WasGood(h, p))
                  /\ \A x \in L : x = p \/ Good(h, x)
               \/ /\ ~ Good(h, a) /\ a \in L /\ WasGood(h, a)
                  /\ \A x \in L : x = a \/ Good(h, x)
<1> DEFINE p == h.parent[a]
           L == f[h.root]
<1>1. /\ h \in Heap /\ Trees(h, f, Greater) /\ Linked(h, L) /\ L \in SUBSET Node
  BY SoundFacts DEF Holds
<1>2. p \in L \cup {Nil}
  <2>1. CASE a \in L
    BY <1>1, <2>1, ParentInside, GreaterIsOrder
  <2>2. CASE a \notin L
    BY <2>2 DEF Holds, OutsideOK
  <2> QED
    BY <2>1, <2>2
<1>3. Get(h, NodeP(h, a)) = a <=> a \in L
  <2>1. a \in L <=> Get(h, NodeP(h, a)) = a
    BY <1>1, <1>2, NodePFacts, GreaterIsOrder
  <2> QED
    BY <2>1
<1>4. PICK e \in {a, p} :
        /\ \A m \in L \cup ({a} \ {Nil}) : m = e \/ Good(h, m)
        /\ e # Nil => e \in L /\ WasGood(h, e)
  <2>1. a # Nil
    BY NodeFacts
  <2> QED
    BY <2>1 DEF Holds, HeightsOK
<1>5. a # Nil
  BY NodeFacts
<1>6. CASE Good(h, a)
  <2>1. \A x \in L : x = p \/ Good(h, x)
    BY <1>4, <1>6
  <2>2. p # Nil => WasGood(h, p)
    <3>1. \A x \in L : Good(h, x) => WasGood(h, x)
      BY <1>1, GoodRests
    <3> QED
      BY <1>2, <1>4, <1>6, <3>1
  <2> QED
    BY <1>2, <1>3, <1>6, <2>1, <2>2
<1>7. CASE ~ Good(h, a)
  <2>1. e = a
    BY <1>4, <1>5, <1>7
  <2> QED
    BY <1>2, <1>3, <1>4, <1>5, <1>7, <2>1
<1> QED
  BY <1>6, <1>7

\* A good parent stays good, but for one change, when a child's height changes by one.
LEMMA ParentWasGood ==
  ASSUME NEW h \in Heap, NEW r \in Heap, NEW p \in Node, Good(h, p), NEW m \in Node, NEW new \in Nat,
         r.height[p] = h.height[p], h.height[m] - new \in -1..1,
         Height(r, r.left[p]) = IF h.left[p] = m THEN new ELSE Height(h, h.left[p]),
         Height(r, r.right[p]) = IF h.right[p] = m THEN new ELSE Height(h, h.right[p]),
         ~ (h.left[p] = m /\ h.right[p] = m)
  PROVE  WasGood(r, p)
<1> DEFINE dl == IF h.left[p] = m THEN h.height[m] - new ELSE 0
           dr == IF h.right[p] = m THEN h.height[m] - new ELSE 0
<1>1. /\ h.height[m] \in Nat /\ Height(h, m) = h.height[m]
      /\ Height(h, h.left[p]) \in Nat /\ Height(h, h.right[p]) \in Nat
  BY HeapFacts, HeightIs, NodeFacts DEF Height
<1>2. dl \in -1..1 /\ dr \in -1..1 /\ (dl = 0 \/ dr = 0)
  OBVIOUS
<1>3. /\ Height(h, h.left[p]) = Height(r, r.left[p]) + dl
      /\ Height(h, h.right[p]) = Height(r, r.right[p]) + dr
  BY <1>1
<1> QED
  BY <1>2, <1>3, GoodBefore

\* The invariant of a heap when the walk stands in the tree or has ended.
LEMMA HoldsInside ==
  ASSUME NEW h \in Heap, NEW f, Trees(h, f, Greater), Threaded(h),
         NEW a \in f[h.root] \cup {Nil},
         \A x \in Node \ f[h.root] :
           h.left[x] = Nil /\ h.right[x] = Nil /\ h.parent[x] = Nil /\ h.height[x] = 0,
         NEW e \in {a} \cup (IF a = Nil THEN {} ELSE {h.parent[a]}),
         \A x \in f[h.root] : x = e \/ Good(h, x),
         e # Nil => e \in f[h.root] /\ WasGood(h, e),
         NEW d \in 0..1, Cardinality(f[h.root]) + d <= MaxKey, Within(h, f, d)
  PROVE  Holds(h, a, f)
<1> DEFINE L == f[h.root]
<1>1. Sound(h, f)
  <2>1. f[h.root] \in SUBSET Node
    BY HeapFacts DEF Trees, IsTree
  <2> QED
    BY <2>1 DEF Sound, Threaded, Linked
<1>2. /\ L \in SUBSET Node /\ IsTree(h.left, h.right, f, Greater) /\ h.root \in Pointer /\ f[Nil] = {}
  BY <1>1, SoundFacts
<1>3. \A x \in Node : Cardinality(f[x]) \in Nat
  BY <1>2, TreeSizes, GreaterIsOrder
<1>4. \A m \in Node : h.height[m] <= MaxKey
  <2>1. ASSUME NEW m \in L PROVE h.height[m] <= MaxKey
    <3>1. f[m] \subseteq L /\ m \in Node /\ h.root \in Node
      BY <1>2, Transitive, GreaterIsOrder DEF Pointer
    <3>2. IsFiniteSet(L)
      BY <1>2, <3>1, TreeSizes, GreaterIsOrder
    <3>3. Cardinality(f[m]) <= Cardinality(L) /\ Cardinality(L) \in Nat
      BY <1>3, <3>1, <3>2, FS_Subset
    <3>4. h.height[m] <= Cardinality(f[m]) + d /\ h.height[m] \in Nat
      BY <3>1, HeapFacts DEF Within
    <3> QED
      BY <1>3, <3>1, <3>3, <3>4, MaxKeyAssumption
  <2> QED
    BY <2>1, MaxKeyAssumption
<1>5. OutsideOK(h, a, L)
  BY NodeFacts DEF OutsideOK
<1>6. HeightsOK(h, a, L)
  BY DEF HeightsOK
<1>7. HeightsFit(h, a, f)
  <2>1. CASE a = Nil
    <3>1. \A x \in f[h.root] : h.height[x] <= Cardinality(f[x])
      BY <1>1, <1>2, <2>1, NodeFacts, GoodFits
    <3>2. ASSUME NEW m \in Node PROVE h.height[m] <= Cardinality(f[m]) + 0
      <4>1. Cardinality(f[m]) \in Nat
        BY <1>3
      <4>2. h.height[m] <= Cardinality(f[m])
        BY <3>1, <4>1
      <4> QED
        BY <4>1, <4>2, HeapFacts
    <3>3. Cardinality(f[h.root]) + 0 <= MaxKey
      <4>1. Cardinality(f[h.root]) \in Nat
        <5>1. CASE h.root = Nil
          <6>1. f[h.root] = {}
            BY <1>2, <5>1
          <6>2. Cardinality({}) \in Nat
            BY FS_EmptySet
          <6> QED
            BY <6>1, <6>2
        <5>2. CASE h.root # Nil
          BY <1>2, <1>3, <5>2 DEF Pointer
        <5> QED
          BY <5>1, <5>2
      <4> QED
        BY <4>1, MaxKeyAssumption
    <3> QED
      BY <3>2, <3>3 DEF HeightsFit
  <2>2. CASE a # Nil
    BY <2>2 DEF HeightsFit, Within
  <2> QED
    BY <2>1, <2>2
<1>8. a \in Pointer
  BY <1>2, NodeFacts
<1> QED
  BY <1>1, <1>4, <1>5, <1>6, <1>7, <1>8 DEF Holds

\* How the walk has moved, of a heap h and the next one, h2: to the parent of the node it
\* stood on or, after a rotation, to the node that has taken that one's place.
Climbed(h, a, f, h2, a2) ==
  \/ a2 = h.parent[a] /\ \A x \in f[h.root] : h2.parent[x] = h.parent[x]
  \/ /\ a \in f[h.root] /\ Balance(UpdateHeight(h, a), a) \notin -1..1
     /\ a2 \in f[h.root] /\ h2.parent[a2] = h.parent[a] /\ Good(h2, a2)
     /\ \A x \in f[h.root] \ f[a] : h2.parent[x] = h.parent[x]

ClearIs(h, m, r) ==
  /\ r \in Heap /\ r.root = h.root
  /\ r.left = [x \in Node |-> IF x = m THEN Nil ELSE h.left[x]]
  /\ r.right = [x \in Node |-> IF x = m THEN Nil ELSE h.right[x]]
  /\ r.parent = [x \in Node |-> IF x = m THEN Nil ELSE h.parent[x]]
  /\ r.height = [x \in Node |-> IF x = m THEN 0 ELSE h.height[x]]

LEMMA ClearFacts ==
  ASSUME NEW h \in Heap, NEW m \in Node
  PROVE  ClearIs(h, m, Clear(h, m))
<1> DEFINE r == Clear(h, m)
<1>1. r \in Heap
  BY NodeFacts DEF Clear, Heap
<1>2. /\ r.root = h.root
      /\ r.left = [h.left EXCEPT ![m] = Nil] /\ r.right = [h.right EXCEPT ![m] = Nil]
      /\ r.parent = [h.parent EXCEPT ![m] = Nil] /\ r.height = [h.height EXCEPT ![m] = 0]
  BY DEF Clear, Heap
<1> HIDE DEF r
<1> QED
  BY <1>1, <1>2, HeapFacts DEF ClearIs, r

\* The walk leaves the node that Delete has removed: nothing led to that one.
LEMMA ClearHolds ==
  ASSUME NEW h, NEW a \in Node, NEW f, Holds(h, a, f), a \notin f[h.root], Good(h, a),
         NEW r, ClearIs(h, a, r)
  PROVE  \E f2 : Holds(r, h.parent[a], f2) /\ f2[r.root] = f[h.root]
<1> DEFINE L == f[h.root]
           p == h.parent[a]
           f2 == [x \in Pointer |-> IF x = a THEN {a} ELSE f[x]]
<1>1. /\ h \in Heap /\ Trees(h, f, Greater) /\ Linked(h, L) /\ L \in SUBSET Node
      /\ IsTree(h.left, h.right, f, Greater) /\ f[Nil] = {} /\ h.root \in Pointer
  BY SoundFacts DEF Holds
<1>2. /\ p \in L \cup {Nil} /\ (p # Nil => WasGood(h, p)) /\ \A x \in L : x = p \/ Good(h, x)
  BY WhereWrong
<1>3. /\ \A x \in Node \ (L \cup {a}) :
           h.left[x] = Nil /\ h.right[x] = Nil /\ h.parent[x] = Nil /\ h.height[x] = 0
  BY DEF Holds, OutsideOK
<1>4. \A x \in Node : r.left[x] = (IF x = a THEN Nil ELSE h.left[x]) /\ r.right[x] = (IF x = a THEN Nil ELSE h.right[x])
                      /\ r.parent[x] = (IF x = a THEN Nil ELSE h.parent[x])
                      /\ r.height[x] = (IF x = a THEN 0 ELSE h.height[x])
  BY DEF ClearIs
<1>5. /\ h.root # a /\ r \in Heap /\ r.root = h.root
      /\ \A x \in Node : h.left[x] # a /\ h.right[x] # a
  <2>1. h.root # a
    BY <1>1 DEF IsTree
  <2>2. ASSUME NEW x \in Node PROVE h.left[x] # a /\ h.right[x] # a
    <3>1. CASE x \in L
      <4>1. f[x] \subseteq L
        BY <1>1, <3>1, Transitive, GreaterIsOrder DEF Pointer, IsTree
      <4>2. \A c \in {h.left[x], h.right[x]} : c # Nil => c \in f[x]
        BY <1>1, TreeFacts, GreaterIsOrder
      <4> QED
        BY <4>1, <4>2, NodeFacts
    <3>2. CASE x \notin L
      BY <1>1, <1>3, <3>2, NodeFacts, TreeFacts, GreaterIsOrder
    <3> QED
      BY <3>1, <3>2
  <2> QED
    BY <2>1, <2>2 DEF ClearIs
<1>6. /\ f2 \in [Pointer -> SUBSET Node] /\ f2[Nil] = {} /\ f2[a] = {a} /\ f2[r.root] = L
      /\ \A x \in Pointer \ {a} : f2[x] = f[x]
  BY <1>1, <1>5, NodeFacts DEF IsTree
<1>7. Trees(r, f2, Greater)
  <2>1. ASSUME NEW x \in Node
        PROVE  /\ f2[x] = {x} \cup f2[r.left[x]] \cup f2[r.right[x]]
               /\ \A k \in f2[r.left[x]] : x \in Greater[k]
               /\ f2[r.right[x]] \subseteq Greater[x]
    <3>1. CASE x = a
      BY <1>4, <1>6, <3>1
    <3>2. CASE x # a
      <4>1. /\ r.left[x] = h.left[x] /\ r.right[x] = h.right[x]
            /\ h.left[x] \in Pointer \ {a} /\ h.right[x] \in Pointer \ {a}
            /\ x \in Pointer \ {a}
        BY <1>1, <1>4, <1>5, <3>2, HeapFacts, NodeFacts
      <4>2. /\ f[x] = {x} \cup f[h.left[x]] \cup f[h.right[x]]
            /\ \A k \in f[h.left[x]] : x \in Greater[k]
            /\ f[h.right[x]] \subseteq Greater[x]
        BY <1>1 DEF IsTree
      <4> HIDE DEF f2
      <4> QED
        BY <1>6, <4>1, <4>2
    <3> QED
      BY <3>1, <3>2
  <2>2. r.left \in [Node -> Pointer] /\ r.right \in [Node -> Pointer]
    BY <1>5, HeapFacts
  <2> HIDE DEF f2
  <2> QED
    BY <1>6, <2>1, <2>2 DEF Trees, IsTree
<1> HIDE DEF f2
<1>8. Threaded(r)
  <2>1. Linked(r, Node)
    <3>1. r.root # Nil => r.parent[r.root] = Nil
      BY <1>1, <1>4, <1>5 DEF Linked, Pointer
    <3>2. ASSUME NEW x \in Node
          PROVE  /\ r.left[x] # Nil => r.parent[r.left[x]] = x
                 /\ r.right[x] # Nil => r.parent[r.right[x]] = x
      <4>1. /\ x # a /\ x \notin L => h.left[x] = Nil /\ h.right[x] = Nil
            /\ x \in L => /\ h.left[x] # Nil => h.parent[h.left[x]] = x
                          /\ h.right[x] # Nil => h.parent[h.right[x]] = x
        BY <1>1, <1>3 DEF Linked
      <4>2. h.left[x] \in Pointer /\ h.right[x] \in Pointer
        BY <1>1, HeapFacts
      <4> QED
        BY <1>4, <1>5, <4>1, <4>2 DEF Pointer
    <3> QED
      BY <3>1, <3>2 DEF Linked
  <2> QED
    BY <1>5, <1>7, <2>1, ThreadedTrees, GreaterIsOrder
<1>9. \A x \in Node \ L : r.left[x] = Nil /\ r.right[x] = Nil /\ r.parent[x] = Nil /\ r.height[x] = 0
  BY <1>3, <1>4
<1>10. ASSUME NEW x \in L PROVE (Good(r, x) <=> Good(h, x)) /\ (WasGood(r, x) <=> WasGood(h, x))
  <2>1. x \in Node /\ x # a
    BY <1>1
  <2>2. /\ Height(r, r.left[x]) = Height(h, h.left[x])
        /\ Height(r, r.right[x]) = Height(h, h.right[x])
    <3>1. /\ r.left[x] = h.left[x] /\ r.right[x] = h.right[x]
          /\ h.left[x] \in Pointer /\ h.right[x] \in Pointer /\ h.left[x] # a /\ h.right[x] # a
      BY <1>1, <1>4, <1>5, <2>1, HeapFacts
    <3> QED
      BY <1>4, <3>1 DEF Height, Pointer
  <2> QED
    BY <1>4, <2>1, <2>2, GoodSame
<1>11. PICK d \in 0..1 : Cardinality(L) + d <= MaxKey /\ \A m \in Node : h.height[m] <= Cardinality(f[m]) + d
  BY DEF Holds, HeightsFit
<1>12. Within(r, f2, d)
  <2>1. ASSUME NEW x \in Node PROVE r.height[x] <= Cardinality(f2[x]) + d
    <3>1. CASE x = a
      <4>1. Cardinality(f2[x]) \in Nat
        BY <1>5, <1>7, TreeSizes, GreaterIsOrder DEF Trees
      <4> QED
        BY <1>4, <3>1, <4>1
    <3>2. CASE x # a
      BY <1>4, <1>6, <1>11, <3>2, NodeFacts
    <3> QED
      BY <3>1, <3>2
  <2> QED
    BY <2>1 DEF Within
<1> HIDE DEF L, p
<1>13. Holds(r, p, f2)
  <2>1. /\ f2[r.root] = L /\ p \in L \cup {Nil} /\ \A x \in L : x = p \/ Good(r, x)
        /\ p # Nil => p \in L /\ WasGood(r, p)
    BY <1>2, <1>6, <1>10
  <2> QED
    BY <1>5, <1>7, <1>8, <1>9, <1>11, <1>12, <2>1, HoldsInside
<1> QED
  BY <1>6, <1>13 DEF L, p

\* The walk stands on a good node of the tree: nothing changes.
LEMMA RestHolds ==
  ASSUME NEW h, NEW a \in Node, NEW f, Holds(h, a, f), a \in f[h.root], Good(h, a)
  PROVE  Holds(h, h.parent[a], f)
<1> DEFINE L == f[h.root]
           p == h.parent[a]
<1>1. h \in Heap /\ Trees(h, f, Greater)
  BY SoundFacts DEF Holds
<1>2. /\ p \in L \cup {Nil} /\ (p # Nil => p \in L /\ WasGood(h, p)) /\ \A x \in L : x = p \/ Good(h, x)
  BY WhereWrong
<1>3. /\ Threaded(h)
      /\ \A m \in Node \ L : h.left[m] = Nil /\ h.right[m] = Nil /\ h.parent[m] = Nil /\ h.height[m] = 0
  BY CleanOutside
<1>4. PICK d \in 0..1 : Cardinality(L) + d <= MaxKey /\ Within(h, f, d)
  BY DEF Holds, HeightsFit, Within
<1> HIDE DEF p
<1>5. Holds(h, p, f)
  BY <1>1, <1>2, <1>3, <1>4, HoldsInside
<1> QED
  BY <1>5 DEF p

\* The walk stands on a node whose height is wrong, but not its balance.
LEMMA UpdateHolds ==
  ASSUME NEW h, NEW a \in Node, NEW f, Holds(h, a, f), ~ Good(h, a), Balance(h, a) \in -1..1
  PROVE  LET u == UpdateHeight(h, a)
         IN RebalanceAt(h, a) = u /\ u.parent = h.parent /\ u.root = h.root
            /\ Good(u, a) /\ Holds(u, h.parent[a], f)
<1> DEFINE L == f[h.root]
           p == h.parent[a]
           u == UpdateHeight(h, a)
           l == Height(h, h.left[a])
           r == Height(h, h.right[a])
<1>1. h \in Heap /\ Trees(h, f, Greater) /\ IsTree(h.left, h.right, f, Greater) /\ L \in SUBSET Node
  BY SoundFacts DEF Holds
<1>2. /\ p \in L \cup {Nil} /\ a \in L /\ WasGood(h, a) /\ \A x \in L : x = a \/ Good(h, x)
  BY WhereWrong
<1>3. /\ Threaded(h)
      /\ \A m \in Node \ L : h.left[m] = Nil /\ h.right[m] = Nil /\ h.parent[m] = Nil /\ h.height[m] = 0
  BY <1>2, CleanOutside
<1>4. PICK d \in 0..1 : Cardinality(L) + d <= MaxKey /\ Within(h, f, d)
  BY DEF Holds, HeightsFit, Within
<1>5. /\ u \in Heap /\ u.root = h.root /\ u.left = h.left /\ u.right = h.right
      /\ u.parent = h.parent
      /\ Trees(u, f, Greater) /\ Threaded(u) /\ Within(u, f, d)
      /\ l \in Nat /\ r \in Nat /\ u.height[a] = 1 + IF l > r THEN l ELSE r
      /\ \A x \in Node \ {a} : u.height[x] = h.height[x]
      /\ \A c \in Pointer \ {a} : Height(u, c) = Height(h, c)
      /\ Height(u, u.left[a]) = l /\ Height(u, u.right[a]) = r
      /\ \A x \in Node : x # a /\ x # h.parent[a] /\ Good(h, x) => Good(u, x)
  BY <1>1, <1>3, <1>4, Updated
<1>6. Balance(u, a) = l - r /\ Balance(h, a) = l - r
  BY <1>5 DEF Balance
<1>7. RebalanceAt(h, a) = u
  <2>1. ~ (Balance(UpdateHeight(h, a), a) > 1) /\ ~ (Balance(UpdateHeight(h, a), a) < -1)
    BY <1>5, <1>6
  <2> QED
    BY <2>1 DEF RebalanceAt
<1> HIDE DEF u
<1>8. Good(u, a)
  <2>1. Good(u, a) <=> /\ u.height[a] = 1 + IF l > r THEN l ELSE r
                       /\ -1 <= l - r /\ l - r <= 1
    BY <1>5, GoodIs
  <2> HIDE DEF l, r
  <2> QED
    BY <1>5, <1>6, <2>1
<1>9. p # Nil => WasGood(u, p)
  <2>1. CASE p # Nil
    <3>1. p \in Node /\ p # a /\ Good(h, p)
      <4>1. p \in Node
        BY <1>1, <1>2, <2>1
      <4>2. Linked(h, f[h.root])
        BY <1>1, <1>3 DEF Threaded, Linked
      <4>3. a \in {h.left[p], h.right[p]}
        BY <1>1, <1>2, <2>1, <4>2, ParentInside, GreaterIsOrder
      <4>4. h.left[p] # p /\ h.right[p] # p
        BY <1>1, <4>1, TreeFacts, GreaterIsOrder
      <4> QED
        BY <1>2, <2>1, <4>1, <4>3, <4>4
    <3>2. /\ u.height[p] = h.height[p] /\ u.height[a] \in Nat
          /\ Height(u, u.left[p]) = IF h.left[p] = a THEN u.height[a] ELSE Height(h, h.left[p])
          /\ Height(u, u.right[p]) = IF h.right[p] = a THEN u.height[a] ELSE Height(h, h.right[p])
      <4>1. Height(u, a) = u.height[a]
        BY NodeFacts DEF Height
      <4>2. h.left[p] \in Pointer /\ h.right[p] \in Pointer
        BY <1>1, <3>1, HeapFacts
      <4> QED
        BY <1>5, <3>1, <4>1, <4>2, HeapFacts
    <3>3. ~ (h.left[p] = a /\ h.right[p] = a)
      BY <1>3, <3>1, NodeFacts DEF Threaded
    <3>4. h.height[a] - u.height[a] \in -1..1
      BY <1>1, <1>2, <1>5, WasHeight
    <3> QED
      BY <1>1, <1>5, <3>1, <3>2, <3>3, <3>4, ParentWasGood
  <2> QED
    BY <2>1
<1>10. \A x \in L : x = p \/ Good(u, x)
  BY <1>1, <1>2, <1>5, <1>8
<1>11. \A m \in Node \ L : u.left[m] = Nil /\ u.right[m] = Nil /\ u.parent[m] = Nil /\ u.height[m] = 0
  BY <1>2, <1>3, <1>5
<1> HIDE DEF p
<1>12. Holds(u, p, f)
  <2>1. f[u.root] = L /\ (p # Nil => p \in L)
    BY <1>2, <1>5
  <2> QED
    BY <1>2, <1>4, <1>5, <1>9, <1>10, <1>11, <2>1, HoldsInside
<1> QED
  BY <1>5, <1>7, <1>8, <1>12 DEF u, p

\* The walk stands on a node that is two out of balance.
LEMMA TurnHolds ==
  ASSUME NEW h, NEW a \in Node, NEW f, Holds(h, a, f), ~ Good(h, a), Balance(h, a) \notin -1..1
  PROVE  LET r == RebalanceAt(h, a)
             a2 == r.parent[a]
             u == UpdateHeight(h, a)
             b == Balance(u, a)
         IN /\ b \in {-2, 2}
            /\ b = 2 /\ Balance(u, u.left[a]) < 0 => u.right[u.left[a]] # Nil
            /\ b = -2 /\ Balance(u, u.right[a]) > 0 => u.left[u.right[a]] # Nil
            /\ Good(r, a)
            /\ \E f2 : Holds(r, a2, f2) /\ f2[r.root] = f[h.root]
            /\ Climbed(h, a, f, r, a2)
<1> DEFINE L == f[h.root]
           p == h.parent[a]
           u == UpdateHeight(h, a)
           r == RebalanceAt(h, a)
           b == Balance(u, a)
<1>1. h \in Heap /\ Trees(h, f, Greater) /\ IsTree(h.left, h.right, f, Greater) /\ L \in SUBSET Node
      /\ h.root \in Pointer /\ f[Nil] = {}
  BY SoundFacts DEF Holds
<1>2. /\ p \in L \cup {Nil} /\ a \in L /\ WasGood(h, a) /\ \A x \in L : x = a \/ Good(h, x)
  BY WhereWrong
<1>3. /\ Threaded(h)
      /\ \A m \in Node \ L : h.left[m] = Nil /\ h.right[m] = Nil /\ h.parent[m] = Nil /\ h.height[m] = 0
  BY <1>2, CleanOutside
<1>4. PICK d \in 0..1 : Cardinality(L) + d <= MaxKey /\ Within(h, f, d)
  BY DEF Holds, HeightsFit, Within
<1>5. /\ u \in Heap /\ u.root = h.root /\ u.left = h.left /\ u.right = h.right
      /\ u.parent = h.parent
      /\ \A x \in Node \ {a} : u.height[x] = h.height[x]
      /\ \A c \in Pointer \ {a} : Height(u, c) = Height(h, c)
      /\ \A x \in Node : x # a /\ x # h.parent[a] /\ Good(h, x) => Good(u, x)
  BY <1>1, <1>3, <1>4, Updated
<1>6. /\ b \in {-2, 2}
      /\ b = 2 /\ Balance(u, u.left[a]) < 0 => u.right[u.left[a]] # Nil
      /\ b = -2 /\ Balance(u, u.right[a]) > 0 => u.left[u.right[a]] # Nil
      /\ r \in Heap
      /\ \E f2 : \E top \in Node :
           /\ Settled(u, r, f, f2, a, top, Greater)
           /\ h.height[a] - r.height[top] \in -1..1
           /\ Within(r, f2, d)
  BY <1>1, <1>2, <1>3, <1>4, RebalanceSettles
<1> HIDE DEF u, r
<1>7. PICK f2 : \E top \in Node : /\ Settled(u, r, f, f2, a, top, Greater)
                                 /\ h.height[a] - r.height[top] \in -1..1
                                 /\ Within(r, f2, d)
  BY <1>6
<1>8. PICK top \in Node : /\ Settled(u, r, f, f2, a, top, Greater)
                          /\ h.height[a] - r.height[top] \in -1..1
                          /\ Within(r, f2, d)
  BY <1>7
<1>9. /\ r \in Heap /\ Trees(r, f2, Greater) /\ Threaded(r) /\ f2[r.root] = L
      /\ top \in f[a] /\ r.parent[a] = top /\ r.parent[top] = p
      /\ Good(r, a) /\ Good(r, top)
      /\ \A x \in Node : x # a /\ x # p /\ Good(u, x) => Good(r, x)
      /\ \A x \in Node :
           x = p =>
             /\ r.height[x] = u.height[x]
             /\ Height(r, r.left[x]) = IF h.left[x] = a THEN r.height[top] ELSE Height(u, h.left[x])
             /\ Height(r, r.right[x]) = IF h.right[x] = a THEN r.height[top] ELSE Height(u, h.right[x])
      /\ \A x \in Node \ f[a] : /\ r.height[x] = u.height[x] /\ r.parent[x] = h.parent[x]
                                /\ h.left[x] = Nil => r.left[x] = Nil
                                /\ h.right[x] = Nil => r.right[x] = Nil
  BY <1>5, <1>8 DEF Settled
<1>10. f[a] \subseteq L /\ a \in f[a] /\ top \in L /\ top # Nil
  <2>1. h.root \in Node
    BY <1>1, <1>2 DEF Pointer
  <2>2. f[a] \subseteq L
    BY <1>1, <1>2, <2>1, Transitive, GreaterIsOrder
  <2>3. a \in f[a]
    BY <1>1, TreeFacts, GreaterIsOrder
  <2> QED
    BY <1>9, <2>2, <2>3, NodeFacts
<1>11. p # Nil => p \in L /\ WasGood(r, p)
  <2>1. CASE p # Nil
    <3>1. p \in Node /\ p # a /\ Good(h, p)
      <4>1. p \in Node
        BY <1>1, <1>2, <2>1
      <4>2. Linked(h, f[h.root])
        BY <1>1, <1>3 DEF Threaded, Linked
      <4>3. a \in {h.left[p], h.right[p]}
        BY <1>1, <1>2, <2>1, <4>2, ParentInside, GreaterIsOrder
      <4>4. h.left[p] # p /\ h.right[p] # p
        BY <1>1, <4>1, TreeFacts, GreaterIsOrder
      <4> QED
        BY <1>2, <2>1, <4>1, <4>3, <4>4
    <3>2. /\ r.height[p] = h.height[p] /\ r.height[top] \in Nat
          /\ Height(r, r.left[p]) = IF h.left[p] = a THEN r.height[top] ELSE Height(h, h.left[p])
          /\ Height(r, r.right[p]) = IF h.right[p] = a THEN r.height[top] ELSE Height(h, h.right[p])
      <4>1. h.left[p] \in Pointer /\ h.right[p] \in Pointer
        BY <1>1, <3>1, HeapFacts
      <4> QED
        BY <1>5, <1>9, <3>1, <4>1, HeapFacts
    <3>3. ~ (h.left[p] = a /\ h.right[p] = a)
      BY <1>3, <3>1, NodeFacts DEF Threaded
    <3> QED
      BY <1>1, <1>2, <1>8, <1>9, <2>1, <3>1, <3>2, <3>3, ParentWasGood
  <2> QED
    BY <2>1
<1>12. \A x \in L : x = p \/ Good(r, x)
  BY <1>1, <1>2, <1>5, <1>9
<1>13. \A m \in Node \ L : r.left[m] = Nil /\ r.right[m] = Nil /\ r.parent[m] = Nil /\ r.height[m] = 0
  BY <1>2, <1>3, <1>5, <1>9, <1>10
<1> HIDE DEF p
<1>14. Holds(r, top, f2)
  <2>1. /\ top \in f2[r.root] \cup {Nil} /\ p \in {top} \cup (IF top = Nil THEN {} ELSE {r.parent[top]})
        /\ \A x \in f2[r.root] : x = p \/ Good(r, x)
        /\ p # Nil => p \in f2[r.root] /\ WasGood(r, p)
        /\ \A m \in Node \ f2[r.root] :
             r.left[m] = Nil /\ r.right[m] = Nil /\ r.parent[m] = Nil /\ r.height[m] = 0
    BY <1>9, <1>10, <1>11, <1>12, <1>13
  <2>2. Cardinality(f2[r.root]) + d <= MaxKey /\ Within(r, f2, d)
    BY <1>4, <1>8, <1>9
  <2> QED
    BY <1>9, <2>1, <2>2, HoldsInside
<1>15. Climbed(h, a, f, r, top)
  <2>1. Balance(u, a) \notin -1..1
    BY <1>6
  <2> QED
    BY <1>1, <1>2, <1>9, <1>10, <2>1 DEF Climbed, u, p
<1> QED
  BY <1>6, <1>9, <1>14, <1>15 DEF u, r

\* One iteration of rebalance keeps the invariant and the nodes of the tree.
LEMMA RebalanceHolds ==
  ASSUME NEW h, NEW a \in Node, NEW f, Holds(h, a, f)
  PROVE  LET r == RebalanceAt(h, a)
             h2 == IF Get(h, NodeP(h, a)) # a THEN Clear(r, a) ELSE r
             a2 == r.parent[a]
         IN /\ \E f2 : Holds(h2, a2, f2) /\ f2[h2.root] = f[h.root]
            /\ Climbed(h, a, f, h2, a2)
<1>1. /\ h \in Heap /\ f[h.root] \in SUBSET Node
      /\ h.parent[a] \in f[h.root] \cup {Nil}
      /\ Get(h, NodeP(h, a)) = a <=> a \in f[h.root]
      /\ ~ Good(h, a) => a \in f[h.root]
  <2>1. h \in Heap /\ f[h.root] \in SUBSET Node
    BY SoundFacts DEF Holds
  <2>2. /\ h.parent[a] \in f[h.root] \cup {Nil}
        /\ Get(h, NodeP(h, a)) = a <=> a \in f[h.root]
        /\ ~ Good(h, a) => a \in f[h.root]
    BY WhereWrong
  <2> QED
    BY <2>1, <2>2
<1>2. CASE Good(h, a)
  <2>1. RebalanceAt(h, a) = h
    BY <1>1, <1>2, GoodRests
  <2>2. CASE a \in f[h.root]
    <3>1. Holds(h, h.parent[a], f)
      BY <1>2, <2>2, RestHolds
    <3>2. Climbed(h, a, f, h, h.parent[a])
      BY DEF Climbed
    <3> QED
      BY <1>1, <2>1, <2>2, <3>1, <3>2
  <2>3. CASE a \notin f[h.root]
    <3>1. ClearIs(h, a, Clear(h, a))
      BY <1>1, ClearFacts
    <3>2. \E f2 : Holds(Clear(h, a), h.parent[a], f2) /\ f2[Clear(h, a).root] = f[h.root]
      BY <1>2, <2>3, <3>1, ClearHolds
    <3>3. Climbed(h, a, f, Clear(h, a), h.parent[a])
      <4>1. \A x \in f[h.root] : Clear(h, a).parent[x] = h.parent[x]
        BY <1>1, <2>3, <3>1 DEF ClearIs
      <4> QED
        BY <4>1 DEF Climbed
    <3> QED
      BY <1>1, <2>1, <2>3, <3>2, <3>3
  <2> QED
    BY <2>2, <2>3
<1>3. CASE ~ Good(h, a) /\ Balance(h, a) \in -1..1
  <2> DEFINE u == UpdateHeight(h, a)
  <2>1. RebalanceAt(h, a) = u /\ u.parent = h.parent /\ u.root = h.root /\ Holds(u, h.parent[a], f)
    BY <1>3, UpdateHolds
  <2> HIDE DEF u
  <2>2. Climbed(h, a, f, u, h.parent[a])
    BY <2>1 DEF Climbed
  <2> QED
    BY <1>1, <1>3, <2>1, <2>2
<1>4. CASE ~ Good(h, a) /\ Balance(h, a) \notin -1..1
  <2> DEFINE r == RebalanceAt(h, a)
  <2>1. /\ \E f2 : Holds(r, r.parent[a], f2) /\ f2[r.root] = f[h.root]
        /\ Climbed(h, a, f, r, r.parent[a])
    BY <1>4, TurnHolds
  <2> HIDE DEF r
  <2> QED
    BY <1>1, <1>4, <2>1 DEF r
<1> QED
  BY <1>2, <1>3, <1>4

-----------------------------------------------------------------------------
(* Insert *)

\* Between calls all nodes of the tree are good.
LEMMA RestingFacts ==
  ASSUME NEW h, NEW f, Holds(h, Nil, f)
  PROVE  /\ h \in Heap /\ Trees(h, f, Greater) /\ IsTree(h.left, h.right, f, Greater)
         /\ Linked(h, f[h.root]) /\ f[h.root] \in SUBSET Node /\ f[Nil] = {} /\ h.root \in Pointer
         /\ Threaded(h)
         /\ \A m \in Node \ f[h.root] :
              h.left[m] = Nil /\ h.right[m] = Nil /\ h.parent[m] = Nil /\ h.height[m] = 0
         /\ \A x \in f[h.root] : Good(h, x)
         /\ \A x \in Node : h.height[x] <= MaxKey /\ h.height[x] <= Cardinality(f[x])
<1>1. /\ h \in Heap /\ Trees(h, f, Greater) /\ IsTree(h.left, h.right, f, Greater)
      /\ Linked(h, f[h.root]) /\ f[h.root] \in SUBSET Node /\ f[Nil] = {} /\ h.root \in Pointer
  BY SoundFacts DEF Holds
<1>2. /\ Threaded(h)
      /\ \A m \in Node \ f[h.root] :
           h.left[m] = Nil /\ h.right[m] = Nil /\ h.parent[m] = Nil /\ h.height[m] = 0
  BY CleanOutside
<1>3. \A x \in f[h.root] : Good(h, x)
  BY <1>1, NodeFacts DEF Holds, HeightsOK
<1>4. ASSUME NEW x \in Node PROVE h.height[x] <= MaxKey /\ h.height[x] <= Cardinality(f[x])
  <2>1. h.height[x] <= Cardinality(f[x]) + 0 /\ Cardinality(f[x]) \in Nat
    BY <1>1, TreeSizes, GreaterIsOrder DEF Holds, HeightsFit
  <2>2. h.height[x] <= Cardinality(f[x])
    BY <2>1
  <2> QED
    BY <2>2 DEF Holds
<1> QED
  BY <1>1, <1>2, <1>3, <1>4

\* What a node of the tree leads to is in the tree.
LEMMA InsideTree ==
  ASSUME NEW h \in Heap, NEW f, Trees(h, f, Greater), NEW x \in f[h.root]
  PROVE  /\ x \in Node /\ f[x] \subseteq f[h.root] /\ x \in f[x]
         /\ h.left[x] \in f[h.root] \cup {Nil} /\ h.right[x] \in f[h.root] \cup {Nil}
         /\ h.root \in f[h.root]
<1>1. /\ IsTree(h.left, h.right, f, Greater) /\ h.root \in Pointer /\ f[Nil] = {}
      /\ f[h.root] \in SUBSET Node
  BY HeapFacts DEF Trees, IsTree
<1>2. h.root \in Node /\ x \in Node
  BY <1>1 DEF Pointer
<1>3. f[x] \subseteq f[h.root]
  BY <1>1, <1>2, Transitive, GreaterIsOrder
<1>4. /\ x \in f[x] /\ f[x] = {x} \cup f[h.left[x]] \cup f[h.right[x]]
      /\ h.left[x] # Nil => h.left[x] \in f[h.left[x]]
      /\ h.right[x] # Nil => h.right[x] \in f[h.right[x]]
  BY <1>1, <1>2, TreeFacts, GreaterIsOrder
<1>5. h.root \in f[h.root]
  BY <1>1, <1>2, TreeFacts, GreaterIsOrder
<1> QED
  BY <1>2, <1>3, <1>4, <1>5

\* The heap r that Insert makes of h, when the empty slot s is where k belongs.
InsertIs(h, s, k, r) ==
  /\ r \in Heap /\ r.root = IF s = Root THEN k ELSE h.root
  /\ \A x \in Node : /\ r.left[x] = IF s = Left(x) THEN k ELSE h.left[x]
                     /\ r.right[x] = IF s = Right(x) THEN k ELSE h.right[x]
                     /\ r.parent[x] = IF x = k THEN s.of ELSE h.parent[x]
                     /\ r.height[x] = IF x = k THEN 1 ELSE h.height[x]

LEMMA InsertFacts ==
  ASSUME NEW h \in Heap, NEW k \in Node, NEW s \in Slots
  PROVE  InsertIs(h, s, k, [Put(h, s, k) EXCEPT !.parent[k] = s.of, !.height[k] = 1])
<1> DEFINE q == Put(h, s, k)
           r == [q EXCEPT !.parent[k] = s.of, !.height[k] = 1]
<1>1. k \in Pointer /\ s.of \in Pointer
  BY SlotFacts, NodeFacts
<1>2. /\ q \in Heap /\ q.parent = h.parent /\ q.height = h.height
      /\ q.root = IF s = Root THEN k ELSE h.root
      /\ q.left = [x \in Node |-> IF s = Left(x) THEN k ELSE h.left[x]]
      /\ q.right = [x \in Node |-> IF s = Right(x) THEN k ELSE h.right[x]]
  BY <1>1, PutIs
<1> HIDE DEF q
<1>3. /\ r.root = q.root /\ r.left = q.left /\ r.right = q.right
      /\ r.parent = [q.parent EXCEPT ![k] = s.of] /\ r.height = [q.height EXCEPT ![k] = 1]
  BY <1>2 DEF Heap
<1>4. r \in Heap
  BY <1>1, <1>2 DEF Heap
<1> HIDE DEF r
<1> QED
  BY <1>2, <1>3, <1>4, HeapFacts DEF InsertIs, r, q

LEMMA InsertHolds ==
  ASSUME NEW h, NEW f, Holds(h, Nil, f), NEW k \in Node, k \notin f[h.root],
         NEW s \in Slots, Get(h, s) = Nil, s = Root \/ s.of \in f[h.root],
         Fits(h, f, s, k, f[h.root]), NEW r, InsertIs(h, s, k, r)
  PROVE  \E f2 : Holds(r, s.of, f2) /\ f2[r.root] = f[h.root] \cup {k}
<1> DEFINE L == f[h.root]
           q == s.of
           f2 == [x \in Pointer |-> IF x = k THEN {k} ELSE IF q \in f[x] THEN f[x] \cup {k} ELSE f[x]]
<1>1. /\ h \in Heap /\ Trees(h, f, Greater) /\ IsTree(h.left, h.right, f, Greater)
      /\ L \in SUBSET Node /\ f[Nil] = {} /\ h.root \in Pointer
      /\ Threaded(h)
      /\ \A m \in Node \ L : h.left[m] = Nil /\ h.right[m] = Nil /\ h.parent[m] = Nil /\ h.height[m] = 0
      /\ \A x \in L : Good(h, x)
      /\ \A x \in Node : h.height[x] <= Cardinality(f[x])
  BY RestingFacts
<1>2. /\ r \in Heap /\ r.root = IF s = Root THEN k ELSE h.root
      /\ \A x \in Node : /\ r.left[x] = IF s = Left(x) THEN k ELSE h.left[x]
                         /\ r.right[x] = IF s = Right(x) THEN k ELSE h.right[x]
                         /\ r.parent[x] = IF x = k THEN q ELSE h.parent[x]
                         /\ r.height[x] = IF x = k THEN 1 ELSE h.height[x]
  BY DEF InsertIs
<1>3. \/ s = Root /\ q = Nil /\ h.root = Nil /\ L = {}
         /\ \A x \in Node : s # Left(x) /\ s # Right(x)
      \/ s # Root /\ q \in L /\ s = Left(q) /\ h.left[q] = Nil
         /\ \A x \in Node : (s = Left(x) <=> x = q) /\ s # Right(x)
      \/ s # Root /\ q \in L /\ s = Right(q) /\ h.right[q] = Nil
         /\ \A x \in Node : (s = Right(x) <=> x = q) /\ s # Left(x)
  <2>1. \A m, n \in Node : /\ Left(m) = Left(n) <=> m = n
                           /\ Right(m) = Right(n) <=> m = n
                           /\ Left(m) # Right(n) /\ Left(m) # Root /\ Right(m) # Root
    BY DEF Root, Left, Right
  <2>2. CASE s = Root
    BY <1>1, <2>1, <2>2, SlotFacts
  <2>3. CASE s # Root
    BY <1>1, <2>1, <2>3, SlotFacts
  <2> QED
    BY <2>2, <2>3
<1>5. \A x \in L : /\ s = Left(x) \/ q \in f[h.left[x]] => k < x
                   /\ s = Right(x) \/ q \in f[h.right[x]] => x < k
  BY <1>1, SlotFacts DEF Fits
<1>6. /\ \A x \in Node : /\ h.left[x] \in L \cup {Nil} /\ h.left[x] # k
                         /\ h.right[x] \in L \cup {Nil} /\ h.right[x] # k
      /\ h.root # k /\ k # Nil /\ h.left[k] = Nil /\ h.right[k] = Nil /\ q # k
  <2>1. ASSUME NEW x \in Node PROVE h.left[x] \in L \cup {Nil} /\ h.right[x] \in L \cup {Nil}
    BY <1>1, InsideTree
  <2>2. k # Nil
    BY NodeFacts
  <2>3. h.root # k
    BY <1>1, TreeFacts, GreaterIsOrder
  <2> QED
    BY <1>1, <1>3, <2>1, <2>2, <2>3
<1>7. /\ f2 \in [Pointer -> SUBSET Node] /\ f2[Nil] = {} /\ f2[k] = {k}
      /\ \A x \in Pointer \ {k} : f2[x] = IF q \in f[x] THEN f[x] \cup {k} ELSE f[x]
  BY <1>1, <1>6, NodeFacts DEF IsTree
<1> HIDE DEF f2
<1>8. f2[r.root] = L \cup {k}
  <2>1. h.root \in Pointer \ {k}
    BY <1>1, <1>6
  <2> QED
    BY <1>2, <1>3, <1>7, <2>1
<1>9. ASSUME NEW x \in Node
      PROVE  /\ f2[x] = {x} \cup f2[r.left[x]] \cup f2[r.right[x]]
             /\ \A j \in f2[r.left[x]] : x \in Greater[j]
             /\ f2[r.right[x]] \subseteq Greater[x]
  <2>1. /\ f[x] = {x} \cup f[h.left[x]] \cup f[h.right[x]] /\ x \in f[x]
        /\ x \notin f[h.left[x]] /\ x \notin f[h.right[x]]
        /\ \A j \in f[h.left[x]] : j \in Node /\ x \in Greater[j]
        /\ f[h.right[x]] \subseteq Greater[x]
        /\ h.left[x] \in Pointer \ {k} /\ h.right[x] \in Pointer \ {k}
    <3>1. /\ f[x] = {x} \cup f[h.left[x]] \cup f[h.right[x]] /\ x \in f[x]
          /\ x \notin f[h.left[x]] /\ x \notin f[h.right[x]] /\ f[h.left[x]] \in SUBSET Node
      BY <1>1, TreeFacts, GreaterIsOrder
    <3>2. /\ \A j \in f[h.left[x]] : x \in Greater[j]
          /\ f[h.right[x]] \subseteq Greater[x]
      BY <1>1 DEF IsTree
    <3> QED
      BY <1>1, <1>6, <3>1, <3>2, HeapFacts
  <2>2. CASE x = k
    <3>1. r.left[x] = Nil /\ r.right[x] = Nil
      BY <1>2, <1>3, <1>6, <2>2
    <3> QED
      BY <1>7, <2>2, <3>1
  <2>3. CASE x # k /\ x = q /\ s = Left(x)
    <3>1. r.left[x] = k /\ r.right[x] = h.right[x] /\ h.left[x] = Nil /\ x \in L
      BY <1>2, <1>3, <2>3
    <3>2. f2[h.right[x]] = f[h.right[x]] /\ f2[x] = f[x] \cup {k}
      BY <1>7, <2>1, <2>3, NodeFacts
    <3>3. x \in Greater[k]
      BY <1>5, <2>3, <3>1, OrderMeans
    <3> QED
      BY <1>1, <1>7, <2>1, <3>1, <3>2, <3>3
  <2>4. CASE x # k /\ x = q /\ s = Right(x)
    <3>1. r.right[x] = k /\ r.left[x] = h.left[x] /\ h.right[x] = Nil /\ x \in L
      BY <1>2, <1>3, <2>4
    <3>2. f2[h.left[x]] = f[h.left[x]] /\ f2[x] = f[x] \cup {k}
      BY <1>7, <2>1, <2>4, NodeFacts
    <3>3. k \in Greater[x]
      BY <1>5, <2>4, <3>1, OrderMeans
    <3> QED
      BY <1>1, <1>7, <2>1, <3>1, <3>2, <3>3
  <2>5. CASE x # k /\ x # q
    <3>1. r.left[x] = h.left[x] /\ r.right[x] = h.right[x]
      BY <1>2, <1>3, <2>5
    <3>2. /\ f2[x] = IF q \in f[x] THEN f[x] \cup {k} ELSE f[x]
          /\ f2[h.left[x]] = IF q \in f[h.left[x]] THEN f[h.left[x]] \cup {k} ELSE f[h.left[x]]
          /\ f2[h.right[x]] = IF q \in f[h.right[x]] THEN f[h.right[x]] \cup {k} ELSE f[h.right[x]]
      BY <1>7, <2>1, <2>5, NodeFacts
    <3>3. (q \in f[h.left[x]] => x \in Greater[k]) /\ (q \in f[h.right[x]] => k \in Greater[x])
      <4>1. x \notin L => h.left[x] = Nil /\ h.right[x] = Nil
        BY <1>1
      <4> QED
        BY <1>1, <1>5, <4>1, OrderMeans
    <3> QED
      BY <2>1, <2>5, <3>1, <3>2, <3>3
  <2> QED
    BY <1>3, <2>2, <2>3, <2>4, <2>5, NodeFacts
<1>10. Trees(r, f2, Greater)
  <2>1. r.left \in [Node -> Pointer] /\ r.right \in [Node -> Pointer]
    BY <1>2, HeapFacts
  <2> QED
    BY <1>7, <1>9, <2>1 DEF Trees, IsTree
<1>11. Threaded(r)
  <2>1. Linked(r, Node)
    <3>1. r.root # Nil => r.parent[r.root] = Nil
      BY <1>1, <1>2, <1>3, <1>6 DEF Threaded, Linked, Pointer
    <3>2. ASSUME NEW x \in Node
          PROVE  /\ r.left[x] # Nil => r.parent[r.left[x]] = x
                 /\ r.right[x] # Nil => r.parent[r.right[x]] = x
      <4>1. /\ h.left[x] # Nil => h.left[x] \in Node /\ h.parent[h.left[x]] = x
            /\ h.right[x] # Nil => h.right[x] \in Node /\ h.parent[h.right[x]] = x
        BY <1>1, <1>6 DEF Threaded, Linked
      <4> QED
        BY <1>2, <1>3, <1>6, <4>1
    <3> QED
      BY <3>1, <3>2 DEF Linked
  <2> QED
    BY <1>2, <1>10, <2>1, ThreadedTrees, GreaterIsOrder
<1>12. \A x \in Node \ f2[r.root] :
         r.left[x] = Nil /\ r.right[x] = Nil /\ r.parent[x] = Nil /\ r.height[x] = 0
  BY <1>1, <1>2, <1>3, <1>8
<1>13. \A c \in Pointer \ {k} : Height(r, c) = Height(h, c)
  BY <1>2 DEF Height, Pointer
<1>14. Height(r, k) = 1 /\ Height(h, Nil) = 0 /\ Height(r, Nil) = 0
  BY <1>2, <1>6 DEF Height
<1>15. ASSUME NEW x \in L, x # q PROVE Good(r, x)
  <2>1. /\ x \in Node /\ x # k /\ r.left[x] = h.left[x] /\ r.right[x] = h.right[x]
        /\ h.left[x] \in Pointer \ {k} /\ h.right[x] \in Pointer \ {k}
    BY <1>1, <1>2, <1>3, <1>6, <1>15, HeapFacts
  <2> QED
    BY <1>1, <1>2, <1>13, <2>1, GoodSame
<1>16. Good(r, k)
  <2>1. r.left[k] = Nil /\ r.right[k] = Nil /\ r.height[k] = 1
    BY <1>2, <1>3, <1>6
  <2>2. LET a == Height(r, r.left[k])
            b == Height(r, r.right[k])
        IN Good(r, k) <=> /\ r.height[k] = 1 + IF a > b THEN a ELSE b
                          /\ -1 <= a - b /\ a - b <= 1
    BY <1>2, GoodIs
  <2>3. Height(r, r.left[k]) = 0 /\ Height(r, r.right[k]) = 0
    BY <1>14, <2>1
  <2>4. Good(r, k) <=> /\ r.height[k] = 1 + IF 0 > 0 THEN 0 ELSE 0
                       /\ -1 <= 0 - 0 /\ 0 - 0 <= 1
    BY <2>2, <2>3
  <2> QED
    BY <2>1, <2>4
<1>17. ASSUME q # Nil PROVE q \in L /\ WasGood(r, q)
  <2>1. q \in L /\ q \in Node /\ q # k
    BY <1>1, <1>3, <1>6, <1>17
  <2>2. /\ r.height[q] = h.height[q] /\ Good(h, q)
        /\ h.left[q] \in Pointer \ {k} /\ h.right[q] \in Pointer \ {k}
    BY <1>1, <1>2, <1>6, <2>1, HeapFacts
  <2>3. Height(h, h.left[q]) \in Nat /\ Height(h, h.right[q]) \in Nat
    BY <1>1, <2>2, HeightIs
  <2>4. CASE s = Left(q)
    <3>1. Height(h, h.left[q]) = 0 /\ Height(r, r.left[q]) = 1 /\ Height(r, r.right[q]) = Height(h, h.right[q])
      BY <1>2, <1>3, <1>13, <1>14, <1>17, <2>1, <2>2, <2>4
    <3>2. /\ Height(h, h.left[q]) = Height(r, r.left[q]) + (-1)
          /\ Height(h, h.right[q]) = Height(r, r.right[q]) + 0
          /\ -1 \in -1..1 /\ 0 \in -1..1
      BY <2>3, <3>1
    <3> QED
      BY <1>1, <1>2, <2>1, <2>2, <3>2, GoodBefore
  <2>5. CASE s = Right(q)
    <3>1. Height(h, h.right[q]) = 0 /\ Height(r, r.right[q]) = 1 /\ Height(r, r.left[q]) = Height(h, h.left[q])
      BY <1>2, <1>3, <1>13, <1>14, <1>17, <2>1, <2>2, <2>5
    <3>2. /\ Height(h, h.right[q]) = Height(r, r.right[q]) + (-1)
          /\ Height(h, h.left[q]) = Height(r, r.left[q]) + 0
          /\ -1 \in -1..1 /\ 0 \in -1..1
      BY <2>3, <3>1
    <3> QED
      BY <1>1, <1>2, <2>1, <2>2, <3>2, GoodBefore
  <2> QED
    BY <1>3, <1>17, <2>1, <2>4, <2>5
<1>18. Within(r, f2, 0) /\ Cardinality(f2[r.root]) + 0 <= MaxKey
  <2>1. IsFiniteSet(Node) /\ Cardinality(Node) = MaxKey
    <3>1. 1 \in Int /\ MaxKey \in Int
      BY MaxKeyAssumption
    <3>2. Cardinality(1..MaxKey) = IF 1 > MaxKey THEN 0 ELSE MaxKey - 1 + 1
      BY <3>1, FS_Interval
    <3> QED
      BY <3>1, <3>2, FS_Interval, MaxKeyAssumption DEF Node
  <2>2. \A S \in SUBSET Node : IsFiniteSet(S) /\ Cardinality(S) \in Nat /\ Cardinality(S) <= MaxKey
    BY <2>1, FS_Subset, FS_CardinalityType
  <2>3. ASSUME NEW x \in Node PROVE r.height[x] <= Cardinality(f2[x]) + 0
    <3>1. f[x] \in SUBSET Node /\ f2[x] \in SUBSET Node
      BY <1>1, <1>7, NodeFacts DEF IsTree
    <3>2. CASE x = k
      <4>1. Cardinality(f2[x]) = 1
        BY <1>7, <3>2, FS_Singleton
      <4> QED
        BY <1>2, <3>2, <4>1
    <3>3. CASE x # k
      <4>1. f[x] \subseteq f2[x]
        BY <1>7, <3>3, NodeFacts
      <4>2. Cardinality(f[x]) <= Cardinality(f2[x])
        BY <2>2, <3>1, <4>1, FS_Subset
      <4>3. r.height[x] <= Cardinality(f[x]) /\ r.height[x] \in Nat
        BY <1>1, <1>2, <3>3, HeapFacts
      <4> QED
        BY <2>2, <3>1, <4>2, <4>3
    <3> QED
      BY <3>2, <3>3
  <2>4. Cardinality(f2[r.root]) + 0 <= MaxKey
    <3>1. f2[r.root] \in SUBSET Node
      BY <1>1, <1>8
    <3> QED
      BY <2>2, <3>1
  <2> QED
    BY <2>3, <2>4 DEF Within
<1> HIDE DEF q
<1>19. Holds(r, q, f2)
  <2>1. /\ q \in f2[r.root] \cup {Nil} /\ \A x \in f2[r.root] : x = q \/ Good(r, x)
        /\ q # Nil => q \in f2[r.root] /\ WasGood(r, q)
    BY <1>3, <1>8, <1>15, <1>16, <1>17
  <2> QED
    BY <1>2, <1>10, <1>11, <1>12, <1>18, <2>1, HoldsInside
<1> QED
  BY <1>8, <1>19 DEF q

-----------------------------------------------------------------------------
(* Delete *)

\* r is h after the only child of m, if it has one, has taken m's place.
Unlinked(h, m, r) ==
  LET child == IF h.left[m] = Nil THEN h.right[m] ELSE h.left[m]
      hold(c) == IF c = m THEN child ELSE c
  IN /\ r \in Heap /\ r.root = hold(h.root) /\ r.height = h.height
     /\ \A x \in Node : /\ r.left[x] = hold(h.left[x])
                        /\ r.right[x] = hold(h.right[x])
                        /\ r.parent[x] = IF x = child THEN h.parent[m] ELSE h.parent[x]

LEMMA UnlinkFacts ==
  ASSUME NEW h \in Heap, Threaded(h), NEW m \in Node, NEW s \in Slots, Get(h, s) = m
  PROVE  Unlinked(h, m, Unlink(h, m, s))
<1> DEFINE child == IF h.left[m] = Nil THEN h.right[m] ELSE h.left[m]
           q == Put(h, s, child)
           r == SetParent(q, child, h.parent[m])
<1>1. child \in Pointer /\ h.parent[m] \in Pointer
  BY HeapFacts
<1>2. /\ s = Root <=> h.root = m
      /\ \A x \in Node : /\ s = Left(x) <=> h.left[x] = m
                         /\ s = Right(x) <=> h.right[x] = m
  BY OneSlot
<1>3. Unlink(h, m, s) = r
  BY DEF Unlink
<1> HIDE DEF child
<1>4. /\ q \in Heap /\ q.parent = h.parent /\ q.height = h.height
      /\ q.root = IF s = Root THEN child ELSE h.root
      /\ q.left = [x \in Node |-> IF s = Left(x) THEN child ELSE h.left[x]]
      /\ q.right = [x \in Node |-> IF s = Right(x) THEN child ELSE h.right[x]]
  BY <1>1, PutIs
<1> HIDE DEF q
<1>5. /\ r \in Heap /\ r.root = q.root /\ r.left = q.left /\ r.right = q.right
      /\ r.height = q.height
      /\ r.parent = [x \in Node |-> IF x = child THEN h.parent[m] ELSE q.parent[x]]
  BY <1>1, <1>4, SetParentIs
<1> HIDE DEF r
<1>6. /\ r \in Heap /\ r.height = h.height
      /\ r.root = IF h.root = m THEN child ELSE h.root
      /\ \A x \in Node : /\ r.left[x] = IF h.left[x] = m THEN child ELSE h.left[x]
                         /\ r.right[x] = IF h.right[x] = m THEN child ELSE h.right[x]
                         /\ r.parent[x] = IF x = child THEN h.parent[m] ELSE h.parent[x]
  BY <1>2, <1>4, <1>5
<1> QED
  BY <1>3, <1>6 DEF Unlinked, child

\* Taking one node away.
LEMMA RemoveOne ==
  ASSUME NEW S \in SUBSET Node, NEW m
  PROVE  /\ IsFiniteSet(S) /\ Cardinality(S) \in Nat /\ Cardinality(S) <= MaxKey
         /\ Cardinality(S \ {m}) \in Nat /\ Cardinality(S) <= Cardinality(S \ {m}) + 1
         /\ m \in S => Cardinality(S \ {m}) = Cardinality(S) - 1
<1>1. IsFiniteSet(Node) /\ Cardinality(Node) = MaxKey
  <2>1. 1 \in Int /\ MaxKey \in Int
    BY MaxKeyAssumption
  <2>2. Cardinality(1..MaxKey) = IF 1 > MaxKey THEN 0 ELSE MaxKey - 1 + 1
    BY <2>1, FS_Interval
  <2> QED
    BY <2>1, <2>2, FS_Interval, MaxKeyAssumption DEF Node
<1>2. \A T \in SUBSET Node : IsFiniteSet(T) /\ Cardinality(T) \in Nat /\ Cardinality(T) <= MaxKey
  BY <1>1, FS_Subset, FS_CardinalityType
<1>3. m \in S => Cardinality(S \ {m}) = Cardinality(S) - 1
  BY <1>2, FS_RemoveElement
<1>4. m \notin S => S \ {m} = S
  OBVIOUS
<1> QED
  BY <1>2, <1>3, <1>4

LEMMA UnlinkHolds ==
  ASSUME NEW h, NEW f, Holds(h, Nil, f), NEW m \in f[h.root],
         h.left[m] = Nil \/ h.right[m] = Nil, NEW r, Unlinked(h, m, r)
  PROVE  LET f2 == [x \in Pointer |-> IF x = m THEN f[m] ELSE f[x] \ {m}]
         IN Holds(r, m, f2) /\ f2[r.root] = f[h.root] \ {m}
<1> DEFINE L == f[h.root]
           p == h.parent[m]
           child == IF h.left[m] = Nil THEN h.right[m] ELSE h.left[m]
           other == IF h.left[m] = Nil THEN h.left[m] ELSE h.right[m]
           f2 == [x \in Pointer |-> IF x = m THEN f[m] ELSE f[x] \ {m}]
           L2 == L \ {m}
<1>1. /\ h \in Heap /\ Trees(h, f, Greater) /\ IsTree(h.left, h.right, f, Greater)
      /\ Linked(h, L) /\ L \in SUBSET Node /\ f[Nil] = {} /\ h.root \in Pointer
      /\ Threaded(h)
      /\ \A x \in Node \ L : h.left[x] = Nil /\ h.right[x] = Nil /\ h.parent[x] = Nil /\ h.height[x] = 0
      /\ \A x \in L : Good(h, x)
      /\ \A x \in Node : h.height[x] <= MaxKey /\ h.height[x] <= Cardinality(f[x])
  BY RestingFacts
<1>2. /\ m \in Node /\ m # Nil /\ child \in L \cup {Nil} /\ other = Nil /\ child # m /\ child \in Pointer
      /\ h.left[m] # m /\ h.right[m] # m
      /\ f[m] = {m} \cup f[child] /\ m \notin f[child] /\ m \in f[m] /\ f[child] \in SUBSET Node
  <2>1. /\ m \in Node /\ m # Nil /\ child \in L \cup {Nil}
    BY <1>1, InsideTree, NodeFacts
  <2>2. /\ h.left[m] # m /\ h.right[m] # m
        /\ f[m] = {m} \cup f[h.left[m]] \cup f[h.right[m]]
        /\ m \notin f[h.left[m]] /\ m \notin f[h.right[m]] /\ m \in f[m]
        /\ f[h.left[m]] \in SUBSET Node /\ f[h.right[m]] \in SUBSET Node
    BY <1>1, <2>1, TreeFacts, GreaterIsOrder
  <2> QED
    BY <1>1, <2>1, <2>2, NodeFacts
<1>3. /\ r \in Heap /\ r.root = (IF h.root = m THEN child ELSE h.root) /\ r.height = h.height
      /\ \A x \in Node : /\ r.left[x] = IF h.left[x] = m THEN child ELSE h.left[x]
                         /\ r.right[x] = IF h.right[x] = m THEN child ELSE h.right[x]
                         /\ r.parent[x] = IF x = child THEN p ELSE h.parent[x]
  BY DEF Unlinked
<1>4. /\ p \in L2 \cup {Nil}
      /\ \A x \in Node : h.left[x] = m \/ h.right[x] = m => x = p
      /\ child # Nil => \A x \in Node \ {m} : h.left[x] # child /\ h.right[x] # child
      /\ child # Nil => h.root # child
  <2>1. p \in L \cup {Nil}
    BY <1>1, ParentInside, GreaterIsOrder
  <2>2. p # m
    <3>1. m # h.root => m \in {h.left[p], h.right[p]}
      BY <1>1, ParentInside, GreaterIsOrder
    <3>2. m = h.root => p = Nil
      BY <1>1, ParentInside, GreaterIsOrder
    <3> QED
      BY <1>2, <3>1, <3>2
  <2>3. \A x \in Node : h.left[x] = m \/ h.right[x] = m => x = p
    BY <1>1, <1>2 DEF Threaded, Linked
  <2>4. child # Nil => h.parent[child] = m
    BY <1>1, <1>2 DEF Threaded, Linked
  <2>5. child # Nil => \A x \in Node \ {m} : h.left[x] # child /\ h.right[x] # child
    BY <1>1, <2>4 DEF Threaded, Linked
  <2>6. child # Nil => h.root # child
    BY <1>1, <1>2, <2>4 DEF Threaded, Linked
  <2> QED
    BY <2>1, <2>2, <2>3, <2>5, <2>6
<1>5. /\ f2 \in [Pointer -> SUBSET Node] /\ f2[m] = f[m] /\ f2[Nil] = {}
      /\ \A x \in Pointer \ {m} : f2[x] = f[x] \ {m}
      /\ f2[child] = f[m] \ {m}
  <2>1. f2 \in [Pointer -> SUBSET Node] /\ f2[m] = f[m] /\ f2[Nil] = {}
        /\ \A x \in Pointer \ {m} : f2[x] = f[x] \ {m}
    BY <1>1, <1>2, NodeFacts DEF IsTree
  <2> HIDE DEF f2, child
  <2> QED
    BY <1>2, <2>1
<1> HIDE DEF f2, child, other
<1>6. f2[r.root] = L2
  BY <1>1, <1>2, <1>3, <1>5
<1>7. ASSUME NEW x \in Node
      PROVE  /\ f2[x] = {x} \cup f2[r.left[x]] \cup f2[r.right[x]]
             /\ \A k \in f2[r.left[x]] : x \in Greater[k]
             /\ f2[r.right[x]] \subseteq Greater[x]
  <2>1. /\ f[x] = {x} \cup f[h.left[x]] \cup f[h.right[x]]
        /\ \A k \in f[h.left[x]] : x \in Greater[k]
        /\ f[h.right[x]] \subseteq Greater[x]
        /\ h.left[x] \in Pointer /\ h.right[x] \in Pointer
    BY <1>1, HeapFacts DEF IsTree
  <2>2. CASE x = m
    <3>1. r.left[m] = h.left[m] /\ r.right[m] = h.right[m]
      BY <1>2, <1>3
    <3>2. m \notin f[h.left[m]] /\ m \notin f[h.right[m]]
      <4>1. m \in Node /\ IsTree(h.left, h.right, f, Greater)
        BY <1>1, <1>2
      <4> QED
        BY <4>1, TreeFacts, GreaterIsOrder
    <3>3. f2[h.left[m]] = f[h.left[m]] /\ f2[h.right[m]] = f[h.right[m]]
      <4>1. /\ h.left[m] \in Pointer \ {m} /\ h.right[m] \in Pointer \ {m}
            /\ f[h.left[m]] \ {m} = f[h.left[m]] /\ f[h.right[m]] \ {m} = f[h.right[m]]
        BY <1>2, <2>1, <2>2, <3>2
      <4> QED
        BY <1>5, <4>1
    <3> QED
      BY <1>5, <2>1, <2>2, <3>1, <3>3
  <2>3. CASE x # m
    <3>1. f2[r.left[x]] = f[h.left[x]] \ {m} /\ f2[r.right[x]] = f[h.right[x]] \ {m}
      BY <1>2, <1>3, <1>5, <2>1
    <3>2. f2[x] = f[x] \ {m}
      BY <1>5, <2>3, NodeFacts
    <3> QED
      BY <2>1, <2>3, <3>1, <3>2
  <2> QED
    BY <2>2, <2>3
<1>8. Trees(r, f2, Greater)
  <2>1. r.left \in [Node -> Pointer] /\ r.right \in [Node -> Pointer]
    BY <1>3, HeapFacts
  <2> QED
    BY <1>5, <1>7, <2>1 DEF Trees, IsTree
<1>9. Linked(r, L2)
  <2>1. r.root # Nil => r.parent[r.root] = Nil
    BY <1>1, <1>2, <1>3, <1>4 DEF Linked, Pointer
  <2>2. ASSUME NEW x \in L2
        PROVE  /\ r.left[x] # Nil => r.parent[r.left[x]] = x
               /\ r.right[x] # Nil => r.parent[r.right[x]] = x
    <3>1. /\ x \in Node /\ h.left[x] \in Pointer /\ h.right[x] \in Pointer
          /\ h.left[x] # Nil => h.parent[h.left[x]] = x
          /\ h.right[x] # Nil => h.parent[h.right[x]] = x
      BY <1>1, HeapFacts DEF Linked
    <3> QED
      BY <1>2, <1>3, <1>4, <3>1 DEF Pointer
  <2> QED
    BY <2>1, <2>2 DEF Linked
<1>10. OutsideOK(r, m, L2)
  <2>1. ASSUME NEW x \in Node \ L2
        PROVE  IF x = m
               THEN r.parent[x] \in L2 \cup {Nil} /\ (r.left[x] = Nil \/ r.right[x] = Nil)
               ELSE r.left[x] = Nil /\ r.right[x] = Nil /\ r.parent[x] = Nil /\ r.height[x] = 0
    <3>1. CASE x = m
      BY <1>2, <1>3, <1>4, <3>1
    <3>2. CASE x # m
      <4>1. x \notin L /\ x # child
        BY <1>2, <3>2, NodeFacts
      <4> QED
        BY <1>1, <1>2, <1>3, <3>2, <4>1
    <3> QED
      BY <3>1, <3>2
  <2> QED
    BY <2>1 DEF OutsideOK
<1>11. \A c \in Pointer : Height(r, c) = Height(h, c)
  BY <1>3 DEF Height
<1>12. ASSUME NEW x \in L, x # p PROVE Good(r, x)
  <2>1. /\ x \in Node /\ r.left[x] = h.left[x] /\ r.right[x] = h.right[x]
        /\ h.left[x] \in Pointer /\ h.right[x] \in Pointer
    BY <1>1, <1>3, <1>4, <1>12, HeapFacts
  <2> QED
    BY <1>1, <1>3, <1>11, <2>1, GoodSame
<1>13. ASSUME p # Nil PROVE WasGood(r, p)
  <2>1. p \in L /\ p \in Node /\ Good(h, p)
    BY <1>1, <1>4, <1>13
  <2>2. Height(h, child) \in Nat /\ h.height[m] - Height(h, child) \in -1..1
    <3>1. Height(h, child) \in Nat /\ Height(h, other) = 0
      BY <1>1, <1>2, HeightIs DEF Height
    <3>2. LET a == Height(h, h.left[m])
              b == Height(h, h.right[m])
          IN h.height[m] = 1 + IF a > b THEN a ELSE b
      BY <1>1, <1>2, GoodIs
    <3>3. h.height[m] = 1 + Height(h, child)
      BY <3>1, <3>2 DEF child, other
    <3> QED
      BY <3>1, <3>3
  <2>3. /\ h.left[p] \in Pointer /\ h.right[p] \in Pointer
        /\ Height(r, r.left[p]) = IF h.left[p] = m THEN Height(h, child) ELSE Height(h, h.left[p])
        /\ Height(r, r.right[p]) = IF h.right[p] = m THEN Height(h, child) ELSE Height(h, h.right[p])
    BY <1>1, <1>2, <1>3, <1>11, <2>1, HeapFacts
  <2>4. ~ (h.left[p] = m /\ h.right[p] = m)
    BY <1>1, <1>2, <2>1 DEF Threaded
  <2> QED
    BY <1>1, <1>2, <1>3, <2>1, <2>2, <2>3, <2>4, ParentWasGood
<1>14. HeightsOK(r, m, L2)
  <2>1. r.parent[m] = p
    BY <1>2, <1>3
  <2>2. \A x \in L2 \cup ({m} \ {Nil}) : x = p \/ Good(r, x)
    BY <1>2, <1>12
  <2>3. p # Nil => p \in L2 /\ WasGood(r, p)
    BY <1>4, <1>13
  <2> QED
    BY <1>2, <2>1, <2>2, <2>3 DEF HeightsOK
<1>15. HeightsFit(r, m, f2)
  <2>1. Cardinality(f2[r.root]) + 1 <= MaxKey
    <3>1. Cardinality(L2) = Cardinality(L) - 1 /\ Cardinality(L) \in Nat /\ Cardinality(L) <= MaxKey
      BY <1>1, RemoveOne
    <3> QED
      BY <1>6, <3>1, MaxKeyAssumption
  <2>2. ASSUME NEW x \in Node PROVE r.height[x] <= Cardinality(f2[x]) + 1
    <3>1. /\ Cardinality(f[x]) \in Nat /\ Cardinality(f[x] \ {m}) \in Nat
          /\ Cardinality(f[x]) <= Cardinality(f[x] \ {m}) + 1
      <4>1. f[x] \in SUBSET Node
        BY <1>1, TreeFacts, GreaterIsOrder
      <4> QED
        BY <4>1, RemoveOne
    <3>2. h.height[x] <= Cardinality(f[x]) /\ h.height[x] \in Nat /\ r.height[x] = h.height[x]
      BY <1>1, <1>3, HeapFacts
    <3>3. f2[x] = f[x] \/ f2[x] = f[x] \ {m}
      BY <1>5, NodeFacts
    <3>4. h.height[x] <= Cardinality(f[x]) + 1 /\ h.height[x] <= Cardinality(f[x] \ {m}) + 1
      BY <3>1, <3>2
    <3> QED
      BY <3>2, <3>3, <3>4
  <2>3. 1 \in 0..1 /\ (m = Nil => 1 = 0)
    BY <1>2
  <2> QED
    BY <2>1, <2>2, <2>3 DEF HeightsFit
<1>16. Sound(r, f2)
  BY <1>3, <1>6, <1>8, <1>9 DEF Sound
<1>17. m \in Pointer /\ \A x \in Node : r.height[x] <= MaxKey
  BY <1>1, <1>2, <1>3, NodeFacts
<1>18. Holds(r, m, f2)
  BY <1>6, <1>10, <1>14, <1>15, <1>16, <1>17 DEF Holds
<1> QED
  BY <1>6, <1>18 DEF f2

\* Two nodes' names exchanged.
Swap(m, s) == [x \in Pointer |-> IF x = m THEN s ELSE IF x = s THEN m ELSE x]

\* r is g with the names of m and s exchanged.
Renamed(g, m, s, r) ==
  LET pi == Swap(m, s)
  IN /\ r \in Heap /\ r.root = pi[g.root]
     /\ \A x \in Node : /\ r.left[x] = pi[g.left[pi[x]]]
                        /\ r.right[x] = pi[g.right[pi[x]]]
                        /\ r.parent[x] = pi[g.parent[pi[x]]]
                        /\ r.height[x] = g.height[pi[x]]

LEMMA SwapFacts ==
  ASSUME NEW m \in Node, NEW s \in Node
  PROVE  LET pi == Swap(m, s)
         IN /\ pi[Nil] = Nil /\ pi[m] = s /\ pi[s] = m
            /\ \A x \in Node : pi[x] \in Node /\ pi[pi[x]] = x /\ (x # m /\ x # s => pi[x] = x)
            /\ \A x \in Pointer : pi[x] \in Pointer /\ pi[pi[x]] = x /\ (pi[x] = Nil <=> x = Nil)
BY NodeFacts DEF Swap, Pointer

\* As many nodes as before.
LEMMA SwapSizes ==
  ASSUME NEW m \in Node, NEW s \in Node, NEW S \in SUBSET Node
  PROVE  Cardinality({y \in Node : Swap(m, s)[y] \in S}) = Cardinality(S)
<1> DEFINE pi == Swap(m, s)
           T == {y \in Node : pi[y] \in S}
<1>1. /\ pi[m] = s /\ pi[s] = m /\ \A x \in Node : x # m /\ x # s => pi[x] = x
  BY SwapFacts
<1>2. IsFiniteSet(S) /\ Cardinality(S) \in Nat
  BY RemoveOne
<1> HIDE DEF pi
<1>3. ASSUME NEW a \in S, NEW b \in Node, b \notin S, T = (S \ {a}) \cup {b} PROVE Cardinality(T) = Cardinality(S)
  <2> HIDE DEF T
  <2>1. IsFiniteSet(S \ {a}) /\ Cardinality(S \ {a}) = Cardinality(S) - 1
    BY <1>2, FS_RemoveElement
  <2>2. b \notin S \ {a}
    BY <1>3
  <2>3. Cardinality((S \ {a}) \cup {b}) = Cardinality(S \ {a}) + 1
    BY <2>1, <2>2, FS_AddElement
  <2> QED
    BY <1>2, <1>3, <2>1, <2>3
<1>4. CASE m \in S /\ s \notin S
  <2>1. T = (S \ {m}) \cup {s}
    BY <1>1, <1>4
  <2> QED
    BY <1>3, <1>4, <2>1 DEF pi
<1>5. CASE s \in S /\ m \notin S
  <2>1. T = (S \ {s}) \cup {m}
    BY <1>1, <1>5
  <2> QED
    BY <1>3, <1>5, <2>1 DEF pi
<1>6. CASE (m \in S /\ s \in S) \/ (m \notin S /\ s \notin S)
  <2>1. T = S
    BY <1>1, <1>6
  <2> QED
    BY <2>1 DEF pi
<1> QED
  BY <1>4, <1>5, <1>6

LEMMA GoodLike ==
  ASSUME NEW h, NEW r, NEW m, NEW n, r.height[n] = h.height[m],
         Height(r, r.left[n]) = Height(h, h.left[m]),
         Height(r, r.right[n]) = Height(h, h.right[m])
  PROVE  /\ Good(r, n) <=> Good(h, m)
         /\ WasGood(r, n) <=> WasGood(h, m)
BY DEF Good, WasGood, Balance

\* s, which is no longer in the tree, takes the place of m, which it came right after.
LEMMA RenameHolds ==
  ASSUME NEW g, NEW s \in Node, NEW f, Holds(g, s, f), s \notin f[g.root], NEW m \in f[g.root],
         g.left[s] = Nil, m < s, \A y \in f[g.root] : y # m => (y < m <=> y < s),
         NEW r, Renamed(g, m, s, r)
  PROVE  \E f2 : Holds(r, m, f2) /\ f2[r.root] = (f[g.root] \ {m}) \cup {s}
<1> DEFINE L == f[g.root]
           L2 == (L \ {m}) \cup {s}
           pi == Swap(m, s)
           f2 == [x \in Pointer |-> {y \in Node : pi[y] \in f[pi[x]]}]
<1>1. /\ g \in Heap /\ Trees(g, f, Greater) /\ IsTree(g.left, g.right, f, Greater)
      /\ Linked(g, L) /\ L \in SUBSET Node /\ f[Nil] = {} /\ g.root \in Pointer
      /\ OutsideOK(g, s, L) /\ HeightsOK(g, s, L) /\ HeightsFit(g, s, f)
      /\ \A x \in Node : g.height[x] <= MaxKey
  BY SoundFacts DEF Holds
<1>2. m \in Node /\ m # s /\ m # Nil /\ s # Nil /\ Node \subseteq Pointer /\ Nil \in Pointer
  BY <1>1, NodeFacts
<1>3. /\ pi[Nil] = Nil /\ pi[m] = s /\ pi[s] = m
      /\ \A x \in Node : pi[x] \in Node /\ pi[pi[x]] = x /\ (x # m /\ x # s => pi[x] = x)
      /\ \A x \in Pointer : pi[x] \in Pointer /\ pi[pi[x]] = x /\ (pi[x] = Nil <=> x = Nil)
  BY <1>2, SwapFacts
<1>4. /\ r \in Heap /\ r.root = pi[g.root]
      /\ \A x \in Node : /\ r.left[x] = pi[g.left[pi[x]]]
                         /\ r.right[x] = pi[g.right[pi[x]]]
                         /\ r.parent[x] = pi[g.parent[pi[x]]]
                         /\ r.height[x] = g.height[pi[x]]
  BY DEF Renamed
<1>5. \A x \in Node : Cardinality({y \in Node : pi[y] \in f[pi[x]]}) = Cardinality(f[pi[x]])
  <2>1. \A x \in Node : f[pi[x]] \in SUBSET Node
    BY <1>1, <1>2, <1>3 DEF IsTree
  <2> QED
    BY <1>2, <2>1, SwapSizes
<1> HIDE DEF pi
<1>6. /\ f2 \in [Pointer -> SUBSET Node] /\ f2[Nil] = {}
      /\ \A x \in Pointer : \A y \in Node : y \in f2[x] <=> pi[y] \in f[pi[x]]
      /\ \A x \in Node : Cardinality(f2[x]) = Cardinality(f[pi[x]])
  BY <1>1, <1>2, <1>3, <1>5
<1> HIDE DEF f2
<1>7. \A y \in Node : y \in L2 <=> pi[y] \in L
  BY <1>1, <1>2, <1>3
<1>8. f2[r.root] = L2
  <2>1. f2[r.root] \in SUBSET Node /\ L2 \in SUBSET Node
    BY <1>1, <1>3, <1>4, <1>6
  <2>2. \A y \in Node : y \in f2[r.root] <=> y \in L2
    BY <1>1, <1>3, <1>4, <1>6, <1>7
  <2> QED
    BY <2>1, <2>2
\* names are exchanged among neighbours, so the order is kept
<1>9. \A j, z \in L : j < z => pi[j] < pi[z]
  <2>1. ASSUME NEW j \in L, NEW z \in L, j < z PROVE pi[j] < pi[z]
    <3>1. j \in Node /\ z \in Node /\ j \in Nat /\ z \in Nat /\ j # s /\ z # s /\ m \in Nat /\ s \in Nat
      BY <1>1, <1>2, NodeFacts
    <3>2. CASE j = m
      <4>1. z # m /\ pi[z] = z /\ pi[j] = s /\ ~ (z < m) /\ ~ (z < s)
        BY <1>3, <2>1, <3>1, <3>2
      <4> QED
        BY <3>1, <4>1
    <3>3. CASE z = m
      BY <1>3, <2>1, <3>1, <3>3
    <3>4. CASE j # m /\ z # m
      BY <1>3, <2>1, <3>1, <3>4
    <3> QED
      BY <3>2, <3>3, <3>4
  <2> QED
    BY <2>1
<1>10. ASSUME NEW z \in Node
       PROVE  /\ \A j \in f[g.left[z]] : j \in Node /\ pi[j] < pi[z]
              /\ \A j \in f[g.right[z]] : j \in Node /\ pi[z] < pi[j]
  <2>1. /\ f[g.left[z]] \in SUBSET Node /\ f[g.right[z]] \in SUBSET Node
        /\ f[z] = {z} \cup f[g.left[z]] \cup f[g.right[z]]
    BY <1>1, TreeFacts, GreaterIsOrder
  <2>2. /\ \A j \in f[g.left[z]] : j \in Node /\ j < z
        /\ \A j \in f[g.right[z]] : j \in Node /\ z < j
    BY <1>1, <2>1, OrderMeans DEF IsTree
  <2>3. CASE z \in L
    <3>1. f[z] \subseteq L
      BY <1>1, <2>3, InsideTree
    <3> QED
      BY <1>9, <2>1, <2>2, <2>3, <3>1
  <2>4. CASE z = s
    <3>1. \A j \in f[g.right[z]] : pi[z] < pi[j]
      <4>1. ASSUME NEW j \in f[g.right[z]] PROVE pi[z] < pi[j]
        <5>1. j \in Nat /\ s \in Nat /\ m \in Nat /\ s < j /\ j \in Node
          BY <1>2, <2>2, <2>4, NodeFacts
        <5>2. j # m /\ j # s /\ m < j
          BY <5>1
        <5> QED
          BY <1>3, <2>4, <5>1, <5>2
      <4> QED
        BY <4>1
    <3> QED
      BY <1>1, <2>2, <2>4, <3>1
  <2>5. CASE z \notin L /\ z # s
    BY <1>1, <2>5 DEF OutsideOK
  <2> QED
    BY <2>3, <2>4, <2>5
<1>11. ASSUME NEW x \in Node
      PROVE  /\ f2[x] = {x} \cup f2[r.left[x]] \cup f2[r.right[x]]
             /\ \A k \in f2[r.left[x]] : x \in Greater[k]
             /\ f2[r.right[x]] \subseteq Greater[x]
  <2> DEFINE z == pi[x]
  <2>1. /\ z \in Node /\ pi[z] = x /\ g.left[z] \in Pointer /\ g.right[z] \in Pointer
        /\ r.left[x] \in Pointer /\ r.right[x] \in Pointer
        /\ pi[r.left[x]] = g.left[z] /\ pi[r.right[x]] = g.right[z]
    BY <1>1, <1>3, <1>4, HeapFacts
  <2>2. f[z] = {z} \cup f[g.left[z]] \cup f[g.right[z]]
    BY <1>1, <2>1, TreeFacts, GreaterIsOrder
  <2>3. /\ f2[x] \in SUBSET Node /\ f2[r.left[x]] \in SUBSET Node /\ f2[r.right[x]] \in SUBSET Node
        /\ \A y \in Node : /\ y \in f2[x] <=> pi[y] \in f[z]
                           /\ y \in f2[r.left[x]] <=> pi[y] \in f[g.left[z]]
                           /\ y \in f2[r.right[x]] <=> pi[y] \in f[g.right[z]]
    BY <1>2, <1>6, <2>1
  <2>4. /\ \A j \in f[g.left[z]] : j \in Node /\ pi[j] < pi[z]
        /\ \A j \in f[g.right[z]] : j \in Node /\ pi[z] < pi[j]
    BY <1>10, <2>1
  <2> HIDE DEF z
  <2>5. \A y \in Node : y \in f2[x] <=> y = x \/ y \in f2[r.left[x]] \/ y \in f2[r.right[x]]
    <3>1. \A y \in Node : pi[y] = z <=> y = x
      BY <1>3, <2>1
    <3> QED
      BY <2>2, <2>3, <3>1
  <2>6. f2[x] = {x} \cup f2[r.left[x]] \cup f2[r.right[x]]
    BY <2>3, <2>5
  <2>7. ASSUME NEW k \in f2[r.left[x]] PROVE x \in Greater[k]
    <3>1. k \in Node /\ pi[pi[k]] < pi[z]
      BY <2>3, <2>4
    <3> QED
      BY <1>3, <2>1, <3>1, OrderMeans
  <2>8. ASSUME NEW k \in f2[r.right[x]] PROVE k \in Greater[x]
    <3>1. k \in Node /\ pi[z] < pi[pi[k]]
      BY <2>3, <2>4
    <3> QED
      BY <1>3, <2>1, <3>1, OrderMeans
  <2> QED
    BY <2>6, <2>7, <2>8
<1>12. Trees(r, f2, Greater)
  <2>1. r.left \in [Node -> Pointer] /\ r.right \in [Node -> Pointer]
    BY <1>4, HeapFacts
  <2> QED
    BY <1>6, <1>11, <2>1 DEF Trees, IsTree
<1>13. Linked(r, L2)
  <2>1. r.root # Nil => r.parent[r.root] = Nil
    <3>1. CASE r.root # Nil
      <4>1. g.root # Nil /\ g.root \in Node /\ r.root \in Node /\ pi[r.root] = g.root
        BY <1>1, <1>3, <1>4, <3>1 DEF Pointer
      <4> QED
        BY <1>1, <1>3, <1>4, <4>1 DEF Linked
    <3> QED
      BY <3>1
  <2>2. ASSUME NEW x \in L2
        PROVE  /\ r.left[x] # Nil => r.parent[r.left[x]] = x
               /\ r.right[x] # Nil => r.parent[r.right[x]] = x
    <3> DEFINE z == pi[x]
    <3>1. x \in Node /\ z \in L /\ z \in Node /\ pi[z] = x
      BY <1>1, <1>3, <1>7
    <3>2. /\ r.left[x] = pi[g.left[z]] /\ r.right[x] = pi[g.right[z]]
          /\ g.left[z] \in Pointer /\ g.right[z] \in Pointer
      BY <1>1, <1>4, <3>1, HeapFacts
    <3> HIDE DEF z
    <3>3. /\ g.left[z] # Nil => g.parent[g.left[z]] = z
          /\ g.right[z] # Nil => g.parent[g.right[z]] = z
      BY <1>1, <3>1 DEF Linked
    <3>4. ASSUME r.left[x] # Nil PROVE r.parent[r.left[x]] = x
      <4>1. g.left[z] \in Node /\ g.left[z] # Nil /\ r.left[x] \in Node /\ pi[r.left[x]] = g.left[z]
        BY <1>3, <3>2, <3>4 DEF Pointer
      <4>2. r.parent[r.left[x]] = pi[g.parent[pi[r.left[x]]]]
        BY <1>4, <4>1
      <4>3. g.parent[g.left[z]] = z
        BY <3>3, <4>1
      <4> QED
        BY <3>1, <4>1, <4>2, <4>3
    <3>5. ASSUME r.right[x] # Nil PROVE r.parent[r.right[x]] = x
      <4>1. g.right[z] \in Node /\ g.right[z] # Nil /\ r.right[x] \in Node /\ pi[r.right[x]] = g.right[z]
        BY <1>3, <3>2, <3>5 DEF Pointer
      <4>2. r.parent[r.right[x]] = pi[g.parent[pi[r.right[x]]]]
        BY <1>4, <4>1
      <4>3. g.parent[g.right[z]] = z
        BY <3>3, <4>1
      <4> QED
        BY <3>1, <4>1, <4>2, <4>3
    <3> QED
      BY <3>4, <3>5
  <2> QED
    BY <2>1, <2>2 DEF Linked
<1>14. OutsideOK(r, m, L2)
  <2>1. ASSUME NEW x \in Node \ L2
        PROVE  IF x = m
               THEN r.parent[x] \in L2 \cup {Nil} /\ (r.left[x] = Nil \/ r.right[x] = Nil)
               ELSE r.left[x] = Nil /\ r.right[x] = Nil /\ r.parent[x] = Nil /\ r.height[x] = 0
    <3>1. CASE x = m
      <4>1. g.parent[s] \in L \cup {Nil}
        BY <1>1 DEF OutsideOK
      <4>2. r.parent[x] = pi[g.parent[s]] /\ r.left[x] = Nil
        BY <1>3, <1>4, <3>1
      <4>3. pi[g.parent[s]] \in L2 \cup {Nil}
        BY <1>1, <1>3, <1>7, <4>1
      <4> QED
        BY <3>1, <4>2, <4>3
    <3>2. CASE x # m
      <4>1. pi[x] \in Node \ L /\ pi[x] # s
        BY <1>2, <1>3, <1>7, <3>2
      <4>2. g.left[pi[x]] = Nil /\ g.right[pi[x]] = Nil /\ g.parent[pi[x]] = Nil /\ g.height[pi[x]] = 0
        BY <1>1, <4>1 DEF OutsideOK
      <4> QED
        BY <1>3, <1>4, <3>2, <4>2
    <3> QED
      BY <3>1, <3>2
  <2> QED
    BY <2>1 DEF OutsideOK
<1>15. \A c \in Pointer : Height(r, pi[c]) = Height(g, c)
  <2>1. ASSUME NEW c \in Pointer PROVE Height(r, pi[c]) = Height(g, c)
    <3>1. CASE c = Nil
      BY <1>3, <3>1 DEF Height
    <3>2. CASE c # Nil
      <4>1. pi[c] \in Node /\ pi[c] # Nil /\ pi[pi[c]] = c
        BY <1>3, <3>2 DEF Pointer
      <4> QED
        BY <1>4, <3>2, <4>1 DEF Height
    <3> QED
      BY <3>1, <3>2
  <2> QED
    BY <2>1
<1>16. ASSUME NEW x \in Node
       PROVE  (Good(r, x) <=> Good(g, pi[x])) /\ (WasGood(r, x) <=> WasGood(g, pi[x]))
  <2>1. /\ r.height[x] = g.height[pi[x]]
        /\ Height(r, r.left[x]) = Height(g, g.left[pi[x]])
        /\ Height(r, r.right[x]) = Height(g, g.right[pi[x]])
    <3>1. /\ pi[x] \in Node /\ r.left[x] = pi[g.left[pi[x]]] /\ r.right[x] = pi[g.right[pi[x]]]
          /\ g.left[pi[x]] \in Pointer /\ g.right[pi[x]] \in Pointer
      BY <1>1, <1>3, <1>4, HeapFacts
    <3> QED
      BY <1>4, <1>15, <3>1
  <2> QED
    BY <2>1, GoodLike
<1>17. HeightsOK(r, m, L2)
  <2>1. PICK e \in {s, g.parent[s]} :
          /\ \A x \in L \cup {s} : x = e \/ Good(g, x)
          /\ e # Nil => e \in L /\ WasGood(g, e)
    BY <1>1, <1>2 DEF HeightsOK
  <2>2. e \in Pointer
    BY <1>1, <1>2, <2>1, HeapFacts
  <2>3. pi[e] \in {m, r.parent[m]}
    BY <1>2, <1>3, <1>4, <2>1
  <2>4. \A x \in L2 \cup ({m} \ {Nil}) : x = pi[e] \/ Good(r, x)
    <3>1. ASSUME NEW x \in L2 \cup {m} PROVE x = pi[e] \/ Good(r, x)
      <4>1. x \in Node /\ pi[x] \in L \cup {s} /\ pi[pi[x]] = x
        BY <1>1, <1>2, <1>3, <1>7
      <4> QED
        BY <1>16, <2>1, <4>1
    <3> QED
      BY <3>1
  <2>5. pi[e] # Nil => pi[e] \in L2 /\ WasGood(r, pi[e])
    <3>1. CASE pi[e] # Nil
      <4>1. e # Nil /\ e \in Node /\ pi[e] \in Node /\ pi[pi[e]] = e
        BY <1>3, <2>2, <3>1 DEF Pointer
      <4> QED
        BY <1>7, <1>16, <2>1, <4>1
    <3> QED
      BY <3>1
  <2> QED
    BY <1>2, <2>3, <2>4, <2>5 DEF HeightsOK
<1>18. HeightsFit(r, m, f2)
  <2>1. PICK d \in 0..1 : /\ Cardinality(L) + d <= MaxKey
                          /\ \A x \in Node : g.height[x] <= Cardinality(f[x]) + d
    BY <1>1 DEF HeightsFit
  <2>2. Cardinality(f2[r.root]) = Cardinality(L)
    <3>1. g.root \in Node
      BY <1>1 DEF Pointer
    <3>2. pi[g.root] \in Node /\ pi[pi[g.root]] = g.root
      BY <1>3, <3>1
    <3> QED
      BY <1>4, <1>6, <3>2
  <2>3. \A x \in Node : r.height[x] <= Cardinality(f2[x]) + d
    BY <1>3, <1>4, <1>6, <2>1
  <2> QED
    BY <1>2, <2>1, <2>2, <2>3 DEF HeightsFit
<1>19. Sound(r, f2)
  BY <1>4, <1>8, <1>12, <1>13 DEF Sound
<1>20. m \in Pointer /\ \A x \in Node : r.height[x] <= MaxKey
  BY <1>1, <1>2, <1>3, <1>4
<1>21. Holds(r, m, f2)
  BY <1>8, <1>14, <1>17, <1>18, <1>19, <1>20 DEF Holds
<1> QED
  BY <1>8, <1>21

\* The heap r that Delete makes of h, when m has two children and s, which has no
\* left one, comes right after it: s is taken out and put in the place of m.
Transposed(h, m, s, r) ==
  LET ml == h.left[m]
      mr == h.right[m]
      sr == h.right[s]
      hold(c) == IF c = s THEN sr ELSE IF c = m THEN s ELSE c
      up == IF h.parent[s] = m THEN s ELSE h.parent[s]
  IN /\ r \in Heap /\ r.root = hold(h.root)
     /\ \A x \in Node :
          /\ r.left[x] = IF x = m THEN Nil ELSE IF x = s THEN ml ELSE hold(h.left[x])
          /\ r.right[x] = IF x = m THEN sr ELSE IF x = s THEN hold(mr) ELSE hold(h.right[x])
          /\ r.parent[x] = IF x = s THEN h.parent[m]
                           ELSE IF x = m \/ x = sr THEN up
                           ELSE IF x = ml \/ x = mr THEN s ELSE h.parent[x]
          /\ r.height[x] = IF x = m THEN h.height[s] ELSE IF x = s THEN h.height[m] ELSE h.height[x]

\* s is the node that Transpose finds; the pointers around m and s lead to
\* different nodes.
Aside(h, m, s) ==
  /\ s = Leftmost(h.right[m])
  /\ h.left[m] \in Node /\ h.right[m] \in Node /\ h.left[s] = Nil
  /\ s \notin {m, h.left[m], h.right[s], h.root}
  /\ m \notin {h.left[m], h.right[m], h.right[s]}
  /\ h.right[s] \notin {h.left[m], h.right[m]} /\ h.left[m] # h.right[m]

\* The same, node by node.
LEMMA PutAt ==
  ASSUME NEW h \in Heap, NEW s \in Slots, NEW c \in Pointer
  PROVE  LET r == Put(h, s, c)
         IN /\ r \in Heap /\ r.parent = h.parent /\ r.height = h.height
            /\ r.root = IF s = Root THEN c ELSE h.root
            /\ \A x \in Node : /\ r.left[x] = IF s = Left(x) THEN c ELSE h.left[x]
                               /\ r.right[x] = IF s = Right(x) THEN c ELSE h.right[x]
<1> DEFINE r == Put(h, s, c)
<1>1. /\ r \in Heap /\ r.parent = h.parent /\ r.height = h.height
      /\ r.root = IF s = Root THEN c ELSE h.root
  BY PutIs
<1>2. r.left = [x \in Node |-> IF s = Left(x) THEN c ELSE h.left[x]]
  BY PutIs
<1>3. r.right = [x \in Node |-> IF s = Right(x) THEN c ELSE h.right[x]]
  BY PutIs
<1> HIDE DEF r
<1>4. \A x \in Node : /\ r.left[x] = IF s = Left(x) THEN c ELSE h.left[x]
                      /\ r.right[x] = IF s = Right(x) THEN c ELSE h.right[x]
  BY <1>2, <1>3
<1> QED
  BY <1>1, <1>4 DEF r

LEMMA SetParentAt ==
  ASSUME NEW h \in Heap, NEW m \in Pointer, NEW p \in Pointer
  PROVE  LET r == SetParent(h, m, p)
         IN /\ r \in Heap /\ r.root = h.root /\ r.left = h.left /\ r.right = h.right
            /\ r.height = h.height
            /\ \A x \in Node : r.parent[x] = IF x = m THEN p ELSE h.parent[x]
<1> DEFINE r == SetParent(h, m, p)
<1>1. /\ r \in Heap /\ r.root = h.root /\ r.left = h.left /\ r.right = h.right
      /\ r.height = h.height
      /\ r.parent = [x \in Node |-> IF x = m THEN p ELSE h.parent[x]]
  BY SetParentIs
<1> HIDE DEF r
<1>2. \A x \in Node : r.parent[x] = IF x = m THEN p ELSE h.parent[x]
  BY <1>1
<1> QED
  BY <1>1, <1>2 DEF r

\* Transpose's assignments to the fields of m and of s.
Exchanged(h, m, s, b, c, d, u, v) ==
  [h EXCEPT !.left[m] = Nil, !.right[m] = b, !.left[s] = c, !.parent[s] = d,
            !.height[m] = u, !.height[s] = v]

ExchangedIs(h, m, s, b, c, d, u, v, r) ==
  /\ r \in Heap /\ r.root = h.root
  /\ \A x \in Node :
       /\ r.left[x] = IF x = s THEN c ELSE IF x = m THEN Nil ELSE h.left[x]
       /\ r.right[x] = IF x = m THEN b ELSE h.right[x]
       /\ r.parent[x] = IF x = s THEN d ELSE h.parent[x]
       /\ r.height[x] = IF x = s THEN v ELSE IF x = m THEN u ELSE h.height[x]

LEMMA ExchangeFacts ==
  ASSUME NEW h \in Heap, NEW m \in Node, NEW s \in Node, NEW b \in Pointer, NEW c \in Pointer,
         NEW d \in Pointer, NEW u \in Nat, NEW v \in Nat
  PROVE  ExchangedIs(h, m, s, b, c, d, u, v, Exchanged(h, m, s, b, c, d, u, v))
<1> DEFINE r == Exchanged(h, m, s, b, c, d, u, v)
           q1 == [h EXCEPT !.left[m] = Nil, !.right[m] = b]
           q2 == [q1 EXCEPT !.left[s] = c, !.parent[s] = d]
           q3 == [q2 EXCEPT !.height[m] = u, !.height[s] = v]
<1>1. r = q3
  BY DEF Exchanged
<1>2. /\ q1 \in Heap /\ q1.root = h.root /\ q1.left = [h.left EXCEPT ![m] = Nil]
      /\ q1.right = [h.right EXCEPT ![m] = b] /\ q1.parent = h.parent /\ q1.height = h.height
  BY NodeFacts DEF Heap
<1> HIDE DEF q1
<1>3. /\ q2 \in Heap /\ q2.root = q1.root /\ q2.left = [q1.left EXCEPT ![s] = c]
      /\ q2.right = q1.right /\ q2.parent = [q1.parent EXCEPT ![s] = d] /\ q2.height = q1.height
  BY <1>2 DEF Heap
<1> HIDE DEF q2
<1>4. /\ q3 \in Heap /\ q3.root = q2.root /\ q3.left = q2.left /\ q3.right = q2.right
      /\ q3.parent = q2.parent /\ q3.height = [q2.height EXCEPT ![m] = u, ![s] = v]
  BY <1>3 DEF Heap
<1> HIDE DEF q3
<1>5. /\ q3 \in Heap /\ q3.root = h.root /\ q3.left = [[h.left EXCEPT ![m] = Nil] EXCEPT ![s] = c]
      /\ q3.right = [h.right EXCEPT ![m] = b] /\ q3.parent = [h.parent EXCEPT ![s] = d]
      /\ q3.height = [h.height EXCEPT ![m] = u, ![s] = v]
  BY <1>2, <1>3, <1>4
<1>6. \A x \in Node :
        /\ q3.left[x] = IF x = s THEN c ELSE IF x = m THEN Nil ELSE h.left[x]
        /\ q3.right[x] = IF x = m THEN b ELSE h.right[x]
        /\ q3.parent[x] = IF x = s THEN d ELSE h.parent[x]
        /\ q3.height[x] = IF x = s THEN v ELSE IF x = m THEN u ELSE h.height[x]
  BY <1>5, HeapFacts
<1>7. ExchangedIs(h, m, s, b, c, d, u, v, q3)
  BY <1>5, <1>6 DEF ExchangedIs
<1> QED
  BY <1>1, <1>7

\* The parent pointers that Transpose puts right at its end.
Relinked(h, m, s) ==
  LET p1 == SetParent(h, h.left[s], s)
      p2 == SetParent(p1, p1.right[s], s)
  IN SetParent(p2, p2.right[m], m)

LEMMA RelinkIs ==
  ASSUME NEW h \in Heap, NEW m \in Node, NEW s \in Node
  PROVE  LET p3 == Relinked(h, m, s)
         IN /\ p3 \in Heap /\ p3.root = h.root /\ p3.left = h.left /\ p3.right = h.right
            /\ p3.height = h.height
            /\ \A x \in Node : p3.parent[x] = IF x = h.right[m] THEN m
                                              ELSE IF x \in {h.left[s], h.right[s]} THEN s
                                              ELSE h.parent[x]
<1> DEFINE ls == h.left[s]
           rs == h.right[s]
           rm == h.right[m]
           p1 == SetParent(h, ls, s)
           p2 == SetParent(p1, rs, s)
           p3 == SetParent(p2, rm, m)
<1>1. ls \in Pointer /\ rs \in Pointer /\ rm \in Pointer /\ s \in Pointer /\ m \in Pointer
  BY HeapFacts, NodeFacts
<1>2. ls = h.left[s] /\ rs = h.right[s] /\ rm = h.right[m]
  OBVIOUS
<1> HIDE DEF ls, rs, rm
<1>3. /\ p1 \in Heap /\ p1.root = h.root /\ p1.left = h.left /\ p1.right = h.right
      /\ p1.height = h.height
      /\ p1.parent = [x \in Node |-> IF x = ls THEN s ELSE h.parent[x]]
  BY <1>1, SetParentIs
<1>4. p2 = SetParent(p1, p1.right[s], s)
  BY <1>2, <1>3
<1> HIDE DEF p1
<1>5. /\ p2 \in Heap /\ p2.root = p1.root /\ p2.left = p1.left /\ p2.right = p1.right
      /\ p2.height = p1.height
      /\ p2.parent = [x \in Node |-> IF x = rs THEN s ELSE p1.parent[x]]
  BY <1>1, <1>3, SetParentIs
<1>6. p3 = SetParent(p2, p2.right[m], m)
  BY <1>2, <1>3, <1>5
<1> HIDE DEF p2
<1>7. /\ p3 \in Heap /\ p3.root = p2.root /\ p3.left = p2.left /\ p3.right = p2.right
      /\ p3.height = p2.height
      /\ p3.parent = [x \in Node |-> IF x = rm THEN m ELSE p2.parent[x]]
  BY <1>1, <1>5, SetParentIs
<1> HIDE DEF p3
<1>8. /\ p3 \in Heap /\ p3.root = h.root /\ p3.left = h.left /\ p3.right = h.right
      /\ p3.height = h.height
      /\ \A x \in Node : p3.parent[x] = IF x = rm THEN m ELSE IF x \in {ls, rs} THEN s ELSE h.parent[x]
  BY <1>3, <1>5, <1>7
<1>9. p1 = SetParent(h, h.left[s], s)
  BY <1>2 DEF p1
<1> QED
  BY <1>2, <1>4, <1>6, <1>8, <1>9 DEF Relinked

\* s is the right child of m.
LEMMA TransposeNear ==
  ASSUME NEW h \in Heap, Threaded(h), NEW m \in Node, NEW mp \in Slots, Get(h, mp) = m,
         NEW s \in Node, Aside(h, m, s), s \in {h.right[m]}
  PROVE  LET out == Transpose(h, m, mp) IN Transposed(h, m, s, Unlink(out.heap, m, out.slot))
<1> DEFINE ml == h.left[m]
           sr == h.right[s]
           out == Put(h, mp, s)
           swapped == [out EXCEPT !.right[s] = m]
           pm == h.parent[m]
           hs == h.height[s]
           hm == h.height[m]
           linked == Exchanged(swapped, m, s, sr, ml, pm, hs, hm)
           p3 == Relinked(linked, m, s)
           put == Put(p3, Right(s), sr)
           r == SetParent(put, sr, s)
<1>1. /\ m # s /\ m # Nil /\ s # Nil /\ sr \in Pointer /\ ml \in Node /\ ml # m /\ ml # s
      /\ sr # m /\ sr # s /\ sr # ml /\ h.left[s] = Nil /\ h.parent[m] \in Pointer /\ h.root # s
      /\ ml = h.left[m] /\ sr = h.right[s] /\ s \in Pointer /\ m \in Pointer
      /\ Nil \in Pointer /\ Node \subseteq Pointer /\ h.parent[s] = m /\ ml # Nil
      /\ s = h.right[m] /\ s = Leftmost(h.right[m])
  BY HeapFacts, NodeFacts DEF Aside, Threaded, Linked
<1>2. /\ Transpose(h, m, mp).slot = Right(s)
      /\ Transpose(h, m, mp).heap = p3
  BY <1>1 DEF Transpose, Relinked, Exchanged
<1>3. /\ h.height[s] \in Nat /\ h.height[m] \in Nat /\ h.parent[m] \in Pointer
      /\ pm = h.parent[m] /\ hs = h.height[s] /\ hm = h.height[m]
  BY HeapFacts
<1> HIDE DEF ml, sr, pm, hs, hm
<1>4. /\ mp = Root <=> h.root = m
      /\ \A x \in Node : /\ mp = Left(x) <=> h.left[x] = m
                         /\ mp = Right(x) <=> h.right[x] = m
  BY OneSlot
<1>5. /\ out \in Heap /\ out.parent = h.parent /\ out.height = h.height
      /\ out.root = IF h.root = m THEN s ELSE h.root
      /\ \A x \in Node : /\ out.left[x] = IF h.left[x] = m THEN s ELSE h.left[x]
                         /\ out.right[x] = IF h.right[x] = m THEN s ELSE h.right[x]
  <2>1. /\ out \in Heap /\ out.parent = h.parent /\ out.height = h.height
        /\ out.root = IF mp = Root THEN s ELSE h.root
        /\ out.left = [x \in Node |-> IF mp = Left(x) THEN s ELSE h.left[x]]
        /\ out.right = [x \in Node |-> IF mp = Right(x) THEN s ELSE h.right[x]]
    BY <1>1, PutIs
  <2> HIDE DEF out
  <2> QED
    BY <1>4, <2>1
<1> HIDE DEF out
<1>6. /\ linked \in Heap /\ linked.root = out.root
      /\ \A x \in Node :
           /\ linked.left[x] = IF x = s THEN ml ELSE IF x = m THEN Nil ELSE out.left[x]
           /\ linked.right[x] = IF x = m THEN sr ELSE IF x = s THEN m ELSE out.right[x]
           /\ linked.parent[x] = IF x = s THEN h.parent[m] ELSE out.parent[x]
           /\ linked.height[x] = IF x = s THEN h.height[m] ELSE IF x = m THEN h.height[s] ELSE out.height[x]
  <2>1. /\ swapped \in Heap /\ swapped.root = out.root /\ swapped.left = out.left
        /\ swapped.right = [out.right EXCEPT ![s] = m] /\ swapped.parent = out.parent
        /\ swapped.height = out.height /\ out \in Heap
    BY <1>1, <1>5 DEF Heap
  <2> HIDE DEF swapped
  <2>2. /\ hs \in Nat /\ hm \in Nat /\ pm \in Pointer /\ ml \in Pointer
        /\ sr \in Pointer /\ swapped \in Heap
    BY <1>1, <1>3, <2>1
  <2>3. /\ linked \in Heap /\ linked.root = swapped.root
        /\ \A x \in Node :
             /\ linked.left[x] = IF x = s THEN ml ELSE IF x = m THEN Nil ELSE swapped.left[x]
             /\ linked.right[x] = IF x = m THEN sr ELSE swapped.right[x]
             /\ linked.parent[x] = IF x = s THEN pm ELSE swapped.parent[x]
             /\ linked.height[x] = IF x = s THEN hm ELSE IF x = m THEN hs ELSE swapped.height[x]
    <3>1. ExchangedIs(swapped, m, s, sr, ml, pm, hs, hm, linked)
      BY <2>2, ExchangeFacts
    <3> HIDE DEF linked
    <3> QED
      BY <3>1 DEF ExchangedIs
  <2> HIDE DEF linked
  <2> QED
    BY <1>3, <2>1, <2>3, HeapFacts
<1> HIDE DEF swapped, linked
<1>7. /\ linked \in Heap /\ linked.root = IF h.root = m THEN s ELSE h.root
      /\ \A x \in Node :
           /\ linked.left[x] = IF x = m THEN Nil ELSE IF x = s THEN ml
                               ELSE IF h.left[x] = m THEN s ELSE h.left[x]
           /\ linked.right[x] = IF x = m THEN sr ELSE IF x = s THEN m
                                ELSE IF h.right[x] = m THEN s ELSE h.right[x]
           /\ linked.parent[x] = IF x = s THEN h.parent[m] ELSE h.parent[x]
           /\ linked.height[x] = IF x = m THEN h.height[s] ELSE IF x = s THEN h.height[m] ELSE h.height[x]
  BY <1>1, <1>5, <1>6, HeapFacts
<1>8. linked.left[s] = ml /\ linked.right[s] = m /\ linked.right[m] = sr
  BY <1>1, <1>7
<1>9. /\ p3 \in Heap /\ p3.root = linked.root /\ p3.left = linked.left /\ p3.right = linked.right
      /\ p3.height = linked.height
      /\ \A x \in Node : p3.parent[x] = IF x = sr THEN m ELSE IF x = ml \/ x = m THEN s
                                        ELSE linked.parent[x]
  <2>1. /\ p3 \in Heap /\ p3.root = linked.root /\ p3.left = linked.left /\ p3.right = linked.right
        /\ p3.height = linked.height
        /\ \A x \in Node : p3.parent[x] = IF x = linked.right[m] THEN m
                                          ELSE IF x \in {linked.left[s], linked.right[s]} THEN s
                                          ELSE linked.parent[x]
    <3>1. linked \in Heap
      BY <1>7
    <3>2. /\ p3 \in Heap /\ p3.root = linked.root /\ p3.left = linked.left
          /\ p3.right = linked.right /\ p3.height = linked.height
      BY <3>1, RelinkIs
    <3>3. \A x \in Node : p3.parent[x] = IF x = linked.right[m] THEN m
                                        ELSE IF x \in {linked.left[s], linked.right[s]} THEN s
                                        ELSE linked.parent[x]
      BY <3>1, RelinkIs
    <3> QED
      BY <3>2, <3>3
  <2> HIDE DEF p3
  <2> QED
    BY <1>8, <2>1
<1> HIDE DEF p3
<1>10. p3.left[m] = Nil /\ p3.right[m] = sr /\ p3.parent[m] = s
  BY <1>1, <1>7, <1>8, <1>9
<1>11. Unlink(p3, m, Right(s)) = r
  BY <1>10 DEF Unlink
<1>12. /\ put \in Heap /\ put.parent = p3.parent /\ put.height = p3.height
       /\ put.root = linked.root
       /\ \A x \in Node : /\ put.left[x] = linked.left[x]
                          /\ put.right[x] = IF x = s THEN sr ELSE linked.right[x]
  <2>1. /\ Right(s) # Root /\ Right(s) \in Slots
        /\ \A x \in Node : Right(s) # Left(x) /\ (Right(s) = Right(x) <=> x = s)
    BY DEF Root, Left, Right, Slots
  <2>2. /\ put \in Heap /\ put.parent = p3.parent /\ put.height = p3.height
        /\ put.root = p3.root
        /\ \A x \in Node : put.left[x] = p3.left[x] /\ put.right[x] = IF x = s THEN sr ELSE p3.right[x]
    <3> DEFINE rs == Right(s)
    <3>1. /\ rs \in Slots /\ p3 \in Heap /\ sr \in Pointer /\ put = Put(p3, rs, sr)
          /\ rs # Root /\ \A x \in Node : rs # Left(x) /\ (rs = Right(x) <=> x = s)
      BY <1>1, <1>9, <2>1
    <3> HIDE DEF put, rs
    <3> QED
      BY <3>1, PutAt
  <2> HIDE DEF put
  <2> QED
    BY <1>9, <2>2
<1> HIDE DEF put
<1>13. /\ r \in Heap /\ r.root = put.root /\ r.left = put.left /\ r.right = put.right
       /\ r.height = put.height
       /\ \A x \in Node : r.parent[x] = IF x = sr THEN s ELSE put.parent[x]
  <2>1. put \in Heap /\ sr \in Pointer /\ s \in Pointer
    BY <1>1, <1>12
  <2> QED
    BY <2>1, SetParentAt
<1> HIDE DEF r
<1>14. \A x \in Node : r.parent[x] = IF x = sr THEN s ELSE IF x = m THEN s ELSE IF x = ml THEN s
                                     ELSE IF x = s THEN h.parent[m] ELSE h.parent[x]
  BY <1>1, <1>7, <1>9, <1>12, <1>13
<1>15. \A x \in Node : /\ h.right[x] = s <=> x = m
                       /\ h.left[x] # s
  <2>1. ASSUME NEW x \in Node PROVE (h.right[x] = s <=> x = m) /\ h.left[x] # s
    BY <1>1, <2>1, NodeFacts DEF Threaded, Linked
  <2> QED
    BY <2>1
<1>16. \A x \in Node :
         /\ r.left[x] = linked.left[x] /\ r.height[x] = linked.height[x]
         /\ r.right[x] = IF x = s THEN sr ELSE linked.right[x]
  BY <1>9, <1>12, <1>13
<1>17. r.root = IF h.root = m THEN s ELSE h.root
  BY <1>7, <1>12, <1>13
<1>18. Transposed(h, m, s, r)
  BY <1>1, <1>7, <1>13, <1>14, <1>15, <1>16, <1>17 DEF Transposed
<1> QED
  BY <1>2, <1>11, <1>18

\* s is further down.
LEMMA TransposeFar ==
  ASSUME NEW h \in Heap, Threaded(h), NEW m \in Node, NEW mp \in Slots, Get(h, mp) = m,
         NEW s \in Node, Aside(h, m, s), s # h.right[m], h.parent[s] # m,
         NEW sp \in Slots, sp \in {NodeP(h, s)}, Get(h, sp) \in {s}
  PROVE  LET out == Transpose(h, m, mp) IN Transposed(h, m, s, Unlink(out.heap, m, out.slot))
<1> DEFINE ml == h.left[m]
           mr == h.right[m]
           sr == h.right[s]
           q == h.parent[s]
           out == Put(h, mp, s)
           out2 == [out EXCEPT !.right[s] = mr, !.parent[m] = q]
           swapped == Put(out2, sp, m)
           pm == h.parent[m]
           hs == h.height[s]
           hm == h.height[m]
           linked == Exchanged(swapped, m, s, sr, ml, pm, hs, hm)
           p3 == Relinked(linked, m, s)
           put == Put(p3, sp, sr)
           r == SetParent(put, sr, q)
<1>1. /\ m # s /\ m # Nil /\ s # Nil /\ sr \in Pointer /\ ml \in Node /\ ml # m /\ ml # s
      /\ mr \in Node /\ mr # m /\ mr # s /\ mr # ml /\ mr # sr /\ mr # Nil
      /\ sr # m /\ sr # s /\ sr # ml /\ h.left[s] = Nil /\ h.parent[m] \in Pointer /\ h.root # s
      /\ ml = h.left[m] /\ sr = h.right[s] /\ mr = h.right[m] /\ s \in Pointer /\ m \in Pointer
      /\ Nil \in Pointer /\ Node \subseteq Pointer /\ ml # Nil
      /\ q \in Pointer /\ q = h.parent[s] /\ q # m
      /\ s = Leftmost(h.right[m]) /\ sp = NodeP(h, s) /\ Get(h, sp) = s
  BY HeapFacts, NodeFacts DEF Aside
<1>2. /\ Transpose(h, m, mp).slot = sp
      /\ Transpose(h, m, mp).heap = p3
  BY <1>1 DEF Transpose, Relinked, Exchanged
<1>3. /\ h.height[s] \in Nat /\ h.height[m] \in Nat /\ h.parent[m] \in Pointer
      /\ pm = h.parent[m] /\ hs = h.height[s] /\ hm = h.height[m]
  BY HeapFacts
<1> HIDE DEF ml, mr, sr, q, pm, hs, hm
<1>4. /\ mp = Root <=> h.root = m
      /\ \A x \in Node : /\ mp = Left(x) <=> h.left[x] = m
                         /\ mp = Right(x) <=> h.right[x] = m
  BY OneSlot
<1>5. /\ sp = Root <=> h.root = s
      /\ \A x \in Node : /\ sp = Left(x) <=> h.left[x] = s
                         /\ sp = Right(x) <=> h.right[x] = s
  BY <1>1, OneSlot
<1>6. /\ out \in Heap /\ out.parent = h.parent /\ out.height = h.height
      /\ out.root = IF h.root = m THEN s ELSE h.root
      /\ \A x \in Node : /\ out.left[x] = IF h.left[x] = m THEN s ELSE h.left[x]
                         /\ out.right[x] = IF h.right[x] = m THEN s ELSE h.right[x]
  <2>1. /\ out \in Heap /\ out.parent = h.parent /\ out.height = h.height
        /\ out.root = IF mp = Root THEN s ELSE h.root
        /\ out.left = [x \in Node |-> IF mp = Left(x) THEN s ELSE h.left[x]]
        /\ out.right = [x \in Node |-> IF mp = Right(x) THEN s ELSE h.right[x]]
    BY <1>1, PutIs
  <2> HIDE DEF out
  <2> QED
    BY <1>4, <2>1
<1> HIDE DEF out
<1>7. /\ out2 \in Heap /\ out2.root = out.root /\ out2.left = out.left
      /\ out2.right = [out.right EXCEPT ![s] = mr] /\ out2.parent = [out.parent EXCEPT ![m] = q]
      /\ out2.height = out.height /\ out.right \in [Node -> Pointer] /\ out.parent \in [Node -> Pointer]
  BY <1>1, <1>6 DEF Heap
<1> HIDE DEF out2
<1>8. /\ swapped \in Heap /\ swapped.root = out.root /\ swapped.height = out.height
      /\ \A x \in Node :
           /\ swapped.left[x] = IF h.left[x] = s THEN m ELSE out.left[x]
           /\ swapped.right[x] = IF h.right[x] = s THEN m ELSE IF x = s THEN mr ELSE out.right[x]
           /\ swapped.parent[x] = IF x = m THEN q ELSE h.parent[x]
  <2>1. /\ swapped \in Heap /\ swapped.parent = out2.parent /\ swapped.height = out2.height
        /\ swapped.root = IF sp = Root THEN m ELSE out2.root
        /\ \A x \in Node : /\ swapped.left[x] = IF sp = Left(x) THEN m ELSE out2.left[x]
                           /\ swapped.right[x] = IF sp = Right(x) THEN m ELSE out2.right[x]
    <3>1. out2 \in Heap /\ m \in Pointer
      BY <1>1, <1>7
    <3> QED
      BY <3>1, PutAt
  <2> HIDE DEF swapped
  <2>2. \A x \in Node : /\ out2.right[x] = IF x = s THEN mr ELSE out.right[x]
                        /\ out2.parent[x] = IF x = m THEN q ELSE h.parent[x]
    BY <1>6, <1>7
  <2> QED
    BY <1>1, <1>5, <1>7, <2>1, <2>2
<1> HIDE DEF swapped
<1>9. /\ linked \in Heap /\ linked.root = out.root
      /\ \A x \in Node :
           /\ linked.left[x] = IF x = s THEN ml ELSE IF x = m THEN Nil ELSE swapped.left[x]
           /\ linked.right[x] = IF x = m THEN sr ELSE swapped.right[x]
           /\ linked.parent[x] = IF x = s THEN pm ELSE swapped.parent[x]
           /\ linked.height[x] = IF x = s THEN hm ELSE IF x = m THEN hs ELSE swapped.height[x]
  <2>1. /\ hs \in Nat /\ hm \in Nat /\ pm \in Pointer /\ ml \in Pointer
        /\ sr \in Pointer /\ swapped \in Heap
    BY <1>1, <1>3, <1>8
  <2>2. ExchangedIs(swapped, m, s, sr, ml, pm, hs, hm, linked)
    BY <2>1, ExchangeFacts
  <2> HIDE DEF linked
  <2> QED
    BY <1>8, <2>2 DEF ExchangedIs
<1> HIDE DEF linked
<1>10. /\ linked \in Heap /\ linked.root = IF h.root = m THEN s ELSE h.root
       /\ \A x \in Node :
            /\ linked.left[x] = IF x = m THEN Nil ELSE IF x = s THEN ml
                                ELSE IF h.left[x] = s THEN m ELSE IF h.left[x] = m THEN s ELSE h.left[x]
            /\ linked.right[x] = IF x = m THEN sr ELSE IF x = s THEN mr
                                 ELSE IF h.right[x] = s THEN m
                                 ELSE IF h.right[x] = m THEN s ELSE h.right[x]
            /\ linked.parent[x] = IF x = s THEN h.parent[m] ELSE IF x = m THEN q ELSE h.parent[x]
            /\ linked.height[x] = IF x = m THEN h.height[s] ELSE IF x = s THEN h.height[m] ELSE h.height[x]
  BY <1>1, <1>3, <1>6, <1>8, <1>9
<1>11. linked.left[s] = ml /\ linked.right[s] = mr /\ linked.right[m] = sr
  BY <1>1, <1>10
<1>12. /\ p3 \in Heap /\ p3.root = linked.root /\ p3.left = linked.left /\ p3.right = linked.right
       /\ p3.height = linked.height
       /\ \A x \in Node : p3.parent[x] = IF x = sr THEN m ELSE IF x = ml \/ x = mr THEN s
                                         ELSE linked.parent[x]
  <2>1. linked \in Heap
    BY <1>10
  <2>2. /\ p3 \in Heap /\ p3.root = linked.root /\ p3.left = linked.left
        /\ p3.right = linked.right /\ p3.height = linked.height
    BY <2>1, RelinkIs
  <2>3. \A x \in Node : p3.parent[x] = IF x = linked.right[m] THEN m
                                      ELSE IF x \in {linked.left[s], linked.right[s]} THEN s
                                      ELSE linked.parent[x]
    BY <2>1, RelinkIs
  <2> HIDE DEF p3
  <2> QED
    BY <1>11, <2>2, <2>3
<1> HIDE DEF p3
<1>13. p3.left[m] = Nil /\ p3.right[m] = sr /\ p3.parent[m] = q
  BY <1>1, <1>10, <1>11, <1>12
<1>14. Unlink(p3, m, sp) = r
  BY <1>13 DEF Unlink
<1>15. /\ put \in Heap /\ put.parent = p3.parent /\ put.height = p3.height
       /\ put.root = linked.root
       /\ \A x \in Node : /\ put.left[x] = IF h.left[x] = s THEN sr ELSE linked.left[x]
                          /\ put.right[x] = IF h.right[x] = s THEN sr ELSE linked.right[x]
  <2>1. p3 \in Heap /\ sr \in Pointer
    BY <1>1, <1>12
  <2>2. /\ put \in Heap /\ put.parent = p3.parent /\ put.height = p3.height
        /\ put.root = IF sp = Root THEN sr ELSE p3.root
        /\ \A x \in Node : /\ put.left[x] = IF sp = Left(x) THEN sr ELSE p3.left[x]
                           /\ put.right[x] = IF sp = Right(x) THEN sr ELSE p3.right[x]
    BY <2>1, PutAt
  <2> HIDE DEF put
  <2> QED
    BY <1>1, <1>5, <1>12, <2>2
<1> HIDE DEF put
<1>16. /\ r \in Heap /\ r.root = put.root /\ r.left = put.left /\ r.right = put.right
       /\ r.height = put.height
       /\ \A x \in Node : r.parent[x] = IF x = sr THEN q ELSE put.parent[x]
  <2>1. put \in Heap /\ sr \in Pointer /\ q \in Pointer
    BY <1>1, <1>15
  <2> QED
    BY <2>1, SetParentAt
<1> HIDE DEF r
<1>17. \A x \in Node : r.parent[x] = IF x = sr THEN q ELSE IF x = ml \/ x = mr THEN s
                                     ELSE IF x = s THEN h.parent[m] ELSE IF x = m THEN q
                                     ELSE h.parent[x]
  BY <1>1, <1>10, <1>12, <1>15, <1>16
<1>18. \A x \in Node :
         /\ r.left[x] = IF h.left[x] = s THEN sr ELSE linked.left[x]
         /\ r.height[x] = linked.height[x]
         /\ r.right[x] = IF h.right[x] = s THEN sr ELSE linked.right[x]
  BY <1>12, <1>15, <1>16
<1>19. r.root = IF h.root = m THEN s ELSE h.root
  BY <1>10, <1>15, <1>16
<1>20. r \in Heap
  BY <1>16
<1>21. Transposed(h, m, s, r)
  BY <1>1, <1>10, <1>17, <1>18, <1>19, <1>20 DEF Transposed
<1> QED
  BY <1>2, <1>14, <1>21

\* Taking out s first and then putting it in m's place makes the same heap.
LEMMA TransposedRenamed ==
  ASSUME NEW h \in Heap, Threaded(h), NEW m \in Node, NEW s \in Node, Aside(h, m, s),
         \A x \in Node : h.parent[x] # Nil => x \in {h.left[h.parent[x]], h.right[h.parent[x]]},
         NEW g, Unlinked(h, s, g), NEW r, Transposed(h, m, s, r)
  PROVE  Renamed(g, m, s, r)
<1> DEFINE ml == h.left[m]
           mr == h.right[m]
           sr == h.right[s]
           q == h.parent[s]
           pi == Swap(m, s)
<1>1. /\ ml = h.left[m] /\ mr = h.right[m] /\ sr = h.right[s] /\ q = h.parent[s]
      /\ ml \in Node /\ mr \in Node /\ sr \in Pointer /\ h.left[s] = Nil /\ q \in Pointer
      /\ s # m /\ s # ml /\ s # sr /\ s # h.root /\ m # ml /\ m # mr /\ m # sr
      /\ sr # ml /\ sr # mr /\ ml # mr /\ m # Nil /\ s # Nil /\ ml # Nil /\ mr # Nil
  BY HeapFacts, NodeFacts DEF Aside
<1>2. h.parent[ml] = m /\ h.parent[mr] = m
  BY <1>1 DEF Threaded, Linked
<1>3. \A x \in Node : /\ h.parent[x] = m => x = ml \/ x = mr
                      /\ h.parent[x] = s => x = sr
  <2>1. ASSUME NEW x \in Node, h.parent[x] \in {m, s}
        PROVE  x \in {h.left[h.parent[x]], h.right[h.parent[x]]}
    BY <1>1, <2>1
  <2> QED
    BY <1>1, <2>1, NodeFacts
<1> HIDE DEF ml, mr, sr, q
<1>4. /\ pi[Nil] = Nil /\ pi[m] = s /\ pi[s] = m
      /\ \A x \in Node : pi[x] \in Node /\ (x # m /\ x # s => pi[x] = x)
      /\ \A x \in Pointer : pi[x] \in Pointer /\ (x # m /\ x # s => pi[x] = x)
  BY SwapFacts, NodeFacts DEF Pointer
<1> HIDE DEF pi
<1> DEFINE out(c) == IF c = s THEN sr ELSE c
           hold(c) == IF c = s THEN sr ELSE IF c = m THEN s ELSE c
<1>5. /\ g \in Heap /\ g.root = h.root /\ g.height = h.height
      /\ \A x \in Node : /\ g.left[x] = out(h.left[x])
                         /\ g.right[x] = out(h.right[x])
                         /\ g.parent[x] = IF x = sr THEN q ELSE h.parent[x]
  BY <1>1 DEF Unlinked
<1>6. \A c \in Pointer : pi[out(c)] = hold(c)
  BY <1>1, <1>4
<1>7. /\ r \in Heap /\ r.root = hold(h.root)
      /\ \A x \in Node :
           /\ r.left[x] = IF x = m THEN Nil ELSE IF x = s THEN ml ELSE hold(h.left[x])
           /\ r.right[x] = IF x = m THEN sr ELSE IF x = s THEN hold(mr) ELSE hold(h.right[x])
           /\ r.parent[x] = IF x = s THEN h.parent[m]
                            ELSE IF x = m \/ x = sr THEN IF q = m THEN s ELSE q
                            ELSE IF x = ml \/ x = mr THEN s ELSE h.parent[x]
           /\ r.height[x] = IF x = m THEN h.height[s] ELSE IF x = s THEN h.height[m] ELSE h.height[x]
  BY <1>1 DEF Transposed
<1>8. r.root = pi[g.root]
  <2>1. h.root \in Pointer /\ out(h.root) = h.root
    BY <1>1, HeapFacts
  <2>2. pi[out(h.root)] = hold(h.root)
    BY <1>6, <2>1
  <2> HIDE DEF hold
  <2> QED
    BY <1>5, <1>7, <2>1, <2>2
<1>9. ASSUME NEW x \in Node PROVE r.left[x] = pi[g.left[pi[x]]] /\ r.right[x] = pi[g.right[pi[x]]]
  <2>1. \A z \in Node : pi[g.left[z]] = hold(h.left[z]) /\ pi[g.right[z]] = hold(h.right[z])
    <3> HIDE DEF out, hold
    <3> QED
      BY <1>5, <1>6, HeapFacts
  <2>2. CASE x = m
    <3>1. pi[g.left[pi[x]]] = hold(h.left[s]) /\ pi[g.right[pi[x]]] = hold(h.right[s])
      BY <1>4, <2>1, <2>2
    <3> QED
      BY <1>1, <1>7, <2>2, <3>1
  <2>3. CASE x = s
    <3>1. pi[g.left[pi[x]]] = hold(h.left[m]) /\ pi[g.right[pi[x]]] = hold(h.right[m])
      BY <1>4, <2>1, <2>3
    <3> QED
      BY <1>1, <1>7, <2>3, <3>1
  <2>4. CASE x # m /\ x # s
    <3>1. pi[g.left[pi[x]]] = hold(h.left[x]) /\ pi[g.right[pi[x]]] = hold(h.right[x])
      BY <1>4, <2>1, <2>4
    <3> QED
      BY <1>7, <2>4, <3>1
  <2> QED
    BY <2>2, <2>3, <2>4
<1>10. ASSUME NEW x \in Node PROVE r.parent[x] = pi[g.parent[pi[x]]]
  <2>1. q # s /\ pi[q] = IF q = m THEN s ELSE q
    <3>1. q # s
      BY <1>1, <1>3
    <3> QED
      BY <1>1, <1>4, <3>1
  <2>2. CASE x = m
    <3>1. pi[x] = s /\ g.parent[s] = q
      BY <1>1, <1>4, <1>5, <2>2
    <3> QED
      BY <1>1, <1>7, <2>1, <2>2, <3>1
  <2>3. CASE x = s
    <3>1. pi[x] = m /\ g.parent[m] = h.parent[m] /\ h.parent[m] # m /\ h.parent[m] # s
      BY <1>1, <1>3, <1>4, <1>5, <2>3
    <3> QED
      BY <1>4, <1>7, <2>3, <3>1, HeapFacts
  <2>4. CASE x # m /\ x # s
    <3>1. pi[x] = x /\ g.parent[x] = IF x = sr THEN q ELSE h.parent[x]
      BY <1>4, <1>5, <2>4
    <3>2. CASE x = sr
      BY <1>7, <2>1, <2>4, <3>1, <3>2
    <3>3. CASE x # sr /\ (x = ml \/ x = mr)
      <4>1. h.parent[x] = m
        BY <1>2, <3>3
      <4> QED
        BY <1>4, <1>7, <2>4, <3>1, <3>3, <4>1
    <3>4. CASE x # sr /\ x # ml /\ x # mr
      <4>1. h.parent[x] # m /\ h.parent[x] # s /\ h.parent[x] \in Pointer
        BY <1>3, <3>4, HeapFacts
      <4> QED
        BY <1>4, <1>7, <2>4, <3>1, <3>4, <4>1
    <3> QED
      BY <3>2, <3>3, <3>4
  <2> QED
    BY <2>2, <2>3, <2>4
<1>11. ASSUME NEW x \in Node PROVE r.height[x] = g.height[pi[x]]
  BY <1>1, <1>4, <1>5, <1>7
<1> QED
  BY <1>7, <1>8, <1>9, <1>10, <1>11 DEF Renamed, pi

\* m's successor, by which Transpose replaces it.
LEMMA SuccessorFacts ==
  ASSUME NEW f, Holds(t, Nil, f), NEW m \in f[t.root],
         t.left[m] # Nil, t.right[m] # Nil
  PROVE  LET s == Leftmost(t.right[m])
         IN /\ s \in f[t.root] /\ s \in Node /\ m \in Node /\ m < s
            /\ \A y \in f[t.root] : y # m /\ y # s => (y < m <=> y < s)
            /\ Aside(t, m, s)
<1> DEFINE L == f[t.root]
           mr == t.right[m]
           s == Leftmost(mr)
<1>1. /\ t \in Heap /\ Trees(t, f, Greater) /\ IsTree(t.left, t.right, f, Greater)
      /\ L \in SUBSET Node /\ f[Nil] = {} /\ t.root \in Pointer /\ Threaded(t)
  BY RestingFacts
<1>2. /\ m \in Node /\ f[m] \subseteq L /\ t.left[m] \in Node /\ mr \in Node /\ t.root \in L
      /\ t.root \in Node
  BY <1>1, InsideTree DEF Pointer
<1>3. s = First(Greater, f[mr])
  <2>1. s = Down(t.left, mr)
    BY DEF Leftmost, Down
  <2> QED
    BY <1>1, <1>2, <2>1, DownIsFirst, GreaterIsOrder
<1>4. s \in f[mr] /\ s \in Node /\ t.left[s] = Nil
  BY <1>1, <1>2, <1>3, FirstHasNone, GreaterIsOrder
<1>5. s = First(Greater, After(Greater, f, t.root, m))
  BY <1>1, <1>2, <1>3, AfterIs, GreaterIsOrder
<1> HIDE DEF s
<1>6. /\ f[m] = {m} \cup f[t.left[m]] \cup f[mr] /\ m \notin f[t.left[m]] /\ m \notin f[mr]
      /\ f[t.left[m]] \cap f[mr] = {} /\ t.left[m] # m /\ mr # m /\ t.left[m] # mr
      /\ t.left[m] \in f[t.left[m]] /\ mr \in f[mr]
  <2>1. IsTree(t.left, t.right, f, Greater) /\ m \in Node /\ t.right[m] # Nil /\ t.left[m] # Nil
    BY <1>1, <1>2
  <2>2. /\ f[m] = {m} \cup f[t.left[m]] \cup f[t.right[m]]
        /\ m \notin f[t.left[m]] /\ m \notin f[t.right[m]]
        /\ f[t.left[m]] \cap f[t.right[m]] = {}
    BY <2>1, TreeFacts, GreaterIsOrder
  <2>3. /\ t.left[m] # m /\ t.right[m] # m /\ t.left[m] # t.right[m]
        /\ t.left[m] \in f[t.left[m]] /\ t.right[m] \in f[t.right[m]]
    BY <2>1, TreeFacts, GreaterIsOrder
  <2> QED
    BY <2>2, <2>3
<1>7. s \in L /\ s \in After(Greater, f, t.root, m)
      /\ \A y \in After(Greater, f, t.root, m) : y = s \/ y \in Greater[s]
  <2>1. f[mr] \subseteq Greater[m]
    BY <1>1, <1>2 DEF IsTree
  <2>2. s \in After(Greater, f, t.root, m)
    BY <1>2, <1>4, <1>6, <2>1 DEF After
  <2>3. After(Greater, f, t.root, m) \in SUBSET Node
    BY <1>1 DEF After
  <2> QED
    BY <1>2, <1>4, <1>5, <1>6, <2>2, <2>3, FirstFacts, GreaterIsOrder
<1>8. m < s
  BY <1>2, <1>4, <1>7, OrderMeans DEF After
<1>9. ASSUME NEW y \in L, y # m, y # s PROVE y < m <=> y < s
  <2>1. y \in Nat /\ m \in Nat /\ s \in Nat /\ y \in Node
    BY <1>1, <1>2, <1>4, <1>9, NodeFacts
  <2>2. CASE m < y
    <3>1. y \in After(Greater, f, t.root, m)
      BY <1>2, <1>9, <2>1, <2>2, OrderMeans DEF After
    <3>2. s < y
      BY <1>4, <1>7, <1>9, <2>1, <3>1, OrderMeans
    <3> QED
      BY <2>1, <2>2, <3>2
  <2>3. CASE y < m
    BY <1>8, <2>1, <2>3
  <2> QED
    BY <1>9, <2>1, <2>2, <2>3
<1>10. /\ f[s] = {s} \cup f[t.right[s]] /\ s \notin f[t.right[s]] /\ t.right[s] # s
       /\ t.right[s] # Nil => t.right[s] \in f[t.right[s]]
  BY <1>1, <1>4, TreeFacts, GreaterIsOrder
<1>11. f[s] \subseteq f[mr]
  BY <1>1, <1>2, <1>4, Transitive, GreaterIsOrder
<1>12. s # t.root
  <2>1. s = t.root => m \in f[s]
    OBVIOUS
  <2> QED
    BY <1>6, <1>11, <2>1
<1>13. t.right[s] # Nil => t.right[s] \in f[mr]
  BY <1>10, <1>11
<1>14. t.right[s] # mr
  BY <1>4, <1>10
<1>15. t.right[s] # t.left[m] /\ t.right[s] # m
  BY <1>2, <1>6, <1>13, NodeFacts
<1>16. s # m /\ s # t.left[m]
  BY <1>4, <1>6
<1>17. Aside(t, m, s)
  BY <1>2, <1>4, <1>6, <1>10, <1>12, <1>14, <1>15, <1>16 DEF Aside, s
<1> QED
  BY <1>2, <1>4, <1>7, <1>8, <1>9, <1>17 DEF s

\* Delete's work on the pointers, when m has two children: the tree is as if s had
\* been deleted, but s is where m was.
LEMMA TransposeHolds ==
  ASSUME NEW f, Holds(t, Nil, f), NEW m \in f[t.root],
         t.left[m] # Nil, t.right[m] # Nil
  PROVE  LET out == Transpose(t, m, NodeP(t, m))
             r == Unlink(out.heap, m, out.slot)
         IN \E f2 : Holds(r, m, f2) /\ f2[r.root] = f[t.root] \ {m}
<1> DEFINE L == f[t.root]
           s == Leftmost(t.right[m])
           mp == NodeP(t, m)
           sp == NodeP(t, s)
           out == Transpose(t, m, mp)
           r == Unlink(out.heap, m, out.slot)
           g == Unlink(t, s, sp)
<1>1. /\ t \in Heap /\ Trees(t, f, Greater) /\ Linked(t, L)
      /\ L \in SUBSET Node /\ f[Nil] = {} /\ t.root \in Pointer /\ Threaded(t)
      /\ \A x \in Node \ L : t.parent[x] = Nil
  BY RestingFacts
<1>2. /\ s \in L /\ s \in Node /\ m \in Node /\ m < s
      /\ \A y \in L : y # m /\ y # s => (y < m <=> y < s)
      /\ Aside(t, m, s)
  BY SuccessorFacts
<1>3. s = Leftmost(t.right[m])
  OBVIOUS
<1> HIDE DEF s
<1>4. \A x \in Node : t.parent[x] # Nil => x \in {t.left[t.parent[x]], t.right[t.parent[x]]}
  <2>1. ASSUME NEW x \in L, t.parent[x] # Nil PROVE x \in {t.left[t.parent[x]], t.right[t.parent[x]]}
    BY <1>1, <2>1, ParentInside, GreaterIsOrder
  <2> QED
    BY <1>1, <2>1
<1>5. ASSUME NEW x \in L PROVE NodeP(t, x) \in Slots /\ Get(t, NodeP(t, x)) = x
  <2>1. x \in Node /\ t.parent[x] \in L \cup {Nil}
    BY <1>1, ParentInside, GreaterIsOrder
  <2> QED
    BY <1>1, <2>1, NodePFacts, GreaterIsOrder
<1>6. mp \in Slots /\ Get(t, mp) = m /\ sp \in Slots /\ Get(t, sp) = s
  BY <1>2, <1>5
<1>7. sp = NodeP(t, s)
  OBVIOUS
<1> HIDE DEF mp, sp
<1>8. Transposed(t, m, s, r)
  <2>1. CASE s = t.right[m]
    BY <1>1, <1>2, <1>6, <2>1, TransposeNear
  <2>2. CASE s # t.right[m]
    <3>1. t.parent[s] # m
      BY <1>2, <1>4, <2>2, NodeFacts DEF Aside
    <3>2. sp \in {NodeP(t, s)} /\ Get(t, sp) \in {s}
      BY <1>6, <1>7
    <3> QED
      BY <1>1, <1>2, <1>6, <2>2, <3>1, <3>2, TransposeFar
  <2> QED
    BY <2>1, <2>2
<1> HIDE DEF r
<1>9. Unlinked(t, s, g)
  BY <1>1, <1>2, <1>6, UnlinkFacts
<1> HIDE DEF g
<1>10. t.left[s] = Nil
  BY <1>2 DEF Aside
<1>11. PICK f1 : Holds(g, s, f1) /\ f1[g.root] = L \ {s}
  <2> DEFINE f1 == [x \in Pointer |-> IF x = s THEN f[s] ELSE f[x] \ {s}]
  <2>1. Holds(g, s, f1) /\ f1[g.root] = L \ {s}
    <3> HIDE DEF f1
    <3> QED
      BY <1>2, <1>9, <1>10, UnlinkHolds DEF f1
  <2> HIDE DEF f1
  <2> QED
    BY <2>1
<1>12. Renamed(g, m, s, r)
  BY <1>1, <1>2, <1>4, <1>8, <1>9, TransposedRenamed
<1>13. g.left[s] = Nil
  BY <1>2, <1>9, <1>10, NodeFacts DEF Unlinked
<1>14. /\ s \notin f1[g.root] /\ m \in f1[g.root]
       /\ \A y \in f1[g.root] : y # m => (y < m <=> y < s)
  <2>1. m # s
    BY <1>2 DEF Aside
  <2> QED
    BY <1>2, <1>11, <2>1
<1>15. PICK f2 : Holds(r, m, f2) /\ f2[r.root] = (f1[g.root] \ {m}) \cup {s}
  <2>1. /\ s \in Node /\ m < s /\ Holds(g, s, f1) /\ s \notin f1[g.root] /\ m \in f1[g.root]
        /\ g.left[s] = Nil /\ Renamed(g, m, s, r)
        /\ \A y \in f1[g.root] : y # m => (y < m <=> y < s)
    BY <1>2, <1>11, <1>12, <1>13, <1>14
  <2> QED
    BY <2>1, RenameHolds
<1>16. (f1[g.root] \ {m}) \cup {s} = L \ {m}
  <2>1. m # s
    BY <1>2 DEF Aside
  <2> QED
    BY <1>2, <1>11, <2>1
<1> QED
  BY <1>15, <1>16 DEF r, mp

-----------------------------------------------------------------------------
(* The steps *)

LEMMA InitHolds == Init => IInv /\ Reached = {}
<1> SUFFICES ASSUME Init PROVE IInv /\ Reached = {}
  OBVIOUS
<1> DEFINE f == [m \in Pointer |-> IF m = Nil THEN {} ELSE {m}]
<1>1. /\ t.root = Nil /\ at = Nil /\ t \in Heap /\ Nil \in Pointer /\ Nil \notin Node
      /\ \A m \in Node : /\ t.left[m] = Nil /\ t.right[m] = Nil /\ t.parent[m] = Nil
                         /\ t.height[m] = 0
  BY NodeFacts DEF Init, Heap
<1>2. f[Nil] = {} /\ f \in [Pointer -> SUBSET Node] /\ \A m \in Node : f[m] = {m}
  BY NodeFacts DEF Pointer
<1> HIDE DEF f
<1>3. Trees(t, f, Greater)
  BY <1>1, <1>2, HeapFacts DEF Trees, IsTree
<1>4. Threaded(t)
  BY <1>1 DEF Threaded, Linked
<1>5. Within(t, f, 0)
  <2>1. \A m \in Node : Cardinality({m}) = 1
    BY FS_Singleton
  <2> QED
    BY <1>1, <1>2, <2>1 DEF Within
<1>6. Cardinality(f[t.root]) + 0 <= MaxKey
  <2>1. Cardinality({}) = 0
    BY FS_EmptySet
  <2> QED
    BY <1>1, <1>2, <2>1, MaxKeyAssumption
<1>7. Holds(t, Nil, f)
  <2>1. /\ f[t.root] = {} /\ Nil \in f[t.root] \cup {Nil} /\ 0 \in 0..1
        /\ Nil \in {Nil} \cup (IF Nil = Nil THEN {} ELSE {t.parent[Nil]})
    BY <1>1, <1>2
  <2> QED
    BY <1>1, <1>3, <1>4, <1>5, <1>6, <2>1, HoldsInside
<1>8. Reached = f[t.root]
  BY <1>7, SoundFacts DEF Reached, Holds
<1> QED
  BY <1>1, <1>2, <1>7, <1>8, HoldsIInv

\* The search for a key ends at its node, if the tree has one.
LEMMA FindsKey ==
  ASSUME IInv, NEW k \in Node
  PROVE  LET f == Subtrees(t)
             s == Descend(k)
         IN /\ Holds(t, at, f) /\ Reached = f[t.root] /\ f[t.root] \in SUBSET Node /\ t \in Heap
            /\ s \in Slots /\ (s = Root \/ s.of \in f[t.root])
            /\ (Get(t, s) = Nil <=> k \notin Reached)
            /\ (Get(t, s) = k <=> k \in Reached)
            /\ Fits(t, f, s, k, f[t.root])
<1> DEFINE f == Subtrees(t)
           s == Descend(k)
<1>1. Holds(t, at, f) /\ Reached = f[t.root]
  BY IInvHolds DEF Reached
<1> HIDE DEF f
<1>2. Sound(t, f)
  BY <1>1 DEF Holds
<1>3. /\ s \in Slots /\ (s = Root \/ s.of \in f[t.root])
      /\ Get(t, s) = IF k \in f[t.root] THEN k ELSE Nil
      /\ Fits(t, f, s, k, f[t.root])
  BY <1>2, DescendIs
<1>4. f[t.root] \in SUBSET Node /\ t \in Heap
  BY <1>2, SoundFacts
<1> HIDE DEF s
<1> QED
  BY <1>1, <1>3, <1>4, NodeFacts DEF f, s

LEMMA InsertStep ==
  ASSUME IInv, NEW k \in Node, Insert(k)
  PROVE  IInv' /\ k \notin Reached /\ Reached' = Reached \cup {k}
<1> DEFINE f == Subtrees(t)
           s == Descend(k)
<1>1. /\ Holds(t, at, f) /\ Reached = f[t.root] /\ t \in Heap
      /\ s \in Slots /\ (s = Root \/ s.of \in f[t.root])
      /\ (Get(t, s) = Nil <=> k \notin Reached)
      /\ Fits(t, f, s, k, f[t.root])
  BY FindsKey
<1>2. /\ at = Nil /\ Get(t, s) = Nil
      /\ t' = [Put(t, s, k) EXCEPT !.parent[k] = s.of, !.height[k] = 1]
      /\ at' = s.of
  BY DEF Insert
<1> HIDE DEF f, s
<1>3. InsertIs(t, s, k, t')
  BY <1>1, <1>2, InsertFacts
<1>4. Holds(t, Nil, f) /\ k \notin f[t.root]
  BY <1>1, <1>2
<1>5. PICK f2 : Holds(t', s.of, f2) /\ f2[t'.root] = f[t.root] \cup {k}
  <2>1. /\ Holds(t, Nil, f) /\ k \notin f[t.root] /\ s \in Slots /\ Get(t, s) = Nil
        /\ (s = Root \/ s.of \in f[t.root]) /\ Fits(t, f, s, k, f[t.root])
    BY <1>1, <1>2, <1>4
  <2>2. ASSUME NEW r, InsertIs(t, s, k, r)
        PROVE  \E f2 : Holds(r, s.of, f2) /\ f2[r.root] = f[t.root] \cup {k}
    BY ONLY <2>1, <2>2, InsertHolds, k \in Node
  <2> QED
    BY <1>3, <2>2
<1>6. Holds(t', at', f2)
  BY <1>2, <1>5
<1>7. IInv' /\ Reached' = f2[t'.root]
  BY <1>6, HoldsIInvNext
<1> QED
  BY <1>1, <1>4, <1>5, <1>7

LEMMA DeleteStep ==
  ASSUME IInv, NEW m \in Node, Delete(m)
  PROVE  IInv' /\ m \in Reached /\ Reached' = Reached \ {m}
<1> DEFINE f == Subtrees(t)
           mp == NodeP(t, m)
           out == Transpose(t, m, mp)
<1>1. /\ Holds(t, at, f) /\ Reached = f[t.root] /\ t \in Heap
      /\ (Get(t, Descend(m)) = m <=> m \in Reached)
  BY FindsKey
<1>2. /\ at = Nil /\ Get(t, Descend(m)) = m /\ at' = m
      /\ t' = IF t.left[m] # Nil /\ t.right[m] # Nil THEN Unlink(out.heap, m, out.slot)
              ELSE Unlink(t, m, mp)
  BY DEF Delete
<1> HIDE DEF f
<1>3. Holds(t, Nil, f) /\ m \in f[t.root]
  BY <1>1, <1>2
<1>4. \E f2 : Holds(t', m, f2) /\ f2[t'.root] = f[t.root] \ {m}
  <2>1. CASE t.left[m] # Nil /\ t.right[m] # Nil
    <3>1. \E f2 : Holds(Unlink(out.heap, m, out.slot), m, f2)
                  /\ f2[Unlink(out.heap, m, out.slot).root] = f[t.root] \ {m}
      BY <1>3, <2>1, TransposeHolds
    <3> QED
      BY <1>2, <2>1, <3>1
  <2>2. CASE t.left[m] = Nil \/ t.right[m] = Nil
    <3>1. t' = Unlink(t, m, mp)
      BY <1>2, <2>2
    <3>2. Trees(t, f, Greater) /\ Linked(t, f[t.root]) /\ Threaded(t)
      BY <1>3, RestingFacts
    <3>3. t.parent[m] \in f[t.root] \cup {Nil}
      BY <1>1, <1>3, <3>2, ParentInside, GreaterIsOrder
    <3>4. mp \in Slots /\ Get(t, mp) = m
      BY <1>1, <1>3, <3>2, <3>3, NodePFacts, GreaterIsOrder
    <3> HIDE DEF mp
    <3>5. Unlinked(t, m, t')
      BY <1>1, <3>1, <3>2, <3>4, UnlinkFacts
    <3> DEFINE f2 == [x \in Pointer |-> IF x = m THEN f[m] ELSE f[x] \ {m}]
    <3>6. Holds(t', m, f2) /\ f2[t'.root] = f[t.root] \ {m}
      <4> HIDE DEF f2
      <4> QED
        BY <1>3, <2>2, <3>5, UnlinkHolds DEF f2
    <3> HIDE DEF f2
    <3> QED
      BY <3>6
  <2> QED
    BY <2>1, <2>2
<1>5. PICK f2 : Holds(t', m, f2) /\ f2[t'.root] = f[t.root] \ {m}
  BY <1>4
<1>6. Holds(t', at', f2)
  BY <1>2, <1>5
<1>7. IInv' /\ Reached' = f2[t'.root]
  BY <1>6, HoldsIInvNext
<1> QED
  BY <1>1, <1>3, <1>5, <1>7

LEMMA RebalanceStep ==
  ASSUME IInv, Rebalance
  PROVE  /\ IInv' /\ Reached' = Reached
         /\ at \in Node /\ Climbed(t, at, Subtrees(t), t', at')
         /\ \E f2 : Holds(t', at', f2)
<1> DEFINE f == Subtrees(t)
           h == RebalanceAt(t, at)
<1>1. Holds(t, at, f) /\ Reached = f[t.root]
  BY IInvHolds DEF Reached
<1>2. at # Nil /\ t' = (IF Get(t, NodeP(t, at)) # at THEN Clear(h, at) ELSE h) /\ at' = h.parent[at]
  BY DEF Rebalance, Detached
<1> HIDE DEF f
<1>3. at \in Node
  BY <1>1, <1>2 DEF Holds, Pointer
<1>4. /\ \E f2 : Holds(t', at', f2) /\ f2[t'.root] = f[t.root]
      /\ Climbed(t, at, f, t', at')
  BY <1>1, <1>2, <1>3, RebalanceHolds
<1>5. PICK f2 : Holds(t', at', f2) /\ f2[t'.root] = f[t.root]
  BY <1>4
<1>6. IInv' /\ Reached' = f2[t'.root]
  BY <1>5, HoldsIInvNext
<1> QED
  BY <1>1, <1>3, <1>4, <1>5, <1>6 DEF f

LEMMA StutterStep == ASSUME IInv, UNCHANGED vars PROVE IInv' /\ Reached' = Reached
<1>1. Holds(t, at, Subtrees(t)) /\ t' = t /\ at' = at
  BY IInvHolds DEF vars
<1>2. Holds(t', at', Subtrees(t))
  BY <1>1
<1> QED
  BY <1>1, <1>2, HoldsIInvNext DEF Reached

-----------------------------------------------------------------------------
(* The theorems *)

\* IInv is inductive: insertions, deletions and every step of every rebalance keep it.
THEOREM Invariance == Spec => []IInv
<1>1. Init => IInv
  BY InitHolds
<1>2. IInv /\ [Next]_vars => IInv'
  <2> SUFFICES ASSUME IInv, [Next]_vars PROVE IInv'
    OBVIOUS
  <2>1. ASSUME NEW k \in Node, Insert(k) PROVE IInv'
    BY <2>1, InsertStep
  <2>2. ASSUME NEW m \in Node, Delete(m) PROVE IInv'
    BY <2>2, DeleteStep
  <2>3. CASE Rebalance
    BY <2>3, RebalanceStep
  <2>4. CASE UNCHANGED vars
    BY <2>4, StutterStep
  <2> QED
    BY <2>1, <2>2, <2>3, <2>4 DEF Next
<1> QED
  BY <1>1, <1>2, PTL DEF Spec

\* Every variable has its type, and the parent pointers agree with the child pointers,
\* at every step of every call (avl.go:166-174).
THEOREM AlwaysWellFormed == Spec => []WellFormed
<1>1. IInv => WellFormed
  BY DEF IInv
<1> QED
  BY <1>1, Invariance, PTL

\* Next, Prev, Search and the descent for a key find the right nodes in every tree that
\* Insert, Delete and the steps of rebalance make.
THEOREM AlwaysOrdered == Spec => []Ordered
<1>1. IInv => Ordered
  BY IInvHolds, ReadsAgree DEF Holds
<1> QED
  BY <1>1, Invariance, PTL

\* When no call is running, all heights are right and the tree is balanced.
THEOREM AlwaysBalanced == Spec => []Balanced
<1>1. IInv => Balanced
  <2> SUFFICES ASSUME IInv, at = Nil
               PROVE  \A m \in Reached : Good(t, m)
    BY DEF Balanced, Good
  <2>1. Holds(t, Nil, Subtrees(t))
    BY IInvHolds
  <2> QED
    BY <2>1, RestingFacts DEF Reached
<1> QED
  BY <1>1, Invariance, PTL

\* The node that Delete has removed is never rotated, which would link it back in
\* (avl.go:94).
THEOREM AlwaysDetachedNotRotated == Spec => []DetachedNotRotated
<1>1. IInv => DetachedNotRotated
  <2> SUFFICES ASSUME IInv, at # Nil, Get(t, NodeP(t, at)) # at PROVE Balance(t, at) \in -1..1
    BY DEF DetachedNotRotated, Detached
  <2>1. Holds(t, at, Subtrees(t)) /\ at \in Node
    BY IInvHolds DEF Holds, Pointer
  <2>2. Good(t, at)
    BY <2>1, WhereWrong
  <2> QED
    BY <2>2 DEF Good
<1> QED
  BY <1>1, Invariance, PTL

\* rebalance never meets a node more than two out of balance, finds the children that
\* its rotations need, and leaves the node in balance (avl.go:152-161).
THEOREM AlwaysRotatesOnce == Spec => []RotatesOnce
<1>1. IInv => RotatesOnce
  <2> SUFFICES ASSUME IInv, at # Nil PROVE RotatesOnce
    BY DEF RotatesOnce
  <2>1. Holds(t, at, Subtrees(t)) /\ at \in Node
    BY IInvHolds DEF Holds, Pointer
  <2> DEFINE u == UpdateHeight(t, at)
             b == Balance(u, at)
             r == RebalanceAt(t, at)
  <2>2. /\ b \in {-2, -1, 0, 1, 2}
        /\ b = 2 /\ Balance(u, u.left[at]) < 0 => u.right[u.left[at]] # Nil
        /\ b = -2 /\ Balance(u, u.right[at]) > 0 => u.left[u.right[at]] # Nil
        /\ Good(r, at)
    <3>1. CASE Good(t, at)
      <4>1. t \in Heap
        BY <2>1, SoundFacts DEF Holds
      <4>2. u = t /\ r = t /\ Balance(t, at) \in -1..1
        BY <2>1, <3>1, <4>1, GoodRests
      <4>3. b \in {-1, 0, 1}
        BY <4>2
      <4> HIDE DEF r, u
      <4> QED
        BY <3>1, <4>2, <4>3
    <3>2. CASE ~ Good(t, at) /\ Balance(t, at) \in -1..1
      <4>1. r = u /\ Good(u, at)
        BY <2>1, <3>2, UpdateHolds
      <4>2. b \in {-1, 0, 1}
        <5>1. b \in -1..1
          BY <4>1 DEF Good
        <5> QED
          BY <5>1
      <4> HIDE DEF r, b
      <4> QED
        BY <4>1, <4>2
    <3>3. CASE ~ Good(t, at) /\ Balance(t, at) \notin -1..1
      <4>1. /\ b \in {-2, 2}
            /\ b = 2 /\ Balance(u, u.left[at]) < 0 => u.right[u.left[at]] # Nil
            /\ b = -2 /\ Balance(u, u.right[at]) > 0 => u.left[u.right[at]] # Nil
            /\ Good(r, at)
        BY <2>1, <3>3, TurnHolds
      <4> QED
        BY <4>1
    <3> QED
      BY <3>1, <3>2, <3>3
  <2>3. Balance(r, at) \in -1..1
    BY <2>2 DEF Good
  <2> HIDE DEF u, r
  <2>4. b \in -2..2
    BY <2>2
  <2> HIDE DEF b
  <2> QED
    BY <2>2, <2>3, <2>4 DEF RotatesOnce, u, b, r
<1> QED
  BY <1>1, Invariance, PTL

\* Insert adds its node and no other, Delete takes away the node it was given and no
\* other, and a rotation neither: the tree implements the set of nodes that Imap uses.
THEOREM ImplementsOrderedNodes == Spec => Refinement
<1>1. Init => ON!Init
  BY InitHolds DEF ON!Init
<1>2. IInv /\ [Next]_vars => [ON!Next]_Reached
  <2> SUFFICES ASSUME IInv, [Next]_vars PROVE [ON!Next]_Reached
    OBVIOUS
  <2>1. ASSUME NEW k \in Node, Insert(k) PROVE ON!Add(k)
    BY <2>1, InsertStep DEF ON!Add
  <2>2. ASSUME NEW m \in Node, Delete(m) PROVE ON!Remove(m)
    BY <2>2, DeleteStep DEF ON!Remove
  <2>3. CASE Rebalance
    BY <2>3, RebalanceStep
  <2>4. CASE UNCHANGED vars
    BY <2>4, StutterStep
  <2> QED
    BY <2>1, <2>2, <2>3, <2>4 DEF Next, ON!Next
<1> QED
  BY <1>1, <1>2, Invariance, PTL DEF Spec, Refinement, ON!Spec

-----------------------------------------------------------------------------
(* The way to the root *)

\* d is the length of every node's way to the root, as ToRoot has it.
IsWay(h, d) == d = [k \in Pointer |-> IF k = Nil THEN 0 ELSE 1 + d[h.parent[k]]]

\* No two nodes lead to each other.
LEMMA OneAbove ==
  ASSUME NEW ord, IsOrder(ord), NEW lf, NEW rt, NEW f, IsTree(lf, rt, f, ord),
         NEW x \in Node, NEW y \in Node, x \in f[y], y \in f[x]
  PROVE  x = y
<1> SUFFICES ASSUME x # y PROVE FALSE
  OBVIOUS
<1>1. /\ lf[x] \in Pointer /\ rt[x] \in Pointer /\ f[x] = {x} \cup f[lf[x]] \cup f[rt[x]]
      /\ x \notin f[lf[x]] /\ x \notin f[rt[x]]
  BY TreeFacts
<1>2. PICK c \in {lf[x], rt[x]} : y \in f[c]
  BY <1>1
<1>3. c \in Node
  BY <1>1, <1>2 DEF Pointer, IsTree
<1>4. f[y] \subseteq f[c]
  BY <1>2, <1>3, Transitive
<1> QED
  BY <1>1, <1>2, <1>4

\* The nodes of the tree that lead to m are m itself and those that lead to its parent.
LEMMA Ancestors ==
  ASSUME NEW h, NEW f, Sound(h, f), NEW m \in f[h.root]
  PROVE  LET p == h.parent[m]
             above(x) == {y \in f[h.root] : x \in f[y]}
         IN above(m) = above(p) \cup {m} /\ m \notin above(p)
<1> DEFINE L == f[h.root]
           p == h.parent[m]
<1>1. /\ h \in Heap /\ Trees(h, f, Greater) /\ Linked(h, L) /\ L \in SUBSET Node
      /\ IsTree(h.left, h.right, f, Greater) /\ h.root \in Pointer /\ f[Nil] = {} /\ IsOrder(Greater)
  BY SoundFacts, GreaterIsOrder
<1>2. h.root \in Node /\ m \in Node /\ \A y \in Node : f[y] \in SUBSET Node
  BY <1>1 DEF Pointer, IsTree
<1>3. \A y \in L : f[y] \subseteq L /\ y \in f[y]
  <2>1. ASSUME NEW y \in L PROVE f[y] \subseteq L /\ y \in f[y]
    BY <1>1, <1>2, Transitive, TreeFacts
  <2> QED
    BY <2>1
<1>4. CASE m = h.root
  <2>1. p = Nil
    BY <1>1, <1>4, ParentInside
  <2>2. ASSUME NEW y \in L, m \in f[y] PROVE y = m
    <3>1. y \in f[m] /\ y \in Node
      BY <1>1, <1>4
    <3> QED
      BY <1>1, <1>2, <2>2, <3>1, OneAbove
  <2>3. \A y \in L : p \notin f[y]
    BY <1>1, <1>2, <2>1, NodeFacts
  <2> QED
    BY <1>3, <2>2, <2>3
<1>5. CASE m # h.root
  <2>1. p \in L /\ p \in Node /\ m \in {h.left[p], h.right[p]}
    BY <1>1, <1>5, ParentInside
  <2>2. m \in f[p] /\ m # p
    <3>1. /\ f[p] = {p} \cup f[h.left[p]] \cup f[h.right[p]]
          /\ h.left[p] # p /\ h.right[p] # p
      BY <1>1, <2>1, TreeFacts
    <3> QED
      BY <1>3, <2>1, <3>1
  <2>3. ASSUME NEW y \in L, m \in f[y], y # m PROVE p \in f[y]
    <3>1. PICK q \in f[y] : m \in {h.left[q], h.right[q]}
      BY <1>1, <2>3, Holder
    <3>2. q \in L
      BY <1>3, <3>1
    <3>3. h.parent[m] = q
      BY <1>1, <1>2, <3>1, <3>2, NodeFacts DEF Linked
    <3> QED
      BY <3>1, <3>3
  <2>4. ASSUME NEW y \in L, p \in f[y] PROVE m \in f[y]
    <3>1. f[p] \subseteq f[y]
      BY <1>1, <2>1, <2>4, Transitive
    <3> QED
      BY <2>2, <3>1
  <2>5. p \notin f[m]
    BY <1>1, <1>2, <2>1, <2>2, OneAbove
  <2> HIDE DEF p, L
  <2> QED
    BY <1>3, <2>3, <2>4, <2>5 DEF p, L
<1> QED
  BY <1>4, <1>5

\* From every node there is a way to the root.
LEMMA WayExists ==
  ASSUME NEW h, NEW a, NEW f, Holds(h, a, f)
  PROVE  \E d : IsWay(h, d)
<1> DEFINE L == f[h.root]
           above(x) == {y \in L : x \in f[y]}
           C == [x \in Pointer |-> Cardinality(above(x))]
           d == [k \in Pointer |-> IF k \in L \cup {Nil} THEN C[k] ELSE 1 + C[h.parent[k]]]
<1>1. /\ Sound(h, f) /\ h \in Heap /\ L \in SUBSET Node /\ f[h.root] \in SUBSET Node
      /\ \A y \in Node : f[y] \in SUBSET Node
  BY SoundFacts DEF Holds, IsTree
<1>2. \A x \in Pointer : IsFiniteSet(above(x)) /\ Cardinality(above(x)) \in Nat
  <2>1. IsFiniteSet(L)
    <3>1. IsFiniteSet(Node)
      BY FS_Interval, MaxKeyAssumption DEF Node
    <3> HIDE DEF L
    <3> QED
      BY <1>1, <3>1, FS_Subset
  <2>2. ASSUME NEW x \in Pointer PROVE IsFiniteSet(above(x)) /\ Cardinality(above(x)) \in Nat
    <3>1. above(x) \in SUBSET L
      OBVIOUS
    <3> HIDE DEF above, L
    <3> QED
      BY <2>1, <3>1, FS_Subset, FS_CardinalityType
  <2> QED
    BY <2>2
<1>3. C[Nil] = 0
  <2>1. above(Nil) = {}
    BY <1>1, NodeFacts
  <2> QED
    BY <2>1, FS_EmptySet, NodeFacts
<1>4. ASSUME NEW k \in Node PROVE h.parent[k] \in L \cup {Nil} /\ h.parent[k] \in Pointer
  <2>1. CASE k \in L
    BY <1>1, <2>1, SoundFacts, ParentInside, GreaterIsOrder, NodeFacts DEF Pointer
  <2>2. CASE k \notin L
    BY <1>1, <2>2, NodeFacts DEF Holds, OutsideOK, Pointer
  <2> QED
    BY <2>1, <2>2
<1>5. ASSUME NEW k \in L PROVE C[k] = 1 + C[h.parent[k]]
  <2> DEFINE p == h.parent[k]
  <2>1. above(k) = above(p) \cup {k} /\ k \notin above(p)
    BY <1>1, Ancestors
  <2>2. k \in Pointer /\ p \in Pointer
    BY <1>1, <1>4, NodeFacts
  <2> HIDE DEF p
  <2>3. IsFiniteSet(above(p)) /\ Cardinality(above(p)) \in Nat
    BY <1>2, <2>2
  <2> DEFINE S == above(p)
  <2>4. above(k) = S \cup {k} /\ k \notin S /\ IsFiniteSet(S) /\ Cardinality(S) \in Nat
    BY <2>1, <2>3
  <2> HIDE DEF S, above
  <2>5. Cardinality(above(k)) = Cardinality(S) + 1
    BY <2>4, FS_AddElement
  <2>6. C[k] = Cardinality(above(k)) /\ C[p] = Cardinality(S)
    BY <2>2 DEF S
  <2> QED
    BY <2>4, <2>5, <2>6 DEF p
<1> HIDE DEF C, L
<1>6. ASSUME NEW k \in Pointer PROVE d[k] = IF k = Nil THEN 0 ELSE 1 + d[h.parent[k]]
  <2>1. CASE k = Nil
    BY <1>3, <2>1
  <2>2. CASE k # Nil
    <3>1. k \in Node /\ h.parent[k] \in L \cup {Nil} /\ h.parent[k] \in Pointer
      BY <1>4, <2>2 DEF Pointer
    <3>2. d[k] = 1 + C[h.parent[k]]
      BY <1>5, <2>2, <3>1
    <3> QED
      BY <2>2, <3>1, <3>2
  <2> QED
    BY <2>1, <2>2
<1>7. d = [k \in Pointer |-> IF k = Nil THEN 0 ELSE 1 + d[h.parent[k]]]
  <2>1. d = [k \in Pointer |-> d[k]]
    OBVIOUS
  <2> HIDE DEF d
  <2> QED
    BY <1>6, <2>1
<1> QED
  BY <1>7 DEF IsWay

\* A way's length is a number, one more than that of the parent's way.
LEMMA WayFacts ==
  ASSUME NEW h, NEW f, Sound(h, f), NEW d, IsWay(h, d)
  PROVE  /\ d[Nil] = 0
         /\ \A k \in Node : d[k] = 1 + d[h.parent[k]]
         /\ \A k \in f[h.root] \cup {Nil} : d[k] \in Nat
<1> DEFINE L == f[h.root]
<1>1. d[Nil] = 0 /\ \A k \in Node : d[k] = 1 + d[h.parent[k]]
  <2> DEFINE e(k) == IF k = Nil THEN 0 ELSE 1 + d[h.parent[k]]
  <2>1. d = [k \in Pointer |-> e(k)]
    BY DEF IsWay
  <2>2. \A k \in Pointer : d[k] = e(k)
    <3> HIDE DEF e
    <3> QED
      BY <2>1
  <2> HIDE DEF IsWay
  <2> QED
    BY <2>2, NodeFacts
<1>2. /\ h \in Heap /\ Trees(h, f, Greater) /\ Linked(h, L) /\ L \in SUBSET Node
      /\ IsTree(h.left, h.right, f, Greater)
      /\ h.root # Nil => ParentsIn(h.left, h.right, h.parent, L, h.root)
      /\ f[Nil] = {}
  BY SoundFacts
<1> DEFINE S == {k \in L : d[k] \notin Nat}
<1>3. S \in SUBSET L /\ \A k \in L : k \in S <=> d[k] \notin Nat
  OBVIOUS
<1> HIDE DEF S
<1>4. ASSUME S # {} PROVE FALSE
  <2>1. h.root # Nil
    BY <1>2, <1>3, <1>4
  <2>2. PICK k \in S : h.parent[k] \notin S
    <3> HIDE DEF L
    <3> QED
      BY <1>2, <1>3, <1>4, <2>1, HighestNode, GreaterIsOrder
  <2>3. h.parent[k] \in L \cup {Nil} /\ k \in Node
    BY <1>2, <1>3, ParentInside, GreaterIsOrder
  <2>4. d[h.parent[k]] \in Nat
    BY <1>1, <1>3, <2>2, <2>3
  <2> QED
    BY <1>1, <1>3, <2>2, <2>3, <2>4
<1> HIDE DEF L
<1>5. \A k \in L \cup {Nil} : d[k] \in Nat
  BY <1>1, <1>3, <1>4
<1> QED
  BY <1>1, <1>5 DEF L

\* Of two heaps with the same parents of the nodes of X, and with X all the way to the
\* root, the ways from X are as long.
LEMMA SameWays ==
  ASSUME NEW h, NEW f, Sound(h, f), NEW d, IsWay(h, d), NEW h2, NEW f2, Sound(h2, f2),
         NEW d2, IsWay(h2, d2), NEW X \in SUBSET f[h.root],
         \A x \in X : h.parent[x] \in X \cup {Nil} /\ h2.parent[x] = h.parent[x]
  PROVE  \A x \in X \cup {Nil} : d2[x] = d[x]
<1>1. /\ IsTree(h.left, h.right, f, Greater) /\ f[h.root] \in SUBSET Node /\ f[Nil] = {}
      /\ h.root # Nil => ParentsIn(h.left, h.right, h.parent, f[h.root], h.root)
  BY SoundFacts
<1>2. d[Nil] = 0 /\ \A k \in Node : d[k] = 1 + d[h.parent[k]]
  BY WayFacts
<1>3. d2[Nil] = 0 /\ \A k \in Node : d2[k] = 1 + d2[h2.parent[k]]
  BY WayFacts
<1> DEFINE S == {x \in X : d2[x] # d[x]}
<1>4. S \in SUBSET X /\ S \in SUBSET f[h.root] /\ \A x \in X : x \in S <=> d2[x] # d[x]
  OBVIOUS
<1> HIDE DEF S
<1>5. ASSUME S # {} PROVE FALSE
  <2>1. h.root # Nil
    BY <1>1, <1>4, <1>5
  <2>2. PICK x \in S : h.parent[x] \notin S
    BY <1>1, <1>4, <1>5, <2>1, HighestNode, GreaterIsOrder
  <2>3. x \in X /\ x \in Node /\ h.parent[x] \in X \cup {Nil} /\ h2.parent[x] = h.parent[x]
    BY <1>1, <1>4, <2>2
  <2>4. d2[h.parent[x]] = d[h.parent[x]]
    BY <1>2, <1>3, <1>4, <2>2, <2>3
  <2>5. d2[x] = 1 + d2[h.parent[x]] /\ d[x] = 1 + d[h.parent[x]]
    BY <1>2, <1>3, <2>3
  <2> QED
    BY <1>4, <2>2, <2>4, <2>5
<1> QED
  BY <1>2, <1>3, <1>4, <1>5

\* A step of the walk brings it nearer to the root, or it turns where it stands, and then
\* the next one will not.
LEMMA ClimbedWays ==
  ASSUME NEW h, NEW a \in Node, NEW f, Holds(h, a, f), NEW d, IsWay(h, d),
         NEW h2, NEW a2, NEW f2, Holds(h2, a2, f2), NEW d2, IsWay(h2, d2),
         Climbed(h, a, f, h2, a2)
  PROVE  \/ d2[a2] < d[a]
         \/ /\ d2[a2] = d[a] /\ Balance(UpdateHeight(h, a), a) \notin -1..1
            /\ Balance(UpdateHeight(h2, a2), a2) \in -1..1
<1> DEFINE L == f[h.root]
           p == h.parent[a]
<1>1. /\ Sound(h, f) /\ Sound(h2, f2) /\ h \in Heap /\ h2 \in Heap /\ L \in SUBSET Node
      /\ Trees(h, f, Greater) /\ IsTree(h.left, h.right, f, Greater) /\ Linked(h, L)
  BY SoundFacts DEF Holds
<1>2. p \in L \cup {Nil}
  BY WhereWrong
<1>3. /\ d[a] = 1 + d[p] /\ d[p] \in Nat
      /\ \A k \in Node : d2[k] = 1 + d2[h2.parent[k]]
  BY <1>1, <1>2, WayFacts
<1>4. \A x \in L : h.parent[x] \in L \cup {Nil}
  BY <1>1, ParentInside, GreaterIsOrder
<1>5. CASE a2 = p /\ \A x \in L : h2.parent[x] = h.parent[x]
  <2>1. \A x \in L \cup {Nil} : d2[x] = d[x]
    <3>1. \A x \in L : h.parent[x] \in L \cup {Nil} /\ h2.parent[x] = h.parent[x]
      BY <1>4, <1>5
    <3>2. L \in SUBSET f[h.root]
      OBVIOUS
    <3> HIDE DEF p
    <3> QED
      BY <1>1, <3>1, <3>2, SameWays
  <2>2. d2[a2] = d[p]
    BY <1>2, <1>5, <2>1
  <2> HIDE DEF p
  <2> QED
    BY <1>3, <2>2
<1>6. CASE /\ a \in L /\ Balance(UpdateHeight(h, a), a) \notin -1..1
           /\ a2 \in L /\ h2.parent[a2] = p /\ Good(h2, a2)
           /\ \A x \in L \ f[a] : h2.parent[x] = h.parent[x]
  <2> DEFINE X == L \ f[a]
  <2>1. ASSUME NEW x \in L, x # Nil, h.parent[x] \in f[a], x \notin f[a] PROVE FALSE
    <3>1. h.parent[x] # Nil
      BY <1>1, <2>1, NodeFacts DEF IsTree
    <3>2. h.parent[x] \in Node /\ x \in {h.left[h.parent[x]], h.right[h.parent[x]]}
      BY <1>1, <2>1, <3>1, ParentInside, GreaterIsOrder
    <3>3. x \in f[h.parent[x]]
      BY <1>1, <2>1, <3>2, TreeFacts, GreaterIsOrder
    <3>4. f[h.parent[x]] \subseteq f[a]
      BY <1>1, <2>1, Transitive, GreaterIsOrder
    <3> QED
      BY <2>1, <3>3, <3>4
  <2>2. \A x \in X : h.parent[x] \in X \cup {Nil} /\ h2.parent[x] = h.parent[x]
    BY <1>1, <1>4, <1>6, <2>1, NodeFacts
  <2>3. X \in SUBSET f[h.root]
    OBVIOUS
  <2>4. \A x \in X \cup {Nil} : d2[x] = d[x]
    <3> HIDE DEF X, p
    <3> QED
      BY <1>1, <2>2, <2>3, SameWays
  <2>5. p \in X \cup {Nil}
    <3>1. CASE p = Nil
      BY <3>1
    <3>2. CASE p # Nil
      <4>1. p \in L /\ p \in Node /\ a \in {h.left[p], h.right[p]}
        BY <1>1, <1>2, <1>6, <3>2, ParentInside, GreaterIsOrder
      <4>2. a \in f[p] /\ a # p
        BY <1>1, <4>1, TreeFacts, GreaterIsOrder
      <4>3. p \notin f[a]
        BY <1>1, <4>1, <4>2, OneAbove, GreaterIsOrder
      <4> QED
        BY <4>1, <4>3
    <3> QED
      BY <3>1, <3>2
  <2>6. d2[p] = d[p]
    BY <2>4, <2>5
  <2>7. a2 \in Node /\ d2[a2] = 1 + d[p]
    BY <1>1, <1>3, <1>6, <2>6
  <2>8. Balance(UpdateHeight(h2, a2), a2) \in -1..1
    <3>1. UpdateHeight(h2, a2) = h2 /\ Balance(h2, a2) \in -1..1
      BY <1>1, <1>6, <2>7, GoodRests
    <3> QED
      BY <3>1
  <2> HIDE DEF p
  <2> QED
    BY <1>3, <1>6, <2>7, <2>8
<1> QED
  BY <1>5, <1>6 DEF Climbed

\* rebalance's walk ends: each step gets nearer to the root, or it rotates, stays as
\* near, and the next step does not rotate (avl.go:147-164).
THEOREM AlwaysWalkClimbs == Spec => WalkClimbs
<1> DEFINE Way(h) == CHOOSE d : IsWay(h, d)
<1>1. /\ ToRoot(at) = Way(t)[at]
      /\ ToRoot(at)' = Way(t')[at']
  BY DEF ToRoot, IsWay
<1> DEFINE Climb == at # Nil => \/ ToRoot(at)' < ToRoot(at)
                                \/ ToRoot(at)' = ToRoot(at) /\ MustRotate /\ ~ MustRotate'
<1>2. ASSUME NEW h, NEW a, NEW f, Holds(h, a, f) PROVE IsWay(h, Way(h))
  BY <1>2, WayExists
<1>3. IInv /\ [Next]_vars => [Climb]_vars
  <2> SUFFICES ASSUME IInv, [Next]_vars, at # Nil, ~ UNCHANGED vars PROVE Climb
    OBVIOUS
  <2>1. Rebalance
    BY DEF Next, Insert, Delete
  <2>2. at \in Node /\ Climbed(t, at, Subtrees(t), t', at')
    BY <2>1, RebalanceStep
  <2>3. PICK f2 : Holds(t', at', f2)
    BY <2>1, RebalanceStep
  <2>4. /\ Holds(t, at, Subtrees(t))
        /\ IsWay(t, Way(t)) /\ IsWay(t', Way(t'))
    BY <1>2, <2>3, IInvHolds
  <2> DEFINE d == Way(t)
             d2 == Way(t')
  <2> HIDE DEF Way
  <2>5. \/ d2[at'] < d[at]
        \/ /\ d2[at'] = d[at] /\ Balance(UpdateHeight(t, at), at) \notin -1..1
           /\ Balance(UpdateHeight(t', at'), at') \in -1..1
    BY <2>2, <2>3, <2>4, ClimbedWays
  <2>6. /\ MustRotate <=> Balance(UpdateHeight(t, at), at) \notin -1..1
        /\ Balance(UpdateHeight(t', at'), at') \in -1..1 => ~ MustRotate'
    BY DEF MustRotate
  <2> QED
    BY <1>1, <2>5, <2>6
<1> QED
  BY <1>3, Invariance, PTL DEF Spec, WalkClimbs

=============================================================================
