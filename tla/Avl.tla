-------------------------------- MODULE Avl ---------------------------------
(***************************************************************************)
(* internal/imap's avlTree at the level of its pointers.  Insert links a   *)
(* new leaf and Delete unlinks a node; each then walks up to the root one  *)
(* node per step, fixing heights and rotating.                             *)
(*                                                                         *)
(* avl.go never assigns a key after it has allocated the node, so a node   *)
(* is named by its key and key order is the order of numbers.  (Imap does  *)
(* assign keys, without changing their order: see Imap!OrderStable.)       *)
(***************************************************************************)
EXTENDS Integers, Sequences, FiniteSetsExt

CONSTANT MaxKey   \* keys are 1..MaxKey

ASSUME MaxKeyAssumption == MaxKey \in Nat

Node == 1..MaxKey
Nil == 0
Pointer == Node \cup {Nil}

VARIABLES
  t,    \* the root and, for every node, its left, right, parent, heightCache
  at    \* rebalance's loop variable; Nil between calls

vars == <<t, at>>

-----------------------------------------------------------------------------
(* Slots: the **avlNode of the code, the address of a root or child pointer *)

Root == [of |-> Nil, side |-> "root"]
Left(m) == [of |-> m, side |-> "left"]
Right(m) == [of |-> m, side |-> "right"]
Slots == {Root} \cup {Left(m) : m \in Node} \cup {Right(m) : m \in Node}

Get(h, s) ==
  CASE s.side = "root"  -> h.root
    [] s.side = "left"  -> h.left[s.of]
    [] s.side = "right" -> h.right[s.of]

Put(h, s, m) ==
  CASE s.side = "root"  -> [h EXCEPT !.root = m]
    [] s.side = "left"  -> [h EXCEPT !.left[s.of] = m]
    [] s.side = "right" -> [h EXCEPT !.right[s.of] = m]

SetParent(h, m, p) == IF m = Nil THEN h ELSE [h EXCEPT !.parent[m] = p]

\* The slot that holds m.
NodeP(h, m) ==
  LET p == h.parent[m]
  IN IF p = Nil THEN Root ELSE IF h.left[p] = m THEN Left(p) ELSE Right(p)

-----------------------------------------------------------------------------
(* Heights and rotations *)

Height(h, m) == IF m = Nil THEN 0 ELSE h.height[m]

\* Mutant: only the left child counts.
UpdateHeightLeft(h, m) == [h EXCEPT !.height[m] = 1 + Height(h, h.left[m])]

UpdateHeight(h, m) ==
  [h EXCEPT !.height[m] = 1 + Max({Height(h, h.left[m]), Height(h, h.right[m])})]

Balance(h, m) == Height(h, h.left[m]) - Height(h, h.right[m])

\* Mutant: the subtree that changes sides keeps its old parent pointer.
RotateLeftStaleParent(h, np) ==
  LET m == Get(h, np)
      mr == h.right[m]
      linked == [h EXCEPT !.parent[m] = mr, !.right[m] = h.left[mr],
                          !.parent[mr] = h.parent[m], !.left[mr] = m]
  IN Put(UpdateHeight(UpdateHeight(linked, m), mr), np, mr)

RotateLeft(h, np) ==
  LET m == Get(h, np)
      mr == h.right[m]
      mrl == h.left[mr]
      linked == [h EXCEPT !.parent[m] = mr, !.right[m] = mrl,
                          !.parent[mr] = h.parent[m], !.left[mr] = m]
      moved == SetParent(linked, mrl, m)
  IN Put(UpdateHeight(UpdateHeight(moved, m), mr), np, mr)

\* Mutant: the middle subtree is dropped.
RotateRightDrops(h, np) ==
  LET m == Get(h, np)
      ml == h.left[m]
      linked == [h EXCEPT !.parent[m] = ml, !.left[m] = Nil,
                          !.parent[ml] = h.parent[m], !.right[ml] = m]
  IN Put(UpdateHeight(UpdateHeight(linked, m), ml), np, ml)

RotateRight(h, np) ==
  LET m == Get(h, np)
      ml == h.left[m]
      mlr == h.right[ml]
      linked == [h EXCEPT !.parent[m] = ml, !.left[m] = mlr,
                          !.parent[ml] = h.parent[m], !.right[ml] = m]
      moved == SetParent(linked, mlr, m)
  IN Put(UpdateHeight(UpdateHeight(moved, m), ml), np, ml)

\* Mutant: a single rotation where a double one is needed.
RebalanceSingle(h0, m) ==
  LET h == UpdateHeight(h0, m)
      b == Balance(h, m)
  IN IF b > 1 THEN RotateRight(h, NodeP(h, m))
     ELSE IF b < -1 THEN RotateLeft(h, NodeP(h, m))
     ELSE h

\* Mutant: the tree may be two out of balance.
RebalanceLate(h0, m) ==
  LET h == UpdateHeight(h0, m)
      b == Balance(h, m)
      leftIn == IF Balance(h, h.left[m]) < 0 THEN RotateLeft(h, Left(m)) ELSE h
      rightIn == IF Balance(h, h.right[m]) > 0 THEN RotateRight(h, Right(m)) ELSE h
  IN IF b > 2 THEN RotateRight(leftIn, NodeP(leftIn, m))
     ELSE IF b < -2 THEN RotateLeft(rightIn, NodeP(rightIn, m))
     ELSE h

\* One iteration of rebalance: m's height, then a single or double rotation.
RebalanceAt(h0, m) ==
  LET h == UpdateHeight(h0, m)
      b == Balance(h, m)
      leftIn == IF Balance(h, h.left[m]) < 0 THEN RotateLeft(h, Left(m)) ELSE h
      rightIn == IF Balance(h, h.right[m]) > 0 THEN RotateRight(h, Right(m)) ELSE h
  IN IF b > 1 THEN RotateRight(leftIn, NodeP(leftIn, m))
     ELSE IF b < -1 THEN RotateLeft(rightIn, NodeP(rightIn, m))
     ELSE h

-----------------------------------------------------------------------------
(* Reading the tree *)

\* The slot where the search for key k ends: the one that holds it, or the
\* empty one where it belongs.
Descend(k) ==
  LET land[s \in Slots] ==
        LET m == Get(t, s)
        IN IF m = Nil \/ m = k THEN s
           ELSE IF k < m THEN land[Left(m)] ELSE land[Right(m)]
  IN land[Root]

\* Search with the predicate "m is in P".
Search(P) ==
  LET from[p \in Pointer \X Pointer] ==   \* a node and the best so far
        IF p[1] = Nil THEN p[2]
        ELSE IF p[1] \in P THEN from[<<t.left[p[1]], p[1]>>] ELSE from[<<t.right[p[1]], p[2]>>]
  IN from[<<t.root, Nil>>]

\* Mutant: one step to the left and no further.
LeftmostOneStep(m) == IF t.left[m] = Nil THEN m ELSE t.left[m]

Leftmost(m) ==
  LET down[k \in Node] == IF t.left[k] = Nil THEN k ELSE down[t.left[k]]
  IN down[m]

Rightmost(m) ==
  LET down[k \in Node] == IF t.right[k] = Nil THEN k ELSE down[t.right[k]]
  IN down[m]

\* avlNode.Next and avlNode.Prev
NextNode(m) ==
  LET up[k \in Node] ==
        LET p == t.parent[k]
        IN IF p # Nil /\ t.right[p] = k THEN up[p] ELSE p
  IN IF t.right[m] = Nil THEN up[m] ELSE Leftmost(t.right[m])

PrevNode(m) ==
  LET up[k \in Node] ==
        LET p == t.parent[k]
        IN IF p # Nil /\ t.left[p] = k THEN up[p] ELSE p
  IN IF t.left[m] = Nil THEN up[m] ELSE Rightmost(t.left[m])

-----------------------------------------------------------------------------
(* Delete's two parts *)

\* m has two children: exchange its place with that of its successor.  The
\* result is the heap and the slot that holds m now.
Transpose(h, m, mp) ==
  LET succ == Leftmost(h.right[m])
      succP == NodeP(h, succ)
      out == Put(h, mp, succ)
      \* when succ is m's right child, two of the links are the same one
      swapped == IF succ = h.right[m]
                 THEN [out EXCEPT !.right[succ] = m]
                 ELSE Put([out EXCEPT !.right[succ] = h.right[m],
                                      !.parent[m] = h.parent[succ]], succP, m)
      linked == [swapped EXCEPT !.left[m] = Nil, !.right[m] = h.right[succ],
                                !.left[succ] = h.left[m],
                                !.parent[succ] = h.parent[m],
                                !.height[m] = h.height[succ],
                                !.height[succ] = h.height[m]]
      p1 == SetParent(linked, linked.left[succ], succ)
      p2 == SetParent(p1, p1.right[succ], succ)
  IN [heap |-> SetParent(p2, p2.right[m], m),
      slot |-> IF succ = h.right[m] THEN Right(succ) ELSE succP]

\* m, held by slot mp, has at most one child: put that child in its place.
Unlink(h, m, mp) ==
  LET child == IF h.left[m] = Nil THEN h.right[m] ELSE h.left[m]
  IN SetParent(Put(h, mp, child), child, h.parent[m])

\* m is no longer in the tree: no slot holds it.
Detached(m) == Get(t, NodeP(t, m)) # m

Clear(h, m) ==
  [h EXCEPT !.left[m] = Nil, !.right[m] = Nil, !.parent[m] = Nil, !.height[m] = 0]

-----------------------------------------------------------------------------
Init ==
  /\ t = [root |-> Nil,
          left |-> [m \in Node |-> Nil], right |-> [m \in Node |-> Nil],
          parent |-> [m \in Node |-> Nil], height |-> [m \in Node |-> 0]]
  /\ at = Nil

\* Insert of a key the tree lacks (of one it has, Insert returns its node):
\* link a new leaf and start to rebalance at its parent.
Insert(k) ==
  /\ at = Nil
  /\ LET s == Descend(k)
     IN /\ Get(t, s) = Nil
        /\ t' = [Put(t, s, k) EXCEPT !.parent[k] = s.of, !.height[k] = 1]
        /\ at' = s.of

\* Delete m: unlink it and start to rebalance at m itself, whose pointers
\* still lead into the tree.
Delete(m) ==
  /\ at = Nil
  /\ Get(t, Descend(m)) = m
  /\ LET mp == NodeP(t, m)
         two == t.left[m] # Nil /\ t.right[m] # Nil
         out == IF two THEN Transpose(t, m, mp) ELSE [heap |-> t, slot |-> mp]
     IN t' = Unlink(out.heap, m, out.slot)
  /\ at' = m

\* Mutant: the walk ends with the first rotation, which is enough for an
\* Insert.
RebalanceOnce ==
  /\ at # Nil
  /\ LET h == RebalanceAt(t, at)
     IN /\ t' = IF Detached(at) THEN Clear(h, at) ELSE h
        /\ at' = IF h.root = t.root /\ h.parent = t.parent THEN h.parent[at] ELSE Nil

\* One iteration of rebalance's loop.  A deleted node is garbage once the
\* walk has left it.
Rebalance ==
  /\ at # Nil
  /\ LET h == RebalanceAt(t, at)
     IN /\ t' = IF Detached(at) THEN Clear(h, at) ELSE h
        /\ at' = h.parent[at]

Next == (\E k \in Node : Insert(k) \/ Delete(k)) \/ Rebalance

Spec == Init /\ [][Next]_vars

-----------------------------------------------------------------------------
(* Properties *)

\* The nodes that each node leads to, and those that the root does.
Subtrees(h) ==
  LET subtree[m \in Pointer] ==
        IF m = Nil THEN {} ELSE {m} \cup subtree[h.left[m]] \cup subtree[h.right[m]]
  IN subtree
Reached == Subtrees(t)[t.root]

ON == INSTANCE OrderedNodes WITH nodes <- Reached

\* Insert adds its node and no other, Delete takes away the very node it was
\* given, though it moves another into its place (avl.go:47-51), and no
\* rotation loses or gains a node.
Refinement == ON!Spec

TypeOK ==
  /\ t \in [root : Pointer, left : [Node -> Pointer], right : [Node -> Pointer],
            parent : [Node -> Pointer], height : [Node -> 0..MaxKey]]
  /\ at \in Pointer

\* Every variable has its type, and parent pointers and child pointers agree, at
\* every step of a call: each node is held by exactly the slot nodeP computes for
\* it (avl.go:166-174).
WellFormed ==
  /\ TypeOK
  /\ t.root # Nil => t.parent[t.root] = Nil
  /\ \A m \in Reached :
       /\ t.left[m] # Nil => t.parent[t.left[m]] = m
       /\ t.right[m] # Nil => t.parent[t.right[m]] = m
       /\ t.left[m] # Nil => t.left[m] # t.right[m]

Least(S) == IF S = {} THEN Nil ELSE Min(S)
Greatest(S) == IF S = {} THEN Nil ELSE Max(S)

\* Next and Prev, which climb the parent pointers, visit the keys in order,
\* and Search and the descent for a key find the right node; at every step,
\* so rotations and the transposition keep the order.
Ordered ==
  LET live == Reached
  IN /\ \A m \in live :
          /\ NextNode(m) = Least({k \in live : k > m})
          /\ PrevNode(m) = Greatest({k \in live : k < m})
     /\ \A k \in Node :
          /\ Search({m \in Node : m >= k}) = Least({m \in live : m >= k})
          /\ Get(t, Descend(k)) = (IF k \in live THEN k ELSE Nil)

\* When a call has returned, cached heights are the true heights and no node's
\* subtrees differ by more than one.
Balanced ==
  at = Nil => \A m \in Reached :
    /\ t.height[m] = 1 + Max({Height(t, t.left[m]), Height(t, t.right[m])})
    /\ Balance(t, m) \in -1..1

\* Delete starts to rebalance at the node it removed.  That node is never
\* rotated: a rotation would link it back into the tree (avl.go:94).
DetachedNotRotated ==
  at # Nil /\ Detached(at) => Balance(t, at) \in -1..1

\* rebalance never finds a node more than two out of balance, so one rotation
\* is enough, and the children it rotates exist (avl.go:152-161).
RotatesOnce ==
  at # Nil =>
    LET h == UpdateHeight(t, at)
        b == Balance(h, at)
    IN /\ b \in -2..2
       /\ b = 2 /\ Balance(h, h.left[at]) < 0 => h.right[h.left[at]] # Nil
       /\ b = -2 /\ Balance(h, h.right[at]) > 0 => h.left[h.right[at]] # Nil
       /\ Balance(RebalanceAt(t, at), at) \in -1..1

\* The length of m's way to the root, and whether rebalance rotates at `at'.
ToRoot(m) ==
  LET up[k \in Pointer] == IF k = Nil THEN 0 ELSE 1 + up[t.parent[k]]
  IN up[m]
MustRotate == at # Nil /\ Balance(UpdateHeight(t, at), at) \notin -1..1

\* Rebalance's walk ends, though a rotation pushes the node it stands on down:
\* each step gets nearer to the root, or it rotates, stays as near, and stands
\* on a node that it will not rotate (avl.go:147-164).
WalkClimbs ==
  [][at # Nil => \/ ToRoot(at)' < ToRoot(at)
                 \/ ToRoot(at)' = ToRoot(at) /\ MustRotate /\ ~ MustRotate']_vars

-----------------------------------------------------------------------------
(* The inductive invariant, for the proofs: of a heap h, of what its nodes lead *)
(* to, f, of the nodes of the tree, L, and of the walk's place, a.             *)

\* Left of every node is what is smaller, right of it what is greater; so no node
\* leads to itself.
SearchTree(h, f) ==
  /\ f = [m \in Pointer |-> IF m = Nil THEN {} ELSE {m} \cup f[h.left[m]] \cup f[h.right[m]]]
  /\ \A m \in Node : /\ f[h.left[m]] \subseteq 1..(m - 1)
                     /\ f[h.right[m]] \subseteq (m + 1)..MaxKey

\* Nodes outside of the tree are as new, but for the one that Delete has just
\* removed: it has at most one child, and its parent is in the tree.
OutsideOK(h, a, L) ==
  \A m \in Node \ L :
    IF m = a
    THEN h.parent[m] \in L \cup {Nil} /\ (h.left[m] = Nil \/ h.right[m] = Nil)
    ELSE h.left[m] = Nil /\ h.right[m] = Nil /\ h.parent[m] = Nil /\ h.height[m] = 0

\* The cached height of m is right for those of its children, which differ by at
\* most one; or it was before one of them changed by one.
Good(h, m) ==
  /\ h.height[m] = 1 + Max({Height(h, h.left[m]), Height(h, h.right[m])})
  /\ Balance(h, m) \in -1..1
WasGood(h, m) ==
  \E dl, dr \in -1..1 :
    LET l == Height(h, h.left[m]) + dl
        r == Height(h, h.right[m]) + dr
    IN /\ dl = 0 \/ dr = 0
       /\ h.height[m] = 1 + Max({l, r}) /\ l - r \in -1..1

\* At most one node's height is wrong: the one the walk stands on or, after a
\* rotation or a Delete, its parent.
HeightsOK(h, a, L) ==
  \E e \in {a} \cup (IF a = Nil THEN {} ELSE {h.parent[a]}) :
    /\ \A m \in L \cup ({a} \ {Nil}) : m = e \/ Good(h, m)
    /\ e # Nil => e \in L /\ WasGood(h, e)

\* Heights are no more than the number of nodes; a height may be one too great
\* after a Delete, which has left room.
HeightsFit(h, a, f) ==
  \E d \in 0..1 :
    /\ a = Nil => d = 0
    /\ Cardinality(f[h.root]) + d <= MaxKey
    /\ \A m \in Node : h.height[m] <= Cardinality(f[m]) + d

IInv ==
  LET f == Subtrees(t)
  IN /\ WellFormed
     /\ SearchTree(t, f)
     /\ OutsideOK(t, at, Reached)
     /\ HeightsOK(t, at, Reached)
     /\ HeightsFit(t, at, f)
=============================================================================
