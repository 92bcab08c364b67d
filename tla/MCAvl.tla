-------------------------------- MODULE MCAvl --------------------------------
(***************************************************************************)
(* Avl from two starting points.  From the empty tree, calls use the keys  *)
(* 1..SmallKeys.  From the sparsest tree of height five, the smallest in   *)
(* which one Delete rotates at two nodes of its walk, calls keep at least  *)
(* MinNodes nodes; it is the tree that Inserts of 8, 5, 11, 3, 7, 10, 12,  *)
(* 2, 4, 6, 9, 1 build, in that order, without a rotation.                 *)
(***************************************************************************)
EXTENDS Avl

CONSTANTS SmallKeys, MinNodes

InitDeep ==
  /\ t = [root   |-> 8,
          left   |-> <<0, 1, 2, 0, 3, 0, 6, 5, 0, 9, 10, 0>>,
          right  |-> <<0, 0, 4, 0, 7, 0, 0, 11, 0, 0, 12, 0>>,
          parent |-> <<2, 3, 5, 3, 8, 7, 5, 0, 10, 11, 8, 11>>,
          height |-> <<1, 2, 3, 1, 4, 1, 2, 5, 1, 2, 3, 1>>]
  /\ at = Nil

\* Which keys the next call may use, by where the behaviour started.
Deep == Cardinality(Reached) >= MinNodes
MayInsert(k) == k <= SmallKeys \/ Deep
MayDelete(k) == ~ Deep \/ Cardinality(Reached) > MinNodes

NextSmall ==
  \/ \E k \in Node : MayInsert(k) /\ Insert(k)
  \/ \E k \in Node : MayDelete(k) /\ Delete(k)
  \/ Rebalance

MCSpec == (Init \/ InitDeep) /\ [][NextSmall]_vars

\* The abstract set of nodes starts with the nodes of the tree.
MCRefinement ==
  /\ Reached = {} \/ Reached = Node
  /\ [][ON!Next]_Reached
=============================================================================
