---------------------------- MODULE MCLineReader ----------------------------
(***************************************************************************)
(* LineReader over a family of small programs.  Three pieces of code, the  *)
(* second abutting the first and the third behind a gap, are dealt out to  *)
(* two units in every way, and each unit's table lists its pieces in every *)
(* order; subprograms are contiguous, split over two pieces, or span two.  *)
(* The table of a unit, or the ranges of a subprogram, may not decode.     *)
(***************************************************************************)
EXTENDS LineReader, TLC

MCSub == {"f", "g", "h"}

Row(a) == [address |-> a, end |-> FALSE]
EndRow(a) == [address |-> a, end |-> TRUE]

\* The line table sequence of each piece; the first has two rows at one address.
Sequence ==
  << <<Row(1), Row(1), Row(2), EndRow(3)>>,
     <<Row(3), Row(4), Row(5), EndRow(6)>>,
     <<Row(7), Row(8), EndRow(9)>> >>

PieceOf(a) ==
  CASE a \in 1..2 -> 1 [] a \in 3..5 -> 2 [] a \in 7..8 -> 3 [] OTHER -> 0

Orders == {p \in [1..3 -> 1..3] : \A i, j \in 1..3 : i # j => p[i] # p[j]}

TableOf(cu, owner, order) ==
  LET piece(i) == IF owner[order[i]] = cu THEN Sequence[order[i]] ELSE <<>>
  IN piece(1) \o piece(2) \o piece(3)

\* Which subprogram holds which addresses; 5 may lie in none.
Layouts ==
  { [f |-> {1, 2},    g |-> {3, 4},    h |-> {7, 8}],
    [f |-> {1, 2, 7}, g |-> {3, 4, 5}, h |-> {8}],
    [f |-> {1, 2, 3}, g |-> {4, 5, 8}, h |-> {}] }

SubAt(layout, a) ==
  IF \E s \in DOMAIN layout : a \in layout[s]
  THEN CHOOSE s \in DOMAIN layout : a \in layout[s]
  ELSE None

\* A call is inlined at 2, 4 and 8.
SiteAt(layout, a) ==
  IF SubAt(layout, a) = None THEN None
  ELSE IF a \in {2, 4, 8} THEN <<SubAt(layout, a), "inlined">>
  ELSE <<SubAt(layout, a), "outermost">>

World(owner, order, layout, badTables, badRanges) ==
  [table  |-> [cu \in CU |-> TableOf(cu, owner, order)],
   cuOf   |-> [a \in Addr |-> IF PieceOf(a) = 0 THEN None ELSE owner[PieceOf(a)]],
   subOf  |-> [a \in Addr |-> SubAt(layout, a)],
   siteOf |-> [a \in Addr |-> SiteAt(layout, a)],
   badTables |-> badTables, badRanges |-> badRanges]

\* A subprogram lies in one unit.
Sensible(w) ==
  \A a, b \in Addr : w.subOf[a] # None /\ w.subOf[a] = w.subOf[b] => w.cuOf[a] = w.cuOf[b]

MCWorlds ==
  {w \in {World(owner, order, layout, bad, {s \in MCSub : layout[s] = {}}) :
            owner \in [1..3 -> CU], order \in Orders, layout \in Layouts,
            bad \in {{}, {"c2"}}} : Sensible(w)}

MCSite == MCSub \X {"outermost", "inlined"}
=============================================================================
