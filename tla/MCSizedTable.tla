---------------------------- MODULE MCSizedTable -----------------------------
(***************************************************************************)
(* SizedTable over all ways to lay out a few symbols: 1 and 2 are mapped   *)
(* sections, 3 is one that is not and overlaps them.                       *)
(***************************************************************************)
EXTENDS SizedTable, TLC

MCSection == {1, 2, 3}
MCMapped == {1, 2}
MCBounds == 1 :> [addr |-> 1, size |-> 3] @@ 2 :> [addr |-> 4, size |-> 2]
              @@ 3 :> [addr |-> 0, size |-> 3]

Sym(value, size, section, kind, local) ==
  [value |-> value, size |-> size, section |-> section, kind |-> kind,
   synthesized |-> FALSE, name |-> "f", local |-> local]

\* Where a symbol may start and how long it may be, if it ends by `end'.
Extents(start, end) == {e \in (start..end) \X (0..end) : e[1] + e[2] <= end}

\* Four symbols with sizes in two mapped sections, laid out in every way.
Crossing ==
  {[i \in 1..4 |-> Sym(f[i][1], f[i][2], IF i % 2 = 0 THEN 1 ELSE 2, "text", i % 2 = 0)] :
     f \in [1..4 -> {e \in Extents(1, 5) : e[2] # 0}]}

\* Symbols that may have no size, and others that are not visited.
Visible == {Sym(v, z, s, "text", FALSE) : v \in 1..5, z \in {0, 2}, s \in {1, 3}}
Others == {Sym(v, 0, s, k, FALSE) : v \in {1, 3}, s \in {1, NoSection}, k \in {"section", "undef"}}

Unsized == {<<a, b, c>> : a \in Visible, b \in Visible, c \in Visible \cup Others}

\* Two symbols in any sections.
Anywhere ==
  {<<Sym(e[1], e[2], s, "text", TRUE), Sym(g[1], g[2], r, "text", FALSE)>> :
     e \in Extents(0, 3), g \in Extents(0, 3),
     s \in Section \cup {NoSection}, r \in Section \cup {NoSection}}

MCTables == Crossing \cup Unsized \cup Anywhere
=============================================================================
