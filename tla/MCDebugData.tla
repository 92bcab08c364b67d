---------------------------- MODULE MCDebugData -----------------------------
(***************************************************************************)
(* DebugData over a file with a unit of inlined calls, nested functions    *)
(* and blocks, a unit that is not of code, and one without children; and   *)
(* the same file with parts that do not decode.                            *)
(***************************************************************************)
EXTENDS DebugData, TLC

Parent(tag, ranges) == [tag |-> tag, children |-> TRUE, ranges |-> ranges]
Leaf(tag, ranges) == [tag |-> tag, children |-> FALSE, ranges |-> ranges]
End == Leaf("end", {})

\* Into function 2, calls 3 and 14 are inlined, and into 3, inside a block, call 5.
\* Function 10 is nested in it.  Function 20 has no children.
Entries ==
  << Parent("unit", {<<0, 6>>}),
       Parent("subprogram", {<<0, 3>>, <<4, 5>>}),
         Parent("inlined", {<<0, 2>>}),
           Parent("block", {}),
             Parent("inlined", {<<1, 2>>}), Leaf("other", {}), End,
           End,
         End,
         Parent("subprogram", {<<3, 4>>}),
           Parent("inlined", {<<3, 4>>}), End,
         End,
         Parent("inlined", {<<2, 3>>}), End,
       End,
       Parent("other", {}), Leaf("other", {}), End,
       Leaf("subprogram", {<<5, 6>>}),
     End,
     Parent("other", {}), Leaf("subprogram", {<<6, 7>>}), End,
     Leaf("unit", {<<7, 8>>}) >>

Sound ==
  [entries |-> Entries, after |-> After(Entries), stop |-> 0, badRanges |-> {}, siblings |-> FALSE,
   lines |-> [e \in DOMAIN Entries |-> "ok"]]

\* What does not decode: an entry in the body of function 2, or in a function
\* nested in it, or next to it; all entries within other entries; ranges; the
\* line table.
Named == [Sound EXCEPT !.siblings = TRUE]
Broken ==
  {[Named EXCEPT !.stop = e] : e \in {11, 14, 17}}
    \cup {[Sound EXCEPT !.stop = 14]}
    \cup {[Sound EXCEPT !.badRanges = {e}] : e \in {5, 20, 25}}
    \cup {[Sound EXCEPT !.lines[1] = l] : l \in {"bad", "none"}}

\* A call without children of its own is inlined into function 2 before another.
Childless ==
  << Parent("unit", {<<0, 6>>}),
       Parent("subprogram", {<<0, 5>>}),
         Leaf("inlined", {<<1, 2>>}),
         Parent("inlined", {<<3, 4>>}), Leaf("other", {}), End,
       End,
       Parent("subprogram", {<<5, 6>>}), Leaf("other", {}), End,
     End >>

ChildlessFiles ==
  {[Sound EXCEPT !.entries = Childless, !.after = After(Childless),
                 !.lines = [e \in DOMAIN Childless |-> "ok"]]}

MCFiles == {Sound} \cup Broken
MCAsked == {1, 3, 5, 6}
=============================================================================
