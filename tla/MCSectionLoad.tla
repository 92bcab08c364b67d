--------------------------- MODULE MCSectionLoad ----------------------------
(***************************************************************************)
(* SectionLoad over files with two loadable sections, relocation sections  *)
(* for one and for all of them, and a symbol table; one thing is broken.   *)
(***************************************************************************)
EXTENDS SectionLoad

\* 1 text, 2 data, 3 relocations of all loadable sections, 4 of the text,
\* 5 symbols, 6 their names.
Sound ==
  [type |-> <<"progbits", "nobits", "rela", "rel", "symtab", "strtab">>,
   alloc |-> {1, 2, 3},
   info |-> <<0, 0, 0, 1, 0, 0>>,
   link |-> <<0, 0, 0, 5, 6, 0>>,
   relocatable |-> FALSE, archKnown |-> TRUE,
   mappable |-> {1}, wraps |-> {},
   read |-> [s \in 1..6 |-> "ok"], decoding |-> [s \in 1..6 |-> "ok"],
   addends |-> [s \in 1..6 |-> "ok"],
   visits |-> [s \in 1..6 |-> IF s = 4 THEN <<[s |-> 0, reads |-> FALSE]>> ELSE <<>>],
   inRange |-> {<<3, 1>>, <<3, 2>>, <<4, 1>>}]

\* The relocations of all sections hold their addends in the sections.
Implicit ==
  [Sound EXCEPT !.type[3] = "rel",
                !.visits[3] = <<[s |-> 1, reads |-> TRUE], [s |-> 2, reads |-> TRUE]>>]

\* One relocation of size 0 is at an address nullSection starts at.
Sizeless == [Implicit EXCEPT !.visits[3] = <<[s |-> 0, reads |-> FALSE], [s |-> 2, reads |-> TRUE]>>]

\* Nothing of the file can be mapped.
Heap == [Implicit EXCEPT !.mappable = {}]

\* Reading, decoding or taking the addends goes wrong, with an error or a panic.
Broken ==
  {[Heap EXCEPT !.read[1] = "panic"], [Heap EXCEPT !.read[3] = "panic"],
   [Heap EXCEPT !.read[3] = "error"], [Heap EXCEPT !.decoding[4] = "panic"],
   [Heap EXCEPT !.addends[3] = "panic"], [Heap EXCEPT !.addends[4] = "error"]}

\* Section 2 reaches past the top of the address space, and the relocations of
\* section 4 not into the text.
Wrapping == [Implicit EXCEPT !.wraps = {2}, !.inRange = {<<3, 1>>, <<3, 2>>}]

\* Files with a table of dynamic symbols, and one no architecture is known of.
Others ==
  {[Sound EXCEPT !.type[5] = "dynsym", !.mappable = {5}, !.decoding[4] = "error"],
   [Sound EXCEPT !.archKnown = FALSE, !.type[5] = "array", !.link[4] = 0]}

Refused ==
  {[Sound EXCEPT !.link[4] = 1], [Sound EXCEPT !.link[4] = 9], [Sound EXCEPT !.info[4] = 9],
   [Sound EXCEPT !.relocatable = TRUE], [Sound EXCEPT !.link[5] = 2],
   [Sound EXCEPT !.archKnown = FALSE], [Sound EXCEPT !.read[5] = "error"],
   [Sound EXCEPT !.read[6] = "panic"], [Sound EXCEPT !.wraps = {6}]}

MCFiles == {Sizeless, Wrapping} \cup Broken \cup Others \cup Refused
=============================================================================
