------------------------------- MODULE Sizes --------------------------------
(***************************************************************************)
(* obj.SynthesizeSizes: gives a size to the symbols of a file that have    *)
(* none, from the next symbol of their section or the section's end.       *)
(***************************************************************************)
EXTENDS Naturals, FiniteSetsExt

CONSTANTS
  W,          \* addresses and sizes are unsigned integers below W, 2^64
  Section,    \* sections, named by their IDs
  NoSection,  \* nil: a symbol without data
  Bounds,     \* the address and the size of each section, a function
  Tables      \* the symbol slices to complete

VARIABLES
  syms,  \* the slice, by index
  todo,  \* the symbols whose group has yet to be visited
  pc

vars == <<syms, todo, pc>>

SecEnd(s) == (Bounds[s].addr + Bounds[s].size) % W

Start == todo = {} /\ pc = "gather"

Init == syms \in Tables /\ Start

IsSectionSym(sym) == sym.section # NoSection /\ sym.kind = "section"

\* The size that stands for a section symbol is the section's.
SizeSection(sym) ==
  IF IsSectionSym(sym) /\ sym.value = Bounds[sym.section].addr /\ sym.size = 0
  THEN [sym EXCEPT !.size = Bounds[sym.section].size, !.synthesized = TRUE]
  ELSE sym

\* The symbols to visit: with data, not past the end of their section.
Visited(sym) ==
  /\ sym.section # NoSection
  /\ ~ IsSectionSym(sym)
  /\ sym.value <= SecEnd(sym.section)

Gather ==
  /\ pc = "gather"
  /\ todo' = {i \in DOMAIN syms : Visited(syms[i])}
  /\ syms' = [i \in DOMAIN syms |-> SizeSection(syms[i])]
  /\ pc' = "groups"

\* Sorted by section, then address; the sort leaves equals in any order.
Before(i, j) ==
  \/ syms[i].section < syms[j].section
  \/ syms[i].section = syms[j].section /\ syms[i].value < syms[j].value

SamePlace(i, j) ==
  syms[i].section = syms[j].section /\ syms[i].value = syms[j].value

\* Those that may come first in what is left.
Firsts == {i \in todo : \A j \in todo : ~ Before(j, i)}

\* Mutant: up to the next symbol of whatever section.
RoomToNext(s1, rest) ==
  LET next == {j \in rest : \A k \in rest : ~ Before(k, j)}
      end == IF next = {} THEN SecEnd(syms[s1].section)
             ELSE syms[CHOOSE j \in next : TRUE].value
  IN (W + end - syms[s1].value) % W

\* Mutant: the last address before the next symbol is left out.
RoomShort(s1, rest) ==
  LET next == {j \in rest : \A k \in rest : ~ Before(k, j)}
      same == {j \in next : syms[j].section = syms[s1].section}
      end == IF same = {} THEN SecEnd(syms[s1].section)
             ELSE syms[CHOOSE j \in same : TRUE].value - 1
  IN (W + end - syms[s1].value) % W

\* The room from symbol s1 up to the rest of the list, of its section or another.
RoomAfter(s1, rest) ==
  LET next == {j \in rest : \A k \in rest : ~ Before(k, j)}
      same == {j \in next : syms[j].section = syms[s1].section}
      end == IF same = {} THEN SecEnd(syms[s1].section)
             ELSE syms[CHOOSE j \in same : TRUE].value
  IN (W + end - syms[s1].value) % W

\* Only the size of the first of a group decides whether any lacks one.
AnyZero(s1, group) == syms[s1].size = 0

\* One round of the loop: the symbols at the first address left.
Group(s1) ==
  /\ pc = "groups"
  /\ s1 \in Firsts
  /\ LET group == {j \in todo : SamePlace(s1, j)}
         room == RoomAfter(s1, todo \ group)
     IN /\ todo' = todo \ group
        /\ syms' = IF AnyZero(s1, group)
                   THEN [i \in DOMAIN syms |->
                           IF i \in group /\ syms[i].size = 0
                           THEN [syms[i] EXCEPT !.size = room, !.synthesized = TRUE]
                           ELSE syms[i]]
                   ELSE syms
  /\ UNCHANGED pc

Finish ==
  /\ pc = "groups"
  /\ todo = {}
  /\ pc' = "done"
  /\ UNCHANGED <<syms, todo>>

Next == Gather \/ (\E s1 \in DOMAIN syms : Group(s1)) \/ Finish

Spec == Init /\ [][Next]_vars

-----------------------------------------------------------------------------
(* Properties *)

\* The symbols of a section after a symbol and not past the section's end.
After(i) ==
  {j \in DOMAIN syms : /\ Visited(syms[j])
                       /\ syms[j].section = syms[i].section
                       /\ syms[j].value > syms[i].value}

\* A synthesized size reaches exactly to the next symbol of the section, or to
\* its end, whatever lies past the end or in other sections and whatever the
\* order of the file (size.go:68-77).
ReachesNext ==
  \A i \in DOMAIN syms :
    syms[i].synthesized /\ ~ IsSectionSym(syms[i]) =>
      syms[i].value + syms[i].size
        = IF After(i) = {} THEN SecEnd(syms[i].section)
          ELSE Min({syms[j].value : j \in After(i)})

\* No symbol before the end of its section is left without a size: a group is
\* skipped when "They all have sizes. Move on." (size.go:63).
AllSized ==
  pc = "done" =>
    \A i \in DOMAIN syms :
      Visited(syms[i]) /\ syms[i].value < SecEnd(syms[i].section) => syms[i].size # 0
=============================================================================
