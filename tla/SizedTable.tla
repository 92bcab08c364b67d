----------------------------- MODULE SizedTable ------------------------------
(***************************************************************************)
(* A client of obj.SynthesizeSizes (Sizes) and symtab.NewTable (Symtab):   *)
(* it may first have the sizes of the symbols completed, then it builds a  *)
(* table of them.  Both work on one slice of symbols.                      *)
(***************************************************************************)
EXTENDS Symtab

CONSTANT Bounds   \* the address and the size of each section

\* A symbol in full.
Symbol == [value : Word, size : Word, section : Section \cup {NoSection},
           kind : STRING, synthesized : BOOLEAN, name : Name, local : BOOLEAN]

\* Sections are ordered by their IDs, and a reader marks no size as synthesized.
ASSUME SizesAssumption ==
  /\ Section \subseteq Nat
  /\ Bounds \in [Section -> [addr : Word, size : Word]]
  /\ \A t \in Tables : \A i \in DOMAIN t : t[i] \in Symbol /\ ~ t[i].synthesized

VARIABLES
  unsized,  \* SynthesizeSizes: the symbols to visit
  sizing    \* SynthesizeSizes: where it is

Sz == INSTANCE Sizes WITH todo <- unsized, pc <- sizing

allvars == <<vars, unsized, sizing>>

SizedInit == Init /\ Sz!Start

SynthesizeSizes ==
  /\ pc = "new"
  /\ Sz!Next
  /\ UNCHANGED <<names, todo, sections, key, ids, stack, out, pc>>

\* "the caller may wish to first call obj.SynthesizeSizes"
Build ==
  /\ sizing \in {"gather", "done"}
  /\ Next
  /\ UNCHANGED <<unsized, sizing>>

SizedNext == SynthesizeSizes \/ Build

SizedSpec == SizedInit /\ [][SizedNext]_allvars

-----------------------------------------------------------------------------
(* Properties *)

\* Synthesized sizes reach exactly to the next symbol, see Sizes.
ReachesNext == Sz!ReachesNext

\* No symbol before the end of its section is left without a size, see Sizes.
AllSized == Sz!AllSized

\* The symbols of a section that SynthesizeSizes visits.
VisitedOf(s) == {i \in ID : syms[i].section = s /\ Sz!Visited(syms[i])}

\* A section of a file without sizes is covered: once they are synthesized,
\* each address from its first symbol to its end finds the last symbol that
\* starts at or before it (symtab.go:47-50, size.go:9-10).
SizedCovers ==
  pc = "ready" /\ sizing = "done" /\ NoneWraps =>
    \A s \in Section, a \in Word :
      LET below == {i \in VisitedOf(s) : syms[i].value <= a}
          latest == {i \in below : \A j \in below : syms[j].value <= syms[i].value}
      IN /\ \A i \in SymsOf(KeyOf(s)) : syms[i].section = s /\ syms[i].synthesized
         /\ \A i \in ID : syms[i].section = s => syms[i].kind # "section"
         /\ \A i \in VisitedOf(s) : syms[i].synthesized
         /\ below # {} /\ a < Sz!SecEnd(s)
         => Addr(s, a) \in latest

-----------------------------------------------------------------------------
(* The inductive invariant *)

\* The groups are gone through in order: whatever is visited and not left to
\* visit comes before all that is.  Only what is left has yet to get its size,
\* and a size that a group got reaches to the next symbol, visited or not.
SizesOK ==
  /\ unsized \subseteq ID
  /\ sizing \in {"gather", "groups", "done"}
  /\ \A i \in ID : syms[i] \in Symbol
  /\ sizing = "gather" => unsized = {} /\ \A i \in ID : ~ syms[i].synthesized
  /\ \A i \in unsized : Sz!Visited(syms[i]) /\ ~ syms[i].synthesized
  /\ \A i \in unsized, j \in ID \ unsized : Sz!Visited(syms[j]) => Sz!Before(j, i)
  /\ \A i \in ID : syms[i].synthesized /\ ~ Sz!IsSectionSym(syms[i]) => Sz!Visited(syms[i])
  /\ ReachesNext

SizedInv == IInv /\ SizesOK
=============================================================================
