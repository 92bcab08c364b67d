------------------------------ MODULE MCRelocs -------------------------------
(***************************************************************************)
(* Relocs over an executable with two loaded sections and two relocation   *)
(* sections, the first of them with any three small entries; and over a    *)
(* few object files; over executables with two symbol tables and           *)
(* relocations that refer to them; and over one with a symbol anywhere.    *)
(***************************************************************************)
EXTENDS Relocs, TLC

Entry(off, size, add) == [off |-> off, fits |-> TRUE, size |-> size, add |-> add, sym |-> 0]
Reference(off, sym) == [Entry(off, 1, 0) EXCEPT !.sym = sym]

Rel(type, to, addr, entries) ==
  [type |-> type, target |-> to, symTab |-> 0, addr |-> addr, entries |-> entries]

\* Two loaded sections apart from each other, and one that is not loaded.
Sections ==
  << [addr |-> 1, size |-> 2, alloc |-> TRUE],
     [addr |-> 4, size |-> 3, alloc |-> TRUE],
     [addr |-> 0, size |-> 3, alloc |-> FALSE] >>

NoTables == <<None, None>>

Executable(rels) ==
  [relocatable |-> FALSE, sections |-> Sections, symTabs |-> NoTables, rels |-> rels]

\* Any three entries.
Entries == {<<Entry(a, m, 0), Entry(b, n, 1), Entry(c, 1, 3)>> :
              a \in 0..W - 1, b \in 0..W - 1, c \in 0..W - 1,
              m \in RelocSize, n \in {1, 2}}

\* The second relocation section: relocations of the second section.
Second == Rel("rela64", 2, 0, <<Entry(5, 1, 1)>>)

\* A relocation section with and without a target, alone and with a second.
Executables ==
  {Executable(<<Rel("rel", t, 0, e), Second>>) : t \in {None, 1, 2}, e \in Entries}

\* The second entry of one relocation section is of a type that does not fit.
Misfits ==
  {Executable(<<Rel(type, t, 0, <<Entry(1, 1, 0), [Entry(2, 1, 0) EXCEPT !.fits = FALSE]>>), Second>>) :
     type \in {"rel", "rela64"}, t \in {None, 1, 2}}

\* Object files: the sections have addresses, and so have those of relocations.
Objects ==
  {[relocatable |-> TRUE, sections |-> Sections, symTabs |-> NoTables,
    rels |-> <<Rel(type, t, a, <<Entry(0, 1, 2), Entry(b, 1, 3)>>), Second>>] :
     type \in {"rel", "rela32", "rela64"}, t \in {1, 2}, a \in {0, 1, 4, W - 1},
     b \in 0..W - 1}

Symbol(shn, value, size) ==
  [shn |-> shn, value |-> value, size |-> size, named |-> TRUE, ofSection |-> FALSE]
NullSymbol == Symbol(None, 0, 0)

\* Two symbol tables, with a few symbols or absent, and a relocation section that
\* refers to symbols of either, or of none, by any indices.  One symbol's name
\* cannot be read.
Unnamed == [Symbol(None, 1, 0) EXCEPT !.named = FALSE]
SymFiles ==
  {[Executable(<<[Rel("rela64", 1, 0, <<Reference(2, m), Reference(1, n)>>)
                    EXCEPT !.symTab = t]>>)
      EXCEPT !.symTabs = <<static, dynamic>>] :
     static \in {None, <<NullSymbol>>, <<NullSymbol, Unnamed, Symbol(1, 1, 1)>>},
     dynamic \in {None, <<NullSymbol>>, <<NullSymbol, Symbol(2, 4, 1)>>,
                  <<NullSymbol, Symbol(2, 4, 1), NullSymbol, Symbol(None, 3, 2)>>},
     t \in 0..2, m \in SymID, n \in SymID}
Linked(f) == f.rels[1].symTab = 0 \/ f.symTabs[f.rels[1].symTab] # None

\* One symbol, anywhere, in a section or in none; the last section ends at the top
\* of the address space.
DataFiles ==
  {[Executable(<<Second>>)
      EXCEPT !.sections = Append(Sections, [addr |-> 5, size |-> 3, alloc |-> TRUE]),
             !.symTabs = <<<<NullSymbol, Symbol(s, v, n)>>, None>>] :
     s \in {None, 1, 2, 4}, v \in Word, n \in Word}

MCFiles == Executables \cup Misfits \cup Objects \cup {f \in SymFiles : Linked(f)} \cup DataFiles
=============================================================================
