------------------------------- MODULE ElfSyms -------------------------------
(***************************************************************************)
(* Symbols of an ELF file: opening it gives each entry of the static and   *)
(* of the dynamic symbol table, but for their null entries, a SymID in one *)
(* index space; relocations name entries by their place in one table, and  *)
(* clients by SymID.  The data of a symbol is that of its section, after   *)
(* two checks of the range asked for.                                      *)
(***************************************************************************)
EXTENDS Integers, Sequences, FiniteSetsExt, SequencesExt

CONSTANTS
  W,     \* addresses are unsigned integers below W, 2^64
  IdW,   \* SymIDs and indices of ELF symbols are below IdW, 2^32
  None   \* no section, no symbol table

ASSUME SymsAssumption == W \in Nat \ {0} /\ IdW \in Nat \ {0} /\ None \notin Int

VARIABLES
  file,    \* its sections, and the entries of its two symbol tables: see SymsOK
  symTabs  \* the index ranges of the tables that are loaded

Word == 0..W - 1
SymID == 0..IdW - 1
NoSym == IdW - 1
Section == DOMAIN file.sections

\* An entry names its section by `shn', which may be no section of the file, and
\* its name by an offset that may lie past the strings.
SymEntries(f) ==
  [shn : DOMAIN f.sections \cup {None}, value : Word, size : Word,
   named : BOOLEAN, ofSection : BOOLEAN]

SymsOK(f) ==
  /\ f.sections \in Seq([addr : Word, size : Word, alloc : BOOLEAN])
  /\ Len(f.symTabs) = 2
  /\ \A t \in 1..2 : f.symTabs[t] # None => f.symTabs[t] \in Seq(SymEntries(f))

SymsInit == symTabs = <<>>

Opened == Len(symTabs) = 2

\* Mutant: the null entry of each table counts.
LoadSymTabNull ==
  /\ ~ Opened
  /\ LET entries == file.symTabs[Len(symTabs) + 1]
         nSyms == IF symTabs = <<>> THEN 0 ELSE Last(symTabs).end
     IN symTabs' = Append(symTabs,
          [start |-> nSyms,
           end   |-> IF entries = None THEN nSyms ELSE (nSyms + Len(entries)) % IdW])
  /\ UNCHANGED file

\* openElf gives the next symbol table its index range.  A table without even a
\* null entry makes the count wrap around.
LoadSymTab ==
  /\ ~ Opened
  /\ LET entries == file.symTabs[Len(symTabs) + 1]
         nSyms == IF symTabs = <<>> THEN 0 ELSE Last(symTabs).end
         count == (Len(entries) + IdW - 1) % IdW
     IN symTabs' = Append(symTabs,
          [start |-> nSyms, end |-> IF entries = None THEN nSyms ELSE (nSyms + count) % IdW])
  /\ UNCHANGED file

NumSyms == symTabs[2].end

\* The symbol with index n of table t.  A relocation section that is linked to
\* no table looks its symbols up in the empty one, t = 0.
Lookup(t, n) ==
  LET tab == IF t = 0 THEN [start |-> 0, end |-> 0] ELSE symTabs[t]
      id == (n + IdW - 1 + tab.start) % IdW
  IN IF tab.start <= id /\ id < tab.end THEN id ELSE NoSym

Panic(why) == [ok |-> FALSE, why |-> why]

\* Sym: the entry a SymID is read from, its section and its bounds.  Kind and
\* flags are left out.
Sym(id) ==
  LET t == IF id < symTabs[1].end THEN 1 ELSE 2
      row == (id + IdW - symTabs[t].start + 1) % IdW
      entry == file.symTabs[t][row + 1]
  IN IF id >= symTabs[t].end THEN Panic("symbol index")
     ELSE IF row >= Len(file.symTabs[t]) THEN Panic("offset")
     ELSE IF ~ (entry.ofSection /\ entry.shn # None) /\ ~ entry.named THEN Panic("offset")
     ELSE [ok |-> TRUE, table |-> t, row |-> row,
           section |-> entry.shn, value |-> entry.value, size |-> entry.size]

-----------------------------------------------------------------------------
(* Ranges of data *)

\* Does a request lie in a range, as unsigned arithmetic has it?
Within(addr, size, low, length) ==
  addr >= low /\ (addr + size) % W <= (low + length) % W

\* Mutant: a request may wrap around.
SectionDataWraps(s, addr, size) ==
  IF ~ Within(addr, size, file.sections[s].addr, file.sections[s].size)
  THEN Panic("outside section")
  ELSE [ok |-> TRUE, section |-> s, off |-> addr - file.sections[s].addr, size |-> size]

\* Section.Data: which of the section's bytes are returned.
SectionData(s, addr, size) ==
  IF (addr + size) % W < addr THEN Panic("address overflow")
  ELSE IF ~ Within(addr, size, file.sections[s].addr, file.sections[s].size)
  THEN Panic("outside section")
  ELSE [ok |-> TRUE, section |-> s, off |-> addr - file.sections[s].addr, size |-> size]

\* Sym.Data, of a symbol that could be read.
SymData(sym, addr, size) ==
  IF sym.section = None THEN [ok |-> FALSE, why |-> "no data"]
  ELSE IF ~ Within(addr, size, sym.value, sym.size) THEN Panic("outside symbol")
  ELSE SectionData(sym.section, addr, size)

-----------------------------------------------------------------------------
(* Properties *)

\* Each table, if there is one, has its null entry, and there are few enough
\* others to be numbered.
Numberable ==
  LET others(t) == IF file.symTabs[t] = None THEN 0 ELSE Len(file.symTabs[t]) - 1
  IN others(1) >= 0 /\ others(2) >= 0 /\ others(1) + others(2) < IdW

\* Symbols "within an object file are always numbered sequentially from 0", and
\* two tables are "combined in a single global index space" (sym.go:13-20): each
\* entry but the null entries has a SymID below NumSyms of its own, which a
\* relocation's index in the right table finds, and Sym reads just that entry.
\* Any other index is NoSym, however large (elfSym.go:28-37).
IndexSpaceRight ==
  Opened /\ Numberable =>
    LET entries == {e \in (1..2) \X (1..IdW - 1) :
                      file.symTabs[e[1]] # None /\ e[2] < Len(file.symTabs[e[1]])}
    IN /\ NumSyms = Cardinality(entries)
       /\ \A id \in 0..NumSyms - 1 :
            Sym(id).ok => Lookup(Sym(id).table, Sym(id).row) = id
       /\ \A id \in 0..NumSyms - 1 : ~ Sym(id).ok =>
            \E e \in entries : ~ file.symTabs[e[1]][e[2] + 1].named
       /\ \A t \in 0..2, n \in SymID :
            IF <<t, n>> \in entries
            THEN LET sym == Sym(Lookup(t, n))
                 IN sym.ok => sym.table = t /\ sym.row = n
            ELSE Lookup(t, n) = NoSym

\* In true arithmetic: does a request lie in a range, and does the range end
\* below the top of the address space?
Inside(addr, size, low, length) == low <= addr /\ addr + size <= low + length
Bounded(low, length) == low + length < W

\* Is this the right answer to a request for data of section s, or of a range in it?
DataRight(s, range, data, addr, size) ==
  LET sec == file.sections[s]
      inside == Inside(addr, size, sec.addr, sec.size) /\ Inside(addr, size, range.addr, range.size)
  IN /\ data.ok => inside /\ data.section = s /\ data.off = addr - sec.addr
     /\ inside /\ Bounded(sec.addr, sec.size) /\ Bounded(range.addr, range.size) => data.ok

\* Whatever range a client asks for, the bytes it gets are those of the range, in
\* its section and its symbol, although each check on its own lets requests pass
\* that wrap around (sym.go:177, elf.go:381-387); and a request inside is granted,
\* if the section and the symbol end below the top of the address space.
RangesRight ==
  \A addr \in Word, size \in Word :
    /\ \A s \in Section :
         DataRight(s, file.sections[s], SectionData(s, addr, size), addr, size)
    /\ \A id \in 0..NumSyms - 1 :
         LET sym == Sym(id)
         IN sym.ok /\ sym.section # None =>
              DataRight(sym.section, [addr |-> sym.value, size |-> sym.size],
                        SymData(sym, addr, size), addr, size)

-----------------------------------------------------------------------------
(* The inductive invariant *)

\* How many symbols of table t are numbered, and the index ranges of both.
Count(t) == IF file.symTabs[t] = None THEN 0 ELSE (Len(file.symTabs[t]) + IdW - 1) % IdW

IndexRange(t) ==
  IF t = 1 THEN [start |-> 0, end |-> Count(1)]
  ELSE [start |-> Count(1), end |-> (Count(1) + Count(2)) % IdW]

SymTabsOK ==
  /\ symTabs \in Seq([start : SymID, end : SymID])
  /\ Len(symTabs) \in 0..2
  /\ \A t \in 1..Len(symTabs) : symTabs[t] = IndexRange(t)
=============================================================================
