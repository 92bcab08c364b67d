------------------------------- MODULE Relocs --------------------------------
(***************************************************************************)
(* Relocations of an ELF file: a relocation section is decoded, sorted,    *)
(* moved to absolute addresses and, when it is of type SHT_REL, given its  *)
(* addends out of the sections it applies to; its symbols are those that   *)
(* ElfSyms has numbered.  The relocations of a section are then merged     *)
(* from those of the relocation sections that modify it.                   *)
(* SectionLoad models who calls this when, and caches what comes out.      *)
(***************************************************************************)
EXTENDS ElfSyms

CONSTANT Files  \* the files to read: see FileOK

\* Besides `file', which here has the encoded relocation sections too:
VARIABLES
  rs,       \* the relocation section being read
  relocs,   \* its relocations, as far as they are decoded
  i,        \* populateAddends: the relocation it is at,
  target,   \* ... the section that is in,
  bytes,    \* ... and the section whose bytes it holds, or None
  decoded,  \* what reading each relocation section returned
  pc

locals == <<rs, relocs, i, target, bytes, decoded, pc>>
vars == <<file, symTabs, locals>>

RelSection == DOMAIN file.rels

\* Sizes of relocations: 3 stands for one that no addend has (16 bytes), -1 for
\* the size of an unknown type.
RelocSize == {-1, 0, 1, 2, 3}

\* Entries as they are encoded: an addend has two bits, and the number of the type
\* fits in a RelocType or does not.
RelEntry == [off : Word, sym : SymID, fits : BOOLEAN, size : RelocSize, add : 0..3]

FileOK(f) ==
  /\ f.relocatable \in BOOLEAN
  /\ SymsOK(f)
  /\ f.rels # <<>>
  /\ f.rels \in Seq([type : {"rel", "rela32", "rela64"}, target : DOMAIN f.sections \cup {None},
                     symTab : 0..2, addr : Word, entries : Seq(RelEntry)])
  /\ \A r \in DOMAIN f.rels : f.rels[r].symTab # 0 => f.symTabs[f.rels[r].symTab] # None

ASSUME FilesAssumption == \A f \in Files : FileOK(f)

\* How reading a relocation section may fail: with an error, or a panic of one of
\* three kinds.
Failures == {"error", "bad type", "nil section", "out of range"}

Bad(result) == [ok |-> FALSE, why |-> result, list |-> <<>>]
Good(list) == [ok |-> TRUE, why |-> "", list |-> list]

NullSection == [addr |-> 0, size |-> 0]

SectionOf(t) == IF t = None THEN NullSection ELSE file.sections[t]

Init ==
  /\ file \in Files
  /\ SymsInit
  /\ rs = 1
  /\ relocs = <<>>
  /\ i = 1
  /\ target = None
  /\ bytes = None
  /\ decoded = [r \in RelSection |-> Good(<<>>)]
  /\ pc = "decode"

-----------------------------------------------------------------------------
(* Decoding *)

\* An addend of two bits, read as a signed integer and as an unsigned one.
Signed(raw) == IF raw >= 2 THEN raw - 4 ELSE raw
Unsigned(raw) == raw

\* An addend: a number, or what is stored at an offset of a section.
Addend(section, val) == [in |-> section, val |-> val]

\* elfReadRel and elfReadRela, for one entry: a 32-bit addend is converted to
\* 64 bits as an unsigned integer.
Decoded(r, e) ==
  [addr |-> e.off, size |-> e.size, symbol |-> Lookup(r.symTab, e.sym),
   addend |-> Addend(None, CASE r.type = "rel" -> 0
                             [] r.type = "rela32" -> Unsigned(e.add)
                             [] r.type = "rela64" -> Signed(e.add))]

Sorted(list) == \A k \in 2..Len(list) : list[k - 1].addr <= list[k].addr

\* Mutant: the list stays as it is.
FileOrder(list) == {list}

\* The orders sort.Slice, which is not stable, may leave a list in.
SortedOrders(list) ==
  {[k \in DOMAIN list |-> list[p[k]]] :
     p \in {q \in [DOMAIN list -> DOMAIN list] :
              /\ \A a, b \in DOMAIN list : q[a] = q[b] => a = b
              /\ Sorted([k \in DOMAIN list |-> list[q[k]]])}}

\* The result of reading a relocation section; on to the next.
Finish(result) ==
  /\ decoded' = [decoded EXCEPT ![rs] = result]
  /\ rs' = rs + 1
  /\ relocs' = <<>>
  /\ i' = 1
  /\ target' = None
  /\ bytes' = None
  /\ pc' = IF rs = Len(file.rels) THEN "ready" ELSE "decode"
  /\ UNCHANGED <<file, symTabs>>

\* A type that does not fit in a RelocType panics (makeRelocType).
Decode ==
  /\ Opened
  /\ pc = "decode"
  /\ LET r == file.rels[rs]
     IN IF \E k \in DOMAIN r.entries : ~ r.entries[k].fits THEN Finish(Bad("bad type"))
        ELSE /\ relocs' \in SortedOrders([k \in DOMAIN r.entries |-> Decoded(r, r.entries[k])])
             /\ pc' = "adjust"
             /\ UNCHANGED <<file, symTabs, rs, i, target, bytes, decoded>>

\* Mutant: addresses wider than the file's.
AdjustWide ==
  /\ pc = "adjust"
  /\ LET r == file.rels[rs]
         by == IF file.relocatable THEN r.addr ELSE 0
         moved == [k \in DOMAIN relocs |-> [relocs[k] EXCEPT !.addr = @ + by]]
     IN IF r.type # "rel" THEN Finish(Good(moved))
        ELSE /\ relocs' = moved
             /\ target' = r.target
             /\ pc' = "addends"
             /\ UNCHANGED <<file, symTabs, rs, i, bytes, decoded>>

\* In a relocatable file, the address of the relocation section is added.
Adjust ==
  /\ pc = "adjust"
  /\ LET r == file.rels[rs]
         by == IF file.relocatable THEN r.addr ELSE 0
         moved == [k \in DOMAIN relocs |-> [relocs[k] EXCEPT !.addr = (@ + by) % W]]
     IN IF \E k \in DOMAIN moved : moved[k].addr < by THEN Finish(Bad("error"))
        ELSE IF r.type # "rel" THEN Finish(Good(moved))
        ELSE /\ relocs' = moved
             /\ target' = r.target
             /\ pc' = "addends"
             /\ UNCHANGED <<file, symTabs, rs, i, bytes, decoded>>

-----------------------------------------------------------------------------
(* populateAddends *)

\* The first section in the file that is loaded at address a.
ResolveAddr(a) ==
  LET holders == {s \in Section : /\ file.sections[s].alloc
                                  /\ file.sections[s].addr <= a
                                  /\ a - file.sections[s].addr < file.sections[s].size}
  IN IF file.relocatable \/ holders = {} THEN None ELSE Min(holders)

Offset(reloc, t) == (W + reloc.addr - SectionOf(t).addr) % W

\* Mutant: only the end of the relocation is compared, and it may wrap
\* around.
OutsideAtEnd(reloc, t) == (Offset(reloc, t) + reloc.size) % W > SectionOf(t).size

\* Is the relocation out of the section's bounds?
Outside(reloc, t) ==
  LET off == Offset(reloc, t)
      size == SectionOf(t).size
  IN \/ reloc.size # 0 /\ off >= size
     \/ (off + reloc.size) % W > size

\* Read the addend of a relocation in section t, whose bytes are loaded if they
\* are not yet.
ReadAddend(t, loaded) ==
  LET reloc == relocs[i]
      held == IF loaded = None THEN t ELSE loaded
      off == Offset(reloc, t)
  IN IF held = None THEN Finish(Bad("nil section"))
     ELSE IF reloc.size = 3 THEN Finish(Bad("error"))
     ELSE IF reloc.size > 0 /\ off + reloc.size > SectionOf(held).size
          THEN Finish(Bad("out of range"))
     ELSE /\ relocs' = IF reloc.size = 0 THEN relocs
                       ELSE [relocs EXCEPT ![i].addend = Addend(held, off)]
          /\ i' = i + 1
          /\ target' = t
          /\ bytes' = held
          /\ UNCHANGED <<file, symTabs, rs, decoded, pc>>

\* Mutant: the bytes of the section before are still held.
PopulateAddendStale ==
  /\ pc = "addends"
  /\ i <= Len(relocs)
  /\ LET reloc == relocs[i]
         moved == ResolveAddr(reloc.addr)
     IN IF reloc.size = -1 THEN Finish(Bad("error"))
        ELSE IF ~ Outside(reloc, target) THEN ReadAddend(target, bytes)
        ELSE IF file.rels[rs].target # None \/ moved = None THEN Finish(Bad("error"))
        ELSE ReadAddend(moved, bytes)

PopulateAddend ==
  /\ pc = "addends"
  /\ i <= Len(relocs)
  /\ LET reloc == relocs[i]
         moved == ResolveAddr(reloc.addr)
     IN IF reloc.size = -1 THEN Finish(Bad("error"))
        ELSE IF ~ Outside(reloc, target) THEN ReadAddend(target, bytes)
        ELSE IF file.rels[rs].target # None \/ moved = None THEN Finish(Bad("error"))
        ELSE ReadAddend(moved, None)

AddendsDone ==
  /\ pc = "addends"
  /\ i > Len(relocs)
  /\ Finish(Good(relocs))

\* A file is opened before a section of it can be read.
OpenSymTab == LoadSymTab /\ UNCHANGED locals

Next == OpenSymTab \/ Decode \/ Adjust \/ PopulateAddend \/ AddendsDone

Spec == Init /\ [][Next]_vars

-----------------------------------------------------------------------------
(* sectionRelocs *)

\* The relocation sections that modify section s.
RelocSections(s) ==
  {r \in RelSection : \/ file.rels[r].target = s
                      \/ file.rels[r].target = None /\ file.sections[s].alloc}

\* Mutant: only the first relocation is looked at.
InRangeFirst(list, s) ==
  /\ list # <<>>
  /\ list[1].addr <= (file.sections[s].addr + file.sections[s].size) % W
  /\ list[1].addr > file.sections[s].addr

\* Does a sorted list of relocations touch section s?
InRange(list, s) ==
  /\ list # <<>>
  /\ list[1].addr <= (file.sections[s].addr + file.sections[s].size) % W
  /\ list[Len(list)].addr > file.sections[s].addr

\* The results sectionRelocs may return for section s.  Lists that are merged are
\* appended and then sorted, so that any sorted order of their relocations may come
\* out: `places' are those of the relocations in the lists.
SectionRelocs(s) ==
  LET rels == RelocSections(s)
      todo == {r \in rels : InRange(decoded[r].list, s)}
      places == UNION {{r} \X DOMAIN decoded[r].list : r \in todo}
      merged == {[n \in DOMAIN order |-> decoded[order[n][1]].list[order[n][2]]] :
                   order \in SetToSeqs(places)}
  IN IF rels = {} THEN {Good(<<>>)}
     ELSE IF Cardinality(rels) = 1 THEN {decoded[r] : r \in rels}
     ELSE IF \E r \in rels : ~ decoded[r].ok
          THEN {decoded[Min({r \in rels : ~ decoded[r].ok})]}
     ELSE IF Cardinality(todo) = 1 THEN {decoded[r] : r \in todo}
     ELSE {Good(list) : list \in {m \in merged : Sorted(m)}}

-----------------------------------------------------------------------------
(* Properties *)

\* Every variable has its type.
TypeOK ==
  /\ \A t \in DOMAIN symTabs : symTabs[t].start \in SymID /\ symTabs[t].end \in SymID
  /\ rs \in 1..Len(file.rels) + 1
  /\ \A k \in DOMAIN relocs : relocs[k].addr \in Word /\ relocs[k].size \in RelocSize
  /\ i \in 1..Len(relocs) + 1
  /\ target \in Section \cup {None} /\ bytes \in Section \cup {None}
  /\ \A r \in RelSection :
       decoded[r].why \in {""} \cup Failures
  /\ pc \in {"decode", "adjust", "addends", "ready"}

\* The tables of symbols are numbered as IndexSpaceRight says, and each relocation
\* refers to the entry that it is encoded with, or to no symbol if its table has
\* none such (reloc.go:20-22).
SymbolsResolve ==
  /\ IndexSpaceRight
  /\ Numberable => \A r \in RelSection : \A k \in DOMAIN decoded[r].list :
       LET rel == file.rels[r]
           reloc == decoded[r].list[k]
           by == IF file.relocatable THEN rel.addr ELSE 0
       IN \E e \in DOMAIN rel.entries :
            /\ reloc.addr = rel.entries[e].off + by
            /\ IF reloc.symbol = NoSym
               THEN rel.symTab = 0 \/ rel.entries[e].sym \notin 1..Len(file.symTabs[rel.symTab]) - 1
               ELSE LET sym == Sym(reloc.symbol)
                    IN sym.ok => sym.table = rel.symTab /\ sym.row = rel.entries[e].sym

\* Sections and symbols give only the data they have, see RangesRight.  (Asked as
\* soon as the file is open: nothing that it depends on changes afterwards.)
DataInside == Opened /\ pc = "decode" /\ rs = 1 => RangesRight

\* The relocations of each section come "in increasing address order", from one
\* relocation section or from several (data.go:25-26).
IncreasingOrder ==
  pc = "ready" => \A s \in Section : \A result \in SectionRelocs(s) : Sorted(result.list)

\* The section that holds the addend of a relocation in SHT_REL section r.
Home(r, reloc) ==
  IF file.rels[r].target # None THEN file.rels[r].target ELSE ResolveAddr(reloc.addr)

\* Each implicit addend is read from the section the relocation lies in, at its
\* own offset, although the section and its bytes are kept from one relocation
\* to the next (elfReloc.go:232-278).
AddendsFromHome ==
  \A r \in RelSection :
    file.rels[r].type = "rel" /\ decoded[r].ok =>
      \A k \in DOMAIN decoded[r].list :
        LET reloc == decoded[r].list[k]
            home == Home(r, reloc)
        IN reloc.size > 0 =>
             reloc.addend = Addend(home, reloc.addr - file.sections[home].addr)

\* The bounds check, in wrapping arithmetic, lets no relocation section that has
\* a target read past the target's bytes (elfReloc.go:237-251).
TargetBounded ==
  \A r \in RelSection :
    file.rels[r].target # None => decoded[r].why \notin {"nil section", "out of range"}

\* Data has the relocations that lie in it, from however many relocation sections,
\* with one exception: of several, a list that does not go past the section's first
\* address is left out, although it may be at that address (data.go:25-26,
\* elfReloc.go:302-318).  A section that ends at the top of the address space, whose
\* end wraps to 0, is excluded.
InsideKept ==
  pc = "ready" =>
    \A s \in Section : \A result \in SectionRelocs(s) :
      LET sec == file.sections[s]
      IN result.ok /\ Bounded(sec.addr, sec.size) =>
           \A r \in RelocSections(s) :
             LET list == decoded[r].list
             IN \/ \A k \in DOMAIN list :
                     sec.addr <= list[k].addr /\ list[k].addr < sec.addr + sec.size =>
                       \E j \in DOMAIN result.list : result.list[j] = list[k]
                \/ /\ Cardinality(RelocSections(s)) > 1
                   /\ \A k \in DOMAIN list : list[k].addr <= sec.addr

\* Data has the relocations applied to it, those at its first address and of
\* several relocation sections too (data.go:25-26).
FirstKept ==
  pc = "ready" =>
    \A s \in Section : \A result \in SectionRelocs(s) :
      result.ok =>
        \A r \in RelocSections(s) : \A k \in DOMAIN decoded[r].list :
          LET reloc == decoded[r].list[k]
          IN file.sections[s].addr = reloc.addr /\ file.sections[s].size > 0 =>
               \E j \in DOMAIN result.list : result.list[j] = reloc

-----------------------------------------------------------------------------
(* The inductive invariant *)

\* No section wraps around or fills the address space, so that the end of no
\* relocation in it wraps around; and at no address are two sections loaded.
Fits ==
  \A s \in Section : LET sec == file.sections[s] IN sec.addr + sec.size <= W /\ sec.size + 1 < W

Holds(s, a) ==
  LET sec == file.sections[s] IN sec.alloc /\ sec.addr <= a /\ a < sec.addr + sec.size

Apart == \A a \in Word : \A s, q \in Section : Holds(s, a) /\ Holds(q, a) => s = q

Reloc ==
  [addr : Word, size : RelocSize, symbol : SymID, addend : [in : Section \cup {None}, val : Int]]

\* A sorted list of relocations of section r, moved by some distance.
ListOf(r, list, by) ==
  /\ list \in Seq(Reloc)
  /\ Sorted(list)
  /\ \A k \in 1..Len(list) : \E e \in DOMAIN file.rels[r].entries :
       LET entry == file.rels[r].entries[e]
       IN /\ list[k].addr = entry.off + by
          /\ list[k].symbol = Lookup(file.rels[r].symTab, entry.sym)

\* How far the relocations of section r are moved.
Distance(r) == IF file.relocatable THEN file.rels[r].addr ELSE 0

\* The first n relocations of a list have got their addends.
AddendsOK(r, list, n) ==
  \A k \in 1..n : list[k].size > 0 =>
    LET home == Home(r, list[k])
    IN list[k].addend = Addend(home, list[k].addr - file.sections[home].addr)

\* populateAddends holds no bytes but those of the section it is in, and without a
\* target of its own it is in a loaded section or in none yet.
HeldOK ==
  /\ bytes \in {None, target}
  /\ IF file.rels[rs].target # None THEN target = file.rels[rs].target
     ELSE target # None => ~ file.relocatable /\ file.sections[target].alloc

ReadingOK ==
  /\ pc \in {"decode", "ready"} => relocs = <<>>
  /\ pc # "addends" => i = 1 /\ bytes = None
  /\ pc \in {"decode", "adjust", "ready"} => target = None
  /\ pc = "adjust" => ListOf(rs, relocs, 0)
  /\ pc = "addends" =>
       /\ file.rels[rs].type = "rel"
       /\ ListOf(rs, relocs, Distance(rs))
       /\ HeldOK
       /\ Fits /\ Apart => AddendsOK(rs, relocs, i - 1)

\* What reading a section may return.
Result == [ok : BOOLEAN, list : Seq(Reloc), why : {""} \cup Failures]

ResultOK(r, result) ==
  /\ ListOf(r, result.list, Distance(r))
  /\ file.rels[r].type = "rel" /\ result.ok /\ Fits /\ Apart =>
       AddendsOK(r, result.list, Len(result.list))
  /\ file.rels[r].target # None /\ Fits => result.why \notin {"nil section", "out of range"}

DecodedOK ==
  /\ decoded \in [RelSection -> Result]
  /\ \A r \in RelSection : ResultOK(r, decoded[r])

\* Nothing is read before the file is open.
UnopenedOK == ~ Opened => pc = "decode" /\ \A r \in RelSection : decoded[r].list = <<>>

IInv ==
  /\ FileOK(file) /\ SymTabsOK /\ TypeOK
  /\ pc = "ready" <=> rs = Len(file.rels) + 1
  /\ relocs \in Seq(Reloc) /\ ReadingOK /\ DecodedOK /\ UnopenedOK
=============================================================================
