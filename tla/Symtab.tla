------------------------------- MODULE Symtab -------------------------------
(***************************************************************************)
(* symtab.Table: NewTable sorts the symbols of every section into an index *)
(* of boundaries, one step per boundary, and Addr and Name look symbols up *)
(* in it.  Symbols may overlap in any way.                                 *)
(***************************************************************************)
EXTENDS Naturals, Sequences, FiniteSets, FiniteSetsExt

CONSTANTS
  W,          \* addresses and sizes are unsigned integers below W, 2^64
  Section,    \* the sections of a file
  Mapped,     \* those that are mapped into memory
  Name,       \* symbol names
  NoSection,  \* nil: a symbol without data; the key of all mapped sections
  NoSym,      \* obj.NoSym
  Tables      \* the symbol slices to build a table of

ASSUME ConstantsAssumption ==
  /\ W \in Nat \ {0}
  /\ Mapped \subseteq Section
  /\ NoSection \notin Section
  /\ NoSym \notin Nat

Word == 0..W - 1

\* Is this a symbol, as far as a table looks at one?
IsSymbol(sym) ==
  /\ sym.value \in Word /\ sym.size \in Word
  /\ sym.section \in Section \cup {NoSection}
  /\ sym.name \in Name /\ sym.local \in BOOLEAN

\* A slice of symbols.
IsTable(t) ==
  /\ IsFiniteSet(DOMAIN t) /\ DOMAIN t = 1..Cardinality(DOMAIN t)
  /\ \A i \in DOMAIN t : IsSymbol(t[i])

ASSUME TablesAssumption == \A t \in Tables : IsTable(t)

\* Where a symbol ends, in uint64 arithmetic.
End(sym) == (sym.value + sym.size) % W

VARIABLES
  syms,      \* Table.syms
  names,     \* Table.name
  todo,      \* sectionSyms: the symbols of the sections not indexed yet
  sections,  \* Table.sections
  key,       \* section: the one being indexed
  ids,       \* its symbols the loop has yet to visit
  stack,     \* the symbols at the current address, by their end addresses
  out,       \* the boundaries found so far
  pc

vars == <<syms, names, todo, sections, key, ids, stack, out, pc>>

ID == DOMAIN syms
Key == (Section \ Mapped) \cup {NoSection}
Boundary == [addr : Word, id : ID]

\* All mapped sections share an index.
KeyOf(section) == IF section \in Mapped THEN NoSection ELSE section

\* The symbols that have data in sections with this key.
SymsOf(k) == {i \in ID : /\ syms[i].section # NoSection
                         /\ syms[i].size # 0
                         /\ KeyOf(syms[i].section) = k}

Init ==
  /\ syms \in Tables
  /\ names = [n \in Name |-> NoSym]
  /\ todo = [k \in Key |-> {}]
  /\ sections = [k \in Key |-> <<>>]
  /\ key = NoSection
  /\ ids = {}
  /\ stack = <<>>
  /\ out = <<>>
  /\ pc = "new"

\* NewTable, its first loop: of several global symbols of one name the last wins.
NewTable ==
  /\ pc = "new"
  /\ names' = [n \in Name |->
                 LET globals == {i \in ID : syms[i].name = n /\ ~ syms[i].local}
                 IN IF globals = {} THEN NoSym ELSE Max(globals)]
  /\ todo' = [k \in Key |-> SymsOf(k)]
  /\ pc' = "sections"
  /\ UNCHANGED <<syms, sections, key, ids, stack, out>>

\* NewTable, its second loop, which visits the sections in any order.
MakeAddrIndex(k) ==
  /\ pc = "sections"
  /\ todo[k] # {}
  /\ key' = k
  /\ ids' = todo[k]
  /\ stack' = <<>>
  /\ out' = <<>>
  /\ pc' = "index"
  /\ UNCHANGED <<syms, names, todo, sections>>

\* Mutant: of symbols at one address, the smaller first.
BeforeSmaller(i, j) ==
  LET a == syms[i]
      b == syms[j]
  IN \/ a.value < b.value
     \/ a.value = b.value /\ a.size < b.size
     \/ a.value = b.value /\ a.size = b.size /\ i > j

\* The order of the loop: by address, low priority before high priority.
Before(i, j) ==
  LET a == syms[i]
      b == syms[j]
  IN \/ a.value < b.value
     \/ a.value = b.value /\ a.size > b.size
     \/ a.value = b.value /\ a.size = b.size /\ i > j

First == CHOOSE i \in ids : \A j \in ids \ {i} : Before(i, j)

\* Up to where the symbols on the stack are drained now.
Limit == IF ids = {} THEN W - 1 ELSE syms[First].value

Top(s) == s[Len(s)]

Drained == stack # <<>> => Top(stack).addr > Limit

\* The stack without the symbols that end where its top does.
Pop(s) ==
  SubSeq(s, 1, Max({0} \cup {i \in DOMAIN s : s[i].addr # Top(s).addr}))

\* drainStack, one pass: the next boundary drops to the symbol then at the top.
\* (A stack of one symbol takes a shortcut in the code, to the same effect.)
DrainStack ==
  /\ pc = "index"
  /\ ~ Drained
  /\ stack' = Pop(stack)
  /\ out' = IF stack' = <<>> THEN out
            ELSE Append(out, [addr |-> Top(stack).addr, id |-> Top(stack').id])
  /\ UNCHANGED <<syms, names, todo, sections, key, ids, pc>>

\* Mutant: a second boundary at the same address.
AddBoundaryAgain(s, b) == Append(s, b)

\* Put a boundary on the index, in place of a last one at the same address.
AddBoundary(s, b) ==
  IF s # <<>> /\ Top(s).addr = b.addr THEN [s EXCEPT ![Len(s)] = b]
  ELSE Append(s, b)

\* Mutant: the stack is left unsorted.
PushOnTop(s, b) == Append(s, b)

\* Put a symbol on the stack, which is ordered by falling end addresses.
Push(s, b) ==
  LET k == Max({0} \cup {i \in DOMAIN s : s[i].addr >= b.addr})
  IN SubSeq(s, 1, k) \o <<b>> \o SubSeq(s, k + 1, Len(s))

\* The loop body, once the symbols that end before this one are gone.
StartSymbol ==
  /\ pc = "index"
  /\ ids # {}
  /\ Drained
  /\ LET sym == syms[First]
     IN /\ out' = AddBoundary(out, [addr |-> sym.value, id |-> First])
        /\ stack' = Push(stack, [addr |-> End(sym), id |-> First])
  /\ ids' = ids \ {First}
  /\ UNCHANGED <<syms, names, todo, sections, key, pc>>

IndexDone ==
  /\ pc = "index"
  /\ ids = {}
  /\ Drained
  /\ sections' = [sections EXCEPT ![key] = out]
  /\ todo' = [todo EXCEPT ![key] = {}]
  /\ key' = NoSection
  /\ stack' = <<>>
  /\ out' = <<>>
  /\ pc' = "sections"
  /\ UNCHANGED <<syms, names, ids>>

TableDone ==
  /\ pc = "sections"
  /\ \A k \in Key : todo[k] = {}
  /\ pc' = "ready"
  /\ UNCHANGED <<syms, names, todo, sections, key, ids, stack, out>>

Next ==
  \/ NewTable
  \/ \E k \in Key : MakeAddrIndex(k)
  \/ DrainStack
  \/ StartSymbol
  \/ IndexDone
  \/ TableDone

Spec == Init /\ [][Next]_vars

-----------------------------------------------------------------------------
(* Lookup *)

\* Mutant: a symbol still counts at the address where it ends.
LookUpInclusive(index, a) ==
  LET after == {i \in DOMAIN index : a < index[i].addr}
      i == (IF after = {} THEN Len(index) + 1 ELSE Min(after)) - 1
  IN IF i = 0 THEN NoSym
     ELSE IF End(syms[index[i].id]) < a THEN NoSym
     ELSE index[i].id

\* The symbol of the last boundary of an index at or before a.  The code finds
\* it by binary search, which WellFormed entitles it to.
LookUp(index, a) ==
  LET after == {i \in DOMAIN index : a < index[i].addr}
      i == (IF after = {} THEN Len(index) + 1 ELSE Min(after)) - 1
  IN IF i = 0 THEN NoSym
     ELSE IF End(syms[index[i].id]) <= a THEN NoSym
     ELSE index[i].id

\* Addr: nil and every mapped section stand for all mapped sections.
Addr(section, a) == LookUp(sections[KeyOf(section)], a)

\* The symbols that contain address a in a section, in true arithmetic.
Containing(k, a) ==
  {i \in SymsOf(k) : syms[i].value <= a /\ a < syms[i].value + syms[i].size}

\* No symbol reaches the end of the address space.
NoneWraps == \A i \in ID : syms[i].value + syms[i].size < W

\* Two symbols are apart or one contains the other.
Laminar(k) ==
  \A i, j \in SymsOf(k) :
    \/ syms[i].value + syms[i].size <= syms[j].value
    \/ syms[j].value + syms[j].size <= syms[i].value
    \/ /\ syms[i].value <= syms[j].value
       /\ syms[j].value + syms[j].size <= syms[i].value + syms[i].size
    \/ /\ syms[j].value <= syms[i].value
       /\ syms[i].value + syms[i].size <= syms[j].value + syms[j].size

\* The documented choice: the latest start, then the smallest size, then the
\* first in the file.
Preferred(S) ==
  CHOOSE i \in S : \A j \in S \ {i} : Before(j, i)

-----------------------------------------------------------------------------
(* Properties *)

TypeOK ==
  /\ IsTable(syms)
  /\ names \in [Name -> ID \cup {NoSym}]
  /\ todo \in [Key -> SUBSET ID]
  /\ sections \in [Key -> Seq(Boundary)]
  /\ key \in Key
  /\ ids \subseteq ID
  /\ stack \in Seq(Boundary) /\ out \in Seq(Boundary)
  /\ pc \in {"new", "sections", "index", "ready"}

StrictlyRising(index) ==
  \A i \in 2..Len(index) : index[i - 1].addr < index[i].addr

\* Every variable has its type, and an index is strictly sorted by address at
\* every step of its construction, so that the search for an address is well
\* defined (symtab.go:29-35, :204-206).
WellFormed ==
  /\ TypeOK
  /\ NoneWraps => StrictlyRising(out) /\ \A k \in Key : StrictlyRising(sections[k])

\* The stack holds just the symbols at the current address: those visited that
\* end after it, each with its own end, the first to end on top
\* (symtab.go:106-111).
StackIsCurrent ==
  pc = "index" /\ NoneWraps =>
    /\ \A i \in 2..Len(stack) : stack[i - 1].addr >= stack[i].addr
    /\ \A i \in DOMAIN stack : stack[i].addr = End(syms[stack[i].id])
    /\ Drained =>
         {stack[i].id : i \in DOMAIN stack}
           = {i \in todo[key] \ ids : End(syms[i]) > Limit}

\* Addr returns a symbol that contains the address in a section with the same
\* key, and returns NoSym only if there is none (symtab.go:188-191).
Complete ==
  pc = "ready" /\ NoneWraps =>
    \A section \in Section \cup {NoSection}, a \in Word :
      LET S == Containing(KeyOf(section), a)
      IN IF S = {} THEN Addr(section, a) = NoSym ELSE Addr(section, a) \in S

\* Where symbols nest without crossing, Addr returns the innermost one; of two
\* with the same extent the first (symtab.go:193-195, :99-102).
Innermost ==
  pc = "ready" /\ NoneWraps =>
    \A k \in Key, a \in Word :
      Laminar(k) /\ Containing(k, a) # {} => Addr(k, a) = Preferred(Containing(k, a))

-----------------------------------------------------------------------------
(* The inductive invariant *)

\* The symbols of the section that have been visited, and those on the stack.
Begun == todo[key] \ ids
OnStack == {stack[i].id : i \in DOMAIN stack}

\* Does an index find the right symbol at an address, and where symbols nest the
\* innermost one?
Right(k, index, a) ==
  LET S == Containing(k, a)
      id == LookUp(index, a)
  IN IF S = {} THEN id = NoSym
     ELSE id \in S /\ (Laminar(k) => id = Preferred(S))

\* The stack falls, holds symbols that are visited with their ends, and has lost
\* only such as end by where the next one starts; and the loop goes by its order.
StackOK ==
  /\ \A i, j \in DOMAIN stack : i <= j => stack[i].addr >= stack[j].addr
  /\ \A i \in DOMAIN stack : stack[i].id \in Begun /\ stack[i].addr = End(syms[stack[i].id])
  /\ \A i \in Begun : i \in OnStack \/ End(syms[i]) <= Limit
  /\ \A i \in Begun, j \in ids : Before(i, j)

Rising(index) == \A i, j \in DOMAIN index : i < j => index[i].addr < index[j].addr

\* The last boundary `low' has symbol x: below it the index is right.  x is on the
\* stack, and so right up to the next boundary, or else ended after all others.
\* Where symbols nest, x is the innermost of those that reach past `low'.
LastOK ==
  LET x == Top(out).id
      low == Top(out).addr
  IN /\ x \in Begun /\ low < End(syms[x]) /\ low <= Limit
     /\ \A i \in Begun : syms[i].value <= low
     /\ \A a \in Word : a < low => Right(key, out, a)
     /\ \A i \in DOMAIN stack : stack[i].addr > low
     /\ IF stack = <<>> THEN \A i \in Begun : End(syms[i]) <= End(syms[x])
        ELSE x \in OnStack /\ \A i \in Begun : i \in OnStack \/ End(syms[i]) <= low
     /\ Laminar(key) =>
          /\ \A i \in Begun : End(syms[i]) > low => i = x \/ Before(i, x)
          /\ \A i, j \in DOMAIN stack : i < j => Before(stack[i].id, stack[j].id)

IndexOK ==
  /\ Rising(out)
  /\ IF out = <<>> THEN Begun = {} ELSE LastOK

\* The sections that are indexed are right.
SectionsOK ==
  \A k \in Key :
    /\ Rising(sections[k])
    /\ todo[k] = {} => \A a \in Word : Right(k, sections[k], a)

IInv ==
  /\ TypeOK
  /\ pc = "new" => \A k \in Key : sections[k] = <<>>
  /\ pc # "index" => stack = <<>> /\ out = <<>>
  /\ pc \in {"sections", "index"} => \A k \in Key : todo[k] \in {{}, SymsOf(k)}
  /\ pc = "ready" => \A k \in Key : todo[k] = {}
  /\ pc # "new" /\ NoneWraps => SectionsOK
  /\ pc = "index" => todo[key] = SymsOf(key) /\ ids \subseteq todo[key] /\ StackOK
  /\ pc = "index" /\ NoneWraps => IndexOK
=============================================================================
