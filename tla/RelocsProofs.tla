---------------------------- MODULE RelocsProofs ----------------------------
(***************************************************************************)
(* Theorems about ElfSyms and Relocs, for every set of files: any number of*)
(* sections, relocation sections, symbols and relocations, and any widths  *)
(* of addresses and of indices.  First the operators of ElfSyms: the index *)
(* space that two symbol tables share, and the ranges of data that are     *)
(* granted; then the scans for relocations.                                *)
(***************************************************************************)
EXTENDS Relocs, FiniteSetTheorems, FunctionTheorems, SequenceTheorems, TLAPS

-----------------------------------------------------------------------------
(* Unsigned arithmetic *)

\* A sum of two words wraps around at most once.
LEMMA SumMod ==
  ASSUME NEW m \in Nat \ {0}, NEW a \in 0..m - 1, NEW b \in 0..m - 1
  PROVE  (a + b) % m = IF a + b < m THEN a + b ELSE a + b - m
OBVIOUS

\* So does a difference.
LEMMA DiffMod ==
  ASSUME NEW m \in Nat \ {0}, NEW a \in 0..m - 1, NEW b \in 0..m - 1
  PROVE  (m + a - b) % m = IF b <= a THEN a - b ELSE m + a - b
OBVIOUS

-----------------------------------------------------------------------------
(* The index ranges *)

\* The tables of a file.
LEMMA TableFacts ==
  ASSUME SymsOK(file), NEW t \in 1..2
  PROVE  /\ Count(t) \in SymID
         /\ file.symTabs[t] # None =>
              /\ Len(file.symTabs[t]) \in Nat
              /\ \A n \in 1..Len(file.symTabs[t]) : file.symTabs[t][n] \in SymEntries(file)
<1>1. file.symTabs[t] # None =>
        /\ Len(file.symTabs[t]) \in Nat
        /\ \A n \in 1..Len(file.symTabs[t]) : file.symTabs[t][n] \in SymEntries(file)
  BY LenProperties, ElementOfSeq DEF SymsOK
<1>2. Count(t) \in SymID
  <2> DEFINE n == Len(file.symTabs[t])
  <2>1. file.symTabs[t] # None => n \in Nat
    BY <1>1
  <2>2. IdW \in Nat \ {0}
    BY SymsAssumption
  <2>3. Count(t) = IF file.symTabs[t] = None THEN 0 ELSE (n + IdW - 1) % IdW
    BY DEF Count
  <2> HIDE DEF n
  <2>4. n \in Nat => (n + IdW - 1) % IdW \in 0..IdW - 1
    BY <2>2
  <2>5. 0 \in 0..IdW - 1
    BY <2>2
  <2> QED
    BY <2>1, <2>3, <2>4, <2>5 DEF SymID
<1> QED
  BY <1>1, <1>2

\* With few enough symbols nothing wraps around.
LEMMA NumberableFacts ==
  ASSUME SymsOK(file), Numberable
  PROVE  /\ \A t \in 1..2 : file.symTabs[t] # None => Count(t) = Len(file.symTabs[t]) - 1
         /\ Count(1) \in Nat /\ Count(2) \in Nat /\ Count(1) + Count(2) < IdW
         /\ (Count(1) + Count(2)) % IdW = Count(1) + Count(2)
<1> DEFINE other(t) == IF file.symTabs[t] = None THEN 0 ELSE Len(file.symTabs[t]) - 1
<1>1. other(1) >= 0 /\ other(2) >= 0 /\ other(1) + other(2) < IdW
  BY DEF Numberable
<1>2. \A t \in 1..2 : other(t) \in Int
  BY TableFacts
<1>3. \A t \in 1..2 : other(t) \in 0..IdW - 1
  <2>1. other(1) \in Int /\ other(2) \in Int /\ IdW \in Nat
    BY <1>2, SymsAssumption
  <2> HIDE DEF other
  <2>2. other(1) \in 0..IdW - 1 /\ other(2) \in 0..IdW - 1
    BY <1>1, <2>1
  <2>3. \A t \in 1..2 : t = 1 \/ t = 2
    OBVIOUS
  <2> QED
    BY <2>2, <2>3
<1>4. \A t \in 1..2 : Count(t) = other(t)
  <2>1. SUFFICES ASSUME NEW t \in 1..2, file.symTabs[t] # None
                 PROVE  (Len(file.symTabs[t]) + IdW - 1) % IdW = Len(file.symTabs[t]) - 1
    BY DEF Count
  <2> DEFINE o == other(t)
  <2>2. o \in 0..IdW - 1 /\ Len(file.symTabs[t]) = o + 1
    BY <1>3, <2>1, TableFacts
  <2> HIDE DEF o, other
  <2>3. (o + 1 + IdW - 1) % IdW = o
    BY <2>2, SymsAssumption
  <2> QED
    BY <2>2, <2>3
<1> HIDE DEF other
<1>5. Count(1) \in 0..IdW - 1 /\ Count(2) \in 0..IdW - 1 /\ Count(1) + Count(2) < IdW
  BY <1>1, <1>3, <1>4
<1>6. (Count(1) + Count(2)) % IdW = Count(1) + Count(2)
  BY <1>5, SymsAssumption, SumMod
<1>7. \A t \in 1..2 : file.symTabs[t] # None => Count(t) = Len(file.symTabs[t]) - 1
  BY <1>4 DEF other
<1> QED
  BY <1>5, <1>6, <1>7

\* No table is loaded at first.
LEMMA SymsInitOK == SymsInit => SymTabsOK
BY DEF SymsInit, SymTabsOK

\* Each table that is loaded gets its range.
LEMMA LoadSymTabOK ==
  ASSUME SymsOK(file), SymTabsOK, LoadSymTab
  PROVE  SymTabsOK'
<1>1. file' = file /\ IdW \in Nat \ {0}
  BY SymsAssumption DEF LoadSymTab
<1>2. /\ IndexRange(1) \in [start : SymID, end : SymID]
      /\ IndexRange(2) \in [start : SymID, end : SymID]
  <2>1. Count(1) \in 0..IdW - 1 /\ Count(2) \in 0..IdW - 1
    BY TableFacts DEF SymID
  <2>2. (Count(1) + Count(2)) % IdW \in 0..IdW - 1
    BY <1>1, <2>1
  <2> QED
    BY <1>1, <2>1, <2>2 DEF IndexRange, SymID
<1>3. symTabs \in Seq([start : SymID, end : SymID]) /\ Len(symTabs) \in 0..1
  BY DEF SymTabsOK, LoadSymTab, Opened
<1>4. symTabs' = Append(symTabs, IndexRange(Len(symTabs) + 1))
  <2> DEFINE next == Len(symTabs) + 1
             nSyms == IF symTabs = <<>> THEN 0 ELSE Last(symTabs).end
             count == (Len(file.symTabs[next]) + IdW - 1) % IdW
  <2>1. symTabs' = Append(symTabs,
          [start |-> nSyms, end |-> IF file.symTabs[next] = None THEN nSyms ELSE (nSyms + count) % IdW])
    BY DEF LoadSymTab
  <2>2. CASE Len(symTabs) = 0
    <3>1. nSyms = 0 /\ next = 1
      BY <1>3, <2>2, EmptySeq
    <3>2. Count(1) = IF file.symTabs[1] = None THEN 0 ELSE count
      BY <3>1 DEF Count
    <3>3. Count(1) \in 0..IdW - 1 /\ (0 + Count(1)) % IdW = Count(1)
      <4>1. Count(1) \in 0..IdW - 1
        BY TableFacts DEF SymID
      <4> HIDE DEF count
      <4> QED
        BY <1>1, <4>1
    <3> HIDE DEF count, nSyms, next
    <3> QED
      BY <2>1, <2>2, <3>1, <3>2, <3>3 DEF IndexRange, next
  <2>3. CASE Len(symTabs) = 1
    <3>1. symTabs # <<>> /\ Last(symTabs) = symTabs[1] /\ symTabs[1] = IndexRange(1)
      BY <1>3, <2>3, EmptySeq DEF SymTabsOK, Last
    <3>2. nSyms = Count(1) /\ next = 2
      BY <2>3, <3>1 DEF IndexRange
    <3>3. Count(2) = IF file.symTabs[2] = None THEN 0 ELSE count
      BY <3>2 DEF Count
    <3>4. Count(1) \in 0..IdW - 1 /\ (Count(1) + 0) % IdW = Count(1)
      <4>1. Count(1) \in 0..IdW - 1
        BY TableFacts DEF SymID
      <4> HIDE DEF count
      <4> QED
        BY <1>1, <4>1
    <3> HIDE DEF count, nSyms, next
    <3> QED
      BY <2>1, <2>3, <3>2, <3>3, <3>4 DEF IndexRange, next
  <2> QED
    BY <1>3, <2>2, <2>3
<1>5. \A t : IndexRange(t)' = IndexRange(t)
  BY <1>1 DEF IndexRange, Count
<1>6. IndexRange(Len(symTabs) + 1) \in [start : SymID, end : SymID]
  BY <1>2, <1>3 DEF IndexRange
<1>7. /\ symTabs' \in Seq([start : SymID, end : SymID])
      /\ Len(symTabs') = Len(symTabs) + 1
      /\ \A k \in 1..Len(symTabs) : symTabs'[k] = symTabs[k]
      /\ symTabs'[Len(symTabs) + 1] = IndexRange(Len(symTabs) + 1)
  BY <1>3, <1>4, <1>6, AppendProperties
<1> QED
  BY <1>3, <1>5, <1>7 DEF SymTabsOK

-----------------------------------------------------------------------------
(* The index space *)

\* When the file is open and its symbols can be numbered, the ranges of the two
\* tables lie one after the other.
LEMMA RangeFacts ==
  ASSUME SymsOK(file), SymTabsOK, Opened, Numberable
  PROVE  /\ Count(1) \in Nat /\ Count(2) \in Nat /\ IdW \in Nat /\ Count(1) + Count(2) < IdW
         /\ symTabs[1] = [start |-> 0, end |-> Count(1)]
         /\ symTabs[2] = [start |-> Count(1), end |-> Count(1) + Count(2)]
         /\ NumSyms = Count(1) + Count(2)
<1>1. symTabs[1] = IndexRange(1) /\ symTabs[2] = IndexRange(2)
  BY DEF SymTabsOK, Opened
<1>2. symTabs[1] = [start |-> 0, end |-> Count(1)]
  BY <1>1 DEF IndexRange
<1>3. symTabs[2] = [start |-> Count(1), end |-> Count(1) + Count(2)]
  BY <1>1, NumberableFacts DEF IndexRange
<1> QED
  BY <1>2, <1>3, NumberableFacts, SymsAssumption DEF NumSyms

\* The entries with a SymID are those counted.
LEMMA EntryCounted ==
  ASSUME SymsOK(file), Numberable, NEW t \in 1..2, NEW n \in SymID
  PROVE  n \in 1..Count(t) <=> n # 0 /\ file.symTabs[t] # None /\ n < Len(file.symTabs[t])
<1>1. IdW \in Nat /\ n \in 0..IdW - 1
  BY SymsAssumption DEF SymID
<1>2. CASE file.symTabs[t] = None
  BY <1>1, <1>2 DEF Count
<1>3. CASE file.symTabs[t] # None
  <2> DEFINE c == Count(t)  len == Len(file.symTabs[t])
  <2>1. c = len - 1 /\ len \in Nat
    BY <1>3, NumberableFacts, TableFacts
  <2> HIDE DEF c, len
  <2>2. n \in 1..c <=> n # 0 /\ n < len
    BY <1>1, <2>1
  <2> QED
    BY <1>3, <2>2 DEF c, len
<1> QED
  BY <1>2, <1>3

\* A relocation's index finds the SymID of the entry it names, and no other does.
LEMMA LookupRight ==
  ASSUME SymsOK(file), SymTabsOK, Opened, Numberable, NEW t \in 0..2, NEW n \in SymID
  PROVE  Lookup(t, n) = IF t # 0 /\ n \in 1..Count(t)
                        THEN (IF t = 1 THEN 0 ELSE Count(1)) + n - 1
                        ELSE NoSym
<1> DEFINE start == IF t = 2 THEN Count(1) ELSE 0
           size == IF t = 0 THEN 0 ELSE Count(t)
           id == (n + IdW - 1 + start) % IdW
<1>1. IdW \in Nat \ {0} /\ n \in 0..IdW - 1
  BY SymsAssumption DEF SymID
<1>2. start \in Nat /\ size \in Nat /\ start + size < IdW
  BY RangeFacts
<1>3. /\ (IF t = 0 THEN [start |-> 0, end |-> 0] ELSE symTabs[t]).start = start
      /\ (IF t = 0 THEN [start |-> 0, end |-> 0] ELSE symTabs[t]).end = start + size
  BY RangeFacts
<1>4. Lookup(t, n) = IF start <= id /\ id < start + size THEN id ELSE NoSym
  BY <1>3 DEF Lookup
<1>5. start <= id /\ id < start + size <=> n \in 1..size
  <2> HIDE DEF start, size
  <2>1. CASE n + start >= 1 /\ n + start <= IdW
    <3>1. id = n + start - 1
      BY <1>1, <1>2, <2>1
    <3> QED
      BY <1>1, <1>2, <3>1
  <2>2. CASE n + start = 0
    <3>1. id = IdW - 1
      BY <1>1, <1>2, <2>2
    <3> QED
      BY <1>1, <1>2, <2>2, <3>1
  <2>3. CASE n + start > IdW
    <3>1. id = n + start - 1 - IdW
      BY <1>1, <1>2, <2>3
    <3> QED
      BY <1>1, <1>2, <2>3, <3>1
  <2> QED
    BY <1>1, <1>2, <2>1, <2>2, <2>3
<1>6. n \in 1..size => id = start + n - 1
  <2> HIDE DEF start, size
  <2> QED
    BY <1>1, <1>2
<1>7. n \in 1..size <=> t # 0 /\ n \in 1..Count(t)
  BY <1>1
<1>8. CASE n \in 1..size
  <2>1. Lookup(t, n) = start + n - 1
    BY <1>4, <1>5, <1>6, <1>8
  <2>2. start = IF t = 1 THEN 0 ELSE Count(1)
    BY <1>7, <1>8
  <2> QED
    BY <1>7, <1>8, <2>1, <2>2
<1>9. CASE n \notin 1..size
  BY <1>4, <1>5, <1>7, <1>9
<1> QED
  BY <1>8, <1>9

\* A SymID is read from the entry whose SymID it is, if that entry can be read.
LEMMA SymRight ==
  ASSUME SymsOK(file), SymTabsOK, Opened, Numberable, NEW t \in 1..2, NEW n \in 1..Count(t),
         NEW id, id = (IF t = 1 THEN 0 ELSE Count(1)) + n - 1
  PROVE  /\ id \in 0..NumSyms - 1
         /\ Sym(id).ok => Sym(id).table = t /\ Sym(id).row = n
         /\ ~ Sym(id).ok => ~ file.symTabs[t][n + 1].named
<1> DEFINE tab == IF id < symTabs[1].end THEN 1 ELSE 2
           row == (id + IdW - symTabs[tab].start + 1) % IdW
<1>1. /\ Count(1) \in Nat /\ Count(2) \in Nat /\ IdW \in Nat \ {0} /\ Count(1) + Count(2) < IdW
      /\ symTabs[1].end = Count(1) /\ symTabs[1].start = 0
      /\ symTabs[2].end = Count(1) + Count(2) /\ symTabs[2].start = Count(1)
      /\ NumSyms = Count(1) + Count(2)
  BY RangeFacts, SymsAssumption
<1>2. Count(t) \in Nat /\ n \in 1..Count(t) /\ (t = 1 \/ t = 2)
  BY <1>1
<1>3. id \in 0..NumSyms - 1
  BY <1>1, <1>2
<1>4. tab = t
  BY <1>1, <1>2
<1>5. id < symTabs[t].end /\ ~ (id >= symTabs[t].end)
  BY <1>1, <1>2
<1>6. id + IdW - symTabs[t].start + 1 = IdW + n
  BY <1>1, <1>2
<1>7. n < IdW
  BY <1>1, <1>2
<1>8. row = n
  <2>1. row = (IdW + n) % IdW
    BY <1>4, <1>6
  <2>2. (IdW + n) % IdW = n
    BY <1>1, <1>2, <1>7
  <2> QED
    BY <2>1, <2>2
<1>9. file.symTabs[t] # None /\ ~ (n >= Len(file.symTabs[t]))
  <2>1. n \in SymID
    BY <1>1, <1>2, <1>7 DEF SymID
  <2>2. file.symTabs[t] # None /\ n < Len(file.symTabs[t])
    BY <2>1, EntryCounted
  <2>3. Len(file.symTabs[t]) \in Nat
    BY <2>2, TableFacts
  <2> QED
    BY <1>2, <2>2, <2>3
<1>10. Sym(id) =
         LET entry == file.symTabs[t][n + 1]
         IN IF ~ (entry.ofSection /\ entry.shn # None) /\ ~ entry.named THEN Panic("offset")
            ELSE [ok |-> TRUE, table |-> t, row |-> n,
                  section |-> entry.shn, value |-> entry.value, size |-> entry.size]
  <2> HIDE DEF tab, row
  <2> QED
    BY <1>4, <1>5, <1>8, <1>9 DEF Sym, tab, row
<1> QED
  BY <1>3, <1>10 DEF Panic

\* Every SymID is that of an entry.
LEMMA SymIDNames ==
  ASSUME SymsOK(file), SymTabsOK, Opened, Numberable, NEW id \in 0..NumSyms - 1
  PROVE  \E t \in 1..2 : \E n \in 1..Count(t) : id = (IF t = 1 THEN 0 ELSE Count(1)) + n - 1
<1>1. Count(1) \in Nat /\ Count(2) \in Nat /\ NumSyms = Count(1) + Count(2)
  BY RangeFacts
<1>2. CASE id < Count(1)
  <2>1. id + 1 \in 1..Count(1) /\ id = 0 + (id + 1) - 1
    BY <1>1, <1>2
  <2> QED
    BY <2>1
<1>3. CASE id >= Count(1)
  <2>1. id - Count(1) + 1 \in 1..Count(2) /\ id = Count(1) + (id - Count(1) + 1) - 1
    BY <1>1, <1>3
  <2> QED
    BY <2>1
<1> QED
  BY <1>1, <1>2, <1>3

\* The two tables are numbered as one index space, sequentially from 0, and a
\* relocation's index and a SymID name the same entry (elfSym.go:28-83).
THEOREM IndexSpace ==
  ASSUME SymsOK(file), SymTabsOK
  PROVE  IndexSpaceRight
<1> SUFFICES ASSUME Opened, Numberable
             PROVE  IndexSpaceRight
  BY DEF IndexSpaceRight
<1> DEFINE entries == {e \in (1..2) \X (1..IdW - 1) :
                         file.symTabs[e[1]] # None /\ e[2] < Len(file.symTabs[e[1]])}
<1>1. /\ Count(1) \in Nat /\ Count(2) \in Nat /\ IdW \in Nat \ {0} /\ Count(1) + Count(2) < IdW
      /\ NumSyms = Count(1) + Count(2)
  BY RangeFacts, SymsAssumption
<1>2. ASSUME NEW t \in 0..2, NEW n \in SymID
      PROVE  <<t, n>> \in entries <=> t # 0 /\ n \in 1..Count(t)
  <2>1. n \in 0..IdW - 1
    BY DEF SymID
  <2>2. <<t, n>> \in entries <=>
          t # 0 /\ n # 0 /\ file.symTabs[t] # None /\ n < Len(file.symTabs[t])
    BY <1>1, <2>1
  <2> HIDE DEF entries
  <2>3. CASE t = 0
    BY <2>2, <2>3
  <2>4. CASE t \in 1..2
    BY <2>2, <2>4, EntryCounted
  <2> QED
    BY <2>3, <2>4
<1>3. ASSUME NEW e \in entries
      PROVE  \E t \in 1..2 : \E n \in 1..Count(t) : e = <<t, n>>
  <2>1. e[1] \in 1..2 /\ e[2] \in SymID /\ e = <<e[1], e[2]>>
    BY <1>1 DEF SymID
  <2>2. e[2] \in 1..Count(e[1])
    <3>1. e[1] \in 0..2 /\ <<e[1], e[2]>> \in entries
      BY <2>1
    <3> HIDE DEF entries
    <3> QED
      BY <1>2, <2>1, <3>1
  <2> QED
    BY <2>1, <2>2
<1>4. \A t \in 1..2 : \A n \in 1..Count(t) : n \in SymID /\ <<t, n>> \in entries
  <2> SUFFICES ASSUME NEW t \in 1..2, NEW n \in 1..Count(t)
               PROVE  n \in SymID /\ <<t, n>> \in entries
    OBVIOUS
  <2>1. n \in SymID
    BY <1>1 DEF SymID
  <2> HIDE DEF entries
  <2> QED
    BY <1>2, <2>1
<1> HIDE DEF entries
<1>5. NumSyms = Cardinality(entries)
  <2> DEFINE f == [k \in 1..NumSyms |-> IF k <= Count(1) THEN <<1, k>> ELSE <<2, k - Count(1)>>]
  <2>1. ASSUME NEW k \in 1..NumSyms
        PROVE  f[k] \in entries
    <3>1. CASE k <= Count(1)
      BY <1>1, <1>4, <3>1
    <3>2. CASE k > Count(1)
      <4>1. k - Count(1) \in 1..Count(2) /\ ~ (k <= Count(1))
        BY <1>1, <3>2
      <4> QED
        BY <1>4, <4>1
    <3> QED
      BY <1>1, <3>1, <3>2
  <2>2. f \in [1..NumSyms -> entries]
    BY <2>1
  <2>3. \A a, b \in 1..NumSyms : f[a] = f[b] => a = b
    BY <1>1
  <2>4. ASSUME NEW e \in entries
        PROVE  \E k \in 1..NumSyms : f[k] = e
    <3>0. PICK t \in 1..2 : \E n \in 1..Count(t) : e = <<t, n>>
      BY <1>3
    <3>1. PICK n \in 1..Count(t) : e = <<t, n>>
      BY <3>0
    <3>2. CASE t = 1
      <4>1. n \in 1..NumSyms /\ f[n] = e
        BY <1>1, <3>1, <3>2
      <4> QED
        BY <4>1
    <3>3. CASE t = 2
      <4> DEFINE j == n + Count(1)
      <4>1. j \in 1..NumSyms /\ ~ (j <= Count(1)) /\ j - Count(1) = n
        BY <1>1, <3>1, <3>3
      <4> HIDE DEF j
      <4>2. f[j] = <<2, n>>
        BY <4>1
      <4> QED
        BY <3>1, <3>3, <4>1, <4>2
    <3> QED
      BY <3>2, <3>3
  <2> HIDE DEF f
  <2>5. f \in Bijection(1..NumSyms, entries)
    BY <2>2, <2>3, <2>4 DEF Bijection, Injection, Surjection, IsInjective
  <2> QED
    BY <1>1, <2>5, FS_CountingElements DEF ExistsBijection
<1>6. ASSUME NEW id \in 0..NumSyms - 1
      PROVE  /\ Sym(id).ok => Lookup(Sym(id).table, Sym(id).row) = id
             /\ ~ Sym(id).ok => \E e \in entries : ~ file.symTabs[e[1]][e[2] + 1].named
  <2>0. PICK t \in 1..2 : \E n \in 1..Count(t) : id = (IF t = 1 THEN 0 ELSE Count(1)) + n - 1
    BY SymIDNames
  <2>1. PICK n \in 1..Count(t) : id = (IF t = 1 THEN 0 ELSE Count(1)) + n - 1
    BY <2>0
  <2>2. n \in SymID /\ <<t, n>> \in entries /\ t \in 0..2 /\ t # 0
    BY <1>4
  <2>3. /\ Sym(id).ok => Sym(id).table = t /\ Sym(id).row = n
        /\ ~ Sym(id).ok => ~ file.symTabs[t][n + 1].named
    BY <2>1, SymRight
  <2>4. Lookup(t, n) = id
    BY <2>1, <2>2, LookupRight
  <2> QED
    BY <2>2, <2>3, <2>4
<1>7. ASSUME NEW t \in 0..2, NEW n \in SymID
      PROVE  IF <<t, n>> \in entries
             THEN Sym(Lookup(t, n)).ok => Sym(Lookup(t, n)).table = t /\ Sym(Lookup(t, n)).row = n
             ELSE Lookup(t, n) = NoSym
  <2>1. CASE t # 0 /\ n \in 1..Count(t)
    <3>1. t \in 1..2 /\ Lookup(t, n) = (IF t = 1 THEN 0 ELSE Count(1)) + n - 1
      BY <2>1, LookupRight
    <3> QED
      BY <1>2, <2>1, <3>1, SymRight
  <2>2. CASE ~ (t # 0 /\ n \in 1..Count(t))
    BY <1>2, <2>2, LookupRight
  <2> QED
    BY <2>1, <2>2
<1> QED
  BY <1>5, <1>6, <1>7 DEF IndexSpaceRight, entries

-----------------------------------------------------------------------------
(* Ranges of data *)

\* The comparisons, made in wrapping arithmetic, are right for a request that does
\* not wrap around and for a range that does not.
LEMMA WithinRight ==
  ASSUME NEW addr \in Word, NEW size \in Word, NEW low \in Word, NEW length \in Word
  PROVE  /\ (addr + size) % W < addr <=> ~ (addr + size < W)
         /\ addr + size < W /\ Within(addr, size, low, length) => Inside(addr, size, low, length)
         /\ Inside(addr, size, low, length) /\ Bounded(low, length) =>
              addr + size < W /\ Within(addr, size, low, length)
<1>1. /\ W \in Nat \ {0} /\ addr \in 0..W - 1 /\ size \in 0..W - 1
      /\ low \in 0..W - 1 /\ length \in 0..W - 1
  BY SymsAssumption DEF Word
<1> DEFINE end == (addr + size) % W  top == (low + length) % W
<1>2. end = IF addr + size < W THEN addr + size ELSE addr + size - W
  BY <1>1, SumMod
<1>3. top = IF low + length < W THEN low + length ELSE low + length - W
  BY <1>1, SumMod
<1>4. Within(addr, size, low, length) <=> addr >= low /\ end <= top
  BY DEF Within
<1> HIDE DEF end, top
<1>5. end < addr <=> ~ (addr + size < W)
  BY <1>1, <1>2
<1>6. addr + size < W /\ Within(addr, size, low, length) => Inside(addr, size, low, length)
  BY <1>1, <1>2, <1>3, <1>4 DEF Inside
<1>7. Inside(addr, size, low, length) /\ Bounded(low, length) =>
        addr + size < W /\ Within(addr, size, low, length)
  BY <1>1, <1>2, <1>3, <1>4 DEF Inside, Bounded
<1> QED
  BY <1>5, <1>6, <1>7 DEF end

\* The sections of a file.
LEMMA SectionFacts ==
  ASSUME SymsOK(file)
  PROVE  /\ Len(file.sections) \in Nat /\ Section = 1..Len(file.sections) /\ None \notin Section
         /\ \A s \in Section : /\ file.sections[s].addr \in Word /\ file.sections[s].size \in Word
                              /\ file.sections[s].alloc \in BOOLEAN
<1> DEFINE F == [addr : Word, size : Word, alloc : BOOLEAN]
<1>1. file.sections \in Seq(F)
  BY DEF SymsOK
<1>2. Len(file.sections) \in Nat /\ Section = 1..Len(file.sections)
  BY <1>1, LenProperties DEF Section
<1>3. \A s \in Section : file.sections[s] \in F
  BY <1>1, <1>2, ElementOfSeq
<1> QED
  BY <1>2, <1>3, SymsAssumption

\* What the two checks of Section.Data let through does not wrap around, and what
\* is inside the section passes them.
LEMMA SectionDataRight ==
  ASSUME SymsOK(file), NEW s \in Section, NEW addr \in Word, NEW size \in Word
  PROVE  DataRight(s, file.sections[s], SectionData(s, addr, size), addr, size)
<1> DEFINE sec == file.sections[s]
           data == SectionData(s, addr, size)
<1>1. sec.addr \in Word /\ sec.size \in Word
  BY SectionFacts
<1>2. data.ok <=> ~ ((addr + size) % W < addr) /\ Within(addr, size, sec.addr, sec.size)
  BY DEF SectionData, Panic
<1>3. data.ok => data.section = s /\ data.off = addr - sec.addr
  BY DEF SectionData, Panic
<1> HIDE DEF sec, data
<1>4. data.ok => Inside(addr, size, sec.addr, sec.size)
  BY <1>1, <1>2, WithinRight
<1>5. Inside(addr, size, sec.addr, sec.size) /\ Bounded(sec.addr, sec.size) => data.ok
  BY <1>1, <1>2, WithinRight
<1> QED
  BY <1>3, <1>4, <1>5 DEF DataRight, sec, data

\* So do the checks of Sym.Data and Section.Data together.
LEMMA SymDataRight ==
  ASSUME SymsOK(file), NEW sym, sym.section \in Section, None \notin Section,
         sym.value \in Word, sym.size \in Word,
         NEW addr \in Word, NEW size \in Word
  PROVE  DataRight(sym.section, [addr |-> sym.value, size |-> sym.size],
                   SymData(sym, addr, size), addr, size)
<1> DEFINE sec == file.sections[sym.section]
           inner == SectionData(sym.section, addr, size)
           data == SymData(sym, addr, size)
<1>1. sec.addr \in Word /\ sec.size \in Word
  BY SectionFacts
<1>2. data = IF ~ Within(addr, size, sym.value, sym.size) THEN Panic("outside symbol") ELSE inner
  BY DEF SymData
<1>3. /\ inner.ok => /\ Inside(addr, size, sec.addr, sec.size)
                     /\ inner.section = sym.section /\ inner.off = addr - sec.addr
      /\ Inside(addr, size, sec.addr, sec.size) /\ Bounded(sec.addr, sec.size) => inner.ok
  BY SectionDataRight DEF DataRight
<1>4. Panic("outside symbol").ok = FALSE
  BY DEF Panic
<1>5. inner.ok => addr + size < W
  <2>1. inner.ok => ~ ((addr + size) % W < addr)
    BY DEF SectionData, Panic
  <2> HIDE DEF sec, inner, data
  <2> QED
    BY <1>1, <2>1, WithinRight
<1> HIDE DEF sec, inner, data
<1>6. data.ok => Within(addr, size, sym.value, sym.size) /\ inner.ok /\ data = inner
  BY <1>2, <1>4
<1>7. data.ok => Inside(addr, size, sym.value, sym.size)
  BY <1>5, <1>6, WithinRight
<1>8. Inside(addr, size, sym.value, sym.size) /\ Bounded(sym.value, sym.size) /\ inner.ok => data.ok
  BY <1>2, WithinRight
<1> DEFINE range == [addr |-> sym.value, size |-> sym.size]
<1>9. range.addr = sym.value /\ range.size = sym.size
  OBVIOUS
<1> HIDE DEF range
<1>10. DataRight(sym.section, range, data, addr, size)
  BY <1>3, <1>6, <1>7, <1>8, <1>9 DEF DataRight, sec
<1> QED
  BY <1>10 DEF range, data

\* A symbol that could be read has the bounds of an entry.
LEMMA SymType ==
  ASSUME SymsOK(file), SymTabsOK, Opened, NEW id \in 0..NumSyms - 1, Sym(id).ok
  PROVE  Sym(id).section \in Section \cup {None} /\ Sym(id).value \in Word /\ Sym(id).size \in Word
<1> DEFINE t == IF id < symTabs[1].end THEN 1 ELSE 2
           row == (id + IdW - symTabs[t].start + 1) % IdW
           entry == file.symTabs[t][row + 1]
<1>1. symTabs[1] = IndexRange(1) /\ symTabs[2] = IndexRange(2) /\ IdW \in Nat \ {0}
  BY SymsAssumption DEF SymTabsOK, Opened
<1>2. Count(1) \in 0..IdW - 1 /\ Count(2) \in 0..IdW - 1
  BY TableFacts DEF SymID
<1>3. id \in Nat /\ t \in 1..2 /\ symTabs[t].start \in 0..IdW - 1
  <2>1. /\ symTabs[1].start = 0 /\ symTabs[1].end = Count(1)
        /\ symTabs[2].start = Count(1)
    BY <1>1 DEF IndexRange
  <2>2. id \in Nat
    BY <1>1, <1>2 DEF NumSyms, IndexRange
  <2> QED
    BY <1>1, <1>2, <2>1, <2>2
<1> HIDE DEF t
<1>4. row \in Nat
  BY <1>1, <1>3
<1>5. /\ ~ (id >= symTabs[t].end) /\ ~ (row >= Len(file.symTabs[t]))
      /\ Sym(id).section = entry.shn /\ Sym(id).value = entry.value /\ Sym(id).size = entry.size
  BY DEF Sym, Panic, t
<1>6. file.symTabs[t] # None
  <2>1. SUFFICES ASSUME file.symTabs[t] = None
                 PROVE  id >= symTabs[t].end
    BY <1>5
  <2>2. Count(t) = 0
    BY <2>1 DEF Count
  <2>3. CASE t = 1
    BY <1>1, <1>3, <2>2, <2>3 DEF IndexRange
  <2>4. CASE t = 2
    <3>1. symTabs[2].end = Count(1)
      BY <1>1, <1>2, <2>2, <2>4 DEF IndexRange
    <3>2. ~ (id < Count(1))
      BY <1>1, <2>4 DEF t, IndexRange
    <3> QED
      BY <1>2, <1>3, <2>4, <3>1, <3>2
  <2> QED
    BY <1>3, <2>3, <2>4
<1>7. entry \in SymEntries(file)
  <2> DEFINE len == Len(file.symTabs[t])
  <2>1. len \in Nat /\ ~ (row >= len)
    BY <1>3, <1>5, <1>6, TableFacts
  <2> HIDE DEF len, row
  <2>2. row + 1 \in 1..len
    BY <1>4, <2>1
  <2> QED
    BY <1>3, <1>6, <2>2, TableFacts DEF len
<1> QED
  BY <1>5, <1>7 DEF SymEntries, Section

\* Whatever range a client asks for, it gets bytes of that range only, and what is
\* inside its section and symbol is granted (sym.go:177, elf.go:381-387).
THEOREM Ranges ==
  ASSUME SymsOK(file), SymTabsOK, Opened
  PROVE  RangesRight
<1>1. None \notin Section
  BY SectionFacts
<1>2. ASSUME NEW addr \in Word, NEW size \in Word, NEW id \in 0..NumSyms - 1,
             Sym(id).ok, Sym(id).section # None
      PROVE  DataRight(Sym(id).section, [addr |-> Sym(id).value, size |-> Sym(id).size],
                       SymData(Sym(id), addr, size), addr, size)
  <2>1. Sym(id).section \in Section /\ Sym(id).value \in Word /\ Sym(id).size \in Word
    BY <1>2, SymType
  <2> QED
    BY <1>1, <2>1, SymDataRight
<1> QED
  BY <1>2, SectionDataRight DEF RangesRight

-----------------------------------------------------------------------------
(* Files *)

\* The parts of a relocation section.
LEMMA RelFacts ==
  ASSUME FileOK(file)
  PROVE  /\ SymsOK(file) /\ file.relocatable \in BOOLEAN
         /\ Len(file.rels) \in Nat \ {0} /\ RelSection = 1..Len(file.rels)
         /\ \A r \in RelSection :
              /\ file.rels[r].type \in {"rel", "rela32", "rela64"}
              /\ file.rels[r].target \in Section \cup {None}
              /\ file.rels[r].symTab \in 0..2 /\ file.rels[r].addr \in Word
              /\ file.rels[r].entries \in Seq(RelEntry)
              /\ file.rels[r].symTab # 0 => file.symTabs[file.rels[r].symTab] # None
              /\ Distance(r) \in Word
<1> DEFINE T == [type : {"rel", "rela32", "rela64"}, target : DOMAIN file.sections \cup {None},
                 symTab : 0..2, addr : Word, entries : Seq(RelEntry)]
<1>1. /\ SymsOK(file) /\ file.relocatable \in BOOLEAN /\ file.rels # <<>> /\ file.rels \in Seq(T)
      /\ \A r \in DOMAIN file.rels : file.rels[r].symTab # 0 => file.symTabs[file.rels[r].symTab] # None
  BY DEF FileOK
<1>2. Len(file.rels) \in Nat \ {0} /\ RelSection = 1..Len(file.rels)
  BY <1>1, LenProperties, EmptySeq DEF RelSection
<1>3. \A r \in RelSection : file.rels[r] \in T
  BY <1>1, <1>2, ElementOfSeq
<1>4. 0 \in Word
  BY SymsAssumption DEF Word
<1> QED
  BY <1>1, <1>2, <1>3, <1>4 DEF RelSection, Section, Distance

\* Looking a symbol up gives a SymID.
LEMMA LookupType ==
  ASSUME SymsOK(file), SymTabsOK, Opened, NEW t \in 0..2, NEW n \in SymID
  PROVE  Lookup(t, n) \in SymID
<1>1. IdW \in Nat \ {0} /\ n \in Nat
  BY SymsAssumption DEF SymID
<1>2. (IF t = 0 THEN [start |-> 0, end |-> 0] ELSE symTabs[t]).start \in Nat
  <2>1. Count(1) \in Nat
    BY TableFacts DEF SymID
  <2> QED
    BY <1>1, <2>1 DEF SymTabsOK, Opened, IndexRange
<1> DEFINE start == (IF t = 0 THEN [start |-> 0, end |-> 0] ELSE symTabs[t]).start
           id == (n + IdW - 1 + start) % IdW
<1>3. Lookup(t, n) \in {id, NoSym}
  BY DEF Lookup
<1> HIDE DEF start
<1>4. id \in 0..IdW - 1 /\ NoSym \in 0..IdW - 1
  BY <1>1, <1>2 DEF NoSym, start
<1> QED
  BY <1>3, <1>4 DEF SymID

\* A non-empty set of naturals has a least element.
LEMMA LeastNat ==
  ASSUME NEW T \in SUBSET Nat, T # {}
  PROVE  Min(T) \in T /\ \A y \in T : Min(T) <= y
<1> DEFINE R == {p \in Nat \X Nat : p[1] < p[2]}
<1>1. IsWellFoundedOn(R, Nat)
  BY NatLessThanWellFounded DEF OpToRel
<1>2. PICK x \in T : \A y \in T : ~ (<<y, x>> \in R)
  BY <1>1, WFMin
<1>3. ASSUME NEW y \in T PROVE x <= y
  <2>1. x \in Nat /\ y \in Nat
    OBVIOUS
  <2>2. ~ (y < x)
    BY <1>2, <2>1
  <2> QED
    BY <2>1, <2>2
<1>4. \E z \in T : \A y \in T : z <= y
  BY <1>3
<1> QED
  BY <1>4 DEF Min

\* ResolveAddr finds a loaded section that holds the address, and the only one if
\* there is only one.
LEMMA ResolveAddrRight ==
  ASSUME FileOK(file), NEW a \in Word
  PROVE  /\ ResolveAddr(a) \in Section \cup {None}
         /\ ResolveAddr(a) # None => ~ file.relocatable /\ file.sections[ResolveAddr(a)].alloc
         /\ Apart /\ ~ file.relocatable =>
              \A s \in Section : Holds(s, a) => ResolveAddr(a) = s
<1> DEFINE holders == {s \in Section : /\ file.sections[s].alloc
                                       /\ file.sections[s].addr <= a
                                       /\ a - file.sections[s].addr < file.sections[s].size}
<1>1. Section = 1..Len(file.sections) /\ Len(file.sections) \in Nat /\ None \notin Section
  BY RelFacts, SectionFacts
<1>2. holders \in SUBSET Nat
  BY <1>1
<1>3. holders # {} => Min(holders) \in holders
  <2> HIDE DEF holders
  <2> QED
    BY <1>2, LeastNat
<1>4. ResolveAddr(a) = IF file.relocatable \/ holders = {} THEN None ELSE Min(holders)
  BY DEF ResolveAddr
<1>5. \A s \in Section : s \in holders <=> Holds(s, a)
  <2> SUFFICES ASSUME NEW s \in Section PROVE s \in holders <=> Holds(s, a)
    OBVIOUS
  <2>1. file.sections[s].addr \in Nat /\ file.sections[s].size \in Nat /\ a \in Nat
    BY RelFacts, SectionFacts, SymsAssumption DEF Word
  <2> QED
    BY <2>1 DEF Holds
<1>6. holders \subseteq Section /\ \A s \in holders : file.sections[s].alloc
  OBVIOUS
<1> HIDE DEF holders
<1>7. ResolveAddr(a) \in Section \cup {None}
  BY <1>3, <1>4, <1>6
<1>8. ResolveAddr(a) # None => ~ file.relocatable /\ file.sections[ResolveAddr(a)].alloc
  BY <1>3, <1>4, <1>6
<1>9. ASSUME Apart, ~ file.relocatable, NEW s \in Section, Holds(s, a)
      PROVE  ResolveAddr(a) = s
  <2>1. s \in holders
    BY <1>5, <1>9
  <2>2. ResolveAddr(a) = Min(holders) /\ Min(holders) \in holders
    BY <1>3, <1>4, <1>9, <2>1
  <2>3. Holds(Min(holders), a) /\ Min(holders) \in Section
    BY <1>5, <1>6, <2>2
  <2> QED
    BY <1>9, <2>2, <2>3 DEF Apart
<1> QED
  BY <1>7, <1>8, <1>9

-----------------------------------------------------------------------------
(* Lists of relocations *)

\* The places of a list and what is there.
LEMMA ListElements ==
  ASSUME NEW S, NEW list \in Seq(S)
  PROVE  DOMAIN list = 1..Len(list) /\ Len(list) \in Nat /\ \A k \in DOMAIN list : list[k] \in S
BY LenProperties, ElementOfSeq

\* What sort.Slice leaves is sorted, whatever it does with equal addresses.
LEMMA SortedOrdersSorted ==
  ASSUME NEW list, NEW result \in SortedOrders(list)
  PROVE  Sorted(result)
BY DEF SortedOrders

\* ... and has the elements of the list, no more and no fewer places.
LEMMA SortedOrdersRight ==
  ASSUME NEW S, NEW list \in Seq(S), NEW result \in SortedOrders(list)
  PROVE  /\ result \in Seq(S) /\ Len(result) = Len(list)
         /\ \A k \in 1..Len(result) : \E j \in 1..Len(list) : result[k] = list[j]
<1>1. DOMAIN list = 1..Len(list) /\ Len(list) \in Nat
  BY LenProperties
<1>2. PICK p \in [DOMAIN list -> DOMAIN list] : result = [k \in DOMAIN list |-> list[p[k]]]
  BY DEF SortedOrders
<1>3. \A k \in 1..Len(list) : p[k] \in 1..Len(list) /\ result[k] = list[p[k]]
  BY <1>1, <1>2
<1>4. \A k \in 1..Len(list) : list[k] \in S
  BY ElementOfSeq
<1>5. result \in [1..Len(list) -> S]
  BY <1>1, <1>2, <1>3, <1>4
<1>6. result \in Seq(S) /\ Len(result) = Len(list)
  BY <1>1, <1>5, SeqDef, LenProperties
<1> QED
  BY <1>3, <1>6

\* A relocation as it is decoded, before it is moved.
LEMMA DecodedRight ==
  ASSUME FileOK(file), SymTabsOK, Opened, NEW r \in RelSection, NEW e \in RelEntry
  PROVE  /\ Decoded(file.rels[r], e) \in Reloc
         /\ Decoded(file.rels[r], e).addr = e.off
         /\ Decoded(file.rels[r], e).symbol = Lookup(file.rels[r].symTab, e.sym)
<1> DEFINE rel == file.rels[r]
           val == CASE rel.type = "rel" -> 0
                    [] rel.type = "rela32" -> Unsigned(e.add)
                    [] rel.type = "rela64" -> Signed(e.add)
<1>1. rel.type \in {"rel", "rela32", "rela64"} /\ rel.symTab \in 0..2
  BY RelFacts
<1>2. e.off \in Word /\ e.size \in RelocSize /\ e.add \in 0..3 /\ e.sym \in SymID
  BY DEF RelEntry
<1>3. Lookup(rel.symTab, e.sym) \in SymID
  BY <1>1, <1>2, LookupType, RelFacts
<1>4. val \in Int
  BY <1>1, <1>2 DEF Unsigned, Signed
<1>5. Decoded(rel, e) = [addr |-> e.off, size |-> e.size, symbol |-> Lookup(rel.symTab, e.sym),
                         addend |-> [in |-> None, val |-> val]]
  BY DEF Decoded, Addend
<1> HIDE DEF rel, val
<1>6. [in |-> None, val |-> val] \in [in : Section \cup {None}, val : Int]
  BY <1>4
<1> QED
  BY <1>2, <1>3, <1>5, <1>6 DEF Reloc, rel

\* The empty list is one of any section.
LEMMA EmptyListOf ==
  ASSUME NEW r, NEW by
  PROVE  ListOf(r, <<>>, by)
BY EmptySeq DEF ListOf, Sorted

\* At first none of its relocations needs an addend to be right.
LEMMA NoAddends ==
  ASSUME NEW r, NEW list
  PROVE  AddendsOK(r, list, 0)
BY DEF AddendsOK

\* No section has results that are wrong if none was read.
LEMMA EmptyResult ==
  ASSUME FileOK(file), NEW r \in RelSection, NEW ok \in BOOLEAN, NEW why \in {"", "error", "bad type"}
  PROVE  /\ [ok |-> ok, why |-> why, list |-> <<>>] \in Result
         /\ ResultOK(r, [ok |-> ok, why |-> why, list |-> <<>>])
<1> DEFINE res == [ok |-> ok, why |-> why, list |-> <<>>]
<1>1. res.list = <<>> /\ res.ok = ok /\ res.why = why
  OBVIOUS
<1>2. <<>> \in Seq(Reloc) /\ Len(<<>>) = 0
  BY EmptySeq
<1>3. res \in Result
  BY <1>2 DEF Result, Failures
<1> HIDE DEF res
<1>4. ListOf(r, res.list, Distance(r))
  BY <1>1, EmptyListOf
<1>5. AddendsOK(r, res.list, Len(res.list))
  <2>1. AddendsOK(r, <<>>, 0)
    BY NoAddends
  <2> QED
    BY <1>1, <1>2, <2>1
<1>6. res.why \notin {"nil section", "out of range"}
  BY <1>1
<1>7. ResultOK(r, res)
  BY <1>4, <1>5, <1>6 DEF ResultOK
<1> QED
  BY <1>3, <1>7 DEF res

\* Initially nothing is read.
LEMMA InitInv == Init => IInv
<1> SUFFICES ASSUME Init PROVE IInv
  OBVIOUS
<1>1. FileOK(file)
  BY FilesAssumption DEF Init
<1>2. Len(file.rels) \in Nat \ {0} /\ RelSection = 1..Len(file.rels)
  BY <1>1, RelFacts
<1>3. SymTabsOK /\ symTabs = <<>>
  BY SymsInitOK DEF Init, SymsInit
<1>4. /\ \A r \in RelSection : decoded[r] = Good(<<>>)
      /\ Good(<<>>) = [ok |-> TRUE, why |-> "", list |-> <<>>]
      /\ Good(<<>>).why = "" /\ Good(<<>>).list = <<>>
  BY DEF Init, Good
<1>5. DecodedOK
  <2>1. \A r \in RelSection : decoded[r] \in Result /\ ResultOK(r, decoded[r])
    BY <1>1, <1>4, EmptyResult
  <2>2. decoded = [r \in RelSection |-> decoded[r]]
    BY DEF Init
  <2> QED
    BY <2>1, <2>2 DEF DecodedOK
<1>6. /\ rs = 1 /\ relocs = <<>> /\ i = 1 /\ target = None /\ bytes = None /\ pc = "decode"
  BY DEF Init
<1>7. TypeOK
  <2>1. \A r \in RelSection : decoded[r].why = "" /\ decoded[r].list = <<>>
    BY <1>4
  <2>2. DOMAIN relocs = {} /\ DOMAIN symTabs = {} /\ Len(relocs) = 0
    BY <1>3, <1>6, EmptySeq
  <2>3. rs \in 1..Len(file.rels) + 1 /\ i \in 1..Len(relocs) + 1
    BY <1>2, <1>6, <2>2
  <2> QED
    BY <1>6, <2>1, <2>2, <2>3 DEF TypeOK
<1>8. ReadingOK
  BY <1>6 DEF ReadingOK
<1>9. UnopenedOK
  <2>1. \A r \in RelSection : decoded[r].list = <<>>
    BY <1>4
  <2> QED
    BY <1>6, <2>1 DEF UnopenedOK
<1>10. relocs \in Seq(Reloc)
  BY <1>6, EmptySeq
<1> QED
  BY <1>1, <1>2, <1>3, <1>5, <1>6, <1>7, <1>8, <1>9, <1>10 DEF IInv

-----------------------------------------------------------------------------
(* Steps *)

\* What is said of a file does not change once its symbols are numbered.
LEMMA SameFile ==
  ASSUME file' = file, symTabs' = symTabs
  PROVE  /\ FileOK(file)' = FileOK(file) /\ SymTabsOK' = SymTabsOK /\ Opened' = Opened
         /\ RelSection' = RelSection /\ Section' = Section /\ Reloc' = Reloc /\ Result' = Result
         /\ Fits' = Fits /\ Apart' = Apart
         /\ \A r : Distance(r)' = Distance(r)
         /\ \A r, list, by : ListOf(r, list, by)' = ListOf(r, list, by)
         /\ \A r, list, n : AddendsOK(r, list, n)' = AddendsOK(r, list, n)
         /\ \A r, result : ResultOK(r, result)' = ResultOK(r, result)
<1>1. FileOK(file)' = FileOK(file)
  BY DEF FileOK, SymsOK, SymEntries
<1>2. SymTabsOK' = SymTabsOK /\ Opened' = Opened
  BY DEF SymTabsOK, IndexRange, Count, Opened
<1>3. RelSection' = RelSection /\ Section' = Section /\ Reloc' = Reloc /\ Result' = Result
  BY DEF RelSection, Section, Reloc, Result
<1>4. Fits' = Fits /\ Apart' = Apart
  BY DEF Fits, Apart, Holds, Section
<1>5. \A r : Distance(r)' = Distance(r)
  BY DEF Distance
<1>6. \A r, list, by : ListOf(r, list, by)' = ListOf(r, list, by)
  BY DEF ListOf, Reloc, Section, Lookup
<1>7. \A r, list, n : AddendsOK(r, list, n)' = AddendsOK(r, list, n)
  BY DEF AddendsOK, Home, ResolveAddr, Section
<1>8. \A r, result : ResultOK(r, result)' = ResultOK(r, result)
  BY <1>4, <1>5, <1>6, <1>7 DEF ResultOK
<1> QED
  BY <1>1, <1>2, <1>3, <1>4, <1>5, <1>6, <1>7, <1>8

\* The section being read is one of the file until all are read.
LEMMA ReadingFacts ==
  ASSUME IInv, pc # "ready"
  PROVE  rs \in RelSection
<1>1. Len(file.rels) \in Nat \ {0} /\ RelSection = 1..Len(file.rels)
  BY RelFacts DEF IInv
<1>2. rs \in 1..Len(file.rels) + 1 /\ rs # Len(file.rels) + 1
  BY DEF IInv, TypeOK
<1> QED
  BY <1>1, <1>2

\* Finish keeps the invariant if the result is right.
LEMMA FinishInv ==
  ASSUME IInv, Opened, pc # "ready",
         NEW result \in Result, ResultOK(rs, result), Finish(result)
  PROVE  IInv'
<1>1. file' = file /\ symTabs' = symTabs
  BY DEF Finish
<1>2. /\ FileOK(file)' /\ SymTabsOK' /\ Opened' /\ RelSection' = RelSection
      /\ Section' = Section /\ Reloc' = Reloc /\ Result' = Result
      /\ \A r, res : ResultOK(r, res)' = ResultOK(r, res)
  BY <1>1, SameFile DEF IInv
<1>3. Len(file.rels) \in Nat \ {0} /\ RelSection = 1..Len(file.rels) /\ rs \in RelSection
  BY RelFacts, ReadingFacts DEF IInv
<1>4. /\ decoded' = [decoded EXCEPT ![rs] = result]
      /\ rs' = rs + 1 /\ relocs' = <<>> /\ i' = 1 /\ target' = None /\ bytes' = None
      /\ pc' = IF rs = Len(file.rels) THEN "ready" ELSE "decode"
  BY DEF Finish
<1>5. decoded \in [RelSection -> Result] /\ \A r \in RelSection : ResultOK(r, decoded[r])
  BY DEF IInv, DecodedOK
<1>6. decoded' \in [RelSection -> Result]
  BY <1>3, <1>4, <1>5
<1>7. \A r \in RelSection : decoded'[r] = IF r = rs THEN result ELSE decoded[r]
  BY <1>3, <1>4, <1>5
<1>8. ASSUME NEW r \in RelSection
      PROVE  ResultOK(r, decoded[r])'
  <2> DEFINE res == IF r = rs THEN result ELSE decoded[r]
  <2>1. ResultOK(r, res)
    BY <1>5
  <2>2. PICK d : d = decoded'[r]
    OBVIOUS
  <2>3. d = res
    BY <1>7, <2>2
  <2>4. ResultOK(r, d)'
    BY <1>2, <2>1, <2>3
  <2> QED
    BY <2>2, <2>4 DEF ResultOK
<1>9. DecodedOK'
  BY <1>2, <1>6, <1>8 DEF DecodedOK
<1>10. pc' = "ready" <=> rs' = Len(file.rels) + 1
  BY <1>3, <1>4
<1>11. Len(relocs') = 0 /\ DOMAIN relocs' = {} /\ relocs' \in Seq(Reloc')
  BY <1>4, EmptySeq
<1>12. TypeOK'
  <2>1. rs' \in 1..Len(file'.rels) + 1
    BY <1>1, <1>3, <1>4
  <2>2. i' \in 1..Len(relocs') + 1
    BY <1>4, <1>11
  <2>3. \A r \in RelSection' : decoded'[r].why \in {""} \cup Failures
    BY <1>2, <1>6 DEF Result
  <2>4. \A t \in DOMAIN symTabs' : symTabs'[t].start \in SymID /\ symTabs'[t].end \in SymID
    BY <1>1 DEF IInv, TypeOK
  <2>5. target' \in Section' \cup {None} /\ bytes' \in Section' \cup {None}
    BY <1>4
  <2>6. pc' \in {"decode", "adjust", "addends", "ready"}
    BY <1>4
  <2> QED
    BY <1>11, <2>1, <2>2, <2>3, <2>4, <2>5, <2>6 DEF TypeOK
<1>13. ReadingOK'
  BY <1>4 DEF ReadingOK
<1>14. UnopenedOK'
  BY <1>2 DEF UnopenedOK
<1> QED
  BY <1>1, <1>2, <1>9, <1>10, <1>11, <1>12, <1>13, <1>14 DEF IInv

\* Opening the file numbers a table of symbols, of which nothing was looked up yet.
LEMMA OpenSymTabInv ==
  ASSUME IInv, OpenSymTab
  PROVE  IInv'
<1>1. /\ file' = file /\ rs' = rs /\ relocs' = relocs /\ i' = i /\ target' = target
      /\ bytes' = bytes /\ decoded' = decoded /\ pc' = pc
  BY DEF OpenSymTab, LoadSymTab, locals
<1>2. ~ Opened
  BY DEF OpenSymTab, LoadSymTab
<1>3. pc = "decode" /\ \A r \in RelSection : decoded[r].list = <<>>
  BY <1>2 DEF IInv, UnopenedOK
<1>4. FileOK(file)' /\ RelSection' = RelSection /\ Section' = Section
  BY <1>1 DEF IInv, FileOK, SymsOK, SymEntries, RelSection, Section
<1>5. SymTabsOK'
  BY LoadSymTabOK, RelFacts DEF IInv, OpenSymTab
<1>6. decoded \in [RelSection -> Result] /\ Reloc' = Reloc /\ Result' = Result
  BY <1>4 DEF IInv, DecodedOK, Reloc, Result
<1>7. ASSUME NEW r \in RelSection
      PROVE  ResultOK(r, decoded[r])'
  <2>1. PICK res : res = decoded[r]
    OBVIOUS
  <2>2. ResultOK(r, res) /\ res.list = <<>>
    BY <1>3, <2>1 DEF IInv, DecodedOK
  <2>3. Fits' = Fits
    BY <1>1, <1>4 DEF Fits
  <2>4. ListOf(r, <<>>, Distance(r))'
    BY <1>6, EmptySeq DEF ListOf, Sorted
  <2>5. AddendsOK(r, res.list, Len(res.list))'
    <3>1. Len(res.list) = 0
      BY <2>2, EmptySeq
    <3> QED
      BY <3>1 DEF AddendsOK
  <2>6. ResultOK(r, res)'
    BY <1>1, <2>2, <2>3, <2>4, <2>5 DEF ResultOK
  <2> QED
    BY <1>1, <2>1, <2>6 DEF ResultOK
<1>8. DecodedOK'
  BY <1>1, <1>4, <1>6, <1>7 DEF DecodedOK
<1>9. TypeOK'
  <2>1. \A t \in DOMAIN symTabs' : symTabs'[t].start \in SymID /\ symTabs'[t].end \in SymID
    <3>1. symTabs' \in Seq([start : SymID, end : SymID])
      BY <1>5 DEF SymTabsOK
    <3>2. \A t \in DOMAIN symTabs' : symTabs'[t] \in [start : SymID, end : SymID]
      BY <3>1, ListElements
    <3> QED
      BY <3>2
  <2> QED
    BY <1>1, <1>4, <2>1 DEF IInv, TypeOK
<1>10. ReadingOK'
  BY <1>1, <1>3 DEF IInv, ReadingOK
<1>11. UnopenedOK'
  BY <1>1, <1>3, <1>4 DEF UnopenedOK
<1>12. relocs' \in Seq(Reloc')
  BY <1>1, <1>6 DEF IInv
<1> QED
  BY <1>1, <1>4, <1>5, <1>8, <1>9, <1>10, <1>11, <1>12 DEF IInv

\* Decoding a relocation section gives a sorted list of its relocations if their
\* types fit.
LEMMA DecodeFits ==
  ASSUME IInv, Decode,
         ~ \E k \in DOMAIN file.rels[rs].entries : ~ file.rels[rs].entries[k].fits
  PROVE  IInv'
<1>1. /\ file' = file /\ symTabs' = symTabs /\ rs' = rs /\ i' = i /\ target' = target
      /\ bytes' = bytes /\ decoded' = decoded /\ pc' = "adjust" /\ pc = "decode" /\ Opened
  BY DEF Decode
<1>2. /\ FileOK(file)' /\ SymTabsOK' /\ Opened' /\ RelSection' = RelSection
      /\ Section' = Section /\ Reloc' = Reloc /\ Result' = Result
      /\ \A r, list, by : ListOf(r, list, by)' = ListOf(r, list, by)
      /\ \A r, res : ResultOK(r, res)' = ResultOK(r, res)
  BY <1>1, SameFile DEF IInv
<1>3. rs \in RelSection
  BY <1>1, ReadingFacts
<1> DEFINE rel == file.rels[rs]
           list == [k \in DOMAIN rel.entries |-> Decoded(rel, rel.entries[k])]
<1>4. rel.entries \in Seq(RelEntry) /\ SymsOK(file)
  BY <1>3, RelFacts DEF IInv
<1>5. DOMAIN rel.entries = 1..Len(rel.entries) /\ Len(rel.entries) \in Nat
  BY <1>4, LenProperties
<1>6. \A k \in 1..Len(rel.entries) : rel.entries[k] \in RelEntry
  BY <1>4, ElementOfSeq
<1>7. \A k \in 1..Len(rel.entries) :
        /\ list[k] \in Reloc /\ list[k].addr = rel.entries[k].off
        /\ list[k].symbol = Lookup(rel.symTab, rel.entries[k].sym)
  BY <1>1, <1>3, <1>5, <1>6, DecodedRight DEF IInv
<1>8. list \in [1..Len(rel.entries) -> Reloc]
  BY <1>5, <1>7
<1>9. list \in Seq(Reloc) /\ Len(list) = Len(rel.entries)
  <2> HIDE DEF list
  <2> QED
    BY <1>5, <1>8, SeqDef, LenProperties
<1>10. relocs' \in SortedOrders(list)
  BY DEF Decode
<1> HIDE DEF list
<1>11. /\ relocs' \in Seq(Reloc) /\ Sorted(relocs')
       /\ \A k \in 1..Len(relocs') : \E j \in 1..Len(list) : relocs'[k] = list[j]
  BY <1>9, <1>10, SortedOrdersRight, SortedOrdersSorted
<1>12. PICK l : l = relocs'
  OBVIOUS
<1>13. ListOf(rs, l, 0)
  <2>1. ASSUME NEW k \in 1..Len(l)
        PROVE  \E e \in DOMAIN rel.entries : /\ l[k].addr = rel.entries[e].off + 0
                                             /\ l[k].symbol = Lookup(rel.symTab, rel.entries[e].sym)
    <3>1. PICK j \in 1..Len(list) : l[k] = list[j]
      BY <1>11, <1>12
    <3>2. j \in DOMAIN rel.entries /\ rel.entries[j].off \in Word
      BY <1>5, <1>6, <1>9, <3>1 DEF RelEntry
    <3>3. rel.entries[j].off + 0 = rel.entries[j].off
      BY <3>2 DEF Word
    <3> QED
      BY <1>7, <1>9, <3>1, <3>2, <3>3
  <2> QED
    BY <1>11, <1>12, <2>1 DEF ListOf
<1>14. ReadingOK'
  <2>1. i' = 1 /\ bytes' = None /\ target' = None
    BY <1>1 DEF IInv, ReadingOK
  <2>2. ListOf(rs, relocs, 0)'
    BY <1>1, <1>2, <1>12, <1>13
  <2> QED
    BY <1>1, <2>1, <2>2 DEF ReadingOK
<1>15. TypeOK'
  <2>1. \A k \in DOMAIN relocs' : relocs'[k].addr \in Word /\ relocs'[k].size \in RelocSize
    <3>1. \A k \in DOMAIN relocs' : relocs'[k] \in Reloc
      BY <1>11, ListElements
    <3> QED
      BY <3>1 DEF Reloc
  <2>2. i' \in 1..Len(relocs') + 1
    <3>1. i' = 1 /\ Len(relocs') \in Nat
      BY <1>1, <1>11, LenProperties DEF IInv, ReadingOK
    <3> QED
      BY <3>1
  <2> QED
    BY <1>1, <1>2, <2>1, <2>2 DEF IInv, TypeOK
<1>16. DecodedOK'
  BY <1>1, <1>2 DEF IInv, DecodedOK
<1>17. UnopenedOK'
  BY <1>2 DEF UnopenedOK
<1>18. pc' = "ready" <=> rs' = Len(file'.rels) + 1
  BY <1>1 DEF IInv
<1> QED
  BY <1>2, <1>11, <1>14, <1>15, <1>16, <1>17, <1>18 DEF IInv

\* Decoding a relocation section gives no relocations if it panics.
LEMMA DecodeInv ==
  ASSUME IInv, Decode
  PROVE  IInv'
<1>1. CASE \E k \in DOMAIN file.rels[rs].entries : ~ file.rels[rs].entries[k].fits
  <2>1. Opened /\ pc = "decode" /\ Finish(Bad("bad type"))
    BY <1>1 DEF Decode
  <2>2. FileOK(file) /\ rs \in RelSection
    BY <2>1, ReadingFacts DEF IInv
  <2>3. Bad("bad type") \in Result /\ ResultOK(rs, Bad("bad type"))
    BY <2>2, EmptyResult DEF Bad
  <2> QED
    BY <2>1, <2>3, FinishInv
<1> QED
  BY <1>1, DecodeFits

\* A word that is moved and does not end below the distance did not wrap around.
LEMMA MovedWord ==
  ASSUME NEW a \in Word, NEW by \in Word, ~ ((a + by) % W < by)
  PROVE  (a + by) % W = a + by /\ a + by \in Word
<1>1. W \in Nat \ {0} /\ a \in 0..W - 1 /\ by \in 0..W - 1
  BY SymsAssumption DEF Word
<1> DEFINE sum == (a + by) % W
<1>2. sum = IF a + by < W THEN a + by ELSE a + by - W
  BY <1>1, SumMod
<1>3. ~ (sum < by)
  OBVIOUS
<1> HIDE DEF sum
<1>4. sum = a + by /\ a + by \in 0..W - 1
  BY <1>1, <1>2, <1>3
<1> QED
  BY <1>4 DEF sum, Word

\* A relocation that is moved, or gets its addend, is a relocation.
LEMMA RelocWith ==
  ASSUME NEW x \in Reloc
  PROVE  /\ \A a \in Word : [x EXCEPT !.addr = a] \in Reloc
         /\ \A t \in Section, off \in Int : [x EXCEPT !.addend = Addend(t, off)] \in Reloc
<1> DEFINE A == [in : Section \cup {None}, val : Int]
<1>1. x \in [addr : Word, size : RelocSize, symbol : SymID, addend : A]
  BY DEF Reloc
<1>2. \A t \in Section, off \in Int : Addend(t, off) \in A
  BY DEF Addend
<1> HIDE DEF A
<1>3. \A a \in Word : [x EXCEPT !.addr = a] \in [addr : Word, size : RelocSize, symbol : SymID, addend : A]
  BY <1>1
<1>4. \A y \in A : [x EXCEPT !.addend = y] \in [addr : Word, size : RelocSize, symbol : SymID, addend : A]
  BY <1>1
<1> QED
  BY <1>2, <1>3, <1>4 DEF Reloc, A

\* If no address ends below the distance, the relocations are moved as they are.
LEMMA MovedListOf ==
  ASSUME FileOK(file), NEW r \in RelSection, NEW list, ListOf(r, list, 0), NEW by \in Word,
         NEW moved, moved = [k \in DOMAIN list |-> [list[k] EXCEPT !.addr = (@ + by) % W]],
         ~ \E k \in DOMAIN moved : moved[k].addr < by
  PROVE  ListOf(r, moved, by)
<1>1. list \in Seq(Reloc) /\ Sorted(list)
  BY DEF ListOf
<1>2. DOMAIN list = 1..Len(list) /\ Len(list) \in Nat /\ \A k \in 1..Len(list) : list[k] \in Reloc
  BY <1>1, ListElements
<1>3. ASSUME NEW k \in 1..Len(list)
      PROVE  moved[k] \in Reloc /\ moved[k].addr = list[k].addr + by /\ moved[k].symbol = list[k].symbol
  <2>1. list[k].addr \in Word /\ list[k] \in Reloc
    BY <1>2 DEF Reloc
  <2> DEFINE a == list[k].addr
  <2>2. moved[k] = [list[k] EXCEPT !.addr = (a + by) % W]
    BY <1>2
  <2>3. moved[k].addr = (a + by) % W /\ moved[k].symbol = list[k].symbol
    BY <2>1, <2>2 DEF Reloc
  <2>4. ~ (moved[k].addr < by)
    BY <1>2
  <2> HIDE DEF a
  <2>5. (a + by) % W = a + by /\ a + by \in Word
    BY <2>1, <2>3, <2>4, MovedWord DEF a
  <2>6. moved[k] \in Reloc
    BY <2>1, <2>2, <2>5, RelocWith
  <2> QED
    BY <2>3, <2>5, <2>6 DEF a
<1>4. moved \in Seq(Reloc) /\ Len(moved) = Len(list)
  <2>1. moved \in [1..Len(list) -> Reloc]
    BY <1>2, <1>3
  <2> QED
    BY <1>2, <2>1, SeqDef, LenProperties
<1>5. Sorted(moved)
  <2>1. SUFFICES ASSUME NEW k \in 2..Len(list)
                 PROVE  moved[k - 1].addr <= moved[k].addr
    BY <1>4 DEF Sorted
  <2>2. k \in 1..Len(list) /\ k - 1 \in 1..Len(list)
    BY <1>2
  <2>3. list[k - 1].addr <= list[k].addr
    BY <1>1 DEF Sorted
  <2>4. list[k - 1].addr \in Int /\ list[k].addr \in Int /\ by \in Int
    BY <1>2, <2>2 DEF Reloc, Word
  <2>5. moved[k - 1].addr = list[k - 1].addr + by /\ moved[k].addr = list[k].addr + by
    BY <1>3, <2>2
  <2> QED
    BY <2>3, <2>4, <2>5
<1>6. ASSUME NEW k \in 1..Len(moved)
      PROVE  \E e \in DOMAIN file.rels[r].entries :
               /\ moved[k].addr = file.rels[r].entries[e].off + by
               /\ moved[k].symbol = Lookup(file.rels[r].symTab, file.rels[r].entries[e].sym)
  <2>1. PICK e \in DOMAIN file.rels[r].entries :
               /\ list[k].addr = file.rels[r].entries[e].off + 0
               /\ list[k].symbol = Lookup(file.rels[r].symTab, file.rels[r].entries[e].sym)
    BY <1>4 DEF ListOf
  <2>2. file.rels[r].entries[e].off \in Int
    <3>1. file.rels[r].entries[e] \in RelEntry
      BY RelFacts, ListElements
    <3> QED
      BY <3>1 DEF RelEntry, Word
  <2>3. list[k].addr = file.rels[r].entries[e].off
    BY <2>1, <2>2
  <2> QED
    BY <1>3, <1>4, <2>1, <2>3
<1> QED
  BY <1>4, <1>5, <1>6 DEF ListOf

\* A type of relocation section that has its addends in its entries is done when it
\* is moved; of the other type none has its addend yet.
LEMMA AdjustInv ==
  ASSUME IInv, Adjust
  PROVE  IInv'
<1>1. pc = "adjust" /\ Opened /\ rs \in RelSection
  <2>1. pc = "adjust"
    BY DEF Adjust
  <2> QED
    BY <2>1, ReadingFacts DEF IInv, UnopenedOK
<1> DEFINE rel == file.rels[rs]
           by == IF file.relocatable THEN rel.addr ELSE 0
           moved == [k \in DOMAIN relocs |-> [relocs[k] EXCEPT !.addr = (@ + by) % W]]
<1>2. by = Distance(rs) /\ by \in Word
  BY <1>1, RelFacts DEF IInv, Distance
<1>3. relocs \in Seq(Reloc) /\ ListOf(rs, relocs, 0)
  BY <1>1 DEF IInv, ReadingOK
<1>4. CASE \E k \in DOMAIN moved : moved[k].addr < by
  <2>1. Finish(Bad("error"))
    BY <1>4 DEF Adjust
  <2>2. Bad("error") \in Result /\ ResultOK(rs, Bad("error"))
    BY <1>1, EmptyResult DEF IInv, Bad
  <2> QED
    BY <1>1, <2>1, <2>2, FinishInv
<1>5. CASE ~ \E k \in DOMAIN moved : moved[k].addr < by
  <2>1. ListOf(rs, moved, by)
    <3> HIDE DEF by
    <3> QED
      BY <1>1, <1>2, <1>3, <1>5, MovedListOf DEF IInv
  <2>2. moved \in Seq(Reloc)
    BY <2>1 DEF ListOf
  <2>3. CASE rel.type # "rel"
    <3>1. Finish(Good(moved))
      BY <1>5, <2>3 DEF Adjust
    <3> HIDE DEF moved
    <3>2. Good(moved).list = moved /\ Good(moved).why = "" /\ Good(moved) \in Result
      BY <2>2 DEF Good, Result
    <3>3. ResultOK(rs, Good(moved))
      BY <1>2, <2>1, <2>3, <3>2 DEF ResultOK
    <3> QED
      BY <1>1, <3>1, <3>2, <3>3, FinishInv
  <2>4. CASE rel.type = "rel"
    <3>1. /\ relocs' = moved /\ target' = rel.target /\ pc' = "addends"
          /\ file' = file /\ symTabs' = symTabs /\ rs' = rs /\ i' = i /\ bytes' = bytes
          /\ decoded' = decoded
      BY <1>5, <2>4 DEF Adjust
    <3> HIDE DEF moved, by
    <3>2. /\ FileOK(file)' /\ SymTabsOK' /\ Opened' /\ RelSection' = RelSection
          /\ Section' = Section /\ Reloc' = Reloc /\ Result' = Result /\ Fits' = Fits /\ Apart' = Apart
          /\ \A r : Distance(r)' = Distance(r)
          /\ \A r, list, d : ListOf(r, list, d)' = ListOf(r, list, d)
          /\ \A r, list, n : AddendsOK(r, list, n)' = AddendsOK(r, list, n)
          /\ \A r, res : ResultOK(r, res)' = ResultOK(r, res)
      BY <1>1, <3>1, SameFile DEF IInv
    <3>3. i' = 1 /\ bytes' = None
      BY <1>1, <3>1 DEF IInv, ReadingOK
    <3>5. ListOf(rs, relocs, Distance(rs))'
      BY <1>2, <2>1, <3>1, <3>2
    <3>6. AddendsOK(rs, relocs, i - 1)'
      BY <3>3, NoAddends DEF AddendsOK
    <3>7. HeldOK'
      BY <3>1, <3>3 DEF HeldOK
    <3>8. ReadingOK'
      BY <2>4, <3>1, <3>5, <3>6, <3>7 DEF ReadingOK
    <3>9. TypeOK'
      <4>1. \A k \in DOMAIN relocs' : relocs'[k] \in Reloc
        BY <2>2, <3>1, ListElements
      <4>2. \A k \in DOMAIN relocs' : relocs'[k].addr \in Word /\ relocs'[k].size \in RelocSize
        BY <4>1 DEF Reloc
      <4>3. i' \in 1..Len(relocs') + 1
        <5>1. Len(relocs') \in Nat
          BY <2>2, <3>1, ListElements
        <5> QED
          BY <3>3, <5>1
      <4>4. target' \in Section' \cup {None}
        BY <1>1, <3>1, <3>2, RelFacts DEF IInv
      <4> QED
        BY <3>1, <3>2, <3>3, <4>2, <4>3, <4>4 DEF IInv, TypeOK
    <3>10. DecodedOK'
      BY <3>1, <3>2 DEF IInv, DecodedOK
    <3>11. UnopenedOK'
      BY <3>2 DEF UnopenedOK
    <3>12. pc' = "ready" <=> rs' = Len(file'.rels) + 1
      BY <1>1, <3>1 DEF IInv
    <3> QED
      BY <2>2, <3>1, <3>2, <3>8, <3>9, <3>10, <3>11, <3>12 DEF IInv
  <2> QED
    BY <2>3, <2>4
<1> QED
  BY <1>4, <1>5

-----------------------------------------------------------------------------
(* populateAddends *)

\* In sections that fit into the address space, an offset at which there are bytes
\* to read is that of the relocation, which the section holds.
LEMMA OffsetRight ==
  ASSUME FileOK(file), Fits, NEW t \in Section, NEW reloc \in Reloc, reloc.size > 0,
         ~ (Offset(reloc, t) + reloc.size > SectionOf(t).size)
  PROVE  /\ Offset(reloc, t) = reloc.addr - file.sections[t].addr
         /\ file.sections[t].alloc => Holds(t, reloc.addr)
<1> DEFINE a == reloc.addr  s == reloc.size  low == file.sections[t].addr  len == file.sections[t].size
           off == Offset(reloc, t)
<1>1. t # None /\ SectionOf(t) = file.sections[t]
  BY RelFacts, SectionFacts DEF SectionOf
<1>2. W \in Nat \ {0} /\ a \in 0..W - 1 /\ low \in 0..W - 1 /\ len \in 0..W - 1
  BY RelFacts, SectionFacts, SymsAssumption DEF Reloc, Word
<1>3. s \in {1, 2, 3}
  BY DEF Reloc, RelocSize
<1>4. low + len <= W
  BY DEF Fits
<1>5. off = (W + a - low) % W
  BY <1>1 DEF Offset
<1>6. ~ (off + s > len)
  BY <1>1
<1>7. Holds(t, a) <=> file.sections[t].alloc /\ low <= a /\ a < low + len
  BY DEF Holds
<1> HIDE DEF a, s, low, len, off
<1>8. off = IF low <= a THEN a - low ELSE W + a - low
  BY <1>2, <1>5, DiffMod
<1>9. off = a - low /\ low <= a /\ a < low + len
  BY <1>2, <1>3, <1>4, <1>6, <1>8
<1> QED
  BY <1>7, <1>9 DEF a, low, off

\* ... and a relocation inside the section's bounds has its bytes in it: the end of
\* such a relocation does not wrap around.
LEMMA OutsideRight ==
  ASSUME FileOK(file), Fits, NEW t \in Section, NEW reloc \in Reloc,
         reloc.size > 0, reloc.size # 3, ~ Outside(reloc, t)
  PROVE  ~ (Offset(reloc, t) + reloc.size > SectionOf(t).size)
<1> DEFINE s == reloc.size  len == SectionOf(t).size  off == Offset(reloc, t)
           end == (off + s) % W
<1>1. t # None /\ SectionOf(t) = file.sections[t]
  BY RelFacts, SectionFacts DEF SectionOf
<1>2. W \in Nat \ {0} /\ len \in 0..W - 1 /\ file.sections[t].addr \in 0..W - 1 /\ reloc.addr \in 0..W - 1
  BY <1>1, RelFacts, SectionFacts, SymsAssumption DEF Reloc, Word
<1>3. s \in {1, 2}
  BY DEF Reloc, RelocSize
<1>4. len + 1 < W
  BY <1>1 DEF Fits
<1>5. off \in 0..W - 1
  <2>1. off = (W + reloc.addr - file.sections[t].addr) % W
    BY <1>1 DEF Offset
  <2> HIDE DEF off
  <2> QED
    BY <1>2, <2>1, DiffMod
<1>6. ~ (off >= len) /\ ~ (end > len)
  BY <1>3 DEF Outside
<1>7. off + s < W
  <2> HIDE DEF off, s, len, end
  <2> QED
    BY <1>2, <1>3, <1>4, <1>5, <1>6
<1>8. end = off + s
  <2> HIDE DEF off, s, len
  <2> QED
    BY <1>2, <1>3, <1>5, <1>7
<1> HIDE DEF end
<1> QED
  BY <1>6, <1>8

\* Reading an addend keeps the invariant if it is read from the section's target, or
\* without one from a loaded section, and no bytes are held but that section's.
LEMMA ReadAddendInv ==
  ASSUME IInv, Opened, pc = "addends", i \in 1..Len(relocs), relocs[i].size # -1,
         NEW t \in Section \cup {None}, NEW loaded \in {None, t},
         IF file.rels[rs].target # None THEN t = file.rels[rs].target /\ ~ Outside(relocs[i], t)
         ELSE t # None => ~ file.relocatable /\ file.sections[t].alloc,
         ReadAddend(t, loaded)
  PROVE  IInv'
<1> DEFINE reloc == relocs[i]
           off == Offset(reloc, t)
<1>1. rs \in RelSection /\ FileOK(file) /\ None \notin Section
  BY ReadingFacts, RelFacts, SectionFacts DEF IInv
<1>2. relocs \in Seq(Reloc) /\ Len(relocs) \in Nat /\ DOMAIN relocs = 1..Len(relocs) /\ reloc \in Reloc
  BY ListElements DEF IInv
<1>3. file.rels[rs].type = "rel" /\ ListOf(rs, relocs, Distance(rs)) /\ HeldOK
  BY DEF IInv, ReadingOK
<1>4. (IF loaded = None THEN t ELSE loaded) = t
  OBVIOUS
<1>5. ASSUME NEW why \in {"error", "nil section", "out of range"}, Finish(Bad(why)),
             file.rels[rs].target # None /\ Fits => why = "error"
      PROVE  IInv'
  <2>1. Bad(why) = [ok |-> FALSE, why |-> why, list |-> <<>>] /\ Bad(why).why = why
        /\ Bad(why).list = <<>> /\ Bad(why).ok = FALSE
    BY DEF Bad
  <2>2. Bad(why) \in Result
    BY <2>1, EmptySeq DEF Result, Failures
  <2>3. ListOf(rs, Bad(why).list, Distance(rs))
    BY <2>1, EmptyListOf
  <2>4. ResultOK(rs, Bad(why))
    BY <1>5, <2>1, <2>3 DEF ResultOK
  <2> QED
    BY <1>5, <2>2, <2>4, FinishInv
<1>6. CASE t = None
  <2>1. Finish(Bad("nil section"))
    BY <1>4, <1>6 DEF ReadAddend
  <2>2. file.rels[rs].target = None
    BY <1>6
  <2> QED
    BY <1>5, <2>1, <2>2
<1>7. CASE t # None /\ reloc.size = 3
  <2>1. Finish(Bad("error"))
    BY <1>4, <1>7 DEF ReadAddend
  <2> QED
    BY <1>5, <2>1
<1>8. CASE t # None /\ reloc.size # 3 /\ reloc.size > 0 /\ off + reloc.size > SectionOf(t).size
  <2>1. Finish(Bad("out of range"))
    BY <1>4, <1>8 DEF ReadAddend
  <2>2. ~ (file.rels[rs].target # None /\ Fits)
    BY <1>1, <1>2, <1>8, OutsideRight
  <2> QED
    BY <1>5, <2>1, <2>2
<1>9. CASE t # None /\ reloc.size # 3 /\ ~ (reloc.size > 0 /\ off + reloc.size > SectionOf(t).size)
  <2>1. /\ relocs' = IF reloc.size = 0 THEN relocs ELSE [relocs EXCEPT ![i].addend = Addend(t, off)]
        /\ i' = i + 1 /\ target' = t /\ bytes' = t
        /\ file' = file /\ symTabs' = symTabs /\ rs' = rs /\ decoded' = decoded /\ pc' = pc
    BY <1>4, <1>9 DEF ReadAddend
  <2>2. /\ FileOK(file)' /\ SymTabsOK' /\ Opened' /\ RelSection' = RelSection
        /\ Section' = Section /\ Reloc' = Reloc /\ Result' = Result /\ Fits' = Fits /\ Apart' = Apart
        /\ \A r : Distance(r)' = Distance(r)
        /\ \A r, list, d : ListOf(r, list, d)' = ListOf(r, list, d)
        /\ \A r, list, n : AddendsOK(r, list, n)' = AddendsOK(r, list, n)
        /\ \A r, res : ResultOK(r, res)' = ResultOK(r, res)
    BY <1>1, <2>1, SameFile DEF IInv
  <2>3. t \in Section /\ off \in Int
    <3>1. t \in Section
      BY <1>9
    <3>2. reloc.addr \in Int /\ SectionOf(t).addr \in Int /\ W \in Nat \ {0}
      <4>1. SectionOf(t) = file.sections[t] /\ file.sections[t].addr \in Word
        BY <1>1, <1>9, <3>1, SectionFacts, RelFacts DEF SectionOf
      <4>2. reloc.addr \in Word
        BY <1>2 DEF Reloc
      <4> QED
        BY <4>1, <4>2, SymsAssumption DEF Word
    <3>3. off = (W + reloc.addr - SectionOf(t).addr) % W
      BY DEF Offset
    <3> HIDE DEF off, reloc
    <3>4. off \in Int
      BY <3>2, <3>3
    <3> QED
      BY <3>1, <3>4
  <2> DEFINE new == [relocs EXCEPT ![i].addend = Addend(t, off)]
  <2>4. /\ relocs' \in Seq(Reloc) /\ Len(relocs') = Len(relocs)
        /\ \A k \in 1..Len(relocs) :
             /\ relocs'[k].addr = relocs[k].addr /\ relocs'[k].size = relocs[k].size
             /\ relocs'[k].symbol = relocs[k].symbol
             /\ k # i => relocs'[k] = relocs[k]
        /\ reloc.size # 0 => relocs'[i].addend = Addend(t, off)
    <3>1. CASE reloc.size = 0
      BY <1>2, <2>1, <3>1
    <3>2. CASE reloc.size # 0
      <4> DEFINE x == [reloc EXCEPT !.addend = Addend(t, off)]
      <4>1. relocs' = [relocs EXCEPT ![i] = x]
        BY <2>1, <3>2
      <4>2. x \in Reloc
        BY <1>2, <2>3, RelocWith
      <4>3. /\ x.addr = reloc.addr /\ x.size = reloc.size /\ x.symbol = reloc.symbol
            /\ x.addend = Addend(t, off)
        BY <1>2 DEF Reloc
      <4> HIDE DEF x
      <4>4. relocs' \in [1..Len(relocs) -> Reloc]
        <5>1. relocs \in [1..Len(relocs) -> Reloc]
          BY <1>2, ListElements
        <5> QED
          BY <4>1, <4>2, <5>1
      <4>5. relocs' \in Seq(Reloc) /\ Len(relocs') = Len(relocs)
        BY <1>2, <4>4, SeqDef, LenProperties
      <4>6. \A k \in 1..Len(relocs) : relocs'[k] = IF k = i THEN x ELSE relocs[k]
        BY <1>2, <4>1
      <4> QED
        BY <4>3, <4>5, <4>6
    <3> QED
      BY <3>1, <3>2
  <2> HIDE DEF off
  <2>5. PICK l : l = relocs'
    OBVIOUS
  <2>6. ListOf(rs, l, Distance(rs))
    <3>1. Sorted(l)
      <4>1. SUFFICES ASSUME NEW k \in 2..Len(relocs)
                     PROVE  l[k - 1].addr <= l[k].addr
        BY <2>4, <2>5 DEF Sorted
      <4>2. k \in 1..Len(relocs) /\ k - 1 \in 1..Len(relocs)
        BY <1>2
      <4> QED
        BY <1>3, <2>4, <2>5, <4>2 DEF ListOf, Sorted
    <3> QED
      BY <1>3, <2>4, <2>5, <3>1 DEF ListOf
  <2>7. Fits /\ Apart => AddendsOK(rs, l, i)
    <3>1. SUFFICES ASSUME Fits, Apart, NEW k \in 1..i, l[k].size > 0
                   PROVE  l[k].addend = Addend(Home(rs, l[k]),
                                               l[k].addr - file.sections[Home(rs, l[k])].addr)
      BY DEF AddendsOK
    <3>2. k \in 1..Len(relocs) /\ i \in Nat
      BY <1>2
    <3>3. Home(rs, l[k]) = Home(rs, relocs[k])
      BY <2>4, <2>5, <3>2 DEF Home
    <3>4. CASE k # i
      <4>1. k \in 1..(i - 1) /\ l[k] = relocs[k]
        BY <2>4, <2>5, <3>2, <3>4
      <4>2. AddendsOK(rs, relocs, i - 1)
        BY <3>1 DEF IInv, ReadingOK
      <4> QED
        BY <3>1, <4>1, <4>2 DEF AddendsOK
    <3>5. CASE k = i
      <4>1. reloc.size > 0 /\ ~ (off + reloc.size > SectionOf(t).size)
        BY <1>9, <2>4, <2>5, <3>1, <3>2, <3>5
      <4>2. off = reloc.addr - file.sections[t].addr /\ (file.sections[t].alloc => Holds(t, reloc.addr))
        BY <1>1, <1>2, <2>3, <3>1, <4>1, OffsetRight DEF off
      <4>3. Home(rs, reloc) = t
        <5>1. CASE file.rels[rs].target # None
          BY <5>1 DEF Home
        <5>2. CASE file.rels[rs].target = None
          <6>1. ~ file.relocatable /\ Holds(t, reloc.addr) /\ reloc.addr \in Word
            BY <1>2, <1>9, <4>2, <5>2 DEF Reloc
          <6>2. ResolveAddr(reloc.addr) = t
            BY <1>1, <2>3, <3>1, <6>1, ResolveAddrRight
          <6> QED
            BY <5>2, <6>2 DEF Home
        <5> QED
          BY <5>1, <5>2
      <4>4. l[k].addend = Addend(t, off) /\ l[k].addr = reloc.addr
        BY <2>4, <2>5, <3>2, <3>5, <4>1
      <4> QED
        BY <3>3, <3>5, <4>2, <4>3, <4>4
    <3> QED
      BY <3>4, <3>5
  <2>8. i' - 1 = i
    BY <1>2, <2>1
  <2>9. ReadingOK'
    <3>1. ListOf(rs, relocs, Distance(rs))'
      BY <2>1, <2>2, <2>5, <2>6
    <3>2. (Fits /\ Apart)' => AddendsOK(rs, relocs, i - 1)'
      BY <2>1, <2>2, <2>5, <2>7, <2>8
    <3>3. HeldOK'
      BY <2>1, <1>9 DEF HeldOK
    <3> QED
      BY <1>3, <2>1, <3>1, <3>2, <3>3 DEF ReadingOK
  <2>10. TypeOK'
    <3>1. \A k \in DOMAIN relocs' : relocs'[k] \in Reloc
      BY <2>4, ListElements
    <3>2. \A k \in DOMAIN relocs' : relocs'[k].addr \in Word /\ relocs'[k].size \in RelocSize
      BY <3>1 DEF Reloc
    <3>3. i' \in 1..Len(relocs') + 1
      BY <1>2, <2>1, <2>4
    <3> QED
      BY <2>1, <2>2, <2>3, <3>2, <3>3 DEF IInv, TypeOK
  <2>11. DecodedOK'
    BY <2>1, <2>2 DEF IInv, DecodedOK
  <2>12. UnopenedOK'
    BY <2>2 DEF UnopenedOK
  <2> QED
    BY <2>1, <2>2, <2>4, <2>9, <2>10, <2>11, <2>12 DEF IInv
<1> QED
  BY <1>6, <1>7, <1>8, <1>9

\* Each relocation gets its addend out of the section that is kept, if it is inside
\* that one, or else out of the section its address is in.
LEMMA PopulateAddendInv ==
  ASSUME IInv, PopulateAddend
  PROVE  IInv'
<1> DEFINE reloc == relocs[i]
           moved == ResolveAddr(reloc.addr)
<1>1. pc = "addends" /\ i \in 1..Len(relocs) /\ rs \in RelSection /\ Opened
  <2>1. pc = "addends" /\ i <= Len(relocs) /\ i \in 1..Len(relocs) + 1 /\ Len(relocs) \in Nat
    BY ListElements DEF PopulateAddend, IInv, TypeOK
  <2> QED
    BY <2>1, ReadingFacts DEF IInv, UnopenedOK
<1>2. FileOK(file) /\ HeldOK /\ reloc \in Reloc /\ target \in Section \cup {None}
  BY <1>1, ListElements DEF IInv, ReadingOK, TypeOK
<1>3. CASE reloc.size = -1 \/ (Outside(reloc, target) /\ (file.rels[rs].target # None \/ moved = None))
  <2>1. Finish(Bad("error"))
    BY <1>3 DEF PopulateAddend
  <2>2. Bad("error") \in Result /\ ResultOK(rs, Bad("error"))
    BY <1>1, <1>2, EmptyResult DEF Bad
  <2> QED
    BY <1>1, <2>1, <2>2, FinishInv
<1>4. CASE reloc.size # -1 /\ ~ Outside(reloc, target)
  <2>1. ReadAddend(target, bytes)
    BY <1>4 DEF PopulateAddend
  <2> QED
    BY <1>1, <1>2, <1>4, <2>1, ReadAddendInv DEF HeldOK
<1>5. CASE reloc.size # -1 /\ Outside(reloc, target) /\ file.rels[rs].target = None /\ moved # None
  <2>1. ReadAddend(moved, None)
    BY <1>5 DEF PopulateAddend
  <2>2. reloc.addr \in Word
    BY <1>2 DEF Reloc
  <2>3. moved \in Section \cup {None} /\ ~ file.relocatable /\ file.sections[moved].alloc
    BY <1>2, <1>5, <2>2, ResolveAddrRight
  <2> QED
    BY <1>1, <1>5, <2>1, <2>3, ReadAddendInv
<1> QED
  BY <1>3, <1>4, <1>5

\* When every relocation has its addend, the list is returned.
LEMMA AddendsDoneInv ==
  ASSUME IInv, AddendsDone
  PROVE  IInv'
<1>1. pc = "addends" /\ Finish(Good(relocs)) /\ i > Len(relocs)
  BY DEF AddendsDone
<1>2. rs \in RelSection /\ Opened /\ relocs \in Seq(Reloc)
  BY <1>1, ReadingFacts DEF IInv, UnopenedOK
<1>3. i - 1 = Len(relocs)
  <2>1. i \in 1..Len(relocs) + 1 /\ Len(relocs) \in Nat
    BY <1>2, ListElements DEF IInv, TypeOK
  <2> QED
    BY <1>1, <2>1
<1>4. Good(relocs).list = relocs /\ Good(relocs).why = "" /\ Good(relocs) \in Result
  BY <1>2 DEF Good, Result
<1>5. ResultOK(rs, Good(relocs))
  BY <1>1, <1>3, <1>4 DEF IInv, ReadingOK, ResultOK
<1> QED
  BY <1>1, <1>2, <1>4, <1>5, FinishInv

\* A step that changes nothing keeps the invariant.
LEMMA StutterInv ==
  ASSUME IInv, UNCHANGED vars
  PROVE  IInv'
<1>1. /\ file' = file /\ symTabs' = symTabs /\ rs' = rs /\ relocs' = relocs /\ i' = i
      /\ target' = target /\ bytes' = bytes /\ decoded' = decoded /\ pc' = pc
  BY DEF vars, locals
<1>2. /\ FileOK(file)' /\ SymTabsOK' /\ Opened' = Opened /\ RelSection' = RelSection
      /\ Section' = Section /\ Reloc' = Reloc /\ Result' = Result /\ Fits' = Fits /\ Apart' = Apart
      /\ \A r : Distance(r)' = Distance(r)
      /\ \A r, list, d : ListOf(r, list, d)' = ListOf(r, list, d)
      /\ \A r, list, n : AddendsOK(r, list, n)' = AddendsOK(r, list, n)
      /\ \A r, res : ResultOK(r, res)' = ResultOK(r, res)
  BY <1>1, SameFile DEF IInv
<1>3. TypeOK'
  BY <1>1, <1>2 DEF IInv, TypeOK
<1>4. ReadingOK'
  <2>1. HeldOK' = HeldOK
    BY <1>1 DEF HeldOK
  <2> QED
    BY <1>1, <1>2, <2>1 DEF IInv, ReadingOK
<1>5. DecodedOK'
  BY <1>1, <1>2 DEF IInv, DecodedOK
<1>6. UnopenedOK'
  BY <1>1, <1>2 DEF IInv, UnopenedOK
<1> QED
  BY <1>1, <1>2, <1>3, <1>4, <1>5, <1>6 DEF IInv

\* The invariant is inductive.
LEMMA NextInv == IInv /\ [Next]_vars => IInv'
BY OpenSymTabInv, DecodeInv, AdjustInv, PopulateAddendInv, AddendsDoneInv, StutterInv DEF Next

-----------------------------------------------------------------------------
(* sectionRelocs *)

\* A result of sectionRelocs is one that was read, or a sorted list.
LEMMA SectionRelocsCases ==
  ASSUME IInv, NEW s \in Section, NEW result \in SectionRelocs(s)
  PROVE  \/ result = Good(<<>>)
         \/ \E r \in RelSection : result = decoded[r]
         \/ \E list : Sorted(list) /\ result = Good(list)
<1> DEFINE rels == RelocSections(s)
           todo == {r \in rels : InRange(decoded[r].list, s)}
           places == UNION {{r} \X DOMAIN decoded[r].list : r \in todo}
           merged == {[n \in DOMAIN order |-> decoded[order[n][1]].list[order[n][2]]] :
                        order \in SetToSeqs(places)}
           bad == {r \in rels : ~ decoded[r].ok}
<1>1. rels \subseteq RelSection /\ todo \subseteq rels
  BY DEF RelocSections
<1>2. bad # {} => Min(bad) \in bad
  <2>1. bad \subseteq Nat
    BY <1>1, RelFacts DEF IInv
  <2> HIDE DEF bad
  <2> QED
    BY <2>1, LeastNat
<1>3. \/ result = Good(<<>>)
      \/ \E r \in rels : result = decoded[r]
      \/ (\E r \in rels : ~ decoded[r].ok) /\ result = decoded[Min(bad)]
      \/ \E list \in merged : Sorted(list) /\ result = Good(list)
  <2> HIDE DEF merged, places
  <2> QED
    BY <1>1 DEF SectionRelocs, merged, places
<1>4. CASE (\E r \in rels : ~ decoded[r].ok) /\ result = decoded[Min(bad)]
  <2>1. Min(bad) \in rels
    BY <1>2, <1>4
  <2> QED
    BY <1>1, <1>4, <2>1
<1> HIDE DEF rels, todo, places, merged, bad
<1> QED
  BY <1>1, <1>3, <1>4

\* A list whose neighbours are in order is in order.
LEMMA SortedPairs ==
  ASSUME NEW list \in Seq(Reloc), Sorted(list), NEW k \in 1..Len(list), NEW l \in k..Len(list)
  PROVE  list[k].addr <= list[l].addr
<1> DEFINE n == Len(list)
           a(j) == list[j].addr
           Late == {j \in k..n : ~ (a(k) <= a(j))}
<1>1. n \in Nat /\ k \in 1..n /\ l \in k..n /\ \A j \in 1..n : a(j) \in Int
  <2>1. Len(list) \in Nat /\ \A j \in 1..Len(list) : list[j] \in Reloc
    BY ListElements
  <2> QED
    BY <2>1, SymsAssumption DEF Reloc, Word
<1>2. \A j \in 2..n : a(j - 1) <= a(j)
  BY DEF Sorted
<1> HIDE DEF n, a
<1>3. SUFFICES ASSUME Late # {} PROVE FALSE
  BY <1>1 DEF a
<1>4. Late \subseteq Nat
  BY <1>1
<1> DEFINE j == Min(Late)
<1>5. j \in Late /\ \A e \in Late : j <= e
  <2> HIDE DEF Late
  <2> QED
    BY <1>3, <1>4, LeastNat
<1> HIDE DEF j
<1>6. j \in k..n /\ j # k /\ ~ (a(k) <= a(j))
  BY <1>1, <1>5
<1>7. j - 1 \in k..n /\ j \in 2..n /\ j \in 1..n /\ j - 1 \in 1..n /\ ~ (j <= j - 1)
  BY <1>1, <1>6
<1>8. a(k) <= a(j - 1)
  BY <1>5, <1>7
<1>9. a(j - 1) <= a(j)
  BY <1>2, <1>7
<1> QED
  BY <1>1, <1>6, <1>7, <1>8, <1>9

\* A list with a relocation inside the section and one past its first address
\* touches it, as the two ends of the list tell.
LEMMA InsideInRange ==
  ASSUME FileOK(file), NEW s \in Section, NEW list \in Seq(Reloc), Sorted(list),
         NEW k \in DOMAIN list, NEW m \in DOMAIN list,
         Bounded(file.sections[s].addr, file.sections[s].size),
         list[k].addr < file.sections[s].addr + file.sections[s].size,
         file.sections[s].addr < list[m].addr
  PROVE  InRange(list, s)
<1> DEFINE low == file.sections[s].addr  len == file.sections[s].size
           a == list[k].addr  b == list[m].addr  first == list[1].addr  last == list[Len(list)].addr
<1>1. low \in Word /\ len \in Word
  BY RelFacts, SectionFacts
<1>2. k \in 1..Len(list) /\ m \in 1..Len(list) /\ 1 \in 1..Len(list) /\ Len(list) \in 1..Len(list)
  BY ListElements
<1>3. list[1] \in Reloc /\ list[k] \in Reloc /\ list[m] \in Reloc /\ list[Len(list)] \in Reloc
  BY <1>2, ListElements
<1>4. first \in Word /\ a \in Word /\ b \in Word /\ last \in Word
  BY <1>3 DEF Reloc
<1>5. first <= a /\ b <= last
  <2>1. k \in 1..Len(list) /\ Len(list) \in m..Len(list)
    BY <1>2
  <2> QED
    BY <1>2, <2>1, SortedPairs
<1>6. low < b /\ a < low + len /\ low + len < W
  BY DEF Bounded
<1> HIDE DEF low, len, a, b, first, last
<1>7. (low + len) % W = low + len
  BY <1>1, <1>6, SumMod, SymsAssumption DEF Word
<1>8. first <= low + len /\ last > low
  BY <1>1, <1>4, <1>5, <1>6, SymsAssumption DEF Word
<1>9. list # <<>>
  BY <1>2, EmptySeq
<1> QED
  BY <1>7, <1>8, <1>9 DEF InRange, low, len, first, last

\* There are finitely many relocations in the lists of finitely many sections.
LEMMA PlacesFinite ==
  ASSUME NEW todo, IsFiniteSet(todo), \A q \in todo : IsFiniteSet(DOMAIN decoded[q].list)
  PROVE  IsFiniteSet(UNION {{q} \X DOMAIN decoded[q].list : q \in todo})
<1> DEFINE T == {{q} \X DOMAIN decoded[q].list : q \in todo}
           f == [q \in todo |-> {q} \X DOMAIN decoded[q].list]
<1>1. f \in Surjection(todo, T)
  BY DEF Surjection
<1>2. IsFiniteSet(T)
  <2> HIDE DEF f, T
  <2> QED
    BY <1>1, FS_Surjection
<1>3. ASSUME NEW P \in T
      PROVE  IsFiniteSet(P)
  <2>1. PICK q \in todo : P = {q} \X DOMAIN decoded[q].list
    OBVIOUS
  <2>2. IsFiniteSet({q})
    BY FS_Singleton
  <2> QED
    BY <2>1, <2>2, FS_Product
<1> HIDE DEF T
<1> QED
  BY <1>2, <1>3, FS_UNION DEF T

\* An order of a finite set names each of its elements.
LEMMA SetToSeqsOnto ==
  ASSUME NEW S, IsFiniteSet(S), NEW order \in SetToSeqs(S), NEW x \in S
  PROVE  \E j \in DOMAIN order : order[j] = x
<1> DEFINE n == Cardinality(S)
<1>1. n \in Nat
  BY FS_CardinalityType
<1>2. order \in [1..n -> S] /\ \A a, b \in 1..n : a # b => order[a] # order[b]
  BY DEF SetToSeqs
<1>3. IsFiniteSet(1..n) /\ Cardinality(1..n) = n
  BY <1>1, FS_Interval
<1>4. order \in Injection(1..n, S)
  BY <1>2 DEF Injection, IsInjective
<1>5. order \in Surjection(1..n, S)
  BY <1>3, <1>4, FS_Injection
<1> QED
  BY <1>2, <1>5 DEF Surjection

-----------------------------------------------------------------------------
(* Theorems *)

\* The inductive invariant holds for whatever files are read.
THEOREM Invariance == Spec => []IInv
BY InitInv, NextInv, PTL DEF Spec

\* Every variable has its type.
THEOREM AlwaysTypeOK == Spec => []TypeOK
<1>1. IInv => TypeOK
  BY DEF IInv
<1> QED
  BY <1>1, Invariance, PTL

\* Each relocation refers to the symbol it is encoded with, through the numbering of
\* two tables in one index space (elfSym.go:28-37, elfReloc.go:120-128), or to none.
THEOREM AlwaysSymbolsResolve == Spec => []SymbolsResolve
<1>1. IInv => SymbolsResolve
  <2> SUFFICES ASSUME IInv PROVE SymbolsResolve
    OBVIOUS
  <2>1. FileOK(file) /\ SymsOK(file) /\ SymTabsOK /\ IndexSpaceRight
    BY IndexSpace, RelFacts DEF IInv
  <2>2. ASSUME Numberable, NEW r \in RelSection, NEW k \in DOMAIN decoded[r].list
        PROVE  LET rel == file.rels[r]
                   reloc == decoded[r].list[k]
                   by == IF file.relocatable THEN rel.addr ELSE 0
               IN \E e \in DOMAIN rel.entries :
                    /\ reloc.addr = rel.entries[e].off + by
                    /\ IF reloc.symbol = NoSym
                       THEN rel.symTab = 0 \/ rel.entries[e].sym \notin 1..Len(file.symTabs[rel.symTab]) - 1
                       ELSE LET sym == Sym(reloc.symbol)
                            IN sym.ok => sym.table = rel.symTab /\ sym.row = rel.entries[e].sym
    <3> DEFINE rel == file.rels[r]
               list == decoded[r].list
    <3>1. ListOf(r, list, Distance(r)) /\ list \in Seq(Reloc)
      BY DEF IInv, DecodedOK, ResultOK, ListOf
    <3>2. Opened
      <4>1. list # <<>>
        <5> HIDE DEF list
        <5>1. list = <<>> => DOMAIN list = {}
          OBVIOUS
        <5> QED
          BY <5>1 DEF list
      <4> QED
        BY <4>1 DEF IInv, UnopenedOK
    <3>3. k \in 1..Len(list)
      BY <3>1, ListElements
    <3>4. PICK e \in DOMAIN rel.entries : /\ list[k].addr = rel.entries[e].off + Distance(r)
                                          /\ list[k].symbol = Lookup(rel.symTab, rel.entries[e].sym)
      BY <3>1, <3>3 DEF ListOf
    <3> DEFINE t == rel.symTab  n == rel.entries[e].sym  id == list[k].symbol
    <3>5. t \in 0..2 /\ n \in SymID /\ (t # 0 => file.symTabs[t] # None)
      <4>1. rel.entries[e] \in RelEntry
        BY <2>1, RelFacts, ListElements
      <4> QED
        BY <2>1, <4>1, RelFacts DEF RelEntry
    <3> HIDE DEF rel, list, t, n, id
    <3>6. id = Lookup(t, n)
      BY <3>4 DEF id, t, n
    <3>7. CASE t # 0 /\ n \in 1..Count(t)
      <4>1. t \in 1..2 /\ id = (IF t = 1 THEN 0 ELSE Count(1)) + n - 1
        BY <2>1, <2>2, <3>2, <3>5, <3>6, <3>7, LookupRight
      <4>2. id # NoSym
        <5>1. Count(1) \in Nat /\ Count(2) \in Nat /\ IdW \in Nat /\ Count(1) + Count(2) < IdW
          BY <2>1, <2>2, <3>2, RangeFacts
        <5> QED
          BY <3>7, <4>1, <5>1 DEF NoSym
      <4>3. Sym(id).ok => Sym(id).table = t /\ Sym(id).row = n
        BY <2>1, <2>2, <3>2, <3>7, <4>1, SymRight
      <4> QED
        BY <3>4, <4>2, <4>3 DEF Distance, rel, list, t, n, id
    <3>8. CASE ~ (t # 0 /\ n \in 1..Count(t))
      <4>1. id = NoSym
        BY <2>1, <2>2, <3>2, <3>5, <3>6, <3>8, LookupRight
      <4>2. t = 0 \/ n \notin 1..Len(file.symTabs[t]) - 1
        <5>1. t # 0 => t \in 1..2 /\ Count(t) = Len(file.symTabs[t]) - 1
          BY <2>1, <2>2, <3>5, NumberableFacts
        <5> QED
          BY <3>8, <5>1
      <4> QED
        BY <3>4, <4>1, <4>2 DEF Distance, rel, list, t, n, id
    <3> QED
      BY <3>7, <3>8
  <2> QED
    BY <2>1, <2>2 DEF SymbolsResolve
<1> QED
  BY <1>1, Invariance, PTL

\* Sections and symbols of a file that is open give only bytes that they have
\* (sym.go:177, elf.go:381-387).
THEOREM AlwaysDataInside == Spec => []DataInside
<1>1. IInv => DataInside
  BY Ranges, RelFacts DEF IInv, DataInside
<1> QED
  BY <1>1, Invariance, PTL

\* The relocations of every section come in increasing order of their addresses, from
\* however many relocation sections (elfReloc.go:302-336).
THEOREM AlwaysIncreasingOrder == Spec => []IncreasingOrder
<1>1. IInv => IncreasingOrder
  <2> SUFFICES ASSUME IInv, NEW s \in Section, NEW result \in SectionRelocs(s)
               PROVE  Sorted(result.list)
    BY DEF IncreasingOrder
  <2>1. \A r \in RelSection : Sorted(decoded[r].list)
    BY DEF IInv, DecodedOK, ResultOK, ListOf
  <2>2. CASE result = Good(<<>>)
    <3>1. result.list = <<>>
      BY <2>2 DEF Good
    <3> QED
      BY <3>1, EmptySeq DEF Sorted
  <2>3. CASE \E r \in RelSection : result = decoded[r]
    BY <2>1, <2>3
  <2>4. CASE \E list : Sorted(list) /\ result = Good(list)
    <3>1. PICK list : Sorted(list) /\ result = Good(list)
      BY <2>4
    <3>2. Good(list).list = list
      BY DEF Good
    <3> QED
      BY <3>1, <3>2
  <2> QED
    BY <2>2, <2>3, <2>4, SectionRelocsCases
<1> QED
  BY <1>1, Invariance, PTL

\* A section has all the relocations of its relocation sections that lie inside it,
\* but for those of a list that, of several, does not go past its first address; and
\* unless the section ends at the top of the address space (elfReloc.go:302-336).
THEOREM AlwaysInsideKept == Spec => []InsideKept
<1>1. IInv => InsideKept
  <2> SUFFICES ASSUME IInv, NEW s \in Section, NEW result \in SectionRelocs(s),
                      result.ok, Bounded(file.sections[s].addr, file.sections[s].size),
                      NEW r \in RelocSections(s), NEW k \in DOMAIN decoded[r].list,
                      decoded[r].list[k].addr < file.sections[s].addr + file.sections[s].size,
                      Cardinality(RelocSections(s)) > 1 =>
                        \E m \in DOMAIN decoded[r].list :
                          ~ (decoded[r].list[m].addr <= file.sections[s].addr)
               PROVE  \E j \in DOMAIN result.list : result.list[j] = decoded[r].list[k]
    BY DEF InsideKept
  <2> DEFINE list == decoded[r].list
  <2>1. r \in RelSection /\ list \in Seq(Reloc) /\ Sorted(list)
    BY DEF RelocSections, IInv, DecodedOK, ResultOK, ListOf
  <2> DEFINE rels == RelocSections(s)
             todo == {q \in rels : InRange(decoded[q].list, s)}
             places == UNION {{q} \X DOMAIN decoded[q].list : q \in todo}
  <2>2. r \in rels /\ todo \subseteq rels /\ rels \subseteq RelSection /\ IsFiniteSet(rels) /\ IsFiniteSet(todo)
    <3>1. rels \subseteq RelSection /\ todo \subseteq rels
      BY DEF RelocSections
    <3>2. IsFiniteSet(RelSection)
      <4>1. Len(file.rels) \in Nat /\ RelSection = 1..Len(file.rels)
        BY RelFacts DEF IInv
      <4>2. 1 \in Int /\ Len(file.rels) \in Int
        BY <4>1
      <4>3. IsFiniteSet(1..Len(file.rels))
        BY <4>2, FS_Interval
      <4> QED
        BY <4>1, <4>3
    <3> QED
      BY <3>1, <3>2, FS_Subset
  <2>3. Cardinality(rels) # 1 => r \in todo
    <3> SUFFICES ASSUME Cardinality(rels) # 1 PROVE InRange(list, s)
      BY <2>2
    <3>1. Cardinality(rels) \in Nat /\ Cardinality(rels) # 0
      BY <2>2, FS_CardinalityType, FS_EmptySet
    <3>2. PICK m \in DOMAIN list : ~ (list[m].addr <= file.sections[s].addr)
      BY <3>1
    <3>3. file.sections[s].addr \in Word /\ list[m].addr \in Word
      <4>1. file.sections[s].addr \in Word
        BY RelFacts, SectionFacts DEF IInv
      <4>2. list[m] \in Reloc
        BY <2>1, ListElements
      <4> QED
        BY <4>1, <4>2 DEF Reloc
    <3>4. file.sections[s].addr < list[m].addr
      BY <3>2, <3>3, SymsAssumption DEF Word
    <3> QED
      BY <2>1, <3>4, InsideInRange DEF IInv
  <2>4. \/ Cardinality(rels) = 1 /\ \E q \in rels : result = decoded[q]
        \/ ~ result.ok
        \/ /\ Cardinality(rels) # 1 /\ Cardinality(todo) = 1
           /\ \E q \in todo : result = decoded[q]
        \/ Cardinality(rels) # 1 /\ \E order \in SetToSeqs(places) :
             result.list = [n \in DOMAIN order |-> decoded[order[n][1]].list[order[n][2]]]
    <3> DEFINE merged == {[n \in DOMAIN order |-> decoded[order[n][1]].list[order[n][2]]] :
                            order \in SetToSeqs(places)}
               bad == {q \in rels : ~ decoded[q].ok}
    <3>1. result \in IF rels = {} THEN {Good(<<>>)}
                     ELSE IF Cardinality(rels) = 1 THEN {decoded[q] : q \in rels}
                     ELSE IF \E q \in rels : ~ decoded[q].ok THEN {decoded[Min(bad)]}
                     ELSE IF Cardinality(todo) = 1 THEN {decoded[q] : q \in todo}
                     ELSE {Good(l) : l \in {m \in merged : Sorted(m)}}
      <4> HIDE DEF places, todo
      <4> QED
        BY DEF SectionRelocs, todo, places
    <3>2. bad # {} => Min(bad) \in bad
      <4>1. bad \subseteq Nat
        BY <2>2, RelFacts DEF IInv
      <4> HIDE DEF bad
      <4> QED
        BY <4>1, LeastNat
    <3>3. \A m \in merged : \E order \in SetToSeqs(places) :
             m = [n \in DOMAIN order |-> decoded[order[n][1]].list[order[n][2]]]
      OBVIOUS
    <3>4. \A l : Good(l).list = l
      BY DEF Good
    <3> HIDE DEF places, todo, merged, rels
    <3>5. rels # {}
      BY <2>2
    <3>6. CASE \E q \in rels : ~ decoded[q].ok
      <4>1. Min(bad) \in rels /\ ~ decoded[Min(bad)].ok
        BY <3>2, <3>6
      <4> HIDE DEF bad
      <4> QED
        BY <3>1, <3>5, <3>6, <4>1
    <3>7. CASE ~ \E q \in rels : ~ decoded[q].ok
      <4> HIDE DEF bad
      <4>1. CASE Cardinality(rels) = 1
        BY <3>1, <3>5, <4>1
      <4>2. CASE Cardinality(rels) # 1 /\ Cardinality(todo) = 1
        BY <3>1, <3>5, <3>7, <4>2
      <4>3. CASE Cardinality(rels) # 1 /\ Cardinality(todo) # 1
        <5>1. result \in {Good(l) : l \in {m \in merged : Sorted(m)}}
          BY <3>1, <3>5, <3>7, <4>3
        <5>2. PICK l \in merged : result = Good(l)
          BY <5>1
        <5>3. result.list = l
          BY <3>4, <5>2
        <5>4. PICK order \in SetToSeqs(places) :
                l = [n \in DOMAIN order |-> decoded[order[n][1]].list[order[n][2]]]
          BY <3>3
        <5> QED
          BY <4>3, <5>3, <5>4
      <4> QED
        BY <4>1, <4>2, <4>3
    <3> QED
      BY <3>6, <3>7
  <2>5. ASSUME result = decoded[r]
        PROVE  \E j \in DOMAIN result.list : result.list[j] = decoded[r].list[k]
    BY <2>5
  <2>6. ASSUME Cardinality(rels) # 1, NEW order \in SetToSeqs(places),
               result.list = [n \in DOMAIN order |-> decoded[order[n][1]].list[order[n][2]]]
        PROVE  \E j \in DOMAIN result.list : result.list[j] = decoded[r].list[k]
    <3>1. IsFiniteSet(places)
      <4>1. \A q \in todo : IsFiniteSet(DOMAIN decoded[q].list)
        <5> SUFFICES ASSUME NEW q \in todo PROVE IsFiniteSet(DOMAIN decoded[q].list)
          OBVIOUS
        <5>1. decoded[q].list \in Seq(Reloc)
          BY <2>2 DEF IInv, DecodedOK, ResultOK, ListOf
        <5>2. DOMAIN decoded[q].list = 1..Len(decoded[q].list) /\ Len(decoded[q].list) \in Nat
          BY <5>1, ListElements
        <5> QED
          BY <5>2, FS_Interval
      <4> HIDE DEF todo, places
      <4> QED
        BY <2>2, <4>1, PlacesFinite DEF places
    <3>2. <<r, k>> \in places
      BY <2>3, <2>6
    <3> HIDE DEF places
    <3>3. PICK j \in DOMAIN order : order[j] = <<r, k>>
      BY <3>1, <3>2, SetToSeqsOnto
    <3> QED
      BY <2>6, <3>3
  <2> HIDE DEF places, todo, rels
  <2>7. CASE Cardinality(rels) = 1 /\ \E q \in rels : result = decoded[q]
    BY <2>2, <2>5, <2>7, FS_Singleton
  <2>8. CASE Cardinality(rels) # 1 /\ Cardinality(todo) = 1 /\ \E q \in todo : result = decoded[q]
    BY <2>2, <2>3, <2>5, <2>8, FS_Singleton
  <2> QED
    BY <2>4, <2>6, <2>7, <2>8
<1> QED
  BY <1>1, Invariance, PTL

\* An implicit addend comes out of the section the relocation lies in, at its own
\* offset, when sections that are loaded do not overlap and none wraps around or fills
\* the address space (elfReloc.go:232-278).
THEOREM AlwaysAddendsFromHome == Spec => [](Fits /\ Apart => AddendsFromHome)
<1>1. IInv => (Fits /\ Apart => AddendsFromHome)
  <2> SUFFICES ASSUME IInv, Fits, Apart, NEW r \in RelSection,
                      file.rels[r].type = "rel", decoded[r].ok,
                      NEW k \in DOMAIN decoded[r].list, decoded[r].list[k].size > 0
               PROVE  decoded[r].list[k].addend =
                        Addend(Home(r, decoded[r].list[k]),
                               decoded[r].list[k].addr - file.sections[Home(r, decoded[r].list[k])].addr)
    BY DEF AddendsFromHome
  <2> DEFINE list == decoded[r].list
  <2>1. AddendsOK(r, list, Len(list)) /\ list \in Seq(Reloc)
    BY DEF IInv, DecodedOK, ResultOK, ListOf
  <2>2. k \in 1..Len(list)
    BY <2>1, ListElements
  <2> QED
    BY <2>1, <2>2 DEF AddendsOK
<1> QED
  BY <1>1, Invariance, PTL

\* With such sections no relocation section that has a target reads past its bytes,
\* and none has to find out by slicing them (elfReloc.go:237-251).
THEOREM AlwaysTargetBounded == Spec => [](Fits => TargetBounded)
<1>1. IInv => (Fits => TargetBounded)
  BY DEF IInv, DecodedOK, ResultOK, TargetBounded
<1> QED
  BY <1>1, Invariance, PTL
=============================================================================
