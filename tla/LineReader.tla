----------------------------- MODULE LineReader -----------------------------
(***************************************************************************)
(* dbg.LineReader: iteration over the rows of the DWARF line tables in     *)
(* address order, across compilation units or inside one subprogram, and   *)
(* the stack of inlined functions at the current row.  A client calls      *)
(* SeekPC, SeekSubprogram and Next in any order the documentation allows.  *)
(*                                                                         *)
(* Maps from addresses (imap.Imap) are functions on addresses here, and an *)
(* iterator is the maximal run it stands on: Imap!FindMaximal.             *)
(***************************************************************************)
EXTENDS Naturals, Sequences, FiniteSetsExt

CONSTANTS
  MaxAddr,        \* addresses are 0..MaxAddr
  CU, Sub, Site,  \* compilation units, subprograms, inline sites
  None,           \* a nil *dwarf.Entry, *InlineSite
  All,            \* the scope of SeekPC: every compilation unit
  Worlds,         \* the debug informations to read: see WorldOK
  LineCacheFreq,  \* lineCacheFreq: a waypoint every so many rows
  Rescope         \* may a client change the scope of a reader?

ASSUME ConstantsAssumption ==
  /\ MaxAddr \in Nat
  /\ LineCacheFreq \in Nat \ {0}
  /\ Rescope \in BOOLEAN
  /\ None \notin CU \cup Sub \cup Site \cup {All}
  /\ All \notin Sub

Addr == 0..MaxAddr

-----------------------------------------------------------------------------
(* What a compiler writes *)

\* Rows i to k belong to one sequence, if i <= k.
Together(tab, i, k) == \A j \in i..k - 1 : ~ tab[j].end

\* A line table is one of sequences, each in address order and ended; no row of
\* one lies among the rows of another.
TableOK(tab) ==
  /\ tab \in Seq([address : Nat, end : BOOLEAN])
  /\ \A i \in DOMAIN tab : ~ tab[i].end => i < Len(tab)
  /\ \A i, k \in DOMAIN tab :
       i <= k /\ Together(tab, i, k) => tab[i].address <= tab[k].address
  /\ \A i, k, n \in DOMAIN tab :
       /\ i <= k /\ Together(tab, i, k + 1)
       /\ ~ tab[n].end /\ tab[i].address <= tab[n].address /\ tab[n].address < tab[k + 1].address
       => IF i <= n THEN Together(tab, i, n) ELSE Together(tab, n, i)

\* Every address of a unit is covered by a row that begins in the same
\* subprogram, or outside of any with it, and in the unit.
Covers(w, cu, a, i) ==
  LET tab == w.table[cu]
  IN /\ i + 1 \in DOMAIN tab /\ ~ tab[i].end
     /\ tab[i].address <= a /\ a < tab[i + 1].address
     /\ \A b \in tab[i].address..a : w.cuOf[b] = cu /\ w.subOf[b] = w.subOf[a]

WorldOK(w) ==
  /\ w.badTables \subseteq CU /\ w.badRanges \subseteq Sub
  /\ w.cuOf \in [Addr -> CU \cup {None}]
  /\ w.subOf \in [Addr -> Sub \cup {None}]
  /\ w.siteOf \in [Addr -> Site \cup {None}]
  /\ \A a \in Addr : w.siteOf[a] # None => w.subOf[a] # None
  /\ DOMAIN w.table = CU
  /\ \A cu \in CU \ w.badTables :
       /\ TableOK(w.table[cu])
       /\ \A a \in Addr : w.cuOf[a] = cu => \E i \in DOMAIN w.table[cu] : Covers(w, cu, a, i)

ASSUME WorldsAssumption == \A w \in Worlds : WorldOK(w)

VARIABLES
  dw,      \* what the DWARF data says; it never changes
  lr,      \* the reader: its fields, see NewReader
  result   \* what the last call returned

vars == <<dw, lr, result>>

-----------------------------------------------------------------------------
(* imap.Imap, as module Imap specifies it *)

\* The maximal run of map m around address a, which has a value.
RunAt(m, a) ==
  [low  |-> Min({b \in Addr : b <= a /\ \A c \in b..a : m[c] = m[a]}),
   high |-> Max({b \in Addr : a <= b /\ \A c \in a..b : m[c] = m[a]}) + 1,
   val  |-> m[a]]

NoRun == [low |-> 0, high |-> 0, val |-> None]

\* The run that contains a, or the first one after it.
Iter(m, a) ==
  LET S == {b \in Addr : a <= b /\ m[b] # None}
  IN IF S = {} THEN NoRun ELSE RunAt(m, Min(S))

Find(m, a) == IF a \in Addr /\ m[a] # None THEN RunAt(m, a) ELSE NoRun

Contains(i, a) == i.low <= a /\ a < i.high

-----------------------------------------------------------------------------
(* What dbg.Data derives from the DWARF data *)

\* cuRanges, or a subprogram's own ranges; the values are compilation units.
RangesOf(scope) ==
  [a \in Addr |-> IF scope = All \/ dw.subOf[a] = scope THEN dw.cuOf[a] ELSE None]

\* AddrToSubprogram, given the unit.
AddrToSubprogram(a, cu) == IF dw.cuOf[a] = cu THEN dw.subOf[a] ELSE None

\* inlineRanges: the innermost inline site at each address of a subprogram.
InlineRanges(s) ==
  [a \in Addr |-> IF s # None /\ dw.subOf[a] = s THEN dw.siteOf[a] ELSE None]

\* Mutant: the rows are counted on from one sequence to the next.
WaypointsRunOn(cu) ==
  {i \in DOMAIN dw.table[cu] : ~ dw.table[cu][i].end /\ (i - 1) % LineCacheFreq = 0}

\* lineTableCache.ensure: the indices of the rows that get a waypoint, every
\* LineCacheFreq-th row of a sequence that is not its end.
Waypoints(cu) ==
  LET tab == dw.table[cu]
      starts == {i \in DOMAIN tab : i = 1 \/ tab[i - 1].end}
      nth(i) == i - Max({j \in starts : j <= i})
  IN {i \in DOMAIN tab : ~ tab[i].end /\ nth(i) % LineCacheFreq = 0}

-----------------------------------------------------------------------------
(* debug/dwarf.LineReader, from the Go library: a position in a table, the *)
(* index of the row it reads next                                          *)

\* Reading on from row `first': the row SeekPC stops at, and whether it succeeds.
DwarfScan(tab, first, pc) ==
  LET beyond == {j \in first + 1..Len(tab) : tab[j].address > pc}
      entry == IF beyond = {} THEN Len(tab) ELSE Min(beyond) - 1
  IN IF tab[first].address > pc
     THEN [row |-> 1, pos |-> 1, ok |-> FALSE]
     ELSE [row |-> entry, pos |-> entry + 1,
           ok |-> beyond # {} /\ ~ tab[entry].end]

\* SeekPC with row `start' current: it goes back to the first one if it must.
DwarfSeekPC(tab, start, pc) ==
  DwarfScan(tab, IF tab[start].address > pc THEN 1 ELSE start, pc)

-----------------------------------------------------------------------------
(* LineReader's methods, as functions of the reader *)

NewReader ==
  [scope |-> None, rIter |-> NoRun, cu |-> None, pos |-> 1,
   line |-> [address |-> 0, end |-> TRUE, row |-> 0],
   inline |-> None, valid |-> NoRun, stack |-> None]

\* Mutant: the interval in which the old stack was valid is kept.
ClearStackOnly(r) == [r EXCEPT !.stack = None]

ClearStack(r) == [r EXCEPT !.stack = None, !.valid = NoRun]

SetStack(r, run) == [r EXCEPT !.stack = run.val, !.valid = run]

UpdateStack(r) ==
  LET pc == r.line.address
      known == Find(InlineRanges(r.inline), pc)
      sub == IF r.scope # All THEN r.scope ELSE AddrToSubprogram(pc, r.cu)
      moved == [r EXCEPT !.inline = sub]
      found == Find(InlineRanges(sub), pc)
  IN IF r.line.end THEN ClearStack(r)
     ELSE IF Contains(r.valid, pc) THEN r
     ELSE IF known.val # None THEN SetStack(r, known)
     ELSE IF sub = None THEN ClearStack(r)
     ELSE IF found.val # None THEN SetStack(moved, found)
     ELSE ClearStack(moved)

LineOf(tab, i) == [address |-> tab[i].address, end |-> tab[i].end, row |-> i]

\* The range to seek in: the current one if it holds pc, or else the one of the
\* scope that holds pc or is the first after it.
RangeFor(r, scope, pc) ==
  IF r.rIter.val # None /\ Contains(r.rIter, pc) THEN r.rIter ELSE Iter(RangesOf(scope), pc)

\* The waypoint to start from: the last one with the greatest address up to pc,
\* or the least one.
WayTo(cu, pc) ==
  LET tab == dw.table[cu]
      ways == Waypoints(cu)
      below == {i \in ways : tab[i].address <= pc}
  IN IF below = {} THEN CHOOSE i \in ways : \A j \in ways : tab[i].address <= tab[j].address
     ELSE Max({i \in below : \A j \in below : tab[j].address <= tab[i].address})

\* seek: the reader after it and the error it returns.  If the unit's line table
\* does not decode, the reader has moved to the unit, with its row and stack still
\* those of the old place.
Seek(r, scope, pc) ==
  LET run == RangeFor(r, scope, pc)
      first == IF pc < run.low THEN run.low ELSE pc
      tab == dw.table[run.val]
      found == DwarfSeekPC(tab, WayTo(run.val, first), first)
      scoped == [[r EXCEPT !.scope = scope] EXCEPT !.rIter = run]
      moved == [scoped EXCEPT !.cu = run.val]
      there == [[moved EXCEPT !.pos = found.pos] EXCEPT !.line = LineOf(tab, found.row)]
  IN IF run.val = None THEN [r |-> scoped, err |-> "unknownPC"]
     ELSE IF run.val \in dw.badTables THEN [r |-> moved, err |-> "badTable"]
     ELSE IF found.ok THEN [r |-> UpdateStack(there), err |-> "ok"]
     ELSE [r |-> there, err |-> "seekFailed"]

\* Mutant: the search goes on behind the address where the sequence ended.
NextSequenceSkips(r) ==
  LET out == Seek(r, r.scope, r.line.address + 1)
  IN [out EXCEPT !.err = IF @ = "unknownPC" THEN "eof" ELSE @]

\* Next past an EndSequence: to the next sequence in address order.
NextSequence(r) ==
  LET once == Seek(r, r.scope, r.line.address)
      twice == IF once.err = "ok" /\ once.r.line.end
               THEN Seek(once.r, r.scope, once.r.line.address + 1)
               ELSE once
  IN [twice EXCEPT !.err = IF @ = "unknownPC" THEN "eof" ELSE @]

\* Mutant: the rows go on past the end of the current range.
NextRowRunsOn(r) ==
  LET tab == dw.table[r.cu]
  IN IF r.pos <= Len(tab)
     THEN [r |-> UpdateStack([r EXCEPT !.pos = @ + 1, !.line = LineOf(tab, r.pos)]),
           err |-> "ok"]
     ELSE [r |-> ClearStack(
                   [r EXCEPT !.line = [address |-> r.line.address + 1, end |-> TRUE, row |-> 0]]),
           err |-> "ok"]

\* Next inside a sequence.
NextRow(r) ==
  LET tab == dw.table[r.cu]
      more == r.pos <= Len(tab)
      row == LineOf(tab, r.pos)
      read == IF more THEN [r EXCEPT !.pos = @ + 1] ELSE r
      end == IF more THEN r.rIter.high ELSE r.line.address + 1
      line == IF more /\ row.address < r.rIter.high THEN row
              ELSE [address |-> end, end |-> TRUE, row |-> 0]
  IN [r |-> UpdateStack([read EXCEPT !.line = line]), err |-> "ok"]

-----------------------------------------------------------------------------
Init ==
  /\ dw \in Worlds
  /\ lr = NewReader
  /\ result = "unpositioned"

Return(out) == lr' = out.r /\ result' = out.err /\ UNCHANGED dw

\* May the client seek in this scope?
MayScope(scope) == Rescope \/ lr.scope \in {None, scope}

SeekPC(pc) == MayScope(All) /\ Return(Seek(lr, All, pc))

\* The ranges of a subprogram other than the reader's are decoded first.
SeekSubprogram(s, pc) ==
  /\ MayScope(s)
  /\ Return(IF s # lr.scope /\ s \in dw.badRanges THEN [r |-> lr, err |-> "ranges"]
            ELSE Seek(lr, s, pc))

\* A Seek has positioned the reader; a failed one has not.
Positioned == result \in {"ok", "eof"}

NextLine ==
  /\ Positioned
  /\ Return(IF lr.line.end THEN NextSequence(lr) ELSE NextRow(lr))

Next ==
  \/ \E pc \in Addr : SeekPC(pc)
  \/ \E s \in Sub, pc \in Addr : SeekSubprogram(s, pc)
  \/ NextLine

Spec == Init /\ [][Next]_vars

-----------------------------------------------------------------------------
(* What the reader should do, said of the DWARF data alone *)

InScope(scope, a) == a \in Addr /\ RangesOf(scope)[a] # None

\* The row that covers an address: the last one of its unit's table that
\* starts a stretch of addresses around it.
RowCovering(a) ==
  LET tab == dw.table[dw.cuOf[a]]
  IN CHOOSE i \in 1..Len(tab) - 1 :
       ~ tab[i].end /\ tab[i].address <= a /\ a < tab[i + 1].address

\* Where a seek should land: the first address in scope at or after pc.
Landing(scope, pc) == {a \in Addr : a >= pc /\ InScope(scope, a)}

\* Is there a row in scope from one address up to another?
RowBetween(scope, lo, hi) ==
  \E a \in Addr : /\ lo <= a /\ a < hi /\ InScope(scope, a)
                  /\ dw.table[dw.cuOf[a]][RowCovering(a)].address = a

-----------------------------------------------------------------------------
(* Properties *)

TypeOK ==
  /\ dw.badTables \subseteq CU /\ dw.badRanges \subseteq Sub
  /\ dw.cuOf \in [Addr -> CU \cup {None}]
  /\ dw.subOf \in [Addr -> Sub \cup {None}]
  /\ dw.siteOf \in [Addr -> Site \cup {None}]
  /\ lr.scope \in Sub \cup {All, None}
  /\ lr.cu \in CU \cup {None}
  /\ lr.stack \in Site \cup {None}
  /\ lr.line.address \in 0..MaxAddr + 1
  /\ result \in {"unpositioned", "ok", "unknownPC", "eof", "badTable", "ranges"}

SeekLands(scope, pc) ==
  IF scope \in dw.badRanges THEN result' = "ranges" /\ lr' = lr
  ELSE IF Landing(scope, pc) = {} THEN result' = "unknownPC"
  ELSE IF dw.cuOf[Min(Landing(scope, pc))] \in dw.badTables THEN result' = "badTable"
  ELSE LET a == Min(Landing(scope, pc))
       IN /\ result' = "ok"
          /\ lr'.cu = dw.cuOf[a]
          /\ lr'.line.row = RowCovering(a)

\* A seek lands on the row that covers pc, or the first address in scope after
\* it, and fails with ErrUnknownPC just when there is none (lines.go:167-172,
\* :195-198), wherever the reader stood before and whatever seek failed; it does
\* not pass over a unit whose line table does not decode.
SeekRight ==
  [][\A scope \in Sub \cup {All}, pc \in Addr :
       (IF scope = All THEN SeekPC(pc) ELSE SeekSubprogram(scope, pc))
       => SeekLands(scope, pc)]_vars

NextMovesOn ==
  LET from == IF lr.line.end THEN lr.line.address ELSE lr.line.address + 1
      left == Landing(lr.scope, lr.line.address)
  IN CASE result' = "ok" ->
            /\ lr'.line.address >= lr.line.address
            /\ ~ RowBetween(lr.scope, from, lr'.line.address)
            /\ \/ lr'.line.end
               \/ lr.line.end /\ lr'.line.row = RowCovering(lr'.line.address)
               \/ lr'.cu = lr.cu /\ lr'.line.row = lr.line.row + 1
       [] result' = "eof" -> left = {}
       [] result' = "badTable" -> left # {} /\ dw.cuOf[Min(left)] \in dw.badTables
       [] OTHER -> FALSE

\* Next moves on to the next row in scope: never backwards, over no row's
\* address, through the rows of one address one at a time; it reports EOF only
\* when no row is left, and fails only where a table that does not decode has the
\* next one (lines.go:209-218).
NextRight == [][NextLine => NextMovesOn]_vars

\* A reader scoped to a subprogram never stands on a row outside it
\* (lines.go:167-170).
ScopeRespected ==
  result = "ok" /\ ~ lr.line.end => InScope(lr.scope, lr.line.address)

\* Every variable has its type, and Stack is the inline stack at the current address, although the map it comes
\* from and its interval of validity are kept from row to row and from seek to
\* seek (lines.go:319-355).
StackRight ==
  /\ TypeOK
  /\ result = "ok" =>
       lr.stack = (IF lr.line.end THEN None ELSE dw.siteOf[lr.line.address])

-----------------------------------------------------------------------------
(* The inductive invariant, for the proofs *)

\* Run r of map m: maximal, with one value.
IsRun(m, r) ==
  /\ r.low \in Addr /\ r.high \in 1..MaxAddr + 1 /\ r.low < r.high
  /\ \A b \in r.low..r.high - 1 : m[b] = r.val
  /\ r.low # 0 => m[r.low - 1] # r.val
  /\ r.high \in Addr => m[r.high] # r.val

Run(V) == [low : Nat, high : Nat, val : V \cup {None}]

Reader ==
  [scope : Sub \cup {All, None}, rIter : Run(CU), cu : CU \cup {None}, pos : Nat,
   line : [address : 0..MaxAddr + 1, end : BOOLEAN, row : Nat],
   inline : Sub \cup {None}, valid : Run(Site), stack : Site \cup {None}]

\* The stack is right wherever it is said to be valid.
ValidOK(r) ==
  /\ r.stack = r.valid.val
  /\ \A b \in Nat : Contains(r.valid, b) => b \in Addr /\ dw.siteOf[b] = r.stack

\* The iterator stands on a run of the scope.
IterOK(r) == r.rIter.val # None => r.scope # None /\ IsRun(RangesOf(r.scope), r.rIter)

\* The current row is one of the iterator's unit and run.
RowOK(r) ==
  LET tab == dw.table[r.cu]
  IN /\ r.cu \in CU \ dw.badTables /\ r.rIter.val = r.cu /\ Contains(r.rIter, r.line.address)
     /\ r.line.row \in DOMAIN tab /\ r.line = LineOf(tab, r.line.row) /\ r.pos = r.line.row + 1
     /\ r.stack = dw.siteOf[r.line.address]

\* No row that covers what follows an end begins in front of it.
EndOK(r) ==
  \A a \in Addr :
    a >= r.line.address /\ InScope(r.scope, a) /\ dw.cuOf[a] \notin dw.badTables
    => dw.table[dw.cuOf[a]][RowCovering(a)].address >= r.line.address

PlaceOK ==
  /\ lr.scope # None
  /\ IF lr.line.end THEN EndOK(lr) ELSE result = "ok" /\ RowOK(lr)
  /\ result = "ok" /\ lr.line.end => lr.stack = None

IInv ==
  /\ dw \in Worlds /\ lr \in Reader /\ lr.scope \notin dw.badRanges
  /\ result \in {"unpositioned", "ok", "unknownPC", "eof", "badTable", "ranges"}
  /\ IterOK(lr) /\ ValidOK(lr)
  /\ Positioned => PlaceOK
=============================================================================
