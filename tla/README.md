# A verification development of go-obj

go-obj reads object files: it opens ELF files and loads their sections and
relocations on demand, looks symbols up by address, and maps addresses to source
lines and inlined calls through DWARF.  This directory holds TLA+ modules that
model its stateful and algorithmic core, TLC runs that check them on small
instances, and proofs, checked by TLAPS, of what is most important about them.
`PROJECT.json` is the index: the components, the runs, the mutants of each
property, the lines of the source each definition stands for, the hazards and the
theorems.

1. [The system](#1-the-system)
2. [The modules](#2-the-modules)
3. [What the runs check](#3-what-the-runs-check)
4. [Where the code departs from its documentation](#4-where-the-code-departs-from-its-documentation)
5. [What is proved](#5-what-is-proved)
6. [What is not modelled](#6-what-is-not-modelled)
7. [Plan](#7-plan)

## 1. The system

| Component | State it keeps | Operations | Used by |
|---|---|---|---|
| `internal/imap` `Imap` | a search tree of disjoint intervals, each with a value | `Insert`, `Find`, `Iter` | `dbg` |
| `internal/imap` `avlTree` | nodes with left, right, parent and a cached height | `Insert`, `Delete`, `Search`, `Next`, `Prev` | `Imap` |
| `dbg.Data` | an index of units, per unit an index of subprograms and a cache of line table waypoints, each under a `sync.Once`, a cache of inline maps | `New`, `AddrToCU`, `AddrToSubprogram`, `LineReader` | clients, `LineReader` |
| `dbg.LineReader` | scope, current range, unit, table position, row, inline stack with the interval it is valid in | `SeekPC`, `SeekSubprogram`, `Next` | clients |
| `dbg.inlineRanges` | a `sync.Map` of inline maps | one walk per subprogram | `LineReader` |
| `obj.elfFile` | sections, each with cached bytes, a cached error, an mmap, cached relocations, under three kinds of `sync.Once` | `Open`, `Section.Data`, `Close`, `ResolveAddr` | clients |
| relocations (`elfReloc.go`) | relocations of each relocation section and of each section | read, sort, adjust, fill in addends, merge | `elfFile` |
| ELF symbols (`elfSym.go`) | the index ranges of two symbol tables | `Sym`, `NumSyms`, `lookup` | clients, relocations |
| `obj.SynthesizeSizes` | none; changes a slice of symbols | one pass | clients, before `symtab` |
| `symtab.Table` | sorted boundaries per section, an index of names | `NewTable`, `Addr`, `Name` | clients |
| `obj.Reader`, `arch.Layout` | a cursor over bytes | fixed-width reads | `elfSym`, `elfReloc` |
| `asm` | none | disassembles a block of bytes | clients |

How they interact.  `dbg` turns DWARF ranges into `Imap`s, one `Insert` per range; a
`LineReader` keeps an iterator of one `Imap` and the interval of a `Find` in
another while it moves.  `Section.Data` reads the bytes of a section and then its
relocations; these come from other sections, which are read through `Data` again
and whose addends may need the bytes of the first, so one call enters up to three
kinds of once, in several sections, on the way.  `SynthesizeSizes` and `NewTable`
work on one slice of symbols, in that order, if the client wants it.

What is hard:

* *Sequences of calls.*  The shape of a map or a tree after many overlapping
  Inserts, or after the deletion of a node with two children, depends on the whole
  history.  The tests insert at random and compare answers; they do not look at
  what holds in the middle of an operation.
* *State kept for speed.*  `pred` and `n` across deletions in `Imap.Insert`, cached
  heights, the reader's range iterator and stack interval, `populateAddends`' target
  and bytes.  Each is right only as long as something else has not changed.
* *Concurrency.*  Goroutines share a file; the caches are filled under onces that
  are entered while others are held.  Goroutines share a `dbg.Data` too: some of its
  caches are filled under onces, and one by whoever comes first.
* *Partial failure.*  Reading bytes may succeed and reading relocations fail, or one
  of several relocation sections; a panic may leave a once whose cache was never
  filled; some DWARF entries, ranges or line tables do not decode and the rest is used.
* *Boundaries.*  Half-open intervals that abut; symbols that coincide, cross or have
  no size; unsigned arithmetic that wraps.

What makes each component correct, in a sentence: the map of addresses a client
sees is the one plain assignments would give, and the intervals are maximal
(`Imap`); the tree is ordered, balanced and holds just the nodes it was given
(`avlTree`); a reader's row is the one that covers the address, its iteration skips
nothing in scope and its stack is the one at its address (`LineReader`); a lookup
returns a symbol that contains the address, the innermost where they nest
(`symtab`); a synthesized size reaches to the next symbol (`SynthesizeSizes`); all
callers of `Data` get the same answer, with all or none of what is merged for the
section, and every call returns (`elfFile`);
every address is found in the unit, the subprogram and the inlined call that the
entries nest it in, whoever asks first (`dbg.Data`, `inlineRanges`); each symbol of
two tables has one index, found from either side, and a range of data is what was
asked for (`elfSym.go`); each relocation has the addend stored at its own place and
a merge drops no relocation that lies past a section's first address
(`elfReloc.go`).  Where the code does less than that, section 4 says so.
`PROJECT.json` lists the hazards line by line.

## 2. The modules

| Module | Models | State | Actions |
|---|---|---|---|
| `IntervalMap` | what `Imap` promises: a partial map of addresses, and the call under way | `map`, `call` | `Insert`, `Return` |
| `Imap` | `imap.go`, `iter.go`, `interval.go` | `tree`, `node`, Insert's locals `n`, `pred`, its arguments, `pc` | one per branch of Insert's loop and of the merge after it |
| `ImapProofs` | theorems about `Imap` | | |
| `OrderedNodes` | what the tree promises: a set of nodes | `nodes` | `Add`, `Remove` |
| `Avl` | `avl.go` | `t` (root, left, right, parent, height), `at`, rebalance's loop variable | `Insert`, `Delete`, `Rebalance` (one node of the walk) |
| `AvlTrees` | lemmas for the proofs about `Avl`: search trees, their parent pointers, heights and rotations | | |
| `AvlProofs` | theorems about `Avl` | | |
| `LineReader` | `lines.go` | `dw`, the DWARF data, `lr`, the reader's fields, `result` | `SeekPC`, `SeekSubprogram`, `NextLine` |
| `LineReaderProofs` | theorems about `LineReader` | | |
| `EntryTree` | what `debug/dwarf`'s reader yields: entries in the order of a walk, with end markers (external) | | |
| `DebugData` | `data.go`, `ranges.go`, `inline.go`, and the onces of `lines.go` | `file`, the entries; `new` and `opened`, the walk of `New`; `lineOnce`, `subOnce`, `subs`, `cache`; `th`, each goroutine's call; `answer`, `served` | `CuRanges`; `Call`; `TableEnter`, `TableFill`, `SeekTable`; `IndexEnter`, `IndexNext`, `IndexReady`; `CacheLoad`, `InlineStart`, `InlineNext`, `CacheStore` |
| `DebugDataProofs` | theorems about `DebugData` | | |
| `Sizes` | `size.go` | `syms`, `todo`, `pc` | `Gather`, `Group`, `Finish` |
| `Symtab` | `symtab.go` | `syms`, `names`, `sections`, and makeAddrIndex's locals | `NewTable`, `MakeAddrIndex`, `StartSymbol`, `DrainStack`, `IndexDone`, `TableDone` |
| `SizedTable` | a client of both | `Symtab`'s and `Sizes`' | `SynthesizeSizes`, `Build` |
| `SizedTableProofs` | theorems about `Symtab` and `SizedTable` | | |
| `SectionLoad` | `elf.go` and who reads what in `elfReloc.go` | `file`, `once`, `value`, `lost`, `mapped`, `symBytes`, a call stack per thread, `answers` | `OpenElf`, `CallData`, `Close`, and a step per stage of `Data` |
| `SectionLoadProofs` | theorems about `SectionLoad` | | |
| `ElfSyms` | `elfSym.go`, the symbol tables in `openElf`, the range checks of `Section.Data` and `Sym.Data` | `file`, `symTabs` | `LoadSymTab` |
| `Relocs` | the contents of relocation sections, `elfReloc.go`; composed with `ElfSyms` | `ElfSyms`', `relocs`, populateAddends' locals, `decoded` | `OpenSymTab`, `Decode`, `Adjust`, `PopulateAddend`, `AddendsDone` |
| `RelocsProofs` | theorems about the operators of `ElfSyms`, and about `Relocs` | | |

`MC...` modules give the constants their small values.  Definitions that begin with
a comment "Mutant:" are plausible bugs; none is part of a specification.
`PROJECT.json` says for each property which of them breaks it.

How they fit together.  `Imap` takes the tree as the set of its nodes ordered by
their keys.  `Avl` shows that `avl.go` implements that set (`OrderedNodes`), for
keys that are not assigned; `Imap!OrderStable` is the rest of the bargain: `Imap`
does assign keys of linked nodes, without changing their order, and order is all
`avl.go` compares keys for.  `Imap!KeyFresh` is what `Imap` owes the tree's Insert.
`LineReader` takes maps as functions and an iterator as the maximal run around an
address: `Imap!FindMaximal`.  `SizedTable` composes `Sizes` and `Symtab` on one
slice.  `SectionLoad` decides who reads which relocation section when, and `Relocs`
what comes out of one; the symbols its relocations name are those of `ElfSyms`.
`DebugData` takes a map as a function on addresses, which is `Imap!Refinement`, and
says what the index and the inline maps that `LineReader` assumes in `dw` hold.

What was abstracted.

* `Imap`: values and nodes are model values; deleted nodes keep their fields until
  the call returns, since the code may still look at them.
* `Avl`: a node is named by its key.  A `**avlNode` is a *slot*: the root, or the left
  or right pointer of a node.
* `LineReader`: source line numbers and files are left out; a row is its index in
  the table.  `debug/dwarf`'s reader is modelled from how it is used: `SeekPC` goes
  forward from a position and stops at the row before the first greater address.
  A unit's line table or ranges may fail to decode (`badTables`, `badRanges`): the
  state that a failed seek leaves behind is what the next call starts from.
  `WorldOK` says what line tables a compiler writes: they consist of sequences in
  address order, which do not interleave, and each address of a unit has a row, which
  begins in the unit and in the same subprogram.  `WayTo` is the last of the waypoints
  of greatest address up to pc, as the sorted list that the code searches has it.
* `DebugData`: an interval map is a function on addresses, an `*InlineSite` its entry,
  its caller and the goroutine that made it, so that two maps built of the same
  entries differ.  The cache holds, per subprogram, no map or one, as a sequence.  An
  entry's end marker lies inside it.  A line table has a row at each address.  Decoding
  may fail at one entry, at one entry's ranges, or at a unit's line table.
* `Symtab`: the binary search of `Addr` is "the last boundary at or before the
  address", which a strictly sorted index (`WellFormed`) makes well defined.
  The unstable sort of `Sizes` leaves equals in any order: any of them may be first.
* `SectionLoad`: the bytes of a section are what they are backed by (heap or mmap);
  relocations are the set of relocation sections they came from; ELF headers are
  records.  Sections of type `SHT_LOPROC` and above count as `progbits`.  What depends
  on the contents of sections is part of the file: how reading a section ends (`read`),
  how decoding a relocation section and filling in its addends do (`decoding`,
  `addends`: well, with an error or with a panic), which sections the addends are
  taken from in turn (`visits`, among them the fake section `nullSection`, which the
  whole process shares), and which relocation sections reach into which sections
  (`inRange`, that is `Relocs!InRange`).  A section that is empty reads well.  A fault
  in mapped memory past the end of the file is not modelled.
  A panic (`Panic`) unwinds the goroutine's stack up to its client, which may recover
  and call again, as a server does for each request; the onces on the way are done,
  as `sync.Once` has it, with nothing in their caches, and `lost` remembers them.
  `symBytes` are the mapped sections whose bytes the symbol tables keep for themselves
  (`elf.go:241`, `:263`).
* `ElfSyms`: addresses are integers modulo `W`, indices modulo `IdW`, both small
  and with the wrapping kept.  Kinds and flags of symbols are left out; a name is
  there or its offset is past the strings.
* `Relocs`: relocation types are their sizes; an addend read from a section is where
  it was read.  Size 3 stands for the sizes the code rejects, and addends of a
  relocation section have two bits.  The number of a type fits in a `RelocType` or
  does not (`fits`), which is a panic.  The result of a section names its panics
  ("bad type", "nil section", "out of range"); what becomes of them is in `SectionLoad`.

## 3. What the runs check

All counts are of distinct states; times are with two workers.

| Run | Instance | Size | Properties |
|---|---|---|---|
| `imap` | addresses 0..4, two values, five nodes | 152,301, 27 s | `WellFormed`, `FindMaximal`, `KeyFresh`, `OrderStable`, `Refinement`, `Termination` |
| `avl` | any calls on keys 1..7 from the empty tree; and on the sparsest tree of height five (12 nodes) while at least 10 remain | 49,596, 19 s | `WellFormed`, `Ordered`, `Balanced`, `DetachedNotRotated`, `RotatesOnce`, `MCRefinement`, `WalkClimbs` |
| `linereader` | 10 addresses, three sequences dealt to two units in every way and order, three layouts of subprograms, a waypoint every 2 rows; and the same with a table or the ranges of a unit broken | 4,858, 29 s | `ScopeRespected`, `StackRight`, `SeekRight`, `NextRight` |
| `debugdata` | two threads, a call each, at four of 8 addresses, over a file of three units, intact or with one broken part | 50,896, 32 s | `IndexRight`, `InlineRight`, `SameSites`, `CallsReturn` |
| `sizedtable` | 3 sections; every layout of four sized symbols in two of them, of three symbols without sizes, of two symbols anywhere | 613,972, 56 s | `WellFormed`, `StackIsCurrent`, `Complete`, `Innermost`, `ReachesNext`, `SizedCovers` |
| `sectionload` | two threads, a call each, files with six sections, intact, with one part that fails or panics, or refused | 192,821, 94 s | `TypeOK`, `SameAnswer`, `RelocsComplete`, `NothingDangles`, `WaitsDownwards`, `CallsReturn` |
| `relocs` | every three entries of a relocation section, with and without a target, beside a second; some with a type that does not fit; object files; two symbol tables of none to three symbols with any two references to them; one symbol anywhere | 153,778, 33 s | `TypeOK`, `SymbolsResolve`, `DataInside`, `IncreasingOrder`, `AddendsFromHome`, `TargetBounded`, `InsideKept` |

Why the bounds are enough.

* `imap`.  Five addresses hold intervals of all the relations the loop tells apart
  (apart, abutting, overlapping at either end, inside, covering several), and two
  values tell merging from not.  Between calls at most `MaxAddr` intervals exist,
  so five nodes cut nothing.  What a larger instance could add is left to the
  proofs, which hold for every instance.
* `avl`.  Seven keys reach every rotation and every case of the transposition.  They
  do not reach a deletion that rotates at two nodes of its walk: the smallest tree
  for that has twelve nodes.  The second starting point is that tree; it is reachable,
  by the Inserts that `MCAvl` names.  `DetachedNotRotated` and `Balanced` are at stake
  there.
* `linereader`.  Two units, with code interleaved or not, sequences in and out of
  order, abutting or behind a gap, two rows at one address; subprograms that are
  contiguous, split, or span two sequences.  A reader's state is its last position and
  what it caches, so calls to any depth are covered: the state space is finite and
  fully explored.  In this run a client does not change a reader's scope
  (`Rescope = FALSE`): what happens if it does is the first finding below.  With a
  unit that does not decode, every order of successful and failed calls is reached.
* `debugdata`.  Two threads are one that fills a cache and one that waits for it, or
  two that miss the inline cache together; a call each is enough for that, and the
  caches remember nothing else.  One file has what the walk of `inline.go` tells
  apart: calls inlined into an inlined call, inside a block, next to a nested
  function with calls of its own, before and after it; a subprogram without
  children, one outside of the units, a unit without children.  Broken versions
  stop at an entry of the body, of the nested function, or between subprograms,
  with and without named siblings; they lose the ranges of a unit, a subprogram or
  a call; they have a line table that is bad or missing.
* `sizedtable`.  Four symbols over five addresses cover two symbols that cross inside
  a third; symbols without sizes lie before, at and past the end of their section, in
  a mapped section and in one that overlaps it.  `NoneWraps` is assumed by the
  lookup properties: no symbol reaches the end of the address space.
* `sectionload`.  The onces are held by at most two callers that matter: the one
  inside and one that waits.  The files put a section under two relocation sections
  (merge), under one (no merge), and one relocation section over all; one of bytes,
  relocations, symbols is unreadable or too short, a relocation section does not decode
  or its addends do not, `nullSection` is asked for bytes, or a list is out of the range
  of the section.  One panic leaves one, two or three onces, with the other thread in
  front of any of them.
* `relocs`.  `W = 8` addresses make offsets and ends wrap around; three entries let a
  global section move from one target to the other and back.  `IdW = 8` indices lie
  below, in and past two tables of up to three symbols and wrap around.  Data is
  asked for in any range of any section and of a symbol of any place and size; one
  section ends at the top of the address space.

`CHECK_DEADLOCK FALSE` stands in the runs whose systems end: a built table, decoded
relocations, threads that have made their calls, a file that `New` rejects.

Fairness.  `Imap!FairSpec` is weak fairness of the steps of an Insert under way:
the code is sequential and blocks on nothing.  `SectionLoad!FairSpec` is weak
fairness of the steps of each thread: the Go scheduler runs every runnable
goroutine, and a goroutine that waits for a `sync.Once` becomes runnable when it is
done.  `DebugData!FairSpec` is the same for the goroutines that share a `dbg.Data`;
`New` itself need not end, as nobody waits for it.  No fairness is assumed of
clients: nobody has to call.  `Avl!WalkClimbs`
shows that rebalancing ends without fairness, by a measure that each step
decreases.

## 4. Where the code departs from its documentation

Each is a run that expects a violation.

| Run | Code | What it says elsewhere |
|---|---|---|
| `linereader_rescope` | `dbg/lines.go:266` keeps the range iterator of the old scope when the new pc lies in it: a reader scoped to a subprogram may stand on rows outside it | `lines.go:167-170`: "scopes the line table reader to iterate only within subprogram" |
| `debugdata_childless` | `dbg/inline.go:81` pushes an inlined call also when it has no children, and so no end marker pops it: what follows it becomes inlined into it | `inline.go:22-23`: "Caller is the frame at which this inlined function was called" |
| `sizedtable_mixed` | `obj/size.go:57` tests `s1.Size` where `s2.Size` is meant | `size.go:63`: "They all have sizes. Move on." |
| `sectionload_error` | `obj/elf.go:396` returns `dataErr`, nil here, when the relocations fail to read | `obj/obj.go:66-68`: "If there's an error, it should return nil and the error" |
| `relocs_first` | `obj/elfReloc.go:315` leaves out a relocation section whose last relocation is at the first address of the section | `obj/data.go:25-26`: "the relocations applied to this Data" |

Observed while modelling, without a run:

* `elfReloc.go:149`: a panic inside the function of the once, such as that of a section
  shorter than its header says (`elf.go:459`), a type that does not fit (`reloc.go:70`)
  or a relocation that straddles the end of its section, leaves the once done, with no
  relocations and no error.  A client that recovers and calls `Data` again gets the
  bytes without the relocations, where `data.go:25-26` says "R stores the relocations
  applied to this Data".  This is the exception in `SectionLoad!RelocsComplete`.
* `elfReloc.go:195-206` adds the address of the relocation section, not of its target,
  to the offsets of an object file, where the comment at `:196-198` wants "absolute
  addresses" of them.  `TargetBounded` and `AddendsFromHome` measure from the
  address that this gives.
* `symtab.go:158-165` orders current symbols by their ends alone: of symbols at 1..3,
  2..4 and 2..2, address 3 finds the first, and not, as `symtab.go:193-195` says, "the
  symbol with the latest starting address".  `Symtab!Innermost` speaks of symbols that
  nest.
* `elf.go:344-346`: relocations of `SHT_INIT_ARRAY` and similar sections are dropped,
  and a relocation section that targets one has a nil target, which
  `populateAddends` takes to mean a global section.
* `elfReloc.go:364-365` extends a 32-bit addend to 64 bits without its sign
  (`Relocs!Decoded`).
* `elfReloc.go:227-229`: a relocation of size 0 at address 0 passes the check that
  "will immediately fail".
* `symtab.go:159`: the end of a symbol wraps around at the top of the address space.
* `elf.go:385`: every request for data of a section that ends exactly at 2^64 panics
  (`ElfSyms!RangesRight` grants requests only below that).
* `elf.go:248`: the count of a symbol table without even a null entry wraps around.
* `elfReloc.go:315`: the end of a section that ends exactly at 2^64 wraps around to 0,
  and a merge leaves all its relocations out (`Relocs!InsideKept` is about the others).
* `elfReloc.go:238`: for a section of 2^64 - 1 bytes, the offset plus the size wraps
  around and lets a read pass the end.
* `ranges.go:40-66`: where two units have code at one address, the index of units keeps
  the last one, and the subprograms of the other are not found there.
* `elfReloc.go:247`: the target of a global relocation is looked up by its first
  byte; one that straddles two sections stays with the first.
* `lines.go:310`: a pc in a unit's range that no sequence of its table covers is an
  error; a unit without a line table panics (`:124`).
* `data.go:51` converts an offset to `int` and so may take one past 2^63 for one in
  front of the data; `data.go:90` bounds fixed-width reads by the capacity of the slice.
* `elf.go:402` panics for an architecture that is not known; a file of such a one
  that has a symbol table panics already in `Open`.
* `elf.go:241`, `:263`: the symbol tables keep the bytes of their sections and strings,
  which may be mapped, and `Close` (`:273-283`) does not clear them: looking up a
  symbol of a closed file reads unmapped memory.  `obj.go:34-35` warns of the data of
  a closed file and says nothing of its symbols.  `NothingDangles` therefore asks of
  the symbol tables only while the file is open.
* `elf.go:243`, `:260`, `:265`: a file that `openElf` refuses after it has mapped a
  section keeps the mapping, as nobody can close it.
* `elfReloc.go:242-247`: a relocation found again in another section is not checked
  against the end of that, so one that straddles it panics (`:269-273`).
* `obj.go:209-212`: `ZeroInitialized` reports the read-only flag.

## 5. What is proved

### The interval map

`ImapProofs`, about `Imap`, for every `MaxAddr`, set of values and set of nodes,
from the three assumptions that `Imap` names (`MaxAddr` is a natural number;
`NoValue` is no value, `NoNode` no node):

| Theorem | States |
|---|---|
| `Invariance` | `Spec => []IInv` |
| `AlwaysTypeOK`, `AlwaysWellFormed`, `AlwaysPredAlive`, `AlwaysKeyFresh`, `AlwaysFindMaximal` | the invariants that follow |
| `AlwaysOrderStable` | the action property about keys assigned in place |
| `ImplementsIntervalMap` | `Spec => Refinement`: `Imap` implements `IntervalMap` |

`WellFormed` alone is not inductive: whether a merge leaves a canonical map depends
on what the search and the loop have established.  `IInv` adds that.  `LoopInv`:
everything before `n` ends at or below the new low, and `n` itself reaches it.
`MergeInv`: no interval touches the new one's addresses, and only `n` can start at
its end.  `CallInv`: whatever ends exactly at the new low is `pred`, and if `pred`
still ends there it is still linked.  The last is the delicate one: `pred` may be
deleted by the loop, and what saves the merge is that a deleted `pred` began at or
above the new low and so does not end at it.

The argument has one lemma per action for `IInv`; they share lemmas about the tree's
order (`FirstIsLeast`, `NextNodeFollows`), the pieces that `Subtract` leaves
(`RestOfN`), and what the loop's body and the merge may assume (`LoopBody`,
`MergeBody`).  The refinement has one lemma per action too (`...Keeps`): no step
changes the abstract value of any address, because what the loop cuts off lies
inside the new interval, which has its value in the abstract map since the call
began.  An Insert maps to the abstract `Insert`, the step that returns to the
abstract `Return`, every other to a stutter.

### The AVL tree

`AvlProofs`, about `Avl`, for every range of keys, so for trees of every size, from
the one assumption that `MaxKey` is a natural number:

| Theorem | States |
|---|---|
| `Invariance` | `Spec => []IInv` |
| `AlwaysWellFormed`, `AlwaysOrdered`, `AlwaysBalanced`, `AlwaysDetachedNotRotated`, `AlwaysRotatesOnce` | the invariants that follow |
| `ImplementsOrderedNodes` | `Spec => Refinement`: `Avl` implements `OrderedNodes` |
| `AlwaysWalkClimbs` | the action property that rebalance's walk ends |

`IInv` speaks of `f`, what each node leads to.  That `f` is a function with the equation
of `Subtrees` and that it goes down to the left of a node and up to the right
(`SearchTree`) is what makes the pointers a tree, and no more is needed of it: the
function that a heap after a step leads to is *given* (for a rotation, `f` but
for the two nodes that it turns), and shown to have the equation of that heap.  That
an equation has one solution at most, and that a pointer structure with such an `f` is
well-founded, is one argument by the smallest key, or the smallest number of nodes,
that would be an exception.  In the same way the search and the way to the root are
shown to exist and to be what their recursive definitions say.

The rest of `IInv` is about the walk.  `OutsideOK`: the nodes outside of the tree are as
new, but for the one that `Delete` has removed and starts from, which has one child at
most.  `HeightsOK`: at most one height is wrong, that of the node the walk stands on or
goes to, and it was right before one of its subtrees changed by one.  This is what keeps
`RotatesOnce`: a node is never more than two out of balance.  After a `Delete` that has
transposed two nodes, or a rotation, the walk's place is a child of the node with the
wrong height, and not that node.  `HeightsFit`, that heights are bounded by the number
of nodes, is only there for the type of `height`.

There is a lemma per step: adding a leaf (`Insert`), the two ways to take a node out and
the transposition before it (`Delete`), a height that is put right, one that did not
change, and a rotation, simple or double (`Rebalance`).  The lemmas of
`AvlTrees` are about any order of the keys, `Greater` or `Smaller`: a rotation to the right
is one to the left of the tree with left and right changed over (`Flip`, `RotateRightIs`).  `WalkClimbs` compares the length of the way to the root in two heaps,
before and after a rotation, which is why it needs more than `IInv`: `Climbed` says what
a rotation does to the way of each node.

### Loading sections

`SectionLoadProofs`, about `SectionLoad`, for every set of goroutines, any number of
calls and any set of files, with any number of sections in any arrangement:

| Theorem | States |
|---|---|
| `Invariance` | `Spec => []IInv` |
| `AlwaysTypeOK` | no call meets a section that does not exist: the addends do not run past the sections they lie in |
| `AlwaysSameAnswer` | all answers that are not panics are one; and all are one until a panic has left a once |
| `AlwaysRelocsComplete` | bytes come with all relocations that are merged for the section, but those whose once a panic has left |
| `AlwaysNothingDangles` | sections and calls hold no bytes after they are unmapped, the symbol tables none while the file is open |
| `AlwaysWaitsDownwards` | no cycle of waits for onces |

The assumptions are that `New` and `Done` are no goroutines and differ
(`ConstantsAssumption`), and that files are what `debug/elf` makes of them
(`FilesAssumption`), in which links and infos may name sections that do not exist.

None of the invariants is inductive: what a call returns was read many steps ago, by
other goroutines as likely as not.  `IInv` says three things more.

* *Stacks* (`StackOK`).  A stack is a chain of calls, each of which its caller does make
  at the point it waits at (`Called`), on strictly decreasing levels.  `Level` is where
  the code's remark that relocation sections are not relocated (`elf.go:337-343`)
  enters: `Data` of a relocation section may be called below `rel`, `Data` of any other
  section may not.  So a stack has at most one frame of each kind of once.
* *Ownership* (`OwnsOK`).  A once is in the state `t` if and only if goroutine `t` has a
  frame that runs its function.  With decreasing levels this is `WaitsDownwards`, and it
  is why a return frees exactly the once of the frame that returns.
* *Results* (`RetOK`, `FrameOK`, `CachesOK`, `AnswersOK`).  A frame that goes on after
  a call finds the cache of what it called done, and what it was returned equal to it;
  caches do not change until `Close`, which waits for calls to end.  Answers are thus a
  function of the caches (`DataAnswer`), but for a panic inside a once.  Such a panic
  needs the most care: it marks the onces it unwinds as done with nothing in them, and
  a later call finds these empty.  What is then still true is that nobody gets part of
  what a once should hold: an empty cache counts as no relocations for everybody
  (`Given`), or makes `Data` panic again if it should have held bytes, and no cache
  that was filled before changes.  This is all that `SameAnswer` and `RelocsComplete`
  promise of a file after a panic, and section 4 says what a client sees then.

The proof has one lemma per action.  They rest on five about what actions share
(`CallInv`, `BecomeInv`, `ReturnInv`, `StoreInv`, `PanicInv`), and these on lemmas about
a thread whose stack grows, changes or shrinks (`CallOK`, `BecomeOK`, `ReturnOK`), about
the others, which see a step only through what becomes cached (`OthersOK`, `Keeps`),
and about stacks as sequences (`Popped`, `Replaced`, `Pushed`).

### Symbols and relocations

`RelocsProofs`, about the operators of `ElfSyms`, for every width of addresses and
indices:

| Theorem | States |
|---|---|
| `IndexSpace` | two tables are one index space: as many SymIDs as entries, and `Lookup` and `Sym` find each other |
| `Ranges` | `Section.Data` and `Sym.Data` together grant just the ranges inside |

and about `Relocs`, for every set of files (`FilesAssumption`):

| Theorem | States |
|---|---|
| `Invariance` | `Spec => []IInv` |
| `AlwaysTypeOK`, `AlwaysSymbolsResolve`, `AlwaysDataInside`, `AlwaysIncreasingOrder` | the invariants that follow |
| `AlwaysInsideKept` | Data has the relocations inside the section, those at its first address too; of several relocation sections only one that does not go past that address is left out |
| `AlwaysTargetBounded` | under `Fits`: no read past the target |
| `AlwaysAddendsFromHome` | under `Fits` and `Apart`: every implicit addend comes from its own section |

Two theorems have hypotheses about the file.  `Fits`: no section wraps around or fills
the whole address space, which is so of every section whose bytes a program can hold in
memory.  `Apart`: no two loaded sections hold the same address; where they do, "the
section at an address" is whichever `ResolveAddr` meets first, and says nothing about
the relocation.  Without them the statements are false,
which section 4 notes for the first.

`IInv` follows one relocation section through its stages: `ListOf` says what the list
is as decoded, sorted and moved, `HeldOK` that the section and the bytes that
`populateAddends` holds on to go together, `AddendsOK` that those before the current
one are filled in, `ResultOK` what was returned.  There is a lemma per action and one,
`FinishInv`, about how a section's reading ends.  Underneath are lemmas about unsigned
arithmetic: a check that adds modulo 2^w and compares is right just when the sum
cannot pass the modulus twice.  `IndexSpace` rests on the two index ranges being
adjacent, so that the wrapping subtraction of `lookup` maps each onto its table.

### Symbol tables and sizes

`SizedTableProofs`, about `Symtab` and its composition with `Sizes`, for every slice of symbols whose values and sizes
are words, in any order and however they overlap:

| Theorem | States |
|---|---|
| `Invariance` | the inductive invariant of `NewTable`, for any slice of symbols |
| `AlwaysWellFormed`, `AlwaysStackIsCurrent`, `AlwaysComplete`, `AlwaysInnermost` | what follows of a table made of any slice |
| `SizedInvariance`, `SizedWellFormed`, `SizedStackIsCurrent`, `SizedComplete`, `SizedInnermost` | the same of a table made of a slice whose sizes were synthesized, or not |
| `AlwaysReachesNext` | a synthesized size reaches exactly to the next symbol of the section or its end |
| `AlwaysSizedCovers` | with synthesized sizes, each address finds the last symbol that begins at or before it |

The invariant of `makeAddrIndex` has two halves.  `StackOK`: the stack is sorted by the
ends of its symbols and holds just those that have begun and not ended.  `LastOK`: below
the last boundary, the boundaries name the symbol that the address belongs to
(`Right`), and from it on the symbol that the last one names is right up to the next
event, a start or the end of what is on the stack.  `Innermost` needs one thing more,
where symbols nest: of those on the stack, the one with the first end began last.
`SizedCovers` is not inductive at all; it follows from `ReachesNext` and `Complete` at the
end.  `NoneWraps`, that no symbol reaches the end of the address space, is a hypothesis
inside the properties.

### Debugging data

`DebugDataProofs`, about `DebugData`, for every set of goroutines, any number of calls
and every file whose entries nest (`FilesAssumption`):

| Theorem | States |
|---|---|
| `Invariance` | `Spec => []IInv` |
| `AlwaysSameSites` | all callers get their sites of a subprogram from one map |
| `AlwaysIndexRight` | under `Apart`: the unit and the subprogram of an address are found, or that there is none |
| `AlwaysInlineRight` | under `Tidy` and `SitesNest`: at each address the innermost inlined call, and its callers |

The first half is about the tree of entries.  A walk that skips what a child encloses
visits the children one after the other and leaves none out (`NextChild`, `FirstChild`),
and an entry is a child of one unit only (`OneUnit`), since the extents of the units
that `cuRanges` has seen follow one another.  The second half is `IInv`: what the walk of
`New` has collected (`NewOK`), that an index under its once holds what the walk has read
so far, and one that is done everything (`IndexesOK`), what a call knows (`CallRight`),
and what the cache and the answers hold.  `SameSites` is delicate at one place: two calls
that do not agree whether the unit's line table decodes would not get the same map.
They do agree, because a subprogram has one unit, and the invariant decides by that unit
what may be served (`ServedFrom`).  `Apart`, that no two units have code at one address,
is a hypothesis of `AlwaysIndexRight`; section 4 says what happens otherwise.

`AlwaysInlineRight` has an invariant of its own, `InlineInv`, over the places where a walk
of `inlineRanges` may stand.  `Chart` is what a walk should make of a subprogram: a site for
each call, with the site of the call around it as its caller.  It is a recursion over the
entries, and that it has a solution is proved first (`ChartIs`, by the least place where
one is missing), as it is for the chain of callers (`ChainIs`).  Inside a subprogram
(`InsideOK`) the map is the one the chart gives up to the place the walk has come to
(`MapTo`), the stack has what was pushed for the entries that are open there, from the
outside in (`StackOK`), and the outer site is that of the last open call.  A subprogram
without children has no end to stop at: its walk goes on behind it, over entries of other
functions, until it is outside of all (`BehindOK`), and finds no more calls on the way.
When a walk returns, its map is that of all the subprogram's entries (`FullMap`), which
under `SitesNest` is what `InlineRight` asks for (`FullRight`).  The hypotheses:

* `Tidy`: a unit is enclosed by nothing, and an inlined call has children and lies in a
  function.  Run `debugdata_childless` shows
  what happens if a call has no children.
* `SitesNest`: of two calls in a subprogram that have code at one address, the first encloses
  the second.  Only then is the last call put into the map at an address the innermost one.
* `NoneIsNoSite`: a pointer to a site is not nil.

TLC checks `Tidy`, `SitesNest` and `InlineInv` to be true of the run `debugdata`,
in which a walk meets every case of the invariant.

### The line reader

`LineReaderProofs`, about `LineReader`, for every set of debug informations that a
compiler writes (`WorldOK`, above), any distance of waypoints, and any calls that leave
the reader its scope (`~ Rescope`: the first finding is what happens otherwise):

| Theorem | States |
|---|---|
| `Invariance` | `Spec => []IInv` |
| `AlwaysScopeRespected`, `AlwaysStackRight` | the invariants that follow |
| `AlwaysSeekRight`, `AlwaysNextRight` | the action properties: where a seek lands, and that Next leaves nothing out |

A reader keeps four things between calls: its range, its row, its stack and the
interval in which the stack is valid.  `IInv` says of each what it is true of, and not
that they fit together, because after a seek that failed they do not: the range is one
of the scope (`IterOK`), the stack is right wherever it is said to be valid (`ValidOK`),
and only a reader that is positioned has its row in its range (`RowOK`).  Behind the end
of a sequence there is `EndOK`: no row that covers what is left begins in front of the
end, so that the seek which goes on from there does not go back.  This is where that a
range is maximal counts: had the row begun in front of it, its unit would have been
in the range before.

A seek is right whatever the order of the sequences: of two rows at or below pc
that are in different sequences, the covering one does not begin before the other
(`RowsApart`), and the first row of its sequence is a waypoint (`SequenceStart`), so the
waypoint with the greatest address is in the right sequence, from which the search
stops at the covering row (`WayFinds`).  `RangeFacts` is about the range iterator: kept
or not, it leads to the first address in scope at or after pc.  The second seek that
`Next` makes if the first one lands on an end again is never needed (`NextSequenceFacts`).

### What is only model-checked

* Liveness: `Imap!Termination`, `SectionLoad!CallsReturn`, `DebugData!CallsReturn`.
  Fairness and ENABLED are out of the prover's reach.

Every other property of a run that passes is stated by a theorem; `MCRefinement` is the
`Avl!Refinement` of `ImplementsOrderedNodes` with the initial states of the run.

## 6. What is not modelled

* `obj.Reader` (`obj/data.go`) and `arch.Layout`: bounds and byte order of fixed-width
  reads, one goroutine and no state but the cursor.  `Relocs` reads entries whole.
* `asm`: `Seq` and the x86 pass disassemble a slice of bytes from its start to its end;
  there is no state and no other actor, and what they compute is the decoder's,
  which is external.
* The decoding of ELF and DWARF by the Go library, and of x86 instructions: external.
  `EntryTree` and the tables of `LineReader` are modelled from how they are used.
* Close concurrent with other calls: the code takes no lock and promises nothing.
* Source lines and files: rows of a line table and sites of inlined calls are told
  apart by where they come from, not by what they say.
* Names, kinds and flags of symbols; relocation types beyond their sizes.
* Interfaces, accessors, string methods (`obj.go`, `sym.go`, `reloc.go` for the most
  part), `obj/testdata/build.go` (a tool), generated code.

## 7. Plan

Done, in this order: `Imap` with its proofs, as everything in `dbg` rests on it;
`Avl`; `LineReader`; `Symtab` and `Sizes`, alone and composed; `SectionLoad`, the
concurrent part; `Relocs`; `DebugData`, with the walk of `inline.go`; `ElfSyms`,
composed into `Relocs`; data that does not decode in `LineReader`.

Theorems, in this order: `Imap`; `SectionLoad`; `ElfSyms` and `Relocs`; `Symtab`, `Sizes`
and both together; `DebugData`'s index and cache; `LineReader`; `Avl`, with the
refinement of `OrderedNodes`; the walk of `inline.go` in `DebugData`.

Next: `obj.Reader` as functions, if a property of it is worth a run.
