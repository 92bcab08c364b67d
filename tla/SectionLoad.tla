----------------------------- MODULE SectionLoad -----------------------------
(***************************************************************************)
(* obj.elfFile: opening an ELF file, and the lazy, cached loading of its   *)
(* sections and their relocations by goroutines that share the file.       *)
(*                                                                         *)
(* Section.Data(s) reads the bytes of s and the relocations that apply to  *)
(* s.  Those come from relocation sections, which are read through Data    *)
(* too, and may need the bytes of the sections they apply to.  Three kinds *)
(* of sync.Once guard the caches: dataOnce, relocsOnce, and once of a      *)
(* relocation section.  A thread is a stack of frames, one for each call.  *)
(* A call may panic, which a client may recover from and call again.       *)
(***************************************************************************)
EXTENDS Naturals, Sequences, FiniteSets, SequencesExt

CONSTANTS
  Thread,    \* goroutines that call Section.Data
  Files,     \* the files to open: see FileOK
  MaxCalls,  \* how many calls each thread makes
  New, Done, \* the states of a sync.Once that no thread is running
  None       \* a nil section

ASSUME ConstantsAssumption ==
  /\ MaxCalls \in Nat
  /\ New \notin Thread /\ Done \notin Thread /\ New # Done
  /\ None \notin Nat

VARIABLES
  file,     \* what the section headers say, and what reading will meet
  opened,   \* whether openElf has returned, and how
  once,     \* the state of each sync.Once: New, Done or the thread in it
  value,    \* what its function stored
  lost,     \* history: the onces whose function panicked, and stored nothing
  mapped,   \* the sections whose mmap is live
  symBytes, \* the sections whose mmap the symbol tables hold
  stack,    \* the calls each thread is in, the innermost last
  ret,      \* what the inner call a thread last returned from gave it
  calls,    \* how many calls each thread has made
  answers,  \* what the calls of Data on each section returned, until Close
  closed

vars == <<file, opened, once, value, lost, mapped, symBytes, stack, ret, calls, answers, closed>>

-----------------------------------------------------------------------------
(* The file and what openElf makes of it *)

Section == 1..Len(file.type)

\* nullSection, which has no elf.Section and is in no file.
Null == 0

Types == {"progbits", "nobits", "array", "symtab", "dynsym", "strtab", "rel", "rela"}

\* A section that an SHT_REL section takes addends from, in turn, and whether it
\* takes one of any size there.  Only relocations of size 0 reach nullSection.
Visits(n) == {visit \in [s : 0..n, reads : BOOLEAN] : visit.s = Null => ~ visit.reads}

\* How a step of the code ends: with what it is for, an error, or a panic.
Ends == {"ok", "error", "panic"}

\* What debug/elf finds in the headers: links and infos may name no section.
\* `wraps' are sections that reach past the top of the address space.  `read' is
\* how reading a section ends (a panic: it is shorter than its header says),
\* `decoding' and `addends' how a relocation section does, after its visits.
\* `inRange' pairs relocation sections with the sections they have relocations
\* in the range of (Relocs!InRange).
FileOK(f) ==
  LET n == Len(f.type)
  IN /\ f.type \in Seq(Types)
     /\ f.alloc \subseteq 1..n
     /\ f.info \in [1..n -> Nat] /\ f.link \in [1..n -> Nat]
     /\ f.relocatable \in BOOLEAN /\ f.archKnown \in BOOLEAN
     /\ f.mappable \subseteq 1..n /\ f.wraps \subseteq 1..n
     /\ f.read \in [1..n -> Ends]
     /\ \A s \in 1..n : f.type[s] = "nobits" => f.read[s] = "ok"
     /\ f.decoding \in [1..n -> Ends] /\ f.addends \in [1..n -> Ends]
     /\ f.visits \in [1..n -> Seq(Visits(n))]
     /\ f.inRange \subseteq (1..n) \X (1..n)

ASSUME FilesAssumption == \A f \in Files : FileOK(f)

IsRel(s) == file.type[s] \in {"rel", "rela"}

\* Mutant: relocation sections may be relocated themselves.
CanHaveRelocsAny(s) == TRUE

CanHaveRelocs(s) == file.type[s] \in {"progbits", "nobits"}

\* Does relocation section rs modify section s?
Applies(rs, s) ==
  /\ IsRel(rs)
  /\ CanHaveRelocs(s)
  /\ IF file.info[rs] = 0 THEN s \in file.alloc ELSE file.info[rs] = s

\* elfSection.relocSections, a slice in the order of the file.
RelocSections(s) == {rs \in Section : Applies(rs, s)}

\* Those whose relocations sectionRelocs takes: one alone is taken as it is, of
\* several those that reach into the section.
Merged(s) ==
  {rs \in RelocSections(s) : RelocSections(s) = {rs} \/ <<rs, s>> \in file.inRange}

\* elfSectionRel.target.
Target(rs) ==
  IF file.info[rs] \in Section /\ CanHaveRelocs(file.info[rs]) THEN file.info[rs] ELSE None

\* The symbol table of a type: the last of several, or none.
SymTab(type) == {tab \in Section : file.type[tab] = type
                                     /\ \A s \in Section : file.type[s] = type => s <= tab}

SymTabs == SymTab("symtab") \cup SymTab("dynsym")

\* What makes openElf refuse a relocation section.
BadHeader(rs) ==
  \/ file.link[rs] # 0 /\ file.link[rs] \notin SymTabs
  \/ file.info[rs] = 0 /\ file.relocatable
  \/ file.info[rs] # 0 /\ file.info[rs] \notin Section

\* Does symbol table tab not name a section that holds strings?
BadStrings(tab) == file.link[tab] \notin Section \/ file.type[file.link[tab]] # "strtab"

\* The sections openElf reads: the symbol tables and their strings.
SymSections == SymTabs \cup {file.link[tab] : tab \in {tb \in SymTabs : ~ BadStrings(tb)}}

-----------------------------------------------------------------------------
(* Values, frames and sync.Once *)

Bytes == {"nil", "heap", "map", "panic"}

\* What a call returns: an error, the bytes, and the relocation sections whose
\* relocations come with them.  Nothing is what a cache holds at first.
Result(bytes, rels) == [err |-> FALSE, bytes |-> bytes, rels |-> rels]
Nothing == Result("nil", {})
Error == [Nothing EXCEPT !.err = TRUE]

\* How a call of Data ends that returns nothing at all.
Panicked == Result("panic", {})

DataOnce(s) == <<"data", s>>
RelocsOnce(s) == <<"relocs", s>>
RelOnce(rs) == <<"rel", rs>>
Onces == ({"data"} \X ({Null} \cup Section)) \cup ({"relocs", "rel"} \X Section)

\* The function a call is of and its section; where it is; the relocation
\* section (in `relocs') or the place in the list (in `rel') it has come to; and
\* what it has read so far.
Frame(op, s) == [op |-> op, s |-> s, at |-> "start", i |-> 0, kept |-> Nothing]

\* The once a frame goes through.
OnceOf(f) == <<f.op, f.s>>

\* nullSection is shared by the files of the process: another one may have used
\* up its once.
Init ==
  /\ file \in Files
  /\ opened = "no"
  /\ \E null \in {New, Done} :
       once = [o \in Onces |-> IF o = DataOnce(Null) THEN null ELSE New]
  /\ value = [o \in Onces |-> Nothing]
  /\ lost = {}
  /\ mapped = {}
  /\ symBytes = {}
  /\ stack = [t \in Thread |-> <<>>]
  /\ ret = [t \in Thread |-> Nothing]
  /\ calls = [t \in Thread |-> 0]
  /\ answers = [s \in Section |-> {}]
  /\ closed = FALSE

\* What a step that ends in one of these ways returns.
Ending(end, v) == CASE end = "ok" -> v [] end = "error" -> Error [] end = "panic" -> Panicked

\* What sectionBytesUncached may return: a mapping where the section can be
\* mapped and mmap succeeds, else what it reads.  nullSection has no header.
Loads(s) ==
  IF s = Null THEN {Panicked}
  ELSE {Ending(file.read[s], Result("heap", {}))}
         \cup (IF s \in file.mappable THEN {Result("map", {})} ELSE {})

\* How openElf gets the data of section s.  The layout is the architecture's,
\* also here.
OpensData(s, loaded) ==
  IF s \in file.wraps \/ loaded[s] = Panicked THEN "panic"
  ELSE IF loaded[s].err THEN "error"
  ELSE IF ~ file.archKnown THEN "panic"
  ELSE "ok"

\* How it gets a symbol table and its strings.
OpensTable(tab, loaded) ==
  IF OpensData(tab, loaded) # "ok" THEN OpensData(tab, loaded)
  ELSE IF BadStrings(tab) THEN "error"
  ELSE OpensData(file.link[tab], loaded)

\* The tables of a type do not open as they should.
Fails(type, loaded) ==
  {OpensTable(tab, loaded) : tab \in SymTab(type)} \ {"ok"}

\* openElf wires the sections up and loads the symbol tables.  A file that it
\* does not open is dropped, with what it mapped.
OpenElf ==
  /\ opened = "no"
  /\ \E loaded \in [SymSections -> UNION {Loads(s) : s \in SymSections}] :
       /\ \A s \in SymSections : loaded[s] \in Loads(s)
       /\ LET fails == IF Fails("symtab", loaded) # {} THEN Fails("symtab", loaded)
                       ELSE Fails("dynsym", loaded)
          IN IF \E rs \in Section : IsRel(rs) /\ BadHeader(rs) THEN opened' = "error"
             ELSE IF fails # {} THEN opened' \in fails
             ELSE opened' = "ok"
       /\ IF opened' = "ok"
          THEN /\ once' = [o \in Onces |-> IF o \in {DataOnce(s) : s \in SymSections}
                                           THEN Done ELSE once[o]]
               /\ value' = [o \in Onces |-> IF o \in {DataOnce(s) : s \in SymSections}
                                            THEN loaded[o[2]] ELSE value[o]]
               /\ mapped' = {s \in SymSections : loaded[s].bytes = "map"}
               /\ symBytes' = mapped'
          ELSE UNCHANGED <<once, value, mapped, symBytes>>
  /\ UNCHANGED <<file, lost, stack, ret, calls, answers, closed>>

-----------------------------------------------------------------------------
(* Calls and returns *)

Top(t) == stack[t][Len(stack[t])]

\* Thread t is in a frame of this kind, at this point.
At(t, op, at) == stack[t] # <<>> /\ Top(t).op = op /\ Top(t).at = at

Call(t, f, g) == stack' = [stack EXCEPT ![t] = Front(@) \o <<f, g>>]
Become(t, f) == stack' = [stack EXCEPT ![t] = Front(@) \o <<f>>]

Return(t, v) ==
  /\ stack' = [stack EXCEPT ![t] = Front(@)]
  /\ ret' = [ret EXCEPT ![t] = IF Len(stack[t]) = 1 THEN Nothing ELSE v]
  /\ answers' = IF Len(stack[t]) = 1 /\ ~ closed
                THEN [answers EXCEPT ![Top(t).s] = @ \cup {v}]
                ELSE answers

\* Mutant: the error is returned to the first caller but not kept for the
\* others.
StoreSuccess(t, v) ==
  /\ value' = [value EXCEPT ![OnceOf(Top(t))] = IF v.err THEN Nothing ELSE v]
  /\ once' = [once EXCEPT ![OnceOf(Top(t))] = Done]
  /\ UNCHANGED lost
  /\ Return(t, v)

\* The function of a once stores v, the once is done and its caller returns v.
Store(t, v) ==
  /\ value' = [value EXCEPT ![OnceOf(Top(t))] = v]
  /\ once' = [once EXCEPT ![OnceOf(Top(t))] = Done]
  /\ UNCHANGED lost
  /\ Return(t, v)

\* A panic unwinds the stack, up to the client that recovers.  The onces it leaves
\* are done, and keep what their caches held: nothing, and no error.
Panic(t) ==
  /\ once' = [o \in Onces |-> IF once[o] = t THEN Done ELSE once[o]]
  /\ lost' = lost \cup {o \in Onces : once[o] = t}
  /\ stack' = [stack EXCEPT ![t] = <<>>]
  /\ ret' = [ret EXCEPT ![t] = Nothing]
  /\ answers' = IF closed THEN answers
                ELSE [answers EXCEPT ![stack[t][1].s] = @ \cup {Panicked}]
  /\ UNCHANGED value

Internal == UNCHANGED <<file, opened, symBytes, calls, closed>>
NoReturn == UNCHANGED <<ret, answers>>
NoStore == UNCHANGED <<once, value, lost>>

-----------------------------------------------------------------------------
(* Section.Data: elfSectionData *)

\* The client asks for all of section s.
CallData(t, s) ==
  /\ opened = "ok"
  /\ stack[t] = <<>>
  /\ calls[t] < MaxCalls
  /\ calls' = [calls EXCEPT ![t] = @ + 1]
  /\ stack' = [stack EXCEPT ![t] = <<Frame("Data", s)>>]
  /\ UNCHANGED <<file, opened, closed, mapped, symBytes>> /\ NoReturn /\ NoStore

\* The range of the whole section is checked first, and must not overflow.
DataReadsBytes(t) ==
  /\ At(t, "Data", "start")
  /\ IF Top(t).s \in file.wraps THEN Panic(t)
     ELSE /\ Call(t, [Top(t) EXCEPT !.at = "bytes"], Frame("data", Top(t).s))
          /\ NoReturn /\ NoStore
  /\ Internal /\ UNCHANGED mapped

DataReadsRelocs(t) ==
  /\ At(t, "Data", "bytes")
  /\ IF ret[t].err
     THEN Return(t, ret[t])
     ELSE /\ Call(t, [Top(t) EXCEPT !.at = "relocs", !.kept = ret[t]],
                  Frame("Relocs", Top(t).s))
          /\ NoReturn
  /\ Internal /\ NoStore /\ UNCHANGED mapped

\* An error of the relocations is dropped: the code returns dataErr, which is
\* nil here.  Slicing bytes that are gone or never came panics, and so does the
\* layout of an unknown architecture.
DataReturns(t) ==
  /\ At(t, "Data", "relocs")
  /\ IF ret[t].err THEN Return(t, Nothing) /\ NoStore
     ELSE IF Top(t).kept.bytes = "nil" \/ ~ file.archKnown THEN Panic(t)
     ELSE Return(t, Result(Top(t).kept.bytes, ret[t].rels)) /\ NoStore
  /\ Internal /\ UNCHANGED mapped

-----------------------------------------------------------------------------
(* sync.Once.Do, in front of the functions that fill a cache *)

\* Frames that go through a once before their body.
Guarded == {"data", "relocs", "rel"}

\* The first to come runs the function.
OnceEnter(t) ==
  /\ \E op \in Guarded : At(t, op, "start")
  /\ once[OnceOf(Top(t))] = New
  /\ once' = [once EXCEPT ![OnceOf(Top(t))] = t]
  /\ Become(t, [Top(t) EXCEPT !.at = "body"])
  /\ Internal /\ NoReturn /\ UNCHANGED <<value, lost, mapped>>

\* Mutant: the others do not wait until the function is done.
OnceSkipEarly(t) ==
  /\ \E op \in Guarded : At(t, op, "start")
  /\ once[OnceOf(Top(t))] # New
  /\ Return(t, value[OnceOf(Top(t))])
  /\ Internal /\ NoStore /\ UNCHANGED mapped

\* The others wait until it is done, and return what it stored.
OnceSkip(t) ==
  /\ \E op \in Guarded : At(t, op, "start")
  /\ once[OnceOf(Top(t))] = Done
  /\ Return(t, value[OnceOf(Top(t))])
  /\ Internal /\ NoStore /\ UNCHANGED mapped

\* sectionBytes, its function.
LoadBytes(t) ==
  /\ At(t, "data", "body")
  /\ \E v \in Loads(Top(t).s) :
       /\ IF v = Panicked THEN Panic(t) ELSE Store(t, v)
       /\ mapped' = IF v.bytes = "map" THEN mapped \cup {Top(t).s} ELSE mapped
  /\ Internal

-----------------------------------------------------------------------------
(* sectionRelocs *)

\* One relocation section does its own caching; more go through relocsOnce.
ChooseRelocs(t) ==
  /\ At(t, "Relocs", "start")
  /\ LET rels == RelocSections(Top(t).s)
     IN IF rels = {} THEN Return(t, Nothing)
        ELSE /\ \E rs \in rels :
                  Become(t, IF rels = {rs} THEN Frame("rel", rs) ELSE Frame("relocs", Top(t).s))
             /\ NoReturn
  /\ Internal /\ NoStore /\ UNCHANGED mapped

\* The function of relocsOnce, between two of the relocation sections: an error
\* of one ends it; those read are merged, if they reach into the section.
MergeRelocs(t) ==
  /\ At(t, "relocs", "body")
  /\ LET f == Top(t)
         left == {rs \in RelocSections(f.s) : rs > f.i}
         read == IF f.i = 0 THEN f.kept
                 ELSE Result("nil", f.kept.rels
                                      \cup {rs \in ret[t].rels : <<rs, f.s>> \in file.inRange})
     IN IF f.i > 0 /\ ret[t].err THEN Store(t, Error)
        ELSE IF left = {} THEN Store(t, read)
        ELSE /\ \E rs \in left :
                  /\ \A other \in left : rs <= other
                  /\ Call(t, [f EXCEPT !.i = rs, !.kept = read], Frame("rel", rs))
             /\ NoReturn /\ NoStore
  /\ Internal /\ UNCHANGED mapped

-----------------------------------------------------------------------------
(* readSectionRel, its function: readSectionRelUncached and populateAddends *)

ReadRelSection(t) ==
  /\ At(t, "rel", "body")
  /\ Call(t, [Top(t) EXCEPT !.at = "section"], Frame("Data", Top(t).s))
  /\ Internal /\ NoReturn /\ NoStore /\ UNCHANGED mapped

\* Mutant: every relocation section is taken to have a target.
AddendSectionsOfTarget(rs) ==
  IF file.type[rs] = "rela" THEN <<>>
  ELSE [k \in DOMAIN file.visits[rs] |-> [file.visits[rs][k] EXCEPT !.s = Target(rs)]]

\* The sections whose bytes hold the addends of relocation section rs.
AddendSections(rs) ==
  IF file.type[rs] = "rela" THEN <<>>
  ELSE IF Target(rs) # None
  THEN [k \in DOMAIN file.visits[rs] |-> [file.visits[rs][k] EXCEPT !.s = Target(rs)]]
  ELSE file.visits[rs]

\* A type that does not fit panics; an address that overflows is an error.
Decode(t) ==
  /\ At(t, "rel", "section")
  /\ IF ret[t].err \/ file.decoding[Top(t).s] = "error" THEN Store(t, Error)
     ELSE IF file.decoding[Top(t).s] = "panic" THEN Panic(t)
     ELSE /\ Become(t, [Top(t) EXCEPT !.at = "addends"])
          /\ NoReturn /\ NoStore
  /\ Internal /\ UNCHANGED mapped

\* Is thread t back from a section whose bytes it takes an addend from, without
\* bytes?
NoAddend(t) ==
  LET f == Top(t)
  IN f.i > 0 /\ ret[t].bytes = "nil" /\ AddendSections(f.s)[f.i].reads

\* Mutant: the sections are read through Data, with their relocations.
PopulateAddendsFromData(t) ==
  /\ At(t, "rel", "addends")
  /\ LET f == Top(t)
         visits == AddendSections(f.s)
     IN IF f.i > 0 /\ ret[t].err THEN Store(t, Error)
        ELSE IF f.i = Len(visits) THEN Store(t, Result("nil", {f.s}))
        ELSE /\ LET s == visits[f.i + 1].s
                IN Call(t, [f EXCEPT !.i = @ + 1], Frame(IF s = Null THEN "data" ELSE "Data", s))
             /\ NoReturn /\ NoStore
  /\ Internal /\ UNCHANGED mapped

\* Between two of the sections that hold addends.  Reading an addend of a closed
\* file panics; so does one that starts in its section and ends past it, and a
\* relocation of no known type or outside of all sections is an error.
PopulateAddends(t) ==
  /\ At(t, "rel", "addends")
  /\ LET f == Top(t)
         visits == AddendSections(f.s)
         end == IF file.type[f.s] = "rela" THEN "ok" ELSE file.addends[f.s]
     IN IF f.i > 0 /\ ret[t].err THEN Store(t, Error)
        ELSE IF NoAddend(t) THEN Panic(t)
        ELSE IF f.i < Len(visits)
        THEN /\ Call(t, [f EXCEPT !.i = @ + 1], Frame("data", visits[f.i + 1].s))
             /\ NoReturn /\ NoStore
        ELSE IF end = "panic" THEN Panic(t)
        ELSE Store(t, Ending(end, Result("nil", {f.s})))
  /\ Internal /\ UNCHANGED mapped

-----------------------------------------------------------------------------
\* Mutant: the caches keep the bytes that are unmapped.
CloseKeepsData ==
  /\ opened = "ok"
  /\ ~ closed
  /\ \A t \in Thread : stack[t] = <<>>
  /\ mapped' = {}
  /\ closed' = TRUE
  /\ UNCHANGED <<file, opened, once, value, lost, symBytes, stack, ret, calls, answers>>

\* Close unmaps the sections, and leaves the symbol tables what they hold.  The
\* client closes a file when no call is under way: Close takes no lock.
Close ==
  /\ opened = "ok"
  /\ ~ closed
  /\ \A t \in Thread : stack[t] = <<>>
  /\ value' = [o \in Onces |-> IF value[o].bytes = "map" THEN Nothing ELSE value[o]]
  /\ mapped' = {}
  /\ closed' = TRUE
  /\ UNCHANGED <<file, opened, once, lost, symBytes, stack, ret, calls, answers>>

Step(t) ==
  \/ DataReadsBytes(t) \/ DataReadsRelocs(t) \/ DataReturns(t)
  \/ OnceEnter(t) \/ OnceSkip(t) \/ LoadBytes(t)
  \/ ChooseRelocs(t) \/ MergeRelocs(t)
  \/ ReadRelSection(t) \/ Decode(t) \/ PopulateAddends(t)

Next ==
  \/ OpenElf
  \/ \E t \in Thread, s \in Section : CallData(t, s)
  \/ \E t \in Thread : Step(t)
  \/ Close

Spec == Init /\ [][Next]_vars

\* Every goroutine in a call is scheduled again and again.
FairSpec == Spec /\ \A t \in Thread : WF_vars(Step(t))

-----------------------------------------------------------------------------
(* Properties *)

Results == [err : BOOLEAN, bytes : Bytes, rels : SUBSET Section]

\* Where the frame of a call may be.
Points(op) ==
  CASE op = "Data"   -> {"start", "bytes", "relocs"}
    [] op = "data"   -> {"start", "body"}
    [] op = "Relocs" -> {"start"}
    [] op = "relocs" -> {"start", "body"}
    [] op = "rel"    -> {"start", "body", "section", "addends"}

\* Only bytes are ever asked of nullSection.
Frames ==
  {f \in [op : Guarded \cup {"Data", "Relocs"}, s : {Null} \cup Section,
          at : {"start", "bytes", "relocs", "body", "section", "addends"}, i : Nat,
          kept : Results] : f.op # "data" => f.s # Null}

\* Every variable has its type.
TypeOK ==
  /\ file \in Files
  /\ opened \in {"no", "ok", "error", "panic"}
  /\ once \in [Onces -> {New, Done} \cup Thread]
  /\ value \in [Onces -> Results]
  /\ lost \subseteq Onces
  /\ mapped \subseteq Section /\ symBytes \subseteq Section
  /\ stack \in [Thread -> Seq(Frames)]
  /\ ret \in [Thread -> Results]
  /\ calls \in [Thread -> 0..MaxCalls]
  /\ answers \in [Section -> SUBSET Results]
  /\ closed \in BOOLEAN

\* All calls of Data on a section that return anything return the same, whoever
\* makes them, whoever fills the caches, and whichever step fails; and where one
\* panics, all do, until the function of a once has panicked (elf.go:407-412,
\* elfReloc.go:148, :301).
SameAnswer ==
  \A s \in Section : \A v, w \in answers[s] :
    v = w \/ (lost # {} /\ Panicked \in {v, w})

\* The relocation sections whose relocations section s gets.
Given(s) == {rs \in Merged(s) : RelOnce(rs) \notin lost}

\* Data with bytes comes with the relocations of all the relocation sections that
\* are merged for the section, never with some of them or with a cache that is
\* being filled.  The one exception is a relocation section, or a merge, whose
\* function panicked: it counts as empty (elfReloc.go:282-334).
RelocsComplete ==
  \A s \in Section : \A v \in answers[s] :
    ~ v.err /\ v.bytes \in {"heap", "map"} =>
      v.rels = IF RelocsOnce(s) \in lost THEN {} ELSE Given(s)

\* No section's cache and no call holds bytes that have been unmapped, and the
\* symbol tables hold none while the file is open (elf.go:241, :263, :273-283).
NothingDangles ==
  /\ \A o \in Onces : value[o].bytes = "map" => o[2] \in mapped
  /\ \A t \in Thread : \A k \in DOMAIN stack[t] :
       stack[t][k].kept.bytes = "map" => stack[t][k].s \in mapped
  /\ ~ closed => symBytes \subseteq mapped

\* The order the onces are entered in: relocs, then rel, then data.
Rank(o) == CASE o[1] = "relocs" -> 3 [] o[1] = "rel" -> 2 [] o[1] = "data" -> 1

\* The onces a thread is in, and the one it waits for.
Waits(t) == IF \E op \in Guarded : At(t, op, "start") THEN {OnceOf(Top(t))} ELSE {}

\* A thread that waits for a once is in none of its rank or below: no two
\* threads wait for each other, and no function waits for its own once, "which
\* tends to lead to infinite loops" (elf.go:337-343).
WaitsDownwards ==
  \A t \in Thread : \A o \in Onces :
    once[o] = t => \A w \in Waits(t) : Rank(w) < Rank(o)

\* An error in reading a section or its relocations is returned as an error:
\* "If there's an error, it should return nil and the error" (obj.go:66-68).
ErrorReported ==
  \A s \in Section : \A v \in answers[s] : ~ v.err => v.bytes # "nil"

\* Every call returns.
CallsReturn == \A t \in Thread : stack[t] # <<>> ~> stack[t] = <<>>

-----------------------------------------------------------------------------
(* The inductive invariant *)

\* The function of a frame's once is running.
InOnce(f) == f.op \in Guarded /\ f.at # "start"

\* What is known of a frame wherever it is on its stack: Data keeps the bytes that
\* are cached, and the merge the relocations it has read so far; the addends do
\* not run out of sections.
FrameOK(f) ==
  /\ f.at \in Points(f.op)
  /\ f.op = "rel" => IsRel(f.s) /\ f.i <= Len(AddendSections(f.s))
  /\ f.op = "Data" /\ f.at # "start" => f.s \notin file.wraps
  /\ f.op = "relocs" => /\ RelocSections(f.s) # {}
                        /\ \A rs \in Section : RelocSections(f.s) # {rs}
                        /\ f.kept.bytes = "nil" /\ ~ f.kept.err
                        /\ f.at = "start" => f.i = 0
                        /\ \A rs \in RelocSections(f.s) : rs < f.i => once[RelOnce(rs)] = Done
                        /\ f.kept.rels = {rs \in Given(f.s) : rs < f.i}
  /\ f.op = "Data" /\ f.at = "relocs" =>
       once[DataOnce(f.s)] = Done /\ f.kept = value[DataOnce(f.s)] /\ ~ f.kept.err
  /\ f.op # "relocs" /\ f.at # "relocs" => f.kept = Nothing

\* What frame f may have called, and waits for.
Called(f, g) ==
  \/ f.op = "Data" /\ f.at = "bytes" /\ g.op = "data" /\ g.s = f.s
  \/ f.op = "Data" /\ f.at = "relocs" /\ g.op \in {"Relocs", "relocs"} /\ g.s = f.s
  \/ f.op = "Data" /\ f.at = "relocs" /\ g.op = "rel" /\ RelocSections(f.s) = {g.s}
  \/ f.op = "relocs" /\ f.at = "body" /\ g.op = "rel" /\ g.s = f.i /\ g.s \in RelocSections(f.s)
  \/ f.op = "rel" /\ f.at = "section" /\ g.op = "Data" /\ g.s = f.s
  \/ f.op = "rel" /\ f.at = "addends" /\ g.op = "data"

\* How deep in a stack a frame may lie: Data of a relocation section is called
\* for another section's relocations, and has none of its own.
Level(f) ==
  CASE f.op = "Data"   -> IF IsRel(f.s) THEN 3 ELSE 7
    [] f.op = "Relocs" -> IF IsRel(f.s) THEN 2 ELSE 6
    [] f.op = "relocs" -> 5
    [] f.op = "rel"    -> 4
    [] f.op = "data"   -> 1

\* A stack is a chain of calls downwards from a client's call of Data.
StackOK(t) ==
  /\ \A k \in 1..Len(stack[t]) : FrameOK(stack[t][k])
  /\ stack[t] # <<>> => stack[t][1].op = "Data"
  /\ \A k \in 1..Len(stack[t]) - 1 : Called(stack[t][k], stack[t][k + 1])
  /\ \A j, k \in 1..Len(stack[t]) : j < k => Level(stack[t][k]) < Level(stack[t][j])

\* A thread is in the onces whose functions it runs.
OwnsOK(t) ==
  /\ \A k \in 1..Len(stack[t]) : InOnce(stack[t][k]) => once[OnceOf(stack[t][k])] = t
  /\ \A o \in Onces : once[o] = t =>
       \E k \in 1..Len(stack[t]) : InOnce(stack[t][k]) /\ OnceOf(stack[t][k]) = o

\* Whether the relocations of a section are cached, and what they are.
RelocsDone(s) ==
  LET rels == RelocSections(s)
  IN \/ rels = {}
     \/ \E rs \in rels : rels = {rs} /\ once[RelOnce(rs)] = Done
     \/ (\A rs \in rels : rels # {rs}) /\ once[RelocsOnce(s)] = Done

RelocsValue(s) ==
  LET rels == RelocSections(s)
  IN IF rels = {} THEN Nothing
     ELSE IF \E rs \in rels : rels = {rs} THEN value[RelOnce(CHOOSE rs \in rels : TRUE)]
     ELSE value[RelocsOnce(s)]

\* What a frame that goes on has got from its last call.
RetOK(t) ==
  stack[t] # <<>> =>
    LET f == Top(t)
    IN /\ f.op = "Data" /\ f.at = "bytes" =>
            once[DataOnce(f.s)] = Done /\ ret[t] = value[DataOnce(f.s)]
       /\ f.op = "Data" /\ f.at = "relocs" =>
            RelocsDone(f.s) /\ ret[t] = RelocsValue(f.s)
       /\ f.op = "relocs" /\ f.i > 0 =>
            /\ f.i \in RelocSections(f.s)
            /\ once[RelOnce(f.i)] = Done /\ ret[t] = value[RelOnce(f.i)]

ThreadOK(t) == StackOK(t) /\ OwnsOK(t) /\ RetOK(t)

\* The caches hold nothing before they are done or if their function panicked,
\* and all that they should else.
CachesOK ==
  /\ \A o \in Onces : once[o] # Done \/ o \in lost => value[o] = Nothing
  /\ \A o \in lost : once[o] = Done
  /\ \A o \in Onces : value[o].bytes = "map" => o[1] = "data" /\ o[2] \in mapped
  /\ ~ closed => symBytes \subseteq mapped
  /\ \A s \in Section :
       /\ once[RelOnce(s)] = Done /\ ~ value[RelOnce(s)].err =>
            value[RelOnce(s)].rels = IF RelOnce(s) \in lost THEN {} ELSE {s}
       /\ once[RelocsOnce(s)] = Done =>
            /\ \A rs \in Section : RelocSections(s) # {rs}
            /\ ~ value[RelocsOnce(s)].err /\ RelocsOnce(s) \notin lost =>
                 /\ \A rs \in RelocSections(s) : once[RelOnce(rs)] = Done
                 /\ value[RelocsOnce(s)].rels = Given(s)

\* The answer to a call of Data, by the caches.
DataAnswer(s) ==
  LET data == value[DataOnce(s)]
      relocs == RelocsValue(s)
  IN IF s \in file.wraps THEN Panicked
     ELSE IF data.err THEN data
     ELSE IF relocs.err THEN Nothing
     ELSE IF data.bytes = "nil" \/ ~ file.archKnown THEN Panicked
     ELSE Result(data.bytes, relocs.rels)

\* Are the caches full that this answer comes from?
Answerable(s) ==
  \/ s \in file.wraps
  \/ once[DataOnce(s)] = Done /\ (value[DataOnce(s)].err \/ RelocsDone(s))

\* Bytes v of section s come with the relocations that are cached.
RelocsOfCache(s, v) ==
  ~ v.err /\ v.bytes \in {"heap", "map"} =>
    RelocsDone(s) /\ ~ RelocsValue(s).err /\ v.rels = RelocsValue(s).rels

\* What was answered is what the caches say, until Close; or it was a panic in
\* the function of a once.
AnswersOK ==
  /\ closed => SameAnswer
  /\ \A s \in Section : \A v \in answers[s] :
       /\ RelocsOfCache(s, v)
       /\ ~ closed => \/ v = DataAnswer(s) /\ Answerable(s)
                      \/ v = Panicked /\ lost # {}

\* Nothing has been called before the file is open, and nothing is mapped or lost.
UnopenedOK ==
  opened # "ok" =>
    /\ ~ closed /\ mapped = {} /\ lost = {}
    /\ \A t \in Thread : stack[t] = <<>>
    /\ \A s \in Section : answers[s] = {}

IInv ==
  /\ TypeOK /\ UnopenedOK /\ CachesOK /\ AnswersOK
  /\ \A t \in Thread : ThreadOK(t)
=============================================================================
