------------------------------ MODULE DebugData ------------------------------
(***************************************************************************)
(* dbg.Data: New indexes the units of a file by address; afterwards        *)
(* goroutines share the data, and the caches they fill on the way: per     *)
(* unit, under a sync.Once each, the line table cache and the index of     *)
(* subprograms; and, in a sync.Map, a map of inline sites per subprogram,  *)
(* which several of them may build at once.                                *)
(*                                                                         *)
(* A map from addresses (imap.Imap) is a function on addresses here, and   *)
(* an Insert assigns to an interval of it: Imap!Refinement.                *)
(***************************************************************************)
EXTENDS EntryTree, SequencesExt

CONSTANTS
  MaxAddr,   \* addresses are 0..MaxAddr
  Thread,    \* goroutines that share a Data
  Asked,     \* the addresses that clients ask for
  Files,     \* the files to index: see FileOK
  MaxCalls,  \* how many calls each thread makes
  New, Done, \* the states of a sync.Once that no thread is running
  None       \* a nil pointer

ASSUME ConstantsAssumption ==
  /\ MaxAddr \in Nat /\ MaxCalls \in Nat /\ Asked \subseteq 0..MaxAddr
  /\ New \notin Thread /\ Done \notin Thread /\ New # Done
  /\ None \notin Nat

VARIABLES
  file,     \* the debugging entries, and what decoding them will meet
  new,      \* the walk of cuRanges: see NewStart
  opened,   \* whether New has returned, and how
  lineOnce, \* the once of each unit's line table cache: New, Done or the thread in it
  subOnce,  \* the once of each unit's index of subprograms
  subs,     \* that index
  cache,    \* inlineRangesCache: per subprogram, no or one map of inline sites
  th,       \* each goroutine's call: see InCall
  calls,    \* how many calls each has made
  answer,   \* what its last call returned
  served    \* the maps that calls of inlineRanges have returned

vars == <<file, new, opened, lineOnce, subOnce, subs, cache, th, calls, answer, served>>

-----------------------------------------------------------------------------
(* The file *)

Addr == 0..MaxAddr
Entry == DOMAIN file.entries
Tag(e) == file.entries[e].tag

\* `after' is the place after each entry and its children, by SkipChildren.
\* `ranges' of an entry are pairs of a low and a high address.  Decoding the
\* entry at `stop' fails, if that is not 0, and so do the ranges of `badRanges'.
\* `siblings' says whether entries name their next sibling.  Line tables are
\* "ok", "bad" or, if the unit names none, "none".
FileOK(f) ==
  /\ f.entries \in Seq([tag : Tags, children : BOOLEAN, ranges : SUBSET (Nat \X Nat)])
  /\ Nested(f.entries, f.after)
  /\ f.stop \in 0..Len(f.entries) /\ f.badRanges \subseteq DOMAIN f.entries
  /\ f.siblings \in BOOLEAN
  /\ f.lines \in [DOMAIN f.entries -> {"ok", "bad", "none"}]

ASSUME FilesAssumption == \A f \in Files : FileOK(f)

\* dr.Next: does it return an entry?
Reads(pos) == pos \in Entry /\ pos # file.stop

\* dr.SkipChildren: the next place to read.  Without the name of the next
\* sibling the children are read.
Skip(e) ==
  LET after == file.after[e]
  IN IF ~ file.siblings /\ e < file.stop /\ file.stop < after THEN file.stop ELSE after

Holds(e, a) == \E r \in file.entries[e].ranges : r[1] <= a /\ a < r[2]

NoMap == [a \in Addr |-> None]

\* addRanges, which adds nothing if the ranges do not decode.
AddRanges(m, e, val) ==
  IF e \in file.badRanges THEN m
  ELSE [a \in Addr |-> IF Holds(e, a) THEN val ELSE m[a]]

-----------------------------------------------------------------------------
(* Data.New: cuRanges *)

NewStart == [pos |-> 1, ranges |-> NoMap, cus |-> {}]

\* A goroutine outside of a call, and inside: the call and its address, the unit
\* and subprogram it has found, and the position, map, stack and outer site of
\* a walk over entries.
InCall(at, op, addr, cu) ==
  [at |-> at, op |-> op, addr |-> addr, cu |-> cu, sub |-> None,
   pos |-> 0, m |-> NoMap, stack |-> <<>>, outer |-> None]
Idle == InCall("idle", "", 0, None)

Answer(kind, addr, val) == [kind |-> kind, addr |-> addr, val |-> val]

Init ==
  /\ file \in Files
  /\ new = NewStart
  /\ opened = "no"
  /\ lineOnce = [cu \in Entry |-> New]
  /\ subOnce = [cu \in Entry |-> New]
  /\ subs = [cu \in Entry |-> NoMap]
  /\ cache = [s \in Entry |-> <<>>]
  /\ th = [t \in Thread |-> Idle]
  /\ calls = [t \in Thread |-> 0]
  /\ answer = [t \in Thread |-> Answer("none", 0, None)]
  /\ served = [s \in Entry |-> {}]

\* One entry of the top level.
CuRanges ==
  /\ opened = "no"
  /\ LET e == new.pos
         unit == Reads(e) /\ Tag(e) = "unit"
     IN /\ opened' = IF e \notin Entry THEN "ok"
                     ELSE IF ~ Reads(e) \/ (unit /\ e \in file.badRanges) THEN "error"
                     ELSE "no"
        /\ new' = IF opened' # "no" THEN new
                  ELSE [pos |-> Skip(e),
                        ranges |-> IF unit THEN AddRanges(new.ranges, e, e) ELSE new.ranges,
                        cus |-> IF unit THEN new.cus \cup {e} ELSE new.cus]
  /\ UNCHANGED <<file, lineOnce, subOnce, subs, cache, th, calls, answer, served>>

-----------------------------------------------------------------------------
(* Calls and returns *)

At(t, at) == th[t].at = at
Go(t, r) == th' = [th EXCEPT ![t] = r]

Return(t, kind, val) ==
  /\ Go(t, Idle)
  /\ answer' = [answer EXCEPT ![t] = Answer(kind, th[t].addr, val)]

Stay(t, r) == Go(t, r) /\ UNCHANGED answer

Internal == UNCHANGED <<file, new, opened, calls>>

\* The addresses from a on that are in a unit.
InUnits(a) == {b \in a..MaxAddr : new.ranges[b] # None}

\* A call begins with AddrToCU.  "subprogram" is AddrToSubprogram; "inline" goes
\* on to inlineRanges, as inline_test.go does; "stack" is SeekPC of a new
\* LineReader over a table with a row at each address: it starts from the next
\* address in a unit and needs the unit's line table before it looks for the
\* stack.
Call(t, op, a) ==
  /\ opened = "ok" /\ At(t, "idle") /\ calls[t] < MaxCalls
  /\ LET next == IF op = "stack" THEN InUnits(a) ELSE InUnits(a) \cap {a}
     IN IF next = {}
        THEN /\ answer' = [answer EXCEPT ![t] = Answer("no unit", a, None)]
             /\ UNCHANGED th
        ELSE Stay(t, InCall(IF op = "stack" THEN "table" ELSE "index",
                            op, Min(next), new.ranges[Min(next)]))
  /\ calls' = [calls EXCEPT ![t] = @ + 1]
  /\ UNCHANGED <<file, new, opened, lineOnce, subOnce, subs, cache, served>>

-----------------------------------------------------------------------------
(* lineTableCache.ensure, from seek and from inlineRanges *)

TableEnter(t) ==
  LET cu == th[t].cu
  IN /\ At(t, "table") \/ At(t, "inline table")
     /\ lineOnce[cu] = New
     /\ lineOnce' = [lineOnce EXCEPT ![cu] = t]
     /\ Internal /\ UNCHANGED <<subOnce, subs, cache, th, answer, served>>

\* Mutant: a panic leaves the once held.
TableFillHolds(t) ==
  LET cu == th[t].cu
  IN /\ At(t, "table") \/ At(t, "inline table")
     /\ lineOnce[cu] = t
     /\ IF file.lines[cu] = "none"
        THEN Return(t, "panic", None) /\ UNCHANGED lineOnce
        ELSE lineOnce' = [lineOnce EXCEPT ![cu] = Done] /\ UNCHANGED <<th, answer>>
     /\ Internal /\ UNCHANGED <<subOnce, subs, cache, served>>

\* A unit without a line table has no reader for it: a nil pointer panics.
TableFill(t) ==
  LET cu == th[t].cu
  IN /\ At(t, "table") \/ At(t, "inline table")
     /\ lineOnce[cu] = t
     /\ lineOnce' = [lineOnce EXCEPT ![cu] = Done]
     /\ IF file.lines[cu] = "none" THEN Return(t, "panic", None) ELSE UNCHANGED <<th, answer>>
     /\ Internal /\ UNCHANGED <<subOnce, subs, cache, served>>

\* seek, with the cache: it has no waypoints if filling it has panicked.
SeekTable(t) ==
  LET cu == th[t].cu
  IN /\ At(t, "table")
     /\ lineOnce[cu] = Done
     /\ CASE file.lines[cu] = "bad"  -> Return(t, "error", None)
          [] file.lines[cu] = "none" -> Return(t, "panic", None)
          [] file.lines[cu] = "ok"   -> Stay(t, [th[t] EXCEPT !.at = "index"])
     /\ Internal /\ UNCHANGED <<lineOnce, subOnce, subs, cache, served>>

-----------------------------------------------------------------------------
(* AddrToSubprogram, given the unit *)

\* The once is entered; a unit without children has nothing to index.
IndexEnter(t) ==
  LET cu == th[t].cu
  IN /\ At(t, "index")
     /\ subOnce[cu] = New
     /\ IF file.entries[cu].children
        THEN /\ subOnce' = [subOnce EXCEPT ![cu] = t]
             /\ Stay(t, [th[t] EXCEPT !.at = "indexing", !.pos = cu + 1])
        ELSE /\ subOnce' = [subOnce EXCEPT ![cu] = Done]
             /\ UNCHANGED <<th, answer>>
     /\ Internal /\ UNCHANGED <<lineOnce, subs, cache, served>>

\* One child of the unit.
IndexNext(t) ==
  LET cu == th[t].cu
      e == th[t].pos
  IN /\ At(t, "indexing")
     /\ IF Reads(e) /\ Tag(e) # "end"
        THEN /\ subs' = IF Tag(e) = "subprogram" THEN [subs EXCEPT ![cu] = AddRanges(@, e, e)]
                        ELSE subs
             /\ Stay(t, [th[t] EXCEPT !.pos = Skip(e)])
             /\ UNCHANGED subOnce
        ELSE /\ subOnce' = [subOnce EXCEPT ![cu] = Done]
             /\ Stay(t, [th[t] EXCEPT !.at = "index"])
             /\ UNCHANGED subs
     /\ Internal /\ UNCHANGED <<lineOnce, cache, served>>

\* Mutant: an index that another goroutine is still filling is looked up in.
IndexReadyEarly(t) ==
  LET sub == subs[th[t].cu][th[t].addr]
  IN /\ At(t, "index")
     /\ subOnce[th[t].cu] # New
     /\ IF sub = None \/ th[t].op = "subprogram"
        THEN Return(t, "subprogram", sub)
        ELSE Stay(t, [th[t] EXCEPT !.at = "cached", !.sub = sub])
     /\ Internal /\ UNCHANGED <<lineOnce, subOnce, subs, cache, served>>

IndexReady(t) ==
  LET sub == subs[th[t].cu][th[t].addr]
  IN /\ At(t, "index")
     /\ subOnce[th[t].cu] = Done
     /\ IF sub = None \/ th[t].op = "subprogram"
        THEN Return(t, "subprogram", sub)
        ELSE Stay(t, [th[t] EXCEPT !.at = "cached", !.sub = sub])
     /\ Internal /\ UNCHANGED <<lineOnce, subOnce, subs, cache, served>>

-----------------------------------------------------------------------------
(* inlineRanges *)

\* A new *InlineSite of thread t.
Site(t, e, caller) == [entry |-> e, caller |-> caller, by |-> t]

\* inlineRanges returns map m, in which the caller looks its address up.
Serve(t, m) ==
  /\ served' = [served EXCEPT ![th[t].sub] = @ \cup {m}]
  /\ Return(t, "site", m[th[t].addr])

CacheLoad(t) ==
  /\ At(t, "cached")
  /\ IF cache[th[t].sub] # <<>>
     THEN Serve(t, cache[th[t].sub][1])
     ELSE Stay(t, [th[t] EXCEPT !.at = "inline table"]) /\ UNCHANGED served
  /\ Internal /\ UNCHANGED <<lineOnce, subOnce, subs, cache>>

\* Without the file table an empty map is returned, and not cached.
InlineStart(t) ==
  LET cu == th[t].cu
  IN /\ At(t, "inline table")
     /\ lineOnce[cu] = Done
     /\ IF file.lines[cu] = "bad"
        THEN Serve(t, NoMap)
        ELSE Stay(t, [th[t] EXCEPT !.at = "walk", !.pos = th[t].sub]) /\ UNCHANGED served
     /\ Internal /\ UNCHANGED <<lineOnce, subOnce, subs, cache>>

\* Mutant: the end of a block too goes up to a caller.
PoppedAlways(r) ==
  IF r.stack = <<>> THEN r
  ELSE [r EXCEPT !.stack = Front(@),
                 !.outer = IF r.outer # None THEN r.outer.caller ELSE @]

\* The stack and the outer site, after the end of an entry's children.
Popped(r) ==
  IF r.stack = <<>> THEN r
  ELSE [r EXCEPT !.stack = Front(@),
                 !.outer = IF Last(r.stack) # None THEN Last(r.stack).caller ELSE @]

\* The walk over one entry.  A site is pushed for an inlined subroutine, None
\* for any other entry that has children; nested functions are skipped.
WalkEntry(t, r) ==
  LET e == r.pos
      inner == Site(t, e, r.outer)
      next == [r EXCEPT !.pos = e + 1]
  IN IF Tag(e) = "inlined" \/ (Tag(e) = "subprogram" /\ r.outer = None)
     THEN [next EXCEPT !.stack = Append(@, inner), !.outer = inner,
                       !.m = AddRanges(@, e, inner)]
     ELSE IF Tag(e) = "subprogram" THEN [r EXCEPT !.pos = Skip(e)]
     ELSE [next EXCEPT !.stack = IF file.entries[e].children THEN Append(@, None) ELSE @,
                       !.at = IF r.outer = None THEN "store" ELSE @]

InlineNext(t) ==
  LET r == th[t]
  IN /\ At(t, "walk")
     /\ Stay(t, IF ~ Reads(r.pos) THEN [r EXCEPT !.at = "store"]
                ELSE WalkEntry(t, IF Tag(r.pos) = "end" THEN Popped(r) ELSE r))
     /\ Internal /\ UNCHANGED <<lineOnce, subOnce, subs, cache, served>>

\* Mutant: who comes late returns the map it has built.
CacheStoreOwn(t) ==
  LET s == th[t].sub
  IN /\ At(t, "store")
     /\ cache' = IF cache[s] = <<>> THEN [cache EXCEPT ![s] = <<th[t].m>>] ELSE cache
     /\ Serve(t, th[t].m)
     /\ Internal /\ UNCHANGED <<lineOnce, subOnce, subs>>

\* LoadOrStore: the map of the first to come is kept, and returned.
CacheStore(t) ==
  LET s == th[t].sub
  IN /\ At(t, "store")
     /\ cache' = IF cache[s] = <<>> THEN [cache EXCEPT ![s] = <<th[t].m>>] ELSE cache
     /\ Serve(t, cache'[s][1])
     /\ Internal /\ UNCHANGED <<lineOnce, subOnce, subs>>

-----------------------------------------------------------------------------
Ops == {"subprogram", "inline", "stack"}

Step(t) ==
  \/ TableEnter(t) \/ TableFill(t) \/ SeekTable(t)
  \/ IndexEnter(t) \/ IndexNext(t) \/ IndexReady(t)
  \/ CacheLoad(t) \/ InlineStart(t) \/ InlineNext(t) \/ CacheStore(t)

Next ==
  \/ CuRanges
  \/ \E t \in Thread, op \in Ops, a \in Asked : Call(t, op, a)
  \/ \E t \in Thread : Step(t)

Spec == Init /\ [][Next]_vars

\* Every goroutine in a call is scheduled again and again.
FairSpec == Spec /\ \A t \in Thread : WF_vars(Step(t))

-----------------------------------------------------------------------------
(* What the debugging entries say, by what encloses what *)

Subprograms == {e \in Entry : Tag(e) = "subprogram"}

Children(outer) ==
  {e \in Entry : Encloses(file.after, outer, e)
                  /\ \A i \in outer + 1..e - 1 : ~ Encloses(file.after, i, e)}

\* What subprogram s encloses, without the insides of functions nested in it.
Body(s) ==
  {e \in Entry : (e = s \/ Encloses(file.after, s, e))
                  /\ \A n \in Subprograms : n > s => ~ Encloses(file.after, n, e)}

\* Of entries read one after the other, those that are reached.
Reached(entries) ==
  {e \in entries : ~ (file.stop \in entries /\ file.stop <= e) /\ e \notin file.badRanges}

\* The unit that holds address a, and the subprograms of it that do.
UnitsAt(a) == {cu \in new.cus : Holds(cu, a)}
SubprogramsAt(a) ==
  {s \in Subprograms : Holds(s, a) /\ \E cu \in UnitsAt(a) : s \in Reached(Children(cu))}

\* Subprogram s and the calls inlined into it, directly or not.
Sites(s) == {e \in Body(s) : e = s \/ Tag(e) = "inlined"}
SitesAt(s, a) == {e \in Sites(s) \cap Reached(Body(s)) : Holds(e, a)}

\* The innermost of the sites at an address, and the one a site was called from.
Innermost(sites) ==
  CHOOSE e \in sites : \A d \in sites : d = e \/ Encloses(file.after, d, e)
CallerOf(s, e) ==
  LET outer == {d \in Sites(s) : Encloses(file.after, d, e)}
  IN IF outer = {} THEN None ELSE Max(outer)

\* The callers of a site, as far as there are any.
CallerChain(site, depth) ==
  LET up[k \in 0..depth] ==
        IF k = 0 THEN site
        ELSE IF up[k - 1] = None THEN None ELSE up[k - 1].caller
  IN up

-----------------------------------------------------------------------------
(* Properties *)

\* Every variable has its type; no goroutine is in more than one once.
TypeOK ==
  /\ file \in Files
  /\ opened \in {"no", "ok", "error"}
  /\ lineOnce \in [Entry -> {New, Done} \cup Thread]
  /\ subOnce \in [Entry -> {New, Done} \cup Thread]
  /\ new.ranges \in [Addr -> new.cus \cup {None}]
  /\ subs \in [Entry -> [Addr -> Entry \cup {None}]]
  /\ \A t \in Thread :
       /\ th[t].pos \in 0..Len(file.entries) + 1
       /\ th[t].at # "idle" => th[t].cu \in new.cus
       /\ th[t].sub \in Subprograms \cup {None}
       /\ Cardinality({cu \in Entry : lineOnce[cu] = t} \cup {cu \in Entry : subOnce[cu] = t}) <= 1
  /\ calls \in [Thread -> 0..MaxCalls]

\* Every address is found in the unit and the subprogram that hold it, and in
\* none if none does; nobody reads an index that another goroutine is still
\* filling (ranges.go:68-70, :90-91).
IndexRight ==
  \A t \in Thread :
    LET a == answer[t].addr
    IN /\ answer[t].kind = "no unit" => UnitsAt(a) = {}
       /\ answer[t].kind = "subprogram" =>
            IF SubprogramsAt(a) = {} THEN answer[t].val = None
            ELSE answer[t].val \in SubprogramsAt(a)

\* inlineRanges gives, at each address of a subprogram, "the innermost
\* TagSubprogram or TagInlinedSubroutine", and up its Callers "the frame at which
\* this inlined function was called" (inline.go:22-36), whatever blocks and nested
\* functions lie between, and as far as the entries can be decoded.
InlineRight ==
  \A s \in Entry : \A m \in served[s] :
    IF \E cu \in new.cus : s \in Children(cu) /\ file.lines[cu] = "bad" THEN m = NoMap
    ELSE \A a \in Addr :
           LET sites == SitesAt(s, a)
               depth == Cardinality(Sites(s))
               chain == CallerChain(m[a], depth)
           IN IF sites = {} THEN m[a] = None
              ELSE /\ m[a] # None
                   /\ m[a].entry = Innermost(sites)
                   /\ \A k \in 1..depth :
                        chain[k - 1] # None =>
                          CallerOf(s, chain[k - 1].entry)
                            = (IF chain[k] = None THEN None ELSE chain[k].entry)

\* All callers get one and the same map of a subprogram, with the same sites in
\* it, also those who built another at the same time (inline.go:105-109).
SameSites == \A s \in Entry : \A m, n \in served[s] : m = n

\* Every call returns: walks end and onces are left.
CallsReturn == \A t \in Thread : ~ At(t, "idle") ~> At(t, "idle")

-----------------------------------------------------------------------------
(* The inductive invariant, for the proofs *)

\* No two units have code at one address.
Apart == \A a \in Addr : \A c, d \in UnitsAt(a) : c = d

\* The walk of cuRanges: units enclose one another's entries never, and the map
\* holds what was read.
NewOK ==
  LET pos == new.pos
  IN /\ new = [pos |-> pos, ranges |-> new.ranges, cus |-> new.cus]
     /\ opened \in {"no", "ok", "error"}
     /\ pos \in 1..Len(file.entries) + 1
     /\ opened = "ok" => pos \notin Entry
     /\ ~ file.siblings /\ opened # "error" => file.stop \notin 1..pos - 1
     /\ \A c \in new.cus : c \in Entry /\ c < pos /\ (file.after[c] <= pos \/ pos = file.stop)
     /\ \A c, d \in new.cus : c < d => file.after[c] <= d
     /\ new.ranges \in [Addr -> new.cus \cup {None}]
     /\ \A a \in Addr : IF UnitsAt(a) = {} THEN new.ranges[a] = None
                        ELSE new.ranges[a] \in UnitsAt(a)

\* A unit's index holds what the walk has read before place p.
SubprogramsTo(cu, p, a) ==
  {s \in Subprograms \cap Reached(Children(cu)) : s < p /\ Holds(s, a)}
IndexedTo(cu, p) ==
  \A a \in Addr : IF SubprogramsTo(cu, p, a) = {} THEN subs[cu][a] = None
                  ELSE subs[cu][a] \in SubprogramsTo(cu, p, a)

IndexesOK ==
  /\ subOnce \in [Entry -> {New, Done} \cup Thread]
  /\ subs \in [Entry -> [Addr -> Entry \cup {None}]]
  /\ \A cu \in Entry :
       /\ subOnce[cu] = New => subs[cu] = NoMap
       /\ subOnce[cu] = Done => IndexedTo(cu, Len(file.entries) + 1)
       /\ \A t \in Thread : subOnce[cu] = t => At(t, "indexing") /\ th[t].cu = cu

IsCall(r) == r = [f \in DOMAIN Idle |-> r[f]]

\* A call has found the unit of its address and, from there on, a subprogram of
\* it; it walks only if the unit's line table is sound.
CallRight(r) ==
  /\ IsCall(r)
  /\ r.at # "idle" => /\ opened = "ok" /\ r.addr \in Addr
                      /\ r.cu \in new.cus /\ new.ranges[r.addr] = r.cu
  /\ r.at \in {"cached", "inline table", "walk", "store"} => r.sub \in Children(r.cu)
  /\ r.at \in {"walk", "store"} => file.lines[r.cu] # "bad"

\* In the index, it stands on a child of the unit, and no child before it is
\* missing.
IndexingOK(t) ==
  LET r == th[t]
  IN /\ subOnce[r.cu] = t /\ r.pos \in Children(r.cu)
     /\ file.stop \in Children(r.cu) => r.pos <= file.stop
     /\ IndexedTo(r.cu, r.pos)

CallOK(t) == CallRight(th[t]) /\ (At(t, "indexing") => IndexingOK(t))

\* A subprogram's unit is unique, and decides what is served for it: the cached
\* map, or no map of its own and nothing in the cache.
ServedFrom(c, s) ==
  /\ s \in Children(c)
  /\ IF file.lines[c] = "bad" THEN cache[s] = <<>> /\ served[s] \subseteq {NoMap}
     ELSE \A m \in served[s] : cache[s] = <<m>>
CachesOK ==
  /\ DOMAIN cache = Entry /\ DOMAIN served = Entry
  /\ \A s \in Entry :
       /\ cache[s] = <<>> \/ cache[s] = <<cache[s][1]>>
       /\ \/ cache[s] = <<>> /\ served[s] = {}
          \/ \E c \in new.cus : ServedFrom(c, s)

AnswersOK ==
  /\ DOMAIN answer = Thread
  /\ \A t \in Thread : answer[t].kind # "none" => opened = "ok"
  /\ Apart => IndexRight

IInv ==
  /\ file \in Files /\ DOMAIN th = Thread
  /\ NewOK /\ IndexesOK /\ CachesOK /\ AnswersOK
  /\ \A t \in Thread : CallOK(t)

-----------------------------------------------------------------------------
(* The walks over inlined calls: what a file must be like, and their invariant *)

\* Are units outside of everything, and inlined calls in a function, with an end
\* of their own?
Tidy ==
  \A e \in Entry :
    /\ Tag(e) = "unit" => \A d \in Entry : ~ Encloses(file.after, d, e)
    /\ Tag(e) = "inlined" => /\ file.entries[e].children
                             /\ \E s \in Subprograms : Encloses(file.after, s, e)

\* Of two calls in a subprogram that have code at one address, does the first
\* enclose the second?
SitesNest ==
  \A s \in Subprograms, a \in Addr : \A d, e \in SitesAt(s, a) :
    d < e => Encloses(file.after, d, e)

\* The sites that thread t makes for subprogram s, each with its callers.
Chart(t, s) ==
  LET site[e \in Sites(s)] ==
        Site(t, e, IF CallerOf(s, e) = None THEN None ELSE site[CallerOf(s, e)])
  IN site

\* Its map when it has come to place p.
Found(s, p, a) == {e \in SitesAt(s, a) : e < p}
MapTo(t, s, p) ==
  [a \in Addr |-> IF Found(s, p, a) = {} THEN None ELSE Chart(t, s)[Max(Found(s, p, a))]]
FullMap(t, s) == MapTo(t, s, Len(file.entries) + 1)

\* What is pushed for each entry that is open at p, and a stack of what was pushed
\* for some entries, from the outside in.
Open(s, p) == {d \in Body(s) : Encloses(file.after, d, p)}
Pushed(t, s, p) == [d \in Open(s, p) |-> IF d \in Sites(s) THEN Chart(t, s)[d] ELSE None]
StackOK(stack, pushed) ==
  /\ stack \in Seq({pushed[d] : d \in DOMAIN pushed})
  /\ \E q \in [1..Len(stack) -> DOMAIN pushed] :
       /\ \A i, j \in DOMAIN q : i < j => q[i] < q[j]
       /\ \A d \in DOMAIN pushed : \E i \in DOMAIN q : q[i] = d
       /\ \A i \in DOMAIN q : stack[i] = pushed[q[i]]

\* Inside s, the outer site is of the last call that is open.
InsideOK(t, s, r) ==
  /\ r.pos \in Body(s) \ {s}
  /\ file.stop \in Body(s) => r.pos <= file.stop
  /\ r.m = MapTo(t, s, r.pos)
  /\ r.outer = Chart(t, s)[Max(Open(s, r.pos) \cap Sites(s))]
  /\ StackOK(r.stack, Pushed(t, s, r.pos))

\* After a subprogram without children the walk goes on behind it, outside of the
\* functions that begin there, and finds nothing more.
Behind(s, p) == p > s /\ ~ \E n \in Subprograms : n > s /\ Encloses(file.after, n, p)
BehindOK(t, s, r) ==
  LET site == Chart(t, s)[s]
  IN /\ Behind(s, r.pos)
     /\ r.m = FullMap(t, s) /\ r.outer = site
     /\ r.stack \in Seq({site, None})

WalkOK(t, r) ==
  LET s == r.sub
  IN \/ r.pos = s /\ r.m = NoMap /\ r.stack = <<>> /\ r.outer = None
     \/ s # file.stop /\ file.entries[s].children /\ InsideOK(t, s, r)
     \/ s # file.stop /\ ~ file.entries[s].children /\ BehindOK(t, s, r)

\* A call has nothing of a walk before its own, and the complete map after it.
WalkerOK(t, r) ==
  /\ r.at \in {"cached", "inline table", "walk", "store"} => r.sub \in Subprograms
  /\ r.at \notin {"walk", "store"} => r.m = NoMap /\ r.stack = <<>> /\ r.outer = None
  /\ r.at = "walk" => WalkOK(t, r)
  /\ r.at = "store" => r.m = FullMap(t, r.sub)

InlineInv ==
  /\ \A c \in new.cus : Tag(c) = "unit"
  /\ \A t \in Thread : WalkerOK(t, th[t])
  /\ \A s \in Entry : cache[s] # <<>> =>
       s \in Subprograms /\ \E t \in Thread : cache[s] = <<FullMap(t, s)>>
=============================================================================
