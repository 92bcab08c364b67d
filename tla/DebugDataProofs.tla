--------------------------- MODULE DebugDataProofs ---------------------------
(***************************************************************************)
(* Theorems about DebugData, for every number of goroutines and calls and  *)
(* for every file: addresses are found in the units and subprograms that   *)
(* hold them, and all callers get the same map of inline sites, which is   *)
(* right wherever the entries are as a compiler writes them.               *)
(***************************************************************************)
EXTENDS DebugData, SequenceTheorems, FiniteSetTheorems, WellFoundedInduction, TLAPS

-----------------------------------------------------------------------------
(* Addresses *)

\* A set of addresses has a least member.
LEMMA LeastAddr ==
  ASSUME NEW T \in SUBSET Nat, T # {}
  PROVE  Min(T) \in T /\ \A y \in T : Min(T) <= y
<1> DEFINE R == {p \in Nat \X Nat : p[1] < p[2]}
<1>1. IsWellFoundedOn(R, Nat)
  BY NatLessThanWellFounded DEF OpToRel
<1>2. PICK x \in T : \A y \in T : ~ (<<y, x>> \in R)
  BY <1>1, WFMin
<1>3. ASSUME NEW y \in T PROVE x <= y
  <2>1. x \in Nat /\ y \in Nat
    OBVIOUS
  <2>2. ~ (y < x)
    BY <1>2, <2>1
  <2> QED
    BY <2>1, <2>2
<1> QED
  BY <1>3 DEF Min

-----------------------------------------------------------------------------
(* The tree of entries *)

\* What FileOK says of the entries of the file that is open.
LEMMA EntryFacts ==
  ASSUME file \in Files
  PROVE  /\ Len(file.entries) \in Nat /\ Entry = 1..Len(file.entries)
         /\ file.stop \in Nat /\ file.siblings \in BOOLEAN
         /\ \A e \in Entry :
              /\ file.after[e] \in 2..Len(file.entries) + 1
              /\ file.entries[e].children \in BOOLEAN
              /\ IF file.entries[e].children
                 THEN file.after[e] > e + 1 /\ Tag(e) # "end" /\ Tag(file.after[e] - 1) = "end"
                 ELSE file.after[e] = e + 1
              /\ Tag(e) = "end" => \E o \in 1..e - 1 : file.after[o] - 1 = e
              /\ \A i \in e + 1..file.after[e] - 2 : file.after[i] < file.after[e]
<1>1. FileOK(file)
  BY FilesAssumption
<1>2. file.entries \in Seq([tag : Tags, children : BOOLEAN, ranges : SUBSET (Nat \X Nat)])
  BY <1>1 DEF FileOK
<1>3. Len(file.entries) \in Nat /\ DOMAIN file.entries = 1..Len(file.entries)
  BY <1>2
<1>4. ASSUME NEW e \in Entry PROVE file.entries[e].children \in BOOLEAN
  <2>1. file.entries[e] \in [tag : Tags, children : BOOLEAN, ranges : SUBSET (Nat \X Nat)]
    BY <1>2, <1>3, ElementOfSeq DEF Entry
  <2> QED
    BY <2>1
<1>5. file.stop \in 0..Len(file.entries) /\ file.siblings \in BOOLEAN
  BY <1>1 DEF FileOK
<1>6. Nested(file.entries, file.after)
  BY <1>1 DEF FileOK
<1>7. \A e \in Entry :
        /\ file.after[e] \in 2..Len(file.entries) + 1
        /\ IF file.entries[e].children
           THEN file.after[e] > e + 1 /\ Tag(e) # "end" /\ Tag(file.after[e] - 1) = "end"
           ELSE file.after[e] = e + 1
        /\ Tag(e) = "end" => \E o \in 1..e - 1 : file.after[o] - 1 = e
        /\ \A i \in e + 1..file.after[e] - 2 : file.after[i] < file.after[e]
  BY <1>6 DEF Nested, Entry, Tag
<1> QED
  BY <1>3, <1>4, <1>5, <1>7 DEF Entry

\* The children of an entry are read one after the other: after one that is not
\* the end comes the next, and the end is the last.
LEMMA NextChild ==
  ASSUME file \in Files, NEW c \in Entry, NEW p \in Children(c)
  PROVE  /\ p \in Entry /\ c < p /\ p < file.after[c]
         /\ Tag(p) = "end" => p = file.after[c] - 1
         /\ Tag(p) # "end" => /\ file.after[p] \in Children(c)
                              /\ \A e \in Children(c) : e < file.after[p] => e <= p
<1> DEFINE L == Len(file.entries)
           after == file.after
<1>1. L \in Nat /\ Entry = 1..L
  BY EntryFacts
<1>2. \A e \in Entry :
        /\ after[e] \in 2..L + 1
        /\ IF file.entries[e].children
           THEN after[e] > e + 1 /\ Tag(e) # "end" /\ Tag(after[e] - 1) = "end"
           ELSE after[e] = e + 1
        /\ Tag(e) = "end" => \E o \in 1..e - 1 : after[o] - 1 = e
        /\ \A i \in e + 1..after[e] - 2 : after[i] < after[e]
  BY EntryFacts
<1>3. /\ p \in Entry /\ c < p /\ p < after[c]
      /\ \A i \in c + 1..p - 1 : after[i] <= p
  <2>1. p \in Entry /\ c < p /\ p < after[c] /\ \A i \in c + 1..p - 1 : ~ (i < p /\ p < after[i])
    BY DEF Children, Encloses
  <2>2. \A i \in c + 1..p - 1 : i \in Entry /\ i < p
    BY <2>1, <1>1
  <2> QED
    BY <2>1, <2>2, <1>1, <1>2
<1> HIDE DEF L, after
<1>a. c \in Nat /\ p \in Nat /\ after[c] \in Nat
  BY <1>1, <1>2, <1>3
<1>4. ASSUME NEW i \in Entry, c < i, i < after[c]
      PROVE  after[i] <= after[c] /\ (after[i] = after[c] => i = after[c] - 1)
  <2>1. CASE i = after[c] - 1
    <3>1. file.entries[c].children
      BY <1>2, <1>4, <1>1
    <3>2. Tag(i) = "end"
      BY <1>2, <3>1, <2>1
    <3>3. after[i] = i + 1
      BY <1>2, <3>2
    <3> QED
      BY <2>1, <3>3, <1>a
  <2>2. CASE i < after[c] - 1
    <3>1. i \in c + 1..after[c] - 2
      BY <2>2, <1>4, <1>1, <1>2
    <3> QED
      BY <3>1, <1>2, <1>1
  <2>3. i = after[c] - 1 \/ i < after[c] - 1
    BY <1>4, <1>1, <1>a
  <2>4. after[i] \in Nat
    BY <1>1, <1>2
  <2> QED
    BY <2>1, <2>2, <2>3, <2>4, <1>a
<1>5. ASSUME Tag(p) = "end" PROVE p = after[c] - 1
  <2>1. PICK o \in 1..p - 1 : after[o] - 1 = p
    BY <1>2, <1>3, <1>5
  <2>2. o \in Entry /\ o \in Nat /\ o < p /\ after[o] = p + 1
    BY <2>1, <1>1, <1>2, <1>3, SMTT(60)
  <2>3. ~ (c < o)
    BY <2>2, <1>3, <1>1
  <2>4. CASE o < c
    <3>1. c \in o + 1..after[o] - 2
      BY <2>2, <2>4, <1>1, <1>3
    <3>2. after[c] < after[o]
      BY <3>1, <2>2, <1>2
    <3> QED
      BY <3>2, <2>2, <1>1, <1>2, <1>3
  <2>5. CASE o = c
    BY <2>2, <2>5, <1>a
  <2> QED
    BY <2>3, <2>4, <2>5, <2>2, <1>1
<1>6. ASSUME Tag(p) # "end" PROVE after[p] \in Children(c)
  <2>1. p # after[c] - 1
    <3>1. file.entries[c].children
      BY <1>1, <1>2, <1>3
    <3> QED
      BY <1>2, <3>1, <1>6
  <2>2. after[p] < after[c] /\ after[p] > p /\ after[p] \in Nat
    BY <1>4, <1>3, <2>1, <1>1, <1>2
  <2>3. after[p] \in Entry
    BY <2>2, <1>1, <1>2, <1>3
  <2>4. ASSUME NEW i \in c + 1..after[p] - 1 PROVE after[i] <= after[p]
    <3>0. i \in Entry /\ i \in Nat
      BY <1>1, <2>2, <2>3, <2>4, <1>3
    <3>1. CASE i < p
      BY <3>0, <3>1, <1>1, <1>2, <1>3, <2>2
    <3>2. CASE i = p
      BY <3>2, <2>2
    <3>3. CASE i > p /\ i < after[p] - 1
      <4>1. i \in p + 1..after[p] - 2
        BY <3>0, <3>3, <1>1, <1>3, <2>2
      <4> QED
        BY <4>1, <1>1, <1>2, <1>3, <2>2, <3>0
    <3>4. CASE i > p /\ i = after[p] - 1
      <4>1. file.entries[p].children
        BY <1>2, <1>3, <3>4, <1>1
      <4>2. Tag(i) = "end"
        BY <1>2, <1>3, <4>1, <3>4
      <4>3. after[i] = i + 1
        BY <1>2, <3>0, <4>2
      <4> QED
        BY <4>3, <3>4, <2>2, <3>0
    <3> QED
      BY <3>0, <3>1, <3>2, <3>3, <3>4, <2>2, <1>3, <1>1
  <2>5. \A i \in c + 1..after[p] - 1 : ~ Encloses(file.after, i, after[p])
    <3>1. ASSUME NEW i \in c + 1..after[p] - 1, Encloses(file.after, i, after[p]) PROVE FALSE
      <4>1. after[p] < after[i] /\ after[i] <= after[p]
        BY <3>1, <2>4 DEF Encloses, after
      <4>2. i \in Entry
        BY <1>1, <1>3, <2>2, <2>3
      <4> QED
        BY <4>1, <4>2, <1>2, <2>2, <1>1
    <3> QED
      BY <3>1
  <2>6. Encloses(file.after, c, after[p])
    BY <2>2, <1>1, <1>3 DEF Encloses, after
  <2> QED
    BY <2>3, <2>5, <2>6 DEF Children
<1>7. ASSUME Tag(p) # "end", NEW e \in Children(c), e < after[p] PROVE e <= p
  <2>1. e \in Entry /\ c < e /\ \A i \in c + 1..e - 1 : ~ Encloses(file.after, i, e)
    BY DEF Children, Encloses
  <2>2. CASE p < e
    <3>1. p \in c + 1..e - 1
      BY <2>1, <2>2, <1>1, <1>3
    <3>2. Encloses(file.after, p, e)
      BY <2>2, <1>7 DEF Encloses, after
    <3> QED
      BY <2>1, <3>1, <3>2
  <2> QED
    BY <2>1, <2>2, <1>1, <1>3
<1> QED
  BY <1>3, <1>5, <1>6, <1>7 DEF after

\* They begin right after the entry, if it has any.
LEMMA FirstChild ==
  ASSUME file \in Files, NEW c \in Entry
  PROVE  /\ \A e \in Children(c) : e >= c + 1
         /\ IF file.entries[c].children THEN c + 1 \in Children(c) ELSE Children(c) = {}
<1>1. Len(file.entries) \in Nat /\ Entry = 1..Len(file.entries)
  BY EntryFacts
<1>2. /\ file.after[c] \in 2..Len(file.entries) + 1
      /\ file.entries[c].children \in BOOLEAN
      /\ IF file.entries[c].children THEN file.after[c] > c + 1 ELSE file.after[c] = c + 1
  BY EntryFacts
<1>3. \A e \in Children(c) : e \in Entry /\ c < e /\ e < file.after[c]
  BY DEF Children, Encloses
<1>4. ASSUME file.entries[c].children PROVE c + 1 \in Children(c)
  <2>1. c + 1 \in Entry /\ Encloses(file.after, c, c + 1)
    BY <1>1, <1>2, <1>4 DEF Encloses
  <2>2. c + 1..(c + 1) - 1 = {}
    BY <1>1
  <2> QED
    BY <2>1, <2>2 DEF Children
<1>5. ASSUME ~ file.entries[c].children PROVE Children(c) = {}
  <2>1. ASSUME NEW e \in Children(c) PROVE FALSE
    BY <1>1, <1>2, <1>3, <1>5, <2>1
  <2> QED
    BY <2>1
<1> QED
  BY <1>1, <1>2, <1>3, <1>4, <1>5

\* An entry is the child of one unit only.
LEMMA OneUnit ==
  ASSUME file \in Files, NewOK, NEW c \in new.cus, NEW d \in new.cus,
         NEW s \in Children(c), s \in Children(d)
  PROVE  c = d
<1>1. Len(file.entries) \in Nat /\ Entry = 1..Len(file.entries)
  BY EntryFacts
<1>2. c \in Entry /\ d \in Entry /\ (c < d => file.after[c] <= d) /\ (d < c => file.after[d] <= c)
  BY DEF NewOK
<1>3. s \in Entry /\ c < s /\ s < file.after[c] /\ d < s /\ s < file.after[d]
  BY DEF Children, Encloses
<1>4. file.after[c] \in Nat /\ file.after[d] \in Nat
  BY <1>1, <1>2, EntryFacts
<1> QED
  BY <1>1, <1>2, <1>3, <1>4

-----------------------------------------------------------------------------
(* Steps, as what is shared sees them *)

\* What the entries say does not change.
LEMMA SameFile ==
  ASSUME file' = file
  PROVE  /\ Entry' = Entry /\ Subprograms' = Subprograms
         /\ \A c : Children(c)' = Children(c)
         /\ \A e, a : Holds(e, a)' = Holds(e, a)
         /\ \A cu, p, a : SubprogramsTo(cu, p, a)' = SubprogramsTo(cu, p, a)
<1>1. Entry' = Entry /\ Subprograms' = Subprograms
  BY DEF Entry, Subprograms, Tag
<1>2. \A c : Children(c)' = Children(c)
  BY <1>1 DEF Children
<1>3. \A e, a : Holds(e, a)' = Holds(e, a)
  BY DEF Holds
<1>4. \A cu, p, a : SubprogramsTo(cu, p, a)' = SubprogramsTo(cu, p, a)
  BY <1>1, <1>2, <1>3 DEF SubprogramsTo, Reached
<1> QED
  BY <1>1, <1>2, <1>3, <1>4

\* Nor do the units, once New has returned.
LEMMA SameUnits ==
  ASSUME UNCHANGED <<file, new, opened>>
  PROVE  /\ NewOK => NewOK'
         /\ \A a : UnitsAt(a)' = UnitsAt(a)
         /\ \A a : SubprogramsAt(a)' = SubprogramsAt(a)
<1>1. \A a : UnitsAt(a)' = UnitsAt(a)
  BY SameFile DEF UnitsAt
<1>2. \A a : SubprogramsAt(a)' = SubprogramsAt(a)
  BY <1>1, SameFile DEF SubprogramsAt, Reached
<1>3. NewOK => NewOK'
  BY <1>1, SameFile DEF NewOK
<1> QED
  BY <1>1, <1>2, <1>3

\* One goroutine moves.
Moves(t, r) ==
  DOMAIN th' = Thread /\ th'[t] = r /\ \A u \in Thread : u # t => th'[u] = th[u]

LEMMA GoMoves ==
  ASSUME IInv, NEW t \in Thread, NEW r, Go(t, r)
  PROVE  Moves(t, r)
BY DEF IInv, Go, Moves

LEMMA StaysPut ==
  ASSUME IInv, NEW t \in Thread, NEW r, r = th[t], th' = th
  PROVE  Moves(t, r)
BY DEF IInv, Moves

\* A step of one goroutine outside of the indexes.
LEMMA ThreadStep ==
  ASSUME IInv, NEW t \in Thread, NEW r, Moves(t, r), UNCHANGED <<file, new, opened, subOnce, subs>>,
         ~ At(t, "indexing"), CallRight(r), r.at # "indexing"
  PROVE  /\ DOMAIN th' = Thread /\ IndexesOK'
         /\ \A u \in Thread : CallOK(u)'
<1> USE DEF IInv
<1>1. DOMAIN th' = Thread /\ th'[t] = r /\ \A u \in Thread : u # t => th'[u] = th[u]
  BY DEF Moves
<1>2. \A q : CallRight(q) => CallRight(q)'
  BY SameFile DEF CallRight, IsCall, Addr
<1>3. \A cu, p : IndexedTo(cu, p)' = IndexedTo(cu, p)
  BY SameFile DEF IndexedTo, Addr
<1>4. IndexesOK'
  <2>1. \A cu \in Entry, u \in Thread : subOnce[cu] = u => u # t
    BY DEF IndexesOK
  <2> QED
    BY <1>1, <1>3, <2>1, SameFile DEF IndexesOK, At, Addr, NoMap
<1>5. ASSUME NEW u \in Thread PROVE CallOK(u)'
  <2>1. CASE u = t
    BY <2>1, <1>1, <1>2 DEF CallOK, At
  <2>2. CASE u # t
    <3>0. PICK q : q = th[u]
      OBVIOUS
    <3>1. th'[u] = q /\ CallRight(q)'
      BY <2>2, <3>0, <1>1, <1>2 DEF CallOK
    <3>2. IndexingOK(u) => IndexingOK(u)'
      BY <3>0, <3>1, <1>3, SameFile DEF IndexingOK
    <3> QED
      BY <3>0, <3>1, <3>2 DEF CallOK, At
  <2> QED
    BY <2>1, <2>2
<1> QED
  BY <1>1, <1>4, <1>5

\* The caches, where nothing of them changes.
LEMMA CachesSame ==
  ASSUME CachesOK, UNCHANGED <<file, cache, served>>, new.cus \subseteq new'.cus
  PROVE  CachesOK'
<1>1. \A c, s : ServedFrom(c, s) => ServedFrom(c, s)'
  BY SameFile DEF ServedFrom, NoMap, Addr
<1> QED
  BY <1>1, SameFile DEF CachesOK

\* A call goes on,
LEMMA AnswersSame ==
  ASSUME AnswersOK, UNCHANGED <<file, new, opened, answer>>
  PROVE  AnswersOK'
BY SameUnits DEF AnswersOK, Apart, IndexRight, Addr

\* or returns.
LEMMA AnswerStep ==
  ASSUME AnswersOK, UNCHANGED <<file, new, opened>>, opened = "ok",
         NEW t \in Thread, NEW kind, NEW a, NEW val,
         answer' = [answer EXCEPT ![t] = Answer(kind, a, val)],
         Apart /\ kind = "no unit" => UnitsAt(a) = {},
         Apart /\ kind = "subprogram" => IF SubprogramsAt(a) = {} THEN val = None
                                         ELSE val \in SubprogramsAt(a)
  PROVE  AnswersOK'
<1>1. /\ DOMAIN answer' = Thread
      /\ \A u \in Thread : u # t => answer'[u] = answer[u]
      /\ answer'[t].kind = kind /\ answer'[t].addr = a /\ answer'[t].val = val
  BY DEF AnswersOK, Answer
<1>0. /\ \A b : UnitsAt(b)' = UnitsAt(b)
      /\ \A b : SubprogramsAt(b)' = SubprogramsAt(b)
  BY SameUnits
<1>2. Apart' <=> Apart
  BY <1>0 DEF Apart, Addr
<1>3. ASSUME Apart PROVE IndexRight'
  <2>1. IndexRight
    BY <1>3 DEF AnswersOK
  <2> QED
    BY <1>0, <1>1, <1>3, <2>1, ZenonT(60) DEF IndexRight
<1> QED
  BY <1>1, <1>2, <1>3 DEF AnswersOK

-----------------------------------------------------------------------------
(* The walk of cuRanges *)

\* Reading goes on behind an entry and, unless it fails next, all it encloses.
LEMMA SkipFacts ==
  ASSUME file \in Files, NEW e \in Entry
  PROVE  /\ Skip(e) \in e + 1..Len(file.entries) + 1 /\ Skip(e) <= file.after[e]
         /\ Skip(e) # file.after[e] => Skip(e) = file.stop
         /\ ~ file.siblings /\ file.stop \notin 1..e => file.stop \notin 1..Skip(e) - 1
         /\ file.siblings \/ file.stop = 0 => Skip(e) = file.after[e]
<1>1. /\ Len(file.entries) \in Nat /\ Entry = 1..Len(file.entries)
      /\ file.stop \in Nat /\ file.siblings \in BOOLEAN
  BY EntryFacts
<1>2. file.after[e] \in 2..Len(file.entries) + 1 /\ file.after[e] > e
  <2>1. /\ file.after[e] \in 2..Len(file.entries) + 1
        /\ file.entries[e].children \in BOOLEAN
        /\ IF file.entries[e].children THEN file.after[e] > e + 1 ELSE file.after[e] = e + 1
    BY EntryFacts
  <2> QED
    BY <1>1, <2>1
<1> QED
  BY <1>1, <1>2 DEF Skip

LEMMA CuRangesNew ==
  ASSUME IInv, CuRanges
  PROVE  NewOK' /\ new.cus \subseteq new'.cus
<1> USE DEF IInv
<1> DEFINE e == new.pos
           unit == Reads(e) /\ Tag(e) = "unit"
<1>1. /\ file' = file /\ opened = "no" /\ Entry' = Entry /\ Addr' = Addr
      /\ \A d, a : Holds(d, a)' = Holds(d, a)
  BY SameFile DEF CuRanges, Addr
<1>2. /\ Len(file.entries) \in Nat /\ Entry = 1..Len(file.entries)
      /\ file.stop \in Nat /\ file.siblings \in BOOLEAN
  BY EntryFacts
<1>3. CASE opened' # "no"
  <2>1. new' = new /\ opened' \in {"ok", "error"} /\ (opened' = "ok" => e \notin Entry)
    BY <1>3 DEF CuRanges
  <2>2. \A a : UnitsAt(a)' = UnitsAt(a)
    BY <1>1, <2>1 DEF UnitsAt
  <2> QED
    BY <1>1, <2>1, <2>2 DEF NewOK
<1>4. CASE opened' = "no"
  <2>1. /\ new' = [pos |-> Skip(e),
                   ranges |-> IF unit THEN AddRanges(new.ranges, e, e) ELSE new.ranges,
                   cus |-> IF unit THEN new.cus \cup {e} ELSE new.cus]
        /\ Reads(e) /\ (unit => e \notin file.badRanges)
    BY <1>4 DEF CuRanges
  <2>2. e \in Entry /\ e # file.stop
    BY <2>1 DEF Reads
  <2>3. /\ Skip(e) \in e + 1..Len(file.entries) + 1 /\ Skip(e) <= file.after[e]
        /\ Skip(e) # file.after[e] => Skip(e) = file.stop
        /\ ~ file.siblings /\ file.stop \notin 1..e => file.stop \notin 1..Skip(e) - 1
    BY <2>2, SkipFacts
  <2>4. /\ new'.pos = Skip(e) /\ new'.cus = IF unit THEN new.cus \cup {e} ELSE new.cus
        /\ new'.ranges = IF unit THEN AddRanges(new.ranges, e, e) ELSE new.ranges
        /\ new' = [pos |-> new'.pos, ranges |-> new'.ranges, cus |-> new'.cus]
    BY <2>1
  <2>5. \A c \in new.cus : c \in Entry /\ c < e /\ file.after[c] <= e
    BY <2>2 DEF NewOK
  <2>6. \A c \in new'.cus : c \in Entry /\ c <= e /\ (c # e => c \in new.cus)
    BY <1>2, <2>2, <2>4, <2>5
  <2> HIDE DEF e, unit
  <2>7. \A c \in Entry : file.after[c] \in Nat
    BY <1>2, EntryFacts
  <2>8. \A c \in new'.cus : /\ c \in Entry /\ c < Skip(e)
                            /\ file.after[c] <= Skip(e) \/ Skip(e) = file.stop
    BY <1>2, <2>2, <2>3, <2>5, <2>6, <2>7, SMTT(60)
  <2>9. ASSUME NEW c \in new'.cus, NEW d \in new'.cus, c < d PROVE file.after[c] <= d
    <3>1. c # e /\ c \in new.cus
      BY <2>6, <2>9, <2>2, <1>2
    <3>2. CASE d = e
      BY <3>1, <3>2, <2>5
    <3>3. CASE d # e
      BY <3>1, <3>3, <2>6, <2>9 DEF NewOK
    <3> QED
      BY <3>2, <3>3
  <2>10. /\ new'.ranges \in [Addr -> new'.cus \cup {None}]
         /\ \A a \in Addr : IF unit /\ Holds(e, a) THEN new'.ranges[a] = e
                            ELSE new'.ranges[a] = new.ranges[a]
    <3>1. new.ranges \in [Addr -> new.cus \cup {None}]
      BY DEF NewOK
    <3>2. CASE unit
      BY <2>1, <2>4, <3>1, <3>2 DEF AddRanges
    <3>3. CASE ~ unit
      BY <2>4, <3>1, <3>3
    <3> QED
      BY <3>2, <3>3
  <2>11. \A a : UnitsAt(a)' = IF unit /\ Holds(e, a) THEN UnitsAt(a) \cup {e} ELSE UnitsAt(a)
    BY <1>1, <2>4 DEF UnitsAt
  <2>12. ASSUME NEW a \in Addr
         PROVE  IF UnitsAt(a)' = {} THEN new'.ranges[a] = None ELSE new'.ranges[a] \in UnitsAt(a)'
    <3>1. IF UnitsAt(a) = {} THEN new.ranges[a] = None ELSE new.ranges[a] \in UnitsAt(a)
      BY DEF NewOK
    <3> QED
      BY <2>10, <2>11, <3>1
  <2>13. /\ opened' \in {"no", "ok", "error"} /\ opened' # "ok"
         /\ ~ file.siblings => file.stop \notin 1..Skip(e) - 1
    <3>1. ~ file.siblings => file.stop \notin 1..e - 1
      BY <1>1 DEF NewOK, e
    <3>2. ~ file.siblings => file.stop \notin 1..e
      BY <3>1, <2>2, <1>2
    <3> QED
      BY <3>2, <2>3, <1>4
  <2>14. Skip(e) \in 1..Len(file.entries) + 1
    BY <1>2, <2>2, <2>3
  <2> QED
    BY <1>1, <2>4, <2>8, <2>9, <2>10, <2>12, <2>13, <2>14 DEF NewOK
<1> QED
  BY <1>3, <1>4

LEMMA CuRangesInv ==
  ASSUME IInv, CuRanges
  PROVE  IInv'
<1> USE DEF IInv
<1>1. NewOK' /\ new.cus \subseteq new'.cus
  BY CuRangesNew
<1>2. /\ UNCHANGED <<file, subOnce, subs, cache, th, answer, served>> /\ opened = "no"
  BY DEF CuRanges
<1>3. CachesOK'
  BY <1>1, <1>2, CachesSame
<1>4. \A t \in Thread : answer[t].kind = "none" /\ answer'[t].kind = "none"
  <2>1. ASSUME NEW t \in Thread PROVE answer[t].kind = "none"
    BY <1>2 DEF AnswersOK
  <2> QED
    BY <2>1, <1>2
<1>5. AnswersOK'
  BY <1>2, <1>4 DEF AnswersOK, IndexRight
<1>6. ASSUME NEW t \in Thread PROVE th[t].at = "idle" /\ IsCall(th[t])
  BY <1>2 DEF CallOK, CallRight
<1>7. \A cu, p : IndexedTo(cu, p)' = IndexedTo(cu, p)
  BY <1>2, SameFile DEF IndexedTo, Addr
<1>8. IndexesOK'
  BY <1>2, <1>7, SameFile DEF IndexesOK, At, Addr, NoMap
<1>9. \A t \in Thread : CallOK(t)'
  BY <1>2, <1>6 DEF CallOK, CallRight, At, IsCall
<1> QED
  BY <1>1, <1>2, <1>3, <1>5, <1>8, <1>9

-----------------------------------------------------------------------------
(* Calls *)

\* A goroutine goes on with its call,
LEMMA GoesOn ==
  ASSUME IInv, NEW t \in Thread, NEW r, Moves(t, r),
         UNCHANGED <<file, new, opened, subOnce, subs, cache, served, answer>>,
         ~ At(t, "indexing"), CallRight(r), r.at # "indexing"
  PROVE  IInv'
<1>1. NewOK' /\ CachesOK' /\ AnswersOK'
  BY SameUnits, CachesSame, AnswersSame DEF IInv
<1>2. DOMAIN th' = Thread /\ IndexesOK' /\ \A u \in Thread : CallOK(u)'
  BY ThreadStep
<1> QED
  BY <1>1, <1>2 DEF IInv

\* or returns from it.
LEMMA Returns ==
  ASSUME IInv, NEW t \in Thread, NEW kind, NEW val, Return(t, kind, val),
         UNCHANGED <<file, new, opened, subOnce, subs>>, CachesOK',
         ~ At(t, "indexing"), opened = "ok", kind # "no unit",
         Apart /\ kind = "subprogram" => IF SubprogramsAt(th[t].addr) = {} THEN val = None
                                         ELSE val \in SubprogramsAt(th[t].addr)
  PROVE  IInv'
<1>1. CallRight(Idle) /\ Idle.at = "idle" /\ Go(t, Idle)
  BY DEF CallRight, IsCall, Idle, InCall, Return
<1>2. DOMAIN th' = Thread /\ IndexesOK' /\ \A u \in Thread : CallOK(u)'
  BY <1>1, GoMoves, ThreadStep
<1>3. answer' = [answer EXCEPT ![t] = Answer(kind, th[t].addr, val)]
  BY DEF Return
<1>4. PICK a : a = th[t].addr
  OBVIOUS
<1>5. AnswersOK'
  BY <1>3, <1>4, AnswerStep DEF IInv
<1> QED
  BY <1>2, <1>5, SameUnits DEF IInv

\* What a goroutine in a call has.
LEMMA CallFacts ==
  ASSUME IInv, NEW t \in Thread, ~ At(t, "idle")
  PROVE  /\ opened = "ok" /\ th[t].addr \in Addr /\ IsCall(th[t]) /\ CallRight(th[t])
         /\ th[t].cu \in new.cus /\ th[t].cu \in Entry
         /\ th[t].cu \in UnitsAt(th[t].addr)
         /\ file.siblings \/ file.stop = 0
<1> USE DEF IInv
<1>1. /\ opened = "ok" /\ th[t].addr \in Addr /\ IsCall(th[t]) /\ CallRight(th[t])
      /\ th[t].cu \in new.cus /\ new.ranges[th[t].addr] = th[t].cu
  BY DEF CallOK, CallRight, At
<1>2. th[t].cu \in Entry
  BY <1>1 DEF NewOK
<1>3. Len(file.entries) \in Nat /\ Entry = 1..Len(file.entries) /\ file.siblings \in BOOLEAN
  BY EntryFacts
<1>4. th[t].cu # None
  BY <1>2, <1>3, ConstantsAssumption
<1>5. th[t].cu \in UnitsAt(th[t].addr)
  BY <1>1, <1>4 DEF NewOK
<1>6. file.stop \in 0..Len(file.entries)
  BY FilesAssumption DEF FileOK
<1>7. new.pos = Len(file.entries) + 1 /\ (~ file.siblings => file.stop \notin 1..new.pos - 1)
  BY <1>1, <1>3 DEF NewOK
<1> QED
  BY <1>1, <1>2, <1>3, <1>5, <1>6, <1>7

LEMMA CallInv ==
  ASSUME IInv, NEW t \in Thread, NEW op \in Ops, NEW a \in Asked, Call(t, op, a)
  PROVE  IInv'
<1> USE DEF IInv
<1> DEFINE next == IF op = "stack" THEN InUnits(a) ELSE InUnits(a) \cap {a}
           b == Min(next)
           r == InCall(IF op = "stack" THEN "table" ELSE "index", op, b, new.ranges[b])
<1>1. /\ opened = "ok" /\ At(t, "idle")
      /\ UNCHANGED <<file, new, opened, subOnce, subs, cache, served>>
  BY DEF Call
<1>2. CASE next = {}
  <2>1. answer' = [answer EXCEPT ![t] = Answer("no unit", a, None)] /\ UNCHANGED th
    BY <1>2 DEF Call
  <2>2. a \in Addr /\ a \in a..MaxAddr
    BY ConstantsAssumption DEF Addr
  <2>3. new.ranges[a] = None
    BY <1>2, <2>2 DEF InUnits
  <2>4. \A c \in UnitsAt(a) : c # None
    BY EntryFacts, ConstantsAssumption DEF NewOK, UnitsAt
  <2>5. UnitsAt(a) = {}
    BY <2>2, <2>3, <2>4 DEF NewOK
  <2>6. AnswersOK'
    BY <1>1, <2>1, <2>5, AnswerStep
  <2>7. CachesOK' /\ NewOK'
    BY <1>1, CachesSame, SameUnits
  <2>8. PICK q : q = th[t]
    OBVIOUS
  <2>9. CallRight(q) /\ q.at = "idle" /\ Moves(t, q)
    BY <1>1, <2>1, <2>8, StaysPut DEF CallOK, At
  <2>10. DOMAIN th' = Thread /\ IndexesOK' /\ \A u \in Thread : CallOK(u)'
    BY <1>1, <2>9, ThreadStep DEF At
  <2> QED
    BY <1>1, <2>6, <2>7, <2>10
<1>3. CASE next # {}
  <2>1. Go(t, r) /\ UNCHANGED answer
    BY <1>3 DEF Call, Stay
  <2>2. next \in SUBSET Nat /\ next \subseteq InUnits(a)
    BY ConstantsAssumption DEF InUnits
  <2>3. b \in InUnits(a)
    BY <2>2, <1>3, LeastAddr
  <2>4. b \in Addr /\ new.ranges[b] # None
    BY <2>3, ConstantsAssumption DEF InUnits, Addr
  <2>5. new.ranges[b] \in new.cus
    BY <2>4 DEF NewOK
  <2> HIDE DEF next, b
  <2>6. /\ IsCall(r) /\ r.at \in {"table", "index"} /\ r.addr = b /\ r.cu = new.ranges[b]
    BY DEF IsCall, Idle, InCall
  <2> HIDE DEF r
  <2>7. CallRight(r)
    BY <2>4, <2>5, <2>6, <1>1 DEF CallRight
  <2>8. ~ At(t, "indexing") /\ r.at # "indexing"
    BY <1>1, <2>6 DEF At
  <2> QED
    BY <1>1, <2>1, <2>7, <2>8, GoMoves, GoesOn
<1> QED
  BY <1>2, <1>3

LEMMA TableEnterInv ==
  ASSUME IInv, NEW t \in Thread, TableEnter(t)
  PROVE  IInv'
<1>1. PICK q : q = th[t]
  OBVIOUS
<1>2. /\ ~ At(t, "idle") /\ ~ At(t, "indexing") /\ q.at # "indexing"
      /\ UNCHANGED <<file, new, opened, subOnce, subs, cache, served, answer, th>>
  BY <1>1 DEF TableEnter, At, Internal
<1>3. CallRight(q) /\ Moves(t, q)
  BY <1>1, <1>2, CallFacts, StaysPut
<1> QED
  BY <1>2, <1>3, GoesOn

LEMMA TableFillInv ==
  ASSUME IInv, NEW t \in Thread, TableFill(t)
  PROVE  IInv'
<1>1. PICK q : q = th[t]
  OBVIOUS
<1>2. /\ ~ At(t, "idle") /\ ~ At(t, "indexing") /\ q.at # "indexing"
      /\ UNCHANGED <<file, new, opened, subOnce, subs, cache, served>>
      /\ Return(t, "panic", None) \/ UNCHANGED <<th, answer>>
  BY <1>1 DEF TableFill, At, Internal
<1>3. CASE UNCHANGED <<th, answer>>
  <2>1. CallRight(q) /\ Moves(t, q)
    BY <1>1, <1>2, <1>3, CallFacts, StaysPut
  <2> QED
    BY <1>2, <1>3, <2>1, GoesOn
<1>4. CASE Return(t, "panic", None)
  <2>1. CachesOK' /\ opened = "ok"
    BY <1>2, CachesSame, CallFacts DEF IInv
  <2> QED
    BY <1>2, <1>4, <2>1, Returns
<1> QED
  BY <1>2, <1>3, <1>4

LEMMA SeekTableInv ==
  ASSUME IInv, NEW t \in Thread, SeekTable(t)
  PROVE  IInv'
<1> DEFINE r == [th[t] EXCEPT !.at = "index"]
<1>1. /\ ~ At(t, "idle") /\ ~ At(t, "indexing")
      /\ UNCHANGED <<file, new, opened, subOnce, subs, cache, served>>
  BY DEF SeekTable, At, Internal
<1>2. file.lines[th[t].cu] \in {"ok", "bad", "none"}
  <2>1. file.lines \in [Entry -> {"ok", "bad", "none"}]
    BY FilesAssumption DEF FileOK, IInv, Entry
  <2> QED
    BY <2>1, <1>1, CallFacts
<1>3. \/ Return(t, "error", None) \/ Return(t, "panic", None)
      \/ Go(t, r) /\ UNCHANGED answer
  BY <1>2 DEF SeekTable, Stay
<1>4. CachesOK' /\ opened = "ok"
  BY <1>1, CachesSame, CallFacts DEF IInv
<1>5. CASE Go(t, r) /\ UNCHANGED answer
  <2>1. /\ IsCall(th[t]) /\ opened = "ok" /\ th[t].addr \in Addr
        /\ th[t].cu \in new.cus /\ new.ranges[th[t].addr] = th[t].cu
    BY <1>1, CallFacts DEF CallRight, At
  <2>2. IsCall(r) /\ r.at = "index" /\ r.addr = th[t].addr /\ r.cu = th[t].cu
    BY <2>1 DEF IsCall, Idle, InCall
  <2> HIDE DEF r
  <2>3. CallRight(r) /\ r.at # "indexing"
    BY <2>1, <2>2 DEF CallRight
  <2> QED
    BY <1>1, <1>5, <2>3, GoMoves, GoesOn
<1>6. ASSUME NEW kind \in {"error", "panic"}, Return(t, kind, None)
      PROVE  IInv'
  BY <1>1, <1>4, <1>6, Returns
<1> QED
  BY <1>3, <1>5, <1>6

-----------------------------------------------------------------------------
(* The index of a unit *)

\* With a subprogram found for its address, an answer is right.
LEMMA IndexReadyInv ==
  ASSUME IInv, NEW t \in Thread, IndexReady(t)
  PROVE  IInv'
<1> USE DEF IInv
<1> DEFINE sub == subs[th[t].cu][th[t].addr]
           r == [th[t] EXCEPT !.at = "cached", !.sub = sub]
<1>1. /\ ~ At(t, "idle") /\ ~ At(t, "indexing") /\ subOnce[th[t].cu] = Done
      /\ UNCHANGED <<file, new, opened, subOnce, subs, cache, served>>
      /\ IF sub = None \/ th[t].op = "subprogram" THEN Return(t, "subprogram", sub)
         ELSE Go(t, r) /\ UNCHANGED answer
  BY DEF IndexReady, At, Internal, Stay
<1>2. /\ opened = "ok" /\ th[t].addr \in Addr /\ IsCall(th[t]) /\ CallRight(th[t])
      /\ th[t].cu \in new.cus /\ th[t].cu \in Entry /\ th[t].cu \in UnitsAt(th[t].addr)
  BY <1>1, CallFacts
<1>3. PICK a \in Addr : a = th[t].addr
  BY <1>2
<1>4. PICK cu \in Entry : cu = th[t].cu
  BY <1>2
<1> DEFINE S == SubprogramsTo(cu, Len(file.entries) + 1, a)
<1>5. IF S = {} THEN sub = None ELSE sub \in S
  BY <1>1, <1>3, <1>4 DEF IndexesOK, IndexedTo
<1>6. S = {s \in Subprograms \cap Reached(Children(cu)) : Holds(s, a)}
  BY EntryFacts DEF SubprogramsTo, Subprograms
<1>7. CASE sub = None \/ th[t].op = "subprogram"
  <2>1. Return(t, "subprogram", sub)
    BY <1>1, <1>7
  <2>2. ASSUME Apart
        PROVE  IF SubprogramsAt(a) = {} THEN sub = None ELSE sub \in SubprogramsAt(a)
    <3>1. UnitsAt(a) = {cu}
      BY <2>2, <1>2, <1>3, <1>4 DEF Apart
    <3>2. SubprogramsAt(a) = S
      BY <3>1, <1>6 DEF SubprogramsAt
    <3> QED
      BY <3>2, <1>5
  <2>3. CachesOK'
    BY <1>1, CachesSame
  <2> QED
    BY <1>1, <1>2, <1>3, <2>1, <2>2, <2>3, Returns
<1>8. CASE ~ (sub = None \/ th[t].op = "subprogram")
  <2>1. sub \in Children(cu)
    BY <1>5, <1>6, <1>8 DEF Reached
  <2>2. IsCall(r) /\ r.at = "cached" /\ r.addr = a /\ r.cu = cu /\ r.sub = sub
    BY <1>2, <1>3, <1>4 DEF IsCall, Idle, InCall
  <2>3. new.ranges[a] = cu
    BY <1>1, <1>2, <1>3, <1>4 DEF CallRight, At
  <2>4. Go(t, r) /\ UNCHANGED answer
    BY <1>1, <1>8
  <2> HIDE DEF r, sub
  <2>5. CallRight(r) /\ r.at # "indexing"
    BY <1>2, <1>3, <1>4, <2>1, <2>2, <2>3 DEF CallRight
  <2> QED
    BY <1>1, <2>4, <2>5, GoMoves, GoesOn
<1> QED
  BY <1>7, <1>8

\* What a step of the index does not touch.
LEMMA IndexFrame ==
  ASSUME IInv, UNCHANGED <<file, new, opened, cache, served, answer>>
  PROVE  file' \in Files /\ NewOK' /\ CachesOK' /\ AnswersOK'
BY SameUnits, CachesSame, AnswersSame DEF IInv

\* A step of the one goroutine that fills a unit's index.
LEMMA IndexStep ==
  ASSUME IInv, NEW t \in Thread, NEW r, Moves(t, r), NEW cu \in Entry,
         UNCHANGED <<file, new, opened, cache, served, answer>>,
         th[t].cu = cu, r.cu = cu, CallRight(r),
         \A d \in Entry : subOnce[d] = t => d = cu,
         \A d \in Entry : d # cu => subOnce'[d] = subOnce[d] /\ subs'[d] = subs[d],
         subOnce[cu] \in {New, t}, subOnce'[cu] \in {Done, t},
         DOMAIN subOnce' = Entry, subs' \in [Entry -> [Addr -> Entry \cup {None}]],
         subOnce' = [d \in Entry |-> subOnce'[d]],
         NEW n, n = Len(file.entries) + 1,
         subOnce'[cu] = Done => IndexedTo(cu, n)' /\ r.at # "indexing",
         subOnce'[cu] = t =>
           /\ r.at = "indexing" /\ r.pos \in Children(cu)
           /\ file.stop \in Children(cu) => r.pos <= file.stop
           /\ \A p : p = r.pos => IndexedTo(cu, p)'
  PROVE  IInv'
<1> USE DEF IInv
<1>1. file' \in Files /\ NewOK' /\ CachesOK' /\ AnswersOK'
  BY IndexFrame
<1>2. DOMAIN th' = Thread /\ th'[t] = r /\ \A u \in Thread : u # t => th'[u] = th[u]
  BY DEF Moves
<1>3. \A d \in Entry : d # cu => \A p : IndexedTo(d, p)' = IndexedTo(d, p)
  <2>1. ASSUME NEW d \in Entry, d # cu, NEW p PROVE IndexedTo(d, p)' = IndexedTo(d, p)
    BY <2>1, SameFile DEF IndexedTo, Addr
  <2> QED
    BY <2>1
<1>4. t \notin {New, Done} /\ New # Done
  BY ConstantsAssumption
<1>5. subOnce' \in [Entry -> {New, Done} \cup Thread]
  <2>1. \A d \in Entry : subOnce'[d] \in {New, Done} \cup Thread
    BY DEF IndexesOK
  <2> QED
    BY <2>1
<1>6. ASSUME NEW d \in Entry
      PROVE  /\ subOnce'[d] = New => subs'[d] = NoMap
             /\ subOnce'[d] = Done => IndexedTo(d, n)'
             /\ \A u \in Thread : subOnce'[d] = u => th'[u].at = "indexing" /\ th'[u].cu = d
  <2>1. CASE d = cu
    BY <2>1, <1>2, <1>4, ConstantsAssumption
  <2>2. CASE d # cu
    <3>1. subOnce'[d] = subOnce[d] /\ subs'[d] = subs[d]
      BY <2>2
    <3>2. subOnce[d] # t
      BY <2>2
    <3>3. /\ subOnce[d] = New => subs[d] = NoMap
          /\ subOnce[d] = Done => IndexedTo(d, n)
          /\ \A u \in Thread : subOnce[d] = u => th[u].at = "indexing" /\ th[u].cu = d
      BY DEF IndexesOK, At
    <3> QED
      BY <1>2, <1>3, <2>2, <3>1, <3>2, <3>3
  <2> QED
    BY <2>1, <2>2
<1>7. IndexesOK'
  <2>1. Entry' = Entry /\ Addr' = Addr /\ NoMap' = NoMap /\ Len(file.entries)' + 1 = n
    BY SameFile DEF Addr, NoMap
  <2> QED
    BY <1>5, <1>6, <2>1 DEF IndexesOK, At
<1>8. \A q : CallRight(q) => CallRight(q)'
  BY SameFile, ZenonT(60) DEF CallRight, IsCall, Addr, Idle, InCall, NoMap
<1>9. \A c : Children(c)' = Children(c)
  BY SameFile
<1>10. ASSUME NEW u \in Thread PROVE CallOK(u)'
  <2>1. CASE u = t
    <3>1. th'[u] = r /\ CallRight(r)'
      BY <2>1, <1>2, <1>8
    <3>2. r.at = "indexing" => subOnce'[cu] = t
      OBVIOUS
    <3>3. PICK p : p = r.pos
      OBVIOUS
    <3>4. r.at = "indexing" => /\ subOnce'[r.cu] = u /\ r.pos \in Children(cu)'
                               /\ file'.stop \in Children(cu)' => r.pos <= file'.stop
                               /\ IndexedTo(cu, p)'
      BY <2>1, <3>2, <3>3, <1>9
    <3> QED
      BY <3>1, <3>3, <3>4 DEF CallOK, At, IndexingOK
  <2>2. CASE u # t
    <3>1. PICK q : q = th[u]
      OBVIOUS
    <3>2. th'[u] = q /\ CallRight(q)'
      BY <2>2, <3>1, <1>2, <1>8 DEF CallOK
    <3>3. ASSUME q.at = "indexing"
          PROVE  /\ subOnce'[q.cu] = u /\ q.pos \in Children(q.cu)'
                 /\ file'.stop \in Children(q.cu)' => q.pos <= file'.stop
                 /\ IndexedTo(q.cu, q.pos)'
      <4>1. /\ subOnce[q.cu] = u /\ q.pos \in Children(q.cu)
            /\ file.stop \in Children(q.cu) => q.pos <= file.stop
            /\ IndexedTo(q.cu, q.pos)
        BY <3>1, <3>3 DEF CallOK, At, IndexingOK
      <4>2. q.cu \in Entry
        BY <3>1, <3>3, CallFacts DEF At
      <4>3. q.cu # cu
        BY <4>1, <2>2, <1>4, ConstantsAssumption
      <4> QED
        BY <4>1, <4>2, <4>3, <1>3, <1>9
    <3> QED
      BY <3>1, <3>2, <3>3 DEF CallOK, At, IndexingOK
  <2> QED
    BY <2>1, <2>2
<1> QED
  BY <1>1, <1>2, <1>7, <1>10

\* The once is entered.
LEMMA IndexEnterInv ==
  ASSUME IInv, NEW t \in Thread, IndexEnter(t)
  PROVE  IInv'
<1> USE DEF IInv
<1>1. /\ At(t, "index") /\ ~ At(t, "idle") /\ subOnce[th[t].cu] = New
      /\ UNCHANGED <<file, new, opened, subs, cache, served, answer>>
  BY DEF IndexEnter, At, Internal, Stay
<1>2. PICK cu \in Entry : cu = th[t].cu
  BY <1>1, CallFacts
<1>3. /\ IsCall(th[t]) /\ CallRight(th[t]) /\ opened = "ok" /\ th[t].addr \in Addr
      /\ cu \in new.cus /\ new.ranges[th[t].addr] = cu
  BY <1>1, <1>2, CallFacts DEF CallRight, At
<1>4. PICK n : n = Len(file.entries) + 1
  OBVIOUS
<1>5. /\ subOnce \in [Entry -> {New, Done} \cup Thread] /\ subs[cu] = NoMap
      /\ subs \in [Entry -> [Addr -> Entry \cup {None}]]
      /\ \A d \in Entry : subOnce[d] # t
  BY <1>1, <1>2 DEF IndexesOK, At
<1>6. \A d \in Entry : IndexedTo(cu, d)' = IndexedTo(cu, d)
  BY <1>1, SameFile DEF IndexedTo, Addr
<1>7. IndexedTo(cu, n)' = IndexedTo(cu, n)
  BY <1>1, SameFile DEF IndexedTo, Addr
<1>8. CASE file.entries[cu].children
  <2> DEFINE r == [th[t] EXCEPT !.at = "indexing", !.pos = cu + 1]
  <2>1. subOnce' = [subOnce EXCEPT ![cu] = t] /\ Go(t, r)
    BY <1>2, <1>8 DEF IndexEnter, Stay
  <2>2. IsCall(r) /\ r.at = "indexing" /\ r.addr = th[t].addr /\ r.cu = cu /\ r.pos = cu + 1
    BY <1>2, <1>3 DEF IsCall, Idle, InCall
  <2>3. cu + 1 \in Children(cu) /\ cu + 1 \in Entry /\ \A e \in Children(cu) : e >= cu + 1
    BY <1>8, FirstChild DEF Children
  <2>4. IndexedTo(cu, cu + 1)
    <3>1. \A a : SubprogramsTo(cu, cu + 1, a) = {}
      <4>1. \A e \in Reached(Children(cu)) : e \in Nat /\ e >= cu + 1 /\ cu \in Nat
        BY <2>3, EntryFacts DEF Reached, Children
      <4>2. \A e \in Reached(Children(cu)) : ~ (e < cu + 1)
        BY <4>1
      <4> QED
        BY <4>2 DEF SubprogramsTo
    <3>2. \A a \in Addr : subs[cu][a] = None
      BY <1>5 DEF NoMap
    <3> QED
      BY <3>1, <3>2 DEF IndexedTo
  <2> HIDE DEF r
  <2>5. CallRight(r)
    BY <1>3, <2>2 DEF CallRight
  <2>6. Moves(t, r)
    BY <2>1, GoMoves
  <2>7. subOnce'[cu] = t /\ t # Done
    BY <1>5, <2>1, ConstantsAssumption
  <2>8. \A p : p = r.pos => IndexedTo(cu, p)'
    BY <1>6, <2>2, <2>3, <2>4
  <2>9. DOMAIN subOnce' = Entry /\ subOnce' = [d \in Entry |-> subOnce'[d]]
    BY <1>5, <2>1
  <2>10. /\ r.pos \in Children(cu)
         /\ file.stop \in Children(cu) => r.pos <= file.stop
    BY <2>2, <2>3, EntryFacts
  <2>11. /\ subs' \in [Entry -> [Addr -> Entry \cup {None}]]
         /\ \A d \in Entry : d # cu => subOnce'[d] = subOnce[d] /\ subs'[d] = subs[d]
    BY <1>1, <1>5, <2>1
  <2>12. subOnce[cu] \in {New, t} /\ \A d \in Entry : subOnce[d] = t => d = cu
    BY <1>1, <1>2, <1>5
  <2> QED
    BY <1>1, <1>2, <1>4, <2>2, <2>5, <2>6, <2>7, <2>8, <2>9, <2>10, <2>11, <2>12, IndexStep
<1>9. CASE ~ file.entries[cu].children
  <2>1. subOnce' = [subOnce EXCEPT ![cu] = Done] /\ UNCHANGED th
    BY <1>2, <1>9 DEF IndexEnter
  <2>2. PICK r : r = th[t]
    OBVIOUS
  <2>3. Moves(t, r) /\ CallRight(r) /\ r.cu = cu /\ r.at # "indexing"
    BY <1>1, <1>2, <1>3, <2>1, <2>2, StaysPut DEF At
  <2>4. IndexedTo(cu, n)
    <3>1. \A a : SubprogramsTo(cu, n, a) = {}
      BY <1>9, FirstChild DEF SubprogramsTo, Reached
    <3>2. \A a \in Addr : subs[cu][a] = None
      BY <1>5 DEF NoMap
    <3> QED
      BY <3>1, <3>2 DEF IndexedTo
  <2>5. subOnce'[cu] = Done /\ Done # t
    BY <1>5, <2>1, ConstantsAssumption
  <2>6. DOMAIN subOnce' = Entry /\ subOnce' = [d \in Entry |-> subOnce'[d]]
    BY <1>5, <2>1
  <2> QED
    BY <1>1, <1>2, <1>4, <1>5, <1>7, <2>1, <2>3, <2>4, <2>5, <2>6, IndexStep, ZenonT(60)
<1> QED
  BY <1>8, <1>9

\* One child is read.
LEMMA IndexNextInv ==
  ASSUME IInv, NEW t \in Thread, IndexNext(t)
  PROVE  IInv'
<1> USE DEF IInv
<1>1. /\ At(t, "indexing") /\ ~ At(t, "idle")
      /\ UNCHANGED <<file, new, opened, cache, served, answer>>
  BY DEF IndexNext, At, Internal, Stay
<1>2. PICK cu \in Entry : cu = th[t].cu
  BY <1>1, CallFacts
<1>3. /\ IsCall(th[t]) /\ CallRight(th[t]) /\ opened = "ok" /\ th[t].addr \in Addr
      /\ cu \in new.cus /\ new.ranges[th[t].addr] = cu /\ (file.siblings \/ file.stop = 0)
  BY <1>1, <1>2, CallFacts DEF CallRight, At
<1>4. PICK n : n = Len(file.entries) + 1
  OBVIOUS
<1>5. PICK e \in Children(cu) : e = th[t].pos
  BY <1>1, <1>2 DEF CallOK, IndexingOK
<1>6. /\ subOnce[cu] = t /\ (file.stop \in Children(cu) => e <= file.stop)
      /\ IndexedTo(cu, e)
  BY <1>1, <1>2, <1>5 DEF CallOK, IndexingOK
<1>7. /\ subOnce \in [Entry -> {New, Done} \cup Thread]
      /\ subs \in [Entry -> [Addr -> Entry \cup {None}]]
      /\ \A d \in Entry : subOnce[d] = t => d = cu
  BY <1>2 DEF IndexesOK
<1>8. /\ e \in Entry /\ cu < e /\ e < file.after[cu]
      /\ Tag(e) = "end" => e = file.after[cu] - 1
      /\ Tag(e) # "end" => /\ file.after[e] \in Children(cu)
                           /\ \A i \in Children(cu) : i < file.after[e] => i <= e
  BY NextChild
<1>9. /\ Len(file.entries) \in Nat /\ Entry = 1..Len(file.entries) /\ file.stop \in Nat
      /\ file.after[e] \in Nat /\ file.after[cu] \in Nat /\ e \in Nat
  BY <1>8, EntryFacts
<1>10. CASE Reads(e) /\ Tag(e) # "end"
  <2> DEFINE r == [th[t] EXCEPT !.pos = Skip(e)]
             found == Tag(e) = "subprogram"
  <2>1. /\ subs' = IF found THEN [subs EXCEPT ![cu] = AddRanges(subs[cu], e, e)] ELSE subs
        /\ Go(t, r) /\ UNCHANGED subOnce
    BY <1>2, <1>5, <1>10 DEF IndexNext, Stay
  <2>2. Skip(e) = file.after[e] /\ e # file.stop
    BY <1>3, <1>8, <1>10, SkipFacts DEF Reads
  <2>3. PICK p \in Children(cu) : p = Skip(e)
    BY <2>2, <1>8, <1>10
  <2>4. /\ p \in Entry /\ p \in Nat /\ e < p
        /\ \A i \in Children(cu) : i < p => i <= e
    <3>1. e < p
      BY <2>2, <2>3, <1>8, <1>10, EntryFacts
    <3> QED
      BY <3>1, <2>2, <2>3, <1>8, <1>9, <1>10 DEF Children
  <2>5. IsCall(r) /\ r.at = "indexing" /\ r.addr = th[t].addr /\ r.cu = cu /\ r.pos = p
    BY <1>1, <1>2, <1>3, <2>3 DEF IsCall, Idle, InCall, At
  <2>6. ASSUME NEW a
        PROVE  SubprogramsTo(cu, p, a) =
                 IF found /\ e \notin file.badRanges /\ Holds(e, a)
                 THEN SubprogramsTo(cu, e, a) \cup {e} ELSE SubprogramsTo(cu, e, a)
    <3>1. \A i \in Children(cu) : i \in Nat /\ (i < p <=> i < e \/ i = e)
      BY <2>4, <1>9 DEF Children
    <3>2. ~ (file.stop \in Children(cu) /\ file.stop <= e)
      BY <1>6, <1>9, <2>2
    <3>3. e \in Reached(Children(cu)) <=> e \notin file.badRanges
      BY <3>2 DEF Reached
    <3>4. e \in Subprograms <=> found
      BY <1>8 DEF Subprograms
    <3>5. Reached(Children(cu)) \subseteq Children(cu)
      BY DEF Reached
    <3> QED
      BY <3>1, <3>3, <3>4, <3>5, <1>9 DEF SubprogramsTo
  <2> HIDE DEF r, found
  <2>7. /\ subs' \in [Entry -> [Addr -> Entry \cup {None}]]
        /\ \A d \in Entry : d # cu => subs'[d] = subs[d]
        /\ \A a \in Addr : subs'[cu][a] =
             IF found /\ e \notin file.badRanges /\ Holds(e, a) THEN e ELSE subs[cu][a]
    <3>1. CASE found
      <4>1. AddRanges(subs[cu], e, e) \in [Addr -> Entry \cup {None}]
        BY <1>7, <1>8 DEF AddRanges
      <4>2. \A a \in Addr : AddRanges(subs[cu], e, e)[a] =
              IF e \notin file.badRanges /\ Holds(e, a) THEN e ELSE subs[cu][a]
        BY DEF AddRanges
      <4> QED
        BY <2>1, <3>1, <4>1, <4>2, <1>7
    <3>2. CASE ~ found
      BY <2>1, <3>2, <1>7
    <3> QED
      BY <3>1, <3>2
  <2>8. IndexedTo(cu, p)'
    <3>1. ASSUME NEW a \in Addr
          PROVE  IF SubprogramsTo(cu, p, a) = {} THEN subs'[cu][a] = None
                 ELSE subs'[cu][a] \in SubprogramsTo(cu, p, a)
      <4>1. IF SubprogramsTo(cu, e, a) = {} THEN subs[cu][a] = None
            ELSE subs[cu][a] \in SubprogramsTo(cu, e, a)
        BY <1>6 DEF IndexedTo
      <4> QED
        BY <4>1, <2>6, <2>7
    <3> QED
      BY <1>1, <3>1, SameFile DEF IndexedTo, Addr
  <2>9. CallRight(r)
    BY <1>3, <2>5 DEF CallRight
  <2>10. Moves(t, r)
    BY <2>1, GoMoves
  <2>11. file.stop \in Children(cu) => p <= file.stop
    BY <1>6, <1>9, <2>2, <2>4
  <2>12. /\ subOnce'[cu] = t /\ t # Done /\ DOMAIN subOnce' = Entry
         /\ subOnce' = [d \in Entry |-> subOnce'[d]]
    BY <1>6, <1>7, <2>1, ConstantsAssumption
  <2> QED
    BY <1>1, <1>2, <1>4, <1>6, <1>7, <2>1, <2>3, <2>5, <2>7, <2>8, <2>9, <2>10, <2>11, <2>12,
       IndexStep
<1>11. CASE ~ (Reads(e) /\ Tag(e) # "end")
  <2> DEFINE r == [th[t] EXCEPT !.at = "index"]
  <2>1. subOnce' = [subOnce EXCEPT ![cu] = Done] /\ Go(t, r) /\ UNCHANGED subs
    BY <1>2, <1>5, <1>11 DEF IndexNext, Stay
  <2>2. IsCall(r) /\ r.at = "index" /\ r.addr = th[t].addr /\ r.cu = cu
    BY <1>2, <1>3 DEF IsCall, Idle, InCall
  <2>3. \A a : SubprogramsTo(cu, n, a) = SubprogramsTo(cu, e, a)
    <3>1. \A i \in Children(cu) : i \in Nat /\ i < n /\ i < file.after[cu] /\ i \in Entry
      BY <1>4, <1>9 DEF Children, Encloses
    <3>2. CASE e = file.stop
      <4>1. \A i \in Reached(Children(cu)) : i \in Children(cu) /\ ~ (e <= i)
        BY <3>2 DEF Reached
      <4>2. ASSUME NEW i \in Reached(Children(cu)) PROVE i < n /\ i < e
        <5>1. i \in Nat /\ i < n /\ ~ (e <= i)
          BY <4>1, <3>1
        <5>2. e \in Nat
          BY <1>9
        <5> QED
          BY <5>1, <5>2
      <4> QED
        BY <4>2 DEF SubprogramsTo
    <3>3. CASE e = file.after[cu] - 1 /\ Tag(e) = "end"
      <4>1. \A i \in Reached(Children(cu)) : i \in Children(cu) /\ (i < e \/ i = e)
        BY <3>1, <3>3, <1>9 DEF Reached
      <4>2. e \notin Subprograms
        BY <3>3 DEF Subprograms
      <4> QED
        BY <4>1, <4>2, <3>1, <1>9 DEF SubprogramsTo
    <3> QED
      BY <1>8, <1>11, <3>2, <3>3 DEF Reads
  <2>4. IndexedTo(cu, n)'
    <3>1. IndexedTo(cu, n)
      BY <1>6, <2>3 DEF IndexedTo
    <3> QED
      BY <1>1, <2>1, <3>1, SameFile DEF IndexedTo, Addr
  <2> HIDE DEF r
  <2>5. CallRight(r)
    BY <1>3, <2>2 DEF CallRight
  <2>6. Moves(t, r)
    BY <2>1, GoMoves
  <2>7. /\ subOnce'[cu] = Done /\ Done # t /\ DOMAIN subOnce' = Entry
        /\ subOnce' = [d \in Entry |-> subOnce'[d]]
    BY <1>7, <2>1, ConstantsAssumption
  <2>8. /\ subs' \in [Entry -> [Addr -> Entry \cup {None}]]
        /\ \A d \in Entry : d # cu => subOnce'[d] = subOnce[d] /\ subs'[d] = subs[d]
    BY <1>7, <2>1
  <2>9. subOnce[cu] \in {New, t} /\ r.at # "indexing"
    BY <1>6, <2>2
  <2> QED
    BY <1>1, <1>2, <1>4, <1>7, <2>2, <2>4, <2>5, <2>6, <2>7, <2>8, <2>9, IndexStep
<1> QED
  BY <1>10, <1>11

-----------------------------------------------------------------------------
(* Maps of inline sites *)

\* A map is served that agrees with the cache, which may have it from now on.
LEMMA ServeStep ==
  ASSUME IInv, NEW s \in Entry, NEW c \in new.cus, s \in Children(c), NEW m,
         UNCHANGED <<file, new>>, served' = [served EXCEPT ![s] = @ \cup {m}],
         \A x \in Entry : x # s => cache'[x] = cache[x],
         DOMAIN cache' = Entry,
         IF file.lines[c] = "bad" THEN m = NoMap /\ cache'[s] = cache[s]
         ELSE cache'[s] = <<m>> /\ (cache[s] # <<>> => cache'[s] = cache[s])
  PROVE  CachesOK'
<1> USE DEF IInv
<1>1. /\ DOMAIN cache = Entry /\ DOMAIN served = Entry
      /\ \A x \in Entry : /\ cache[x] = <<>> \/ cache[x] = <<cache[x][1]>>
                          /\ \/ cache[x] = <<>> /\ served[x] = {}
                             \/ \E d \in new.cus : ServedFrom(d, x)
  BY DEF CachesOK
<1>2. /\ DOMAIN served' = Entry /\ served'[s] = served[s] \cup {m}
      /\ \A x \in Entry : x # s => served'[x] = served[x]
  BY <1>1
<1>3. \/ cache[s] = <<>> /\ served[s] = {}
      \/ ServedFrom(c, s)
  <2>1. ASSUME NEW d \in new.cus, ServedFrom(d, s) PROVE d = c
    BY <2>1, OneUnit DEF ServedFrom
  <2> QED
    BY <1>1, <2>1
<1>4. ServedFrom(c, s)'
  <2>1. s \in Children(c)'
    BY SameFile
  <2>2. CASE file.lines[c] = "bad"
    <3>1. cache[s] = <<>> /\ served[s] \subseteq {NoMap}
      BY <1>3, <2>2 DEF ServedFrom
    <3>2. m = NoMap /\ cache'[s] = <<>>
      BY <2>2, <3>1
    <3>3. NoMap' = NoMap
      BY DEF NoMap, Addr
    <3> QED
      BY <1>2, <2>1, <2>2, <3>1, <3>2, <3>3 DEF ServedFrom
  <2>3. CASE file.lines[c] # "bad"
    <3>1. cache'[s] = <<m>>
      BY <2>3
    <3>2. \A x \in served[s] : cache'[s] = <<x>>
      <4>1. CASE served[s] = {}
        BY <4>1
      <4>2. ASSUME ServedFrom(c, s), NEW x \in served[s] PROVE cache'[s] = <<x>>
        <5>1. cache[s] = <<x>>
          BY <2>3, <4>2 DEF ServedFrom
        <5> QED
          BY <2>3, <5>1
      <4> QED
        BY <1>3, <4>1, <4>2
    <3> QED
      BY <1>2, <2>1, <2>3, <3>1, <3>2 DEF ServedFrom
  <2> QED
    BY <2>2, <2>3
<1>5. ASSUME NEW x \in Entry
      PROVE  /\ cache'[x] = <<>> \/ cache'[x] = <<cache'[x][1]>>
             /\ \/ cache'[x] = <<>> /\ served'[x] = {}
                \/ \E d \in new.cus : ServedFrom(d, x)'
  <2>1. CASE x = s
    <3>1. cache'[s] = <<>> \/ cache'[s] = <<cache'[s][1]>>
      BY <1>1
    <3> QED
      BY <1>4, <2>1, <3>1
  <2>2. CASE x # s
    <3>1. cache'[x] = cache[x] /\ served'[x] = served[x]
      BY <1>2, <2>2
    <3>2. \A d : ServedFrom(d, x) => ServedFrom(d, x)'
      BY <3>1, SameFile DEF ServedFrom, NoMap, Addr
    <3> QED
      BY <1>1, <3>1, <3>2
  <2> QED
    BY <2>1, <2>2
<1> QED
  BY <1>2, <1>5, SameFile DEF CachesOK

\* A subprogram was found, in the call's unit.
LEMMA SubFacts ==
  ASSUME IInv, NEW t \in Thread, th[t].at \in {"cached", "inline table", "walk", "store"}
  PROVE  /\ opened = "ok" /\ IsCall(th[t]) /\ CallRight(th[t])
         /\ th[t].cu \in new.cus /\ th[t].sub \in Children(th[t].cu) /\ th[t].sub \in Entry
         /\ ~ At(t, "indexing")
<1>1. ~ At(t, "idle") /\ ~ At(t, "indexing")
  BY DEF At
<1>2. opened = "ok" /\ IsCall(th[t]) /\ CallRight(th[t]) /\ th[t].cu \in new.cus
  BY <1>1, CallFacts
<1>3. th[t].sub \in Children(th[t].cu)
  BY <1>2 DEF CallRight
<1> QED
  BY <1>1, <1>2, <1>3 DEF Children

\* The step that serves it ends the call.
LEMMA ServeReturns ==
  ASSUME IInv, NEW t \in Thread, NEW m, Serve(t, m), CachesOK',
         th[t].at \in {"cached", "inline table", "walk", "store"},
         UNCHANGED <<file, new, opened, subOnce, subs>>
  PROVE  IInv'
<1>1. PICK val : val = m[th[t].addr]
  OBVIOUS
<1>2. Return(t, "site", val)
  BY <1>1 DEF Serve
<1>3. opened = "ok" /\ ~ At(t, "indexing")
  BY SubFacts
<1> QED
  BY <1>2, <1>3, Returns

\* A call stays with its unit and subprogram.
LEMMA StaysWith ==
  ASSUME IInv, NEW t \in Thread, NEW r, Stay(t, r),
         th[t].at \in {"cached", "inline table", "walk", "store"},
         UNCHANGED <<file, new, opened, subOnce, subs, cache, served>>,
         IsCall(r), r.addr = th[t].addr, r.cu = th[t].cu, r.sub = th[t].sub,
         r.at \in {"inline table", "walk", "store"},
         r.at # "inline table" => file.lines[r.cu] # "bad"
  PROVE  IInv'
<1>1. CallRight(r)
  <2>1. CallRight(th[t]) /\ th[t].at # "idle"
    BY SubFacts
  <2> QED
    BY <2>1 DEF CallRight
<1>2. Go(t, r) /\ UNCHANGED answer /\ ~ At(t, "indexing")
  BY SubFacts DEF Stay
<1> QED
  BY <1>1, <1>2, GoMoves, GoesOn

LEMMA CacheLoadInv ==
  ASSUME IInv, NEW t \in Thread, CacheLoad(t)
  PROVE  IInv'
<1> DEFINE r == [th[t] EXCEPT !.at = "inline table"]
<1>1. /\ th[t].at = "cached"
      /\ UNCHANGED <<file, new, opened, subOnce, subs, cache>>
      /\ IF cache[th[t].sub] # <<>> THEN Serve(t, cache[th[t].sub][1])
         ELSE Stay(t, r) /\ UNCHANGED served
  BY DEF CacheLoad, At, Internal
<1>2. PICK c \in new.cus : c = th[t].cu
  BY <1>1, SubFacts
<1>3. PICK s \in Entry : s = th[t].sub
  BY <1>1, SubFacts
<1>4. s \in Children(c) /\ IsCall(th[t])
  BY <1>1, <1>2, <1>3, SubFacts
<1>5. CASE cache[s] # <<>>
  <2>1. PICK m : m = cache[s][1]
    OBVIOUS
  <2>2. Serve(t, m) /\ served' = [served EXCEPT ![s] = @ \cup {m}]
    BY <1>1, <1>3, <1>5, <2>1 DEF Serve
  <2>3. cache[s] = <<m>> /\ DOMAIN cache = Entry
    BY <1>5, <2>1 DEF IInv, CachesOK
  <2>4. file.lines[c] # "bad"
    <3>1. PICK d \in new.cus : ServedFrom(d, s)
      BY <1>5 DEF IInv, CachesOK
    <3>2. d = c
      BY <1>4, <3>1, OneUnit DEF ServedFrom, IInv
    <3> QED
      BY <1>5, <3>1, <3>2 DEF ServedFrom
  <2>5. CachesOK'
    BY <1>1, <1>4, <2>2, <2>3, <2>4, ServeStep
  <2> QED
    BY <1>1, <2>2, <2>5, ServeReturns
<1>6. CASE cache[s] = <<>>
  <2>1. Stay(t, r) /\ UNCHANGED served
    BY <1>1, <1>3, <1>6
  <2>2. /\ IsCall(r) /\ r.at = "inline table" /\ r.addr = th[t].addr /\ r.cu = th[t].cu
        /\ r.sub = th[t].sub
    BY <1>4 DEF IsCall, Idle, InCall
  <2> HIDE DEF r
  <2> QED
    BY <1>1, <2>1, <2>2, StaysWith
<1> QED
  BY <1>5, <1>6

LEMMA InlineStartInv ==
  ASSUME IInv, NEW t \in Thread, InlineStart(t)
  PROVE  IInv'
<1> DEFINE r == [th[t] EXCEPT !.at = "walk", !.pos = th[t].sub]
<1>1. /\ th[t].at = "inline table"
      /\ UNCHANGED <<file, new, opened, subOnce, subs, cache>>
      /\ IF file.lines[th[t].cu] = "bad" THEN Serve(t, NoMap)
         ELSE Stay(t, r) /\ UNCHANGED served
  BY DEF InlineStart, At, Internal
<1>2. PICK c \in new.cus : c = th[t].cu
  BY <1>1, SubFacts
<1>3. PICK s \in Entry : s = th[t].sub
  BY <1>1, SubFacts
<1>4. s \in Children(c) /\ IsCall(th[t])
  BY <1>1, <1>2, <1>3, SubFacts
<1>5. CASE file.lines[c] = "bad"
  <2>1. PICK m : m = NoMap
    OBVIOUS
  <2>2. Serve(t, m) /\ served' = [served EXCEPT ![s] = @ \cup {m}]
    BY <1>1, <1>2, <1>3, <1>5, <2>1 DEF Serve
  <2>3. DOMAIN cache = Entry
    BY DEF IInv, CachesOK
  <2>4. CachesOK'
    BY <1>1, <1>4, <1>5, <2>1, <2>2, <2>3, ServeStep
  <2> QED
    BY <1>1, <2>2, <2>4, ServeReturns
<1>6. CASE file.lines[c] # "bad"
  <2>1. Stay(t, r) /\ UNCHANGED served
    BY <1>1, <1>2, <1>6
  <2>2. /\ IsCall(r) /\ r.at = "walk" /\ r.addr = th[t].addr /\ r.cu = th[t].cu
        /\ r.sub = th[t].sub
    BY <1>4 DEF IsCall, Idle, InCall
  <2> HIDE DEF r
  <2> QED
    BY <1>1, <1>2, <1>6, <2>1, <2>2, StaysWith
<1> QED
  BY <1>5, <1>6

\* Whatever entry it meets, the walk stays with its call.
LEMMA WalkKeeps ==
  ASSUME NEW t, NEW r, IsCall(r), r.at \in {"walk", "store"}
  PROVE  LET q == WalkEntry(t, r)
             p == Popped(r)
         IN /\ IsCall(q) /\ q.addr = r.addr /\ q.cu = r.cu /\ q.sub = r.sub
            /\ q.at \in {"walk", "store"}
            /\ IsCall(p) /\ p.addr = r.addr /\ p.cu = r.cu /\ p.sub = r.sub
            /\ p.at \in {"walk", "store"}
<1> DEFINE q == WalkEntry(t, r)
           p == Popped(r)
           Same(x) == /\ IsCall(x) /\ x.addr = r.addr /\ x.cu = r.cu /\ x.sub = r.sub
                      /\ x.at \in {"walk", "store"}
<1>1. Same(p)
  <2>1. p = r \/ \E x, y : p = [r EXCEPT !.stack = x, !.outer = y]
    BY DEF Popped
  <2> HIDE DEF p
  <2>2. ASSUME NEW x, NEW y, p = [r EXCEPT !.stack = x, !.outer = y] PROVE Same(p)
    BY <2>2 DEF IsCall, Idle, InCall
  <2>3. ASSUME p = r PROVE Same(p)
    BY <2>3
  <2> QED
    BY <2>1, <2>2, <2>3
<1>2. Same(q)
  <2> DEFINE next == [r EXCEPT !.pos = r.pos + 1]
  <2>1. \/ \E x, y, z : q = [next EXCEPT !.stack = x, !.outer = y, !.m = z]
        \/ \E x : q = [r EXCEPT !.pos = x]
        \/ \E x, y : q = [next EXCEPT !.stack = x, !.at = y] /\ y \in {next.at, "store"}
    BY DEF WalkEntry
  <2>2. Same(next)
    BY DEF IsCall, Idle, InCall
  <2> HIDE DEF q, next
  <2>3. ASSUME NEW x, NEW y, NEW z, q = [next EXCEPT !.stack = x, !.outer = y, !.m = z]
        PROVE  Same(q)
    BY <2>2, <2>3 DEF IsCall, Idle, InCall
  <2>4. ASSUME NEW x, q = [r EXCEPT !.pos = x] PROVE Same(q)
    BY <2>4 DEF IsCall, Idle, InCall
  <2>5. ASSUME NEW x, NEW y \in {next.at, "store"}, q = [next EXCEPT !.stack = x, !.at = y]
        PROVE  Same(q)
    BY <2>2, <2>5 DEF IsCall, Idle, InCall
  <2> QED
    BY <2>1, <2>3, <2>4, <2>5
<1> QED
  BY <1>1, <1>2

LEMMA InlineNextInv ==
  ASSUME IInv, NEW t \in Thread, InlineNext(t)
  PROVE  IInv'
<1> DEFINE r == IF ~ Reads(th[t].pos) THEN [th[t] EXCEPT !.at = "store"]
                ELSE WalkEntry(t, IF Tag(th[t].pos) = "end" THEN Popped(th[t]) ELSE th[t])
<1>1. /\ th[t].at = "walk" /\ Stay(t, r)
      /\ UNCHANGED <<file, new, opened, subOnce, subs, cache, served>>
  BY DEF InlineNext, At, Internal
<1>2. IsCall(th[t]) /\ file.lines[th[t].cu] # "bad"
  BY <1>1, SubFacts DEF CallRight
<1>3. /\ IsCall(r) /\ r.addr = th[t].addr /\ r.cu = th[t].cu /\ r.sub = th[t].sub
      /\ r.at \in {"walk", "store"}
  <2>1. CASE ~ Reads(th[t].pos)
    <3>1. r = [th[t] EXCEPT !.at = "store"]
      BY <2>1
    <3> HIDE DEF r
    <3> QED
      BY <1>2, <3>1 DEF IsCall, Idle, InCall
  <2>2. CASE Reads(th[t].pos)
    <3> DEFINE p == IF Tag(th[t].pos) = "end" THEN Popped(th[t]) ELSE th[t]
    <3>1. /\ IsCall(p) /\ p.addr = th[t].addr /\ p.cu = th[t].cu /\ p.sub = th[t].sub
          /\ p.at \in {"walk", "store"}
      BY <1>1, <1>2, WalkKeeps
    <3>2. r = WalkEntry(t, p)
      BY <2>2
    <3> HIDE DEF p, r
    <3> QED
      BY <3>1, <3>2, WalkKeeps
  <2> QED
    BY <2>1, <2>2
<1> HIDE DEF r
<1> QED
  BY <1>1, <1>2, <1>3, StaysWith

LEMMA CacheStoreInv ==
  ASSUME IInv, NEW t \in Thread, CacheStore(t)
  PROVE  IInv'
<1>1. th[t].at = "store" /\ UNCHANGED <<file, new, opened, subOnce, subs>>
  BY DEF CacheStore, At, Internal
<1>2. PICK c \in new.cus : c = th[t].cu
  BY <1>1, SubFacts
<1>3. PICK s \in Entry : s = th[t].sub
  BY <1>1, SubFacts
<1>4. s \in Children(c) /\ file.lines[c] # "bad"
  BY <1>1, <1>2, <1>3, SubFacts DEF CallRight
<1>5. /\ DOMAIN cache = Entry
      /\ cache[s] = <<>> \/ cache[s] = <<cache[s][1]>>
  BY DEF IInv, CachesOK
<1>6. /\ cache' = IF cache[s] = <<>> THEN [cache EXCEPT ![s] = <<th[t].m>>] ELSE cache
      /\ Serve(t, cache'[s][1])
  BY <1>3 DEF CacheStore
<1>7. PICK m : m = cache'[s][1]
  OBVIOUS
<1>8. /\ cache'[s] = <<m>> /\ (cache[s] # <<>> => cache'[s] = cache[s])
      /\ DOMAIN cache' = Entry /\ \A x \in Entry : x # s => cache'[x] = cache[x]
  <2>1. CASE cache[s] = <<>>
    <3>1. cache'[s] = <<th[t].m>>
      BY <1>5, <1>6, <2>1
    <3>2. m = th[t].m
      BY <1>7, <3>1
    <3> QED
      BY <1>5, <1>6, <2>1, <3>1, <3>2
  <2>2. CASE cache[s] # <<>>
    BY <1>5, <1>6, <1>7, <2>2
  <2> QED
    BY <2>1, <2>2
<1>9. Serve(t, m) /\ served' = [served EXCEPT ![s] = @ \cup {m}]
  BY <1>3, <1>6, <1>7 DEF Serve
<1>10. CachesOK'
  BY <1>1, <1>4, <1>8, <1>9, ServeStep
<1> QED
  BY <1>1, <1>9, <1>10, ServeReturns

-----------------------------------------------------------------------------
(* The invariant, and what follows from it *)

LEMMA InitInv ==
  ASSUME Init
  PROVE  IInv
<1>1. file \in Files
  BY DEF Init
<1>2. Len(file.entries) \in Nat /\ Entry = 1..Len(file.entries)
  BY <1>1, EntryFacts
<1>3. /\ new.pos = 1 /\ new.cus = {} /\ new.ranges = NoMap /\ opened = "no"
      /\ new = [pos |-> new.pos, ranges |-> new.ranges, cus |-> new.cus]
  BY DEF Init, NewStart
<1>4. NewOK
  BY <1>2, <1>3 DEF NewOK, NoMap, UnitsAt
<1>5. /\ subOnce \in [Entry -> {New, Done} \cup Thread]
      /\ subs \in [Entry -> [Addr -> Entry \cup {None}]]
      /\ \A cu \in Entry : subOnce[cu] = New /\ subs[cu] = NoMap
  BY DEF Init, NoMap
<1>6. IndexesOK
  BY <1>5, ConstantsAssumption DEF IndexesOK
<1>7. CachesOK
  BY DEF Init, CachesOK
<1>8. \A t \in Thread : answer[t].kind = "none" /\ DOMAIN answer = Thread
  BY DEF Init, Answer
<1>9. DOMAIN answer = Thread
  BY DEF Init
<1>10. AnswersOK
  BY <1>8, <1>9 DEF AnswersOK, IndexRight
<1>11. DOMAIN th = Thread /\ \A t \in Thread : th[t] = Idle
  BY DEF Init
<1>12. IsCall(Idle) /\ Idle.at = "idle"
  BY DEF IsCall, Idle, InCall
<1>13. ASSUME NEW t \in Thread PROVE CallOK(t)
  <2>1. CallRight(Idle)
    BY <1>12 DEF CallRight
  <2> QED
    BY <1>11, <1>12, <2>1 DEF CallOK, At
<1> QED
  BY <1>1, <1>4, <1>6, <1>7, <1>10, <1>11, <1>13 DEF IInv

LEMMA StutterInv ==
  ASSUME IInv, UNCHANGED vars
  PROVE  IInv'
<1>1. UNCHANGED <<file, new, opened, subOnce, subs, cache, th, answer, served>>
  BY DEF vars
<1>2. NewOK' /\ CachesOK' /\ AnswersOK'
  BY <1>1, IndexFrame
<1>3. \A cu, p : IndexedTo(cu, p)' = IndexedTo(cu, p)
  BY <1>1, SameFile DEF IndexedTo, Addr
<1>4. IndexesOK'
  BY <1>1, <1>3, SameFile DEF IndexesOK, At, Addr, NoMap, IInv
<1>5. \A q : CallRight(q) => CallRight(q)'
  BY <1>1, SameFile DEF CallRight, IsCall, Addr, Idle, InCall, NoMap
<1>6. ASSUME NEW t \in Thread PROVE CallOK(t)'
  <2>1. PICK q : q = th[t]
    OBVIOUS
  <2>2. th'[t] = q /\ CallRight(q)'
    BY <1>1, <1>5, <2>1 DEF CallOK, IInv
  <2>3. IndexingOK(t) => IndexingOK(t)'
    BY <1>1, <1>3, <2>1, SameFile DEF IndexingOK
  <2> QED
    BY <2>1, <2>2, <2>3 DEF CallOK, At, IInv
<1> QED
  BY <1>1, <1>2, <1>4, <1>6 DEF IInv

LEMMA StepInv ==
  ASSUME IInv, [Next]_vars
  PROVE  IInv'
<1>1. CASE CuRanges
  BY <1>1, CuRangesInv
<1>2. ASSUME NEW t \in Thread, NEW op \in Ops, NEW a \in Asked, Call(t, op, a) PROVE IInv'
  BY <1>2, CallInv
<1>3. ASSUME NEW t \in Thread, Step(t) PROVE IInv'
  BY <1>3, TableEnterInv, TableFillInv, SeekTableInv, IndexEnterInv, IndexNextInv, IndexReadyInv,
     CacheLoadInv, InlineStartInv, InlineNextInv, CacheStoreInv DEF Step
<1>4. CASE UNCHANGED vars
  BY <1>4, StutterInv
<1> QED
  BY <1>1, <1>2, <1>3, <1>4 DEF Next

\* At every step of any calls the walk of New, each unit's index, each call and
\* the cache of inline maps are as IInv says (ranges.go:42-117, inline.go:37-109).
THEOREM Invariance == Spec => []IInv
<1>1. Init => IInv
  BY InitInv
<1>2. IInv /\ [Next]_vars => IInv'
  BY StepInv
<1> QED
  BY <1>1, <1>2, PTL DEF Spec

LEMMA InvSameSites ==
  ASSUME IInv
  PROVE  SameSites
<1>1. ASSUME NEW s \in Entry, NEW m \in served[s], NEW n \in served[s] PROVE m = n
  <2>1. PICK c \in new.cus : ServedFrom(c, s)
    BY DEF IInv, CachesOK
  <2>2. CASE file.lines[c] = "bad"
    BY <2>1, <2>2 DEF ServedFrom
  <2>3. CASE file.lines[c] # "bad"
    <3>1. cache[s] = <<m>> /\ cache[s] = <<n>>
      BY <2>1, <2>3 DEF ServedFrom
    <3>2. m = cache[s][1] /\ n = cache[s][1]
      BY <3>1
    <3> QED
      BY <3>2
  <2> QED
    BY <2>2, <2>3
<1> QED
  BY <1>1 DEF SameSites

\* However many goroutines ask for the inline sites of a subprogram at once, they
\* get one map, whoever builds it first (inline.go:37-41, :105-109).
THEOREM AlwaysSameSites == Spec => []SameSites
<1>1. IInv => SameSites
  BY InvSameSites
<1> QED
  BY <1>1, Invariance, PTL

\* Where units do not overlap, every answer names the unit and subprogram that
\* hold the address, or none if none does, though the index is filled by another
\* goroutine and some entries do not decode (ranges.go:70-117).
THEOREM AlwaysIndexRight == Spec => [](Apart => IndexRight)
<1>1. IInv => (Apart => IndexRight)
  BY DEF IInv, AnswersOK
<1> QED
  BY <1>1, Invariance, PTL

-----------------------------------------------------------------------------
(* Bodies of subprograms *)

\* A set of entries has a last one.
LEMMA LastEntry ==
  ASSUME file \in Files, NEW T \in SUBSET Entry, T # {}
  PROVE  Max(T) \in T /\ \A y \in T : y <= Max(T)
<1> DEFINE L == Len(file.entries)
           D == {L - x : x \in T}
<1>1. L \in Nat /\ Entry = 1..L
  BY EntryFacts
<1>2. D \in SUBSET Nat /\ D # {}
  BY <1>1
<1>3. \E x \in T : \A y \in T : y <= x
  <2> DEFINE R == {p \in Nat \X Nat : p[1] < p[2]}
  <2>1. IsWellFoundedOn(R, Nat)
    BY NatLessThanWellFounded DEF OpToRel
  <2> HIDE DEF D
  <2>2. PICK d \in D : \A y \in D : ~ (<<y, d>> \in R)
    BY <1>2, <2>1, WFMin
  <2>3. PICK x \in T : d = L - x
    BY DEF D
  <2>4. ASSUME NEW y \in T PROVE y <= x
    <3>1. L - y \in D /\ L - y \in Nat /\ d \in Nat /\ x \in Nat /\ y \in Nat
      BY <1>1, <1>2 DEF D
    <3>2. ~ (L - y < d)
      BY <2>2, <3>1
    <3> QED
      BY <1>1, <2>3, <3>1, <3>2
  <2> QED
    BY <2>4
<1>4. PICK x \in T : \A y \in T : x >= y
  BY <1>1, <1>3
<1>5. Max(T) \in T /\ \A y \in T : Max(T) >= y
  BY <1>4 DEF Max
<1>6. \A y, z \in T : z >= y => y <= z
  BY <1>1
<1> QED
  BY <1>5, <1>6

\* It is the one after all others.
LEMMA LastIs ==
  ASSUME file \in Files, NEW T \in SUBSET Entry, NEW x \in T, \A y \in T : y <= x
  PROVE  Max(T) = x
<1>1. PICK m \in T : m = Max(T) /\ x <= m /\ m <= x
  BY LastEntry
<1>2. m \in Nat /\ x \in Nat
  BY EntryFacts
<1> QED
  BY <1>1, <1>2

\* What an entry encloses ends before it does.
LEMMA EncloseFacts ==
  ASSUME file \in Files, NEW d \in Entry, NEW e \in Entry, Encloses(file.after, d, e)
  PROVE  /\ file.entries[d].children /\ d < e /\ e < file.after[d] /\ Tag(d) # "end"
         /\ file.after[d] \in Nat /\ file.after[e] \in Nat /\ e + 1 <= file.after[e]
         /\ e < file.after[d] - 1 => file.after[e] < file.after[d]
         /\ e = file.after[d] - 1 => Tag(e) = "end"
         /\ file.after[e] <= file.after[d]
<1>1. /\ Len(file.entries) \in Nat /\ Entry = 1..Len(file.entries)
      /\ file.after[d] \in 2..Len(file.entries) + 1 /\ file.after[e] \in 2..Len(file.entries) + 1
      /\ IF file.entries[d].children
         THEN file.after[d] > d + 1 /\ Tag(d) # "end" /\ Tag(file.after[d] - 1) = "end"
         ELSE file.after[d] = d + 1
      /\ IF file.entries[e].children THEN file.after[e] > e + 1 /\ Tag(e) # "end"
         ELSE file.after[e] = e + 1
      /\ \A i \in d + 1..file.after[d] - 2 : file.after[i] < file.after[d]
  BY EntryFacts
<1>2. d < e /\ e < file.after[d]
  BY DEF Encloses
<1>3. file.entries[d].children /\ Tag(d) # "end" /\ Tag(file.after[d] - 1) = "end"
  BY <1>1, <1>2
<1>4. e < file.after[d] - 1 => file.after[e] < file.after[d]
  BY <1>1, <1>2
<1>5. ASSUME e = file.after[d] - 1 PROVE Tag(e) = "end" /\ file.after[e] = e + 1
  <2>1. PICK x : x = file.after[d] - 1
    OBVIOUS
  <2>2. x = e /\ Tag(x) = "end"
    BY <1>3, <1>5, <2>1
  <2> QED
    BY <1>1, <2>2
<1>6. e + 1 <= file.after[e]
  BY <1>1
<1>7. file.after[e] <= file.after[d]
  <2>1. CASE e < file.after[d] - 1
    BY <1>1, <1>4, <2>1, SMTT(60)
  <2>2. CASE e = file.after[d] - 1
    <3>1. file.after[e] = e + 1
      BY <1>5, <2>2
    <3> QED
      BY <1>1, <2>2, <3>1
  <2> QED
    BY <1>1, <1>2, <2>1, <2>2
<1> QED
  BY <1>1, <1>2, <1>3, <1>4, <1>5, <1>6, <1>7, SMTT(60)

\* What it encloses, so does what encloses it.
LEMMA EncloseTwice ==
  ASSUME file \in Files, NEW n \in Entry, NEW d \in Entry, NEW e \in Entry,
         Encloses(file.after, n, d), Encloses(file.after, d, e)
  PROVE  Encloses(file.after, n, e)
<1>1. n < d /\ file.after[d] <= file.after[n] /\ d < e /\ e < file.after[d]
      /\ file.after[d] \in Nat /\ file.after[n] \in Nat
  BY EncloseFacts
<1>2. n \in Nat /\ d \in Nat /\ e \in Nat
  BY EntryFacts
<1> QED
  BY <1>1, <1>2 DEF Encloses

\* Into an entry that has children.
LEMMA BodyInto ==
  ASSUME file \in Files, NEW s \in Subprograms, NEW p \in Body(s), file.entries[p].children,
         p = s \/ Tag(p) # "subprogram"
  PROVE  /\ p + 1 \in Body(s) \ {s}
         /\ Open(s, p + 1) = Open(s, p) \cup {p} /\ p \notin Open(s, p)
<1> DEFINE enc(d, e) == Encloses(file.after, d, e)
           z == p + 1
<1>1. /\ Entry \subseteq Nat /\ Subprograms \subseteq Entry /\ Body(s) \subseteq Entry
      /\ Entry = 1..Len(file.entries) /\ Len(file.entries) \in Nat
  BY EntryFacts DEF Subprograms, Body
<1>2. /\ s \in Entry /\ p \in Entry /\ s \in Nat /\ p \in Nat
      /\ p = s \/ enc(s, p)
      /\ \A n \in Subprograms : n > s => ~ enc(n, p)
  BY <1>1 DEF Body
<1>3. /\ file.after[p] \in 2..Len(file.entries) + 1 /\ file.after[p] > p + 1 /\ Tag(p) # "end"
  BY <1>2, EntryFacts
<1>4. z \in Entry /\ enc(p, z) /\ z \in Nat
  BY <1>1, <1>2, <1>3 DEF Encloses
<1>5. enc(s, z)
  BY <1>2, <1>4, EncloseTwice
<1>6. ASSUME NEW n \in Entry PROVE enc(n, z) <=> n = p \/ enc(n, p)
  <2>1. ASSUME enc(n, z), n # p PROVE enc(n, p)
    <3>1. n \in Nat /\ n < z /\ z < file.after[n] /\ file.after[n] \in Nat
      BY <1>1, <1>4, <2>1, EncloseFacts
    <3>2. n < p /\ p < file.after[n]
      BY <1>2, <2>1, <3>1
    <3> QED
      BY <3>2 DEF Encloses
  <2>2. ASSUME enc(n, p) PROVE enc(n, z)
    BY <1>2, <1>4, <2>2, EncloseTwice
  <2> QED
    BY <1>4, <2>1, <2>2
<1>7. ASSUME NEW n \in Subprograms, n > s PROVE ~ enc(n, z)
  <2>1. n # p
    BY <1>1, <1>2, <1>7 DEF Subprograms
  <2> QED
    BY <1>1, <1>2, <1>6, <1>7, <2>1
<1>8. z \in Body(s) \ {s}
  <2>1. z # s
    BY <1>2, <1>5 DEF Encloses
  <2> QED
    BY <1>4, <1>5, <1>7, <2>1 DEF Body
<1>9. \A d \in Body(s) : enc(d, z) <=> d = p \/ enc(d, p)
  BY <1>1, <1>6
<1>10. ~ enc(p, p)
  BY <1>2 DEF Encloses
<1> HIDE DEF z
<1>11. Open(s, z) = Open(s, p) \cup {p} /\ p \notin Open(s, p)
  BY <1>9, <1>10 DEF Open
<1> QED
  BY <1>8, <1>11 DEF z

\* Behind an entry and all it encloses.
LEMMA BodyBehind ==
  ASSUME file \in Files, NEW s \in Subprograms, NEW p \in Body(s) \ {s}, Tag(p) # "end"
  PROVE  LET z == file.after[p]
         IN /\ z \in Body(s) \ {s} /\ p < z /\ Open(s, z) = Open(s, p)
            /\ Tag(p) = "subprogram" \/ ~ file.entries[p].children =>
                 \A e \in Body(s) : e < z <=> e <= p
<1> DEFINE enc(d, e) == Encloses(file.after, d, e)
           z == file.after[p]
<1>1. /\ Entry \subseteq Nat /\ Subprograms \subseteq Entry /\ Body(s) \subseteq Entry
      /\ Entry = 1..Len(file.entries) /\ Len(file.entries) \in Nat
  BY EntryFacts DEF Subprograms, Body
<1>2. /\ s \in Entry /\ p \in Entry /\ s \in Nat /\ p \in Nat /\ s < p
      /\ enc(s, p)
      /\ \A n \in Subprograms : n > s => ~ enc(n, p)
  BY <1>1 DEF Body, Encloses
<1>3. /\ p + 1 <= z /\ z \in Nat
      /\ file.after[s] \in 2..Len(file.entries) + 1 /\ p < file.after[s]
      /\ p < file.after[s] - 1 => z < file.after[s]
      /\ p = file.after[s] - 1 => Tag(p) = "end"
  <2>1. file.after[s] \in 2..Len(file.entries) + 1
    BY <1>2, EntryFacts
  <2> QED
    BY <1>2, <2>1, EncloseFacts
<1>4. z < file.after[s] /\ z \in Entry /\ p < z /\ enc(s, z)
  <2>1. p < file.after[s] - 1
    BY <1>2, <1>3
  <2> QED
    BY <1>1, <1>2, <1>3, <2>1, SMTT(60) DEF Encloses
<1>5. ASSUME NEW n \in Entry PROVE enc(n, z) <=> enc(n, p)
  <2>1. ASSUME enc(n, z) PROVE enc(n, p)
    <3>1. n \in Nat /\ n < z /\ z < file.after[n] /\ file.after[n] \in Nat
      BY <1>1, <1>4, <2>1, EncloseFacts
    <3>2. CASE n < p
      BY <1>2, <1>3, <3>1, <3>2 DEF Encloses
    <3>3. CASE n = p
      BY <1>3, <3>1, <3>3
    <3>4. CASE p < n
      <4>1. enc(p, n)
        BY <3>1, <3>4 DEF Encloses
      <4>2. file.after[n] <= z
        BY <1>2, <4>1, EncloseFacts
      <4> QED
        BY <1>3, <3>1, <4>2
    <3> QED
      BY <1>2, <3>1, <3>2, <3>3, <3>4
  <2>2. ASSUME enc(n, p) PROVE enc(n, z)
    <3>1. /\ n \in Nat /\ n < p /\ p < file.after[n] /\ file.after[n] \in Nat
          /\ p < file.after[n] - 1 => z < file.after[n]
          /\ p = file.after[n] - 1 => Tag(p) = "end"
      BY <1>1, <1>2, <2>2, EncloseFacts
    <3>2. p < file.after[n] - 1
      BY <1>2, <3>1
    <3> QED
      BY <1>2, <1>3, <3>1, <3>2 DEF Encloses
  <2> QED
    BY <2>1, <2>2
<1>6. z \in Body(s) \ {s}
  <2>1. \A n \in Subprograms : n > s => ~ enc(n, z)
    BY <1>1, <1>2, <1>5
  <2>2. z # s
    BY <1>2, <1>3
  <2> QED
    BY <1>4, <2>1, <2>2 DEF Body
<1>7. Open(s, z) = Open(s, p)
  <2> HIDE DEF z
  <2> QED
    BY <1>1, <1>5 DEF Open
<1>8. ASSUME Tag(p) = "subprogram" \/ ~ file.entries[p].children, NEW e \in Body(s), p < e, e < z
      PROVE  FALSE
  <2>1. e \in Entry /\ enc(p, e)
    BY <1>1, <1>8 DEF Encloses
  <2>2. file.entries[p].children
    BY <1>2, <2>1, EncloseFacts
  <2>3. p \in Subprograms /\ p > s
    BY <1>2, <1>8, <2>2 DEF Subprograms
  <2> QED
    BY <2>1, <2>3 DEF Body
<1>9. Tag(p) = "subprogram" \/ ~ file.entries[p].children => \A e \in Body(s) : e < z <=> e <= p
  <2>1. ASSUME Tag(p) = "subprogram" \/ ~ file.entries[p].children, NEW e \in Body(s)
        PROVE  e < z <=> e <= p
    <3>1. e \in Nat /\ ~ (p < e /\ e < z)
      BY <1>1, <1>8, <2>1
    <3> QED
      BY <1>2, <1>3, <3>1
  <2> QED
    BY <2>1
<1> HIDE DEF z
<1> QED
  BY <1>4, <1>6, <1>7, <1>9 DEF z

\* Out of an entry, at its end: it is the last one open.
LEMMA BodyOut ==
  ASSUME file \in Files, NEW s \in Subprograms, NEW p \in Body(s) \ {s}, Tag(p) = "end"
  PROVE  \E o \in Open(s, p) :
           /\ \A d \in Open(s, p) : d <= o
           /\ Open(s, o) = Open(s, p) \ {o} /\ file.after[o] = p + 1
           /\ o # s => p + 1 \in Body(s) \ {s} /\ Open(s, p + 1) = Open(s, p) \ {o}
<1> DEFINE enc(d, e) == Encloses(file.after, d, e)
           z == p + 1
<1>1. /\ Entry \subseteq Nat /\ Subprograms \subseteq Entry /\ Body(s) \subseteq Entry
      /\ Entry = 1..Len(file.entries) /\ Len(file.entries) \in Nat
  BY EntryFacts DEF Subprograms, Body
<1>2. /\ s \in Entry /\ p \in Entry /\ s \in Nat /\ p \in Nat /\ s < p
      /\ enc(s, p)
      /\ \A n \in Subprograms : n > s => ~ enc(n, p)
  BY <1>1 DEF Body, Encloses
<1>3. PICK o \in 1..p - 1 : file.after[o] - 1 = p
  BY <1>2, EntryFacts
<1>4. o \in Entry /\ o \in Nat /\ o < p /\ file.after[o] = z
  <2>1. o \in Entry /\ o \in Nat /\ o < p
    BY <1>1, <1>2, <1>3
  <2>2. file.after[o] \in 2..Len(file.entries) + 1
    BY <2>1, EntryFacts
  <2> QED
    BY <1>2, <1>3, <2>1, <2>2
<1>5. enc(o, p) /\ file.entries[o].children /\ Tag(o) # "end"
  <2>1. enc(o, p)
    BY <1>2, <1>4 DEF Encloses
  <2> QED
    BY <1>2, <1>4, <2>1, EncloseFacts
<1>6. ASSUME NEW d \in Entry, enc(d, p)
      PROVE  d <= o /\ (d # o => enc(d, o) /\ z < file.after[d])
  <2>1. d \in Nat /\ d < p /\ p < file.after[d] /\ file.after[d] \in Nat
    BY <1>1, <1>2, <1>6, EncloseFacts
  <2>2. ASSUME o < d PROVE FALSE
    <3>1. enc(o, d) /\ d < file.after[o] - 1
      BY <1>2, <1>4, <2>1, <2>2 DEF Encloses
    <3>2. file.after[d] < file.after[o]
      BY <1>4, <3>1, EncloseFacts
    <3>3. file.after[d] < p + 1
      BY <1>4, <3>2
    <3> QED
      BY <1>2, <2>1, <3>3
  <2>3. ASSUME d < o PROVE enc(d, o) /\ z < file.after[d]
    <3>1. enc(d, o)
      BY <1>2, <1>4, <2>1, <2>3 DEF Encloses
    <3>2. o < file.after[d] - 1
      BY <1>2, <1>4, <2>1
    <3>3. file.after[o] < file.after[d]
      BY <1>4, <3>1, <3>2, EncloseFacts
    <3> QED
      BY <1>4, <3>1, <3>3
  <2> QED
    BY <1>4, <2>1, <2>2, <2>3
<1>7. ASSUME NEW d \in Entry, enc(d, o) PROVE enc(d, p)
  BY <1>2, <1>4, <1>5, <1>7, EncloseTwice
<1>8. s <= o /\ (s # o => enc(s, o) /\ z < file.after[s])
  BY <1>2, <1>6
<1>9. o \in Body(s)
  <2>1. \A n \in Subprograms : n > s => ~ enc(n, o)
    BY <1>1, <1>2, <1>7
  <2> QED
    BY <1>4, <1>8, <2>1 DEF Body
<1>10. o \in Open(s, p) /\ \A d \in Open(s, p) : d <= o
  BY <1>1, <1>5, <1>6, <1>9 DEF Open
<1>11. Open(s, o) = Open(s, p) \ {o}
  <2>1. ~ enc(o, o)
    BY <1>4 DEF Encloses
  <2>2. \A d \in Body(s) : enc(d, o) <=> enc(d, p) /\ d # o
    BY <1>1, <1>6, <1>7, <2>1
  <2> QED
    BY <2>2 DEF Open
<1>12. ASSUME o # s PROVE z \in Body(s) \ {s} /\ Open(s, z) = Open(s, p) \ {o}
  <2>1. z \in Entry /\ enc(s, z) /\ z # s
    <3>1. file.after[s] \in 2..Len(file.entries) + 1
      BY <1>2, EntryFacts
    <3> QED
      BY <1>1, <1>2, <1>8, <1>12, <3>1 DEF Encloses
  <2>2. ASSUME NEW d \in Entry PROVE enc(d, z) <=> enc(d, p) /\ d # o
    <3>1. ASSUME enc(d, z) PROVE enc(d, p) /\ d # o
      <4>1. d \in Nat /\ d < z /\ z < file.after[d] /\ file.after[d] \in Nat /\ Tag(d) # "end"
        BY <1>1, <2>1, <3>1, EncloseFacts
      <4>2. d # p /\ d # o
        BY <1>2, <1>4, <4>1
      <4> QED
        BY <1>2, <4>1, <4>2 DEF Encloses
    <3>2. ASSUME enc(d, p), d # o PROVE enc(d, z)
      <4>1. z < file.after[d] /\ d < p /\ d \in Nat
        BY <1>1, <1>6, <3>2 DEF Encloses
      <4> QED
        BY <1>2, <4>1 DEF Encloses
    <3> QED
      BY <3>1, <3>2
  <2>3. \A n \in Subprograms : n > s => ~ enc(n, z)
    BY <1>1, <1>2, <2>2
  <2>4. z \in Body(s)
    BY <2>1, <2>3 DEF Body
  <2> HIDE DEF z
  <2>5. Open(s, z) = Open(s, p) \ {o}
    BY <1>1, <2>2 DEF Open
  <2> QED
    BY <2>1, <2>4, <2>5
<1> QED
  BY <1>4, <1>10, <1>11, <1>12

-----------------------------------------------------------------------------
(* Sites and maps of them *)

\* A pointer to a site is not nil.
NoneIsNoSite == \A t, e, caller : Site(t, e, caller) # None

\* The subprogram itself is the outermost site; every other one's caller is the last
\* site that is open where it stands.
LEMMA CallerFacts ==
  ASSUME file \in Files, NEW s \in Subprograms
  PROVE  /\ s \in Sites(s) /\ Sites(s) \subseteq Body(s) /\ Body(s) \subseteq Entry /\ Entry \subseteq Nat
         /\ s \in Entry /\ CallerOf(s, s) = None
         /\ \A e \in Body(s) : s <= e
         /\ \A e \in Body(s) \ {s} : s < e /\ s \in Open(s, e) \cap Sites(s)
         /\ \A e \in Sites(s) \ {s} :
              /\ CallerOf(s, e) = Max(Open(s, e) \cap Sites(s))
              /\ CallerOf(s, e) \in Sites(s) /\ CallerOf(s, e) < e /\ CallerOf(s, e) # None
<1>1. /\ Sites(s) \subseteq Body(s) /\ Body(s) \subseteq Entry /\ Entry \subseteq Nat
      /\ s \in Entry /\ s \in Nat
  BY EntryFacts DEF Sites, Body, Subprograms
<1>2. \A n \in Entry : n > s => ~ Encloses(file.after, n, s)
  <2>1. \A n \in Nat : n > s => ~ (n < s)
    BY <1>1
  <2> QED
    BY <1>1, <2>1 DEF Encloses
<1>3. s \in Body(s) /\ s \in Sites(s)
  <2>1. \A n \in Subprograms : n > s => ~ Encloses(file.after, n, s)
    BY <1>2 DEF Subprograms
  <2>2. s \in Body(s)
    BY <1>1, <2>1 DEF Body
  <2> QED
    BY <2>2 DEF Sites
<1>4. \A e \in Body(s) \ {s} : s < e /\ Encloses(file.after, s, e)
  BY DEF Body, Encloses
<1>5. CallerOf(s, s) = None
  <2>1. \A d \in Sites(s) : ~ Encloses(file.after, d, s)
    <3>1. ~ Encloses(file.after, s, s)
      BY <1>1 DEF Encloses
    <3> QED
      BY <1>1, <1>2, <1>4, <3>1
  <2> QED
    BY <2>1 DEF CallerOf
<1>6. ASSUME NEW e \in Body(s) \ {s} PROVE s \in Open(s, e) \cap Sites(s)
  BY <1>3, <1>4 DEF Open
<1>7. ASSUME NEW e \in Sites(s) \ {s}
      PROVE  /\ CallerOf(s, e) = Max(Open(s, e) \cap Sites(s))
             /\ CallerOf(s, e) \in Sites(s) /\ CallerOf(s, e) < e /\ CallerOf(s, e) # None
  <2> DEFINE out == Open(s, e) \cap Sites(s)
  <2>1. out = {d \in Sites(s) : Encloses(file.after, d, e)}
    BY <1>1 DEF Open
  <2>2. out # {}
    BY <1>1, <1>6
  <2>3. CallerOf(s, e) = Max(out)
    BY <2>1, <2>2 DEF CallerOf
  <2>4. out \in SUBSET Entry
    BY <1>1
  <2>5. \A d \in out : d \in Sites(s) /\ d < e
    BY <2>1 DEF Encloses
  <2> HIDE DEF out
  <2>6. Max(out) \in out
    BY <2>2, <2>4, LastEntry
  <2>7. Max(out) \in Nat
    BY <1>1, <2>4, <2>6
  <2> QED
    BY <2>3, <2>5, <2>6, <2>7, ConstantsAssumption DEF out
<1>8. \A e \in Body(s) : s <= e
  <2>1. ASSUME NEW e \in Body(s) PROVE s <= e
    <3>1. e \in Nat /\ (e = s \/ s < e)
      BY <1>1, <1>4
    <3> QED
      BY <1>1, <3>1
  <2> QED
    BY <2>1
<1>9. \A e \in Body(s) \ {s} : s < e /\ s \in Open(s, e) \cap Sites(s)
  BY <1>4, <1>6
<1>10. \A e \in Sites(s) \ {s} :
         /\ CallerOf(s, e) = Max(Open(s, e) \cap Sites(s))
         /\ CallerOf(s, e) \in Sites(s) /\ CallerOf(s, e) < e /\ CallerOf(s, e) # None
  BY <1>7
<1> QED
  BY <1>1, <1>3, <1>5, <1>8, <1>9, <1>10

\* Each site is made with its caller, which is made before it.
LEMMA ChartIs ==
  ASSUME file \in Files, NEW s \in Subprograms, NEW t
  PROVE  /\ Chart(t, s)[s] = Site(t, s, None)
         /\ \A e \in Sites(s) \ {s} : Chart(t, s)[e] = Site(t, e, Chart(t, s)[CallerOf(s, e)])
<1> DEFINE up(e, g) == Site(t, e, IF CallerOf(s, e) = None THEN None ELSE g[CallerOf(s, e)])
           Made(n, g) == g = [e \in {d \in Sites(s) : d <= n} |-> up(e, g)]
           S == {n \in Nat : ~ \E g : Made(n, g)}
           Sol(g) == g = [e \in Sites(s) |-> up(e, g)]
<1>1. /\ s \in Sites(s) /\ CallerOf(s, s) = None /\ Sites(s) \subseteq Nat
      /\ \A e \in Sites(s) : e \in 1..Len(file.entries)
      /\ Len(file.entries) \in Nat
      /\ \A e \in Sites(s) \ {s} : /\ CallerOf(s, e) \in Sites(s) /\ CallerOf(s, e) < e
                                   /\ CallerOf(s, e) # None
  BY CallerFacts, EntryFacts
<1>2. ASSUME S # {} PROVE FALSE
  <2>1. S \in SUBSET Nat
    OBVIOUS
  <2>2. PICK n \in S : \A k \in S : n <= k
    <3> HIDE DEF S
    <3> QED
      BY <1>2, <2>1, LeastAddr
  <2>3. n \in Nat /\ ~ \E g : Made(n, g)
    OBVIOUS
  <2>4. n # 0
    <3>1. {d \in Sites(s) : d <= 0} = {}
      BY <1>1
    <3>2. ASSUME n = 0 PROVE FALSE
      <4> DEFINE g == [e \in {} |-> 0]
      <4>1. g = [e \in {d \in Sites(s) : d <= 0} |-> up(e, g)]
        BY <3>1
      <4>2. Made(0, g)
        BY <4>1
      <4> HIDE DEF Made
      <4> QED
        BY <2>3, <3>2, <4>2
    <3> QED
      BY <3>2
  <2>5. n - 1 \in Nat /\ n - 1 \notin S
    <3> HIDE DEF S, Made
    <3>1. n - 1 \in Nat /\ ~ (n <= n - 1)
      BY <2>3, <2>4
    <3> QED
      BY <2>2, <3>1
  <2>6. PICK g0 : Made(n - 1, g0)
    <3> HIDE DEF Made
    <3> QED
      BY <2>5
  <2>7. \A e \in Sites(s) : e <= n - 1 => g0[e] = up(e, g0)
    <3> HIDE DEF up
    <3>1. g0 = [e \in {d \in Sites(s) : d <= n - 1} |-> up(e, g0)]
      BY <2>6
    <3> QED
      BY <3>1
  <2> DEFINE D == {d \in Sites(s) : d <= n}
             g == [e \in D |-> IF e <= n - 1 THEN g0[e] ELSE up(e, g0)]
  <2>8. \A e \in D : CallerOf(s, e) # None => g[CallerOf(s, e)] = g0[CallerOf(s, e)]
    <3>1. ASSUME NEW e \in D, CallerOf(s, e) # None PROVE CallerOf(s, e) \in D /\ CallerOf(s, e) <= n - 1
      <4>1. e # s
        BY <1>1, <3>1
      <4>2. PICK c \in Sites(s) : c = CallerOf(s, e) /\ c < e
        BY <1>1, <4>1
      <4>3. c \in Nat /\ e \in Nat /\ e <= n
        BY <1>1
      <4> QED
        BY <2>3, <4>2, <4>3
    <3> QED
      BY <3>1
  <2>9. \A e \in D : up(e, g) = up(e, g0)
    <3> HIDE DEF g
    <3> QED
      BY <2>8
  <2>10. \A e \in D : g[e] = up(e, g0)
    <3> HIDE DEF up
    <3> QED
      BY <2>7
  <2>11. g = [e \in D |-> g[e]]
    OBVIOUS
  <2>12. Made(n, g)
    <3> HIDE DEF g, up
    <3>1. g = [e \in D |-> up(e, g)]
      BY <2>9, <2>10, <2>11
    <3> QED
      BY <3>1
  <2> HIDE DEF Made, g
  <2> QED
    BY <2>3, <2>12
<1>3. \E g : Sol(g)
  <2>1. PICK g : Made(Len(file.entries), g)
    <3> HIDE DEF Made
    <3> QED
      BY <1>1, <1>2
  <2>2. {d \in Sites(s) : d <= Len(file.entries)} = Sites(s)
    BY <1>1
  <2> QED
    BY <2>1, <2>2
<1>4. Chart(t, s) = CHOOSE g : Sol(g)
  BY DEF Chart
<1>5. Sol(Chart(t, s))
  <2> HIDE DEF Sol
  <2> QED
    BY <1>3, <1>4
<1> DEFINE g == Chart(t, s)
<1>6. \A e \in Sites(s) : g[e] = up(e, g)
  <2> HIDE DEF up, g
  <2> QED
    BY <1>5 DEF g
<1> HIDE DEF g
<1> QED
  BY <1>1, <1>6 DEF g

\* The map depends on which sites the walk has come by.
LEMMA MapSame ==
  ASSUME NEW t, NEW s, NEW p, NEW p2, \A a \in Addr : Found(s, p, a) = Found(s, p2, a)
  PROVE  MapTo(t, s, p) = MapTo(t, s, p2)
BY DEF MapTo

LEMMA MapStart ==
  ASSUME file \in Files, NEW s \in Subprograms, NEW t
  PROVE  MapTo(t, s, s) = NoMap
<1>1. \A e \in Sites(s) : ~ (e < s)
  <2>1. ASSUME NEW e \in Sites(s) PROVE ~ (e < s)
    <3>1. e \in Nat /\ s \in Nat /\ s <= e
      BY CallerFacts
    <3> QED
      BY <3>1
  <2> QED
    BY <2>1
<1>2. \A a \in Addr : Found(s, s, a) = {}
  BY <1>1 DEF Found, SitesAt
<1> QED
  BY <1>2 DEF MapTo, NoMap

\* One site more.
LEMMA MapAdd ==
  ASSUME file \in Files, NEW s \in Subprograms, NEW t, NEW e \in Sites(s),
         file.stop \in Body(s) => e < file.stop
  PROVE  MapTo(t, s, e + 1) = AddRanges(MapTo(t, s, e), e, Chart(t, s)[e])
<1> DEFINE z == e + 1
<1>1. e \in Nat /\ Sites(s) \subseteq Nat /\ Sites(s) \subseteq Entry /\ Sites(s) \subseteq Body(s)
  BY CallerFacts
<1>2. \A d \in Sites(s) : d < z <=> d < e \/ d = e
  BY <1>1
<1>3. e \in Body(s) /\ file.stop \in Nat
  BY <1>1, EntryFacts
<1>4. e \notin file.badRanges => e \in Reached(Body(s))
  <2>1. ~ (file.stop \in Body(s) /\ file.stop <= e)
    BY <1>1, <1>3
  <2> QED
    BY <1>3, <2>1 DEF Reached
<1>5. e \in file.badRanges => e \notin Reached(Body(s))
  BY DEF Reached
<1> HIDE DEF z
<1>6. ASSUME NEW a \in Addr, e \in file.badRanges \/ ~ Holds(e, a) PROVE Found(s, z, a) = Found(s, e, a)
  <2>1. e \notin SitesAt(s, a)
    BY <1>5, <1>6 DEF SitesAt
  <2> QED
    BY <1>2, <2>1 DEF Found, SitesAt
<1>7. ASSUME NEW a \in Addr, e \notin file.badRanges, Holds(e, a)
      PROVE  Found(s, z, a) # {} /\ Max(Found(s, z, a)) = e
  <2>1. e \in SitesAt(s, a)
    BY <1>4, <1>7 DEF SitesAt
  <2>2. e \in Found(s, z, a)
    BY <1>2, <2>1 DEF Found
  <2>3. Found(s, z, a) \in SUBSET Entry
    BY <1>1 DEF Found, SitesAt
  <2>4. \A d \in Found(s, z, a) : d <= e
    <3>1. \A d \in Sites(s) : d < z => d <= e
      BY <1>1, <1>2
    <3> QED
      BY <3>1 DEF Found, SitesAt
  <2> QED
    BY <2>2, <2>3, <2>4, LastIs
<1> DEFINE at(p, a) == IF Found(s, p, a) = {} THEN None ELSE Chart(t, s)[Max(Found(s, p, a))]
<1>8. MapTo(t, s, e) = [a \in Addr |-> at(e, a)] /\ MapTo(t, s, z) = [a \in Addr |-> at(z, a)]
  BY DEF MapTo
<1>9. CASE e \in file.badRanges
  <2>1. MapTo(t, s, z) = MapTo(t, s, e)
    BY <1>6, <1>9, MapSame
  <2> QED
    BY <1>9, <2>1 DEF AddRanges, z
<1>10. CASE e \notin file.badRanges
  <2>1. \A a \in Addr : at(z, a) = IF Holds(e, a) THEN Chart(t, s)[e] ELSE at(e, a)
    BY <1>6, <1>7, <1>10
  <2> HIDE DEF at
  <2>2. \A a \in Addr : MapTo(t, s, e)[a] = at(e, a)
    BY <1>8
  <2>3. MapTo(t, s, z) = [a \in Addr |-> IF Holds(e, a) THEN Chart(t, s)[e] ELSE MapTo(t, s, e)[a]]
    BY <1>8, <2>1, <2>2
  <2> QED
    BY <1>10, <2>3 DEF AddRanges, z
<1> QED
  BY <1>9, <1>10

\* No site more between two places, and none behind the last.
LEMMA MapBetween ==
  ASSUME NEW s, NEW t, NEW p, NEW p2, \A e \in Sites(s) \cap Reached(Body(s)) : e < p <=> e < p2
  PROVE  MapTo(t, s, p) = MapTo(t, s, p2)
<1>1. \A a \in Addr : Found(s, p, a) = Found(s, p2, a)
  BY DEF Found, SitesAt
<1> QED
  BY <1>1, MapSame

LEMMA MapFull ==
  ASSUME file \in Files, NEW s \in Subprograms, NEW t, NEW p,
         \A e \in Sites(s) \cap Reached(Body(s)) : e < p
  PROVE  MapTo(t, s, p) = FullMap(t, s)
<1> DEFINE z == Len(file.entries) + 1
<1>1. \A e \in Entry : e < z
  BY EntryFacts
<1>2. \A e \in Sites(s) : e < z
  BY <1>1, CallerFacts
<1> HIDE DEF z
<1>3. MapTo(t, s, p) = MapTo(t, s, z)
  BY <1>2, MapBetween
<1> QED
  BY <1>3 DEF FullMap, z

\* What the entries say of sites does not change either.
LEMMA SameSitesOf ==
  ASSUME file' = file
  PROVE  /\ Tidy' <=> Tidy
         /\ \A s : Body(s)' = Body(s) /\ Sites(s)' = Sites(s)
         /\ \A s, p : Open(s, p)' = Open(s, p)
         /\ \A s, e : CallerOf(s, e)' = CallerOf(s, e)
<1>1. Entry' = Entry /\ Subprograms' = Subprograms /\ \A e : Tag(e)' = Tag(e)
  BY SameFile DEF Tag
<1>2. Tidy' <=> Tidy
  BY <1>1 DEF Tidy
<1>3. \A s : Body(s)' = Body(s)
  BY <1>1 DEF Body
<1>4. \A s : Sites(s)' = Sites(s)
  BY <1>1, <1>3 DEF Sites
<1>5. \A s, p : Open(s, p)' = Open(s, p)
  BY <1>3 DEF Open
<1>6. \A s, e : CallerOf(s, e)' = CallerOf(s, e)
  BY <1>4 DEF CallerOf
<1> QED
  BY <1>2, <1>3, <1>4, <1>5, <1>6

LEMMA SameCharts ==
  ASSUME file' = file
  PROVE  /\ \A t, s : Chart(t, s)' = Chart(t, s)
         /\ \A s, a : SitesAt(s, a)' = SitesAt(s, a)
         /\ \A t, s, p : MapTo(t, s, p)' = MapTo(t, s, p)
         /\ \A t, s : FullMap(t, s)' = FullMap(t, s)
<1>1. \A t, s : Chart(t, s)' = Chart(t, s)
  BY SameSitesOf DEF Chart
<1>2. \A s, a : SitesAt(s, a)' = SitesAt(s, a)
  BY SameSitesOf, SameFile DEF SitesAt, Reached
<1>3. \A t, s, p : MapTo(t, s, p)' = MapTo(t, s, p)
  BY <1>1, <1>2 DEF MapTo, Found
<1>4. \A t, s : FullMap(t, s)' = FullMap(t, s)
  BY <1>3 DEF FullMap
<1> QED
  BY <1>1, <1>2, <1>3, <1>4

LEMMA SameWalks ==
  ASSUME file' = file
  PROVE  \A t, r : WalkOK(t, r)' <=> WalkOK(t, r)
<1>1. ASSUME NEW t, NEW s, NEW r PROVE InsideOK(t, s, r)' <=> InsideOK(t, s, r)
  <2>1. /\ Body(s)' = Body(s) /\ Sites(s)' = Sites(s) /\ Open(s, r.pos)' = Open(s, r.pos)
        /\ Chart(t, s)' = Chart(t, s) /\ MapTo(t, s, r.pos)' = MapTo(t, s, r.pos)
    BY SameSitesOf, SameCharts
  <2>2. Pushed(t, s, r.pos)' = Pushed(t, s, r.pos)
    BY <2>1 DEF Pushed
  <2> QED
    BY <2>1, <2>2 DEF InsideOK
<1>2. \A t, s, r : BehindOK(t, s, r)' <=> BehindOK(t, s, r)
  BY SameFile, SameCharts DEF BehindOK, Behind
<1> QED
  BY <1>1, <1>2 DEF WalkOK

-----------------------------------------------------------------------------
(* The stack *)

\* Pushing what belongs to a new last entry.
LEMMA PushOne ==
  ASSUME NEW stack, NEW f, NEW g, NEW p \in Nat, StackOK(stack, f), DOMAIN f \subseteq Nat,
         \A d \in DOMAIN f : d < p /\ g[d] = f[d], DOMAIN g = DOMAIN f \cup {p}
  PROVE  StackOK(Append(stack, g[p]), g)
<1> DEFINE n == Len(stack)
           S == {f[d] : d \in DOMAIN f}
           T == {g[d] : d \in DOMAIN g}
           z == Append(stack, g[p])
<1>1. PICK q \in [1..n -> DOMAIN f] :
        /\ \A i, j \in DOMAIN q : i < j => q[i] < q[j]
        /\ \A d \in DOMAIN f : \E i \in DOMAIN q : q[i] = d
        /\ \A i \in DOMAIN q : stack[i] = f[q[i]]
  BY DEF StackOK
<1>2. stack \in Seq(S)
  BY DEF StackOK
<1>3. stack \in Seq(T) /\ g[p] \in T
  <2>1. \A x \in S : x \in T
    OBVIOUS
  <2>2. g[p] \in T
    OBVIOUS
  <2> HIDE DEF S, T
  <2> QED
    BY <1>2, <2>1, <2>2
<1>4. /\ z \in Seq(T) /\ n \in Nat /\ Len(z) = n + 1
      /\ \A i \in 1..n : z[i] = stack[i]
      /\ z[n + 1] = g[p]
  <2> HIDE DEF S, T
  <2> QED
    BY <1>2, <1>3, AppendProperties
<1> DEFINE r == [i \in 1..n + 1 |-> IF i = n + 1 THEN p ELSE q[i]]
<1> HIDE DEF z, n, T, S
<1>5. r \in [1..n + 1 -> DOMAIN g]
  <2>1. \A i \in 1..n + 1 : i # n + 1 => i \in 1..n
    BY <1>4
  <2> QED
    BY <1>1, <2>1
<1>6. ASSUME NEW i \in 1..n + 1, NEW j \in 1..n + 1, i < j PROVE r[i] < r[j]
  <2>1. i \in 1..n
    BY <1>4, <1>6
  <2>2. i # n + 1
    BY <1>4, <2>1
  <2>3. r[i] = q[i] /\ q[i] \in DOMAIN f
    BY <1>1, <2>1, <2>2
  <2>4. CASE j = n + 1
    BY <2>3, <2>4
  <2>5. CASE j # n + 1
    <3>1. j \in 1..n
      BY <1>4, <2>5
    <3> QED
      BY <1>1, <1>6, <2>1, <2>3, <2>5, <3>1
  <2> QED
    BY <2>4, <2>5
<1>7. ASSUME NEW d \in DOMAIN g PROVE \E i \in 1..n + 1 : r[i] = d
  <2>1. CASE d = p
    <3>1. n + 1 \in 1..n + 1
      BY <1>4
    <3> QED
      BY <2>1, <3>1
  <2>2. CASE d # p
    <3>1. PICK i \in 1..n : q[i] = d
      BY <1>1, <2>2
    <3>2. i \in 1..n + 1 /\ i # n + 1
      BY <1>4
    <3> QED
      BY <3>1, <3>2
  <2> QED
    BY <2>1, <2>2
<1>8. ASSUME NEW i \in 1..n + 1 PROVE z[i] = g[r[i]]
  <2>1. CASE i = n + 1
    BY <1>4, <2>1
  <2>2. CASE i # n + 1
    <3>1. i \in 1..n
      BY <1>4, <2>2
    <3> QED
      BY <1>1, <1>4, <2>2, <3>1
  <2> QED
    BY <2>1, <2>2
<1>9. DOMAIN r = 1..n + 1
  OBVIOUS
<1> HIDE DEF r
<1>10. z \in Seq({g[d] : d \in DOMAIN g})
  BY <1>4 DEF T
<1>11. StackOK(z, g)
  <2>1. r \in [1..Len(z) -> DOMAIN g]
    BY <1>4, <1>5
  <2>2. /\ \A i, j \in DOMAIN r : i < j => r[i] < r[j]
        /\ \A d \in DOMAIN g : \E i \in DOMAIN r : r[i] = d
        /\ \A i \in DOMAIN r : z[i] = g[r[i]]
    BY <1>6, <1>7, <1>8, <1>9
  <2> QED
    BY <1>10, <2>1, <2>2 DEF StackOK
<1> QED
  BY <1>11 DEF z

\* Popping the last one's.
LEMMA PopOne ==
  ASSUME NEW stack, NEW f, NEW g, NEW o \in DOMAIN f, StackOK(stack, f), DOMAIN f \subseteq Nat,
         \A d \in DOMAIN f : d <= o, DOMAIN g = DOMAIN f \ {o}, \A d \in DOMAIN g : g[d] = f[d]
  PROVE  stack # <<>> /\ Last(stack) = f[o] /\ StackOK(Front(stack), g)
<1> DEFINE n == Len(stack)
           S == {f[d] : d \in DOMAIN f}
           T == {g[d] : d \in DOMAIN g}
           z == Front(stack)
<1>1. PICK q \in [1..n -> DOMAIN f] :
        /\ \A i, j \in DOMAIN q : i < j => q[i] < q[j]
        /\ \A d \in DOMAIN f : \E i \in DOMAIN q : q[i] = d
        /\ \A i \in DOMAIN q : stack[i] = f[q[i]]
  BY DEF StackOK
<1>2. stack \in Seq(S)
  BY DEF StackOK
<1>3. n \in Nat
  <2> HIDE DEF S
  <2> QED
    BY <1>2
<1>4. PICK k \in 1..n : q[k] = o
  BY <1>1
<1>5. k = n /\ n \in 1..n /\ n # 0
  <2>1. n \in 1..n
    BY <1>3
  <2>2. ASSUME k < n PROVE FALSE
    <3>1. q[k] < q[n] /\ q[n] \in DOMAIN f
      BY <1>1, <2>1, <2>2
    <3>2. q[n] <= o /\ q[n] \in Nat /\ o \in Nat
      BY <3>1
    <3> QED
      BY <1>4, <3>1, <3>2
  <2> QED
    BY <1>3, <2>1, <2>2
<1>6. stack # <<>> /\ Last(stack) = f[o]
  <2>1. Last(stack) = stack[n]
    BY DEF Last
  <2>2. stack # <<>>
    BY <1>5
  <2> QED
    BY <1>1, <1>4, <1>5, <2>1, <2>2
<1>7. z = SubSeq(stack, 1, n - 1)
  BY DEF Front
<1>8. z \in Seq(S) /\ Len(z) = n - 1 /\ \A i \in 1..n - 1 : z[i] = stack[i]
  <2> HIDE DEF S, z, n
  <2>1. n = Len(stack)
    BY DEF n
  <2>2. n - 1 \in Nat /\ n - 1 <= n
    BY <1>3, <1>5
  <2> QED
    BY <1>2, <1>7, <2>1, <2>2
<1> DEFINE r == [i \in 1..n - 1 |-> q[i]]
<1>9. \A i \in 1..n - 1 : i \in 1..n /\ i # n
  BY <1>3
<1>10. \A i \in 1..n - 1 : q[i] \in DOMAIN g
  <2>1. ASSUME NEW i \in 1..n - 1 PROVE q[i] \in DOMAIN g
    <3>1. q[i] < q[n] /\ q[i] \in DOMAIN f
      <4>1. i \in 1..n /\ n \in 1..n /\ i < n
        BY <1>3, <1>5
      <4> QED
        BY <1>1, <4>1
    <3>2. q[i] # o
      BY <1>4, <1>5, <3>1
    <3> QED
      BY <3>1, <3>2
  <2> QED
    BY <2>1
<1> HIDE DEF z, n, S, T
<1>11. r \in [1..n - 1 -> DOMAIN g]
  BY <1>10
<1>12. \A i, j \in 1..n - 1 : i < j => r[i] < r[j]
  BY <1>1, <1>9
<1>13. ASSUME NEW d \in DOMAIN g PROVE \E i \in 1..n - 1 : r[i] = d
  <2>1. PICK i \in 1..n : q[i] = d
    BY <1>1
  <2>2. i # n
    BY <1>4, <1>5, <2>1
  <2>3. i \in 1..n - 1
    BY <1>3, <2>2
  <2> QED
    BY <2>1, <2>3
<1>14. \A i \in 1..n - 1 : z[i] = g[r[i]]
  BY <1>1, <1>8, <1>9, <1>10
<1>15. DOMAIN r = 1..n - 1
  OBVIOUS
<1> HIDE DEF r
<1>16. z \in Seq({g[d] : d \in DOMAIN g})
  <2>1. \A i \in 1..n - 1 : z[i] \in T
    BY <1>11, <1>14 DEF T
  <2>2. z = [i \in 1..n - 1 |-> z[i]]
    BY <1>8
  <2>3. n - 1 \in Nat
    BY <1>3, <1>5
  <2>4. z \in Seq(T)
    BY <2>1, <2>2, <2>3
  <2> QED
    BY <2>4 DEF T
<1>17. StackOK(z, g)
  <2>1. r \in [1..Len(z) -> DOMAIN g]
    BY <1>8, <1>11
  <2>2. /\ \A i, j \in DOMAIN r : i < j => r[i] < r[j]
        /\ \A d \in DOMAIN g : \E i \in DOMAIN r : r[i] = d
        /\ \A i \in DOMAIN r : z[i] = g[r[i]]
    BY <1>12, <1>13, <1>14, <1>15
  <2> QED
    BY <1>16, <2>1, <2>2 DEF StackOK
<1> QED
  BY <1>6, <1>17 DEF z

-----------------------------------------------------------------------------
(* The walk over inlined calls *)

\* What the walk does at each kind of entry.
LEMMA EnterSite ==
  ASSUME NEW t, NEW r, IsCall(r), NEW p, p = r.pos,
         Tag(p) = "inlined" \/ (Tag(p) = "subprogram" /\ r.outer = None)
  PROVE  LET x == WalkEntry(t, r)
             y == Site(t, p, r.outer)
         IN /\ x.pos = p + 1 /\ x.stack = Append(r.stack, y) /\ x.outer = y
            /\ x.m = AddRanges(r.m, p, y) /\ x.at = r.at /\ x.sub = r.sub
<1> DEFINE x == WalkEntry(t, r)
           y == Site(t, p, r.outer)
           next == [r EXCEPT !.pos = p + 1]
<1>1. x = [next EXCEPT !.stack = Append(next.stack, y), !.outer = y, !.m = AddRanges(next.m, p, y)]
  BY DEF WalkEntry
<1>2. /\ IsCall(next) /\ next.pos = p + 1 /\ next.stack = r.stack /\ next.m = r.m
      /\ next.at = r.at /\ next.sub = r.sub
  BY DEF IsCall, Idle, InCall
<1> HIDE DEF x, y, next
<1>3. /\ x.pos = p + 1 /\ x.stack = Append(r.stack, y) /\ x.outer = y
      /\ x.m = AddRanges(r.m, p, y) /\ x.at = r.at /\ x.sub = r.sub
  BY <1>1, <1>2 DEF IsCall, Idle, InCall
<1> QED
  BY <1>3 DEF x, y

LEMMA SkipNested ==
  ASSUME NEW t, NEW r, IsCall(r), NEW p, p = r.pos, Tag(p) = "subprogram", r.outer # None
  PROVE  LET x == WalkEntry(t, r)
         IN /\ x.pos = Skip(p) /\ x.stack = r.stack /\ x.outer = r.outer
            /\ x.m = r.m /\ x.at = r.at /\ x.sub = r.sub
<1> DEFINE x == WalkEntry(t, r)
<1>1. x = [r EXCEPT !.pos = Skip(p)]
  BY DEF WalkEntry
<1> HIDE DEF x
<1>2. /\ x.pos = Skip(p) /\ x.stack = r.stack /\ x.outer = r.outer
      /\ x.m = r.m /\ x.at = r.at /\ x.sub = r.sub
  BY <1>1 DEF IsCall, Idle, InCall
<1> QED
  BY <1>2 DEF x

LEMMA PassOther ==
  ASSUME NEW t, NEW r, IsCall(r), NEW p, p = r.pos, Tag(p) \notin {"inlined", "subprogram"}
  PROVE  LET x == WalkEntry(t, r)
         IN /\ x.pos = p + 1 /\ x.outer = r.outer /\ x.m = r.m /\ x.sub = r.sub
            /\ x.stack = IF file.entries[p].children THEN Append(r.stack, None) ELSE r.stack
            /\ x.at = IF r.outer = None THEN "store" ELSE r.at
<1> DEFINE x == WalkEntry(t, r)
           next == [r EXCEPT !.pos = p + 1]
           stk == IF file.entries[p].children THEN Append(next.stack, None) ELSE next.stack
           at == IF r.outer = None THEN "store" ELSE next.at
<1>1. x = [next EXCEPT !.stack = stk, !.at = at]
  BY DEF WalkEntry
<1>2. /\ IsCall(next) /\ next.pos = p + 1 /\ next.stack = r.stack /\ next.m = r.m
      /\ next.at = r.at /\ next.sub = r.sub /\ next.outer = r.outer
  BY DEF IsCall, Idle, InCall
<1>3. /\ stk = IF file.entries[p].children THEN Append(r.stack, None) ELSE r.stack
      /\ at = IF r.outer = None THEN "store" ELSE r.at
  BY <1>2
<1> HIDE DEF x, next, stk, at
<1>4. /\ x.pos = p + 1 /\ x.outer = r.outer /\ x.m = r.m /\ x.sub = r.sub /\ x.stack = stk /\ x.at = at
  BY <1>1, <1>2 DEF IsCall, Idle, InCall
<1> QED
  BY <1>3, <1>4 DEF x

LEMMA PopsSite ==
  ASSUME NEW r, IsCall(r)
  PROVE  LET x == Popped(r)
         IN /\ IsCall(x) /\ x.pos = r.pos /\ x.m = r.m /\ x.at = r.at /\ x.sub = r.sub
            /\ r.stack = <<>> => x.stack = <<>> /\ x.outer = r.outer
            /\ r.stack # <<>> => /\ x.stack = Front(r.stack)
                                 /\ x.outer = IF Last(r.stack) # None THEN Last(r.stack).caller
                                              ELSE r.outer
<1> DEFINE x == Popped(r)
           up == IF Last(r.stack) # None THEN Last(r.stack).caller ELSE r.outer
           popped == Front(r.stack)
<1>1. CASE r.stack = <<>>
  <2>1. x = r
    BY <1>1 DEF Popped
  <2> HIDE DEF x
  <2>2. /\ IsCall(x) /\ x.pos = r.pos /\ x.m = r.m /\ x.at = r.at /\ x.sub = r.sub
        /\ x.stack = <<>> /\ x.outer = r.outer
    BY <1>1, <2>1
  <2> QED
    BY <1>1, <2>2 DEF x
<1>2. CASE r.stack # <<>>
  <2>1. x = [r EXCEPT !.stack = popped, !.outer = up]
    BY <1>2 DEF Popped
  <2> HIDE DEF x, up, popped
  <2>2. /\ IsCall(x) /\ x.pos = r.pos /\ x.m = r.m /\ x.at = r.at /\ x.sub = r.sub
        /\ x.stack = popped /\ x.outer = up
    BY <2>1 DEF IsCall, Idle, InCall
  <2> QED
    BY <1>2, <2>2 DEF x, up, popped
<1> QED
  BY <1>1, <1>2

\* The walk's place and map after an entry, and that the walk has not come by the
\* place where decoding fails.
LEMMA NoStopYet ==
  ASSUME file \in Files, NEW s \in Subprograms, NEW p \in Body(s), p # file.stop,
         file.stop \in Body(s) => p <= file.stop
  PROVE  file.stop \in Body(s) => p < file.stop
<1>1. p \in Nat /\ file.stop \in Nat
  BY EntryFacts, CallerFacts
<1> QED
  BY <1>1

\* The subprogram itself.
LEMMA StartWalk ==
  ASSUME file \in Files, NEW s \in Subprograms, s # file.stop, NEW t, NEW x,
         x.pos = s + 1, x.outer = Site(t, s, None), x.m = AddRanges(NoMap, s, Site(t, s, None)),
         x.stack = Append(<<>>, Site(t, s, None))
  PROVE  IF file.entries[s].children THEN InsideOK(t, s, x) ELSE BehindOK(t, s, x)
<1> DEFINE c == Chart(t, s)
           z == s + 1
<1>1. /\ s \in Sites(s) /\ s \in Body(s) /\ Body(s) \subseteq Entry /\ Sites(s) \subseteq Body(s)
      /\ Entry \subseteq Nat /\ s \in Nat /\ s \in Entry
  BY CallerFacts
<1>2. \A e \in Body(s) : s <= e /\ e \in Nat
  BY CallerFacts
<1>3. c[s] = Site(t, s, None)
  BY ChartIs
<1>4. file.stop \in Body(s) => s < file.stop /\ z <= file.stop
  <2>1. file.stop \in Body(s) => s < file.stop
    BY <1>1, <1>2, NoStopYet
  <2>2. file.stop \in Nat
    BY EntryFacts
  <2> QED
    BY <1>1, <2>1, <2>2
<1>5. MapTo(t, s, z) = x.m
  <2>1. MapTo(t, s, z) = AddRanges(MapTo(t, s, s), s, c[s])
    BY <1>1, <1>4, MapAdd
  <2> QED
    BY <1>3, <2>1, MapStart
<1>6. CASE file.entries[s].children
  <2>1. Open(s, s) = {}
    <3>1. \A d \in Body(s) : ~ Encloses(file.after, d, s)
      BY <1>1, <1>2 DEF Encloses
    <3> QED
      BY <3>1 DEF Open
  <2>2. z \in Body(s) \ {s} /\ Open(s, z) = Open(s, s) \cup {s}
    BY <1>1, <1>6, BodyInto
  <2>3. Open(s, z) = {s} /\ Open(s, z) \cap Sites(s) = {s}
    BY <1>1, <2>1, <2>2
  <2>4. Max(Open(s, z) \cap Sites(s)) = s
    <3>1. {s} \in SUBSET Entry /\ s \in {s} /\ \A y \in {s} : y <= s
      BY <1>1
    <3>2. Max({s}) = s
      BY <3>1, LastIs
    <3> QED
      BY <2>3, <3>2
  <2>5. StackOK(x.stack, Pushed(t, s, z))
    <3> DEFINE g == Pushed(t, s, z)
    <3>1. DOMAIN g = {s} /\ g[s] = Site(t, s, None)
      BY <1>1, <1>3, <2>3 DEF Pushed
    <3> HIDE DEF g
    <3>2. x.stack = <<g[s]>> /\ x.stack \in Seq({g[d] : d \in DOMAIN g}) /\ Len(x.stack) = 1
      <4>1. x.stack = <<g[s]>>
        BY <3>1
      <4>2. g[s] \in {g[d] : d \in DOMAIN g}
        BY <3>1
      <4> QED
        BY <4>1, <4>2
    <3> DEFINE q == [i \in 1..Len(x.stack) |-> s]
    <3>3. /\ q \in [1..Len(x.stack) -> DOMAIN g]
          /\ \A i, j \in DOMAIN q : i < j => q[i] < q[j]
          /\ \A d \in DOMAIN g : \E i \in DOMAIN q : q[i] = d
          /\ \A i \in DOMAIN q : x.stack[i] = g[q[i]]
      BY <3>1, <3>2
    <3> HIDE DEF q
    <3>4. StackOK(x.stack, g)
      BY <3>2, <3>3 DEF StackOK
    <3> QED
      BY <3>4 DEF g
  <2>6. x.outer = c[Max(Open(s, z) \cap Sites(s))]
    BY <1>3, <2>4
  <2>7. x.pos = z
    OBVIOUS
  <2> HIDE DEF z, c
  <2>8. InsideOK(t, s, x)
    BY <1>4, <1>5, <2>2, <2>5, <2>6, <2>7 DEF InsideOK, c
  <2> QED
    BY <1>6, <2>8
<1>7. CASE ~ file.entries[s].children
  <2>1. \A n \in Subprograms : n > s => ~ Encloses(file.after, n, z)
    <3>1. \A n \in Nat : n > s => ~ (n < z)
      BY <1>1
    <3> QED
      BY <1>1, <3>1 DEF Encloses, Subprograms
  <2>2. \A e \in Body(s) : e = s
    BY <1>1, <1>7, EncloseFacts DEF Body
  <2>3. \A e \in Sites(s) : e < z
    BY <1>1, <2>2
  <2>4. x.m = FullMap(t, s)
    BY <1>5, <2>3, MapFull
  <2>5. x.stack \in Seq({c[s], None})
    BY <1>3
  <2>6. x.pos > s
    BY <1>1
  <2>7. BehindOK(t, s, x)
    BY <1>3, <2>1, <2>4, <2>5, <2>6 DEF BehindOK, Behind
  <2> QED
    BY <1>7, <2>7
<1> QED
  BY <1>6, <1>7

\* What is open where, inside a subprogram.
LEMMA OpenFacts ==
  ASSUME file \in Files, NEW s \in Subprograms, NEW p \in Body(s) \ {s}
  PROVE  /\ Open(s, p) \in SUBSET Entry /\ Open(s, p) \subseteq Nat
         /\ Open(s, p) \cap Sites(s) \in SUBSET Entry /\ s \in Open(s, p) \cap Sites(s)
         /\ \A d \in Open(s, p) : d < p /\ d \in Body(s)
         /\ p \in Nat /\ p \in Entry
<1>1. Body(s) \subseteq Entry /\ Entry \subseteq Nat /\ s \in Open(s, p) \cap Sites(s)
  BY CallerFacts
<1>2. Open(s, p) \subseteq Body(s) /\ \A d \in Open(s, p) : d < p
  BY DEF Open, Encloses
<1> QED
  BY <1>1, <1>2

\* A call inlined into it.
LEMMA InsideCall ==
  ASSUME file \in Files, Tidy, NEW s \in Subprograms, NEW t, NEW r, NEW x,
         InsideOK(t, s, r), NEW p, p = r.pos, p # file.stop, Tag(p) = "inlined",
         x.pos = p + 1, x.outer = Site(t, p, r.outer), x.m = AddRanges(r.m, p, Site(t, p, r.outer)),
         x.stack = Append(r.stack, Site(t, p, r.outer))
  PROVE  InsideOK(t, s, x)
<1> DEFINE c == Chart(t, s)
           z == p + 1
           open == Open(s, p)
           out == open \cap Sites(s)
           in == Open(s, z) \cap Sites(s)
<1>1. /\ p \in Body(s) \ {s} /\ (file.stop \in Body(s) => p <= file.stop)
      /\ r.m = MapTo(t, s, p) /\ r.outer = c[Max(out)] /\ StackOK(r.stack, Pushed(t, s, p))
  BY DEF InsideOK
<1>2. /\ p \in Nat /\ p \in Entry /\ open \in SUBSET Entry /\ open \subseteq Nat
      /\ \A d \in open : d < p
  BY <1>1, OpenFacts
<1>3. p \in Sites(s) \ {s}
  BY <1>1 DEF Sites
<1>4. file.entries[p].children
  BY <1>2 DEF Tidy
<1>5. z \in Body(s) \ {s} /\ Open(s, z) = open \cup {p}
  BY <1>1, <1>4, BodyInto
<1>6. c[p] = Site(t, p, r.outer)
  <2>1. c[p] = Site(t, p, c[CallerOf(s, p)]) /\ CallerOf(s, p) = Max(out)
    BY <1>3, ChartIs, CallerFacts
  <2> QED
    BY <1>1, <2>1
<1>7. file.stop \in Body(s) => p < file.stop
  BY <1>1, NoStopYet
<1>8. file.stop \in Body(s) => z <= file.stop
  <2>1. file.stop \in Nat
    BY EntryFacts
  <2> QED
    BY <1>2, <1>7, <2>1
<1>9. MapTo(t, s, z) = x.m
  <2>1. MapTo(t, s, z) = AddRanges(MapTo(t, s, p), p, c[p])
    BY <1>3, <1>7, MapAdd
  <2> QED
    BY <1>1, <1>6, <2>1
<1>10. Max(in) = p
  <2>1. in \in SUBSET Entry /\ p \in in
    BY <1>2, <1>3, <1>5
  <2>2. \A y \in in : y <= p
    BY <1>2, <1>5
  <2> HIDE DEF in
  <2> QED
    BY <2>1, <2>2, LastIs
<1>11. StackOK(x.stack, Pushed(t, s, z))
  <2> DEFINE f == Pushed(t, s, p)
             g == Pushed(t, s, z)
  <2>1. DOMAIN f = open /\ DOMAIN g = open \cup {p}
    BY <1>5 DEF Pushed
  <2>2. \A d \in open : g[d] = f[d]
    BY <1>5 DEF Pushed
  <2>3. g[p] = c[p]
    BY <1>3, <1>5 DEF Pushed
  <2>4. StackOK(r.stack, f) /\ DOMAIN f \subseteq Nat
    BY <1>1, <1>2, <2>1
  <2> HIDE DEF f, g, open
  <2>5. StackOK(Append(r.stack, g[p]), g)
    <3>1. DOMAIN g = DOMAIN f \cup {p} /\ \A d \in DOMAIN f : d < p /\ g[d] = f[d]
      BY <1>2, <2>1, <2>2
    <3>2. PICK stack : stack = r.stack
      OBVIOUS
    <3>3. p \in Nat /\ StackOK(stack, f)
      BY <1>2, <2>4, <3>2
    <3>4. StackOK(Append(stack, g[p]), g)
      BY ONLY <3>1, <3>3, <2>4, PushOne
    <3> QED
      BY <3>2, <3>4
  <2>6. x.stack = Append(r.stack, g[p])
    BY <1>6, <2>3
  <2>7. StackOK(x.stack, g)
    BY <2>5, <2>6
  <2> QED
    BY <2>7 DEF g
<1>12. x.outer = c[Max(in)]
  BY <1>6, <1>10
<1>13. x.pos = z
  OBVIOUS
<1> HIDE DEF z, c
<1> QED
  BY <1>5, <1>8, <1>9, <1>11, <1>12, <1>13 DEF InsideOK, c

\* No site is at an entry that is not a call: the map stays as it is.
LEMMA MapPast ==
  ASSUME file \in Files, NEW s \in Subprograms, NEW t, NEW p \in Body(s) \ Sites(s), NEW z,
         \A e \in Body(s) : e < z <=> e <= p
  PROVE  MapTo(t, s, z) = MapTo(t, s, p)
<1>1. Sites(s) \subseteq Body(s) /\ Sites(s) \subseteq Nat /\ p \in Nat
  BY CallerFacts
<1>2. \A e \in Sites(s) : e <= p <=> e < p
  <2>1. ASSUME NEW e \in Sites(s) PROVE e <= p <=> e < p
    <3>1. e # p /\ e \in Nat
      BY <1>1
    <3> QED
      BY <1>1, <3>1
  <2> QED
    BY <2>1
<1>3. \A e \in Sites(s) : e < z <=> e < p
  BY <1>1, <1>2
<1> QED
  BY <1>3, MapBetween

\* A block with children in it.
LEMMA InsideBlock ==
  ASSUME file \in Files, NEW s \in Subprograms, NEW t, NEW r, NEW x,
         InsideOK(t, s, r), NEW p, p = r.pos, p # file.stop,
         Tag(p) \notin {"inlined", "subprogram"}, file.entries[p].children,
         x.pos = p + 1, x.outer = r.outer, x.m = r.m, x.stack = Append(r.stack, None)
  PROVE  InsideOK(t, s, x)
<1> DEFINE c == Chart(t, s)
           z == p + 1
           open == Open(s, p)
           out == open \cap Sites(s)
           in == Open(s, z) \cap Sites(s)
<1>1. /\ p \in Body(s) \ {s} /\ (file.stop \in Body(s) => p <= file.stop)
      /\ r.m = MapTo(t, s, p) /\ r.outer = c[Max(out)] /\ StackOK(r.stack, Pushed(t, s, p))
  BY DEF InsideOK
<1>2. /\ p \in Nat /\ p \in Entry /\ open \in SUBSET Entry /\ open \subseteq Nat
      /\ \A d \in open : d < p
  BY <1>1, OpenFacts
<1>3. p \in Body(s) \ Sites(s)
  BY <1>1 DEF Sites
<1>4. z \in Body(s) \ {s} /\ Open(s, z) = open \cup {p}
  BY <1>1, BodyInto
<1>5. file.stop \in Body(s) => z <= file.stop
  <2>1. file.stop \in Nat /\ (file.stop \in Body(s) => p < file.stop)
    BY <1>1, NoStopYet, EntryFacts
  <2> QED
    BY <1>2, <2>1
<1>6. MapTo(t, s, z) = x.m
  <2>1. \A e \in Body(s) : e < z <=> e <= p
    BY <1>2, CallerFacts
  <2> HIDE DEF z
  <2> QED
    BY <1>1, <1>3, <2>1, MapPast
<1>7. in = out
  BY <1>3, <1>4
<1>8. StackOK(x.stack, Pushed(t, s, z))
  <2> DEFINE f == Pushed(t, s, p)
             g == Pushed(t, s, z)
  <2>1. DOMAIN f = open /\ DOMAIN g = open \cup {p}
    BY <1>4 DEF Pushed
  <2>2. \A d \in open : g[d] = f[d]
    BY <1>4 DEF Pushed
  <2>3. g[p] = None
    BY <1>3, <1>4 DEF Pushed
  <2>4. StackOK(r.stack, f) /\ DOMAIN f \subseteq Nat
    BY <1>1, <1>2, <2>1
  <2> HIDE DEF f, g, open
  <2>5. StackOK(Append(r.stack, g[p]), g)
    <3>1. DOMAIN g = DOMAIN f \cup {p} /\ \A d \in DOMAIN f : d < p /\ g[d] = f[d]
      BY <1>2, <2>1, <2>2
    <3>2. PICK stack : stack = r.stack
      OBVIOUS
    <3>3. p \in Nat /\ StackOK(stack, f)
      BY <1>2, <2>4, <3>2
    <3>4. StackOK(Append(stack, g[p]), g)
      BY ONLY <3>1, <3>3, <2>4, PushOne
    <3> QED
      BY <3>2, <3>4
  <2>6. x.stack = Append(r.stack, g[p])
    BY <2>3
  <2>7. StackOK(x.stack, g)
    BY <2>5, <2>6
  <2> QED
    BY <2>7 DEF g
<1>9. x.outer = c[Max(in)]
  BY <1>1, <1>7
<1>10. x.pos = z
  OBVIOUS
<1> HIDE DEF z, c
<1> QED
  BY <1>4, <1>5, <1>6, <1>8, <1>9, <1>10 DEF InsideOK, c

\* A nested function, which is skipped, or an entry that has no children.
LEMMA InsidePast ==
  ASSUME file \in Files, NEW s \in Subprograms, NEW t, NEW r, NEW x,
         InsideOK(t, s, r), NEW p, p = r.pos, p # file.stop,
         Tag(p) \notin {"inlined", "end"}, Tag(p) = "subprogram" \/ ~ file.entries[p].children,
         x.pos = file.after[p], x.outer = r.outer, x.m = r.m, x.stack = r.stack
  PROVE  InsideOK(t, s, x)
<1> DEFINE c == Chart(t, s)
           z == file.after[p]
<1>1. /\ p \in Body(s) \ {s} /\ (file.stop \in Body(s) => p <= file.stop)
      /\ r.m = MapTo(t, s, p) /\ r.outer = c[Max(Open(s, p) \cap Sites(s))]
      /\ StackOK(r.stack, Pushed(t, s, p))
  BY DEF InsideOK
<1>2. z \in Body(s) \ {s} /\ Open(s, z) = Open(s, p) /\ \A e \in Body(s) : e < z <=> e <= p
  BY <1>1, BodyBehind
<1>3. p \in Body(s) \ Sites(s) /\ p \in Nat /\ z \in Nat
  <2>1. p \in Nat /\ z \in Nat
    BY <1>1, <1>2, CallerFacts
  <2> QED
    BY <1>1, <2>1 DEF Sites
<1>4. file.stop \in Body(s) => z <= file.stop
  <2>1. file.stop \in Nat /\ (file.stop \in Body(s) => p < file.stop)
    BY <1>1, NoStopYet, EntryFacts
  <2>2. file.stop \in Body(s) => ~ (file.stop < z)
    BY <1>2, <1>3, <2>1
  <2> QED
    BY <1>3, <2>1, <2>2
<1>5. MapTo(t, s, z) = x.m
  <2> HIDE DEF z
  <2> QED
    BY <1>1, <1>2, <1>3, MapPast
<1>6. Pushed(t, s, z) = Pushed(t, s, p)
  BY <1>2 DEF Pushed
<1>7. x.pos = z
  OBVIOUS
<1>8. x.outer = c[Max(Open(s, z) \cap Sites(s))] /\ StackOK(x.stack, Pushed(t, s, z))
  BY <1>1, <1>2, <1>6
<1> HIDE DEF z, c
<1> QED
  BY <1>2, <1>4, <1>5, <1>7, <1>8 DEF InsideOK, c

\* A site, unlike what is pushed for other entries, is not nil.
LEMMA SiteIs ==
  ASSUME file \in Files, NoneIsNoSite, NEW s \in Subprograms, NEW t, NEW e \in Sites(s)
  PROVE  /\ Chart(t, s)[e] # None /\ Chart(t, s)[e].entry = e
         /\ Chart(t, s)[e].caller = IF e = s THEN None ELSE Chart(t, s)[CallerOf(s, e)]
<1> DEFINE up == IF e = s THEN None ELSE Chart(t, s)[CallerOf(s, e)]
<1>1. Chart(t, s)[e] = Site(t, e, up)
  BY ChartIs
<1> HIDE DEF up
<1>2. Chart(t, s)[e] # None
  BY <1>1 DEF NoneIsNoSite
<1>3. Chart(t, s)[e].entry = e /\ Chart(t, s)[e].caller = up
  BY <1>1 DEF Site
<1> QED
  BY <1>2, <1>3 DEF up

LEMMA OuterIs ==
  ASSUME file \in Files, NoneIsNoSite, NEW s \in Subprograms, NEW t, NEW r, InsideOK(t, s, r)
  PROVE  r.outer # None
<1> DEFINE out == Open(s, r.pos) \cap Sites(s)
<1>1. r.pos \in Body(s) \ {s} /\ r.outer = Chart(t, s)[Max(out)]
  BY DEF InsideOK
<1>2. out \in SUBSET Entry /\ out # {}
  BY <1>1, OpenFacts
<1>3. Max(out) \in Sites(s)
  <2>1. Max(out) \in out
    <3> HIDE DEF out
    <3> QED
      BY <1>2, LastEntry
  <2> QED
    BY <2>1
<1> HIDE DEF out
<1> QED
  BY <1>1, <1>3, SiteIs

\* The end of the last entry that is open: the subprogram itself, and the map is
\* complete, or another.
LEMMA InsideEnd ==
  ASSUME file \in Files, NoneIsNoSite, NEW s \in Subprograms, NEW t, NEW r, NEW x,
         InsideOK(t, s, r), NEW p, p = r.pos, p # file.stop, Tag(p) = "end",
         x.pos = p + 1, x.m = r.m, x.stack = Front(r.stack),
         x.outer = IF Last(r.stack) # None THEN Last(r.stack).caller ELSE r.outer
  PROVE  /\ r.stack # <<>>
         /\ IF x.outer = None THEN x.m = FullMap(t, s) ELSE InsideOK(t, s, x)
<1> DEFINE c == Chart(t, s)
           z == p + 1
           open == Open(s, p)
           out == open \cap Sites(s)
           f == Pushed(t, s, p)
<1>1. /\ p \in Body(s) \ {s} /\ (file.stop \in Body(s) => p <= file.stop)
      /\ r.m = MapTo(t, s, p) /\ r.outer = c[Max(out)] /\ StackOK(r.stack, f)
  BY DEF InsideOK
<1>2. /\ p \in Nat /\ p \in Entry /\ open \in SUBSET Entry /\ open \subseteq Nat
      /\ \A d \in open : d < p /\ d \in Body(s)
      /\ out \in SUBSET Entry /\ s \in out
  BY <1>1, OpenFacts
<1>3. PICK o \in open :
        /\ \A d \in open : d <= o
        /\ Open(s, o) = open \ {o} /\ file.after[o] = z
        /\ o # s => z \in Body(s) \ {s} /\ Open(s, z) = open \ {o}
  BY <1>1, BodyOut
<1>4. DOMAIN f = open /\ f[o] = IF o \in Sites(s) THEN c[o] ELSE None
  BY DEF Pushed
<1>5. p \in Body(s) \ Sites(s)
  BY <1>1 DEF Sites
<1>6. r.stack # <<>> /\ Last(r.stack) = f[o]
  <2> DEFINE g == [d \in open \ {o} |-> f[d]]
  <2>1. DOMAIN g = DOMAIN f \ {o} /\ \A d \in DOMAIN g : g[d] = f[d]
    BY <1>4
  <2>2. PICK stack : stack = r.stack
    OBVIOUS
  <2>3. StackOK(stack, f) /\ DOMAIN f \subseteq Nat /\ o \in DOMAIN f /\ \A d \in DOMAIN f : d <= o
    BY <1>1, <1>2, <1>3, <1>4, <2>2
  <2>4. stack # <<>> /\ Last(stack) = f[o] /\ StackOK(Front(stack), g)
    <3> HIDE DEF f, g, open
    <3> QED
      BY ONLY <2>1, <2>3, PopOne
  <2> QED
    BY <2>2, <2>4
<1>7. CASE o = s
  <2>1. s \in Sites(s) /\ c[s].caller = None /\ c[s] # None
    BY <1>2, SiteIs
  <2>2. f[o] = c[s]
    BY <1>4, <1>7, <2>1
  <2>3. x.outer = None
    BY <1>6, <2>1, <2>2
  <2>4. \A e \in Sites(s) : e < p
    <3>1. ASSUME NEW e \in Sites(s) PROVE e < p
      <4>1. e \in Body(s) /\ e \in Entry /\ e \in Nat /\ s \in Entry /\ s \in Nat
        BY CallerFacts
      <4>2. e = s \/ e < z
        <5>1. e = s \/ Encloses(file.after, s, e)
          BY <4>1 DEF Body
        <5>2. Encloses(file.after, s, e) => e < file.after[s]
          BY DEF Encloses
        <5> QED
          BY <1>3, <1>7, <5>1, <5>2
      <4>3. e # p
        BY <1>5
      <4>4. s < p
        BY <1>2
      <4> QED
        BY <1>2, <4>1, <4>2, <4>3, <4>4
    <3> QED
      BY <3>1
  <2>5. x.m = FullMap(t, s)
    BY <1>1, <2>4, MapFull
  <2> QED
    BY <1>6, <2>3, <2>5
<1>8. CASE o # s
  <2>1. z \in Body(s) \ {s} /\ Open(s, z) = open \ {o} /\ Open(s, o) = open \ {o}
    BY <1>3, <1>8
  <2> DEFINE in == Open(s, z) \cap Sites(s)
  <2>2. x.outer = c[Max(in)]
    <3>1. CASE o \in Sites(s)
      <4>1. f[o] = c[o] /\ c[o] # None /\ c[o].caller = c[CallerOf(s, o)]
        BY <1>4, <1>8, <3>1, SiteIs
      <4>2. CallerOf(s, o) = Max(Open(s, o) \cap Sites(s))
        BY <1>8, <3>1, CallerFacts
      <4>3. Open(s, o) \cap Sites(s) = in
        BY <2>1
      <4> QED
        BY <1>6, <4>1, <4>2, <4>3
    <3>2. CASE o \notin Sites(s)
      <4>1. f[o] = None
        BY <1>4, <3>2
      <4>2. out = in
        BY <2>1, <3>2
      <4> QED
        BY <1>1, <1>6, <4>1, <4>2
    <3> QED
      BY <3>1, <3>2
  <2>3. file.stop \in Body(s) => z <= file.stop
    <3>1. file.stop \in Nat /\ (file.stop \in Body(s) => p < file.stop)
      BY <1>1, NoStopYet, EntryFacts
    <3> QED
      BY <1>2, <3>1
  <2>4. MapTo(t, s, z) = x.m
    <3>1. \A e \in Body(s) : e < z <=> e <= p
      BY <1>2, CallerFacts
    <3> HIDE DEF z
    <3> QED
      BY <1>1, <1>5, <3>1, MapPast
  <2>5. StackOK(x.stack, Pushed(t, s, z))
    <3> DEFINE g == Pushed(t, s, z)
    <3>1. DOMAIN g = DOMAIN f \ {o} /\ \A d \in DOMAIN g : g[d] = f[d]
      BY <2>1, <1>4 DEF Pushed
    <3>2. PICK stack : stack = r.stack
      OBVIOUS
    <3>3. StackOK(stack, f) /\ DOMAIN f \subseteq Nat /\ o \in DOMAIN f /\ \A d \in DOMAIN f : d <= o
      BY <1>1, <1>2, <1>3, <1>4, <3>2
    <3>4. StackOK(Front(stack), g)
      <4> HIDE DEF f, g, open
      <4> QED
        BY ONLY <3>1, <3>3, PopOne
    <3> HIDE DEF g
    <3>5. StackOK(x.stack, g)
      BY <3>2, <3>4
    <3> QED
      BY <3>5 DEF g
  <2>6. x.pos = z
    OBVIOUS
  <2>7. InsideOK(t, s, x)
    <3> HIDE DEF z, c
    <3> QED
      BY <2>1, <2>2, <2>3, <2>4, <2>5, <2>6 DEF InsideOK, c
  <2>8. x.outer # None
    BY <2>7, OuterIs
  <2> QED
    BY <1>6, <2>7, <2>8
<1> QED
  BY <1>7, <1>8

\* Where nothing more can be read, the map has what there is.
LEMMA WalkStops ==
  ASSUME file \in Files, NEW s \in Subprograms, NEW t, NEW r, NEW p, p = r.pos, ~ Reads(p),
         \/ p = s /\ r.m = NoMap
         \/ InsideOK(t, s, r)
         \/ BehindOK(t, s, r)
  PROVE  r.m = FullMap(t, s)
<1>1. /\ s \in Sites(s) /\ s \in Body(s) /\ Body(s) \subseteq Entry /\ Sites(s) \subseteq Body(s)
      /\ s \in Entry
  BY CallerFacts
<1>2. ASSUME p \in Body(s), r.m = MapTo(t, s, p) PROVE r.m = FullMap(t, s)
  <2>1. p = file.stop
    BY <1>1, <1>2 DEF Reads
  <2>2. ASSUME NEW e \in Reached(Body(s)) PROVE e < p
    <3>1. e \in Body(s) /\ ~ (file.stop <= e)
      BY <1>2, <2>1 DEF Reached
    <3>2. e \in Nat /\ file.stop \in Nat
      BY <1>1, <3>1, EntryFacts
    <3> QED
      BY <2>1, <3>1, <3>2
  <2> QED
    BY <1>2, <2>2, MapFull
<1>3. CASE p = s /\ r.m = NoMap
  BY <1>1, <1>2, <1>3, MapStart
<1>4. CASE InsideOK(t, s, r)
  BY <1>2, <1>4 DEF InsideOK
<1>5. CASE BehindOK(t, s, r)
  BY <1>5 DEF BehindOK
<1> QED
  BY <1>3, <1>4, <1>5

\* Behind a function without children no inlined call is outside of functions that
\* begin after it.
LEMMA BehindCall ==
  ASSUME file \in Files, Tidy, NEW c \in Entry, Tag(c) = "unit", NEW s \in Subprograms,
         s \in Children(c), ~ file.entries[s].children, NEW p \in Entry, Behind(s, p)
  PROVE  Tag(p) # "inlined"
<1> SUFFICES ASSUME Tag(p) = "inlined" PROVE FALSE
  OBVIOUS
<1>1. PICK n \in Subprograms : Encloses(file.after, n, p)
  BY DEF Tidy
<1>2. n \in Entry /\ n \in Nat /\ s \in Entry /\ s \in Nat /\ p \in Nat /\ c \in Nat
  BY EntryFacts DEF Subprograms
<1>3. n # s
  BY <1>1, <1>2, EncloseFacts
<1>4. n < s
  BY <1>1, <1>2, <1>3 DEF Behind
<1>5. Encloses(file.after, n, s)
  <2>1. n < p /\ p < file.after[n] /\ file.after[n] \in Nat /\ s < p
    BY <1>1, <1>2, EncloseFacts DEF Behind
  <2> QED
    BY <1>2, <1>4, <2>1 DEF Encloses
<1>6. Encloses(file.after, c, s) /\ \A i \in c + 1..s - 1 : ~ Encloses(file.after, i, s)
  BY DEF Children
<1>7. ~ (c < n)
  <2>1. c < n => n \in c + 1..s - 1
    BY <1>2, <1>4
  <2> QED
    BY <1>5, <1>6, <2>1
<1>8. n # c
  BY <1>1 DEF Subprograms
<1>9. n < c
  BY <1>2, <1>7, <1>8
<1>10. Encloses(file.after, n, c)
  <2>1. c < s
    BY <1>6 DEF Encloses
  <2>2. s < file.after[n] /\ file.after[n] \in Nat
    BY <1>2, <1>5, EncloseFacts
  <2> QED
    BY <1>2, <1>9, <2>1, <2>2 DEF Encloses
<1> QED
  BY <1>2, <1>10 DEF Tidy

\* Going on from there.
LEMMA BehindNext ==
  ASSUME file \in Files, NEW s \in Subprograms, NEW p \in Entry, Behind(s, p)
  PROVE  Behind(s, file.after[p]) /\ (Tag(p) # "subprogram" => Behind(s, p + 1))
<1>1. /\ s \in Entry /\ s \in Nat /\ p \in Nat /\ p > s /\ file.after[p] \in Nat
      /\ Subprograms \subseteq Nat /\ Subprograms \subseteq Entry /\ p + 1 <= file.after[p]
  <2>1. /\ s \in Entry /\ s \in Nat /\ p \in Nat /\ p > s /\ Subprograms \subseteq Nat
        /\ Subprograms \subseteq Entry
    BY EntryFacts DEF Behind, Subprograms
  <2>2. file.after[p] \in 2..Len(file.entries) + 1 /\ Len(file.entries) \in Nat
    BY EntryFacts
  <2>3. p + 1 <= file.after[p]
    <3>1. IF file.entries[p].children THEN file.after[p] > p + 1 ELSE file.after[p] = p + 1
      BY EntryFacts
    <3> QED
      BY <2>1, <2>2, <3>1
  <2> QED
    BY <2>1, <2>2, <2>3
<1>2. ASSUME NEW n \in Subprograms, n > s, NEW z \in Nat, p < z, n < z, z < file.after[n],
             z = p + 1 \/ z = file.after[p]
      PROVE  n = p /\ z # file.after[p]
  <2>1. n \in Nat /\ n \in Entry /\ ~ Encloses(file.after, n, p)
    BY <1>1, <1>2 DEF Behind
  <2>2. file.after[n] \in Nat
    <3>1. file.after[n] \in 2..Len(file.entries) + 1
      BY <2>1, EntryFacts
    <3> QED
      BY <3>1
  <2>3. ~ (n < p)
    <3>1. p < file.after[n]
      BY <1>1, <1>2, <2>2
    <3> QED
      BY <2>1, <3>1 DEF Encloses
  <2>4. ~ (p < n)
    <3>1. ASSUME p < n PROVE FALSE
      <4>1. Encloses(file.after, p, n)
        BY <1>1, <1>2, <2>1, <3>1 DEF Encloses
      <4>2. file.after[n] <= file.after[p]
        BY <2>1, <4>1, EncloseFacts
      <4> QED
        BY <1>1, <1>2, <2>1, <2>2, <3>1, <4>2
    <3> QED
      BY <3>1
  <2>5. n = p
    BY <1>1, <2>1, <2>3, <2>4
  <2> QED
    BY <1>1, <1>2, <2>2, <2>5
<1> DEFINE z1 == file.after[p]
           z2 == p + 1
<1>3. ASSUME NEW n \in Subprograms, n > s PROVE ~ Encloses(file.after, n, z1)
  <2>1. p < z1 /\ z1 \in Nat
    BY <1>1
  <2> HIDE DEF z1
  <2>2. z1 = file.after[p]
    BY DEF z1
  <2> QED
    BY <1>2, <1>3, <2>1, <2>2 DEF Encloses
<1>4. ASSUME Tag(p) # "subprogram", NEW n \in Subprograms, n > s PROVE ~ Encloses(file.after, n, z2)
  <2>1. p < z2 /\ z2 \in Nat /\ z2 = p + 1
    BY <1>1
  <2>2. n # p
    BY <1>4 DEF Subprograms
  <2> HIDE DEF z2
  <2> QED
    BY <1>2, <1>4, <2>1, <2>2 DEF Encloses
<1>5. z1 > s /\ z2 > s
  BY <1>1
<1> QED
  BY <1>3, <1>4, <1>5 DEF Behind

\* A step of the walk inside the subprogram, and behind one without children.
LEMMA InsideStep ==
  ASSUME file \in Files, NoneIsNoSite, Tidy, file.siblings \/ file.stop = 0,
         NEW s \in Subprograms, NEW t, NEW r, IsCall(r), r.at = "walk", InsideOK(t, s, r),
         Reads(r.pos)
  PROVE  LET x == WalkEntry(t, IF Tag(r.pos) = "end" THEN Popped(r) ELSE r)
         IN IF x.at = "walk" THEN InsideOK(t, s, x) ELSE x.m = FullMap(t, s)
<1> DEFINE x == WalkEntry(t, IF Tag(r.pos) = "end" THEN Popped(r) ELSE r)
<1>1. PICK p : p = r.pos
  OBVIOUS
<1>2. p \in Body(s) \ {s} /\ p \in Entry /\ p # file.stop
  BY <1>1 DEF InsideOK, Reads
<1>3. r.outer # None
  BY OuterIs
<1>4. CASE Tag(p) = "inlined"
  <2>1. x = WalkEntry(t, r)
    BY <1>1, <1>4
  <2> DEFINE y == Site(t, p, r.outer)
  <2>2. /\ x.pos = p + 1 /\ x.stack = Append(r.stack, y) /\ x.outer = y
        /\ x.m = AddRanges(r.m, p, y) /\ x.at = "walk"
    BY <1>1, <1>4, <2>1, EnterSite
  <2> HIDE DEF x
  <2>3. InsideOK(t, s, x)
    BY <1>1, <1>2, <1>4, <2>2, InsideCall
  <2> QED
    BY <2>2, <2>3 DEF x
<1>5. CASE Tag(p) = "subprogram"
  <2>1. x = WalkEntry(t, r)
    BY <1>1, <1>5
  <2>2. Skip(p) = file.after[p]
    BY <1>2, SkipFacts
  <2>3. /\ x.pos = file.after[p] /\ x.stack = r.stack /\ x.outer = r.outer
        /\ x.m = r.m /\ x.at = "walk"
    BY <1>1, <1>3, <1>5, <2>1, <2>2, SkipNested
  <2> HIDE DEF x
  <2>4. InsideOK(t, s, x)
    BY <1>1, <1>2, <1>5, <2>3, InsidePast
  <2> QED
    BY <2>3, <2>4 DEF x
<1>6. CASE Tag(p) \notin {"inlined", "subprogram", "end"}
  <2>1. x = WalkEntry(t, r)
    BY <1>1, <1>6
  <2>2. /\ x.pos = p + 1 /\ x.outer = r.outer /\ x.m = r.m /\ x.at = "walk"
        /\ x.stack = IF file.entries[p].children THEN Append(r.stack, None) ELSE r.stack
    BY <1>1, <1>3, <1>6, <2>1, PassOther
  <2> HIDE DEF x
  <2>3. CASE file.entries[p].children
    <3>1. x.stack = Append(r.stack, None)
      BY <2>2, <2>3
    <3>2. InsideOK(t, s, x)
      BY <1>1, <1>2, <1>6, <2>2, <2>3, <3>1, InsideBlock
    <3> QED
      BY <2>2, <3>2 DEF x
  <2>4. CASE ~ file.entries[p].children
    <3>1. x.stack = r.stack
      BY <2>2, <2>4
    <3>2. file.after[p] = p + 1
      BY <1>2, <2>4, EntryFacts
    <3>3. x.pos = file.after[p]
      BY <2>2, <3>2
    <3>4. InsideOK(t, s, x)
      BY <1>1, <1>2, <1>6, <2>2, <2>4, <3>1, <3>3, InsidePast
    <3> QED
      BY <2>2, <3>4 DEF x
  <2> QED
    BY <2>3, <2>4
<1>7. CASE Tag(p) = "end"
  <2> DEFINE o == Popped(r)
  <2>1. x = WalkEntry(t, o)
    BY <1>1, <1>7
  <2>2. r.stack # <<>>
    <3> DEFINE y == [pos |-> p + 1, m |-> r.m, stack |-> Front(r.stack),
                     outer |-> IF Last(r.stack) # None THEN Last(r.stack).caller ELSE r.outer]
    <3>1. /\ y.pos = p + 1 /\ y.m = r.m /\ y.stack = Front(r.stack)
          /\ y.outer = IF Last(r.stack) # None THEN Last(r.stack).caller ELSE r.outer
      OBVIOUS
    <3> HIDE DEF y
    <3> QED
      BY <1>1, <1>2, <1>7, <3>1, InsideEnd
  <2>3. /\ IsCall(o) /\ o.pos = p /\ o.m = r.m /\ o.at = "walk"
        /\ o.stack = Front(r.stack)
        /\ o.outer = IF Last(r.stack) # None THEN Last(r.stack).caller ELSE r.outer
    BY <1>1, <2>2, PopsSite
  <2>4. ~ file.entries[p].children
    BY <1>2, <1>7, EntryFacts
  <2> HIDE DEF o
  <2>5. /\ x.pos = p + 1 /\ x.outer = o.outer /\ x.m = o.m /\ x.stack = o.stack
        /\ x.at = IF o.outer = None THEN "store" ELSE "walk"
    BY <1>7, <2>1, <2>3, <2>4, PassOther
  <2> HIDE DEF x
  <2>6. IF x.outer = None THEN x.m = FullMap(t, s) ELSE InsideOK(t, s, x)
    BY <1>1, <1>2, <1>7, <2>3, <2>5, InsideEnd
  <2>7. IF x.at = "walk" THEN InsideOK(t, s, x) ELSE x.m = FullMap(t, s)
    BY <2>5, <2>6
  <2> QED
    BY <2>7 DEF x
<1> HIDE DEF x
<1>8. IF x.at = "walk" THEN InsideOK(t, s, x) ELSE x.m = FullMap(t, s)
  BY <1>4, <1>5, <1>6, <1>7 DEF x
<1> QED
  BY <1>8 DEF x

LEMMA BehindStep ==
  ASSUME file \in Files, NoneIsNoSite, Tidy, file.siblings \/ file.stop = 0,
         NEW c \in Entry, Tag(c) = "unit", NEW s \in Subprograms, s \in Children(c),
         ~ file.entries[s].children,
         NEW t, NEW r, IsCall(r), r.at = "walk", BehindOK(t, s, r), Reads(r.pos)
  PROVE  LET x == WalkEntry(t, IF Tag(r.pos) = "end" THEN Popped(r) ELSE r)
         IN IF x.at = "walk" THEN BehindOK(t, s, x) ELSE x.m = FullMap(t, s)
<1> DEFINE x == WalkEntry(t, IF Tag(r.pos) = "end" THEN Popped(r) ELSE r)
           site == Chart(t, s)[s]
<1>1. PICK p : p = r.pos
  OBVIOUS
<1>2. /\ p \in Entry /\ Behind(s, p) /\ r.m = FullMap(t, s) /\ r.outer = site
      /\ r.stack \in Seq({site, None})
  BY <1>1 DEF BehindOK, Reads, Behind
<1>3. site # None /\ site.caller = None
  <2>1. s \in Sites(s)
    BY CallerFacts
  <2> QED
    BY <2>1, SiteIs
<1>4. Behind(s, file.after[p]) /\ (Tag(p) # "subprogram" => Behind(s, p + 1))
  BY <1>2, BehindNext
<1>5. Tag(p) # "inlined"
  BY <1>2, BehindCall
<1>6. ASSUME NEW y, Behind(s, y.pos), y.m = FullMap(t, s), y.outer = site,
             y.stack \in Seq({site, None})
      PROVE  BehindOK(t, s, y)
  BY <1>6 DEF BehindOK, Behind
<1> HIDE DEF site
<1>7. CASE Tag(p) = "subprogram"
  <2>1. x = WalkEntry(t, r)
    BY <1>1, <1>7
  <2>2. Skip(p) = file.after[p]
    BY <1>2, SkipFacts
  <2>3. /\ x.pos = file.after[p] /\ x.stack = r.stack /\ x.outer = r.outer
        /\ x.m = r.m /\ x.at = "walk"
    BY <1>1, <1>2, <1>3, <1>7, <2>1, <2>2, SkipNested
  <2> HIDE DEF x
  <2>4. BehindOK(t, s, x)
    BY <1>2, <1>4, <1>6, <2>3
  <2> QED
    BY <2>3, <2>4 DEF x
<1>8. CASE Tag(p) \notin {"inlined", "subprogram", "end"}
  <2>1. x = WalkEntry(t, r)
    BY <1>1, <1>8
  <2>2. /\ x.pos = p + 1 /\ x.outer = r.outer /\ x.m = r.m /\ x.at = "walk"
        /\ x.stack = IF file.entries[p].children THEN Append(r.stack, None) ELSE r.stack
    BY <1>1, <1>2, <1>3, <1>8, <2>1, PassOther
  <2> HIDE DEF x
  <2>3. x.stack \in Seq({site, None})
    BY <1>2, <2>2
  <2>4. BehindOK(t, s, x)
    BY <1>2, <1>4, <1>6, <1>8, <2>2, <2>3
  <2> QED
    BY <2>2, <2>4 DEF x
<1>9. CASE Tag(p) = "end"
  <2> DEFINE o == Popped(r)
  <2>1. x = WalkEntry(t, o)
    BY <1>1, <1>9
  <2>2. /\ IsCall(o) /\ o.pos = p /\ o.m = r.m /\ o.at = "walk"
        /\ r.stack = <<>> => o.stack = <<>> /\ o.outer = r.outer
        /\ r.stack # <<>> => /\ o.stack = Front(r.stack)
                             /\ o.outer = IF Last(r.stack) # None THEN Last(r.stack).caller
                                          ELSE r.outer
    BY <1>1, PopsSite
  <2>3. r.stack # <<>> => Front(r.stack) \in Seq({site, None}) /\ Last(r.stack) \in {site, None}
    <3>1. ASSUME NEW k, k \in Seq({site, None}), k # <<>>
          PROVE  Front(k) \in Seq({site, None}) /\ Last(k) \in {site, None}
      <4>1. Len(k) \in Nat /\ Len(k) # 0
        BY <3>1
      <4>2. Len(k) \in 1..Len(k) /\ Len(k) - 1 \in Nat /\ Len(k) - 1 <= Len(k)
        BY <4>1
      <4>3. Last(k) \in {site, None}
        BY <3>1, <4>2, ElementOfSeq DEF Last
      <4>4. SubSeq(k, 1, Len(k) - 1) \in Seq({site, None})
        BY <3>1, <4>2
      <4> QED
        BY <4>3, <4>4 DEF Front
    <3> QED
      BY <1>2, <3>1
  <2>4. o.stack \in Seq({site, None}) /\ o.outer \in {site, None}
    BY <1>2, <1>3, <2>2, <2>3
  <2>5. ~ file.entries[p].children
    BY <1>2, <1>9, EntryFacts
  <2> HIDE DEF o
  <2>6. /\ x.pos = p + 1 /\ x.outer = o.outer /\ x.m = r.m /\ x.stack = o.stack
        /\ x.at = IF o.outer = None THEN "store" ELSE "walk"
    BY <1>9, <2>1, <2>2, <2>5, PassOther
  <2> HIDE DEF x
  <2>7. CASE o.outer = None
    BY <1>2, <2>6, <2>7 DEF x
  <2>8. CASE o.outer # None
    <3>1. BehindOK(t, s, x)
      BY <1>2, <1>4, <1>6, <1>9, <2>4, <2>6, <2>8
    <3> QED
      BY <2>6, <2>8, <3>1 DEF x
  <2> QED
    BY <2>7, <2>8
<1> HIDE DEF x
<1>10. IF x.at = "walk" THEN BehindOK(t, s, x) ELSE x.m = FullMap(t, s)
  BY <1>5, <1>7, <1>8, <1>9 DEF x
<1> QED
  BY <1>10 DEF x

\* Any step of it.
LEMMA WalkStep ==
  ASSUME file \in Files, NoneIsNoSite, Tidy, file.siblings \/ file.stop = 0,
         NEW c \in Entry, Tag(c) = "unit", NEW s \in Subprograms, s \in Children(c),
         NEW t, NEW r, IsCall(r), r.at = "walk", WalkOK(t, r), r.sub = s, Reads(r.pos),
         NEW x, x = WalkEntry(t, IF Tag(r.pos) = "end" THEN Popped(r) ELSE r), x.sub = s
  PROVE  IF x.at = "walk" THEN WalkOK(t, x) ELSE x.m = FullMap(t, s)
<1>1. \/ r.pos = s /\ r.m = NoMap /\ r.stack = <<>> /\ r.outer = None
      \/ s # file.stop /\ file.entries[s].children /\ InsideOK(t, s, r)
      \/ s # file.stop /\ ~ file.entries[s].children /\ BehindOK(t, s, r)
  BY DEF WalkOK
<1>2. /\ s # file.stop /\ file.entries[s].children /\ InsideOK(t, s, x) => WalkOK(t, x)
      /\ s # file.stop /\ ~ file.entries[s].children /\ BehindOK(t, s, x) => WalkOK(t, x)
  BY DEF WalkOK
<1>3. s \in Entry /\ file.entries[s].children \in BOOLEAN /\ Tag(s) = "subprogram"
  BY EntryFacts DEF Subprograms
<1>4. CASE r.pos = s /\ r.m = NoMap /\ r.stack = <<>> /\ r.outer = None
  <2> DEFINE y == Site(t, s, None)
  <2>1. PICK p : p = s
    OBVIOUS
  <2>2. p = r.pos /\ Tag(p) = "subprogram" /\ r.outer = None /\ s # file.stop
    BY <1>3, <1>4, <2>1 DEF Reads
  <2>3. x = WalkEntry(t, r)
    BY <2>2
  <2>4. /\ x.pos = s + 1 /\ x.stack = Append(<<>>, y) /\ x.outer = y
        /\ x.m = AddRanges(NoMap, s, y) /\ x.at = "walk"
    BY <1>4, <2>1, <2>2, <2>3, EnterSite
  <2> HIDE DEF y
  <2>5. IF file.entries[s].children THEN InsideOK(t, s, x) ELSE BehindOK(t, s, x)
    BY <2>2, <2>4, StartWalk DEF y
  <2> QED
    BY <1>2, <1>3, <2>2, <2>4, <2>5
<1>5. CASE s # file.stop /\ file.entries[s].children /\ InsideOK(t, s, r)
  <2>1. IF x.at = "walk" THEN InsideOK(t, s, x) ELSE x.m = FullMap(t, s)
    BY <1>5, InsideStep
  <2> QED
    BY <1>2, <1>5, <2>1
<1>6. CASE s # file.stop /\ ~ file.entries[s].children /\ BehindOK(t, s, r)
  <2>1. IF x.at = "walk" THEN BehindOK(t, s, x) ELSE x.m = FullMap(t, s)
    BY <1>6, BehindStep
  <2> QED
    BY <1>2, <1>6, <2>1
<1> QED
  BY <1>1, <1>4, <1>5, <1>6

-----------------------------------------------------------------------------
(* That the walks are right is kept *)

LEMMA SameWalkers ==
  ASSUME file' = file
  PROVE  \A t, r : WalkerOK(t, r)' <=> WalkerOK(t, r)
BY SameFile, SameWalks, SameCharts DEF WalkerOK, NoMap, Addr

\* One goroutine moves, and the cache is what some goroutine made.
LEMMA OneWalks ==
  ASSUME IInv, InlineInv, NEW t \in Thread, NEW r, Moves(t, r), WalkerOK(t, r),
         UNCHANGED <<file, new>>,
         \A s \in Entry : cache'[s] # <<>> =>
           cache'[s] = cache[s] \/ (s \in Subprograms /\ \E u \in Thread : cache'[s] = <<FullMap(u, s)>>)
  PROVE  InlineInv'
<1>1. \A c \in new'.cus : Tag(c)' = "unit"
  BY DEF InlineInv, Tag
<1>2. ASSUME NEW u \in Thread PROVE WalkerOK(u, th'[u])
  <2>1. u = t => th'[u] = r
    BY DEF Moves
  <2>2. u # t => th'[u] = th[u]
    BY DEF Moves
  <2> QED
    BY <2>1, <2>2 DEF InlineInv
<1>3. \A u \in Thread : WalkerOK(u, th[u])'
  BY <1>2, SameWalkers
<1>4. \A s \in Entry : cache'[s] # <<>> =>
        s \in Subprograms /\ \E u \in Thread : cache'[s] = <<FullMap(u, s)>>
  BY DEF InlineInv
<1>5. Entry' = Entry /\ Subprograms' = Subprograms /\ \A u, s : FullMap(u, s)' = FullMap(u, s)
  BY SameFile, SameCharts
<1> QED
  BY <1>1, <1>3, <1>4, <1>5 DEF InlineInv

LEMMA IdleWalker == \A t : WalkerOK(t, Idle)
BY DEF WalkerOK, Idle, InCall

\* Before its walk, a call keeps what a walk starts with.
LEMMA BeforeWalk ==
  ASSUME NEW t, NEW q, NEW r, WalkerOK(t, q), q.at \notin {"walk", "store"},
         r.m = q.m, r.stack = q.stack, r.outer = q.outer, r.at \notin {"walk", "store"},
         r.at \in {"cached", "inline table"} => r.sub \in Subprograms
  PROVE  WalkerOK(t, r)
BY DEF WalkerOK

\* What steps outside of inlineRanges do to a call.
LEMMA OutsideStep ==
  ASSUME IInv, InlineInv, NEW t \in Thread, th[t].at \in {"table", "inline table", "index", "indexing"},
         UNCHANGED <<file, new, cache>>,
         \/ th' = th \/ Go(t, Idle)
         \/ \E at \in {"index", "indexing"} : Go(t, [th[t] EXCEPT !.at = at])
         \/ \E at \in {"index", "indexing"} : \E pos : Go(t, [th[t] EXCEPT !.at = at, !.pos = pos])
         \/ \E pos : Go(t, [th[t] EXCEPT !.pos = pos]) /\ th[t].at = "indexing"
  PROVE  InlineInv'
<1>1. PICK q : q = th[t]
  OBVIOUS
<1>2. WalkerOK(t, q) /\ q.at \in {"table", "inline table", "index", "indexing"}
  BY <1>1 DEF InlineInv
<1>3. IsCall(q)
  BY <1>1 DEF IInv, CallOK, CallRight
<1>4. ASSUME NEW r, Moves(t, r), WalkerOK(t, r) PROVE InlineInv'
  BY <1>4, OneWalks
<1>5. CASE th' = th
  BY <1>1, <1>2, <1>4, <1>5, StaysPut
<1>6. CASE Go(t, Idle)
  BY <1>4, <1>6, GoMoves, IdleWalker
<1>7. ASSUME NEW at \in {"index", "indexing"}, Go(t, [th[t] EXCEPT !.at = at])
      PROVE  InlineInv'
  <2>1. PICK r : r = [q EXCEPT !.at = at]
    OBVIOUS
  <2>2. r.m = q.m /\ r.stack = q.stack /\ r.outer = q.outer /\ r.at = at
    BY <1>3, <2>1 DEF IsCall, Idle, InCall
  <2>3. WalkerOK(t, r)
    BY <1>2, <2>2, BeforeWalk
  <2> QED
    BY <1>1, <1>4, <1>7, <2>1, <2>3, GoMoves
<1>8. ASSUME NEW at \in {"index", "indexing"}, NEW pos, Go(t, [th[t] EXCEPT !.at = at, !.pos = pos])
      PROVE  InlineInv'
  <2>1. PICK r : r = [q EXCEPT !.at = at, !.pos = pos]
    OBVIOUS
  <2>2. r.m = q.m /\ r.stack = q.stack /\ r.outer = q.outer /\ r.at = at
    BY <1>3, <2>1 DEF IsCall, Idle, InCall
  <2>3. WalkerOK(t, r)
    BY <1>2, <2>2, BeforeWalk
  <2> QED
    BY <1>1, <1>4, <1>8, <2>1, <2>3, GoMoves
<1>9. ASSUME NEW pos, Go(t, [th[t] EXCEPT !.pos = pos]), th[t].at = "indexing"
      PROVE  InlineInv'
  <2>1. PICK r : r = [q EXCEPT !.pos = pos]
    OBVIOUS
  <2>2. r.m = q.m /\ r.stack = q.stack /\ r.outer = q.outer /\ r.at = "indexing"
    BY <1>1, <1>3, <1>9, <2>1 DEF IsCall, Idle, InCall
  <2>3. WalkerOK(t, r)
    BY <1>2, <2>2, BeforeWalk
  <2> QED
    BY <1>1, <1>4, <1>9, <2>1, <2>3, GoMoves
<1> QED
  BY <1>5, <1>6, <1>7, <1>8, <1>9

LEMMA CuRangesWalks ==
  ASSUME IInv, InlineInv, CuRanges
  PROVE  InlineInv'
<1>1. /\ UNCHANGED <<file, cache, th>>
      /\ \A c \in new'.cus : c \in new.cus \/ Tag(c) = "unit"
  BY DEF CuRanges
<1>2. \A c \in new'.cus : Tag(c)' = "unit"
  BY <1>1 DEF InlineInv, Tag
<1>3. \A u \in Thread : WalkerOK(u, th[u])'
  BY <1>1, SameWalkers DEF InlineInv
<1>4. Entry' = Entry /\ Subprograms' = Subprograms /\ \A u, s : FullMap(u, s)' = FullMap(u, s)
  BY <1>1, SameFile, SameCharts
<1> QED
  BY <1>1, <1>2, <1>3, <1>4 DEF InlineInv

LEMMA CallWalks ==
  ASSUME IInv, InlineInv, NEW t \in Thread, NEW op, NEW a, Call(t, op, a)
  PROVE  InlineInv'
<1>1. UNCHANGED <<file, new, cache>> /\ (th' = th \/ \E at \in {"table", "index"} : \E o, b, c : Go(t, InCall(at, o, b, c)))
  BY DEF Call, Stay
<1>2. CASE th' = th
  <2>1. PICK q : q = th[t]
    OBVIOUS
  <2> QED
    BY <1>1, <1>2, <2>1, StaysPut, OneWalks DEF InlineInv
<1>3. ASSUME NEW at \in {"table", "index"}, NEW o, NEW b, NEW c, Go(t, InCall(at, o, b, c))
      PROVE  InlineInv'
  <2>1. PICK r : r = InCall(at, o, b, c)
    OBVIOUS
  <2>2. WalkerOK(t, r)
    BY <2>1 DEF WalkerOK, InCall
  <2> QED
    BY <1>1, <1>3, <2>1, <2>2, GoMoves, OneWalks
<1> QED
  BY <1>1, <1>2, <1>3

LEMMA OutsideWalks ==
  ASSUME IInv, InlineInv, NEW t \in Thread,
         TableEnter(t) \/ TableFill(t) \/ SeekTable(t) \/ IndexEnter(t) \/ IndexNext(t)
  PROVE  InlineInv'
<1>1. CASE TableEnter(t)
  BY <1>1, OutsideStep DEF TableEnter, At, Internal
<1>2. CASE TableFill(t)
  <2>1. /\ th[t].at \in {"table", "inline table"} /\ UNCHANGED <<file, new, cache>>
        /\ th' = th \/ Go(t, Idle)
    BY <1>2 DEF TableFill, At, Internal, Return
  <2> QED
    BY <2>1, OutsideStep
<1>3. CASE SeekTable(t)
  <2>1. /\ th[t].at = "table" /\ UNCHANGED <<file, new, cache>>
        /\ Go(t, Idle) \/ Go(t, [th[t] EXCEPT !.at = "index"])
    <3>1. file.lines[th[t].cu] \in {"ok", "bad", "none"}
      <4>1. file.lines \in [Entry -> {"ok", "bad", "none"}]
        BY FilesAssumption DEF FileOK, IInv, Entry
      <4> QED
        BY <1>3, <4>1, CallFacts DEF SeekTable, At
    <3> QED
      BY <1>3, <3>1 DEF SeekTable, At, Internal, Return, Stay
  <2> QED
    BY <2>1, OutsideStep
<1>4. CASE IndexEnter(t)
  <2>1. /\ th[t].at = "index" /\ UNCHANGED <<file, new, cache>>
        /\ \/ th' = th
           \/ \E pos : Go(t, [th[t] EXCEPT !.at = "indexing", !.pos = pos])
    BY <1>4 DEF IndexEnter, At, Internal, Stay
  <2> QED
    BY <2>1, OutsideStep
<1>5. CASE IndexNext(t)
  <2>1. /\ th[t].at = "indexing" /\ UNCHANGED <<file, new, cache>>
        /\ \/ Go(t, [th[t] EXCEPT !.at = "index"])
           \/ \E pos : Go(t, [th[t] EXCEPT !.pos = pos])
    BY <1>5 DEF IndexNext, At, Internal, Stay
  <2> QED
    BY <2>1, OutsideStep
<1> QED
  BY <1>1, <1>2, <1>3, <1>4, <1>5

LEMMA IndexReadyWalks ==
  ASSUME IInv, InlineInv, NEW t \in Thread, IndexReady(t)
  PROVE  InlineInv'
<1> DEFINE sub == subs[th[t].cu][th[t].addr]
<1>1. /\ th[t].at = "index" /\ UNCHANGED <<file, new, cache>> /\ subOnce[th[t].cu] = Done
      /\ \/ Go(t, Idle)
         \/ sub # None /\ Go(t, [th[t] EXCEPT !.at = "cached", !.sub = sub])
  BY DEF IndexReady, At, Internal, Stay, Return
<1>2. CASE Go(t, Idle)
  BY <1>1, <1>2, OutsideStep
<1>3. CASE sub # None /\ Go(t, [th[t] EXCEPT !.at = "cached", !.sub = sub])
  <2>1. th[t].cu \in Entry /\ th[t].addr \in Addr /\ IsCall(th[t])
    BY <1>1, CallFacts DEF At
  <2>2. sub \in Subprograms
    <3>1. IndexedTo(th[t].cu, Len(file.entries) + 1)
      BY <1>1, <2>1 DEF IInv, IndexesOK
    <3>2. sub \in SubprogramsTo(th[t].cu, Len(file.entries) + 1, th[t].addr)
      BY <1>3, <2>1, <3>1 DEF IndexedTo
    <3> QED
      BY <3>2 DEF SubprogramsTo
  <2> HIDE DEF sub
  <2>3. PICK q : q = th[t]
    OBVIOUS
  <2>4. PICK r : r = [q EXCEPT !.at = "cached", !.sub = sub]
    OBVIOUS
  <2>5. r.m = q.m /\ r.stack = q.stack /\ r.outer = q.outer /\ r.at = "cached" /\ r.sub = sub
    BY <2>1, <2>3, <2>4 DEF IsCall, Idle, InCall
  <2>6. WalkerOK(t, q) /\ q.at = "index"
    BY <1>1, <2>3 DEF InlineInv
  <2>7. WalkerOK(t, r)
    BY <2>2, <2>5, <2>6, BeforeWalk
  <2> QED
    BY <1>1, <1>3, <2>3, <2>4, <2>7, GoMoves, OneWalks
<1> QED
  BY <1>1, <1>2, <1>3

LEMMA CacheLoadWalks ==
  ASSUME IInv, InlineInv, NEW t \in Thread, CacheLoad(t)
  PROVE  InlineInv'
<1>1. /\ th[t].at = "cached" /\ UNCHANGED <<file, new, cache>>
      /\ Go(t, Idle) \/ Go(t, [th[t] EXCEPT !.at = "inline table"])
  BY DEF CacheLoad, Serve, Return, Stay, At, Internal
<1>2. CASE Go(t, Idle)
  BY <1>1, <1>2, GoMoves, IdleWalker, OneWalks
<1>3. CASE Go(t, [th[t] EXCEPT !.at = "inline table"])
  <2>1. PICK q : q = th[t]
    OBVIOUS
  <2>2. PICK r : r = [q EXCEPT !.at = "inline table"]
    OBVIOUS
  <2>3. WalkerOK(t, q) /\ q.at = "cached" /\ IsCall(q)
    BY <1>1, <2>1 DEF InlineInv, IInv, CallOK, CallRight
  <2>4. /\ r.m = q.m /\ r.stack = q.stack /\ r.outer = q.outer /\ r.at = "inline table"
        /\ r.sub = q.sub
    BY <2>2, <2>3 DEF IsCall, Idle, InCall
  <2>5. r.sub \in Subprograms
    BY <2>3, <2>4 DEF WalkerOK
  <2>6. WalkerOK(t, r)
    BY <2>3, <2>4, <2>5, BeforeWalk
  <2> QED
    BY <1>1, <1>3, <2>1, <2>2, <2>6, GoMoves, OneWalks
<1> QED
  BY <1>1, <1>2, <1>3

LEMMA InlineStartWalks ==
  ASSUME IInv, InlineInv, NEW t \in Thread, InlineStart(t)
  PROVE  InlineInv'
<1>1. /\ th[t].at = "inline table" /\ UNCHANGED <<file, new, cache>>
      /\ Go(t, Idle) \/ Go(t, [th[t] EXCEPT !.at = "walk", !.pos = th[t].sub])
  BY DEF InlineStart, Serve, Return, Stay, At, Internal
<1>2. CASE Go(t, Idle)
  BY <1>1, <1>2, GoMoves, IdleWalker, OneWalks
<1>3. CASE Go(t, [th[t] EXCEPT !.at = "walk", !.pos = th[t].sub])
  <2>1. PICK q : q = th[t]
    OBVIOUS
  <2>2. PICK s : s = q.sub
    OBVIOUS
  <2>3. PICK r : r = [q EXCEPT !.at = "walk", !.pos = s]
    OBVIOUS
  <2>4. WalkerOK(t, q) /\ q.at = "inline table" /\ IsCall(q)
    BY <1>1, <2>1 DEF InlineInv, IInv, CallOK, CallRight
  <2>5. /\ r.m = q.m /\ r.stack = q.stack /\ r.outer = q.outer /\ r.at = "walk"
        /\ r.sub = s /\ r.pos = s
    BY <2>2, <2>3, <2>4 DEF IsCall, Idle, InCall
  <2>6. s \in Subprograms /\ r.m = NoMap /\ r.stack = <<>> /\ r.outer = None
    BY <2>2, <2>4, <2>5 DEF WalkerOK
  <2>7. WalkerOK(t, r)
    BY <2>5, <2>6 DEF WalkerOK, WalkOK
  <2> QED
    BY <1>1, <1>3, <2>1, <2>2, <2>3, <2>7, GoMoves, OneWalks
<1> QED
  BY <1>1, <1>2, <1>3

LEMMA InlineNextWalks ==
  ASSUME IInv, InlineInv, Tidy, NoneIsNoSite, NEW t \in Thread, InlineNext(t)
  PROVE  InlineInv'
<1>1. PICK q : q = th[t]
  OBVIOUS
<1> DEFINE step == WalkEntry(t, IF Tag(q.pos) = "end" THEN Popped(q) ELSE q)
           r == IF ~ Reads(q.pos) THEN [q EXCEPT !.at = "store"] ELSE step
<1>2. q.at = "walk" /\ Go(t, r) /\ UNCHANGED <<file, new, cache>>
  BY <1>1 DEF InlineNext, At, Internal, Stay
<1>3. /\ IsCall(q) /\ q.cu \in new.cus /\ q.sub \in Children(q.cu)
      /\ file.siblings \/ file.stop = 0
      /\ q.cu \in Entry /\ file \in Files
  BY <1>1, <1>2, SubFacts, CallFacts DEF At, IInv
<1>4. PICK c \in Entry : c = q.cu /\ Tag(c) = "unit"
  BY <1>3 DEF InlineInv
<1>5. WalkerOK(t, q)
  BY <1>1 DEF InlineInv
<1>6. PICK s \in Subprograms : s = q.sub
  BY <1>2, <1>5 DEF WalkerOK
<1>7. WalkOK(t, q) /\ s \in Children(c)
  BY <1>2, <1>3, <1>4, <1>5, <1>6 DEF WalkerOK
<1>8. WalkerOK(t, r)
  <2>1. CASE ~ Reads(q.pos)
    <3>1. r = [q EXCEPT !.at = "store"]
      BY <2>1
    <3> HIDE DEF r
    <3>2. r.at = "store" /\ r.m = q.m /\ r.sub = s
      BY <1>3, <1>6, <3>1 DEF IsCall, Idle, InCall
    <3>3. (q.pos = s /\ q.m = NoMap) \/ InsideOK(t, s, q) \/ BehindOK(t, s, q)
      BY <1>6, <1>7 DEF WalkOK
    <3>4. q.m = FullMap(t, s)
      BY <1>3, <2>1, <3>3, WalkStops
    <3> QED
      BY <3>2, <3>4 DEF WalkerOK
  <2>2. CASE Reads(q.pos)
    <3>1. r = step
      BY <2>2
    <3> DEFINE p == IF Tag(q.pos) = "end" THEN Popped(q) ELSE q
    <3>2. IsCall(p) /\ p.sub = s /\ p.at \in {"walk", "store"}
      BY <1>2, <1>3, <1>6, WalkKeeps
    <3>3. step = WalkEntry(t, p)
      OBVIOUS
    <3> HIDE DEF p
    <3>4. step.sub = s /\ step.at \in {"walk", "store"}
      BY <3>2, <3>3, WalkKeeps
    <3>5. PICK x : x = step
      OBVIOUS
    <3>6. IF x.at = "walk" THEN WalkOK(t, x) ELSE x.m = FullMap(t, s)
      BY <1>2, <1>3, <1>4, <1>6, <1>7, <2>2, <3>4, <3>5, WalkStep
    <3> HIDE DEF step, r
    <3>7. WalkerOK(t, x)
      BY <3>4, <3>5, <3>6 DEF WalkerOK
    <3> QED
      BY <3>1, <3>5, <3>7
  <2> QED
    BY <2>1, <2>2
<1> HIDE DEF r
<1> QED
  BY <1>2, <1>8, GoMoves, OneWalks

LEMMA CacheStoreWalks ==
  ASSUME IInv, InlineInv, NEW t \in Thread, CacheStore(t)
  PROVE  InlineInv'
<1>1. PICK s : s = th[t].sub
  OBVIOUS
<1>2. /\ th[t].at = "store" /\ UNCHANGED <<file, new>> /\ Go(t, Idle)
      /\ cache' = IF cache[s] = <<>> THEN [cache EXCEPT ![s] = <<th[t].m>>] ELSE cache
  BY <1>1 DEF CacheStore, Serve, Return, At, Internal
<1>3. th[t].m = FullMap(t, s) /\ s \in Subprograms
  BY <1>1, <1>2 DEF InlineInv, WalkerOK
<1>4. DOMAIN cache = Entry
  BY DEF IInv, CachesOK
<1>5. ASSUME NEW x \in Entry, cache'[x] # cache[x] PROVE x \in Subprograms /\ cache'[x] = <<FullMap(t, x)>>
  BY <1>2, <1>3, <1>4, <1>5
<1> QED
  BY <1>2, <1>5, GoMoves, IdleWalker, OneWalks

LEMMA StutterWalks ==
  ASSUME IInv, InlineInv, UNCHANGED vars
  PROVE  InlineInv'
<1>1. UNCHANGED <<file, new, cache, th>>
  BY DEF vars
<1>2. \A c \in new'.cus : Tag(c)' = "unit"
  BY <1>1 DEF InlineInv, Tag
<1>3. \A u \in Thread : WalkerOK(u, th[u])'
  BY <1>1, SameWalkers DEF InlineInv
<1>4. Entry' = Entry /\ Subprograms' = Subprograms /\ \A u, s : FullMap(u, s)' = FullMap(u, s)
  BY <1>1, SameFile, SameCharts
<1> QED
  BY <1>1, <1>2, <1>3, <1>4 DEF InlineInv

LEMMA InitWalks ==
  ASSUME Init
  PROVE  InlineInv
<1>1. \A t \in Thread : th[t] = Idle
  BY DEF Init
<1>2. \A t \in Thread : WalkerOK(t, th[t])
  BY <1>1, IdleWalker
<1>3. new.cus = {} /\ \A s \in Entry : cache[s] = <<>>
  BY DEF Init, NewStart
<1> QED
  BY <1>2, <1>3 DEF InlineInv

\* No step changes that the walks are right, in a tidy file.
LEMMA WalksKept ==
  ASSUME NoneIsNoSite, IInv, Tidy => InlineInv, [Next]_vars
  PROVE  (Tidy => InlineInv)'
<1>1. file' = file
  BY DEF Next, vars, CuRanges, Call, Step, TableEnter, TableFill, SeekTable, IndexEnter, IndexNext,
         IndexReady, CacheLoad, InlineStart, InlineNext, CacheStore, Internal
<1> SUFFICES ASSUME Tidy PROVE InlineInv'
  BY <1>1, SameSitesOf
<1>2. InlineInv
  OBVIOUS
<1>3. CASE CuRanges
  BY <1>2, <1>3, CuRangesWalks
<1>4. ASSUME NEW t \in Thread, NEW op \in Ops, NEW a \in Asked, Call(t, op, a) PROVE InlineInv'
  BY <1>2, <1>4, CallWalks
<1>5. ASSUME NEW t \in Thread, Step(t) PROVE InlineInv'
  BY <1>2, <1>5, OutsideWalks, IndexReadyWalks, CacheLoadWalks, InlineStartWalks, InlineNextWalks,
     CacheStoreWalks DEF Step
<1>6. CASE UNCHANGED vars
  BY <1>2, <1>6, StutterWalks
<1> QED
  BY <1>3, <1>4, <1>5, <1>6 DEF Next

-----------------------------------------------------------------------------
(* What the complete maps say *)

\* Going up from a site, one caller after the other.
LEMMA ChainIs ==
  ASSUME NEW site, NEW depth \in Nat
  PROVE  LET chain == CallerChain(site, depth)
         IN /\ chain[0] = site
            /\ \A k \in 1..depth :
                 chain[k] = IF chain[k - 1] = None THEN None ELSE chain[k - 1].caller
<1> DEFINE up(k, g) == IF k = 0 THEN site
                       ELSE IF g[k - 1] = None THEN None ELSE g[k - 1].caller
           Made(n, g) == g = [k \in 0..n |-> up(k, g)]
           S == {n \in Nat : ~ \E g : Made(n, g)}
<1>1. ASSUME S # {} PROVE FALSE
  <2>1. PICK n \in S : \A k \in S : n <= k
    <3>1. S \in SUBSET Nat
      OBVIOUS
    <3> HIDE DEF S
    <3> QED
      BY <1>1, <3>1, LeastAddr
  <2>2. n \in Nat /\ ~ \E g : Made(n, g)
    OBVIOUS
  <2>3. n # 0
    <3>1. ASSUME n = 0 PROVE FALSE
      <4> DEFINE g == [k \in 0..0 |-> site]
      <4>1. g = [k \in 0..0 |-> up(k, g)]
        OBVIOUS
      <4>2. Made(0, g)
        BY <4>1
      <4> HIDE DEF Made
      <4> QED
        BY <2>2, <3>1, <4>2
    <3> QED
      BY <3>1
  <2>4. n - 1 \in Nat /\ n - 1 \notin S
    <3> HIDE DEF S, Made
    <3>1. n - 1 \in Nat /\ ~ (n <= n - 1)
      BY <2>2, <2>3
    <3> QED
      BY <2>1, <3>1
  <2>5. PICK g0 : Made(n - 1, g0)
    <3> HIDE DEF Made
    <3> QED
      BY <2>4
  <2>6. \A k \in 0..n - 1 : g0[k] = up(k, g0)
    <3> HIDE DEF up
    <3>1. g0 = [k \in 0..n - 1 |-> up(k, g0)]
      BY <2>5
    <3> QED
      BY <3>1
  <2> DEFINE g == [k \in 0..n |-> IF k = n THEN up(n, g0) ELSE g0[k]]
  <2>7. \A k \in 0..n : k # 0 => g[k - 1] = g0[k - 1]
    BY <2>2
  <2>8. \A k \in 0..n : up(k, g) = up(k, g0)
    <3> HIDE DEF g
    <3> QED
      BY <2>7
  <2>9. \A k \in 0..n : g[k] = up(k, g0)
    <3>1. ASSUME NEW k \in 0..n, k # n PROVE k \in 0..n - 1
      BY <2>2, <3>1
    <3>2. ASSUME NEW k \in 0..n, k # n PROVE g[k] = up(k, g0)
      <4>1. g[k] = g0[k]
        BY <3>2
      <4> HIDE DEF g, up
      <4> QED
        BY <2>6, <3>1, <3>2, <4>1
    <3>3. g[n] = up(n, g0)
      BY <2>2
    <3> HIDE DEF g, up
    <3> QED
      BY <3>2, <3>3
  <2>10. g = [k \in 0..n |-> g[k]]
    OBVIOUS
  <2>11. Made(n, g)
    <3> HIDE DEF g, up
    <3>1. g = [k \in 0..n |-> up(k, g)]
      BY <2>8, <2>9, <2>10
    <3> QED
      BY <3>1
  <2> HIDE DEF Made, g
  <2> QED
    BY <2>2, <2>11
<1>2. \E g : Made(depth, g)
  <2> HIDE DEF Made
  <2> QED
    BY <1>1
<1> DEFINE chain == CallerChain(site, depth)
<1>3. chain = CHOOSE g : Made(depth, g)
  BY DEF CallerChain
<1>4. Made(depth, chain)
  <2> HIDE DEF Made, chain
  <2> QED
    BY <1>2, <1>3
<1>5. \A k \in 0..depth : chain[k] = up(k, chain)
  <2> HIDE DEF up, chain
  <2>1. chain = [k \in 0..depth |-> up(k, chain)]
    BY <1>4
  <2> QED
    BY <2>1
<1>6. \A k \in 1..depth : k \in 0..depth /\ k # 0
  OBVIOUS
<1> HIDE DEF chain
<1>7. /\ chain[0] = site
      /\ \A k \in 1..depth : chain[k] = IF chain[k - 1] = None THEN None ELSE chain[k - 1].caller
  BY <1>5, <1>6
<1> QED
  BY <1>7 DEF chain

\* From a site of the map, all callers are sites too.
LEMMA ChainSites ==
  ASSUME file \in Files, NoneIsNoSite, NEW s \in Subprograms, NEW t, NEW e0 \in Sites(s), NEW depth \in Nat
  PROVE  LET chain == CallerChain(Chart(t, s)[e0], depth)
         IN \A k \in 0..depth : chain[k] = None \/ \E e \in Sites(s) : chain[k] = Chart(t, s)[e]
<1> DEFINE c == Chart(t, s)
           chain == CallerChain(c[e0], depth)
           ok(k) == chain[k] = None \/ \E e \in Sites(s) : chain[k] = c[e]
           S == {k \in Nat : k <= depth /\ ~ ok(k)}
<1>1. /\ chain[0] = c[e0]
      /\ \A k \in 1..depth : chain[k] = IF chain[k - 1] = None THEN None ELSE chain[k - 1].caller
  BY ChainIs
<1> HIDE DEF chain
<1>2. ASSUME S # {} PROVE FALSE
  <2>1. PICK k \in S : \A j \in S : k <= j
    <3>1. S \in SUBSET Nat
      OBVIOUS
    <3> HIDE DEF S
    <3> QED
      BY <1>2, <3>1, LeastAddr
  <2>2. k \in Nat /\ k <= depth /\ ~ ok(k)
    OBVIOUS
  <2>3. k # 0
    BY <1>1, <2>2
  <2>4. k - 1 \in Nat /\ k - 1 <= depth /\ k \in 1..depth /\ k - 1 \notin S
    <3> HIDE DEF S, ok
    <3>1. k - 1 \in Nat /\ k - 1 <= depth /\ k \in 1..depth /\ ~ (k <= k - 1)
      BY <2>2, <2>3
    <3> QED
      BY <2>1, <3>1
  <2>5. ok(k - 1)
    BY <2>4
  <2>6. chain[k] = IF chain[k - 1] = None THEN None ELSE chain[k - 1].caller
    BY <1>1, <2>4
  <2>7. CASE chain[k - 1] = None
    BY <2>2, <2>6, <2>7
  <2>8. CASE chain[k - 1] # None
    <3>1. PICK e \in Sites(s) : chain[k - 1] = c[e]
      BY <2>5, <2>8
    <3>2. c[e].caller = IF e = s THEN None ELSE c[CallerOf(s, e)]
      BY SiteIs
    <3>3. e # s => CallerOf(s, e) \in Sites(s)
      BY CallerFacts
    <3> HIDE DEF c
    <3> QED
      BY <2>2, <2>6, <2>8, <3>1, <3>2, <3>3
  <2> QED
    BY <2>7, <2>8
<1>3. \A k \in 0..depth : ok(k)
  <2>1. \A k \in 0..depth : k \in Nat /\ k <= depth
    OBVIOUS
  <2> HIDE DEF ok
  <2> QED
    BY <1>2, <2>1
<1> QED
  BY <1>3 DEF chain

\* The last of the sites at an address is the innermost one.
LEMMA InnermostIs ==
  ASSUME file \in Files, SitesNest, NEW s \in Subprograms, NEW a \in Addr, SitesAt(s, a) # {}
  PROVE  Max(SitesAt(s, a)) \in SitesAt(s, a) /\ Max(SitesAt(s, a)) = Innermost(SitesAt(s, a))
<1> DEFINE T == SitesAt(s, a)
           In(e) == \A d \in T : d = e \/ Encloses(file.after, d, e)
<1>1. T \in SUBSET Entry
  BY CallerFacts DEF SitesAt
<1>2. PICK m \in T : m = Max(T) /\ \A y \in T : y <= m
  <2> HIDE DEF T
  <2> QED
    BY <1>1, LastEntry DEF T
<1>3. \A y \in T : y \in Nat
  BY <1>1, EntryFacts
<1>4. In(m)
  <2>1. ASSUME NEW d \in T, d # m PROVE Encloses(file.after, d, m)
    <3>1. d < m
      BY <1>2, <1>3, <2>1
    <3> QED
      BY <1>2, <3>1 DEF SitesNest
  <2> QED
    BY <2>1
<1>5. ASSUME NEW e \in T, In(e) PROVE e = m
  <2>1. m = e \/ Encloses(file.after, m, e)
    BY <1>2, <1>5
  <2>2. Encloses(file.after, m, e) => m < e
    BY DEF Encloses
  <2>3. e <= m /\ e \in Nat /\ m \in Nat
    BY <1>2, <1>3
  <2> QED
    BY <2>1, <2>2, <2>3
<1>6. Innermost(T) = CHOOSE e \in T : In(e)
  BY DEF Innermost
<1>7. Innermost(T) = m
  <2> HIDE DEF T, In
  <2> QED
    BY <1>2, <1>4, <1>5, <1>6
<1> QED
  BY <1>2, <1>7

\* A complete map says at each address what InlineRight asks for.
LEMMA FullRight ==
  ASSUME file \in Files, NoneIsNoSite, SitesNest, NEW s \in Subprograms, NEW t, NEW a \in Addr,
         NEW m, m = FullMap(t, s)
  PROVE  LET sites == SitesAt(s, a)
             depth == Cardinality(Sites(s))
             chain == CallerChain(m[a], depth)
         IN IF sites = {} THEN m[a] = None
            ELSE /\ m[a] # None
                 /\ m[a].entry = Innermost(sites)
                 /\ \A k \in 1..depth :
                      chain[k - 1] # None =>
                        CallerOf(s, chain[k - 1].entry)
                          = (IF chain[k] = None THEN None ELSE chain[k].entry)
<1> DEFINE c == Chart(t, s)
           sites == SitesAt(s, a)
           depth == Cardinality(Sites(s))
           chain == CallerChain(m[a], depth)
           z == Len(file.entries) + 1
<1>1. Found(s, z, a) = sites
  <2>1. \A e \in Entry : e < z
    BY EntryFacts
  <2>2. sites \subseteq Entry
    BY CallerFacts DEF SitesAt
  <2> HIDE DEF z
  <2> QED
    BY <2>1, <2>2 DEF Found
<1>2. m[a] = IF sites = {} THEN None ELSE c[Max(sites)]
  <2>1. m = [b \in Addr |-> IF Found(s, z, b) = {} THEN None ELSE c[Max(Found(s, z, b))]]
    BY DEF MapTo, FullMap
  <2> HIDE DEF z
  <2> QED
    BY <1>1, <2>1
<1>3. depth \in Nat
  <2>1. Sites(s) \subseteq 1..Len(file.entries) /\ Len(file.entries) \in Nat
    BY CallerFacts, EntryFacts
  <2>2. IsFiniteSet(1..Len(file.entries))
    BY <2>1, FS_Interval
  <2>3. IsFiniteSet(Sites(s))
    BY <2>1, <2>2, FS_Subset
  <2> QED
    BY <2>3, FS_CardinalityType
<1>4. CASE sites = {}
  BY <1>2, <1>4
<1>5. CASE sites # {}
  <2>1. PICK e0 : e0 = Max(sites)
    OBVIOUS
  <2>2. e0 \in sites /\ e0 = Innermost(sites)
    BY <1>5, <2>1, InnermostIs
  <2>3. e0 \in Sites(s) /\ m[a] = c[e0]
    BY <1>2, <1>5, <2>1, <2>2 DEF SitesAt
  <2>4. m[a] # None /\ m[a].entry = Innermost(sites)
    BY <2>2, <2>3, SiteIs
  <2>5. chain = CallerChain(c[e0], depth)
    BY <2>3
  <2> HIDE DEF depth
  <2>6. \A k \in 1..depth : chain[k] = IF chain[k - 1] = None THEN None ELSE chain[k - 1].caller
    BY <1>3, <2>5, ChainIs
  <2>7. \A k \in 0..depth : chain[k] = None \/ \E e \in Sites(s) : chain[k] = c[e]
    BY <1>3, <2>3, <2>5, ChainSites
  <2> HIDE DEF chain, sites
  <2>8. ASSUME NEW k \in 1..depth, chain[k - 1] # None
        PROVE  CallerOf(s, chain[k - 1].entry) = (IF chain[k] = None THEN None ELSE chain[k].entry)
    <3>1. k - 1 \in 0..depth
      BY <1>3
    <3>2. PICK e \in Sites(s) : chain[k - 1] = c[e]
      BY <2>7, <2>8, <3>1
    <3>3. /\ c[e].entry = e /\ c[e].caller = IF e = s THEN None ELSE c[CallerOf(s, e)]
      BY SiteIs
    <3>4. chain[k] = c[e].caller /\ chain[k - 1].entry = e
      BY <2>6, <2>8, <3>2, <3>3
    <3>5. CASE e = s
      <4>1. CallerOf(s, e) = None
        BY <3>5, CallerFacts
      <4> HIDE DEF c
      <4> QED
        BY <3>3, <3>4, <3>5, <4>1
    <3>6. CASE e # s
      <4>1. CallerOf(s, e) \in Sites(s)
        BY <3>6, CallerFacts
      <4>2. PICK d \in Sites(s) : d = CallerOf(s, e)
        BY <4>1
      <4>3. c[d] # None /\ c[d].entry = d
        BY SiteIs
      <4> HIDE DEF c
      <4> QED
        BY <3>3, <3>4, <3>6, <4>2, <4>3
    <3> QED
      BY <3>5, <3>6
  <2> QED
    BY <1>5, <2>4, <2>8 DEF chain, sites, depth
<1> QED
  BY <1>4, <1>5

LEMMA InvInlineRight ==
  ASSUME IInv, InlineInv, SitesNest, NoneIsNoSite
  PROVE  InlineRight
<1> SUFFICES
      ASSUME NEW s \in Entry, NEW m \in served[s]
      PROVE  IF \E cu \in new.cus : s \in Children(cu) /\ file.lines[cu] = "bad" THEN m = NoMap
             ELSE \A a \in Addr :
                    LET sites == SitesAt(s, a)
                        depth == Cardinality(Sites(s))
                        chain == CallerChain(m[a], depth)
                    IN IF sites = {} THEN m[a] = None
                       ELSE /\ m[a] # None
                            /\ m[a].entry = Innermost(sites)
                            /\ \A k \in 1..depth :
                                 chain[k - 1] # None =>
                                   CallerOf(s, chain[k - 1].entry)
                                     = (IF chain[k] = None THEN None ELSE chain[k].entry)
  BY DEF InlineRight
<1>1. PICK c \in new.cus : ServedFrom(c, s)
  BY DEF IInv, CachesOK
<1>2. file \in Files /\ NewOK /\ s \in Children(c)
  BY <1>1 DEF IInv, ServedFrom
<1>3. CASE file.lines[c] = "bad"
  <2>1. m = NoMap
    BY <1>1, <1>3 DEF ServedFrom
  <2>2. \E cu \in new.cus : s \in Children(cu) /\ file.lines[cu] = "bad"
    BY <1>2, <1>3
  <2> QED
    BY <2>1, <2>2
<1>4. CASE file.lines[c] # "bad"
  <2>1. ~ \E cu \in new.cus : s \in Children(cu) /\ file.lines[cu] = "bad"
    BY <1>2, <1>4, OneUnit
  <2>2. cache[s] = <<m>>
    BY <1>1, <1>4 DEF ServedFrom
  <2>3. cache[s] # <<>>
    BY <2>2
  <2>4. s \in Subprograms /\ \E t \in Thread : cache[s] = <<FullMap(t, s)>>
    BY <2>3 DEF InlineInv
  <2>5. PICK t \in Thread : m = FullMap(t, s)
    BY <2>2, <2>4
  <2> QED
    BY <1>2, <2>1, <2>4, <2>5, FullRight
<1> QED
  BY <1>3, <1>4

\* In every tidy file whose calls at one address nest, all that inlineRanges has returned
\* is right: at each address the innermost call, and above it the calls it was inlined
\* into, in a unit whose line table decodes; whoever built the map (inline.go:22-36).
THEOREM AlwaysInlineRight ==
  ASSUME NoneIsNoSite
  PROVE  Spec => [](Tidy /\ SitesNest => InlineRight)
<1>1. Init => (Tidy => InlineInv)
  BY InitWalks
<1>2. IInv /\ (Tidy => InlineInv) /\ [Next]_vars => (Tidy => InlineInv)'
  BY WalksKept
<1>3. IInv /\ (Tidy => InlineInv) => (Tidy /\ SitesNest => InlineRight)
  BY InvInlineRight
<1> QED
  BY <1>1, <1>2, <1>3, Invariance, PTL DEF Spec

=============================================================================
