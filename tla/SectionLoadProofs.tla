-------------------------- MODULE SectionLoadProofs --------------------------
(***************************************************************************)
(* Theorems about SectionLoad, for any number of goroutines and calls and  *)
(* for every file: no cycle of waits, one answer, all relocations, and no  *)
(* bytes after they are unmapped.                                          *)
(***************************************************************************)
EXTENDS SectionLoad, SequenceTheorems, TLAPS

-----------------------------------------------------------------------------
(* Stacks *)

\* Returning takes the last frame off a stack.
LEMMA Popped ==
  ASSUME NEW S, NEW q \in Seq(S), q # <<>>
  PROVE  /\ Front(q) \in Seq(S)
         /\ Len(q) \in Nat \ {0} /\ Len(Front(q)) = Len(q) - 1
         /\ \A k \in 1..Len(q) - 1 : Front(q)[k] = q[k]
<1>1. Len(q) \in Nat \ {0} /\ \A k \in 1..Len(q) - 1 : q[k] \in S
  BY EmptySeq, LenProperties
<1> DEFINE n == Len(q) - 1
           p == SubSeq(q, 1, n)
<1>2. n \in Nat /\ 1 \in Int /\ (\A k \in 1..n : q[k] \in S) /\ Len(q) = n + 1
  BY <1>1
<1>3. Front(q) = p
  BY DEF Front
<1> HIDE DEF n
<1>4. /\ p \in Seq(S)
      /\ Len(p) = IF 1 <= n THEN n - 1 + 1 ELSE 0
      /\ \A k \in 1..n - 1 + 1 : p[k] = q[1 + k - 1]
  BY <1>2, SubSeqProperties
<1> HIDE DEF p
<1>5. Len(p) = n /\ \A k \in 1..n : p[k] = q[k]
  BY <1>2, <1>4
<1> QED
  BY <1>2, <1>3, <1>4, <1>5

\* Replacing the last frame.
LEMMA Replaced ==
  ASSUME NEW S, NEW q \in Seq(S), q # <<>>, NEW f \in S
  PROVE  /\ Front(q) \o <<f>> \in Seq(S)
         /\ Len(Front(q) \o <<f>>) = Len(q)
         /\ \A k \in 1..Len(q) - 1 : (Front(q) \o <<f>>)[k] = q[k]
         /\ (Front(q) \o <<f>>)[Len(q)] = f
BY Popped DEF Front

\* Calling replaces the last frame and puts one on top of it.
LEMMA Pushed ==
  ASSUME NEW S, NEW q \in Seq(S), q # <<>>, NEW f \in S, NEW g \in S
  PROVE  /\ Front(q) \o <<f, g>> \in Seq(S)
         /\ Len(Front(q) \o <<f, g>>) = Len(q) + 1
         /\ \A k \in 1..Len(q) - 1 : (Front(q) \o <<f, g>>)[k] = q[k]
         /\ (Front(q) \o <<f, g>>)[Len(q)] = f
         /\ (Front(q) \o <<f, g>>)[Len(q) + 1] = g
<1>1. <<f, g>> \in Seq(S) /\ Len(<<f, g>>) = 2
  OBVIOUS
<1> QED
  BY <1>1, Popped, ConcatProperties

-----------------------------------------------------------------------------
(* Onces, values and relocation sections *)

\* Every frame of a guarded function goes through a once; each once is of one
\* function and one section.
LEMMA OnceFacts ==
  /\ \A s \in {Null} \cup Section : DataOnce(s) \in Onces
  /\ \A s \in Section : DataOnce(s) \in Onces /\ RelocsOnce(s) \in Onces /\ RelOnce(s) \in Onces
  /\ \A f \in Frames : /\ f.op \in Guarded => OnceOf(f) \in Onces
                       /\ f.op = "data" => OnceOf(f) = DataOnce(f.s)
                       /\ f.op = "relocs" => OnceOf(f) = RelocsOnce(f.s)
                       /\ f.op = "rel" => OnceOf(f) = RelOnce(f.s)
  /\ \A s, r \in {Null} \cup Section :
       /\ DataOnce(s) # RelocsOnce(r) /\ DataOnce(s) # RelOnce(r) /\ RelocsOnce(s) # RelOnce(r)
       /\ DataOnce(s) = DataOnce(r) => s = r
       /\ RelocsOnce(s) = RelocsOnce(r) => s = r
       /\ RelOnce(s) = RelOnce(r) => s = r
  /\ \A o \in Onces : /\ o[1] \in Guarded /\ o[2] \in {Null} \cup Section
                      /\ o[1] # "data" => o[2] \in Section
                      /\ o \in {DataOnce(o[2]), RelocsOnce(o[2]), RelOnce(o[2])}
<1>1. \A f \in Frames : f.op \in Guarded => OnceOf(f) \in Onces
  BY DEF Onces, OnceOf, Frames, Guarded
<1> QED
  BY <1>1 DEF Onces, DataOnce, RelocsOnce, RelOnce, OnceOf, Guarded, Null

\* What the functions store and return.
LEMMA ResultFacts ==
  /\ Nothing \in Results /\ Error \in Results /\ Panicked \in Results
  /\ ~ Nothing.err /\ Nothing.bytes = "nil" /\ Nothing.rels = {}
  /\ Error.err /\ Error.bytes = "nil"
  /\ ~ Panicked.err /\ Panicked.bytes = "panic"
  /\ \A b \in Bytes, r \in SUBSET Section :
       /\ Result(b, r) \in Results
       /\ ~ Result(b, r).err /\ Result(b, r).bytes = b /\ Result(b, r).rels = r
BY DEF Results, Nothing, Error, Panicked, Result, Bytes

\* Only sections that are not relocation sections are relocated (elf.go:337-346).
LEMMA RelocFacts ==
  ASSUME NEW s \in Section
  PROVE  /\ RelocSections(s) \subseteq Section
         /\ \A rs \in RelocSections(s) : IsRel(rs) /\ ~ IsRel(s)
BY DEF RelocSections, Applies, IsRel, CanHaveRelocs

\* A new frame is a frame.
LEMMA FrameFacts ==
  ASSUME NEW s \in {Null} \cup Section, NEW op \in Guarded \cup {"Data", "Relocs"},
         op # "data" => s \in Section
  PROVE  /\ Frame(op, s) \in Frames
         /\ Frame(op, s).op = op /\ Frame(op, s).s = s /\ Frame(op, s).at = "start"
         /\ Frame(op, s).i = 0 /\ Frame(op, s).kept = Nothing
BY ResultFacts DEF Frame, Frames, Section, Null

\* The section of a frame that does not read bytes is one of the file.
LEMMA FrameSection ==
  ASSUME NEW f \in Frames
  PROVE  f.s \in {Null} \cup Section /\ (f.op # "data" => f.s \in Section)
BY DEF Frames

\* The relocations of a section with one relocation section are those of that.
LEMMA RelocsOfOne ==
  ASSUME NEW s \in Section, NEW rs \in Section, RelocSections(s) = {rs}
  PROVE  /\ RelocsDone(s) <=> once[RelOnce(rs)] = Done
         /\ RelocsValue(s) = value[RelOnce(rs)]
<1>1. (CHOOSE r \in {rs} : TRUE) = rs
  OBVIOUS
<1> QED
  BY <1>1 DEF RelocsDone, RelocsValue

\* The relocations of a section without relocation sections, and with several.
LEMMA RelocsOfOthers ==
  ASSUME NEW s \in Section
  PROVE  /\ RelocSections(s) = {} => RelocsDone(s) /\ RelocsValue(s) = Nothing
         /\ RelocSections(s) # {} /\ (\A rs \in Section : RelocSections(s) # {rs}) =>
              /\ RelocsDone(s) <=> once[RelocsOnce(s)] = Done
              /\ RelocsValue(s) = value[RelocsOnce(s)]
BY RelocFacts DEF RelocsDone, RelocsValue

-----------------------------------------------------------------------------
(* What a step leaves alone *)

\* The file is the same, and what is cached or lost stays so.
Keeps ==
  /\ file' = file /\ closed' = closed /\ lost \subseteq lost'
  /\ \A o \in Onces : once[o] = Done =>
       once'[o] = Done /\ value'[o] = value[o] /\ (o \in lost' => o \in lost)

\* Definitions that speak of the file alone.
LEMMA FileKeeps ==
  ASSUME file' = file
  PROVE  /\ Section' = Section /\ Onces' = Onces /\ Results' = Results /\ Frames' = Frames
         /\ \A s : IsRel(s)' <=> IsRel(s)
         /\ \A s : RelocSections(s)' = RelocSections(s) /\ AddendSections(s)' = AddendSections(s)
         /\ \A s : Merged(s)' = Merged(s)
         /\ \A f : Level(f)' = Level(f)
         /\ \A f, g : Called(f, g)' <=> Called(f, g)
<1>1. \A s : RelocSections(s)' = RelocSections(s)
  BY DEF Section, RelocSections, IsRel, Applies, CanHaveRelocs
<1> QED
  BY <1>1 DEF Section, Onces, Results, Frames, IsRel, CanHaveRelocs, AddendSections, Merged,
     Target, Level, Called

\* Cached relocations stay what they are.
LEMMA RelocsKeep ==
  ASSUME Keeps, NEW s \in Section, RelocsDone(s)
  PROVE  RelocsDone(s)' /\ RelocsValue(s)' = RelocsValue(s)
<1>1. RelocSections(s)' = RelocSections(s) /\ Section' = Section
  BY FileKeeps DEF Keeps
<1>2. \A r \in Section : RelOnce(r) \in Onces /\ RelocsOnce(r) \in Onces
  BY OnceFacts
<1> QED
  BY <1>1, <1>2, RelocFacts DEF Keeps, RelocsDone, RelocsValue

\* What is known of a frame stays known.
LEMMA FrameKeeps ==
  ASSUME Keeps, NEW f \in Frames, FrameOK(f)
  PROVE  FrameOK(f)'
<1>1. RelocSections(f.s)' = RelocSections(f.s) /\ AddendSections(f.s)' = AddendSections(f.s)
      /\ Merged(f.s)' = Merged(f.s) /\ Section' = Section /\ (IsRel(f.s)' <=> IsRel(f.s))
  BY FileKeeps DEF Keeps
<1>2. f.op = "Data" => DataOnce(f.s) \in Onces
  BY OnceFacts, FrameSection
<1>3. CASE f.op = "relocs"
  <2>1. f.s \in Section /\ RelocSections(f.s) \subseteq Section
    BY <1>3, FrameSection, RelocFacts
  <2>2. ASSUME NEW rs \in RelocSections(f.s), rs < f.i
        PROVE  once'[RelOnce(rs)] = Done /\ (RelOnce(rs) \in lost' <=> RelOnce(rs) \in lost)
    <3>1. RelOnce(rs) \in Onces /\ once[RelOnce(rs)] = Done
      BY <1>3, <2>1, <2>2, OnceFacts DEF FrameOK
    <3> QED
      BY <3>1 DEF Keeps
  <2>3. {rs \in Given(f.s)' : rs < f.i} = {rs \in Given(f.s) : rs < f.i}
    BY <1>1, <2>2 DEF Merged, Given, RelOnce
  <2> QED
    BY <1>1, <1>3, <2>2, <2>3 DEF FrameOK, RelOnce
<1>4. CASE f.op # "relocs"
  BY <1>1, <1>2, <1>4 DEF Keeps, FrameOK, DataOnce
<1> QED
  BY <1>3, <1>4

\* A thread that a step does not move is where it was.
LEMMA OthersOK ==
  ASSUME TypeOK, Keeps, NEW u \in Thread, ThreadOK(u),
         stack'[u] = stack[u], ret'[u] = ret[u],
         \A o \in Onces : once'[o] = u <=> once[o] = u
  PROVE  ThreadOK(u)'
<1>1. /\ stack[u] \in Seq(Frames) /\ Len(stack[u]) \in Nat
      /\ \A k \in 1..Len(stack[u]) : stack[u][k] \in Frames
  BY LenProperties, ElementOfSeq DEF TypeOK
<1>2. StackOK(u)'
  <2>1. \A k \in 1..Len(stack[u]) : FrameOK(stack[u][k])'
    BY <1>1, FrameKeeps DEF ThreadOK, StackOK
  <2>2. /\ \A f : Level(f)' = Level(f)
        /\ \A f, g : Called(f, g)' <=> Called(f, g)
    BY FileKeeps DEF Keeps
  <2> QED
    BY <1>1, <2>1, <2>2 DEF ThreadOK, StackOK
<1>3. OwnsOK(u)'
  <2>1. \A k \in 1..Len(stack[u]) : InOnce(stack[u][k]) => OnceOf(stack[u][k]) \in Onces
    BY <1>1, OnceFacts DEF InOnce
  <2>2. Onces' = Onces
    BY FileKeeps DEF Keeps
  <2> QED
    BY <1>1, <2>1, <2>2 DEF ThreadOK, OwnsOK, InOnce, OnceOf
<1>4. RetOK(u)'
  <2> SUFFICES ASSUME stack[u] # <<>> PROVE RetOK(u)'
    BY DEF RetOK
  <2>1. Top(u)' = Top(u) /\ Top(u) \in Frames /\ (Top(u).op # "data" => Top(u).s \in Section)
    BY <1>1, EmptySeq, FrameSection DEF Top
  <2>2. CASE Top(u).op = "Data" /\ Top(u).at = "bytes"
    BY <2>1, <2>2, OnceFacts DEF Keeps, ThreadOK, RetOK
  <2>3. CASE Top(u).op = "Data" /\ Top(u).at = "relocs"
    BY <2>1, <2>3, RelocsKeep DEF ThreadOK, RetOK
  <2>4. CASE Top(u).op = "relocs" /\ Top(u).i > 0
    <3>1. \A s : RelocSections(s)' = RelocSections(s)
      BY FileKeeps DEF Keeps
    <3>2. Top(u).i \in Section
      BY <2>1, <2>4, RelocFacts DEF ThreadOK, RetOK
    <3> QED
      BY <2>1, <2>4, <3>1, <3>2, OnceFacts DEF Keeps, ThreadOK, RetOK
  <2>5. CASE ~ (Top(u).op = "Data" /\ Top(u).at \in {"bytes", "relocs"})
             /\ ~ (Top(u).op = "relocs" /\ Top(u).i > 0)
    BY <2>1, <2>5 DEF RetOK
  <2> QED
    BY <2>2, <2>3, <2>4, <2>5
<1> QED
  BY <1>2, <1>3, <1>4 DEF ThreadOK

\* What the frame on top of a stack is.
LEMMA TopFacts ==
  ASSUME TypeOK, NEW t \in Thread, ThreadOK(t), stack[t] # <<>>
  PROVE  /\ stack[t] \in Seq(Frames) /\ Len(stack[t]) \in Nat \ {0}
         /\ \A k \in 1..Len(stack[t]) : stack[t][k] \in Frames
         /\ Top(t) = stack[t][Len(stack[t])]
         /\ Top(t) \in Frames /\ FrameOK(Top(t)) /\ Top(t).s \in {Null} \cup Section
         /\ Top(t).op # "data" => Top(t).s \in Section
         /\ Len(stack[t]) = 1 => Top(t).op = "Data"
         /\ Len(stack[t]) > 1 => Called(stack[t][Len(stack[t]) - 1], Top(t))
<1>1. stack[t] \in Seq(Frames) /\ Len(stack[t]) \in Nat \ {0}
  BY EmptySeq DEF TypeOK
<1>2. \A k \in 1..Len(stack[t]) : stack[t][k] \in Frames
  BY <1>1, ElementOfSeq
<1>3. Top(t) \in Frames /\ FrameOK(Top(t))
  BY <1>1, <1>2 DEF Top, ThreadOK, StackOK
<1> QED
  BY <1>1, <1>2, <1>3, FrameSection DEF Top, ThreadOK, StackOK

\* A frame calls another: it waits at f, and g is put on top of it.
LEMMA CallOK ==
  ASSUME TypeOK, Keeps, NEW t \in Thread, ThreadOK(t), stack[t] # <<>>,
         NEW f \in Frames, NEW g \in Frames, Call(t, f, g), once' = once,
         f.op = Top(t).op, f.s = Top(t).s, InOnce(f) <=> InOnce(Top(t)),
         FrameOK(f)', FrameOK(g)', Called(f, g), Level(g) < Level(f), g.at = "start"
  PROVE  ThreadOK(t)'
<1> DEFINE q == stack[t]
           n == Len(stack[t])
           r == stack'[t]
<1>1. /\ q \in Seq(Frames) /\ n \in Nat \ {0} /\ Top(t) = q[n] /\ Top(t) \in Frames
      /\ \A k \in 1..n : q[k] \in Frames
  BY TopFacts
<1>2. r = Front(q) \o <<f, g>>
  BY DEF Call, TypeOK
<1>3. /\ Len(r) = n + 1 /\ r # <<>> /\ r[n] = f /\ r[n + 1] = g
      /\ \A k \in 1..n - 1 : r[k] = q[k]
  <2> DEFINE p == Front(q) \o <<f, g>>
  <2>1. q \in Seq(Frames) /\ q # <<>>
    BY <1>1
  <2> HIDE DEF q
  <2>2. /\ Len(p) = Len(q) + 1
        /\ \A k \in 1..Len(q) - 1 : p[k] = q[k]
        /\ p[Len(q)] = f
        /\ p[Len(q) + 1] = g
    BY <2>1, Pushed
  <2>3. p = r /\ n = Len(q)
    BY <1>2 DEF q
  <2>4. Len(<<>>) = 0
    OBVIOUS
  <2> HIDE DEF p, n, r
  <2> QED
    BY <1>1, <2>2, <2>3, <2>4
<1>4. Top(t)' = g
  BY <1>3 DEF Top
<1>5. /\ \A x : Level(x)' = Level(x)
      /\ \A x, y : Called(x, y)' <=> Called(x, y)
      /\ Onces' = Onces
  BY FileKeeps DEF Keeps
<1>6. /\ Level(f) = Level(Top(t))
      /\ \A x : Called(x, Top(t)) => Called(x, f)
  BY DEF Level, Called
<1>7. \A x \in Frames : Level(x) \in Nat
  BY DEF Level, Frames, Guarded
<1> HIDE DEF q, n, r
<1>8. StackOK(t)'
  <2>1. (\A k \in 1..Len(stack[t]) : FrameOK(stack[t][k]))'
    <3>1. \A x \in Frames : FrameOK(x) => FrameOK(x)'
      BY FrameKeeps
    <3>2. \A k \in 1..n : FrameOK(q[k])
      BY DEF ThreadOK, StackOK, q, n
    <3>3. ASSUME NEW k \in 1..n + 1 PROVE FrameOK(stack[t][k])'
      <4>1. CASE k = n
        BY <1>3, <4>1 DEF r
      <4>2. CASE k = n + 1
        BY <1>3, <4>2 DEF r
      <4>3. CASE k \in 1..n - 1
        <5>1. PICK x \in Frames : x = q[k] /\ FrameOK(x)
          BY <1>1, <3>2, <4>3
        <5>2. FrameOK(x)'
          BY <3>1, <5>1
        <5> QED
          BY <1>3, <4>3, <5>1, <5>2 DEF r
      <4> QED
        BY <1>1, <4>1, <4>2, <4>3
    <3> QED
      BY <1>3, <3>3 DEF r
  <2>2. r[1].op = "Data"
    <3>1. q[1].op = "Data"
      BY DEF ThreadOK, StackOK, q
    <3> QED
      BY <1>1, <1>3, <3>1
  <2>3. \A k \in 1..n : Called(r[k], r[k + 1])
    <3>1. \A k \in 1..n - 1 : Called(q[k], q[k + 1])
      BY DEF ThreadOK, StackOK, q, n
    <3> QED
      BY <1>1, <1>3, <1>6, <3>1
  <2>4. \A j, k \in 1..n + 1 : j < k => Level(r[k]) < Level(r[j])
    <3>1. \A j, k \in 1..n : j < k => Level(q[k]) < Level(q[j])
      BY DEF ThreadOK, StackOK, q, n
    <3>2. \A j \in 1..n : Level(r[j]) = Level(q[j])
      BY <1>1, <1>3, <1>6
    <3>3. \A j \in 1..n : Level(q[n]) <= Level(q[j])
      BY <1>1, <1>7, <3>1
    <3>4. \A j \in 1..n : Level(g) < Level(q[j])
      BY <1>1, <1>6, <1>7, <3>3
    <3> QED
      BY <1>1, <1>3, <3>1, <3>2, <3>4
  <2> QED
    BY <1>1, <1>3, <1>5, <2>1, <2>2, <2>3, <2>4 DEF StackOK, r
<1>9. OwnsOK(t)'
  <2>1. \A k \in 1..n : (InOnce(r[k]) <=> InOnce(q[k])) /\ OnceOf(r[k]) = OnceOf(q[k])
    BY <1>1, <1>3 DEF OnceOf
  <2>2. ~ InOnce(g)
    BY DEF InOnce
  <2>3. /\ \A k \in 1..n : InOnce(q[k]) => once[OnceOf(q[k])] = t
        /\ \A o \in Onces : once[o] = t =>
             \E k \in 1..n : InOnce(q[k]) /\ OnceOf(q[k]) = o
    BY DEF ThreadOK, OwnsOK, q, n
  <2>4. \A k \in 1..n + 1 : InOnce(r[k]) => once[OnceOf(r[k])] = t
    BY <1>1, <1>3, <2>1, <2>2, <2>3
  <2>5. \A o \in Onces : once[o] = t =>
          \E k \in 1..n + 1 : InOnce(r[k]) /\ OnceOf(r[k]) = o
    BY <1>1, <2>1, <2>3
  <2> QED
    BY <1>1, <1>3, <1>5, <2>4, <2>5 DEF OwnsOK, InOnce, OnceOf, r
<1>10. RetOK(t)'
  BY <1>4 DEF RetOK, FrameOK
<1> QED
  BY <1>8, <1>9, <1>10 DEF ThreadOK

\* A frame goes on, or is replaced by one that does its work.
LEMMA BecomeOK ==
  ASSUME TypeOK, Keeps, NEW t \in Thread, ThreadOK(t), stack[t] # <<>>,
         NEW f \in Frames, Become(t, f), Top(t).op # "Data", f.op # "Data",
         f.op = "relocs" => f.i = 0,
         FrameOK(f)', Level(f) <= Level(Top(t)),
         \A x : Called(x, Top(t)) => Called(x, f),
         InOnce(f) => once'[OnceOf(f)] = t,
         InOnce(Top(t)) => InOnce(f) /\ OnceOf(f) = OnceOf(Top(t)),
         \A o \in Onces : once[o] = t => once'[o] = t,
         \A o \in Onces : once'[o] = t => once[o] = t \/ (InOnce(f) /\ o = OnceOf(f))
  PROVE  ThreadOK(t)'
<1> DEFINE q == stack[t]
           n == Len(stack[t])
           r == stack'[t]
<1>1. /\ q \in Seq(Frames) /\ n \in Nat \ {0} /\ n # 1 /\ Top(t) = q[n] /\ Top(t) \in Frames
      /\ \A k \in 1..n : q[k] \in Frames
  BY TopFacts
<1>2. r = Front(q) \o <<f>>
  BY DEF Become, TypeOK
<1>3. /\ Len(r) = n /\ r # <<>> /\ r[n] = f
      /\ \A k \in 1..n - 1 : r[k] = q[k]
  <2> DEFINE p == Front(q) \o <<f>>
  <2>1. q \in Seq(Frames) /\ q # <<>>
    BY <1>1
  <2> HIDE DEF q
  <2>2. /\ Len(p) = Len(q)
        /\ \A k \in 1..Len(q) - 1 : p[k] = q[k]
        /\ p[Len(q)] = f
    BY <2>1, Replaced
  <2>3. p = r /\ n = Len(q)
    BY <1>2 DEF q
  <2>4. Len(<<>>) = 0
    OBVIOUS
  <2> HIDE DEF p, n, r
  <2> QED
    BY <1>1, <2>2, <2>3, <2>4
<1>4. Top(t)' = f
  BY <1>3 DEF Top
<1>5. /\ \A x : Level(x)' = Level(x)
      /\ \A x, y : Called(x, y)' <=> Called(x, y)
      /\ Onces' = Onces
  BY FileKeeps DEF Keeps
<1>6. \A x \in Frames : Level(x) \in Nat
  BY DEF Level, Frames, Guarded
<1> HIDE DEF q, n, r
<1>7. StackOK(t)'
  <2>1. (\A k \in 1..Len(stack[t]) : FrameOK(stack[t][k]))'
    <3>1. \A x \in Frames : FrameOK(x) => FrameOK(x)'
      BY FrameKeeps
    <3>2. \A k \in 1..n : FrameOK(q[k])
      BY DEF ThreadOK, StackOK, q, n
    <3>3. ASSUME NEW k \in 1..n PROVE FrameOK(stack[t][k])'
      <4>1. CASE k = n
        BY <1>3, <4>1 DEF r
      <4>2. CASE k \in 1..n - 1
        <5>1. PICK x \in Frames : x = q[k] /\ FrameOK(x)
          BY <1>1, <3>2, <4>2
        <5>2. FrameOK(x)'
          BY <3>1, <5>1
        <5> QED
          BY <1>3, <4>2, <5>1, <5>2 DEF r
      <4> QED
        BY <1>1, <4>1, <4>2
    <3> QED
      BY <1>3, <3>3 DEF r
  <2>2. r[1].op = "Data"
    <3>1. q[1].op = "Data"
      BY DEF ThreadOK, StackOK, q
    <3> QED
      BY <1>1, <1>3, <3>1
  <2>3. \A k \in 1..n - 1 : Called(r[k], r[k + 1])
    <3>1. \A k \in 1..n - 1 : Called(q[k], q[k + 1])
      BY DEF ThreadOK, StackOK, q, n
    <3> QED
      BY <1>1, <1>3, <3>1
  <2>4. \A j, k \in 1..n : j < k => Level(r[k]) < Level(r[j])
    <3>1. \A j, k \in 1..n : j < k => Level(q[k]) < Level(q[j])
      BY DEF ThreadOK, StackOK, q, n
    <3>2. \A j \in 1..n - 1 : Level(f) < Level(q[j])
      BY <1>1, <1>6, <3>1
    <3> QED
      BY <1>1, <1>3, <3>1, <3>2
  <2> QED
    BY <1>1, <1>3, <1>5, <2>1, <2>2, <2>3, <2>4 DEF StackOK, r
<1>8. OwnsOK(t)'
  <2>1. /\ \A k \in 1..n : InOnce(q[k]) => once[OnceOf(q[k])] = t
        /\ \A o \in Onces : once[o] = t =>
             \E k \in 1..n : InOnce(q[k]) /\ OnceOf(q[k]) = o
    BY DEF ThreadOK, OwnsOK, q, n
  <2>2. \A k \in 1..n : InOnce(q[k]) => OnceOf(q[k]) \in Onces
    BY <1>1, OnceFacts DEF InOnce
  <2>3. \A k \in 1..n : InOnce(r[k]) => once'[OnceOf(r[k])] = t
    BY <1>1, <1>3, <2>1, <2>2
  <2>4. ASSUME NEW o \in Onces, once'[o] = t
        PROVE  \E k \in 1..n : InOnce(r[k]) /\ OnceOf(r[k]) = o
    <3>1. CASE InOnce(f) /\ o = OnceOf(f)
      BY <1>1, <1>3, <3>1
    <3>2. CASE once[o] = t
      <4>1. PICK k \in 1..n : InOnce(q[k]) /\ OnceOf(q[k]) = o
        BY <2>1, <3>2
      <4>2. InOnce(r[k]) /\ OnceOf(r[k]) = o
        BY <1>1, <1>3, <4>1
      <4> QED
        BY <4>2
    <3> QED
      BY <2>4, <3>1, <3>2
  <2> QED
    BY <1>1, <1>3, <1>5, <2>3, <2>4 DEF OwnsOK, InOnce, OnceOf, r
<1>9. RetOK(t)'
  BY <1>4 DEF RetOK
<1> QED
  BY <1>7, <1>8, <1>9 DEF ThreadOK

\* A frame returns what its once holds; a guarded function is no longer running.
LEMMA ReturnOK ==
  ASSUME TypeOK, Keeps, NEW t \in Thread, ThreadOK(t), stack[t] # <<>>,
         stack' = [stack EXCEPT ![t] = Front(@)],
         InOnce(Top(t)) => once'[OnceOf(Top(t))] # t,
         \A o \in Onces : (InOnce(Top(t)) /\ o = OnceOf(Top(t))) \/ (once'[o] = t <=> once[o] = t),
         Len(stack[t]) > 1 /\ Top(t).op \in Guarded =>
           once'[OnceOf(Top(t))] = Done /\ ret'[t] = value'[OnceOf(Top(t))],
         Len(stack[t]) > 1 /\ Top(t).op = "Relocs" =>
           RelocSections(Top(t).s) = {} /\ ret'[t] = Nothing
  PROVE  ThreadOK(t)'
<1> DEFINE q == stack[t]
           n == Len(stack[t])
           r == stack'[t]
<1>1. /\ q \in Seq(Frames) /\ n \in Nat \ {0} /\ Top(t) = q[n] /\ Top(t) \in Frames
      /\ \A k \in 1..n : q[k] \in Frames
      /\ n > 1 => Called(q[n - 1], q[n])
  BY TopFacts
<1>2. r = Front(q)
  BY DEF TypeOK
<1>3. Len(r) = n - 1 /\ (\A k \in 1..n - 1 : r[k] = q[k]) /\ (r # <<>> => n > 1)
  <2> DEFINE p == Front(q)
  <2>1. q \in Seq(Frames) /\ q # <<>>
    BY <1>1
  <2> HIDE DEF q
  <2>2. /\ p \in Seq(Frames) /\ Len(p) = Len(q) - 1
        /\ \A k \in 1..Len(q) - 1 : p[k] = q[k]
    BY <2>1, Popped
  <2>3. p = r /\ n = Len(q)
    BY <1>2 DEF q
  <2>4. p # <<>> => Len(p) \in Nat \ {0}
    BY <2>2, EmptySeq
  <2> HIDE DEF p, n, r
  <2> QED
    BY <1>1, <2>2, <2>3, <2>4
<1>4. /\ \A x : Level(x)' = Level(x)
      /\ \A x, y : Called(x, y)' <=> Called(x, y)
      /\ Onces' = Onces
  BY FileKeeps DEF Keeps
<1> HIDE DEF q, n, r
<1>5. StackOK(t)'
  <2>1. (\A k \in 1..Len(stack[t]) : FrameOK(stack[t][k]))'
    <3>1. \A x \in Frames : FrameOK(x) => FrameOK(x)'
      BY FrameKeeps
    <3>2. \A k \in 1..n : FrameOK(q[k])
      BY DEF ThreadOK, StackOK, q, n
    <3>3. ASSUME NEW k \in 1..n - 1 PROVE FrameOK(stack[t][k])'
      <4>1. PICK x \in Frames : x = q[k] /\ FrameOK(x)
        BY <1>1, <3>2
      <4>2. FrameOK(x)'
        BY <3>1, <4>1
      <4> QED
        BY <1>3, <4>1, <4>2 DEF r
    <3> QED
      BY <1>3, <3>3 DEF r
  <2>2. n > 1 => r[1].op = "Data"
    <3>1. q[1].op = "Data"
      BY DEF ThreadOK, StackOK, q
    <3> QED
      BY <1>1, <1>3, <3>1
  <2>3. \A k \in 1..n - 2 : Called(r[k], r[k + 1])
    <3>1. \A k \in 1..n - 1 : Called(q[k], q[k + 1])
      BY DEF ThreadOK, StackOK, q, n
    <3> QED
      BY <1>1, <1>3, <3>1, SMTT(60)
  <2>4. \A j, k \in 1..n - 1 : j < k => Level(r[k]) < Level(r[j])
    <3>1. \A j, k \in 1..n : j < k => Level(q[k]) < Level(q[j])
      BY DEF ThreadOK, StackOK, q, n
    <3> QED
      BY <1>1, <1>3, <3>1
  <2> QED
    BY <1>1, <1>3, <1>4, <2>1, <2>2, <2>3, <2>4 DEF StackOK, r
<1>6. OwnsOK(t)'
  <2>1. /\ \A k \in 1..n : InOnce(q[k]) => once[OnceOf(q[k])] = t
        /\ \A o \in Onces : once[o] = t =>
             \E k \in 1..n : InOnce(q[k]) /\ OnceOf(q[k]) = o
    BY DEF ThreadOK, OwnsOK, q, n
  <2>2. \A k \in 1..n : InOnce(q[k]) => OnceOf(q[k]) \in Onces
    BY <1>1, OnceFacts DEF InOnce
  \* No two running functions of a thread are of the same once
  <2>3. ASSUME NEW k \in 1..n - 1, InOnce(q[k]), InOnce(q[n]) PROVE OnceOf(q[k]) # OnceOf(q[n])
    <3>1. Level(q[n]) < Level(q[k])
      BY <1>1 DEF ThreadOK, StackOK, q, n
    <3>2. q[k].op = q[n].op => Level(q[n]) = Level(q[k])
      BY <1>1, <2>3 DEF InOnce, Guarded, Level
    <3>3. Level(q[n]) \in Nat /\ Level(q[k]) \in Nat
      BY <1>1, SMTT(60) DEF Level, Frames, Guarded
    <3> QED
      BY <3>1, <3>2, <3>3 DEF OnceOf
  <2>4. ASSUME NEW k \in 1..n - 1, InOnce(r[k]) PROVE once'[OnceOf(r[k])] = t
    BY <1>1, <1>3, <2>1, <2>2, <2>3, <2>4
  <2>5. ASSUME NEW o \in Onces, once'[o] = t
        PROVE  \E k \in 1..n - 1 : InOnce(r[k]) /\ OnceOf(r[k]) = o
    <3>1. once[o] = t /\ ~ (InOnce(q[n]) /\ o = OnceOf(q[n]))
      BY <1>1, <2>5
    <3>2. PICK k \in 1..n : InOnce(q[k]) /\ OnceOf(q[k]) = o
      BY <2>1, <3>1
    <3>3. k \in 1..n - 1
      BY <1>1, <3>1, <3>2
    <3> QED
      BY <1>3, <3>2, <3>3
  <2> QED
    BY <1>1, <1>3, <1>4, <2>4, <2>5 DEF OwnsOK, InOnce, OnceOf, r
<1>7. RetOK(t)'
  <2> SUFFICES ASSUME n > 1 PROVE RetOK(t)'
    BY <1>3 DEF RetOK, r
  <2>0. PICK f \in Frames, g \in Frames : f = q[n - 1] /\ g = q[n]
    BY <1>1
  <2>1. /\ f.s \in Section /\ (g.op # "data" => g.s \in Section)
        /\ Called(f, g) /\ FrameOK(g) /\ Top(t)' = f
    <3>1. \A k \in 1..n : FrameOK(q[k])
      BY DEF ThreadOK, StackOK, q, n
    <3>2. r[n - 1] = q[n - 1]
      BY <1>1, <1>3
    <3>3. Called(f, g) /\ FrameOK(g) /\ Top(t)' = f
      BY <1>1, <1>3, <2>0, <3>1, <3>2 DEF Top, r
    <3>4. f.op # "data"
      BY <3>3 DEF Called
    <3> QED
      BY <3>3, <3>4, FrameSection
  <2>2. \A s : RelocSections(s)' = RelocSections(s)
    BY FileKeeps DEF Keeps
  <2>3. /\ g.op \in Guarded => once'[OnceOf(g)] = Done /\ ret'[t] = value'[OnceOf(g)]
        /\ g.op = "Relocs" => RelocSections(g.s) = {} /\ ret'[t] = Nothing
    BY <1>1, <2>0 DEF n
  <2>4. CASE f.op = "Data" /\ f.at = "bytes"
    BY <2>1, <2>3, <2>4, OnceFacts DEF Called, RetOK, Guarded
  <2>5. CASE f.op = "Data" /\ f.at = "relocs"
    <3>1. RelocsDone(f.s)' /\ ret'[t] = RelocsValue(f.s)'
      <4>1. CASE g.op = "Relocs"
        <5>1. RelocSections(f.s) = {} /\ ret'[t] = Nothing
          BY <2>1, <2>3, <2>5, <4>1 DEF Called
        <5> QED
          BY <2>1, <2>2, <5>1 DEF RelocsDone, RelocsValue
      <4>2. CASE g.op = "relocs"
        <5>1. g.s = f.s /\ once'[RelocsOnce(g.s)] = Done /\ ret'[t] = value'[RelocsOnce(g.s)]
          BY <2>1, <2>3, <2>5, <4>2, OnceFacts DEF Called, Guarded
        <5>2. RelocSections(f.s) # {} /\ \A rs \in Section : RelocSections(f.s) # {rs}
          BY <2>1, <4>2, <5>1 DEF FrameOK
        <5>3. RelocSections(f.s) \subseteq Section
          BY <2>1, RelocFacts
        <5> QED
          BY <2>1, <2>2, <5>1, <5>2, <5>3 DEF RelocsDone, RelocsValue
      <4>3. CASE g.op = "rel"
        <5>1. RelocSections(f.s) = {g.s} /\ once'[RelOnce(g.s)] = Done /\ ret'[t] = value'[RelOnce(g.s)]
          BY <2>1, <2>3, <2>5, <4>3, OnceFacts DEF Called, Guarded
        <5>2. (CHOOSE rs \in {g.s} : TRUE) = g.s
          OBVIOUS
        <5> QED
          BY <2>1, <2>2, <5>1, <5>2 DEF RelocsDone, RelocsValue
      <4> QED
        BY <2>1, <2>5, <4>1, <4>2, <4>3 DEF Called
    <3> QED
      BY <2>1, <2>5, <3>1 DEF RetOK
  <2>6. CASE f.op = "relocs"
    <3>1. g.op = "rel" /\ g.s = f.i /\ g.s \in RelocSections(f.s)
      BY <2>1, <2>6 DEF Called
    <3>2. once'[RelOnce(f.i)] = Done /\ ret'[t] = value'[RelOnce(f.i)]
      BY <2>1, <2>3, <3>1, OnceFacts DEF Guarded
    <3> QED
      BY <2>1, <2>2, <2>6, <3>1, <3>2 DEF RetOK
  <2>7. CASE f.op = "rel"
    BY <2>1, <2>7 DEF RetOK
  <2> QED
    BY <2>1, <2>4, <2>5, <2>6, <2>7 DEF Called
<1> QED
  BY <1>5, <1>6, <1>7 DEF ThreadOK

-----------------------------------------------------------------------------
(* Caches and answers *)

\* An answer that the caches give stays the one they give.
LEMMA AnswerKeeps ==
  ASSUME Keeps, NEW s \in Section, NEW v
  PROVE  /\ RelocsOfCache(s, v) => RelocsOfCache(s, v)'
         /\ Answerable(s) => Answerable(s)' /\ DataAnswer(s)' = DataAnswer(s)
<1>1. RelocsDone(s) => RelocsDone(s)' /\ RelocsValue(s)' = RelocsValue(s)
  BY RelocsKeep
<1>2. once[DataOnce(s)] = Done => once'[DataOnce(s)] = Done /\ value'[DataOnce(s)] = value[DataOnce(s)]
  BY OnceFacts DEF Keeps
<1>3. file' = file
  BY DEF Keeps
<1>4. RelocsOfCache(s, v) => RelocsOfCache(s, v)'
  BY <1>1 DEF RelocsOfCache
<1>5. ASSUME Answerable(s) PROVE Answerable(s)' /\ DataAnswer(s)' = DataAnswer(s)
  <2>1. CASE s \in file.wraps
    BY <1>3, <2>1 DEF Answerable, DataAnswer
  <2>2. CASE s \notin file.wraps
    BY <1>1, <1>2, <1>3, <1>5, <2>2 DEF Answerable, DataAnswer, DataOnce
  <2> QED
    BY <2>1, <2>2
<1> QED
  BY <1>4, <1>5

\* The bytes that the caches give come with the relocations that they hold.
LEMMA AnswerRelocs ==
  ASSUME NEW s \in Section, Answerable(s)
  PROVE  RelocsOfCache(s, DataAnswer(s))
<1> SUFFICES ASSUME ~ DataAnswer(s).err, DataAnswer(s).bytes \in {"heap", "map"}
             PROVE  /\ RelocsDone(s) /\ ~ RelocsValue(s).err
                    /\ DataAnswer(s).rels = RelocsValue(s).rels
  BY DEF RelocsOfCache
<1>1. s \notin file.wraps /\ ~ value[DataOnce(s)].err /\ ~ RelocsValue(s).err
  BY ResultFacts DEF DataAnswer
<1>2. DataAnswer(s) = Result(value[DataOnce(s)].bytes, RelocsValue(s).rels)
  BY <1>1, ResultFacts DEF DataAnswer
<1> QED
  BY <1>1, <1>2 DEF Answerable, Result

\* Given answers stay right.
LEMMA AnswersKept ==
  ASSUME TypeOK, AnswersOK, Keeps, answers' = answers
  PROVE  AnswersOK'
<1>1. Section' = Section /\ closed' = closed /\ lost \subseteq lost'
  BY FileKeeps DEF Keeps
<1>2. closed => SameAnswer'
  BY <1>1 DEF AnswersOK, SameAnswer
<1> QED
  BY <1>1, <1>2, AnswerKeeps DEF AnswersOK

\* An answer that the caches give, or a panic in a once, is added to those that
\* are right.
LEMMA AnswersExtended ==
  ASSUME TypeOK, AnswersOK, Keeps, ~ closed, NEW s \in Section, NEW v,
         answers' = [answers EXCEPT ![s] = @ \cup {v}],
         \/ v = DataAnswer(s) /\ Answerable(s)
         \/ v = Panicked /\ lost' # {}
  PROVE  AnswersOK'
<1>1. Section' = Section /\ closed' = closed /\ lost \subseteq lost'
  BY FileKeeps DEF Keeps
<1>2. /\ RelocsOfCache(s, v)'
      /\ (v = DataAnswer(s)' /\ Answerable(s)') \/ (v = Panicked /\ lost' # {})
  <2>1. RelocsOfCache(s, v)
    BY AnswerRelocs, ResultFacts DEF RelocsOfCache
  <2> QED
    BY <2>1, AnswerKeeps
<1>3. ASSUME NEW r \in Section, NEW w \in answers[r]
      PROVE  /\ RelocsOfCache(r, w)'
             /\ (w = DataAnswer(r)' /\ Answerable(r)') \/ (w = Panicked /\ lost' # {})
  BY <1>1, AnswerKeeps DEF AnswersOK
<1>4. \A r \in Section : answers'[r] = IF r = s THEN answers[r] \cup {v} ELSE answers[r]
  BY DEF TypeOK
<1> QED
  BY <1>1, <1>2, <1>3, <1>4 DEF AnswersOK

\* Mapping more changes no cache.
LEMMA CachesKept ==
  ASSUME CachesOK, Keeps, once' = once, value' = value, lost' = lost, symBytes' = symBytes,
         mapped \subseteq mapped'
  PROVE  CachesOK'
<1>1. /\ Section' = Section /\ Onces' = Onces
      /\ \A s : RelocSections(s)' = RelocSections(s) /\ Merged(s)' = Merged(s)
  BY FileKeeps DEF Keeps
<1>2. \A s : Given(s)' = Given(s)
  BY <1>1 DEF Given, RelOnce
<1> QED
  BY <1>1, <1>2 DEF Keeps, CachesOK, RelOnce, RelocsOnce

\* A thread is in a call of an open file.
LEMMA InCall ==
  ASSUME IInv, NEW t \in Thread, stack[t] # <<>>
  PROVE  opened = "ok" /\ ThreadOK(t)
BY DEF IInv, UnopenedOK

\* The invariant after a step of one thread that leaves the file as it is.
LEMMA StepOK ==
  ASSUME IInv, Keeps, NEW t \in Thread, stack[t] # <<>>, opened' = opened,
         TypeOK', ThreadOK(t)', CachesOK', AnswersOK',
         \A u \in Thread \ {t} : stack'[u] = stack[u] /\ ret'[u] = ret[u],
         \A u \in Thread \ {t} : \A o \in Onces : once'[o] = u <=> once[o] = u
  PROVE  IInv'
<1>1. UnopenedOK'
  BY InCall DEF UnopenedOK
<1>2. ASSUME NEW u \in Thread PROVE ThreadOK(u)'
  <2>1. CASE u = t
    BY <2>1
  <2>2. CASE u # t
    BY <2>2, OthersOK DEF IInv
  <2> QED
    BY <2>1, <2>2
<1> QED
  BY <1>1, <1>2 DEF IInv

\* A frame calls another.
LEMMA CallInv ==
  ASSUME IInv, NEW t \in Thread, stack[t] # <<>>,
         NEW f \in Frames, NEW g \in Frames, Call(t, f, g),
         Internal, NoReturn, NoStore, mapped' = mapped,
         f.op = Top(t).op, f.s = Top(t).s, InOnce(f) <=> InOnce(Top(t)),
         FrameOK(f), FrameOK(g), Called(f, g), Level(g) < Level(f), g.at = "start"
  PROVE  IInv'
<1>1. TypeOK /\ Keeps /\ once' = once /\ value' = value /\ ret' = ret /\ answers' = answers
  BY DEF IInv, Internal, NoReturn, NoStore, Keeps
<1>2. Front(stack[t]) \o <<f, g>> \in Seq(Frames)
  <2>1. stack[t] \in Seq(Frames)
    BY DEF IInv, TypeOK
  <2> QED
    BY <2>1, Pushed
<1>3. TypeOK'
  <2>1. stack' \in [Thread -> Seq(Frames)]
    BY <1>1, <1>2 DEF Call, TypeOK
  <2> QED
    BY <1>1, <2>1, FileKeeps DEF TypeOK, Keeps, Internal, NoStore
<1>4. FrameOK(f)' /\ FrameOK(g)'
  BY <1>1, FrameKeeps
<1>5. ThreadOK(t)'
  BY <1>1, <1>4, InCall, CallOK
<1>6. CachesOK' /\ AnswersOK'
  BY <1>1, CachesKept, AnswersKept DEF IInv, Internal, NoStore
<1>7. \A u \in Thread \ {t} : stack'[u] = stack[u] /\ ret'[u] = ret[u]
  BY <1>1 DEF Call, TypeOK
<1> QED
  BY <1>1, <1>3, <1>5, <1>6, <1>7, StepOK DEF Internal

\* A frame goes on, without a new once.
LEMMA BecomeInv ==
  ASSUME IInv, NEW t \in Thread, stack[t] # <<>>, NEW f \in Frames, Become(t, f),
         Internal, NoReturn, NoStore, mapped' = mapped,
         Top(t).op # "Data", f.op # "Data", f.op = "relocs" => f.i = 0,
         FrameOK(f), Level(f) <= Level(Top(t)),
         \A x : Called(x, Top(t)) => Called(x, f),
         InOnce(f) <=> InOnce(Top(t)), InOnce(f) => OnceOf(f) = OnceOf(Top(t))
  PROVE  IInv'
<1>1. TypeOK /\ Keeps /\ once' = once /\ value' = value /\ ret' = ret /\ answers' = answers
  BY DEF IInv, Internal, NoReturn, NoStore, Keeps
<1>2. stack[t] \in Seq(Frames)
  BY DEF IInv, TypeOK
<1>3. Front(stack[t]) \o <<f>> \in Seq(Frames)
  BY <1>2, Replaced
<1>4. TypeOK'
  <2>1. stack' \in [Thread -> Seq(Frames)]
    BY <1>1, <1>3 DEF Become, TypeOK
  <2> QED
    BY <1>1, <2>1, FileKeeps DEF TypeOK, Keeps, Internal, NoStore
<1>5. FrameOK(f)'
  BY <1>1, FrameKeeps
<1>6. InOnce(f) => once'[OnceOf(f)] = t
  <2>1. Top(t) = stack[t][Len(stack[t])] /\ Len(stack[t]) \in 1..Len(stack[t])
    BY <1>1, InCall, TopFacts
  <2> QED
    BY <1>1, <2>1, InCall DEF ThreadOK, OwnsOK
<1>7. ThreadOK(t)'
  BY <1>1, <1>5, <1>6, InCall, BecomeOK
<1>8. CachesOK' /\ AnswersOK'
  BY <1>1, CachesKept, AnswersKept DEF IInv, Internal, NoStore
<1>9. \A u \in Thread \ {t} : stack'[u] = stack[u] /\ ret'[u] = ret[u]
  BY <1>1 DEF Become, TypeOK
<1> QED
  BY <1>1, <1>4, <1>7, <1>8, <1>9, StepOK DEF Internal

\* A frame returns v, without touching its once.
LEMMA ReturnInv ==
  ASSUME IInv, NEW t \in Thread, stack[t] # <<>>, NEW v \in Results, Return(t, v),
         Internal, NoStore, mapped' = mapped, ~ InOnce(Top(t)),
         Top(t).op \in Guarded => once[OnceOf(Top(t))] = Done /\ v = value[OnceOf(Top(t))],
         Top(t).op = "Relocs" => RelocSections(Top(t).s) = {} /\ v = Nothing,
         Top(t).op = "Data" /\ Len(stack[t]) = 1 /\ ~ closed =>
           v = DataAnswer(Top(t).s) /\ Answerable(Top(t).s)
  PROVE  IInv'
<1>1. /\ TypeOK /\ Keeps /\ once' = once /\ value' = value /\ lost' = lost
      /\ opened' = opened /\ symBytes' = symBytes
  BY DEF IInv, Internal, NoStore, Keeps
<1>2. /\ stack[t] \in Seq(Frames) /\ Top(t) \in Frames
      /\ Len(stack[t]) \in Nat \ {0}
      /\ Len(stack[t]) = 1 => Top(t).op = "Data" /\ Top(t).s \in Section
  BY <1>1, InCall, TopFacts
<1>3. /\ stack' = [stack EXCEPT ![t] = Front(@)]
      /\ ret' = [ret EXCEPT ![t] = IF Len(stack[t]) = 1 THEN Nothing ELSE v]
      /\ answers' = IF Len(stack[t]) = 1 /\ ~ closed
                    THEN [answers EXCEPT ![Top(t).s] = @ \cup {v}] ELSE answers
  BY DEF Return
<1>4. TypeOK'
  <2>1. Front(stack[t]) \in Seq(Frames)
    BY <1>2, Popped
  <2>2. stack' \in [Thread -> Seq(Frames)] /\ ret' \in [Thread -> Results]
    BY <1>1, <1>3, <2>1, ResultFacts DEF TypeOK
  <2>3. answers' \in [Section -> SUBSET Results]
    BY <1>1, <1>2, <1>3 DEF TypeOK
  <2> QED
    BY <1>1, <2>2, <2>3, FileKeeps DEF TypeOK, Keeps, Internal
<1>5. /\ Len(stack[t]) > 1 => ret'[t] = v
      /\ \A u \in Thread \ {t} : stack'[u] = stack[u] /\ ret'[u] = ret[u]
  <2>1. ret'[t] = IF Len(stack[t]) = 1 THEN Nothing ELSE v
    BY <1>1, <1>3 DEF TypeOK
  <2>2. \A u \in Thread \ {t} : stack'[u] = stack[u] /\ ret'[u] = ret[u]
    BY <1>1, <1>3 DEF TypeOK
  <2> DEFINE n == Len(stack[t])
  <2>3. n \in Nat /\ Len(stack[t]) = n
    BY <1>2
  <2> HIDE DEF n
  <2> QED
    BY <2>1, <2>2, <2>3
<1>6. ThreadOK(t)'
  BY <1>1, <1>3, <1>5, InCall, ReturnOK
<1>7. CachesOK'
  BY <1>1, CachesKept DEF IInv
<1>8. AnswersOK'
  <2>1. CASE Len(stack[t]) = 1 /\ ~ closed
    <3>1. PICK s \in Section : s = Top(t).s
      BY <1>2, <2>1
    <3>2. v = DataAnswer(s) /\ Answerable(s)
      BY <1>2, <2>1, <3>1
    <3>3. answers' = [answers EXCEPT ![s] = @ \cup {v}]
      BY <1>3, <2>1, <3>1
    <3> QED
      BY <1>1, <2>1, <3>2, <3>3, AnswersExtended DEF IInv
  <2>2. CASE ~ (Len(stack[t]) = 1 /\ ~ closed)
    BY <1>1, <1>3, <2>2, AnswersKept DEF IInv
  <2> QED
    BY <2>1, <2>2
<1> QED
  BY <1>1, <1>4, <1>5, <1>6, <1>7, <1>8, StepOK

\* The function of a once ends with v.
LEMMA StoreInv ==
  ASSUME IInv, NEW t \in Thread, stack[t] # <<>>, NEW v \in Results, Store(t, v),
         Internal, mapped \subseteq mapped', mapped' \subseteq Section, InOnce(Top(t)),
         v.bytes = "map" => Top(t).op = "data" /\ Top(t).s \in mapped',
         ~ v.err /\ Top(t).op = "rel" => v.rels = {Top(t).s},
         ~ v.err /\ Top(t).op = "relocs" =>
           /\ \A rs \in RelocSections(Top(t).s) : once[RelOnce(rs)] = Done
           /\ v.rels = Given(Top(t).s)
  PROVE  IInv'
<1> DEFINE f == Top(t)
           o == OnceOf(Top(t))
<1>1. /\ TypeOK /\ ThreadOK(t) /\ CachesOK /\ opened' = opened /\ file' = file
      /\ closed' = closed /\ symBytes' = symBytes
  BY InCall DEF IInv, Internal
<1>2. /\ stack[t] \in Seq(Frames) /\ f \in Frames /\ FrameOK(f)
      /\ Len(stack[t]) \in Nat \ {0} /\ (Len(stack[t]) = 1 => f.op = "Data")
      /\ f = stack[t][Len(stack[t])]
  BY <1>1, TopFacts
<1>3. f.op \in Guarded /\ Len(stack[t]) # 1
  BY <1>2 DEF InOnce, Guarded
<1>4. o \in Onces /\ o[1] = f.op /\ o[2] = f.s
  BY <1>2, <1>3, OnceFacts DEF OnceOf
<1>5. once[o] = t /\ t # Done /\ t # New
  BY <1>1, <1>2, ConstantsAssumption DEF ThreadOK, OwnsOK
<1>6. /\ stack' = [stack EXCEPT ![t] = Front(@)]
      /\ ret' = [ret EXCEPT ![t] = v]
      /\ answers' = answers /\ lost' = lost
      /\ once' = [once EXCEPT ![o] = Done]
      /\ value' = [value EXCEPT ![o] = v]
  BY <1>3 DEF Store, Return
<1> HIDE DEF f, o
<1>7. \A p \in Onces : /\ once'[p] = IF p = o THEN Done ELSE once[p]
                       /\ value'[p] = IF p = o THEN v ELSE value[p]
  BY <1>1, <1>6 DEF TypeOK
<1>8. Keeps
  BY <1>1, <1>5, <1>6, <1>7 DEF Keeps
<1>9. TypeOK'
  <2>1. Front(stack[t]) \in Seq(Frames)
    BY <1>2, Popped
  <2>2. stack' \in [Thread -> Seq(Frames)] /\ ret' \in [Thread -> Results]
    BY <1>1, <1>6, <2>1 DEF TypeOK
  <2>3. once' \in [Onces -> {New, Done} \cup Thread] /\ value' \in [Onces -> Results]
    BY <1>1, <1>4, <1>6 DEF TypeOK
  <2> QED
    BY <1>1, <1>6, <2>2, <2>3, FileKeeps DEF TypeOK, Internal
<1>10. /\ ret'[t] = v
       /\ \A u \in Thread \ {t} : stack'[u] = stack[u] /\ ret'[u] = ret[u]
  BY <1>1, <1>6 DEF TypeOK
<1>11. ThreadOK(t)'
  <2>1. /\ once'[OnceOf(Top(t))] = Done /\ ret'[t] = value'[OnceOf(Top(t))]
        /\ \A p \in Onces : (InOnce(Top(t)) /\ p = OnceOf(Top(t))) \/ (once'[p] = t <=> once[p] = t)
        /\ Top(t).op # "Relocs"
    BY <1>3, <1>4, <1>7, <1>10 DEF o, f, Guarded
  <2> QED
    BY <1>1, <1>5, <1>6, <1>8, <2>1, ReturnOK
<1>12. CachesOK'
  <2>1. /\ Section' = Section /\ Onces' = Onces
        /\ \A s : RelocSections(s)' = RelocSections(s) /\ Given(s)' = Given(s)
    <3>1. \A s : Merged(s)' = Merged(s)
      BY <1>1, FileKeeps
    <3> QED
      BY <1>1, <1>6, <3>1, FileKeeps DEF Given, RelOnce
  <2>2. o \notin lost
    BY <1>1, <1>5 DEF CachesOK
  <2>3. \A p \in Onces : /\ once'[p] # Done \/ p \in lost => value'[p] = Nothing
                         /\ value'[p].bytes = "map" => p[1] = "data" /\ p[2] \in mapped'
    BY <1>1, <1>4, <1>7, <2>2 DEF CachesOK, f
  <2>4. \A p \in lost : once'[p] = Done
    BY <1>1, <1>7 DEF CachesOK, TypeOK
  <2>5. ~ closed => symBytes \subseteq mapped'
    BY <1>1 DEF CachesOK
  <2>6. ASSUME NEW s \in Section
        PROVE  once'[RelOnce(s)] = Done /\ ~ value'[RelOnce(s)].err =>
                 value'[RelOnce(s)].rels = IF RelOnce(s) \in lost THEN {} ELSE {s}
    <3>1. RelOnce(s) \in Onces
      BY OnceFacts
    <3>2. RelOnce(s) = o => f.op = "rel" /\ f.s = s
      BY DEF o, f, OnceOf, RelOnce
    <3> QED
      BY <1>1, <1>7, <2>2, <3>1, <3>2 DEF CachesOK, f
  <2>7. ASSUME NEW s \in Section, once'[RelocsOnce(s)] = Done
        PROVE  /\ \A rs \in Section : RelocSections(s) # {rs}
               /\ ~ value'[RelocsOnce(s)].err /\ RelocsOnce(s) \notin lost =>
                    /\ \A rs \in RelocSections(s) : once'[RelOnce(rs)] = Done
                    /\ value'[RelocsOnce(s)].rels = Given(s)
    <3>1. RelocsOnce(s) \in Onces /\ \A rs \in RelocSections(s) : RelOnce(rs) \in Onces
      BY OnceFacts, RelocFacts
    <3>2. CASE RelocsOnce(s) = o
      <4>1. f.op = "relocs" /\ f.s = s
        BY <3>2 DEF o, f, OnceOf, RelocsOnce
      <4> QED
        BY <1>2, <1>7, <3>1, <3>2, <4>1 DEF FrameOK, f
    <3>3. CASE RelocsOnce(s) # o
      <4>1. once[RelocsOnce(s)] = Done /\ value'[RelocsOnce(s)] = value[RelocsOnce(s)]
        BY <1>7, <2>7, <3>1, <3>3
      <4> QED
        BY <1>1, <1>7, <3>1, <4>1 DEF CachesOK
    <3> QED
      BY <3>2, <3>3
  <2> QED
    BY <1>1, <1>6, <2>1, <2>3, <2>4, <2>5, <2>6, <2>7 DEF CachesOK, RelOnce, RelocsOnce
<1>13. AnswersOK'
  BY <1>1, <1>6, <1>8, AnswersKept DEF IInv
<1>14. \A u \in Thread \ {t} : \A p \in Onces : once'[p] = u <=> once[p] = u
  BY <1>5, <1>7, ConstantsAssumption
<1> QED
  BY <1>1, <1>8, <1>9, <1>10, <1>11, <1>12, <1>13, <1>14, StepOK

\* A panic leaves every call of the thread, and loses the onces it was in.  In none,
\* it is what any call of Data on the section comes to.
LEMMA PanicInv ==
  ASSUME IInv, NEW t \in Thread, stack[t] # <<>>, Panic(t), Internal, mapped' = mapped,
         \/ \E o \in Onces : once[o] = t
         \/ /\ Len(stack[t]) = 1 /\ Top(t).op = "Data"
            /\ Panicked = DataAnswer(Top(t).s) /\ Answerable(Top(t).s)
  PROVE  IInv'
<1> DEFINE q == stack[t]
           a == stack[t][1].s
<1>1. /\ TypeOK /\ ThreadOK(t) /\ CachesOK /\ opened' = opened /\ file' = file
      /\ closed' = closed /\ symBytes' = symBytes
  BY InCall DEF IInv, Internal
<1>2. /\ q[Len(q)] = Top(t) /\ Len(q) \in Nat \ {0}
      /\ \A k \in 1..Len(q) : q[k] \in Frames /\ FrameOK(q[k])
      /\ q[1].op = "Data" /\ q[1].s \in Section
  <2>1. /\ q[Len(q)] = Top(t) /\ Len(q) \in Nat \ {0}
        /\ \A k \in 1..Len(q) : q[k] \in Frames /\ FrameOK(q[k])
        /\ q[1].op = "Data"
    BY <1>1, TopFacts DEF ThreadOK, StackOK
  <2>2. 1 \in 1..Len(q)
    BY <2>1
  <2> QED
    BY <2>1, <2>2, FrameSection
<1>3. /\ stack' = [stack EXCEPT ![t] = <<>>]
      /\ ret' = [ret EXCEPT ![t] = Nothing]
      /\ value' = value
      /\ answers' = IF closed THEN answers ELSE [answers EXCEPT ![a] = @ \cup {Panicked}]
      /\ \A o \in Onces : once'[o] = IF once[o] = t THEN Done ELSE once[o]
      /\ once' \in [Onces -> {New, Done} \cup Thread]
      /\ lost' = lost \cup {o \in Onces : once[o] = t}
  BY <1>1 DEF Panic, TypeOK
<1>4. t # Done /\ Done \notin Thread
  BY ConstantsAssumption
<1>5. Keeps
  BY <1>1, <1>3, <1>4 DEF Keeps
<1>6. TypeOK'
  <2>1. stack' \in [Thread -> Seq(Frames)] /\ ret' \in [Thread -> Results]
    BY <1>1, <1>3, ResultFacts DEF TypeOK
  <2>2. answers' \in [Section -> SUBSET Results]
    BY <1>1, <1>2, <1>3, ResultFacts DEF TypeOK
  <2>3. lost' \subseteq Onces
    BY <1>1, <1>3 DEF TypeOK
  <2> QED
    BY <1>1, <1>3, <2>1, <2>2, <2>3, FileKeeps DEF TypeOK, Internal
<1>7. /\ stack'[t] = <<>> /\ ret'[t] = Nothing
      /\ \A u \in Thread \ {t} : stack'[u] = stack[u] /\ ret'[u] = ret[u]
      /\ \A u \in Thread \ {t} : \A o \in Onces : once'[o] = u <=> once[o] = u
  BY <1>1, <1>3, <1>4 DEF TypeOK
<1>8. ThreadOK(t)'
  <2>1. Len(<<>>) = 0 /\ \A o \in Onces : once'[o] # t
    BY <1>3, <1>4
  <2>2. Onces' = Onces
    BY <1>1, FileKeeps
  <2> QED
    BY <1>7, <2>1, <2>2 DEF ThreadOK, StackOK, OwnsOK, RetOK
<1>9. CachesOK'
  <2>1. /\ Section' = Section /\ Onces' = Onces
        /\ \A s : RelocSections(s)' = RelocSections(s) /\ Merged(s)' = Merged(s)
    BY <1>1, FileKeeps
  <2>2. \A o \in Onces : /\ once'[o] # Done \/ o \in lost' => value[o] = Nothing
                         /\ o \in lost' => once'[o] = Done
                         /\ value[o].bytes = "map" => o[1] = "data" /\ o[2] \in mapped
    BY <1>1, <1>3, <1>4 DEF CachesOK
  <2>3. ASSUME NEW s \in Section
        PROVE  once'[RelOnce(s)] = Done /\ ~ value[RelOnce(s)].err =>
                 value[RelOnce(s)].rels = IF RelOnce(s) \in lost' THEN {} ELSE {s}
    <3>1. RelOnce(s) \in Onces
      BY OnceFacts
    <3>2. CASE once[RelOnce(s)] = t
      BY <1>1, <1>3, <1>4, <3>1, <3>2, ResultFacts DEF CachesOK
    <3>3. CASE once[RelOnce(s)] # t
      BY <1>1, <1>3, <3>1, <3>3 DEF CachesOK
    <3> QED
      BY <3>2, <3>3
  <2>4. ASSUME NEW s \in Section, once'[RelocsOnce(s)] = Done
        PROVE  /\ \A rs \in Section : RelocSections(s) # {rs}
               /\ ~ value[RelocsOnce(s)].err /\ RelocsOnce(s) \notin lost' =>
                    /\ \A rs \in RelocSections(s) : once'[RelOnce(rs)] = Done
                    /\ value[RelocsOnce(s)].rels = Given(s)'
    <3>1. RelocsOnce(s) \in Onces /\ \A rs \in RelocSections(s) : RelOnce(rs) \in Onces
      BY OnceFacts, RelocFacts
    <3>2. CASE once[RelocsOnce(s)] = t
      <4>1. PICK k \in 1..Len(q) : InOnce(q[k]) /\ OnceOf(q[k]) = RelocsOnce(s)
        BY <1>1, <3>1, <3>2 DEF ThreadOK, OwnsOK
      <4>2. q[k].op = "relocs" /\ q[k].s = s /\ FrameOK(q[k])
        BY <1>2, <4>1 DEF OnceOf, RelocsOnce
      <4>3. RelocsOnce(s) \in lost'
        BY <1>3, <3>1, <3>2
      <4> QED
        BY <4>2, <4>3 DEF FrameOK
    <3>3. CASE once[RelocsOnce(s)] # t
      <4>1. once[RelocsOnce(s)] = Done /\ (RelocsOnce(s) \in lost' <=> RelocsOnce(s) \in lost)
        BY <1>3, <2>4, <3>1, <3>3
      <4>2. \A rs \in Section : RelocSections(s) # {rs}
        BY <1>1, <4>1 DEF CachesOK
      <4>3. ASSUME ~ value[RelocsOnce(s)].err, RelocsOnce(s) \notin lost
            PROVE  /\ \A rs \in RelocSections(s) : once'[RelOnce(rs)] = Done
                   /\ value[RelocsOnce(s)].rels = Given(s)'
        <5>1. /\ \A rs \in RelocSections(s) : once[RelOnce(rs)] = Done
              /\ value[RelocsOnce(s)].rels = Given(s)
          BY <1>1, <4>1, <4>3 DEF CachesOK
        <5>2. \A rs \in RelocSections(s) : /\ once'[RelOnce(rs)] = Done
                                           /\ RelOnce(rs) \in lost' <=> RelOnce(rs) \in lost
          BY <1>3, <1>4, <3>1, <5>1
        <5>3. Given(s)' = Given(s)
          BY <2>1, <5>2 DEF Merged, Given, RelOnce
        <5> QED
          BY <5>1, <5>2, <5>3
      <4> QED
        BY <4>1, <4>2, <4>3
    <3> QED
      BY <3>2, <3>3
  <2>5. \A o \in lost' : once'[o] = Done
    BY <1>6, <2>1, <2>2 DEF TypeOK
  <2>6. ~ closed => symBytes \subseteq mapped
    BY <1>1 DEF CachesOK
  <2> QED
    BY <1>1, <1>3, <2>1, <2>2, <2>3, <2>4, <2>5, <2>6 DEF CachesOK, RelOnce, RelocsOnce
<1>10. AnswersOK'
  <2>1. CASE closed
    BY <1>1, <1>3, <1>5, <2>1, AnswersKept DEF IInv
  <2>2. CASE ~ closed
    <3>1. PICK s \in Section : s = a
      BY <1>2
    <3>2. answers' = [answers EXCEPT ![s] = @ \cup {Panicked}]
      BY <1>3, <2>2, <3>1
    <3>3. \/ Panicked = DataAnswer(s) /\ Answerable(s)
          \/ lost' # {}
      BY <1>2, <1>3, <3>1
    <3> QED
      BY <1>1, <1>5, <2>2, <3>2, <3>3, AnswersExtended DEF IInv
  <2> QED
    BY <2>1, <2>2
<1> QED
  BY <1>1, <1>5, <1>6, <1>7, <1>8, <1>9, <1>10, StepOK

\* A panic in a once.
LEMMA PanicInOnce ==
  ASSUME IInv, NEW t \in Thread, stack[t] # <<>>, Panic(t), Internal, mapped' = mapped,
         InOnce(Top(t)) \/ (Len(stack[t]) # 1 /\ Top(t).op = "Data")
  PROVE  IInv'
<1> DEFINE q == stack[t]
<1>1. /\ TypeOK /\ ThreadOK(t) /\ Len(q) \in Nat \ {0} /\ Top(t) = q[Len(q)]
      /\ \A k \in 1..Len(q) : q[k] \in Frames
      /\ Len(q) > 1 => Called(q[Len(q) - 1], q[Len(q)])
  BY InCall, TopFacts DEF IInv
<1>2. PICK k \in 1..Len(q) : InOnce(q[k])
  <2>1. CASE InOnce(Top(t))
    BY <1>1, <2>1
  <2>2. CASE Len(q) # 1 /\ Top(t).op = "Data"
    <3>1. Len(q) > 1 /\ Len(q) - 1 \in 1..Len(q)
      <4> DEFINE n == Len(q)
      <4>1. n \in Nat \ {0} /\ n # 1
        BY <1>1, <2>2
      <4> HIDE DEF n
      <4>2. n > 1 /\ n - 1 \in 1..n
        BY <4>1
      <4> QED
        BY <4>2 DEF n
    <3> DEFINE f == q[Len(q) - 1]
               g == q[Len(q)]
    <3>2. Called(f, g) /\ g.op = "Data"
      BY <1>1, <2>2, <3>1
    <3> HIDE DEF g
    <3>3. InOnce(f)
      BY <3>2, Zenon DEF Called, InOnce, Guarded
    <3> QED
      BY <3>1, <3>3
  <2> QED
    BY <2>1, <2>2
<1>3. OnceOf(q[k]) \in Onces
  BY <1>1, <1>2, OnceFacts DEF InOnce
<1>4. once[OnceOf(q[k])] = t
  BY <1>1, <1>2 DEF ThreadOK, OwnsOK
<1> QED
  BY <1>3, <1>4, PanicInv

-----------------------------------------------------------------------------
(* Entering a once, calling, opening and closing *)

\* The first to come to a once runs its function.
LEMMA OnceEnterInv ==
  ASSUME IInv, NEW t \in Thread, OnceEnter(t)
  PROVE  IInv'
<1> DEFINE o == OnceOf(Top(t))
<1>0. PICK f \in Frames : f = [Top(t) EXCEPT !.at = "body"]
  <2>1. Top(t) \in Frames
    BY InCall, TopFacts DEF OnceEnter, At, IInv
  <2> QED
    BY <2>1 DEF Frames
<1>1. /\ TypeOK /\ stack[t] # <<>> /\ Top(t).op \in Guarded /\ Top(t).at = "start"
      /\ once[o] = New /\ once' = [once EXCEPT ![o] = t] /\ Become(t, f)
      /\ Internal /\ ret' = ret /\ answers' = answers /\ value' = value /\ mapped' = mapped
      /\ lost' = lost
  BY <1>0 DEF OnceEnter, At, IInv, NoReturn
<1>2. /\ ThreadOK(t) /\ opened' = opened /\ file' = file /\ closed' = closed
      /\ symBytes' = symBytes
      /\ stack[t] \in Seq(Frames) /\ Top(t) \in Frames /\ FrameOK(Top(t))
  BY <1>1, InCall, TopFacts DEF Internal
<1>3. o \in Onces
  BY <1>1, <1>2, OnceFacts
<1>4. /\ f \in Frames /\ f.op = Top(t).op /\ f.s = Top(t).s /\ f.i = Top(t).i
      /\ f.kept = Top(t).kept /\ f.at = "body" /\ OnceOf(f) = o
  BY <1>0, <1>2 DEF Frames, OnceOf
<1>5. Top(t).op # "Data" /\ FrameOK(f) /\ Level(f) = Level(Top(t)) /\ (\A x : Called(x, Top(t)) => Called(x, f))
  <2>1. Top(t).op # "Data"
    BY <1>1 DEF Guarded
  <2>2. Level(f) = Level(Top(t)) /\ \A x : Called(x, Top(t)) => Called(x, f)
    BY <1>4 DEF Level, Called
  <2>3. FrameOK(f)
    BY <1>1, <1>2, <1>4 DEF FrameOK, Points, Guarded
  <2> QED
    BY <2>1, <2>2, <2>3
<1>6. Level(f) \in Nat /\ InOnce(f) /\ ~ InOnce(Top(t)) /\ (f.op = "relocs" => f.i = 0)
  BY <1>1, <1>2, <1>4 DEF InOnce, Level, Frames, Guarded, FrameOK
<1> HIDE DEF o
<1>7. \A p \in Onces : once'[p] = IF p = o THEN t ELSE once[p]
  BY <1>1 DEF TypeOK
<1>8. t # Done /\ t # New /\ New # Done
  BY ConstantsAssumption
<1>9. Keeps
  BY <1>1, <1>2, <1>7, <1>8 DEF Keeps
<1>10. \A u \in Thread \ {t} : /\ stack'[u] = stack[u] /\ ret'[u] = ret[u]
                               /\ \A p \in Onces : once'[p] = u <=> once[p] = u
  <2>1. \A u \in Thread \ {t} : \A p \in Onces : once'[p] = u <=> once[p] = u
    BY <1>1, <1>7, ConstantsAssumption
  <2>2. \A u \in Thread \ {t} : stack'[u] = stack[u] /\ ret'[u] = ret[u]
    BY <1>1 DEF Become, TypeOK
  <2> QED
    BY <2>1, <2>2
<1>11. TypeOK'
  <2>1. Front(stack[t]) \o <<f>> \in Seq(Frames)
    BY <1>1, <1>2, <1>4, Replaced
  <2>2. stack' \in [Thread -> Seq(Frames)]
    BY <1>1, <2>1 DEF Become, TypeOK
  <2>3. once' \in [Onces -> {New, Done} \cup Thread]
    BY <1>1 DEF TypeOK
  <2> QED
    BY <1>1, <1>2, <2>2, <2>3, FileKeeps DEF TypeOK, Internal
<1>12. ThreadOK(t)'
  <2>1. FrameOK(f)'
    BY <1>4, <1>5, <1>9, FrameKeeps
  <2>2. InOnce(f) => once'[OnceOf(f)] = t
    BY <1>3, <1>4, <1>7
  <2>3. /\ \A p \in Onces : once[p] = t => once'[p] = t
        /\ \A p \in Onces : once'[p] = t => once[p] = t \/ (InOnce(f) /\ p = OnceOf(f))
    BY <1>1, <1>4, <1>6, <1>7, <1>8
  <2>4. Level(f) <= Level(Top(t)) /\ f.op # "Data"
    BY <1>4, <1>5, <1>6
  <2> QED
    BY <1>1, <1>2, <1>4, <1>5, <1>6, <1>9, <2>1, <2>2, <2>3, <2>4, BecomeOK
<1>13. CachesOK'
  <2>1. \A p \in Onces : once'[p] = Done <=> once[p] = Done
    BY <1>1, <1>3, <1>7, <1>8
  <2>2. /\ Section' = Section /\ Onces' = Onces
        /\ \A s : RelocSections(s)' = RelocSections(s) /\ Given(s)' = Given(s)
    <3>1. \A s : Merged(s)' = Merged(s)
      BY <1>2, FileKeeps
    <3> QED
      BY <1>1, <1>2, <3>1, FileKeeps DEF Given, RelOnce
  <2>3. \A s \in Section : /\ RelOnce(s) \in Onces /\ RelocsOnce(s) \in Onces
                          /\ \A rs \in RelocSections(s) : RelOnce(rs) \in Onces
    BY OnceFacts, RelocFacts
  <2>4. lost \subseteq Onces /\ CachesOK
    BY <1>1 DEF TypeOK, IInv
  <2>5. \A p \in lost : once'[p] = Done
    BY <2>1, <2>4 DEF CachesOK
  <2>6. \A s \in Section : once'[RelocsOnce(s)] = Done =>
          /\ \A rs \in Section : RelocSections(s) # {rs}
          /\ ~ value[RelocsOnce(s)].err /\ RelocsOnce(s) \notin lost =>
               /\ \A rs \in RelocSections(s) : once'[RelOnce(rs)] = Done
               /\ value[RelocsOnce(s)].rels = Given(s)
    BY <2>1, <2>3, <2>4 DEF CachesOK
  <2> QED
    BY <1>1, <1>2, <2>1, <2>2, <2>3, <2>4, <2>5, <2>6 DEF CachesOK, RelOnce, RelocsOnce
<1>14. AnswersOK'
  BY <1>1, <1>9, AnswersKept DEF IInv
<1> QED
  BY <1>1, <1>2, <1>9, <1>10, <1>11, <1>12, <1>13, <1>14, StepOK

\* A thread that is in no call is in no once.
LEMMA IdleOK ==
  ASSUME NEW t \in Thread, stack[t] = <<>>
  PROVE  ThreadOK(t) <=> \A o \in Onces : once[o] # t
<1>1. Len(<<>>) = 0
  OBVIOUS
<1> QED
  BY <1>1 DEF ThreadOK, StackOK, OwnsOK, RetOK

\* A client calls Data.
LEMMA CallDataInv ==
  ASSUME IInv, NEW t \in Thread, NEW s \in Section, CallData(t, s)
  PROVE  IInv'
<1> DEFINE f == Frame("Data", s)
<1>1. /\ TypeOK /\ ThreadOK(t) /\ stack[t] = <<>> /\ stack' = [stack EXCEPT ![t] = <<f>>]
      /\ calls[t] < MaxCalls /\ calls' = [calls EXCEPT ![t] = @ + 1]
      /\ opened = "ok" /\ opened' = opened /\ file' = file /\ closed' = closed /\ mapped' = mapped
      /\ lost' = lost /\ symBytes' = symBytes
      /\ ret' = ret /\ answers' = answers /\ once' = once /\ value' = value
  BY DEF CallData, IInv, NoReturn, NoStore
<1>2. /\ f \in Frames /\ f.op = "Data" /\ f.s = s /\ f.at = "start" /\ f.kept = Nothing
  BY FrameFacts
<1> HIDE DEF f
<1>3. Keeps /\ Onces' = Onces
  BY <1>1, FileKeeps DEF Keeps
<1>4. TypeOK'
  <2>1. <<f>> \in Seq(Frames)
    BY <1>2
  <2>2. stack' \in [Thread -> Seq(Frames)]
    BY <1>1, <2>1 DEF TypeOK
  <2>3. calls' \in [Thread -> 0..MaxCalls]
    BY <1>1, ConstantsAssumption DEF TypeOK
  <2> QED
    BY <1>1, <2>2, <2>3, FileKeeps DEF TypeOK
<1>5. ThreadOK(t)'
  <2>1. stack'[t] = <<f>> /\ Len(<<f>>) = 1 /\ <<f>>[1] = f /\ <<f>> # <<>>
    BY <1>1 DEF TypeOK
  <2>2. FrameOK(f)'
    <3>1. FrameOK(f)
      BY <1>2 DEF FrameOK, Points
    <3> QED
      BY <1>2, <1>3, <3>1, FrameKeeps
  <2>3. (\A k \in 1..Len(stack[t]) : FrameOK(stack[t][k]))'
    <3>1. \A k \in 1..1 : k = 1
      OBVIOUS
    <3> QED
      BY <2>1, <2>2, <3>1
  <2>4. StackOK(t)'
    <3>1. \A k \in 1..1 - 1 : FALSE
      OBVIOUS
    <3>2. \A j, k \in 1..1 : ~ j < k
      OBVIOUS
    <3> QED
      BY <1>2, <2>1, <2>3, <3>1, <3>2 DEF StackOK
  <2>5. OwnsOK(t)'
    <3>1. \A o \in Onces : once[o] # t
      BY <1>1, IdleOK
    <3>2. \A k \in 1..1 : k = 1
      OBVIOUS
    <3> QED
      BY <1>1, <1>2, <1>3, <2>1, <3>1, <3>2 DEF OwnsOK, InOnce, Guarded
  <2>6. RetOK(t)'
    <3>1. Top(t)' = f
      BY <2>1 DEF Top
    <3> QED
      BY <1>2, <3>1 DEF RetOK
  <2> QED
    BY <2>4, <2>5, <2>6 DEF ThreadOK
<1>6. CachesOK' /\ AnswersOK'
  BY <1>1, <1>3, CachesKept, AnswersKept DEF IInv
<1>7. ASSUME NEW u \in Thread PROVE ThreadOK(u)'
  <2>1. CASE u = t
    BY <1>5, <2>1
  <2>2. CASE u # t
    <3>1. stack'[u] = stack[u] /\ ret'[u] = ret[u]
      BY <1>1, <2>2 DEF TypeOK
    <3> QED
      BY <1>1, <1>3, <3>1, OthersOK DEF IInv
  <2> QED
    BY <2>1, <2>2
<1> QED
  BY <1>1, <1>4, <1>6, <1>7 DEF IInv, UnopenedOK

\* What is loaded of a section is its bytes, and only a section is mapped.
LEMMA LoadsFacts ==
  ASSUME file \in Files, NEW s \in {Null} \cup Section, NEW v \in Loads(s)
  PROVE  v \in Results /\ (v.bytes = "map" => s \in Section /\ v # Panicked)
<1>1. CASE s = Null
  BY <1>1, ResultFacts DEF Loads
<1>2. CASE s \in Section
  <2>1. file.read[s] \in Ends
    BY <1>2, FilesAssumption DEF FileOK, Section
  <2>2. v \in {Result("heap", {}), Error, Panicked, Result("map", {})}
    BY <1>2, <2>1 DEF Loads, Ending, Ends, Section, Null
  <2> QED
    BY <1>2, <2>2, ResultFacts DEF Bytes
<1> QED
  BY <1>1, <1>2

\* The sections openElf reads are sections.
LEMMA SymFacts == SymSections \subseteq Section
BY DEF SymSections, SymTabs, SymTab, BadStrings

\* The file is opened, or is not.
LEMMA OpenElfInv ==
  ASSUME IInv, OpenElf
  PROVE  IInv'
<1>1. /\ TypeOK /\ CachesOK /\ opened = "no" /\ ~ closed /\ mapped = {} /\ lost = {}
      /\ \A t \in Thread : stack[t] = <<>>
      /\ \A s \in Section : answers[s] = {}
  BY DEF OpenElf, IInv, UnopenedOK
<1>2. /\ file' = file /\ stack' = stack /\ ret' = ret /\ calls' = calls /\ answers' = answers
      /\ closed' = closed /\ lost' = lost
  BY DEF OpenElf
<1>3. Section' = Section /\ Onces' = Onces /\ Results' = Results /\ Frames' = Frames
  BY <1>2, FileKeeps
<1>4. PICK loaded \in [SymSections -> UNION {Loads(s) : s \in SymSections}] :
        /\ \A s \in SymSections : loaded[s] \in Loads(s)
        /\ \/ opened' = "error"
           \/ opened' \in Fails("symtab", loaded) \/ opened' \in Fails("dynsym", loaded)
           \/ opened' = "ok"
        /\ IF opened' = "ok"
           THEN /\ once' = [o \in Onces |-> IF o \in {DataOnce(s) : s \in SymSections}
                                            THEN Done ELSE once[o]]
                /\ value' = [o \in Onces |-> IF o \in {DataOnce(s) : s \in SymSections}
                                             THEN loaded[o[2]] ELSE value[o]]
                /\ mapped' = {s \in SymSections : loaded[s].bytes = "map"}
                /\ symBytes' = mapped'
           ELSE UNCHANGED <<once, value, mapped, symBytes>>
  BY DEF OpenElf
<1>5. opened' \in {"no", "ok", "error", "panic"}
  BY <1>4 DEF Fails, OpensTable, OpensData
<1>6. \A s \in SymSections : s \in Section /\ loaded[s] \in Results
  BY <1>1, <1>4, SymFacts, LoadsFacts DEF TypeOK
<1>7. \A s : DataOnce(s)[2] = s /\ DataOnce(s)[1] = "data"
  BY DEF DataOnce
<1>8. CASE opened' = "ok"
  <2>1. \A o \in Onces :
          \/ /\ o[2] \in SymSections /\ o = DataOnce(o[2]) /\ o[1] = "data"
             /\ once'[o] = Done /\ value'[o] = loaded[o[2]]
          \/ once'[o] = once[o] /\ value'[o] = value[o]
    BY <1>4, <1>7, <1>8
  <2>2. TypeOK'
    <3>1. once' \in [Onces -> {New, Done} \cup Thread]
      <4>1. \A o \in Onces : once'[o] \in {New, Done} \cup Thread
        BY <1>1, <2>1 DEF TypeOK
      <4> QED
        BY <1>4, <1>8, <4>1
    <3>2. value' \in [Onces -> Results]
      <4>1. \A o \in Onces : value'[o] \in Results
        BY <1>1, <1>6, <2>1 DEF TypeOK
      <4> QED
        BY <1>4, <1>8, <4>1
    <3>3. mapped' \subseteq Section /\ symBytes' \subseteq Section
      BY <1>4, <1>6, <1>8
    <3> QED
      BY <1>1, <1>2, <1>3, <1>5, <3>1, <3>2, <3>3 DEF TypeOK
  <2>3. CachesOK'
    <3>1. \A o \in Onces : once'[o] # Done \/ o \in lost' => value'[o] = Nothing
      BY <1>1, <1>2, <2>1 DEF CachesOK
    <3>2. \A o \in Onces : value'[o].bytes = "map" => o[1] = "data" /\ o[2] \in mapped'
      BY <1>1, <1>4, <1>8, <2>1 DEF CachesOK
    <3>3. \A s \in Section : /\ once'[RelOnce(s)] = once[RelOnce(s)]
                            /\ value'[RelOnce(s)] = value[RelOnce(s)]
                            /\ once'[RelocsOnce(s)] = once[RelocsOnce(s)]
                            /\ value'[RelocsOnce(s)] = value[RelocsOnce(s)]
                            /\ \A rs \in RelocSections(s) : once'[RelOnce(rs)] = once[RelOnce(rs)]
      <4>1. \A s \in Section : RelOnce(s)[1] # "data" /\ RelocsOnce(s)[1] # "data"
        BY DEF RelOnce, RelocsOnce
      <4>2. \A s \in Section : RelOnce(s) \in Onces /\ RelocsOnce(s) \in Onces
        BY OnceFacts
      <4> QED
        BY <2>1, <4>1, <4>2, RelocFacts
    <3>4. \A s : RelocSections(s)' = RelocSections(s) /\ Given(s)' = Given(s)
      <4>1. \A s : Merged(s)' = Merged(s) /\ RelocSections(s)' = RelocSections(s)
        BY <1>2, FileKeeps
      <4> QED
        BY <1>2, <4>1 DEF Given, RelOnce
    <3>5. lost' = {} /\ symBytes' \subseteq mapped'
      BY <1>1, <1>2, <1>4, <1>8
    <3>6. \A s \in Section :
            /\ once'[RelOnce(s)] = Done /\ ~ value'[RelOnce(s)].err =>
                 value'[RelOnce(s)].rels = IF RelOnce(s) \in lost' THEN {} ELSE {s}
            /\ once'[RelocsOnce(s)] = Done =>
                 /\ \A rs \in Section : RelocSections(s) # {rs}
                 /\ ~ value'[RelocsOnce(s)].err /\ RelocsOnce(s) \notin lost' =>
                      /\ \A rs \in RelocSections(s) : once'[RelOnce(rs)] = Done
                      /\ value'[RelocsOnce(s)].rels = Given(s)
      BY <1>1, <1>2, <3>3 DEF CachesOK
    <3> QED
      BY <1>3, <3>1, <3>2, <3>4, <3>5, <3>6 DEF CachesOK, RelOnce, RelocsOnce
  <2>4. ASSUME NEW t \in Thread PROVE ThreadOK(t)'
    <3>1. \A o \in Onces : once'[o] # t
      <4>1. \A o \in Onces : once[o] # t
        BY <1>1, IdleOK DEF IInv
      <4> QED
        BY <2>1, <4>1, ConstantsAssumption
    <3>2. stack'[t] = <<>> /\ Len(<<>>) = 0
      BY <1>1, <1>2
    <3> QED
      BY <1>3, <3>1, <3>2 DEF ThreadOK, StackOK, OwnsOK, RetOK
  <2>5. AnswersOK' /\ UnopenedOK'
    BY <1>1, <1>2, <1>3, <1>8 DEF AnswersOK, UnopenedOK
  <2> QED
    BY <2>2, <2>3, <2>4, <2>5 DEF IInv
<1>9. CASE opened' # "ok"
  <2>1. once' = once /\ value' = value /\ mapped' = mapped /\ symBytes' = symBytes
    BY <1>4, <1>9
  <2>2. TypeOK'
    BY <1>1, <1>2, <1>3, <1>5, <2>1 DEF TypeOK
  <2>3. Keeps
    BY <1>2, <2>1 DEF Keeps
  <2>4. CachesOK'
    BY <1>1, <1>2, <2>1, <2>3, CachesKept
  <2>5. ASSUME NEW t \in Thread PROVE ThreadOK(t)'
    BY <1>1, <1>2, <2>1, <2>3, OthersOK DEF IInv
  <2>6. AnswersOK' /\ UnopenedOK'
    BY <1>1, <1>2, <1>3, <2>1 DEF AnswersOK, UnopenedOK
  <2> QED
    BY <2>2, <2>4, <2>5, <2>6 DEF IInv
<1> QED
  BY <1>8, <1>9

\* Until Close, the answers on a section are the one its caches give, or a panic
\* in a once.
LEMMA AnswersSame ==
  ASSUME IInv
  PROVE  SameAnswer
<1>1. CASE closed
  BY <1>1 DEF IInv, AnswersOK
<1>2. CASE ~ closed
  BY <1>2 DEF IInv, AnswersOK, SameAnswer
<1> QED
  BY <1>1, <1>2

\* Relocations that are cached are all those that the section is given.
LEMMA AnswersComplete ==
  ASSUME IInv
  PROVE  RelocsComplete
<1> SUFFICES ASSUME NEW s \in Section, NEW v \in answers[s],
                    ~ v.err, v.bytes \in {"heap", "map"}
             PROVE  v.rels = IF RelocsOnce(s) \in lost THEN {} ELSE Given(s)
  BY DEF RelocsComplete
<1>1. RelocsDone(s) /\ ~ RelocsValue(s).err /\ v.rels = RelocsValue(s).rels
  BY DEF IInv, AnswersOK, RelocsOfCache
<1>2. CachesOK /\ TypeOK
  BY DEF IInv
<1>3. CASE RelocSections(s) = {}
  <2>1. Given(s) = {}
    BY <1>3 DEF Given, Merged
  <2> QED
    BY <1>1, <1>3, <2>1, RelocsOfOthers, ResultFacts
<1>4. CASE \E rs \in Section : RelocSections(s) = {rs}
  <2>1. PICK rs \in Section : RelocSections(s) = {rs}
    BY <1>4
  <2>2. RelocsValue(s) = value[RelOnce(rs)] /\ once[RelOnce(rs)] = Done
    BY <1>1, <2>1, RelocsOfOne
  <2>3. v.rels = IF RelOnce(rs) \in lost THEN {} ELSE {rs}
    BY <1>1, <1>2, <2>2 DEF CachesOK
  <2>4. RelocsOnce(s) \notin lost
    BY <1>2, <2>1 DEF CachesOK, TypeOK
  <2>5. Given(s) = IF RelOnce(rs) \in lost THEN {} ELSE {rs}
    BY <2>1 DEF Given, Merged
  <2> QED
    BY <2>3, <2>4, <2>5
<1>5. CASE RelocSections(s) # {} /\ \A rs \in Section : RelocSections(s) # {rs}
  <2>1. RelocsValue(s) = value[RelocsOnce(s)] /\ once[RelocsOnce(s)] = Done
    BY <1>1, <1>5, RelocsOfOthers
  <2>2. RelocsOnce(s) \in Onces
    BY OnceFacts
  <2>3. CASE RelocsOnce(s) \in lost
    <3>1. value[RelocsOnce(s)] = Nothing
      BY <1>2, <2>2, <2>3 DEF CachesOK
    <3> QED
      BY <1>1, <2>1, <2>3, <3>1, ResultFacts
  <2>4. CASE RelocsOnce(s) \notin lost
    <3>1. value[RelocsOnce(s)].rels = Given(s)
      BY <1>1, <1>2, <2>1, <2>4 DEF CachesOK
    <3> QED
      BY <1>1, <2>1, <2>4, <3>1
  <2> QED
    BY <2>3, <2>4
<1> QED
  BY <1>3, <1>4, <1>5

\* Close unmaps the sections, and the caches forget their bytes.
LEMMA CloseInv ==
  ASSUME IInv, Close
  PROVE  IInv'
<1>1. /\ TypeOK /\ CachesOK /\ opened = "ok" /\ opened' = opened /\ ~ closed /\ closed' = TRUE
      /\ (\A t \in Thread : stack[t] = <<>>) /\ mapped' = {}
      /\ file' = file /\ once' = once /\ stack' = stack /\ ret' = ret /\ calls' = calls
      /\ answers' = answers /\ lost' = lost /\ symBytes' = symBytes
      /\ value' = [o \in Onces |-> IF value[o].bytes = "map" THEN Nothing ELSE value[o]]
  BY DEF Close, IInv
<1>2. /\ Section' = Section /\ Onces' = Onces /\ Results' = Results /\ Frames' = Frames
      /\ \A s : RelocSections(s)' = RelocSections(s) /\ Merged(s)' = Merged(s)
  BY <1>1, FileKeeps
<1>3. \A o \in Onces : value'[o] = IF value[o].bytes = "map" THEN Nothing ELSE value[o]
  BY <1>1
<1>4. TypeOK'
  <2>1. \A o \in Onces : value'[o] \in Results
    BY <1>1, <1>3, ResultFacts DEF TypeOK
  <2>2. value' \in [Onces -> Results]
    BY <1>1, <2>1
  <2> QED
    BY <1>1, <1>2, <2>2 DEF TypeOK
<1>5. \A s \in Section : /\ value'[RelOnce(s)] = value[RelOnce(s)]
                        /\ value'[RelocsOnce(s)] = value[RelocsOnce(s)]
  <2>1. \A s \in Section : RelOnce(s)[1] # "data" /\ RelocsOnce(s)[1] # "data"
    BY DEF RelOnce, RelocsOnce
  <2>2. \A s \in Section : RelOnce(s) \in Onces /\ RelocsOnce(s) \in Onces
    BY OnceFacts
  <2> QED
    BY <1>1, <1>3, <2>1, <2>2 DEF CachesOK
<1>6. CachesOK'
  <2>1. \A o \in Onces : /\ once[o] # Done \/ o \in lost => value'[o] = Nothing
                        /\ value'[o].bytes # "map"
    BY <1>1, <1>3, ResultFacts DEF CachesOK
  <2>2. \A s : Given(s)' = Given(s)
    BY <1>1, <1>2 DEF Given, RelOnce
  <2> QED
    BY <1>1, <1>2, <1>5, <2>1, <2>2 DEF CachesOK, RelOnce, RelocsOnce
<1>7. ASSUME NEW t \in Thread PROVE ThreadOK(t)'
  <2>1. \A o \in Onces : once[o] # t
    BY <1>1, IdleOK DEF IInv
  <2>2. Len(<<>>) = 0
    OBVIOUS
  <2> QED
    BY <1>1, <1>2, <2>1, <2>2 DEF ThreadOK, StackOK, OwnsOK, RetOK
<1>8. AnswersOK'
  <2>1. SameAnswer'
    BY <1>1, <1>2, AnswersSame DEF SameAnswer
  <2>2. ASSUME NEW s \in Section
        PROVE  (RelocsDone(s)' <=> RelocsDone(s)) /\ RelocsValue(s)' = RelocsValue(s)
    <3>1. RelocsDone(s)' <=> RelocsDone(s)
      BY <1>1, <1>2 DEF RelocsDone, RelOnce, RelocsOnce
    <3>2. CASE \E rs \in Section : RelocSections(s) = {rs}
      <4>1. PICK rs \in Section : RelocSections(s) = {rs}
        BY <3>2
      <4>2. RelocSections(s)' = {rs} /\ (CHOOSE r \in {rs} : TRUE) = rs
        BY <1>2, <4>1
      <4>3. RelocsValue(s)' = value'[RelOnce(rs)]
        BY <4>2 DEF RelocsValue, RelOnce
      <4> QED
        BY <1>5, <3>1, <4>1, <4>3, RelocsOfOne
    <3>3. CASE \A rs \in Section : RelocSections(s) # {rs}
      <4>1. ~ \E rs \in RelocSections(s) : RelocSections(s) = {rs}
        BY <3>3, RelocFacts
      <4>2. value'[RelocsOnce(s)] = value[RelocsOnce(s)]
        BY <1>5
      <4> QED
        BY <1>2, <3>1, <4>1, <4>2 DEF RelocsValue, RelocsOnce
    <3> QED
      BY <3>1, <3>2, <3>3
  <2>3. \A s \in Section : \A v \in answers[s] : RelocsOfCache(s, v)
    BY DEF IInv, AnswersOK
  <2>4. \A s \in Section : \A v \in answers[s] : RelocsOfCache(s, v)'
    BY <2>2, <2>3 DEF RelocsOfCache
  <2> QED
    BY <1>1, <1>2, <2>1, <2>4 DEF AnswersOK
<1>9. UnopenedOK'
  BY <1>1 DEF UnopenedOK
<1> QED
  BY <1>4, <1>6, <1>7, <1>8, <1>9 DEF IInv

-----------------------------------------------------------------------------
(* The steps of a thread in a call *)

\* The sections that hold addends are sections of the file, or nullSection.
LEMMA AddendFacts ==
  ASSUME file \in Files, NEW rs \in Section
  PROVE  /\ AddendSections(rs) \in Seq(Visits(Len(file.type)))
         /\ Len(AddendSections(rs)) \in Nat
         /\ \A k \in 1..Len(AddendSections(rs)) : AddendSections(rs)[k].s \in {Null} \cup Section
<1> DEFINE n == Len(file.type)
           visits == file.visits[rs]
           moved == [k \in DOMAIN visits |-> [visits[k] EXCEPT !.s = Target(rs)]]
<1>1. FileOK(file)
  BY FilesAssumption
<1>2. n \in Nat /\ Section = 1..n /\ visits \in Seq(Visits(n))
  BY <1>1, LenProperties DEF FileOK, Section
<1>3. Target(rs) # None => moved \in Seq(Visits(n))
  <2>1. SUFFICES ASSUME Target(rs) # None PROVE moved \in Seq(Visits(n))
    OBVIOUS
  <2>2. Target(rs) \in Section
    BY <2>1 DEF Target
  <2>3. \A k \in DOMAIN visits : visits[k] \in Visits(n)
    BY <1>2, ElementOfSeq, LenProperties
  <2>4. \A k \in DOMAIN visits : [visits[k] EXCEPT !.s = Target(rs)] \in Visits(n)
    BY <1>2, <2>2, <2>3 DEF Visits, Null
  <2>5. DOMAIN visits = 1..Len(visits) /\ Len(visits) \in Nat
    BY <1>2, LenProperties
  <2>6. moved \in [1..Len(visits) -> Visits(n)]
    BY <2>4, <2>5
  <2> QED
    BY <2>5, <2>6, SeqDef
<1>4. AddendSections(rs) \in Seq(Visits(n))
  <2>1. AddendSections(rs) \in {<<>>, moved, visits}
        /\ (AddendSections(rs) = moved => Target(rs) # None \/ moved = visits)
    BY DEF AddendSections
  <2>2. <<>> \in Seq(Visits(n))
    OBVIOUS
  <2> HIDE DEF moved, visits
  <2> QED
    BY <1>2, <1>3, <2>1, <2>2
<1>5. \A visit \in Visits(n) : visit.s \in {Null} \cup Section
  BY <1>2 DEF Visits, Null
<1> QED
  BY <1>4, <1>5, LenProperties, ElementOfSeq

\* What is known of a thread in a call.
LEMMA Inside ==
  ASSUME IInv, NEW t \in Thread, stack[t] # <<>>
  PROVE  /\ TypeOK /\ CachesOK /\ RetOK(t) /\ file \in Files
         /\ Top(t) \in Frames /\ Top(t).s \in {Null} \cup Section /\ Top(t).i \in Nat
         /\ Top(t).kept \in Results /\ FrameOK(Top(t)) /\ ret[t] \in Results
         /\ DataOnce(Top(t).s) \in Onces
         /\ Top(t).op # "data" =>
              /\ Top(t).s \in Section
              /\ RelocsOnce(Top(t).s) \in Onces /\ RelOnce(Top(t).s) \in Onces
         /\ Len(stack[t]) \in Nat \ {0} /\ (Len(stack[t]) = 1 => Top(t).op = "Data")
<1>1. TypeOK /\ CachesOK /\ ThreadOK(t)
  BY DEF IInv
<1>2. /\ Top(t) \in Frames /\ FrameOK(Top(t))
      /\ Len(stack[t]) \in Nat \ {0} /\ (Len(stack[t]) = 1 => Top(t).op = "Data")
  BY <1>1, TopFacts
<1>3. /\ Top(t).i \in Nat /\ Top(t).kept \in Results /\ Top(t).s \in {Null} \cup Section
      /\ (Top(t).op # "data" => Top(t).s \in Section)
  BY <1>2, FrameSection DEF Frames
<1> QED
  BY <1>1, <1>2, <1>3, OnceFacts DEF TypeOK, ThreadOK

LEMMA DataReadsBytesInv ==
  ASSUME IInv, NEW t \in Thread, DataReadsBytes(t)
  PROVE  IInv'
<1>1. /\ stack[t] # <<>> /\ Top(t).op = "Data" /\ Top(t).at = "start"
      /\ Internal /\ mapped' = mapped
  BY DEF DataReadsBytes, At
<1>2. Top(t) \in Frames /\ Top(t).s \in Section /\ FrameOK(Top(t))
  BY <1>1, Inside
<1>3. CASE Top(t).s \in file.wraps
  <2>1. Panic(t)
    BY <1>3 DEF DataReadsBytes
  <2>2. CASE Len(stack[t]) = 1
    <3>1. Panicked = DataAnswer(Top(t).s) /\ Answerable(Top(t).s)
      BY <1>3 DEF DataAnswer, Answerable
    <3> QED
      BY <1>1, <2>1, <2>2, <3>1, PanicInv
  <2>3. CASE Len(stack[t]) # 1
    BY <1>1, <2>1, <2>3, PanicInOnce
  <2> QED
    BY <2>2, <2>3
<1>4. CASE Top(t).s \notin file.wraps
  <2>1. /\ Call(t, [Top(t) EXCEPT !.at = "bytes"], Frame("data", Top(t).s))
        /\ NoReturn /\ NoStore
    BY <1>4 DEF DataReadsBytes
  <2>2. PICK f \in Frames : f = [Top(t) EXCEPT !.at = "bytes"]
    BY <1>2 DEF Frames
  <2>3. PICK g \in Frames : g = Frame("data", Top(t).s)
    BY <1>2, FrameFacts DEF Guarded
  <2>4. /\ g.op = "data" /\ g.s = Top(t).s /\ g.at = "start" /\ g.i = 0 /\ g.kept = Nothing
        /\ f.op = "Data" /\ f.s = Top(t).s /\ f.at = "bytes" /\ f.kept = Top(t).kept
    BY <1>1, <1>2, <2>2, <2>3, FrameFacts DEF Guarded, Frames
  <2>5. FrameOK(f) /\ FrameOK(g)
    BY <1>1, <1>2, <1>4, <2>4 DEF FrameOK, Points
  <2>6. Called(f, g) /\ Level(g) < Level(f) /\ ~ InOnce(f) /\ ~ InOnce(Top(t))
    BY <1>1, <2>4 DEF Called, Level, InOnce, Guarded
  <2> QED
    BY <1>1, <2>1, <2>2, <2>3, <2>4, <2>5, <2>6, CallInv
<1> QED
  BY <1>3, <1>4

LEMMA DataReadsRelocsInv ==
  ASSUME IInv, NEW t \in Thread, DataReadsRelocs(t)
  PROVE  IInv'
<1>1. /\ stack[t] # <<>> /\ Top(t).op = "Data" /\ Top(t).at = "bytes"
      /\ Internal /\ NoStore /\ mapped' = mapped
      /\ IF ret[t].err
         THEN Return(t, ret[t])
         ELSE /\ Call(t, [Top(t) EXCEPT !.at = "relocs", !.kept = ret[t]],
                      Frame("Relocs", Top(t).s))
              /\ NoReturn
  BY DEF DataReadsRelocs, At
<1>2. /\ Top(t) \in Frames /\ Top(t).s \in Section /\ FrameOK(Top(t)) /\ ret[t] \in Results
      /\ Top(t).s \notin file.wraps
  BY <1>1, Inside DEF FrameOK
<1>3. once[DataOnce(Top(t).s)] = Done /\ ret[t] = value[DataOnce(Top(t).s)]
  BY <1>1, Inside DEF RetOK
<1>4. ~ InOnce(Top(t)) /\ Top(t).op \notin Guarded
  BY <1>1 DEF InOnce, Guarded
<1>5. CASE ret[t].err
  <2>1. ret[t] = DataAnswer(Top(t).s) /\ Answerable(Top(t).s)
    BY <1>2, <1>3, <1>5 DEF DataAnswer, Answerable
  <2> QED
    BY <1>1, <1>2, <1>3, <1>4, <1>5, <2>1, ReturnInv
<1>6. CASE ~ ret[t].err
  <2>1. PICK f \in Frames : f = [Top(t) EXCEPT !.at = "relocs", !.kept = ret[t]]
    BY <1>2 DEF Frames
  <2>2. PICK g \in Frames : g = Frame("Relocs", Top(t).s)
    BY <1>2, FrameFacts
  <2>3. /\ g.op = "Relocs" /\ g.s = Top(t).s /\ g.at = "start" /\ g.kept = Nothing
        /\ f.op = "Data" /\ f.s = Top(t).s /\ f.at = "relocs" /\ f.kept = ret[t]
    BY <1>1, <1>2, <2>1, <2>2, FrameFacts DEF Guarded, Frames
  <2>4. FrameOK(f) /\ FrameOK(g)
    BY <1>2, <1>3, <1>6, <2>3 DEF FrameOK, Points
  <2>5. Called(f, g) /\ Level(g) < Level(f) /\ ~ InOnce(f)
    BY <2>3 DEF Called, Level, InOnce, Guarded
  <2> QED
    BY <1>1, <1>4, <1>6, <2>1, <2>2, <2>3, <2>4, <2>5, CallInv
<1> QED
  BY <1>5, <1>6

LEMMA DataReturnsInv ==
  ASSUME IInv, NEW t \in Thread, DataReturns(t)
  PROVE  IInv'
<1>1. /\ stack[t] # <<>> /\ Top(t).op = "Data" /\ Top(t).at = "relocs"
      /\ Internal /\ mapped' = mapped
  BY DEF DataReturns, At
<1>2. Top(t).kept \in Results /\ ret[t] \in Results
  BY <1>1, Inside
<1>3. /\ once[DataOnce(Top(t).s)] = Done /\ Top(t).kept = value[DataOnce(Top(t).s)]
      /\ ~ Top(t).kept.err /\ Top(t).s \notin file.wraps
  BY <1>1, Inside DEF FrameOK
<1>4. RelocsDone(Top(t).s) /\ ret[t] = RelocsValue(Top(t).s)
  BY <1>1, Inside DEF RetOK
<1>5. ~ InOnce(Top(t)) /\ Top(t).op \notin Guarded
  BY <1>1 DEF InOnce, Guarded
<1>6. Answerable(Top(t).s)
  BY <1>3, <1>4 DEF Answerable
<1>7. CASE ret[t].err
  <2>1. Return(t, Nothing) /\ NoStore
    BY <1>7 DEF DataReturns
  <2>2. Nothing = DataAnswer(Top(t).s)
    BY <1>3, <1>4, <1>7 DEF DataAnswer
  <2> QED
    BY <1>1, <1>5, <1>6, <2>1, <2>2, ResultFacts, ReturnInv
<1>8. CASE ~ ret[t].err /\ (Top(t).kept.bytes = "nil" \/ ~ file.archKnown)
  <2>1. Panic(t)
    BY <1>8 DEF DataReturns
  <2>2. Panicked = DataAnswer(Top(t).s)
    BY <1>3, <1>4, <1>8 DEF DataAnswer
  <2>3. CASE Len(stack[t]) = 1
    BY <1>1, <1>6, <2>1, <2>2, <2>3, PanicInv
  <2>4. CASE Len(stack[t]) # 1
    BY <1>1, <2>1, <2>4, PanicInOnce
  <2> QED
    BY <2>3, <2>4
<1>9. CASE ~ ret[t].err /\ Top(t).kept.bytes # "nil" /\ file.archKnown
  <2>1. PICK v \in Results : v = Result(Top(t).kept.bytes, ret[t].rels)
    BY <1>2, ResultFacts DEF Results
  <2>2. Return(t, v) /\ NoStore
    BY <1>9, <2>1 DEF DataReturns
  <2>3. v = DataAnswer(Top(t).s)
    BY <1>3, <1>4, <1>9, <2>1 DEF DataAnswer
  <2> QED
    BY <1>1, <1>5, <1>6, <2>2, <2>3, ReturnInv
<1> QED
  BY <1>7, <1>8, <1>9

LEMMA OnceSkipInv ==
  ASSUME IInv, NEW t \in Thread, OnceSkip(t)
  PROVE  IInv'
<1>1. /\ stack[t] # <<>> /\ Top(t).op \in Guarded /\ Top(t).at = "start"
      /\ once[OnceOf(Top(t))] = Done /\ Return(t, value[OnceOf(Top(t))])
      /\ Internal /\ NoStore /\ mapped' = mapped
  BY DEF OnceSkip, At
<1>2. TypeOK /\ Top(t) \in Frames
  BY <1>1, Inside
<1>3. OnceOf(Top(t)) \in Onces
  BY <1>1, <1>2, OnceFacts
<1>4. PICK v \in Results : v = value[OnceOf(Top(t))]
  BY <1>2, <1>3 DEF TypeOK
<1>5. ~ InOnce(Top(t)) /\ Top(t).op # "Relocs" /\ Top(t).op # "Data"
  BY <1>1 DEF InOnce, Guarded
<1> QED
  BY <1>1, <1>4, <1>5, ReturnInv

LEMMA LoadBytesInv ==
  ASSUME IInv, NEW t \in Thread, LoadBytes(t)
  PROVE  IInv'
<1>1. stack[t] # <<>> /\ Top(t).op = "data" /\ Top(t).at = "body" /\ Internal
  BY DEF LoadBytes, At
<1>2. Top(t).s \in {Null} \cup Section /\ mapped \subseteq Section /\ file \in Files
  BY <1>1, Inside DEF TypeOK
<1>3. PICK v \in Loads(Top(t).s) :
        /\ IF v = Panicked THEN Panic(t) ELSE Store(t, v)
        /\ mapped' = IF v.bytes = "map" THEN mapped \cup {Top(t).s} ELSE mapped
  BY DEF LoadBytes
<1>4. v \in Results /\ (v.bytes = "map" => Top(t).s \in Section /\ v # Panicked)
  BY <1>2, LoadsFacts
<1>5. /\ mapped \subseteq mapped' /\ mapped' \subseteq Section
      /\ v.bytes = "map" => Top(t).s \in mapped'
  BY <1>2, <1>3, <1>4
<1>6. InOnce(Top(t)) /\ Top(t).op # "rel" /\ Top(t).op # "relocs"
  BY <1>1 DEF InOnce, Guarded
<1>7. CASE v = Panicked
  BY <1>1, <1>3, <1>4, <1>6, <1>7, PanicInOnce
<1>8. CASE v # Panicked
  BY <1>1, <1>3, <1>4, <1>5, <1>6, <1>8, StoreInv
<1> QED
  BY <1>7, <1>8

\* The members of a set before a loop, those up to one it has come to, and all
\* of them.
LEMMA UpToNone ==
  ASSUME NEW S, S \subseteq Nat \ {0}
  PROVE  {r \in S : r < 0} = {} /\ {r \in S : r <= 0} = {}
<1>1. \A r \in S : ~ r < 0 /\ ~ r <= 0
  OBVIOUS
<1> QED
  BY <1>1, Zenon

LEMMA UpToThis ==
  ASSUME NEW S, S \subseteq Nat \ {0}, NEW i \in S
  PROVE  {r \in S : r < i} \cup {i} = {r \in S : r <= i}
<1>1. \A r \in S : r <= i <=> r < i \/ r = i
  OBVIOUS
<1> QED
  BY <1>1, Zenon

LEMMA UpToAll ==
  ASSUME NEW S, S \subseteq Nat \ {0}, NEW i \in Nat, \A r \in S : ~ r > i
  PROVE  {r \in S : r <= i} = S
<1>1. \A r \in S : r <= i
  OBVIOUS
<1> QED
  BY <1>1, Zenon

LEMMA ChooseRelocsInv ==
  ASSUME IInv, NEW t \in Thread, ChooseRelocs(t)
  PROVE  IInv'
<1> DEFINE s == Top(t).s
<1>1. /\ stack[t] # <<>> /\ Top(t).op = "Relocs" /\ Top(t).at = "start"
      /\ Internal /\ NoStore /\ mapped' = mapped
      /\ IF RelocSections(s) = {} THEN Return(t, Nothing)
         ELSE /\ \E rs \in RelocSections(s) :
                   Become(t, IF RelocSections(s) = {rs} THEN Frame("rel", rs) ELSE Frame("relocs", s))
              /\ NoReturn
  BY DEF ChooseRelocs, At
<1>2. s \in Section
  BY <1>1, Inside
<1>3. RelocSections(s) \subseteq Section /\ \A rs \in RelocSections(s) : IsRel(rs) /\ ~ IsRel(s)
  BY <1>2, RelocFacts
<1>4. ~ InOnce(Top(t)) /\ Top(t).op \notin Guarded
  BY <1>1 DEF InOnce, Guarded
<1>5. CASE RelocSections(s) = {}
  BY <1>1, <1>4, <1>5, ResultFacts, ReturnInv
<1>6. CASE RelocSections(s) # {}
  <2>1. PICK rs \in RelocSections(s) :
          Become(t, IF RelocSections(s) = {rs} THEN Frame("rel", rs) ELSE Frame("relocs", s))
    BY <1>1, <1>6
  <2>2. CASE RelocSections(s) = {rs}
    <3>1. PICK f \in Frames : f = Frame("rel", rs)
      BY <1>3, FrameFacts DEF Guarded
    <3>2. f.op = "rel" /\ f.s = rs /\ f.at = "start" /\ f.i = 0 /\ f.kept = Nothing
      BY <1>3, <3>1, FrameFacts DEF Guarded
    <3>3. FrameOK(f)
      <4>1. 0 <= Len(AddendSections(rs))
        <5>1. rs \in Section /\ file \in Files
          BY <1>1, <1>3, Inside
        <5> QED
          BY <5>1, AddendFacts
      <4> QED
        BY <1>3, <3>2, <4>1 DEF FrameOK, Points
    <3>4. Level(f) <= Level(Top(t)) /\ \A x : Called(x, Top(t)) => Called(x, f)
      BY <1>1, <1>3, <2>2, <3>2 DEF Level, Called
    <3>5. ~ InOnce(f)
      BY <3>2 DEF InOnce
    <3> QED
      BY <1>1, <1>4, <1>6, <2>1, <2>2, <3>1, <3>2, <3>3, <3>4, <3>5, BecomeInv
  <2>3. CASE RelocSections(s) # {rs}
    <3>1. PICK f \in Frames : f = Frame("relocs", s)
      BY <1>2, FrameFacts DEF Guarded
    <3>2. f.op = "relocs" /\ f.s = s /\ f.at = "start" /\ f.i = 0 /\ f.kept = Nothing
      BY <1>2, <3>1, FrameFacts DEF Guarded
    <3>3. FrameOK(f)
      <4>1. Given(s) \subseteq RelocSections(s) /\ RelocSections(s) \subseteq Nat \ {0}
        BY <1>3 DEF Section, Given, Merged
      <4>2. {r \in Given(s) : r < 0} = {} /\ \A r \in RelocSections(s) : ~ r < 0
        <5>1. Given(s) \subseteq Nat \ {0}
          BY <4>1
        <5> QED
          BY <4>1, <5>1, UpToNone
      <4>3. \A r \in Section : RelocSections(s) # {r}
        BY <2>3
      <4> QED
        BY <1>6, <3>2, <4>2, <4>3, ResultFacts DEF FrameOK, Points
    <3>4. Level(f) <= Level(Top(t)) /\ \A x : Called(x, Top(t)) => Called(x, f)
      BY <1>1, <1>3, <2>3, <3>2 DEF Level, Called
    <3>5. ~ InOnce(f)
      BY <3>2 DEF InOnce
    <3> QED
      BY <1>1, <1>4, <1>6, <2>1, <2>3, <3>1, <3>2, <3>3, <3>4, <3>5, BecomeInv
  <2> QED
    BY <2>2, <2>3
<1> QED
  BY <1>5, <1>6

\* The merge has read the sections up to the last one; the next is the least left.
LEMMA MergeRelocsInv ==
  ASSUME IInv, NEW t \in Thread, MergeRelocs(t)
  PROVE  IInv'
<1> DEFINE s == Top(t).s
           i == Top(t).i
           all == RelocSections(s)
           given == Given(s)
           left == {rs \in all : rs > i}
           here == {rs \in ret[t].rels : <<rs, s>> \in file.inRange}
           read == IF i = 0 THEN Top(t).kept ELSE Result("nil", Top(t).kept.rels \cup here)
<1>1. /\ stack[t] # <<>> /\ Top(t).op = "relocs" /\ Top(t).at = "body"
      /\ Internal /\ mapped' = mapped
      /\ IF i > 0 /\ ret[t].err THEN Store(t, Error)
         ELSE IF left = {} THEN Store(t, read)
         ELSE /\ \E rs \in left :
                   /\ \A other \in left : rs <= other
                   /\ Call(t, [Top(t) EXCEPT !.i = rs, !.kept = read], Frame("rel", rs))
              /\ NoReturn /\ NoStore
  BY DEF MergeRelocs, At
<1>2. /\ TypeOK /\ CachesOK /\ s \in Section /\ i \in Nat /\ Top(t) \in Frames
      /\ FrameOK(Top(t)) /\ Top(t).kept \in Results /\ ret[t] \in Results
  BY <1>1, Inside
<1>3. Section \subseteq Nat \ {0} /\ all \subseteq Section
  BY <1>2, RelocFacts DEF Section
<1>4. /\ all # {} /\ (\A rs \in Section : all # {rs})
      /\ Top(t).kept.bytes = "nil" /\ ~ Top(t).kept.err
      /\ \A rs \in all : rs < i => once[RelOnce(rs)] = Done
      /\ Top(t).kept.rels = {rs \in given : rs < i}
  BY <1>1, <1>2 DEF FrameOK
<1>5. i > 0 => i \in all /\ once[RelOnce(i)] = Done /\ ret[t] = value[RelOnce(i)]
  BY <1>1, Inside DEF RetOK
<1>6. InOnce(Top(t)) /\ mapped \subseteq mapped' /\ mapped' \subseteq Section
  BY <1>1, <1>2 DEF InOnce, Guarded, TypeOK
<1>7. read \in Results /\ read.bytes = "nil" /\ ~ read.err
  <2>1. Top(t).kept.rels \subseteq Section /\ here \subseteq Section
    BY <1>2 DEF Results
  <2>2. Top(t).kept.rels \cup here \in SUBSET Section /\ "nil" \in Bytes
    BY <2>1 DEF Bytes
  <2> HIDE DEF here
  <2>3. /\ Result("nil", Top(t).kept.rels \cup here) \in Results
        /\ ~ Result("nil", Top(t).kept.rels \cup here).err
        /\ Result("nil", Top(t).kept.rels \cup here).bytes = "nil"
    BY <2>2, ResultFacts
  <2> QED
    BY <1>2, <1>4, <2>3
<1>8. /\ given \subseteq Nat \ {0} /\ all \subseteq Nat \ {0} /\ i \in Nat
      /\ given = {rs \in all : <<rs, s>> \in file.inRange /\ RelOnce(rs) \notin lost}
  BY <1>2, <1>3, <1>4 DEF Given, Merged
<1>9. \A rs \in all : rs <= i => once[RelOnce(rs)] = Done
  <2>1. \A rs \in all : rs <= i => rs < i \/ (rs = i /\ i > 0)
    BY <1>8
  <2> QED
    BY <1>4, <1>5, <2>1
<1>10. ASSUME ~ (i > 0 /\ ret[t].err)
       PROVE  read.rels = {rs \in given : rs <= i}
  <2>1. CASE i = 0
    <3>1. read.rels = {rs \in given : rs < i}
      BY <1>4, <2>1
    <3> HIDE DEF read, given, i
    <3> QED
      BY <1>8, <2>1, <3>1, UpToNone
  <2>2. CASE i > 0
    <3>1. i \in Section /\ i \in all
      BY <1>3, <1>5, <2>2
    <3>2. ret[t].rels = IF RelOnce(i) \in lost THEN {} ELSE {i}
      BY <1>2, <1>5, <1>10, <2>2, <3>1 DEF CachesOK
    <3>3. read.rels = {rs \in given : rs < i} \cup here
      BY <1>4, <1>8, <2>2 DEF Result
    <3>4. CASE i \in given
      <4>1. here = {i}
        BY <1>8, <3>2, <3>4
      <4> HIDE DEF read, given, i, here
      <4>2. {rs \in given : rs < i} \cup {i} = {rs \in given : rs <= i}
        BY <1>8, <3>4, UpToThis
      <4> QED
        BY <3>3, <4>1, <4>2
    <3>5. CASE i \notin given
      <4>1. here = {}
        BY <1>8, <3>1, <3>2, <3>5
      <4> HIDE DEF read, given, i, here
      <4>2. \A rs \in given : rs < i <=> rs <= i
        BY <1>8, <3>5
      <4> QED
        BY <3>3, <4>1, <4>2
    <3> QED
      BY <3>4, <3>5
  <2> QED
    BY <1>8, <2>1, <2>2
<1>11. CASE i > 0 /\ ret[t].err
  BY <1>1, <1>6, <1>11, ResultFacts, StoreInv
<1>12. CASE ~ (i > 0 /\ ret[t].err) /\ left = {}
  <2>1. \A rs \in all : ~ rs > i
    BY <1>12
  <2>2. read.rels = given
    <3>1. \A rs \in given : ~ rs > i
      BY <1>8, <2>1
    <3> HIDE DEF given, i, read
    <3> QED
      BY <1>8, <1>10, <1>12, <3>1, UpToAll
  <2>3. \A rs \in all : once[RelOnce(rs)] = Done
    <3> HIDE DEF all, i
    <3> QED
      BY <1>8, <1>9, <2>1
  <2>4. PICK v \in Results : v = read
    BY <1>7
  <2>5. Store(t, v)
    BY <1>1, <1>12, <2>4
  <2>6. /\ v.bytes = "nil" /\ v.rels = Given(Top(t).s)
        /\ \A rs \in RelocSections(Top(t).s) : once[RelOnce(rs)] = Done
    BY <1>7, <2>2, <2>3, <2>4
  <2> HIDE DEF read, left, all, i, s, given, here
  <2> QED
    BY <1>1, <1>6, <2>5, <2>6, StoreInv
<1>13. CASE ~ (i > 0 /\ ret[t].err) /\ left # {}
  <2>1. PICK rs \in left :
          /\ \A other \in left : rs <= other
          /\ Call(t, [Top(t) EXCEPT !.i = rs, !.kept = read], Frame("rel", rs))
          /\ NoReturn /\ NoStore
    BY <1>1, <1>13
  <2>2. rs \in all /\ rs \in Section /\ rs \in Nat /\ rs > i
    BY <1>3, <2>1
  <2>3. PICK f \in Frames : f = [Top(t) EXCEPT !.i = rs, !.kept = read]
    BY <1>1, <1>2, <1>7, <2>2 DEF Frames
  <2>4. PICK g \in Frames : g = Frame("rel", rs)
    BY <2>2, FrameFacts DEF Guarded
  <2>5. /\ f.op = "relocs" /\ f.s = s /\ f.at = "body" /\ f.i = rs /\ f.kept = read
        /\ g.op = "rel" /\ g.s = rs /\ g.at = "start" /\ g.i = 0 /\ g.kept = Nothing
    BY <1>1, <1>2, <2>2, <2>3, <2>4, FrameFacts, ZenonT(60) DEF Guarded, Frames
  <2>6. \A r \in all : r <= i <=> r < rs
    <3>1. \A r \in all : r > i => rs <= r
      BY <2>1
    <3> HIDE DEF all, i
    <3> QED
      BY <1>8, <2>2, <3>1
  <2>7. f.kept.rels = {r \in Given(f.s) : r < f.i}
    <3>1. \A r \in given : r \in all
      BY <1>8
    <3>2. {r \in given : r <= i} = {r \in given : r < rs}
      <4> HIDE DEF given, all, i
      <4> QED
        BY <2>6, <3>1, Zenon
    <3> QED
      BY <1>10, <1>13, <2>5, <3>2
  <2>8. FrameOK(f)
    <3>1. RelocSections(f.s) # {} /\ (\A r \in Section : RelocSections(f.s) # {r})
      BY <1>4, <2>5
    <3>2. f.kept.bytes = "nil" /\ ~ f.kept.err
      BY <1>7, <2>5
    <3>3. \A r \in RelocSections(f.s) : r < f.i => once[RelOnce(r)] = Done
      BY <1>9, <2>5, <2>6
    <3> QED
      BY <2>5, <2>7, <3>1, <3>2, <3>3 DEF FrameOK, Points
  <2>9. FrameOK(g) /\ Called(f, g) /\ Level(g) < Level(f)
    <3>1. IsRel(rs)
      BY <1>2, <2>2, RelocFacts
    <3>2. 0 <= Len(AddendSections(rs))
      BY <1>2, <2>2, AddendFacts DEF TypeOK
    <3>3. FrameOK(g)
      BY <2>5, <3>1, <3>2 DEF FrameOK, Points
    <3> QED
      BY <2>2, <2>5, <3>3 DEF Called, Level
  <2>10. InOnce(f)
    BY <2>5 DEF InOnce, Guarded
  <2> HIDE DEF read, left, all, i, given, here
  <2> QED
    BY <1>1, <1>6, <2>1, <2>3, <2>4, <2>5, <2>8, <2>9, <2>10, CallInv
<1> QED
  BY <1>11, <1>12, <1>13

LEMMA ReadRelSectionInv ==
  ASSUME IInv, NEW t \in Thread, ReadRelSection(t)
  PROVE  IInv'
<1>1. /\ stack[t] # <<>> /\ Top(t).op = "rel" /\ Top(t).at = "body"
      /\ Call(t, [Top(t) EXCEPT !.at = "section"], Frame("Data", Top(t).s))
      /\ Internal /\ NoReturn /\ NoStore /\ mapped' = mapped
  BY DEF ReadRelSection, At
<1>2. Top(t) \in Frames /\ Top(t).s \in Section /\ FrameOK(Top(t))
  BY <1>1, Inside
<1>3. PICK f \in Frames : f = [Top(t) EXCEPT !.at = "section"]
  BY <1>2 DEF Frames
<1>4. PICK g \in Frames : g = Frame("Data", Top(t).s)
  BY <1>2, FrameFacts
<1>5. /\ g.op = "Data" /\ g.s = Top(t).s /\ g.at = "start" /\ g.kept = Nothing
      /\ f.op = "rel" /\ f.s = Top(t).s /\ f.at = "section" /\ f.kept = Top(t).kept
      /\ f.i = Top(t).i
  BY <1>1, <1>2, <1>3, <1>4, FrameFacts DEF Frames
<1>6. FrameOK(f) /\ FrameOK(g)
  BY <1>1, <1>2, <1>5 DEF FrameOK, Points
<1>7. Called(f, g) /\ Level(g) < Level(f) /\ InOnce(f) /\ InOnce(Top(t))
  BY <1>1, <1>2, <1>5 DEF Called, Level, InOnce, Guarded, FrameOK
<1> QED
  BY <1>1, <1>3, <1>4, <1>5, <1>6, <1>7, CallInv

LEMMA DecodeInv ==
  ASSUME IInv, NEW t \in Thread, Decode(t)
  PROVE  IInv'
<1>1. /\ stack[t] # <<>> /\ Top(t).op = "rel" /\ Top(t).at = "section"
      /\ Internal /\ mapped' = mapped
      /\ \/ Store(t, Error)
         \/ Panic(t)
         \/ Become(t, [Top(t) EXCEPT !.at = "addends"]) /\ NoReturn /\ NoStore
  BY DEF Decode, At
<1>2. Top(t) \in Frames /\ FrameOK(Top(t)) /\ mapped \subseteq Section
  BY <1>1, Inside DEF TypeOK
<1>3. InOnce(Top(t))
  BY <1>1 DEF InOnce, Guarded
<1>4. CASE Store(t, Error)
  BY <1>1, <1>2, <1>3, <1>4, ResultFacts, StoreInv
<1>5. CASE Panic(t)
  BY <1>1, <1>3, <1>5, PanicInOnce
<1>6. CASE Become(t, [Top(t) EXCEPT !.at = "addends"]) /\ NoReturn /\ NoStore
  <2>1. PICK f \in Frames : f = [Top(t) EXCEPT !.at = "addends"]
    BY <1>2 DEF Frames
  <2>2. /\ f.op = "rel" /\ f.s = Top(t).s /\ f.at = "addends" /\ f.kept = Top(t).kept
        /\ f.i = Top(t).i
    BY <1>1, <1>2, <2>1 DEF Frames
  <2>3. FrameOK(f)
    BY <1>1, <1>2, <2>2 DEF FrameOK, Points
  <2>4. /\ Level(f) <= Level(Top(t)) /\ (\A x : Called(x, Top(t)) => Called(x, f))
        /\ InOnce(f) /\ OnceOf(f) = OnceOf(Top(t))
    BY <1>1, <2>2 DEF Level, Called, InOnce, Guarded, OnceOf
  <2> QED
    BY <1>1, <1>3, <1>6, <2>1, <2>2, <2>3, <2>4, BecomeInv
<1> QED
  BY <1>1, <1>4, <1>5, <1>6

LEMMA PopulateAddendsInv ==
  ASSUME IInv, NEW t \in Thread, PopulateAddends(t)
  PROVE  IInv'
<1> DEFINE i == Top(t).i
           visits == AddendSections(Top(t).s)
<1>1. /\ stack[t] # <<>> /\ Top(t).op = "rel" /\ Top(t).at = "addends"
      /\ Internal /\ mapped' = mapped
      /\ \/ Store(t, Error)
         \/ Panic(t)
         \/ Store(t, Result("nil", {Top(t).s}))
         \/ /\ i < Len(visits)
            /\ Call(t, [Top(t) EXCEPT !.i = @ + 1], Frame("data", visits[i + 1].s))
            /\ NoReturn /\ NoStore
  <2>1. file.addends[Top(t).s] \in Ends
    <3>1. Top(t).s \in Section /\ FileOK(file)
      BY FilesAssumption, Inside DEF PopulateAddends, At
    <3> QED
      BY <3>1 DEF FileOK, Section
  <2> QED
    BY <2>1 DEF PopulateAddends, At, Ending, Ends
<1>2. /\ Top(t) \in Frames /\ Top(t).s \in Section /\ i \in Nat /\ FrameOK(Top(t))
      /\ mapped \subseteq Section /\ file \in Files
  BY <1>1, Inside DEF TypeOK
<1>3. InOnce(Top(t)) /\ Top(t).op # "relocs"
  BY <1>1 DEF InOnce, Guarded
<1>4. CASE Store(t, Error)
  BY <1>1, <1>2, <1>3, <1>4, ResultFacts, StoreInv
<1>5. CASE Panic(t)
  BY <1>1, <1>3, <1>5, PanicInOnce
<1>6. CASE Store(t, Result("nil", {Top(t).s}))
  <2>1. PICK v \in Results : v = Result("nil", {Top(t).s})
    BY <1>2, ResultFacts DEF Bytes
  <2>2. v.bytes = "nil" /\ v.rels = {Top(t).s}
    BY <2>1 DEF Result
  <2> QED
    BY <1>1, <1>2, <1>3, <1>6, <2>1, <2>2, StoreInv
<1>7. CASE /\ i < Len(visits)
           /\ Call(t, [Top(t) EXCEPT !.i = @ + 1], Frame("data", visits[i + 1].s))
           /\ NoReturn /\ NoStore
  <2>1. /\ Len(visits) \in Nat
        /\ \A k \in 1..Len(visits) : visits[k].s \in {Null} \cup Section
    BY <1>2, AddendFacts
  <2>2. visits[i + 1].s \in {Null} \cup Section /\ i + 1 <= Len(visits) /\ i + 1 \in Nat
    <3> HIDE DEF visits, i
    <3> QED
      BY <1>2, <1>7, <2>1
  <2>3. PICK f \in Frames : f = [Top(t) EXCEPT !.i = @ + 1]
    BY <1>1, <1>2, <2>2 DEF Frames
  <2>4. PICK g \in Frames : g = Frame("data", visits[i + 1].s)
    BY <2>2, FrameFacts DEF Guarded
  <2>5. /\ g.op = "data" /\ g.at = "start" /\ g.kept = Nothing
        /\ f.op = "rel" /\ f.s = Top(t).s /\ f.at = "addends" /\ f.kept = Top(t).kept
        /\ f.i = i + 1
    BY <1>1, <1>2, <2>2, <2>3, <2>4, FrameFacts DEF Guarded, Frames
  <2>6. FrameOK(f) /\ FrameOK(g)
    BY <1>1, <1>2, <2>2, <2>5 DEF FrameOK, Points
  <2>7. Called(f, g) /\ Level(g) < Level(f) /\ InOnce(f)
    BY <2>5 DEF Called, Level, InOnce, Guarded
  <2> HIDE DEF visits, i
  <2> QED
    BY <1>1, <1>3, <1>7, <2>3, <2>4, <2>5, <2>6, <2>7, CallInv
<1> QED
  BY <1>1, <1>4, <1>5, <1>6, <1>7

-----------------------------------------------------------------------------
(* The theorems *)

LEMMA InitInv == Init => IInv
<1> SUFFICES ASSUME Init PROVE IInv
  OBVIOUS
<1>1. New # Done /\ (\A t \in Thread : t # New) /\ 0 \in 0..MaxCalls
  BY ConstantsAssumption
<1>2. TypeOK
  <2>1. <<>> \in Seq(Frames) /\ {} \in SUBSET Results
    OBVIOUS
  <2>2. once \in [Onces -> {New, Done} \cup Thread]
    BY DEF Init
  <2> QED
    BY <1>1, <2>1, <2>2, ResultFacts DEF Init, TypeOK
<1>3. UnopenedOK /\ AnswersOK
  BY DEF Init, UnopenedOK, AnswersOK
<1>4. CachesOK
  <2>1. \A s \in Section : once[RelOnce(s)] # Done /\ once[RelocsOnce(s)] # Done
    <3>1. ASSUME NEW s \in Section
          PROVE  /\ RelOnce(s) \in Onces /\ RelocsOnce(s) \in Onces
                 /\ RelOnce(s) # DataOnce(Null) /\ RelocsOnce(s) # DataOnce(Null)
      BY OnceFacts DEF RelOnce, RelocsOnce, DataOnce
    <3> QED
      BY <1>1, <3>1 DEF Init
  <2> QED
    BY <2>1, ResultFacts DEF Init, CachesOK
<1>5. \A t \in Thread : ThreadOK(t)
  <2>1. \A o \in Onces : once[o] \in {New, Done}
    BY DEF Init
  <2> QED
    BY <2>1, ConstantsAssumption, IdleOK DEF Init
<1> QED
  BY <1>2, <1>3, <1>4, <1>5 DEF IInv

LEMMA NextInv == IInv /\ [Next]_vars => IInv'
<1> SUFFICES ASSUME IInv, [Next]_vars PROVE IInv'
  OBVIOUS
<1>1. CASE UNCHANGED vars
  <2>1. /\ file' = file /\ opened' = opened /\ once' = once /\ value' = value /\ mapped' = mapped
        /\ stack' = stack /\ ret' = ret /\ calls' = calls /\ answers' = answers /\ closed' = closed
        /\ lost' = lost /\ symBytes' = symBytes
    BY <1>1 DEF vars
  <2>2. Keeps /\ TypeOK
    BY <2>1 DEF Keeps, IInv
  <2>3. TypeOK' /\ UnopenedOK'
    BY <2>1, <2>2, FileKeeps DEF TypeOK, IInv, UnopenedOK
  <2>4. CachesOK' /\ AnswersOK'
    BY <2>1, <2>2, CachesKept, AnswersKept DEF IInv, CachesOK
  <2>5. ASSUME NEW t \in Thread PROVE ThreadOK(t)'
    BY <2>1, <2>2, OthersOK DEF IInv
  <2> QED
    BY <2>3, <2>4, <2>5 DEF IInv
<1>2. CASE OpenElf
  BY <1>2, OpenElfInv
<1>3. CASE \E t \in Thread, s \in Section : CallData(t, s)
  BY <1>3, CallDataInv
<1>4. CASE \E t \in Thread : Step(t)
  <2>1. PICK t \in Thread : Step(t)
    BY <1>4
  <2>2. CASE DataReadsBytes(t)
    BY <2>2, DataReadsBytesInv
  <2>3. CASE DataReadsRelocs(t)
    BY <2>3, DataReadsRelocsInv
  <2>4. CASE DataReturns(t)
    BY <2>4, DataReturnsInv
  <2>5. CASE OnceEnter(t)
    BY <2>5, OnceEnterInv
  <2>6. CASE OnceSkip(t)
    BY <2>6, OnceSkipInv
  <2>7. CASE LoadBytes(t)
    BY <2>7, LoadBytesInv
  <2>8. CASE ChooseRelocs(t)
    BY <2>8, ChooseRelocsInv
  <2>9. CASE MergeRelocs(t)
    BY <2>9, MergeRelocsInv
  <2>10. CASE ReadRelSection(t)
    BY <2>10, ReadRelSectionInv
  <2>11. CASE Decode(t)
    BY <2>11, DecodeInv
  <2>12. CASE PopulateAddends(t)
    BY <2>12, PopulateAddendsInv
  <2> QED
    BY <2>1, <2>2, <2>3, <2>4, <2>5, <2>6, <2>7, <2>8, <2>9, <2>10, <2>11, <2>12 DEF Step
<1>5. CASE Close
  BY <1>5, CloseInv
<1> QED
  BY <1>1, <1>2, <1>3, <1>4, <1>5 DEF Next

\* Whatever goroutines do, each is in a chain of calls downwards through the
\* onces it has entered, and the caches and the answers hold what the file says
\* (elf.go:401-474, elfReloc.go:142-389).
THEOREM Invariance == Spec => []IInv
BY InitInv, NextInv, PTL DEF Spec

\* Every variable of an open file keeps its type: a call only ever meets
\* sections and frames that exist.
THEOREM AlwaysTypeOK == Spec => []TypeOK
<1>1. IInv => TypeOK
  BY DEF IInv
<1> QED
  BY <1>1, Invariance, PTL

\* For all interleavings, and whichever steps fail, the calls of Data on a section
\* that return all return the same; where one panics and another does not, the
\* function of a once has panicked (elf.go:407-412, elfReloc.go:148, :301).
THEOREM AlwaysSameAnswer == Spec => []SameAnswer
<1>1. IInv => SameAnswer
  BY AnswersSame
<1> QED
  BY <1>1, Invariance, PTL

\* Bytes come with the relocations of all the relocation sections that modify
\* their section, or that reach into it where there are several, except of those
\* whose reading panicked (elfReloc.go:142-165, :282-334).
THEOREM AlwaysRelocsComplete == Spec => []RelocsComplete
<1>1. IInv => RelocsComplete
  BY AnswersComplete
<1> QED
  BY <1>1, Invariance, PTL

\* No cache of a section and no call holds the bytes of an unmapped section, and
\* while the file is open the symbol tables do not (elf.go:241, :263, :273-283).
THEOREM AlwaysNothingDangles == Spec => []NothingDangles
<1>1. IInv => NothingDangles
  <2> SUFFICES ASSUME IInv PROVE NothingDangles
    OBVIOUS
  <2>1. CachesOK /\ TypeOK
    BY DEF IInv
  <2>2. ASSUME NEW t \in Thread, NEW k \in DOMAIN stack[t], stack[t][k].kept.bytes = "map"
        PROVE  stack[t][k].s \in mapped
    <3>1. stack[t] # <<>> /\ stack[t] \in Seq(Frames) /\ k \in 1..Len(stack[t])
      BY <2>1, <2>2 DEF TypeOK
    <3>2. PICK f \in Frames : f = stack[t][k] /\ FrameOK(f)
      BY <3>1, InCall, ElementOfSeq DEF ThreadOK, StackOK
    <3>3. f.op = "Data" /\ f.kept = value[DataOnce(f.s)]
      BY <2>2, <3>2, ResultFacts DEF FrameOK, Points, Frames, Guarded
    <3>4. DataOnce(f.s) \in Onces /\ DataOnce(f.s)[2] = f.s
      BY OnceFacts DEF Frames, DataOnce
    <3> QED
      BY <2>1, <2>2, <3>2, <3>3, <3>4 DEF CachesOK
  <2> QED
    BY <2>1, <2>2 DEF NothingDangles, CachesOK
<1> QED
  BY <1>1, Invariance, PTL

\* No goroutine waits for a once of the rank of one it is in, or above: with any
\* number of them there is no cycle of waits (elf.go:337-343).
THEOREM AlwaysWaitsDownwards == Spec => []WaitsDownwards
<1>1. IInv => WaitsDownwards
  <2> SUFFICES ASSUME IInv, NEW t \in Thread, NEW o \in Onces, once[o] = t, NEW w \in Waits(t)
               PROVE  Rank(w) < Rank(o)
    BY DEF WaitsDownwards
  <2>1. /\ stack[t] # <<>> /\ Top(t).op \in Guarded /\ Top(t).at = "start" /\ w = OnceOf(Top(t))
    BY DEF Waits, At
  <2>2. /\ TypeOK /\ ThreadOK(t) /\ Len(stack[t]) \in Nat \ {0} /\ Top(t) = stack[t][Len(stack[t])]
        /\ \A k \in 1..Len(stack[t]) : stack[t][k] \in Frames
    BY <2>1, InCall, TopFacts DEF IInv
  <2>3. PICK k \in 1..Len(stack[t]) : InOnce(stack[t][k]) /\ OnceOf(stack[t][k]) = o
    BY <2>2 DEF ThreadOK, OwnsOK
  <2>4. PICK f \in Frames, g \in Frames : f = stack[t][k] /\ g = Top(t)
    BY <2>2
  <2>5. Level(g) < Level(f)
    <3>1. k # Len(stack[t])
      BY <2>1, <2>2, <2>3 DEF InOnce
    <3> QED
      BY <2>2, <2>3, <2>4, <3>1 DEF ThreadOK, StackOK
  <2>6. /\ f.op \in Guarded /\ g.op \in Guarded /\ o = OnceOf(f) /\ w = OnceOf(g)
    BY <2>1, <2>3, <2>4 DEF InOnce
  <2> QED
    BY <2>5, <2>6 DEF Rank, OnceOf, Level, Guarded
<1> QED
  BY <1>1, Invariance, PTL
=============================================================================
