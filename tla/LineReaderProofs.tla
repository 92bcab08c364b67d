-------------------------- MODULE LineReaderProofs --------------------------
(***************************************************************************)
(* Theorems about LineReader, for every debug information a compiler       *)
(* writes and every sequence of calls: where a reader that keeps its scope *)
(* lands, how it goes on from there, and that its inline stack is right.   *)
(***************************************************************************)
EXTENDS LineReader, SequenceTheorems, WellFoundedInduction, TLAPS

-----------------------------------------------------------------------------
(* Addresses and rows are numbers *)

\* A set of numbers has a least member.
LEMMA LeastNat ==
  ASSUME NEW T \in SUBSET Nat, T # {}
  PROVE  Min(T) \in T /\ \A y \in T : Min(T) <= y
<1> DEFINE R == {p \in Nat \X Nat : p[1] < p[2]}
<1>1. IsWellFoundedOn(R, Nat)
  BY NatLessThanWellFounded DEF OpToRel
<1>2. PICK x \in T : \A y \in T : ~ (<<y, x>> \in R)
  BY <1>1, WFMin
<1>3. ASSUME NEW y \in T PROVE x <= y
  <2>1. x \in Nat /\ y \in Nat
    OBVIOUS
  <2>2. ~ (y < x)
    BY <1>2, <2>1
  <2> QED
    BY <2>1, <2>2
<1> QED
  BY <1>3 DEF Min

\* A set of numbers that has a bound has a greatest member.
LEMMA GreatestNat ==
  ASSUME NEW T \in SUBSET Nat, T # {}, NEW n \in Nat, \A y \in T : y <= n
  PROVE  Max(T) \in T /\ \A y \in T : y <= Max(T)
<1> DEFINE U == {x \in Nat : \A y \in T : y <= x}
<1>1. U \in SUBSET Nat /\ n \in U
  OBVIOUS
<1>2. PICK m : m = Min(U)
  OBVIOUS
<1>3. m \in Nat /\ (\A y \in T : y <= m) /\ \A x \in U : m <= x
  BY <1>1, <1>2, LeastNat
<1>4. m \in T
  <2>1. SUFFICES ASSUME m \notin T PROVE FALSE
    OBVIOUS
  <2>2. PICK z \in T : TRUE
    OBVIOUS
  <2>3. z \in Nat /\ z < m
    BY <2>1, <2>2, <1>3
  <2>4. m - 1 \in Nat
    BY <2>3, <1>3
  <2>5. ASSUME NEW y \in T PROVE y <= m - 1
    <3>1. y \in Nat /\ y <= m /\ y # m
      BY <2>1, <1>3
    <3> QED
      BY <3>1, <1>3
  <2>6. m - 1 \in U
    BY <2>4, <2>5
  <2> QED
    BY <2>6, <1>3
<1> QED
  BY <1>3, <1>4 DEF Max

-----------------------------------------------------------------------------
(* Debug informations *)

\* What WorldOK says of the debug information that is read.
LEMMA WorldFacts ==
  ASSUME dw \in Worlds
  PROVE  /\ dw.badTables \subseteq CU /\ dw.badRanges \subseteq Sub
         /\ dw.cuOf \in [Addr -> CU \cup {None}]
         /\ dw.subOf \in [Addr -> Sub \cup {None}]
         /\ dw.siteOf \in [Addr -> Site \cup {None}]
         /\ \A a \in Addr : dw.siteOf[a] # None => dw.subOf[a] # None
BY WorldsAssumption DEF WorldOK

\* What it says of a table that decodes.
LEMMA TableFacts ==
  ASSUME dw \in Worlds, NEW cu \in CU \ dw.badTables, NEW tab, tab = dw.table[cu]
  PROVE  /\ Len(tab) \in Nat /\ DOMAIN tab = 1..Len(tab)
         /\ \A i \in 1..Len(tab) : tab[i].address \in Nat /\ tab[i].end \in BOOLEAN
         /\ \A i \in 1..Len(tab) : ~ tab[i].end => i < Len(tab)
         /\ \A i, k \in 1..Len(tab) :
              i <= k /\ Together(tab, i, k) => tab[i].address <= tab[k].address
         /\ \A i, k, n \in 1..Len(tab) :
              /\ i <= k /\ Together(tab, i, k + 1) /\ ~ tab[n].end
              /\ tab[i].address <= tab[n].address /\ tab[n].address < tab[k + 1].address
              => IF i <= n THEN Together(tab, i, n) ELSE Together(tab, n, i)
<1>1. TableOK(tab)
  BY WorldsAssumption DEF WorldOK
<1>2. tab \in Seq([address : Nat, end : BOOLEAN])
  BY <1>1 DEF TableOK
<1>3. Len(tab) \in Nat /\ DOMAIN tab = 1..Len(tab)
  BY <1>2
<1>4. ASSUME NEW i \in 1..Len(tab) PROVE tab[i].address \in Nat /\ tab[i].end \in BOOLEAN
  <2>1. tab[i] \in [address : Nat, end : BOOLEAN]
    BY <1>2, <1>3, ElementOfSeq
  <2> QED
    BY <2>1
<1>5. /\ \A i \in 1..Len(tab) : ~ tab[i].end => i < Len(tab)
      /\ \A i, k \in 1..Len(tab) :
           i <= k /\ Together(tab, i, k) => tab[i].address <= tab[k].address
  BY <1>1, <1>3 DEF TableOK
<1>6. \A i, k, n \in 1..Len(tab) :
        /\ i <= k /\ Together(tab, i, k + 1) /\ ~ tab[n].end
        /\ tab[i].address <= tab[n].address /\ tab[n].address < tab[k + 1].address
        => IF i <= n THEN Together(tab, i, n) ELSE Together(tab, n, i)
  BY <1>1, <1>3 DEF TableOK
<1> QED
  BY <1>3, <1>4, <1>5, <1>6

\* Row i covers address a.
RowCovers(tab, i, a) ==
  i \in 1..Len(tab) - 1 /\ ~ tab[i].end /\ tab[i].address <= a /\ a < tab[i + 1].address

\* A row that begins below another one that is not an end begins a stretch that
\* stops at or before it.
LEMMA RowsApart ==
  ASSUME dw \in Worlds, NEW cu \in CU \ dw.badTables, NEW tab, tab = dw.table[cu],
         NEW i \in 1..Len(tab) - 1, ~ tab[i].end,
         NEW n \in 1..Len(tab), ~ tab[n].end, n # i, tab[i].address <= tab[n].address
  PROVE  /\ tab[n].address < tab[i + 1].address => n < i /\ tab[n].address = tab[i].address
         /\ n > i /\ Together(tab, i, n) => tab[i + 1].address <= tab[n].address
<1> DEFINE L == Len(tab)
<1>1. L \in Nat
  BY TableFacts
<1> HIDE DEF L
<1>2. i \in 1..L /\ i + 1 \in 1..L /\ n \in 1..L
  BY <1>1 DEF L
<1>3. /\ tab[i].address \in Nat /\ tab[i + 1].address \in Nat /\ tab[n].address \in Nat
  BY <1>2, TableFacts DEF L
<1>4. ASSUME n > i, Together(tab, i, n) PROVE tab[i + 1].address <= tab[n].address
  <2>1. i + 1 <= n /\ Together(tab, i + 1, n)
    BY <1>4, <1>2, <1>1 DEF Together
  <2> QED
    BY <2>1, <1>2, TableFacts DEF L
<1>5. ASSUME tab[n].address < tab[i + 1].address
      PROVE  n < i /\ tab[n].address = tab[i].address
  <2>1. Together(tab, i, i + 1)
    BY <1>2, <1>1 DEF Together
  <2>2. i <= i
    BY <1>2, <1>1
  <2>3. IF i <= n THEN Together(tab, i, n) ELSE Together(tab, n, i)
    BY <2>1, <2>2, <1>2, <1>5, TableFacts DEF L
  <2>4. ~ (i <= n)
    BY <2>3, <1>4, <1>5, <1>2, <1>1, <1>3
  <2>5. Together(tab, n, i) /\ n <= i
    BY <2>3, <2>4, <1>2, <1>1
  <2>6. tab[n].address <= tab[i].address
    BY <2>5, <1>2, TableFacts DEF L
  <2> QED
    BY <2>4, <2>6, <1>2, <1>1, <1>3, SMTT(60)
<1> QED
  BY <1>4, <1>5

\* At most one row covers an address.
LEMMA OneCovers ==
  ASSUME dw \in Worlds, NEW cu \in CU \ dw.badTables, NEW tab, tab = dw.table[cu],
         NEW a \in Nat, NEW i, NEW k, RowCovers(tab, i, a), RowCovers(tab, k, a)
  PROVE  i = k
<1> DEFINE L == Len(tab)
<1>1. L \in Nat
  BY TableFacts
<1> HIDE DEF L
<1>2. i \in 1..L - 1 /\ k \in 1..L - 1 /\ ~ tab[i].end /\ ~ tab[k].end
  BY DEF RowCovers, L
<1>3. i \in 1..L /\ i + 1 \in 1..L /\ k \in 1..L /\ k + 1 \in 1..L
  BY <1>1, <1>2
<1>4. /\ tab[i].address \in Nat /\ tab[i + 1].address \in Nat
      /\ tab[k].address \in Nat /\ tab[k + 1].address \in Nat
  BY <1>3, TableFacts DEF L
<1>5. /\ tab[i].address <= a /\ a < tab[i + 1].address
      /\ tab[k].address <= a /\ a < tab[k + 1].address
  BY DEF RowCovers
<1>6. tab[k].address < tab[i + 1].address /\ tab[i].address < tab[k + 1].address
  BY <1>4, <1>5
<1>7. ASSUME i # k PROVE FALSE
  <2>1. ASSUME tab[i].address <= tab[k].address PROVE k < i /\ tab[k].address = tab[i].address
    BY <2>1, <1>2, <1>3, <1>6, <1>7, RowsApart DEF L
  <2>2. ASSUME tab[k].address <= tab[i].address PROVE i < k /\ tab[i].address = tab[k].address
    BY <2>2, <1>2, <1>3, <1>6, <1>7, RowsApart, SMTT(60) DEF L
  <2>3. tab[i].address <= tab[k].address \/ tab[k].address <= tab[i].address
    BY <1>4
  <2>4. tab[i].address = tab[k].address
    BY <2>1, <2>2, <2>3
  <2>5. tab[i].address <= tab[k].address /\ tab[k].address <= tab[i].address
    BY <2>4, <1>4
  <2> QED
    BY <2>1, <2>2, <2>5, <1>1, <1>2
<1> QED
  BY <1>7

\* The covering row of an address of a unit.
LEMMA CoveringRow ==
  ASSUME dw \in Worlds, NEW a \in Addr, dw.cuOf[a] \in CU \ dw.badTables,
         NEW tab, tab = dw.table[dw.cuOf[a]], NEW i, i = RowCovering(a)
  PROVE  /\ RowCovers(tab, i, a) /\ tab[i].address \in Nat
         /\ \A b \in tab[i].address..a :
              b \in Addr /\ dw.cuOf[b] = dw.cuOf[a] /\ dw.subOf[b] = dw.subOf[a]
<1> DEFINE cu == dw.cuOf[a]
           L == Len(tab)
<1>1. PICK k \in DOMAIN tab : Covers(dw, cu, a, k)
  BY WorldsAssumption DEF WorldOK
<1>2. /\ k \in DOMAIN tab /\ k + 1 \in DOMAIN tab /\ ~ tab[k].end
      /\ tab[k].address <= a /\ a < tab[k + 1].address
      /\ \A b \in tab[k].address..a : dw.cuOf[b] = cu /\ dw.subOf[b] = dw.subOf[a]
  BY <1>1 DEF Covers
<1>3. L \in Nat /\ DOMAIN tab = 1..L /\ \A r \in 1..L : tab[r].address \in Nat
  BY TableFacts
<1>4. k \in 1..L - 1
  BY <1>2, <1>3
<1>5. RowCovers(tab, k, a)
  BY <1>2, <1>4 DEF RowCovers
<1>6. a \in Nat
  BY ConstantsAssumption DEF Addr
<1>7. \A n : RowCovers(tab, n, a) => n = k
  BY <1>5, <1>6, OneCovers
<1>8. RowCovers(tab, i, a)
  BY <1>5 DEF RowCovering, RowCovers
<1>9. i = k
  BY <1>7, <1>8
<1>10. tab[k].address \in Nat
  BY <1>3, <1>4
<1>11. ASSUME NEW b \in tab[k].address..a PROVE b \in Addr
  BY <1>6, <1>10, ConstantsAssumption DEF Addr
<1> QED
  BY <1>2, <1>5, <1>7, <1>9, <1>10, <1>11

\* No other row covers the address.
LEMMA OnlyRow ==
  ASSUME dw \in Worlds, NEW a \in Addr, dw.cuOf[a] \in CU \ dw.badTables,
         NEW tab, tab = dw.table[dw.cuOf[a]], NEW k, RowCovers(tab, k, a)
  PROVE  k = RowCovering(a)
<1>1. RowCovers(tab, RowCovering(a), a)
  BY DEF RowCovering, RowCovers
<1>2. a \in Nat
  BY ConstantsAssumption DEF Addr
<1> QED
  BY <1>1, <1>2, OneCovers

-----------------------------------------------------------------------------
(* Runs of a map *)

\* RunAt is the maximal run around the address.
LEMMA RunFacts ==
  ASSUME NEW m, NEW a \in Addr, NEW r, r = RunAt(m, a)
  PROVE  IsRun(m, r) /\ Contains(r, a) /\ r.val = m[a]
<1> DEFINE low == {b \in Addr : b <= a /\ \A c \in b..a : m[c] = m[a]}
           high == {b \in Addr : a <= b /\ \A c \in a..b : m[c] = m[a]}
<1>1. MaxAddr \in Nat /\ a \in Nat /\ a <= MaxAddr /\ Addr \subseteq Nat
  BY ConstantsAssumption DEF Addr
<1>2. a \in low /\ a \in high /\ low \in SUBSET Nat /\ high \in SUBSET Nat
  <2>1. \A c \in a..a : m[c] = m[a]
    <3>1. \A c \in a..a : c = a
      BY <1>1
    <3> QED
      BY <3>1
  <2>2. a \in low /\ a \in high
    BY <2>1, <1>1
  <2>3. low \subseteq Nat /\ high \subseteq Nat
    BY <1>1
  <2> QED
    BY <2>2, <2>3
<1>3. \A b \in high : b <= MaxAddr
  BY <1>1 DEF Addr
<1>4. PICK l : l = Min(low)
  OBVIOUS
<1>5. PICK h : h = Max(high)
  OBVIOUS
<1>6. l \in low /\ \A b \in low : l <= b
  <2> HIDE DEF low
  <2> QED
    BY <1>2, <1>4, LeastNat
<1>7. h \in high /\ \A b \in high : b <= h
  <2> HIDE DEF high
  <2> QED
    BY <1>1, <1>2, <1>3, <1>5, GreatestNat
<1>8. r.low = l /\ r.high = h + 1 /\ r.val = m[a]
  BY <1>4, <1>5 DEF RunAt
<1>9. l \in Addr /\ l <= a /\ h \in Addr /\ a <= h /\ l \in Nat /\ h \in Nat
  BY <1>1, <1>6, <1>7
<1>10. ASSUME NEW b \in l..h PROVE m[b] = m[a]
  <2>1. b \in l..a \/ b \in a..h
    BY <1>1, <1>9
  <2> QED
    BY <2>1, <1>6, <1>7
<1>11. ASSUME l # 0 PROVE m[l - 1] # m[a]
  <2>1. SUFFICES ASSUME m[l - 1] = m[a] PROVE FALSE
    OBVIOUS
  <2>2. l - 1 \in Addr /\ l - 1 \in Nat /\ l - 1 <= a
    BY <1>1, <1>9, <1>11 DEF Addr
  <2>3. ASSUME NEW c \in l - 1..a PROVE m[c] = m[a]
    <3>1. c = l - 1 \/ c \in l..a
      BY <1>1, <1>9
    <3> QED
      BY <3>1, <2>1, <1>6
  <2>4. l - 1 \in low
    BY <2>2, <2>3
  <2> QED
    BY <2>4, <1>6, <1>9
<1>12. ASSUME h + 1 \in Addr PROVE m[h + 1] # m[a]
  <2>1. SUFFICES ASSUME m[h + 1] = m[a] PROVE FALSE
    OBVIOUS
  <2>2. ASSUME NEW c \in a..h + 1 PROVE m[c] = m[a]
    <3>1. c = h + 1 \/ c \in a..h
      BY <1>1, <1>9
    <3> QED
      BY <3>1, <2>1, <1>7
  <2>3. h + 1 \in high
    BY <1>1, <1>9, <1>12, <2>2
  <2> QED
    BY <2>3, <1>7, <1>9
<1>13. l \in Addr /\ h + 1 \in 1..MaxAddr + 1 /\ l < h + 1 /\ l <= a /\ a < h + 1
  BY <1>1, <1>9 DEF Addr
<1>14. h + 1 - 1 = h
  BY <1>9
<1>15. \A b \in l..h + 1 - 1 : m[b] = m[a]
  BY <1>10, <1>14
<1> HIDE DEF low, high
<1>16. /\ \A b \in r.low..r.high - 1 : m[b] = r.val
       /\ r.low # 0 => m[r.low - 1] # r.val
       /\ r.high \in Addr => m[r.high] # r.val
  <2>1. r.low - 1 = l - 1 /\ r.high - 1 = h + 1 - 1
    BY <1>8, <1>9
  <2>2. r.low..r.high - 1 = l..h + 1 - 1
    BY <1>8, <2>1
  <2>3. \A b \in r.low..r.high - 1 : m[b] = r.val
    BY <1>8, <1>15, <2>2
  <2>4. r.low # 0 => m[r.low - 1] # r.val
    BY <1>8, <1>11, <2>1
  <2>5. r.high \in Addr => m[r.high] # r.val
    BY <1>8, <1>12
  <2> QED
    BY <2>3, <2>4, <2>5
<1>17. /\ r.low \in Addr /\ r.high \in 1..MaxAddr + 1 /\ r.low < r.high
       /\ r.low <= a /\ a < r.high
  BY <1>8, <1>13
<1> QED
  BY <1>8, <1>16, <1>17 DEF IsRun, Contains

\* The address of an iterator that stands on the run that contains a, or on the
\* first one after it.
LEMMA IterFacts ==
  ASSUME NEW m, NEW a \in Nat, NEW r, r = Iter(m, a),
         NEW T, T = {b \in Addr : a <= b /\ m[b] # None}
  PROVE  IF T = {} THEN r = NoRun
         ELSE /\ Min(T) \in T /\ \A b \in T : Min(T) <= b
              /\ IsRun(m, r) /\ Contains(r, Min(T)) /\ r.val = m[Min(T)]
<1>1. ASSUME T = {} PROVE r = NoRun
  BY <1>1 DEF Iter
<1>2. ASSUME T # {}
      PROVE  /\ Min(T) \in T /\ \A b \in T : Min(T) <= b
             /\ IsRun(m, r) /\ Contains(r, Min(T)) /\ r.val = m[Min(T)]
  <2>1. T \in SUBSET Nat
    BY ConstantsAssumption DEF Addr
  <2>2. Min(T) \in T /\ \A b \in T : Min(T) <= b
    BY <2>1, <1>2, LeastNat
  <2>3. Min(T) \in Addr
    BY <2>2
  <2>4. r = RunAt(m, Min(T))
    BY <1>2 DEF Iter
  <2> QED
    BY <2>2, <2>3, <2>4, RunFacts
<1> QED
  BY <1>1, <1>2

\* Every address of a run is one of the map.
LEMMA InRun ==
  ASSUME NEW m, NEW r, IsRun(m, r), NEW a \in Nat, Contains(r, a)
  PROVE  a \in Addr /\ m[a] = r.val /\ r.low \in Nat /\ r.high \in Nat
<1>1. MaxAddr \in Nat /\ r.low \in Nat /\ r.high \in Nat /\ r.high <= MaxAddr + 1
  BY ConstantsAssumption DEF IsRun, Addr
<1>2. r.low <= a /\ a < r.high
  BY DEF Contains
<1>3. a \in r.low..r.high - 1 /\ a \in Addr
  BY <1>1, <1>2 DEF Addr
<1> QED
  BY <1>1, <1>3 DEF IsRun

\* Addresses next to each other with the value of a run are in it.
LEMMA RunGoesOn ==
  ASSUME NEW m, NEW r, IsRun(m, r), NEW lo \in Nat, NEW hi \in Nat,
         Contains(r, lo) \/ Contains(r, hi),
         \A c \in lo..hi : c \in Addr /\ m[c] = r.val
  PROVE  \A c \in lo..hi : Contains(r, c)
<1>1. /\ MaxAddr \in Nat /\ r.low \in Nat /\ r.high \in Nat /\ r.low < r.high
      /\ r.low # 0 => m[r.low - 1] # r.val
      /\ r.high \in Addr => m[r.high] # r.val
  BY ConstantsAssumption DEF IsRun, Addr
<1>2. ASSUME NEW c \in lo..hi PROVE r.low <= c
  <2>1. SUFFICES ASSUME c < r.low PROVE FALSE
    BY <1>1
  <2>2. ~ (r.low <= lo)
    BY <2>1, <1>1
  <2>3. r.low <= hi
    BY <2>2, <1>1, <1>2 DEF Contains
  <2>4. r.low # 0 /\ r.low - 1 \in lo..hi
    BY <2>1, <2>3, <1>1
  <2> QED
    BY <2>4, <1>1
<1>3. ASSUME NEW c \in lo..hi PROVE c < r.high
  <2>1. SUFFICES ASSUME r.high <= c PROVE FALSE
    BY <1>1
  <2>2. ~ (hi < r.high)
    BY <2>1, <1>1
  <2>3. lo < r.high
    BY <2>2, <1>1, <1>3 DEF Contains
  <2>4. r.high \in lo..hi
    BY <2>1, <2>3, <1>1
  <2> QED
    BY <2>4, <1>1
<1> QED
  BY <1>2, <1>3 DEF Contains

-----------------------------------------------------------------------------
(* Searching a line table *)

\* The sequence of row i starts with a waypoint.
LEMMA SequenceStart ==
  ASSUME dw \in Worlds, NEW cu \in CU \ dw.badTables, NEW tab, tab = dw.table[cu],
         NEW i \in 1..Len(tab), ~ tab[i].end
  PROVE  \E s \in Waypoints(cu) : s <= i /\ Together(tab, s, i) /\ (s = 1 \/ tab[s - 1].end)
<1> DEFINE L == Len(tab)
           starts == {j \in DOMAIN tab : j = 1 \/ tab[j - 1].end}
           upTo(k) == {j \in starts : j <= k}
<1>1. L \in Nat /\ DOMAIN tab = 1..L
  BY TableFacts
<1>2. ASSUME NEW k \in 1..L
      PROVE  /\ upTo(k) \in SUBSET Nat /\ upTo(k) # {} /\ \A y \in upTo(k) : y <= k
             /\ Max(upTo(k)) \in upTo(k) /\ \A y \in upTo(k) : y <= Max(upTo(k))
  <2>1. 1 \in upTo(k) /\ upTo(k) \in SUBSET Nat /\ k \in Nat /\ \A y \in upTo(k) : y <= k
    BY <1>1
  <2> HIDE DEF upTo
  <2> QED
    BY <2>1, GreatestNat
<1>3. PICK s : s = Max(upTo(i))
  OBVIOUS
<1>4. s \in 1..L /\ s <= i /\ (s = 1 \/ tab[s - 1].end) /\ \A y \in starts : y <= i => y <= s
  BY <1>1, <1>2, <1>3
<1>5. Together(tab, s, i)
  <2>1. ASSUME NEW j \in s..i - 1, tab[j].end PROVE FALSE
    <3>1. j + 1 \in DOMAIN tab /\ j + 1 <= i /\ j + 1 - 1 = j /\ ~ (j + 1 <= s)
      BY <1>1, <1>4
    <3>2. j + 1 \in starts
      BY <3>1, <2>1
    <3> QED
      BY <3>1, <3>2, <1>4
  <2> QED
    BY <2>1 DEF Together
<1>6. ~ tab[s].end
  <2>1. s = i \/ s \in s..i - 1
    BY <1>1, <1>4
  <2> QED
    BY <2>1, <1>5 DEF Together
<1>7. s - Max(upTo(s)) = 0
  <2>1. s \in upTo(s)
    BY <1>1, <1>4
  <2>2. Max(upTo(s)) \in Nat /\ Max(upTo(s)) <= s /\ s <= Max(upTo(s))
    BY <2>1, <1>2, <1>4
  <2> QED
    BY <2>2, <1>1, <1>4
<1>8. (s - Max(upTo(s))) % LineCacheFreq = 0
  BY <1>7, ConstantsAssumption
<1>9. s \in Waypoints(cu)
  BY <1>1, <1>4, <1>6, <1>8 DEF Waypoints
<1> QED
  BY <1>4, <1>5, <1>9

\* The search from the waypoint that is chosen stops at the covering row.
LEMMA WayFinds ==
  ASSUME dw \in Worlds, NEW cu \in CU \ dw.badTables, NEW tab, tab = dw.table[cu],
         NEW pc \in Nat, NEW i, RowCovers(tab, i, pc),
         NEW found, found = DwarfSeekPC(tab, WayTo(cu, pc), pc)
  PROVE  found.row = i /\ found.pos = i + 1 /\ found.ok
<1> DEFINE L == Len(tab)
           below == {j \in Waypoints(cu) : tab[j].address <= pc}
           last == {j \in below : \A k \in below : tab[k].address <= tab[j].address}
<1>1. L \in Nat /\ DOMAIN tab = 1..L /\ \A j \in 1..L : tab[j].address \in Nat
  BY TableFacts
<1>2. i \in 1..L /\ i + 1 \in 1..L /\ ~ tab[i].end /\ tab[i].address <= pc /\ pc < tab[i + 1].address
  BY <1>1 DEF RowCovers
<1>3. ASSUME NEW j \in Waypoints(cu) PROVE j \in 1..L /\ ~ tab[j].end
  BY <1>1 DEF Waypoints
<1>4. PICK s \in Waypoints(cu) : s <= i /\ Together(tab, s, i) /\ (s = 1 \/ tab[s - 1].end)
  BY <1>2, SequenceStart
<1>5. s \in 1..L /\ tab[s].address <= tab[i].address
  BY <1>2, <1>3, <1>4, TableFacts
<1>6. s \in below
  BY <1>1, <1>2, <1>4, <1>5, SMTT(60)
<1>7. PICK way : way = WayTo(cu, pc)
  OBVIOUS
<1>8. way \in below /\ \A k \in below : tab[k].address <= tab[way].address
  <2> DEFINE A == {tab[j].address : j \in below}
  <2>1. A \in SUBSET Nat /\ A # {} /\ \A y \in A : y <= pc
    BY <1>1, <1>3, <1>6
  <2>2. Max(A) \in A /\ \A y \in A : y <= Max(A)
    <3> HIDE DEF A
    <3> QED
      BY <2>1, GreatestNat
  <2>3. last # {}
    BY <2>2
  <2>4. last \in SUBSET Nat /\ L \in Nat /\ \A y \in last : y <= L
    BY <1>1, <1>3
  <2>5. Max(last) \in last
    <3> HIDE DEF last, L
    <3> QED
      BY <2>3, <2>4, GreatestNat
  <2>6. below # {}
    BY <1>6
  <2>7. way = Max(last)
    BY <1>7, <2>6 DEF WayTo
  <2> HIDE DEF below
  <2> QED
    BY <2>5, <2>7
<1> HIDE DEF last
<1>9. way \in 1..L /\ ~ tab[way].end /\ tab[way].address <= pc /\ tab[s].address <= tab[way].address
  BY <1>3, <1>6, <1>8
<1>10. tab[way].address < tab[i + 1].address
  BY <1>1, <1>2, <1>9, SMTT(60)
<1>11. IF s <= way THEN Together(tab, s, way) ELSE Together(tab, way, s)
  <2>1. Together(tab, s, i + 1)
    <3>1. \A j \in s..i + 1 - 1 : j \in s..i - 1 \/ j = i
      BY <1>1, <1>2, <1>5
    <3> QED
      BY <3>1, <1>2, <1>4 DEF Together
  <2> QED
    BY <2>1, <1>2, <1>4, <1>5, <1>9, <1>10, TableFacts
<1>12. s <= way
  <2>1. SUFFICES ASSUME way < s PROVE FALSE
    BY <1>1, <1>5, <1>9
  <2>2. s # 1 /\ s - 1 \in way..s - 1
    BY <2>1, <1>1, <1>5, <1>9
  <2>3. Together(tab, way, s)
    BY <2>1, <1>11, <1>1, <1>5, <1>9
  <2> QED
    BY <2>2, <2>3, <1>4 DEF Together
<1>13. way <= i
  <2>1. SUFFICES ASSUME i < way PROVE FALSE
    BY <1>1, <1>2, <1>9
  <2>2. Together(tab, i + 1, way) /\ i + 1 <= way
    BY <2>1, <1>4, <1>11, <1>12, <1>1, <1>2, <1>5, <1>9 DEF Together
  <2>3. tab[i + 1].address <= tab[way].address
    BY <2>2, <1>2, <1>9, TableFacts
  <2> QED
    BY <2>3, <1>10, <1>1, <1>2, <1>9
<1> DEFINE beyond == {j \in way + 1..Len(tab) : tab[j].address > pc}
<1>14. i + 1 \in beyond
  BY <1>1, <1>2, <1>9, <1>13
<1>15. ASSUME NEW j \in beyond PROVE i + 1 <= j
  <2>1. SUFFICES ASSUME j <= i PROVE FALSE
    BY <1>1, <1>2, <1>9
  <2>2. j \in 1..L /\ way <= j /\ s <= j /\ j <= i
    BY <2>1, <1>1, <1>5, <1>9, <1>12
  <2>3. Together(tab, j, i)
    BY <2>2, <1>4, <1>1, <1>2, <1>5 DEF Together
  <2>4. tab[j].address <= tab[i].address
    BY <2>2, <2>3, <1>2, TableFacts
  <2>5. tab[j].address > pc
    OBVIOUS
  <2> QED
    BY <2>2, <2>4, <2>5, <1>1, <1>2
<1>16. beyond # {} /\ Min(beyond) - 1 = i
  <2>1. beyond \in SUBSET Nat
    BY <1>1, <1>9
  <2>2. PICK least : least = Min(beyond)
    OBVIOUS
  <2>3. least \in beyond /\ \A y \in beyond : least <= y
    <3> HIDE DEF beyond
    <3> QED
      BY <1>14, <2>1, <2>2, LeastNat
  <2>4. least <= i + 1 /\ i + 1 <= least /\ least \in Nat
    BY <2>1, <2>3, <1>14, <1>15
  <2>5. least - 1 = i
    BY <2>4, <1>1, <1>2
  <2> QED
    BY <2>2, <2>5, <1>14
<1>17. ~ (tab[way].address > pc)
  BY <1>1, <1>9
<1>18. (IF tab[way].address > pc THEN 1 ELSE way) = way
  BY <1>17
<1>19. DwarfSeekPC(tab, way, pc) = DwarfScan(tab, way, pc)
  BY <1>18 DEF DwarfSeekPC
<1>20. DwarfScan(tab, way, pc) = [row |-> i, pos |-> i + 1, ok |-> TRUE]
  <2>1. (beyond # {} /\ ~ tab[i].end) = TRUE
    BY <1>2, <1>16
  <2> QED
    BY <1>16, <1>17, <2>1 DEF DwarfScan
<1> QED
  BY <1>7, <1>19, <1>20

-----------------------------------------------------------------------------
(* The inline stack *)

\* Two readers that differ at most in the stack and what it comes from.
SamePlace(q, r) ==
  /\ q.scope = r.scope /\ q.rIter = r.rIter /\ q.cu = r.cu
  /\ q.pos = r.pos /\ q.line = r.line

\* What clearing and setting the stack do.
LEMMA ClearFacts ==
  ASSUME NEW r \in Reader, NEW q, q = ClearStack(r)
  PROVE  q \in Reader /\ SamePlace(q, r) /\ q.stack = None /\ q.valid = NoRun
<1>1. NoRun \in Run(Site)
  BY DEF NoRun, Run
<1> QED
  BY <1>1 DEF ClearStack, Reader, SamePlace

LEMMA SetFacts ==
  ASSUME NEW r \in Reader, NEW run \in Run(Site), NEW q, q = SetStack(r, run)
  PROVE  q \in Reader /\ SamePlace(q, r) /\ q.stack = run.val /\ q.valid = run
<1>1. run.val \in Site \cup {None}
  BY DEF Run
<1> QED
  BY <1>1 DEF SetStack, Reader, SamePlace

LEMMA InlineFacts ==
  ASSUME NEW r \in Reader, NEW s \in Sub \cup {None}, NEW q, q = [r EXCEPT !.inline = s]
  PROVE  q \in Reader /\ SamePlace(q, r)
BY DEF Reader, SamePlace

\* No address is in the empty run.
LEMMA NothingInNoRun == \A b \in Nat : ~ Contains(NoRun, b)
BY DEF Contains, NoRun

\* A run of a subprogram's map of inline sites is one where the stack is valid.
LEMMA InlineRun ==
  ASSUME dw \in Worlds, NEW s \in Sub \cup {None}, NEW pc \in Addr,
         NEW run, run = Find(InlineRanges(s), pc)
  PROVE  /\ run.val = InlineRanges(s)[pc]
         /\ run.val # None =>
              /\ run \in Run(Site) /\ run.val = dw.siteOf[pc] /\ dw.subOf[pc] = s
              /\ \A b \in Nat : Contains(run, b) => b \in Addr /\ dw.siteOf[b] = run.val
<1> DEFINE m == InlineRanges(s)
<1>1. \A b \in Addr : m[b] = IF s # None /\ dw.subOf[b] = s THEN dw.siteOf[b] ELSE None
  BY DEF InlineRanges
<1> HIDE DEF m
<1>2. run = IF m[pc] # None THEN RunAt(m, pc) ELSE NoRun
  BY DEF Find, m
<1>3. ASSUME m[pc] # None
      PROVE  /\ run.val = m[pc] /\ run \in Run(Site)
             /\ run.val = dw.siteOf[pc] /\ dw.subOf[pc] = s
             /\ \A b \in Nat : Contains(run, b) => b \in Addr /\ dw.siteOf[b] = run.val
  <2>1. IsRun(m, run) /\ run.val = m[pc]
    BY <1>2, <1>3, RunFacts
  <2>2. run.val = dw.siteOf[pc] /\ dw.subOf[pc] = s
    BY <1>1, <1>3, <2>1
  <2>3. run.val \in Site \cup {None}
    BY <2>2, WorldFacts
  <2>4. run = [low |-> run.low, high |-> run.high, val |-> run.val]
    BY <1>2, <1>3 DEF RunAt
  <2>5. run.low \in Nat /\ run.high \in Nat
    BY <2>1, ConstantsAssumption DEF IsRun, Addr
  <2>6. run \in Run(Site)
    BY <2>3, <2>4, <2>5 DEF Run
  <2>7. ASSUME NEW b \in Nat, Contains(run, b) PROVE b \in Addr /\ dw.siteOf[b] = run.val
    <3>1. b \in Addr /\ m[b] = run.val
      BY <2>1, <2>7, InRun
    <3> QED
      BY <3>1, <1>1, <1>3, <2>1
  <2> QED
    BY <2>1, <2>2, <2>6, <2>7
<1>4. ASSUME m[pc] = None PROVE run.val = None
  BY <1>2, <1>4 DEF NoRun
<1> QED
  BY <1>3, <1>4 DEF m

\* After updateStack the stack is right, at the row of an address in scope and at
\* an end, if it was right wherever it was valid.
LEMMA UpdateStackRight ==
  ASSUME dw \in Worlds, NEW r \in Reader, ValidOK(r), r.scope # None,
         ~ r.line.end =>
           /\ r.line.address \in Addr /\ dw.cuOf[r.line.address] = r.cu
           /\ r.scope # All => dw.subOf[r.line.address] = r.scope,
         NEW q, q = UpdateStack(r)
  PROVE  /\ q \in Reader /\ SamePlace(q, r) /\ ValidOK(q)
         /\ q.stack = IF r.line.end THEN None ELSE dw.siteOf[r.line.address]
<1> DEFINE pc == r.line.address
           known == Find(InlineRanges(r.inline), pc)
           sub == IF r.scope # All THEN r.scope ELSE AddrToSubprogram(pc, r.cu)
           moved == [r EXCEPT !.inline = sub]
           found == Find(InlineRanges(sub), pc)
<1>1. q = IF r.line.end THEN ClearStack(r)
          ELSE IF Contains(r.valid, pc) THEN r
          ELSE IF known.val # None THEN SetStack(r, known)
          ELSE IF sub = None THEN ClearStack(r)
          ELSE IF found.val # None THEN SetStack(moved, found)
          ELSE ClearStack(moved)
  BY DEF UpdateStack
<1>2. /\ r.inline \in Sub \cup {None} /\ pc \in Nat /\ r.line.end \in BOOLEAN
      /\ r.scope \in Sub \cup {All}
  BY ConstantsAssumption DEF Reader
<1>3. SamePlace(r, r)
  BY DEF SamePlace
<1>4. ASSUME NEW p, p.stack = None, p.valid = NoRun PROVE ValidOK(p)
  BY <1>4, NothingInNoRun DEF ValidOK, NoRun
<1>5. CASE r.line.end
  <2>1. q = ClearStack(r)
    BY <1>1, <1>5
  <2> QED
    BY <2>1, <1>4, <1>5, ClearFacts
<1>6. CASE ~ r.line.end
  <2>1. /\ pc \in Addr /\ dw.cuOf[pc] = r.cu
        /\ r.scope # All => dw.subOf[pc] = r.scope
    BY <1>6
  <2>2. sub = dw.subOf[pc]
    BY <2>1 DEF AddrToSubprogram
  <2>3. sub \in Sub \cup {None} /\ (dw.siteOf[pc] # None => sub # None)
    BY <2>1, <2>2, WorldFacts
  <2>4. moved \in Reader /\ SamePlace(moved, r)
    BY <2>3, InlineFacts
  <2>5. ASSUME NEW p \in Reader, SamePlace(p, r), NEW run \in Run(Site), q = SetStack(p, run),
               run.val = dw.siteOf[pc],
               \A b \in Nat : Contains(run, b) => b \in Addr /\ dw.siteOf[b] = run.val
        PROVE  /\ q \in Reader /\ SamePlace(q, r) /\ ValidOK(q) /\ q.stack = dw.siteOf[pc]
    <3>1. q \in Reader /\ SamePlace(q, p) /\ q.stack = run.val /\ q.valid = run
      BY <2>5, SetFacts
    <3>2. SamePlace(q, r)
      BY <3>1, <2>5 DEF SamePlace
    <3> QED
      BY <3>1, <3>2, <2>5 DEF ValidOK
  <2>6. ASSUME NEW p \in Reader, SamePlace(p, r), q = ClearStack(p), dw.siteOf[pc] = None
        PROVE  /\ q \in Reader /\ SamePlace(q, r) /\ ValidOK(q) /\ q.stack = dw.siteOf[pc]
    <3>1. q \in Reader /\ SamePlace(q, p) /\ q.stack = None /\ q.valid = NoRun
      BY <2>6, ClearFacts
    <3>2. SamePlace(q, r)
      BY <3>1, <2>6 DEF SamePlace
    <3> QED
      BY <3>1, <3>2, <2>6, <1>4
  <2> HIDE DEF pc, known, sub, moved, found
  <2>7. CASE Contains(r.valid, pc)
    <3>1. q = r
      BY <1>1, <1>6, <2>7
    <3>2. r.stack = dw.siteOf[pc]
      BY <2>7, <1>2 DEF ValidOK
    <3> QED
      BY <3>1, <3>2, <1>3, <1>6 DEF pc
  <2>8. CASE ~ Contains(r.valid, pc) /\ known.val # None
    <3>1. q = SetStack(r, known)
      BY <1>1, <1>6, <2>8
    <3>2. /\ known \in Run(Site) /\ known.val = dw.siteOf[pc]
          /\ \A b \in Nat : Contains(known, b) => b \in Addr /\ dw.siteOf[b] = known.val
      BY <2>1, <2>8, <1>2, InlineRun DEF known
    <3> QED
      BY <3>1, <3>2, <1>3, <1>6, <2>5 DEF pc
  <2>9. CASE ~ Contains(r.valid, pc) /\ known.val = None /\ sub = None
    <3>1. q = ClearStack(r)
      BY <1>1, <1>6, <2>9
    <3> QED
      BY <3>1, <1>3, <1>6, <2>3, <2>6, <2>9 DEF pc
  <2>10. CASE ~ Contains(r.valid, pc) /\ known.val = None /\ sub # None /\ found.val # None
    <3>1. q = SetStack(moved, found)
      BY <1>1, <1>6, <2>10
    <3>2. /\ found \in Run(Site) /\ found.val = dw.siteOf[pc]
          /\ \A b \in Nat : Contains(found, b) => b \in Addr /\ dw.siteOf[b] = found.val
      BY <2>1, <2>3, <2>10, InlineRun DEF found
    <3> QED
      BY <3>1, <3>2, <1>6, <2>4, <2>5 DEF pc
  <2>11. CASE ~ Contains(r.valid, pc) /\ known.val = None /\ sub # None /\ found.val = None
    <3>1. q = ClearStack(moved)
      BY <1>1, <1>6, <2>11
    <3>2. found.val = InlineRanges(sub)[pc]
      BY <2>1, <2>3, InlineRun DEF found
    <3>3. InlineRanges(sub)[pc] = dw.siteOf[pc]
      BY <2>1, <2>2, <2>11 DEF InlineRanges
    <3> QED
      BY <3>1, <3>2, <3>3, <1>6, <2>4, <2>6, <2>11 DEF pc
  <2> QED
    BY <2>7, <2>8, <2>9, <2>10, <2>11
<1> QED
  BY <1>2, <1>5, <1>6

-----------------------------------------------------------------------------
(* Seeking *)

\* An address in scope is one of the subprogram, if there is one, and of the unit
\* that the ranges say.
LEMMA ScopeFacts ==
  ASSUME dw \in Worlds, NEW scope \in Sub \cup {All}, NEW a \in Addr
  PROVE  /\ a \in Nat
         /\ RangesOf(scope)[a] # None =>
              /\ RangesOf(scope)[a] = dw.cuOf[a] /\ dw.cuOf[a] \in CU
              /\ scope # All => dw.subOf[a] = scope
         /\ dw.cuOf[a] # None /\ (scope # All => dw.subOf[a] = scope) =>
              RangesOf(scope)[a] = dw.cuOf[a]
<1>1. RangesOf(scope)[a] = IF scope = All \/ dw.subOf[a] = scope THEN dw.cuOf[a] ELSE None
  BY DEF RangesOf
<1>2. dw.cuOf[a] \in CU \cup {None}
  BY WorldFacts
<1>3. a \in Nat
  BY ConstantsAssumption DEF Addr
<1> QED
  BY <1>1, <1>2, <1>3

\* What lies between the row that covers an address in scope and that address is
\* in scope too, and in the same unit.
LEMMA RowInScope ==
  ASSUME dw \in Worlds, NEW scope \in Sub \cup {All}, NEW a \in Addr,
         RangesOf(scope)[a] # None, dw.cuOf[a] \notin dw.badTables,
         NEW tab, tab = dw.table[dw.cuOf[a]], NEW i, i = RowCovering(a)
  PROVE  /\ dw.cuOf[a] \in CU \ dw.badTables /\ RowCovers(tab, i, a) /\ tab[i].address \in Nat
         /\ \A b \in tab[i].address..a :
              b \in Addr /\ RangesOf(scope)[b] = dw.cuOf[a] /\ dw.cuOf[b] = dw.cuOf[a]
<1>1. dw.cuOf[a] \in CU \ dw.badTables /\ (scope # All => dw.subOf[a] = scope)
  BY ScopeFacts
<1>2. /\ RowCovers(tab, i, a) /\ tab[i].address \in Nat
      /\ \A b \in tab[i].address..a :
           b \in Addr /\ dw.cuOf[b] = dw.cuOf[a] /\ dw.subOf[b] = dw.subOf[a]
  BY <1>1, CoveringRow
<1>3. ASSUME NEW b \in tab[i].address..a PROVE RangesOf(scope)[b] = dw.cuOf[a]
  <2>1. b \in Addr /\ dw.cuOf[b] = dw.cuOf[a] /\ dw.subOf[b] = dw.subOf[a]
    BY <1>2
  <2>2. dw.cuOf[b] # None /\ (scope # All => dw.subOf[b] = scope)
    BY <2>1, <1>1, ConstantsAssumption
  <2> QED
    BY <2>1, <2>2, ScopeFacts
<1> QED
  BY <1>1, <1>2, <1>3

\* A seek finds the first address in scope at or after pc, whatever range the
\* reader stands on, if that is one of the scope.
LEMMA RangeFacts ==
  ASSUME dw \in Worlds, NEW r \in Reader, IterOK(r),
         NEW scope \in Sub \cup {All}, r.scope \in {None, scope}, NEW pc \in Nat,
         NEW run, run = RangeFor(r, scope, pc),
         NEW first, first = IF pc < run.low THEN run.low ELSE pc
  PROVE  /\ run \in Run(CU)
         /\ run.val # None => IsRun(RangesOf(scope), run)
         /\ IF Landing(scope, pc) = {} THEN run.val = None
            ELSE /\ first = Min(Landing(scope, pc)) /\ first \in Landing(scope, pc)
                 /\ \A b \in Landing(scope, pc) : first <= b
                 /\ Contains(run, first)
                 /\ run.val = dw.cuOf[first] /\ run.val \in CU
<1> DEFINE m == RangesOf(scope)
           T == Landing(scope, pc)
<1>1. T = {b \in Addr : pc <= b /\ m[b] # None}
  <2>1. Addr \subseteq Nat
    BY ConstantsAssumption DEF Addr
  <2> QED
    BY <2>1 DEF Landing, InScope
<1>2. \A b \in T : b \in Addr /\ b \in Nat /\ pc <= b /\ m[b] = dw.cuOf[b] /\ m[b] \in CU
  BY <1>1, ScopeFacts
<1> HIDE DEF m, T
<1>3. ASSUME r.rIter.val # None, Contains(r.rIter, pc)
      PROVE  /\ run \in Run(CU) /\ run.val # None /\ IsRun(m, run) /\ pc \in T /\ run.val = m[pc]
             /\ Contains(run, pc) /\ ~ (pc < run.low)
  <2>1. run = r.rIter
    BY <1>3 DEF RangeFor
  <2>2. r.scope = scope
    BY <1>3 DEF IterOK
  <2>3. IsRun(m, run)
    BY <1>3, <2>1, <2>2 DEF IterOK, m
  <2>4. pc \in Addr /\ m[pc] = run.val /\ run.low \in Nat
    BY <1>3, <2>1, <2>3, InRun
  <2>5. run \in Run(CU)
    BY <2>1 DEF Reader
  <2>6. pc \in T
    BY <1>1, <1>3, <2>1, <2>4
  <2>7. ~ (pc < run.low)
    BY <1>3, <2>1, <2>4 DEF Contains
  <2> QED
    BY <1>3, <2>1, <2>3, <2>4, <2>5, <2>6, <2>7
<1>4. ASSUME ~ (r.rIter.val # None /\ Contains(r.rIter, pc))
      PROVE  IF T = {} THEN run = NoRun
             ELSE /\ Min(T) \in T /\ \A b \in T : Min(T) <= b
                  /\ IsRun(m, run) /\ Contains(run, Min(T)) /\ run.val = m[Min(T)]
  <2>1. run = Iter(m, pc)
    BY <1>4 DEF RangeFor, m
  <2> QED
    BY <2>1, <1>1, IterFacts
<1>5. ASSUME T # {},
             NEW a \in T, \A b \in T : a <= b, a = first, IsRun(m, run), Contains(run, a), run.val = m[a]
      PROVE  /\ first = Min(T) /\ first \in T /\ \A b \in T : first <= b
             /\ Contains(run, first) /\ run.val = dw.cuOf[first] /\ run.val \in CU
  <2>1. T \in SUBSET Nat
    BY <1>2
  <2>2. Min(T) \in T /\ \A b \in T : Min(T) <= b
    BY <2>1, <1>5, LeastNat
  <2>3. a \in Nat /\ Min(T) \in Nat /\ a <= Min(T) /\ Min(T) <= a
    BY <2>1, <2>2, <1>5
  <2>4. a = Min(T)
    BY <2>3
  <2> QED
    BY <2>4, <1>2, <1>5
<1>6. ASSUME NEW l \in T, \A b \in T : l <= b, IsRun(m, run), Contains(run, l), run.val = m[l]
      PROVE  first = l
  <2>1. run.low \in Nat /\ run.high \in Nat /\ l \in Nat /\ pc <= l
    BY <1>2, <1>6, InRun
  <2>2. run.low <= l /\ l < run.high
    BY <1>6 DEF Contains
  <2>3. CASE pc < run.low
    <3>1. Contains(run, run.low)
      BY <2>1, <2>2 DEF Contains
    <3>2. run.low \in Addr /\ m[run.low] = run.val
      BY <3>1, <2>1, <1>6, InRun
    <3>3. m[run.low] # None
      BY <3>2, <1>2, <1>6, ConstantsAssumption
    <3>4. run.low \in T
      BY <3>2, <3>3, <2>1, <2>3, <1>1
    <3> QED
      BY <3>4, <2>1, <2>2, <2>3, <1>6
  <2>4. CASE ~ (pc < run.low)
    <3>1. Contains(run, pc)
      BY <2>1, <2>2, <2>4 DEF Contains
    <3>2. pc \in Addr /\ m[pc] = run.val
      BY <3>1, <1>6, InRun
    <3>3. m[pc] # None
      BY <3>2, <1>2, <1>6, ConstantsAssumption
    <3>4. pc \in T
      BY <3>2, <3>3, <1>1
    <3> QED
      BY <3>4, <2>1, <2>4, <1>6
  <2> QED
    BY <2>3, <2>4
<1>7. CASE r.rIter.val # None /\ Contains(r.rIter, pc)
  <2>1. first = pc
    BY <1>3, <1>7
  <2>2. \A b \in T : pc <= b
    BY <1>2
  <2> QED
    BY <2>1, <2>2, <1>3, <1>5, <1>7 DEF m, T
<1>8. CASE ~ (r.rIter.val # None /\ Contains(r.rIter, pc)) /\ T = {}
  <2>1. run = NoRun
    BY <1>4, <1>8
  <2>2. run \in Run(CU) /\ run.val = None
    BY <2>1 DEF NoRun, Run
  <2> QED
    BY <2>2, <1>8 DEF T
<1>9. CASE ~ (r.rIter.val # None /\ Contains(r.rIter, pc)) /\ T # {}
  <2>1. /\ Min(T) \in T /\ \A b \in T : Min(T) <= b
        /\ IsRun(m, run) /\ Contains(run, Min(T)) /\ run.val = m[Min(T)]
    BY <1>4, <1>9
  <2>2. first = Min(T)
    BY <2>1, <1>6
  <2>3. run = RunAt(m, Min(T))
    <3>1. T # {} /\ run = Iter(m, pc)
      BY <1>9 DEF RangeFor, m
    <3> QED
      BY <3>1, <1>1 DEF Iter
  <2>4. run = [low |-> run.low, high |-> run.high, val |-> run.val]
    BY <2>3 DEF RunAt
  <2>5. run.low \in Nat /\ run.high \in Nat /\ run.val \in CU
    BY <2>1, <1>2, ConstantsAssumption DEF IsRun, Addr
  <2>6. run \in Run(CU)
    BY <2>4, <2>5 DEF Run
  <2> QED
    BY <2>1, <2>2, <2>6, <1>5, <1>9 DEF m, T
<1> QED
  BY <1>7, <1>8, <1>9

\* What seek does: it fails just when nothing in scope is left or the unit's table
\* does not decode, and else stands on the covering row.
LEMMA SeekFacts ==
  ASSUME dw \in Worlds, NEW r \in Reader, IterOK(r), ValidOK(r),
         NEW scope \in Sub \cup {All}, r.scope \in {None, scope}, NEW pc \in Nat,
         NEW out, out = Seek(r, scope, pc), NEW q, q = out.r,
         NEW a, a = Min(Landing(scope, pc))
  PROVE  /\ q \in Reader /\ q.scope = scope /\ IterOK(q) /\ ValidOK(q)
         /\ out = [r |-> q, err |-> out.err]
         /\ IF Landing(scope, pc) = {} THEN out.err = "unknownPC" /\ q.line = r.line
            ELSE /\ a \in Addr /\ a \in Nat /\ pc <= a /\ RangesOf(scope)[a] # None
                 /\ \A b \in Landing(scope, pc) : a <= b
                 /\ IF dw.cuOf[a] \in dw.badTables THEN out.err = "badTable"
                    ELSE /\ out.err = "ok" /\ RowOK(q) /\ q.cu = dw.cuOf[a] /\ ~ q.line.end
                         /\ q.line = LineOf(dw.table[dw.cuOf[a]], RowCovering(a))
<1> DEFINE run == RangeFor(r, scope, pc)
           first == IF pc < run.low THEN run.low ELSE pc
           tab == dw.table[run.val]
           found == DwarfSeekPC(tab, WayTo(run.val, first), first)
           scoped == [[r EXCEPT !.scope = scope] EXCEPT !.rIter = run]
           moved == [scoped EXCEPT !.cu = run.val]
           there == [[moved EXCEPT !.pos = found.pos] EXCEPT !.line = LineOf(tab, found.row)]
<1>1. out = IF run.val = None THEN [r |-> scoped, err |-> "unknownPC"]
            ELSE IF run.val \in dw.badTables THEN [r |-> moved, err |-> "badTable"]
            ELSE IF found.ok THEN [r |-> UpdateStack(there), err |-> "ok"]
            ELSE [r |-> there, err |-> "seekFailed"]
  BY DEF Seek
<1>2. /\ run \in Run(CU)
      /\ run.val # None => IsRun(RangesOf(scope), run)
      /\ IF Landing(scope, pc) = {} THEN run.val = None
         ELSE /\ first = Min(Landing(scope, pc)) /\ first \in Landing(scope, pc)
              /\ \A b \in Landing(scope, pc) : first <= b
              /\ Contains(run, first)
              /\ run.val = dw.cuOf[first] /\ run.val \in CU
  BY RangeFacts
<1> HIDE DEF run, first, tab, found
<1>3. /\ scoped \in Reader /\ scoped.scope = scope /\ scoped.rIter = run
      /\ scoped.line = r.line /\ scoped.stack = r.stack /\ scoped.valid = r.valid
  BY <1>2 DEF Reader
<1> HIDE DEF scoped
<1>4. ASSUME run.val \in CU
      PROVE  /\ moved \in Reader /\ moved.scope = scope /\ moved.rIter = run /\ moved.cu = run.val
             /\ moved.line = r.line /\ moved.stack = r.stack /\ moved.valid = r.valid
  BY <1>3, <1>4 DEF Reader
<1> HIDE DEF moved
<1>5. ASSUME NEW p, p.scope = scope, p.rIter = run PROVE IterOK(p)
  BY <1>2, <1>5, ConstantsAssumption DEF IterOK
<1>6. ASSUME NEW p, p.stack = r.stack, p.valid = r.valid PROVE ValidOK(p)
  BY <1>6 DEF ValidOK
<1>7. CASE Landing(scope, pc) = {}
  <2>1. out = [r |-> scoped, err |-> "unknownPC"]
    BY <1>1, <1>2, <1>7
  <2>2. q = scoped /\ out.err = "unknownPC"
    BY <2>1
  <2> QED
    BY <2>1, <2>2, <1>3, <1>5, <1>6, <1>7
<1>8. CASE Landing(scope, pc) # {}
  <2>1. /\ first = a /\ a \in Landing(scope, pc) /\ \A b \in Landing(scope, pc) : a <= b
        /\ Contains(run, a) /\ run.val = dw.cuOf[a] /\ run.val \in CU /\ run.val # None
        /\ IsRun(RangesOf(scope), run)
    BY <1>2, <1>8, ConstantsAssumption
  <2>2. a \in Addr /\ pc <= a /\ RangesOf(scope)[a] # None
    BY <2>1, ConstantsAssumption DEF Landing, InScope, Addr
  <2>3. a \in Nat
    BY <2>2, ConstantsAssumption DEF Addr
  <2>4. CASE run.val \in dw.badTables
    <3>1. out = [r |-> moved, err |-> "badTable"]
      BY <1>1, <2>1, <2>4
    <3>2. q = moved /\ out.err = "badTable"
      BY <3>1
    <3>3. /\ q \in Reader /\ q.scope = scope /\ q.rIter = run
          /\ q.stack = r.stack /\ q.valid = r.valid
      BY <3>2, <2>1, <1>4
    <3>4. IterOK(q) /\ ValidOK(q)
      BY <3>3, <1>5, <1>6
    <3>5. out = [r |-> q, err |-> out.err]
      BY <3>1, <3>2
    <3> QED
      BY <3>2, <3>3, <3>4, <3>5, <2>1, <2>2, <2>3, <2>4, <1>8
  <2>5. CASE run.val \notin dw.badTables
    <3> DEFINE i == RowCovering(a)
    <3>1. /\ run.val \in CU \ dw.badTables /\ RowCovers(tab, i, a) /\ tab[i].address \in Nat
          /\ \A b \in tab[i].address..a :
               b \in Addr /\ RangesOf(scope)[b] = run.val /\ dw.cuOf[b] = run.val
      BY <2>1, <2>2, <2>5, RowInScope DEF tab
    <3> HIDE DEF i
    <3>2. found.row = i /\ found.pos = i + 1 /\ found.ok
      <4>1. found = DwarfSeekPC(tab, WayTo(run.val, a), a)
        BY <2>1 DEF found
      <4>2. tab = dw.table[run.val]
        BY DEF tab
      <4> HIDE DEF tab, found
      <4>3. RowCovers(dw.table[run.val], i, a) /\ run.val \in CU \ dw.badTables
        BY <4>2, <3>1
      <4>4. found = DwarfSeekPC(dw.table[run.val], WayTo(run.val, a), a)
        BY <4>1, <4>2
      <4> QED
        BY <4>3, <4>4, <2>3, WayFinds
    <3>3. Len(tab) \in Nat /\ DOMAIN tab = 1..Len(tab)
      BY <3>1, TableFacts DEF tab
    <3>4. i \in 1..Len(tab) - 1 /\ ~ tab[i].end /\ tab[i].address <= a
      BY <3>1 DEF RowCovers
    <3>5. i \in DOMAIN tab /\ i \in Nat /\ i + 1 \in Nat
      BY <3>3, <3>4
    <3>6. tab[i].address \in tab[i].address..a /\ a \in tab[i].address..a
      BY <3>1, <3>4, <2>3
    <3>7. tab[i].address \in Addr /\ dw.cuOf[tab[i].address] = run.val
          /\ RangesOf(scope)[tab[i].address] # None
      BY <3>1, <3>6, <2>1
    <3>8. Contains(run, tab[i].address)
      BY <2>1, <2>3, <3>1, <3>6, RunGoesOn
    <3>9. PICK line : line = LineOf(tab, i)
      OBVIOUS
    <3>10. line = [address |-> tab[i].address, end |-> tab[i].end, row |-> i]
      BY <3>9 DEF LineOf
    <3>11. tab[i].end = FALSE
      <4>1. tab[i].end \in BOOLEAN
        BY <3>1, <3>3, <3>5, TableFacts DEF tab
      <4> QED
        BY <4>1, <3>4
    <3>12. /\ line.address = tab[i].address /\ line.end = FALSE /\ line.row = i
           /\ line \in [address : 0..MaxAddr + 1, end : BOOLEAN, row : Nat]
      <4>1. tab[i].address \in 0..MaxAddr + 1
        BY <3>7, ConstantsAssumption DEF Addr
      <4> QED
        BY <4>1, <3>10, <3>11, <3>5
    <3>13. there = [[moved EXCEPT !.pos = i + 1] EXCEPT !.line = line]
      BY <3>2, <3>9
    <3>14. /\ there \in Reader /\ there.scope = scope /\ there.rIter = run /\ there.cu = run.val
           /\ there.pos = i + 1 /\ there.line = line
           /\ there.stack = r.stack /\ there.valid = r.valid
      BY <3>13, <3>12, <3>5, <2>1, <1>4 DEF Reader
    <3> HIDE DEF there
    <3>15. out = [r |-> UpdateStack(there), err |-> "ok"]
      BY <1>1, <2>1, <2>5, <3>2
    <3>16. q = UpdateStack(there) /\ out.err = "ok"
      BY <3>15
    <3>17. scope # None /\ (scope # All => dw.subOf[tab[i].address] = scope)
      BY <3>7, ScopeFacts, ConstantsAssumption
    <3>18. ValidOK(there)
      BY <3>14, <1>6
    <3>19. /\ q \in Reader /\ SamePlace(q, there) /\ ValidOK(q)
           /\ q.stack = IF there.line.end THEN None ELSE dw.siteOf[there.line.address]
      <4>1. there.line.address \in Addr /\ dw.cuOf[there.line.address] = there.cu
            /\ (there.scope # All => dw.subOf[there.line.address] = there.scope)
            /\ there.scope # None
        BY <3>7, <3>12, <3>14, <3>17
      <4> QED
        BY <4>1, <3>14, <3>16, <3>18, UpdateStackRight
    <3>20. /\ q.scope = scope /\ q.rIter = run /\ q.cu = run.val /\ q.pos = i + 1 /\ q.line = line
           /\ q.stack = dw.siteOf[tab[i].address]
      BY <3>12, <3>14, <3>19 DEF SamePlace
    <3>21. RowOK(q)
      BY <3>1, <3>5, <3>8, <3>9, <3>12, <3>20 DEF RowOK, tab
    <3>22. q.line = LineOf(dw.table[dw.cuOf[a]], RowCovering(a)) /\ ~ q.line.end
      BY <3>9, <3>12, <3>20, <2>1 DEF tab, i
    <3> QED
      BY <3>15, <3>16, <3>19, <3>20, <3>21, <3>22, <2>1, <2>2, <2>3, <2>5, <1>5, <1>8
  <2> QED
    BY <2>4, <2>5
<1> QED
  BY <1>7, <1>8

-----------------------------------------------------------------------------
(* Going on to the next row *)

\* A row that covers an address at or past the end of another row begins at or
\* past that end.
LEMMA CoversPast ==
  ASSUME dw \in Worlds, NEW cu \in CU \ dw.badTables, NEW tab, tab = dw.table[cu],
         NEW row \in 1..Len(tab) - 1, ~ tab[row].end, tab[row].address <= tab[row + 1].address,
         NEW a \in Nat, tab[row + 1].address <= a, NEW i, RowCovers(tab, i, a)
  PROVE  tab[row + 1].address <= tab[i].address
<1> DEFINE L == Len(tab)
<1>1. L \in Nat /\ \A j \in 1..L : tab[j].address \in Nat
  BY TableFacts
<1> HIDE DEF L
<1>2. row \in 1..L /\ row + 1 \in 1..L /\ row \in 1..L - 1
  BY <1>1 DEF L
<1>3. i \in 1..L - 1 /\ ~ tab[i].end /\ tab[i].address <= a /\ a < tab[i + 1].address
  BY DEF RowCovers, L
<1>4. i \in 1..L /\ i + 1 \in 1..L
  BY <1>1, <1>3
<1>5. /\ tab[row].address \in Nat /\ tab[row + 1].address \in Nat
      /\ tab[i].address \in Nat /\ tab[i + 1].address \in Nat
  BY <1>1, <1>2, <1>4
<1>6. SUFFICES ASSUME tab[i].address < tab[row + 1].address PROVE FALSE
  BY <1>5, SMTT(60)
<1>7. i # row
  BY <1>3, <1>5, SMTT(60)
<1>8. tab[row].address < tab[i + 1].address
  <2>1. tab[row].address <= a /\ a < tab[i + 1].address
    BY <1>3, <1>5, SMTT(60)
  <2> QED
    BY <2>1, <1>5, SMTT(60)
<1>9. ASSUME tab[row].address <= tab[i].address PROVE i < row /\ tab[i].address = tab[row].address
  BY <1>2, <1>3, <1>4, <1>6, <1>7, <1>9, RowsApart, SMTT(60) DEF L
<1>10. ASSUME tab[i].address <= tab[row].address PROVE row < i /\ tab[row].address = tab[i].address
  BY <1>2, <1>3, <1>4, <1>7, <1>8, <1>10, RowsApart, SMTT(60) DEF L
<1>11. tab[i].address <= tab[row].address /\ tab[row].address <= tab[i].address
  BY <1>5, <1>9, <1>10, SMTT(60)
<1>12. i < row /\ row < i
  BY <1>9, <1>10, <1>11
<1>13. i \in Int /\ row \in Int
  BY <1>1, <1>2, <1>4
<1> QED
  BY <1>12, <1>13

\* What Next does inside a sequence: it goes on to the next row, or stops at the
\* end of the sequence or of the range.
LEMMA NextRowFacts ==
  ASSUME dw \in Worlds, NEW r \in Reader, IterOK(r), ValidOK(r), RowOK(r), ~ r.line.end,
         NEW out, out = NextRow(r), NEW q, q = out.r
  PROVE  /\ q \in Reader /\ q.scope = r.scope /\ q.cu = r.cu /\ IterOK(q) /\ ValidOK(q)
         /\ out = [r |-> q, err |-> "ok"]
         /\ IF q.line.end THEN EndOK(q) /\ q.stack = None
            ELSE RowOK(q) /\ q.line.row = r.line.row + 1
         /\ r.line.address <= q.line.address
         /\ ~ RowBetween(r.scope, r.line.address + 1, q.line.address)
<1> DEFINE tab == dw.table[r.cu]
           L == Len(tab)
           cu == r.cu
           i == r.line.row
           A == r.line.address
           E == tab[i + 1].address
           run == r.rIter
           m == RangesOf(r.scope)
<1>1. /\ cu \in CU \ dw.badTables /\ run.val = cu /\ Contains(run, A)
      /\ i \in DOMAIN tab /\ r.line = LineOf(tab, i) /\ r.pos = i + 1
  BY DEF RowOK
<1>2. cu # None /\ r.scope # None /\ r.scope \in Sub \cup {All}
  BY <1>1, ConstantsAssumption DEF IterOK, Reader
<1>3. IsRun(m, run)
  BY <1>1, <1>2 DEF IterOK
<1>4. L \in Nat /\ DOMAIN tab = 1..L
  BY <1>1, TableFacts
<1>5. ~ tab[i].end /\ A = tab[i].address
  BY <1>1 DEF LineOf
<1> HIDE DEF L
<1>6. i \in 1..L - 1 /\ i \in 1..L /\ i + 1 \in 1..L /\ i < i + 1
  <2>1. i < L
    BY <1>1, <1>4, <1>5, TableFacts DEF L
  <2> QED
    BY <2>1, <1>1, <1>4
<1>7. A \in Nat /\ E \in Nat /\ tab[i + 1].end \in BOOLEAN
  BY <1>1, <1>5, <1>6, TableFacts, ZenonT(60) DEF L
<1>8. A <= E
  <2>1. \A j \in i..i + 1 - 1 : j = i
    BY <1>6, <1>4
  <2>2. Together(tab, i, i + 1) /\ i <= i + 1
    BY <2>1, <1>5, <1>6, <1>4, SMTT(60) DEF Together
  <2>3. tab[i].address <= tab[i + 1].address
    BY <2>2, <1>1, <1>6, TableFacts DEF L
  <2> QED
    BY <2>3, <1>5
<1>9. /\ run.low \in Nat /\ run.high \in Nat /\ run.low <= A /\ A < run.high
      /\ run.high <= MaxAddr + 1 /\ MaxAddr \in Nat
      /\ run.high \in Addr => m[run.high] # cu
  BY <1>1, <1>3, ConstantsAssumption DEF IsRun, Contains, Addr
<1>10. ASSUME NEW a \in Nat, A <= a, a < run.high PROVE a \in Addr /\ m[a] = cu /\ Contains(run, a)
  <2>1. Contains(run, a)
    BY <1>7, <1>9, <1>10 DEF Contains
  <2> QED
    BY <2>1, <1>1, <1>3, InRun
<1> DEFINE line == IF E < run.high THEN LineOf(tab, i + 1)
                   ELSE [address |-> run.high, end |-> TRUE, row |-> 0]
           there == [[r EXCEPT !.pos = r.pos + 1] EXCEPT !.line = line]
<1>11. out = [r |-> UpdateStack(there), err |-> "ok"]
  <2>1. r.pos = i + 1 /\ r.pos <= Len(tab)
    BY <1>1, <1>4, <1>6 DEF L
  <2>2. LineOf(tab, i + 1).address = E
    BY DEF LineOf
  <2> QED
    BY <2>1, <2>2 DEF NextRow
<1> DEFINE B == line.address
<1>12. /\ line.end \in BOOLEAN
       /\ IF E < run.high THEN line = LineOf(tab, i + 1) /\ B = E /\ line.end = tab[i + 1].end /\ line.row = i + 1
                          ELSE B = run.high /\ line.end = TRUE /\ line.row = 0
       /\ line = [address |-> B, end |-> line.end, row |-> line.row]
  BY <1>7 DEF LineOf
<1> HIDE DEF line
<1>13. /\ B \in Nat /\ A <= B /\ B <= E /\ B <= run.high /\ B \in 0..MaxAddr + 1
       /\ line \in [address : 0..MaxAddr + 1, end : BOOLEAN, row : Nat]
       /\ ~ line.end => line.row = i + 1 /\ line = LineOf(tab, i + 1) /\ B = E /\ B < run.high
  <2>1. B \in Nat /\ A <= B /\ B <= E /\ B <= run.high /\ B \in 0..MaxAddr + 1
    BY <1>7, <1>8, <1>9, <1>12
  <2>2. line.row \in Nat
    BY <1>4, <1>6, <1>12
  <2> QED
    BY <2>1, <2>2, <1>12
<1>14. /\ there \in Reader /\ there.scope = r.scope /\ there.rIter = run /\ there.cu = cu
       /\ there.pos = r.pos + 1 /\ there.line = line
       /\ there.stack = r.stack /\ there.valid = r.valid
  <2> DEFINE read == [r EXCEPT !.pos = r.pos + 1]
  <2>1. /\ read \in Reader /\ read.pos = r.pos + 1
        /\ read.scope = r.scope /\ read.rIter = run /\ read.cu = cu
        /\ read.stack = r.stack /\ read.valid = r.valid
    BY DEF Reader
  <2>2. there = [read EXCEPT !.line = line]
    OBVIOUS
  <2> HIDE DEF B, read, there
  <2> QED
    BY <2>1, <2>2, <1>13 DEF Reader
<1> HIDE DEF there
<1>15. q = UpdateStack(there) /\ out = [r |-> q, err |-> "ok"]
  BY <1>11
<1>16. ASSUME ~ line.end PROVE B \in Addr /\ dw.cuOf[B] = cu /\ (r.scope # All => dw.subOf[B] = r.scope)
  <2>1. B \in Addr /\ m[B] = cu
    BY <1>10, <1>13, <1>16
  <2> QED
    BY <2>1, <1>2, ScopeFacts
<1>17. /\ q \in Reader /\ SamePlace(q, there) /\ ValidOK(q)
       /\ q.stack = IF line.end THEN None ELSE dw.siteOf[B]
  <2>1. ValidOK(there)
    BY <1>14 DEF ValidOK
  <2>2. /\ there.scope # None
        /\ ~ there.line.end =>
             /\ there.line.address \in Addr /\ dw.cuOf[there.line.address] = there.cu
             /\ there.scope # All => dw.subOf[there.line.address] = there.scope
    BY <1>2, <1>14, <1>16
  <2>3. /\ q \in Reader /\ SamePlace(q, there) /\ ValidOK(q)
        /\ q.stack = IF there.line.end THEN None ELSE dw.siteOf[there.line.address]
    BY <1>14, <1>15, <2>1, <2>2, UpdateStackRight
  <2> QED
    BY <2>3, <1>14
<1>18. /\ q.scope = r.scope /\ q.rIter = run /\ q.cu = cu /\ q.pos = i + 2 /\ q.line = line
  <2>1. r.pos + 1 = i + 2
    BY <1>1, <1>4, <1>6
  <2> QED
    BY <2>1, <1>14, <1>17 DEF SamePlace
<1>19. IterOK(q)
  BY <1>18 DEF IterOK
<1>20. ASSUME NEW a \in Addr, m[a] # None, dw.cuOf[a] \notin dw.badTables, B <= a
       PROVE  B <= dw.table[dw.cuOf[a]][RowCovering(a)].address
  <2> DEFINE c == dw.cuOf[a]
             k == RowCovering(a)
             b == dw.table[c][k].address
  <2>1. /\ c \in CU \ dw.badTables /\ RowCovers(dw.table[c], k, a) /\ b \in Nat
        /\ \A x \in b..a : x \in Addr /\ m[x] = c
    BY <1>2, <1>20, RowInScope
  <2>2. a \in Nat
    BY ConstantsAssumption DEF Addr
  <2> HIDE DEF b, c, k
  <2>3. SUFFICES ASSUME b < B PROVE FALSE
    BY <2>1, <1>13 DEF b, c, k
  <2>4. CASE E < run.high
    <3>1. B = E /\ B \in b..a
      BY <2>1, <2>2, <2>3, <2>4, <1>12, <1>13, <1>20
    <3>2. c = cu
      BY <3>1, <2>1, <2>4, <1>7, <1>8, <1>10
    <3>3. E <= b
      BY <3>1, <3>2, <2>1, <2>2, <1>1, <1>5, <1>6, <1>8, <1>20, CoversPast DEF b, L
    <3> QED
      BY <3>1, <3>3, <2>1, <2>3, <1>7
  <2>5. CASE ~ (E < run.high)
    <3>1. B = run.high /\ run.high \in b..a /\ run.high - 1 \in b..a /\ run.high - 1 \in Nat
          /\ A <= run.high - 1 /\ run.high - 1 < run.high
      BY <2>1, <2>2, <2>3, <2>5, <1>7, <1>9, <1>12, <1>20
    <3>2. m[run.high - 1] = cu
      BY <3>1, <1>10
    <3> QED
      BY <3>1, <3>2, <2>1, <1>9
  <2> QED
    BY <2>4, <2>5
<1>21. ASSUME q.line.end PROVE EndOK(q) /\ q.stack = None
  <2>1. q.line.address = B /\ q.stack = None
    BY <1>17, <1>18, <1>21
  <2>2. ASSUME NEW a \in Addr, a >= B, InScope(r.scope, a), dw.cuOf[a] \notin dw.badTables
        PROVE  dw.table[dw.cuOf[a]][RowCovering(a)].address >= B
    <3>1. B <= a /\ m[a] # None
      BY <2>2, <1>13, ConstantsAssumption DEF InScope, Addr
    <3>2. dw.table[dw.cuOf[a]][RowCovering(a)].address \in Nat
      BY <3>1, <2>2, <1>2, RowInScope
    <3>3. B <= dw.table[dw.cuOf[a]][RowCovering(a)].address
      BY <3>1, <2>2, <1>20
    <3> QED
      BY <3>2, <3>3, <1>13
  <2> HIDE DEF B
  <2>3. q.scope = r.scope
    BY <1>18
  <2> QED
    BY <2>1, <2>2, <2>3 DEF EndOK
<1>22. ASSUME ~ q.line.end PROVE RowOK(q) /\ q.line.row = i + 1
  <2>1. /\ line.row = i + 1 /\ line = LineOf(tab, i + 1) /\ B = E /\ B < run.high
        /\ q.stack = dw.siteOf[B]
    BY <1>13, <1>17, <1>18, <1>22
  <2>2. Contains(run, B)
    BY <2>1, <1>10, <1>13
  <2>3. i + 2 = i + 1 + 1 /\ i + 1 \in DOMAIN tab
    BY <1>4, <1>6
  <2> QED
    BY <2>1, <2>2, <2>3, <1>1, <1>18 DEF RowOK
<1>23. ~ RowBetween(r.scope, A + 1, B)
  <2>1. SUFFICES ASSUME NEW a \in Addr, A + 1 <= a, a < B, InScope(r.scope, a),
                        dw.table[dw.cuOf[a]][RowCovering(a)].address = a
                 PROVE  FALSE
    BY DEF RowBetween
  <2>2. a \in Nat /\ A < a /\ a < E /\ a < run.high /\ A <= a
    BY <2>1, <1>7, <1>9, <1>13, ConstantsAssumption DEF Addr
  <2>3. m[a] = cu
    BY <2>2, <1>10
  <2>4. dw.cuOf[a] = cu
    BY <2>3, <1>2, ScopeFacts
  <2>5. RowCovers(tab, RowCovering(a), a)
    BY <2>3, <2>4, <1>1, <1>2, RowInScope
  <2>6. RowCovers(tab, i, a)
    BY <2>2, <1>5, <1>6 DEF RowCovers, L
  <2>7. RowCovering(a) = i
    BY <2>2, <2>5, <2>6, <1>1, OneCovers
  <2>8. tab[i].address = a
    BY <2>1, <2>4, <2>7
  <2> QED
    BY <2>2, <2>8, <1>5, <1>7
<1>24. r.line.address <= q.line.address /\ ~ RowBetween(r.scope, r.line.address + 1, q.line.address)
  <2>1. q.line.address = B
    BY <1>18
  <2> HIDE DEF B
  <2> QED
    BY <2>1, <1>13, <1>23
<1> QED
  BY <1>15, <1>17, <1>18, <1>19, <1>21, <1>22, <1>24

\* What Next does past the end of a sequence: it goes on to the first address in
\* scope that is left, and to the start of a row there.
LEMMA NextSequenceFacts ==
  ASSUME dw \in Worlds, NEW r \in Reader, IterOK(r), ValidOK(r), r.scope # None, EndOK(r),
         NEW out, out = NextSequence(r), NEW q, q = out.r,
         NEW E, E = r.line.address, NEW T, T = Landing(r.scope, E)
  PROVE  /\ q \in Reader /\ q.scope = r.scope /\ IterOK(q) /\ ValidOK(q)
         /\ out = [r |-> q, err |-> out.err]
         /\ IF T = {} THEN out.err = "eof" /\ q.line = r.line
            ELSE IF dw.cuOf[Min(T)] \in dw.badTables THEN out.err = "badTable"
            ELSE /\ out.err = "ok" /\ RowOK(q) /\ ~ q.line.end
                 /\ E <= q.line.address /\ ~ RowBetween(r.scope, E, q.line.address)
                 /\ q.line.row = RowCovering(q.line.address)
<1>1. r.scope \in Sub \cup {All} /\ E \in Nat /\ MaxAddr \in Nat
  BY ConstantsAssumption DEF Reader
<1>2. PICK once : once = Seek(r, r.scope, E)
  OBVIOUS
<1>3. PICK p : p = once.r
  OBVIOUS
<1>4. PICK a : a = Min(T)
  OBVIOUS
<1>5. /\ p \in Reader /\ p.scope = r.scope /\ IterOK(p) /\ ValidOK(p)
      /\ once = [r |-> p, err |-> once.err]
      /\ IF T = {} THEN once.err = "unknownPC" /\ p.line = r.line
         ELSE /\ a \in Addr /\ a \in Nat /\ E <= a /\ RangesOf(r.scope)[a] # None
              /\ \A b \in T : a <= b
              /\ IF dw.cuOf[a] \in dw.badTables THEN once.err = "badTable"
                 ELSE /\ once.err = "ok" /\ RowOK(p) /\ p.cu = dw.cuOf[a] /\ ~ p.line.end
                      /\ p.line = LineOf(dw.table[dw.cuOf[a]], RowCovering(a))
  BY <1>1, <1>2, <1>3, <1>4, SeekFacts
<1>6. ~ (once.err = "ok" /\ p.line.end)
  BY <1>5
<1>7. out = [once EXCEPT !.err = IF once.err = "unknownPC" THEN "eof" ELSE once.err]
  BY <1>2, <1>3, <1>6 DEF NextSequence
<1>8. out = [r |-> p, err |-> IF once.err = "unknownPC" THEN "eof" ELSE once.err]
  BY <1>5, <1>7
<1>9. q = p /\ out.err = IF once.err = "unknownPC" THEN "eof" ELSE once.err
  BY <1>8
<1>10. ASSUME T # {}, dw.cuOf[a] \notin dw.badTables
       PROVE  /\ out.err = "ok" /\ RowOK(q) /\ ~ q.line.end
              /\ E <= q.line.address /\ ~ RowBetween(r.scope, E, q.line.address)
              /\ q.line.row = RowCovering(q.line.address)
  <2> DEFINE tab == dw.table[dw.cuOf[a]]
             i == RowCovering(a)
             b == tab[i].address
  <2>1. /\ a \in Addr /\ a \in Nat /\ E <= a /\ RangesOf(r.scope)[a] # None
        /\ \A x \in T : a <= x
        /\ q.line = LineOf(tab, i) /\ out.err = "ok" /\ RowOK(q) /\ ~ q.line.end
    BY <1>5, <1>9, <1>10
  <2>2. /\ dw.cuOf[a] \in CU \ dw.badTables /\ RowCovers(tab, i, a) /\ b \in Nat
        /\ \A x \in b..a :
             x \in Addr /\ RangesOf(r.scope)[x] = dw.cuOf[a] /\ dw.cuOf[x] = dw.cuOf[a]
    BY <2>1, <1>1, <1>10, RowInScope
  <2>3. q.line.address = b /\ q.line.row = i
    BY <2>1 DEF LineOf
  <2> HIDE DEF tab, i
  <2>4. b <= a /\ a < tab[i + 1].address /\ i \in 1..Len(tab) - 1 /\ ~ tab[i].end
    BY <2>2 DEF RowCovers
  <2>5. E <= b
    <3>1. a >= r.line.address /\ InScope(r.scope, a)
      BY <2>1, <1>1 DEF InScope
    <3>2. b >= r.line.address
      BY <2>1, <3>1, <1>10 DEF EndOK, tab, i
    <3> QED
      BY <3>2, <2>2, <1>1
  <2>6. RowCovering(b) = i
    <3>1. b \in Addr /\ dw.cuOf[b] = dw.cuOf[a]
      BY <2>1, <2>2, <2>4
    <3>2. tab = dw.table[dw.cuOf[b]] /\ dw.cuOf[b] \in CU \ dw.badTables
      BY <3>1, <2>2 DEF tab
    <3>3. Len(tab) \in Nat /\ \A k \in 1..Len(tab) : tab[k].address \in Nat
      BY <3>2, TableFacts
    <3>4. i + 1 \in 1..Len(tab)
      BY <3>3, <2>4
    <3>5. tab[i + 1].address \in Nat
      BY <3>3, <3>4
    <3>6. b <= b /\ b < tab[i + 1].address
      BY <3>5, <2>1, <2>2, <2>4
    <3>7. RowCovers(tab, i, b)
      BY <3>6, <2>4 DEF RowCovers
    <3>8. i = RowCovering(b)
      BY <3>1, <3>2, <3>7, OnlyRow
    <3> QED
      BY <3>8
  <2>7. ~ RowBetween(r.scope, E, b)
    <3>1. SUFFICES ASSUME NEW x \in Addr, E <= x, x < b, InScope(r.scope, x) PROVE FALSE
      BY DEF RowBetween
    <3>2. x \in Nat /\ x >= E
      BY <3>1, <1>1, ConstantsAssumption DEF Addr
    <3>3. x \in T
      BY <3>1, <3>2 DEF Landing
    <3> QED
      BY <3>1, <3>2, <3>3, <2>1, <2>2, <2>4
  <2> HIDE DEF b
  <2> QED
    BY <2>1, <2>3, <2>5, <2>6, <2>7
<1>11. ASSUME T = {} PROVE out.err = "eof" /\ q.line = r.line
  BY <1>5, <1>9, <1>11
<1>12. ASSUME T # {}, dw.cuOf[a] \in dw.badTables PROVE out.err = "badTable"
  BY <1>5, <1>9, <1>12
<1>13. out = [r |-> q, err |-> out.err]
  BY <1>8, <1>9
<1>14. /\ T = {} => out.err = "eof" /\ q.line = r.line
       /\ T # {} /\ dw.cuOf[Min(T)] \in dw.badTables => out.err = "badTable"
       /\ T # {} /\ dw.cuOf[Min(T)] \notin dw.badTables =>
            /\ out.err = "ok" /\ RowOK(q) /\ ~ q.line.end
            /\ E <= q.line.address /\ ~ RowBetween(r.scope, E, q.line.address)
            /\ q.line.row = RowCovering(q.line.address)
  BY <1>4, <1>10, <1>11, <1>12
<1> QED
  BY <1>5, <1>9, <1>13, <1>14

-----------------------------------------------------------------------------
(* The inductive invariant *)

\* The debug information stays as it is, and so does all that is said of it.
LEMMA SameWorld ==
  ASSUME UNCHANGED dw
  PROVE  /\ \A a : RowCovering(a)' = RowCovering(a)
         /\ \A s, a : InScope(s, a)' = InScope(s, a)
         /\ \A s : RangesOf(s)' = RangesOf(s)
<1>1. \A a : RowCovering(a)' = RowCovering(a)
  BY DEF RowCovering
<1>2. \A s : RangesOf(s)' = RangesOf(s)
  BY DEF RangesOf
<1>3. \A s, a : InScope(s, a)' = InScope(s, a)
  BY <1>2 DEF InScope
<1> QED
  BY <1>1, <1>2, <1>3

\* A reader with the invariant's properties, and one it is positioned with, makes
\* the invariant hold in the next state.
LEMMA InvNext ==
  ASSUME UNCHANGED dw, dw \in Worlds, NEW q \in Reader, lr' = q, q.scope \notin dw.badRanges,
         IterOK(q), ValidOK(q),
         result' \in {"unpositioned", "ok", "unknownPC", "eof", "badTable", "ranges"},
         Positioned' =>
           /\ q.scope # None
           /\ IF q.line.end THEN EndOK(q) ELSE result' = "ok" /\ RowOK(q)
           /\ result' = "ok" /\ q.line.end => q.stack = None
  PROVE  IInv'
<1>1. ValidOK(lr)'
  BY DEF ValidOK
<1>2. IterOK(lr)'
  <2>1. RangesOf(q.scope)' = RangesOf(q.scope)
    BY SameWorld
  <2> QED
    BY <2>1 DEF IterOK
<1>3. ASSUME EndOK(q) PROVE EndOK(lr)'
  <2>1. ASSUME NEW a \in Addr, a >= q.line.address, InScope(q.scope, a)', dw'.cuOf[a] \notin dw'.badTables
        PROVE  dw'.table[dw'.cuOf[a]][RowCovering(a)'].address >= q.line.address
    <3>1. InScope(q.scope, a) /\ RowCovering(a)' = RowCovering(a)
      BY <2>1, SameWorld
    <3>2. dw.table[dw.cuOf[a]][RowCovering(a)].address >= q.line.address
      BY <3>1, <2>1, <1>3 DEF EndOK
    <3> QED
      BY <3>1, <3>2
  <2> QED
    BY <2>1 DEF EndOK
<1>4. ASSUME RowOK(q) PROVE RowOK(lr)'
  BY <1>4 DEF RowOK
<1>5. Positioned' => PlaceOK'
  BY <1>3, <1>4 DEF PlaceOK
<1>6. lr' \in Reader' /\ dw' \in Worlds /\ lr'.scope \notin dw'.badRanges
  BY DEF Reader, Run
<1> QED
  BY <1>1, <1>2, <1>5, <1>6 DEF IInv

LEMMA InitInv == Init => IInv
<1> SUFFICES ASSUME Init PROVE IInv
  OBVIOUS
<1>1. dw \in Worlds /\ lr = NewReader /\ result = "unpositioned"
  BY DEF Init
<1>2. NoRun \in Run(CU) /\ NoRun \in Run(Site) /\ NoRun.val = None
  BY DEF NoRun, Run
<1>3. lr \in Reader /\ lr.scope = None /\ lr.rIter = NoRun /\ lr.valid = NoRun /\ lr.stack = None
  BY <1>1, <1>2, ConstantsAssumption DEF NewReader, Reader
<1>4. lr.scope \notin dw.badRanges
  BY <1>1, <1>3, WorldFacts, ConstantsAssumption
<1>5. IterOK(lr)
  BY <1>2, <1>3 DEF IterOK
<1>6. ValidOK(lr)
  BY <1>2, <1>3, NothingInNoRun DEF ValidOK
<1>7. ~ Positioned
  BY <1>1 DEF Positioned
<1> QED
  BY <1>1, <1>3, <1>4, <1>5, <1>6, <1>7 DEF IInv

\* A seek keeps the invariant, and lands where it should.
LEMMA SeekInv ==
  ASSUME IInv, NEW scope \in Sub \cup {All}, NEW pc \in Addr, lr.scope \in {None, scope},
         scope \notin dw.badRanges, Return(Seek(lr, scope, pc))
  PROVE  IInv' /\ SeekLands(scope, pc)
<1>1. /\ dw \in Worlds /\ lr \in Reader /\ IterOK(lr) /\ ValidOK(lr)
  BY DEF IInv
<1>2. pc \in Nat
  BY ConstantsAssumption DEF Addr
<1>3. PICK out : out = Seek(lr, scope, pc)
  OBVIOUS
<1>4. PICK q : q = out.r
  OBVIOUS
<1>5. PICK T : T = Landing(scope, pc)
  OBVIOUS
<1>6. PICK a : a = Min(T)
  OBVIOUS
<1>7. lr' = q /\ result' = out.err /\ UNCHANGED dw
  BY <1>3, <1>4 DEF Return
<1>8. /\ q \in Reader /\ q.scope = scope /\ IterOK(q) /\ ValidOK(q)
      /\ IF T = {} THEN out.err = "unknownPC"
         ELSE IF dw.cuOf[a] \in dw.badTables THEN out.err = "badTable"
              ELSE /\ out.err = "ok" /\ RowOK(q) /\ q.cu = dw.cuOf[a] /\ ~ q.line.end
                   /\ q.line = LineOf(dw.table[dw.cuOf[a]], RowCovering(a))
  BY <1>1, <1>2, <1>3, <1>4, <1>5, <1>6, SeekFacts
<1>9. result' = "ok" => RowOK(q) /\ ~ q.line.end
  BY <1>7, <1>8
<1>10. result' \in {"ok", "unknownPC", "badTable"}
  BY <1>7, <1>8
<1>11. scope # None
  BY ConstantsAssumption
<1>12. IInv'
  BY <1>1, <1>7, <1>8, <1>9, <1>10, <1>11, InvNext DEF Positioned
<1>13. ASSUME T # {}, dw.cuOf[a] \notin dw.badTables
       PROVE  result' = "ok" /\ lr'.cu = dw.cuOf[a] /\ lr'.line.row = RowCovering(a)
  BY <1>7, <1>8, <1>13 DEF LineOf
<1>14. SeekLands(scope, pc)
  BY <1>5, <1>6, <1>7, <1>8, <1>13 DEF SeekLands
<1> QED
  BY <1>12, <1>14

\* Next keeps the invariant, and goes on to the next row.
LEMMA NextInv ==
  ASSUME IInv, NextLine
  PROVE  IInv' /\ NextMovesOn
<1>1. /\ dw \in Worlds /\ lr \in Reader /\ IterOK(lr) /\ ValidOK(lr) /\ lr.scope \notin dw.badRanges
      /\ lr.scope # None /\ IF lr.line.end THEN EndOK(lr) ELSE RowOK(lr)
  BY DEF IInv, PlaceOK, NextLine
<1>2. PICK out : out = IF lr.line.end THEN NextSequence(lr) ELSE NextRow(lr)
  OBVIOUS
<1>3. PICK q : q = out.r
  OBVIOUS
<1>4. lr' = q /\ result' = out.err /\ UNCHANGED dw
  BY <1>2, <1>3 DEF NextLine, Return
<1>5. PICK E : E = lr.line.address
  OBVIOUS
<1>6. PICK T : T = Landing(lr.scope, E)
  OBVIOUS
<1>7. E \in Nat /\ \A n \in 0..MaxAddr + 1 : n \in Nat
  BY <1>1, <1>5, ConstantsAssumption DEF Reader
<1>8. ASSUME q \in Reader, E <= q.line.address PROVE q.line.address >= lr.line.address
  <2>1. q.line.address \in Nat
    BY <1>7, <1>8 DEF Reader
  <2> QED
    BY <2>1, <1>5, <1>7, <1>8
<1>9. CASE lr.line.end
  <2>1. /\ q \in Reader /\ q.scope = lr.scope /\ IterOK(q) /\ ValidOK(q)
        /\ IF T = {} THEN out.err = "eof" /\ q.line = lr.line
           ELSE IF dw.cuOf[Min(T)] \in dw.badTables THEN out.err = "badTable"
           ELSE /\ out.err = "ok" /\ RowOK(q) /\ ~ q.line.end
                /\ E <= q.line.address /\ ~ RowBetween(lr.scope, E, q.line.address)
                /\ q.line.row = RowCovering(q.line.address)
    BY <1>1, <1>2, <1>3, <1>5, <1>6, <1>9, NextSequenceFacts, SMTT(60)
  <2>2. result' = "ok" => RowOK(q) /\ ~ q.line.end
    BY <2>1, <1>4
  <2>3. result' = "eof" => EndOK(q) /\ q.line.end
    <3>1. ASSUME q.line = lr.line PROVE EndOK(q)
      BY <3>1, <2>1, <1>1, <1>9 DEF EndOK
    <3> QED
      BY <3>1, <2>1, <1>4, <1>9
  <2>4. result' \in {"ok", "eof", "badTable"}
    BY <2>1, <1>4
  <2>5. IInv'
    BY <2>1, <2>2, <2>3, <2>4, <1>1, <1>4, InvNext DEF Positioned
  <2>6. result' = "ok" =>
          /\ lr'.line.address >= lr.line.address
          /\ ~ RowBetween(lr.scope, E, lr'.line.address)
          /\ lr'.line.row = RowCovering(lr'.line.address)
    BY <2>1, <1>4, <1>8
  <2>7. /\ result' = "eof" => T = {}
        /\ result' = "badTable" => T # {} /\ dw.cuOf[Min(T)] \in dw.badTables
    BY <2>1, <1>4
  <2>8. NextMovesOn
    BY <2>4, <2>6, <2>7, <1>5, <1>6, <1>9 DEF NextMovesOn
  <2> QED
    BY <2>5, <2>8
<1>10. CASE ~ lr.line.end
  <2>1. /\ q \in Reader /\ q.scope = lr.scope /\ q.cu = lr.cu /\ IterOK(q) /\ ValidOK(q)
        /\ out = [r |-> q, err |-> "ok"]
        /\ IF q.line.end THEN EndOK(q) /\ q.stack = None
           ELSE RowOK(q) /\ q.line.row = lr.line.row + 1
        /\ lr.line.address <= q.line.address
        /\ ~ RowBetween(lr.scope, lr.line.address + 1, q.line.address)
    BY <1>1, <1>2, <1>3, <1>10, NextRowFacts
  <2>2. result' = "ok"
    BY <2>1, <1>4
  <2>3. IInv'
    BY <2>1, <2>2, <1>1, <1>4, InvNext DEF Positioned
  <2>4. /\ lr'.line.address >= lr.line.address
        /\ ~ RowBetween(lr.scope, lr.line.address + 1, lr'.line.address)
        /\ lr'.line.end \/ (lr'.cu = lr.cu /\ lr'.line.row = lr.line.row + 1)
    BY <2>1, <1>4, <1>5, <1>8
  <2>5. NextMovesOn
    BY <2>2, <2>4, <1>10 DEF NextMovesOn
  <2> QED
    BY <2>3, <2>5
<1> QED
  BY <1>9, <1>10

\* Every step of a reader whose client does not change its scope keeps the
\* invariant.
LEMMA StepInv ==
  ASSUME ~ Rescope, IInv, [Next]_vars
  PROVE  IInv'
<1>1. dw \in Worlds /\ lr \in Reader /\ lr.scope \notin dw.badRanges /\ dw.badRanges \subseteq Sub
  BY WorldFacts DEF IInv
<1>2. ASSUME NEW pc \in Addr, SeekPC(pc) PROVE IInv'
  <2>1. All \notin dw.badRanges /\ lr.scope \in {None, All} /\ Return(Seek(lr, All, pc))
    BY <1>1, <1>2, ConstantsAssumption DEF SeekPC, MayScope
  <2> QED
    BY <2>1, SeekInv
<1>3. ASSUME NEW s \in Sub, NEW pc \in Addr, SeekSubprogram(s, pc) PROVE IInv'
  <2>1. CASE s # lr.scope /\ s \in dw.badRanges
    <3>1. PICK q : q = lr
      OBVIOUS
    <3>2. lr' = q /\ result' = "ranges" /\ UNCHANGED dw
      BY <1>3, <2>1, <3>1 DEF SeekSubprogram, Return
    <3>3. q \in Reader /\ q.scope \notin dw.badRanges /\ IterOK(q) /\ ValidOK(q)
      BY <3>1 DEF IInv
    <3> QED
      BY <3>2, <3>3, <1>1, InvNext DEF Positioned
  <2>2. CASE ~ (s # lr.scope /\ s \in dw.badRanges)
    <3>1. s \notin dw.badRanges /\ lr.scope \in {None, s} /\ Return(Seek(lr, s, pc))
      BY <1>1, <1>3, <2>2 DEF SeekSubprogram, MayScope
    <3> QED
      BY <3>1, SeekInv
  <2> QED
    BY <2>1, <2>2
<1>4. ASSUME NextLine PROVE IInv'
  BY <1>4, NextInv
<1>5. ASSUME UNCHANGED vars PROVE IInv'
  <2>1. PICK q : q = lr
    OBVIOUS
  <2>2. lr' = q /\ result' = result /\ UNCHANGED dw
    BY <1>5, <2>1 DEF vars
  <2>3. /\ q \in Reader /\ q.scope \notin dw.badRanges /\ IterOK(q) /\ ValidOK(q)
        /\ result \in {"unpositioned", "ok", "unknownPC", "eof", "badTable", "ranges"}
    BY <2>1 DEF IInv
  <2>4. Positioned' =>
          /\ q.scope # None
          /\ IF q.line.end THEN EndOK(q) ELSE result' = "ok" /\ RowOK(q)
          /\ result' = "ok" /\ q.line.end => q.stack = None
    BY <2>1, <2>2 DEF IInv, PlaceOK, Positioned
  <2> QED
    BY <2>2, <2>3, <2>4, <1>1, InvNext
<1> QED
  BY <1>2, <1>3, <1>4, <1>5 DEF Next

-----------------------------------------------------------------------------
(* Theorems *)

\* For every debug information a compiler writes, the reader's fields agree with
\* each other and with it after any calls: the row, the range and the stack it
\* holds on to are of one place (lines.go:19-82), if its scope does not change.
THEOREM Invariance ==
  ASSUME ~ Rescope
  PROVE  Spec => []IInv
<1>1. IInv /\ [Next]_vars => IInv'
  BY StepInv
<1> QED
  BY <1>1, InitInv, PTL DEF Spec

\* A reader that keeps its scope never stands on a row outside it
\* (lines.go:167-170, :246-251).
THEOREM AlwaysScopeRespected ==
  ASSUME ~ Rescope
  PROVE  Spec => []ScopeRespected
<1>1. ASSUME IInv PROVE ScopeRespected
  <2>1. SUFFICES ASSUME result = "ok", ~ lr.line.end
                 PROVE  InScope(lr.scope, lr.line.address)
    BY DEF ScopeRespected
  <2>2. RowOK(lr) /\ lr \in Reader /\ IterOK(lr)
    BY <1>1, <2>1 DEF IInv, Positioned, PlaceOK
  <2>3. /\ lr.cu \in CU /\ lr.rIter.val = lr.cu /\ Contains(lr.rIter, lr.line.address)
        /\ lr.line.address \in Nat
    BY <2>2, ConstantsAssumption DEF RowOK, Reader
  <2>4. lr.cu # None
    BY <2>3, ConstantsAssumption
  <2>5. IsRun(RangesOf(lr.scope), lr.rIter)
    BY <2>2, <2>3, <2>4 DEF IterOK
  <2>6. lr.line.address \in Addr /\ RangesOf(lr.scope)[lr.line.address] = lr.cu
    BY <2>3, <2>5, InRun
  <2> QED
    BY <2>4, <2>6 DEF InScope
<1> QED
  BY <1>1, Invariance, PTL

\* Stack is the inline stack at the current address after every call, although
\* the map it comes from and its interval are kept (lines.go:319-355).
THEOREM AlwaysStackRight ==
  ASSUME ~ Rescope
  PROVE  Spec => []StackRight
<1>1. ASSUME IInv PROVE StackRight
  <2>1. /\ dw \in Worlds /\ lr \in Reader
        /\ result \in {"unpositioned", "ok", "unknownPC", "eof", "badTable", "ranges"}
    BY <1>1 DEF IInv
  <2>2. TypeOK
    BY <2>1, WorldFacts DEF TypeOK, Reader
  <2>3. ASSUME result = "ok"
        PROVE  lr.stack = IF lr.line.end THEN None ELSE dw.siteOf[lr.line.address]
    BY <1>1, <2>3 DEF IInv, Positioned, PlaceOK, RowOK
  <2> QED
    BY <2>2, <2>3 DEF StackRight
<1> QED
  BY <1>1, Invariance, PTL

\* Wherever the reader stood before, a seek lands on the row that covers pc or the
\* first address in scope after it, or fails as documented (lines.go:167-172,
\* :195-198, :262-317).
THEOREM AlwaysSeekRight ==
  ASSUME ~ Rescope
  PROVE  Spec => SeekRight
<1> DEFINE Seeks == \A scope \in Sub \cup {All}, pc \in Addr :
             (IF scope = All THEN SeekPC(pc) ELSE SeekSubprogram(scope, pc))
             => SeekLands(scope, pc)
<1>1. ASSUME IInv, [Next]_vars PROVE Seeks
  <2>1. SUFFICES ASSUME NEW scope \in Sub \cup {All}, NEW pc \in Addr,
                        IF scope = All THEN SeekPC(pc) ELSE SeekSubprogram(scope, pc)
                 PROVE  SeekLands(scope, pc)
    OBVIOUS
  <2>2. dw.badRanges \subseteq Sub /\ lr.scope \notin dw.badRanges
    BY <1>1, WorldFacts DEF IInv
  <2>3. CASE scope = All
    <3>1. All \notin dw.badRanges /\ lr.scope \in {None, All} /\ Return(Seek(lr, All, pc))
      BY <2>1, <2>2, <2>3, ConstantsAssumption DEF SeekPC, MayScope
    <3> QED
      BY <3>1, <2>3, <1>1, SeekInv
  <2>4. CASE scope # All /\ scope \in dw.badRanges
    <3>1. Return([r |-> lr, err |-> "ranges"])
      BY <2>1, <2>2, <2>4 DEF SeekSubprogram
    <3> QED
      BY <3>1, <2>4 DEF Return, SeekLands
  <2>5. CASE scope # All /\ scope \notin dw.badRanges
    <3>1. lr.scope \in {None, scope} /\ Return(Seek(lr, scope, pc))
      BY <2>1, <2>5 DEF SeekSubprogram, MayScope
    <3> QED
      BY <3>1, <2>5, <1>1, SeekInv
  <2> QED
    BY <2>3, <2>4, <2>5
<1> QED
  BY <1>1, Invariance, PTL DEF Spec, SeekRight

\* Next goes through the rows in scope in address order and leaves none out, and
\* says EOF only when there is none left (lines.go:209-260).
THEOREM AlwaysNextRight ==
  ASSUME ~ Rescope
  PROVE  Spec => NextRight
<1>1. IInv /\ [Next]_vars => (NextLine => NextMovesOn)
  BY NextInv
<1> QED
  BY <1>1, Invariance, PTL DEF Spec, NextRight

=============================================================================
