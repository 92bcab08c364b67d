-------------------------- MODULE SizedTableProofs --------------------------
(***************************************************************************)
(* Theorems about Symtab and SizedTable: what the inductive invariant says *)
(* of the index a table is built of and of looking an address up in it;    *)
(* the sizes that SynthesizeSizes gives; and the table that is built of the*)
(* symbols with them or without.  Nothing about Symtab uses what SizedTable*)
(* assumes of the sections.                                                *)
(***************************************************************************)
EXTENDS SizedTable, FiniteSetTheorems, SequenceTheorems, WellFoundedInduction, TLAPS

-----------------------------------------------------------------------------
(* Numbers *)

\* A set of natural numbers has a least member.
LEMMA LeastNat ==
  ASSUME NEW T \in SUBSET Nat, T # {}
  PROVE  Min(T) \in T /\ \A y \in T : Min(T) <= y
<1> DEFINE R == {p \in Nat \X Nat : p[1] < p[2]}
<1>1. IsWellFoundedOn(R, Nat)
  BY NatLessThanWellFounded DEF OpToRel
<1>2. PICK x \in T : \A y \in T : ~ (<<y, x>> \in R)
  BY <1>1, WFMin
<1>3. ASSUME NEW y \in T PROVE x <= y
  <2>1. x \in Nat /\ y \in Nat
    OBVIOUS
  <2>2. ~ (y < x)
    BY <1>2, <2>1
  <2> QED
    BY <2>1, <2>2
<1> QED
  BY <1>3 DEF Min

\* One that has a bound has a greatest.
LEMMA GreatestNat ==
  ASSUME NEW T \in SUBSET Nat, NEW n \in Nat, T # {}, \A x \in T : x <= n
  PROVE  Max(T) \in T /\ \A y \in T : y <= Max(T)
<1> DEFINE D == {n - x : x \in T}
<1>1. D \in SUBSET Nat /\ D # {}
  <2>1. \A x \in T : n - x \in Nat
    OBVIOUS
  <2> QED
    BY <2>1
<1>2. Min(D) \in D /\ \A d \in D : Min(D) <= d
  BY <1>1, LeastNat
<1>3. PICK x \in T : Min(D) = n - x
  BY <1>2
<1>4. ASSUME NEW y \in T PROVE x >= y
  <2>1. n - x <= n - y
    BY <1>2, <1>3
  <2> QED
    BY <2>1
<1> QED
  BY <1>4 DEF Max

-----------------------------------------------------------------------------
(* Symbols and their order *)

LEMMA SymFacts ==
  ASSUME IsTable(syms)
  PROVE  /\ ID \subseteq Nat
         /\ \E n \in Nat : \A i \in ID : i <= n
         /\ \A i \in ID : /\ syms[i].value \in Word /\ syms[i].size \in Word
                          /\ End(syms[i]) \in Word
         /\ \A i \in ID : NoneWraps => End(syms[i]) = syms[i].value + syms[i].size
<1>1. Cardinality(ID) \in Nat /\ ID = 1..Cardinality(ID)
  BY FS_CardinalityType DEF IsTable, ID
<1>2. ASSUME NEW i \in ID
      PROVE  /\ syms[i].value \in Word /\ syms[i].size \in Word
             /\ End(syms[i]) \in Word
             /\ NoneWraps => End(syms[i]) = syms[i].value + syms[i].size
  <2>1. syms[i].value \in Word /\ syms[i].size \in Word
    BY DEF IsTable, IsSymbol, ID
  <2> DEFINE v == syms[i].value
             z == syms[i].size
  <2>2. v \in 0..W - 1 /\ z \in 0..W - 1 /\ W \in Nat \ {0}
    BY <2>1, ConstantsAssumption DEF Word
  <2>3. NoneWraps => v + z < W
    BY DEF NoneWraps
  <2>4. (v + z) % W \in 0..W - 1 /\ (v + z < W => (v + z) % W = v + z)
    <3> HIDE DEF v, z
    <3> QED
      BY <2>2
  <2> QED
    BY <2>1, <2>3, <2>4 DEF End, Word
<1> QED
  BY <1>1, <1>2

LEMMA BeforeOrders ==
  ASSUME IsTable(syms)
  PROVE  /\ \A i, j \in ID : i # j => Before(i, j) \/ Before(j, i)
         /\ \A i, j \in ID : ~ (Before(i, j) /\ Before(j, i))
         /\ \A i, j \in ID : Before(i, j) => syms[i].value <= syms[j].value
         /\ \A i, j \in ID : Before(i, j) /\ syms[i].value = syms[j].value
                              => syms[i].size >= syms[j].size
<1>1. /\ ID \subseteq Nat
      /\ \A i \in ID : syms[i].value \in Nat /\ syms[i].size \in Nat
  BY SymFacts, ConstantsAssumption DEF Word
<1> QED
  BY <1>1 DEF Before

\* Of any symbols one comes first.
LEMMA Earliest ==
  ASSUME IsTable(syms), NEW S \in SUBSET ID, S # {}
  PROVE  \E i \in S : \A j \in S \ {i} : Before(i, j)
<1>1. /\ ID \subseteq Nat
      /\ \A i \in ID : /\ syms[i].value \in Nat
                       /\ syms[i].size \in Nat /\ syms[i].size <= W
  BY SymFacts, ConstantsAssumption DEF Word
<1>2. PICK n \in Nat : \A i \in ID : i <= n
  BY SymFacts
<1> DEFINE V == {syms[i].value : i \in S}
           A == {i \in S : syms[i].value = Min(V)}
           Z == {syms[i].size : i \in A}
           B == {i \in A : syms[i].size = Max(Z)}
<1>3. Min(V) \in V /\ \A v \in V : Min(V) <= v
  <2>1. V \in SUBSET Nat /\ V # {}
    BY <1>1
  <2> HIDE DEF V
  <2> QED
    BY <2>1, LeastNat
<1>4. A # {}
  BY <1>3
<1>5. Max(Z) \in Z /\ \A z \in Z : z <= Max(Z)
  <2>1. Z \in SUBSET Nat /\ Z # {} /\ \A z \in Z : z <= W
    BY <1>1, <1>4
  <2> QED
    BY <2>1, GreatestNat, ConstantsAssumption
<1>6. B # {}
  BY <1>5
<1>7. Max(B) \in B /\ \A b \in B : b <= Max(B)
  <2>1. B \in SUBSET Nat /\ \A b \in B : b <= n
    BY <1>1, <1>2
  <2> QED
    BY <2>1, <1>6, GreatestNat
<1>8. ASSUME NEW j \in S \ {Max(B)} PROVE Before(Max(B), j)
  <2> DEFINE i == Max(B)
  <2>1. i \in S /\ syms[i].value = Min(V) /\ syms[i].size = Max(Z)
    BY <1>7
  <2>2. syms[i].value <= syms[j].value
    BY <1>3, <2>1
  <2>3. syms[i].value = syms[j].value => syms[j].size <= syms[i].size
    BY <1>5, <2>1
  <2>4. syms[i].value = syms[j].value /\ syms[i].size = syms[j].size => i > j
    <3>1. SUFFICES ASSUME syms[i].value = syms[j].value, syms[i].size = syms[j].size
                   PROVE  i > j
      OBVIOUS
    <3>2. j \in B
      BY <2>1, <3>1
    <3>3. j <= i
      BY <3>2, <1>7
    <3>4. i \in Nat /\ j \in Nat /\ i # j
      BY <1>1, <2>1
    <3> HIDE DEF i
    <3> QED
      BY <3>3, <3>4
  <2>5. /\ i \in Nat /\ j \in Nat /\ i # j
        /\ syms[i].value \in Nat /\ syms[j].value \in Nat
        /\ syms[i].size \in Nat /\ syms[j].size \in Nat
    BY <1>1, <2>1
  <2>6. Before(i, j)
    <3> HIDE DEF i
    <3> QED
      BY <2>2, <2>3, <2>4, <2>5 DEF Before
  <2> QED
    BY <2>6
<1>9. Max(B) \in S
  BY <1>7
<1> HIDE DEF B
<1> QED
  BY <1>8, <1>9

LEMMA FirstRight ==
  ASSUME IsTable(syms), ids \subseteq ID, ids # {}
  PROVE  First \in ids /\ \A j \in ids \ {First} : Before(First, j)
BY Earliest DEF First

\* Where symbols are drained to: no symbol starts before that is yet to be visited.
LEMMA LimitRight ==
  ASSUME IsTable(syms), ids \subseteq ID
  PROVE  /\ Limit \in Word
         /\ \A j \in ids : Limit <= syms[j].value
<1>1. CASE ids = {}
  BY <1>1, ConstantsAssumption DEF Limit, Word
<1>2. CASE ids # {}
  <2>1. First \in ids /\ \A j \in ids \ {First} : Before(First, j)
    BY <1>2, FirstRight
  <2>2. Limit = syms[First].value
    BY <1>2 DEF Limit
  <2>3. Limit \in Word
    BY <2>1, <2>2, SymFacts
  <2>4. ASSUME NEW j \in ids PROVE Limit <= syms[j].value
    <3>1. CASE j = First
      BY <3>1, <2>2, <2>3, ConstantsAssumption DEF Word
    <3>2. CASE j # First
      BY <3>2, <2>1, <2>2, BeforeOrders
    <3> QED
      BY <3>1, <3>2
  <2> QED
    BY <2>3, <2>4
<1> QED
  BY <1>1, <1>2

\* The symbol that all others come before is the preferred one.
LEMMA PreferredIs ==
  ASSUME IsTable(syms), NEW S \in SUBSET ID, NEW x \in S, \A i \in S \ {x} : Before(i, x)
  PROVE  Preferred(S) = x
<1>1. ASSUME NEW y \in S, \A i \in S \ {y} : Before(i, y) PROVE y = x
  BY <1>1, BeforeOrders
<1> QED
  BY <1>1 DEF Preferred

-----------------------------------------------------------------------------
(* The stack and the index *)

LEMMA ListFacts ==
  ASSUME NEW s \in Seq(Boundary)
  PROVE  /\ Len(s) \in Nat /\ DOMAIN s = 1..Len(s)
         /\ s = <<>> <=> Len(s) = 0
         /\ \A i \in 1..Len(s) : s[i] \in Boundary /\ s[i].id \in ID /\ s[i].addr \in Word
<1>1. Len(s) \in Nat /\ DOMAIN s = 1..Len(s)
  BY LenProperties
<1>2. s = <<>> <=> Len(s) = 0
  BY EmptySeq
<1>3. ASSUME NEW i \in 1..Len(s)
      PROVE  s[i] \in Boundary /\ s[i].id \in ID /\ s[i].addr \in Word
  <2>1. s[i] \in Boundary
    BY ElementOfSeq
  <2> QED
    BY <2>1 DEF Boundary
<1> QED
  BY <1>1, <1>2, <1>3

WordFacts == Word \subseteq Nat /\ \A a \in Word : a <= W - 1

LEMMA WordsAreNumbers == WordFacts
BY ConstantsAssumption DEF WordFacts, Word

Falls(s) == \A i, j \in DOMAIN s : i <= j => s[i].addr >= s[j].addr

\* Pop takes the boundaries at the top's address off, and only them.
LEMMA PopFacts ==
  ASSUME NEW s \in Seq(Boundary), s # <<>>, Falls(s)
  PROVE  /\ Pop(s) \in Seq(Boundary)
         /\ Len(Pop(s)) < Len(s)
         /\ \A i \in 1..Len(Pop(s)) : Pop(s)[i] = s[i] /\ s[i].addr > Top(s).addr
         /\ \A i \in 1..Len(s) : i > Len(Pop(s)) => s[i].addr = Top(s).addr
<1> DEFINE n == Len(s)
           K == {0} \cup {i \in DOMAIN s : s[i].addr # Top(s).addr}
           m == Max(K)
<1>1. n \in Nat /\ n > 0 /\ DOMAIN s = 1..n
  BY ListFacts
<1>2. \A i \in 1..n : s[i].addr \in Nat
  BY ListFacts, WordsAreNumbers DEF WordFacts
<1>3. m \in K /\ \A i \in K : i <= m
  <2>1. K \in SUBSET Nat /\ K # {} /\ \A i \in K : i <= n
    BY <1>1
  <2> HIDE DEF K, n
  <2> QED
    BY <2>1, <1>1, GreatestNat
<1>4. m \in 0..n
  BY <1>1, <1>3
<1>5. m < n
  <2>1. n \notin K
    BY <1>1 DEF Top
  <2> QED
    BY <2>1, <1>1, <1>3, <1>4
<1>6. Pop(s) = SubSeq(s, 1, m)
  BY DEF Pop
<1>7. /\ SubSeq(s, 1, m) \in Seq(Boundary)
      /\ Len(SubSeq(s, 1, m)) = m
      /\ \A i \in 1..m : SubSeq(s, 1, m)[i] = s[i]
  <2>1. \A i \in 1..m : s[i] \in Boundary
    BY <1>1, <1>4, ListFacts
  <2> HIDE DEF m
  <2>2. /\ SubSeq(s, 1, m) \in Seq(Boundary)
        /\ Len(SubSeq(s, 1, m)) = IF 1 <= m THEN m - 1 + 1 ELSE 0
        /\ \A i \in 1..m - 1 + 1 : SubSeq(s, 1, m)[i] = s[1 + i - 1]
    BY <2>1, <1>4, <1>1, SubSeqProperties
  <2> QED
    BY <2>2, <1>4, <1>1
<1>8. ASSUME NEW i \in 1..m PROVE s[i].addr > Top(s).addr
  <2>1. m \in DOMAIN s /\ s[m].addr # s[n].addr
    BY <1>3, <1>4, <1>1 DEF Top
  <2>2. s[i].addr >= s[m].addr /\ s[m].addr >= s[n].addr
    BY <2>1, <1>1, <1>4 DEF Falls
  <2>3. s[i].addr \in Nat /\ s[m].addr \in Nat /\ s[n].addr \in Nat
    BY <1>1, <1>2, <1>4
  <2> QED
    BY <2>1, <2>2, <2>3 DEF Top
<1>9. ASSUME NEW i \in 1..n, i > m PROVE s[i].addr = Top(s).addr
  <2>1. i \notin K
    BY <1>3, <1>4, <1>9, <1>1
  <2> QED
    BY <2>1, <1>1
<1> HIDE DEF K, m
<1> QED
  BY <1>5, <1>6, <1>7, <1>8, <1>9

\* Push puts a boundary behind those that are not below it.
LEMMA PushFacts ==
  ASSUME NEW s \in Seq(Boundary), NEW b \in Boundary, Falls(s)
  PROVE  /\ Push(s, b) \in Seq(Boundary)
         /\ Len(Push(s, b)) = Len(s) + 1
         /\ \E k \in 0..Len(s) :
              /\ \A i \in 1..Len(s) + 1 :
                   Push(s, b)[i] = IF i <= k THEN s[i] ELSE IF i = k + 1 THEN b ELSE s[i - 1]
              /\ \A i \in 1..k : s[i].addr >= b.addr
              /\ \A i \in 1..Len(s) : i > k => s[i].addr < b.addr
<1> DEFINE n == Len(s)
           K == {0} \cup {i \in DOMAIN s : s[i].addr >= b.addr}
           k == Max(K)
<1>1. n \in Nat /\ DOMAIN s = 1..n
  BY ListFacts
<1>2. b.addr \in Nat /\ \A i \in 1..n : s[i].addr \in Nat
  BY ListFacts, WordsAreNumbers DEF WordFacts, Boundary
<1>3. k \in K /\ \A i \in K : i <= k
  <2>1. K \in SUBSET Nat /\ K # {} /\ \A i \in K : i <= n
    BY <1>1
  <2> HIDE DEF K, n
  <2> QED
    BY <2>1, <1>1, GreatestNat
<1>4. k \in 0..n
  BY <1>1, <1>3
<1>5. Push(s, b) = SubSeq(s, 1, k) \o <<b>> \o SubSeq(s, k + 1, n)
  BY DEF Push
<1>6. ASSUME NEW i \in 1..k PROVE s[i].addr >= b.addr
  <2>1. k \in DOMAIN s /\ s[k].addr >= b.addr
    BY <1>3, <1>4, <1>1
  <2>2. s[i].addr >= s[k].addr
    BY <2>1, <1>1, <1>4 DEF Falls
  <2>3. s[i].addr \in Nat /\ s[k].addr \in Nat
    BY <1>1, <1>2, <1>4
  <2> QED
    BY <2>1, <2>2, <2>3, <1>2
<1>7. ASSUME NEW i \in 1..n, i > k PROVE s[i].addr < b.addr
  <2>1. i \notin K
    BY <1>3, <1>4, <1>7, <1>1
  <2>2. ~ (s[i].addr >= b.addr)
    BY <2>1, <1>1
  <2> QED
    BY <2>2, <1>2
<1> HIDE DEF k, K
<1> DEFINE p == SubSeq(s, 1, k)
           q == SubSeq(s, k + 1, n)
<1>8. /\ p \in Seq(Boundary) /\ Len(p) = k
      /\ \A i \in 1..k : p[i] = s[i]
  <2>1. \A i \in 1..k : s[i] \in Boundary
    BY <1>1, <1>4, ListFacts
  <2>2. /\ p \in Seq(Boundary)
        /\ Len(p) = IF 1 <= k THEN k - 1 + 1 ELSE 0
        /\ \A i \in 1..k - 1 + 1 : p[i] = s[1 + i - 1]
    BY <2>1, <1>4, <1>1, SubSeqProperties
  <2> QED
    BY <2>2, <1>4, <1>1
<1>9. /\ q \in Seq(Boundary) /\ Len(q) = n - k
      /\ \A i \in 1..n - k : q[i] = s[k + i]
  <2>1. \A i \in k + 1..n : s[i] \in Boundary
    BY <1>1, <1>4, ListFacts
  <2>2. /\ q \in Seq(Boundary)
        /\ Len(q) = IF k + 1 <= n THEN n - (k + 1) + 1 ELSE 0
        /\ \A i \in 1..n - (k + 1) + 1 : q[i] = s[k + 1 + i - 1]
    BY <2>1, <1>4, <1>1, SubSeqProperties
  <2> QED
    BY <2>2, <1>4, <1>1
<1>10. <<b>> \in Seq(Boundary) /\ Len(<<b>>) = 1 /\ <<b>>[1] = b
  OBVIOUS
<1> HIDE DEF p, q
<1>11. /\ p \o <<b>> \in Seq(Boundary)
       /\ Len(p \o <<b>>) = k + 1
       /\ \A i \in 1..k + 1 : (p \o <<b>>)[i] = IF i <= k THEN p[i] ELSE <<b>>[i - k]
  BY <1>8, <1>10, ConcatProperties
<1> DEFINE r == p \o <<b>>
<1>12. \A i \in 1..k + 1 : r[i] = IF i <= k THEN s[i] ELSE b
  BY <1>11, <1>8, <1>10, <1>4, <1>1
<1> HIDE DEF r
<1>13. r \in Seq(Boundary) /\ Len(r) = k + 1
  BY <1>11 DEF r
<1>14. /\ r \o q \in Seq(Boundary)
       /\ Len(r \o q) = Len(r) + Len(q)
       /\ \A i \in 1..Len(r) + Len(q) : (r \o q)[i] = IF i <= Len(r) THEN r[i] ELSE q[i - Len(r)]
  BY <1>9, <1>13, ConcatProperties
<1>15. Push(s, b) = r \o q
  BY <1>5 DEF r, p, q
<1>16. ASSUME NEW i \in 1..n + 1
       PROVE  (r \o q)[i] = IF i <= k THEN s[i] ELSE IF i = k + 1 THEN b ELSE s[i - 1]
  <2>1. (r \o q)[i] = IF i <= k + 1 THEN r[i] ELSE q[i - (k + 1)]
    BY <1>14, <1>13, <1>9, <1>4, <1>1
  <2>2. ASSUME i <= k + 1 PROVE (r \o q)[i] = IF i <= k THEN s[i] ELSE b
    <3>1. i \in 1..k + 1
      BY <2>2, <1>4, <1>1
    <3>2. r[i] = IF i <= k THEN s[i] ELSE b
      BY <3>1, <1>12
    <3> QED
      BY <2>1, <2>2, <3>2
  <2>3. ASSUME ~ (i <= k + 1) PROVE (r \o q)[i] = s[i - 1]
    <3>1. i - (k + 1) \in 1..n - k /\ k + (i - (k + 1)) = i - 1
      BY <2>3, <1>4, <1>1
    <3>2. q[i - (k + 1)] = s[i - 1]
      BY <3>1, <1>9
    <3> QED
      BY <2>1, <3>2, <2>3
  <2>4. /\ i <= k => i <= k + 1 /\ i # k + 1
        /\ i = k + 1 => i <= k + 1 /\ ~ (i <= k)
        /\ i <= k + 1 => i <= k \/ i = k + 1
    BY <1>4, <1>1
  <2> QED
    BY <2>2, <2>3, <2>4, Zenon
<1>17. Len(r \o q) = n + 1
  BY <1>14, <1>13, <1>9, <1>4, <1>1
<1> QED
  BY <1>4, <1>6, <1>7, <1>14, <1>15, <1>16, <1>17

-----------------------------------------------------------------------------
(* Looking up an address *)

\* What a lookup makes of a boundary.
Answer(b, a) == IF End(syms[b.id]) <= a THEN NoSym ELSE b.id

\* The last boundary at or before an address decides.
LEMMA LookUpAt ==
  ASSUME NEW index \in Seq(Boundary), Rising(index), NEW a \in Word,
         NEW j \in 1..Len(index), index[j].addr <= a,
         \A i \in 1..Len(index) : i > j => a < index[i].addr
  PROVE  LookUp(index, a) = Answer(index[j], a)
<1> DEFINE n == Len(index)
           after == {i \in DOMAIN index : a < index[i].addr}
           h == (IF after = {} THEN n + 1 ELSE Min(after)) - 1
<1>1. n \in Nat /\ DOMAIN index = 1..n
  BY ListFacts
<1>2. a \in Nat /\ \A i \in 1..n : index[i].addr \in Nat
  BY ListFacts, WordsAreNumbers DEF WordFacts
<1>3. \A i \in 1..n : i \in after <=> i > j
  <2>1. ASSUME NEW i \in 1..n, i \in after PROVE i > j
    <3>1. i # j
      BY <2>1, <1>2
    <3>2. i < j => index[i].addr < index[j].addr
      BY <1>1 DEF Rising
    <3> QED
      BY <2>1, <3>1, <3>2, <1>1, <1>2
  <2> QED
    BY <2>1, <1>1
<1>4. h = j
  <2>1. CASE j = n
    BY <2>1, <1>1, <1>3
  <2>2. CASE j < n
    <3>1. j + 1 \in after /\ after \in SUBSET Nat
      BY <2>2, <1>1, <1>3
    <3>2. Min(after) \in after /\ \A y \in after : Min(after) <= y
      BY <3>1, LeastNat
    <3>3. PICK l \in 1..n : l = Min(after) /\ l > j /\ l <= j + 1
      BY <3>1, <3>2, <1>1, <1>3
    <3>4. l = j + 1 /\ l - 1 = j
      <4> HIDE DEF n
      <4> QED
        BY <3>3, <1>1
    <3> QED
      BY <3>1, <3>3, <3>4
  <2>3. j = n \/ j < n
    <3> HIDE DEF n
    <3> QED
      BY <1>1
  <2> HIDE DEF h
  <2> QED
    BY <2>1, <2>2, <2>3
<1>5. LookUp(index, a) = IF h = 0 THEN NoSym
                         ELSE IF End(syms[index[h].id]) <= a THEN NoSym
                         ELSE index[h].id
  BY DEF LookUp
<1> HIDE DEF h
<1> QED
  BY <1>1, <1>4, <1>5 DEF Answer

LEMMA LookUpBelow ==
  ASSUME NEW index \in Seq(Boundary), NEW a \in Word,
         \A i \in 1..Len(index) : a < index[i].addr
  PROVE  LookUp(index, a) = NoSym
<1> DEFINE n == Len(index)
           after == {i \in DOMAIN index : a < index[i].addr}
           h == (IF after = {} THEN n + 1 ELSE Min(after)) - 1
<1>1. n \in Nat /\ DOMAIN index = 1..n
  BY ListFacts
<1>2. after = 1..n
  BY <1>1
<1>3. h = 0
  <2>1. CASE n = 0
    BY <2>1, <1>2
  <2>2. CASE n # 0
    <3>1. 1 \in after /\ after \in SUBSET Nat
      BY <2>2, <1>1, <1>2
    <3>2. Min(after) \in after /\ \A y \in after : Min(after) <= y
      BY <3>1, LeastNat
    <3>3. Min(after) \in 1..n /\ Min(after) <= 1
      BY <3>1, <3>2, <1>2
    <3> HIDE DEF after
    <3> QED
      BY <3>1, <3>3, <1>1
  <2> QED
    BY <2>1, <2>2
<1> QED
  BY <1>3 DEF LookUp

LEMMA EmptyIndex == \A a \in Word : LookUp(<<>>, a) = NoSym
<1> TAKE a \in Word
<1>1. <<>> \in Seq(Boundary) /\ Len(<<>>) = 0
  BY EmptySeq
<1>2. 1..Len(<<>>) = {}
  BY <1>1
<1> QED
  BY <1>1, <1>2, LookUpBelow

\* An address is before all boundaries, or one is the last at or before it.
LEMMA LookUpCases ==
  ASSUME NEW index \in Seq(Boundary), Rising(index), NEW a \in Word
  PROVE  \/ \A i \in 1..Len(index) : a < index[i].addr
         \/ \E j \in 1..Len(index) :
              /\ index[j].addr <= a
              /\ \A i \in 1..Len(index) : i > j => a < index[i].addr
<1> DEFINE n == Len(index)
           upto == {i \in 1..n : index[i].addr <= a}
<1>1. n \in Nat /\ a \in Nat /\ \A i \in 1..n : index[i].addr \in Nat
  BY ListFacts, WordsAreNumbers DEF WordFacts
<1>2. CASE upto = {}
  BY <1>1, <1>2
<1>3. CASE upto # {}
  <2>1. Max(upto) \in upto /\ \A y \in upto : y <= Max(upto)
    <3>1. upto \in SUBSET Nat /\ \A y \in upto : y <= n
      BY <1>1
    <3> HIDE DEF upto, n
    <3> QED
      BY <3>1, <1>1, <1>3, GreatestNat
  <2>2. PICK j \in 1..n : j = Max(upto) /\ index[j].addr <= a
    BY <2>1
  <2>3. ASSUME NEW i \in 1..n, i > j PROVE a < index[i].addr
    <3>1. i \notin upto
      BY <2>1, <2>2, <2>3
    <3> QED
      BY <3>1, <1>1
  <2> QED
    BY <2>2, <2>3
<1> QED
  BY <1>2, <1>3

\* Beyond the last boundary, that one decides.
LEMMA LookUpLast ==
  ASSUME NEW index \in Seq(Boundary), Rising(index), index # <<>>, NEW a \in Word,
         Top(index).addr <= a
  PROVE  LookUp(index, a) = Answer(Top(index), a)
<1>1. Len(index) \in 1..Len(index) /\ \A i \in 1..Len(index) : ~ (i > Len(index))
  BY ListFacts
<1> QED
  BY <1>1, LookUpAt DEF Top

\* An index that agrees with another on the boundaries up to an address, and has
\* no others there, answers the same.
LEMMA LookUpSame ==
  ASSUME NEW index \in Seq(Boundary), Rising(index), NEW a \in Word,
         NEW longer \in Seq(Boundary), Rising(longer),
         NEW m \in Nat, m <= Len(index), m <= Len(longer),
         \A i \in 1..m : longer[i] = index[i],
         \A i \in 1..Len(index) : i > m => a < index[i].addr,
         \A i \in 1..Len(longer) : i > m => a < longer[i].addr
  PROVE  LookUp(longer, a) = LookUp(index, a)
<1>1. Len(index) \in Nat /\ Len(longer) \in Nat
  BY ListFacts
<1>2. a \in Nat /\ (\A i \in 1..Len(index) : index[i].addr \in Nat)
                /\ (\A i \in 1..Len(longer) : longer[i].addr \in Nat)
  BY ListFacts, WordsAreNumbers DEF WordFacts
<1>3. CASE \A i \in 1..Len(index) : a < index[i].addr
  <2>1. ASSUME NEW i \in 1..Len(longer) PROVE a < longer[i].addr
    BY <1>3, <1>1
  <2> QED
    BY <1>3, <2>1, LookUpBelow
<1>4. ASSUME NEW j \in 1..Len(index), index[j].addr <= a,
             \A i \in 1..Len(index) : i > j => a < index[i].addr
      PROVE  LookUp(longer, a) = LookUp(index, a)
  <2>1. j \in 1..m
    BY <1>4, <1>1, <1>2
  <2>2. j \in 1..Len(longer) /\ longer[j] = index[j]
    BY <2>1, <1>1
  <2>3. ASSUME NEW i \in 1..Len(longer), i > j PROVE a < longer[i].addr
    BY <2>3, <1>4, <1>1, <2>1
  <2>4. LookUp(longer, a) = Answer(longer[j], a)
    BY <2>2, <2>3, <1>4, LookUpAt
  <2>5. LookUp(index, a) = Answer(index[j], a)
    BY <1>4, LookUpAt
  <2> QED
    BY <2>2, <2>4, <2>5
<1> QED
  BY <1>3, <1>4, LookUpCases

\* Putting a boundary on an index changes nothing below its address.
LEMMA AddBoundaryFacts ==
  ASSUME NEW index \in Seq(Boundary), Rising(index), NEW b \in Boundary,
         index # <<>> => Top(index).addr <= b.addr
  PROVE  LET new == AddBoundary(index, b)
         IN /\ new \in Seq(Boundary) /\ new # <<>> /\ Rising(new) /\ Top(new) = b
            /\ \A a \in Word : a < b.addr => LookUp(new, a) = LookUp(index, a)
<1> DEFINE n == Len(index)
           new == AddBoundary(index, b)
<1>1. n \in Nat /\ DOMAIN index = 1..n /\ (index = <<>> <=> n = 0)
  BY ListFacts
<1>2. b.addr \in Nat /\ \A i \in 1..n : index[i].addr \in Nat
  BY ListFacts, WordsAreNumbers DEF WordFacts, Boundary
<1>3. \A a \in Word : a \in Nat
  BY WordsAreNumbers DEF WordFacts
<1>4. CASE index # <<>> /\ Top(index).addr = b.addr
  <2>1. new = [index EXCEPT ![n] = b] /\ n \in 1..n
    BY <1>1, <1>4 DEF AddBoundary
  <2>2. /\ new \in Seq(Boundary) /\ Len(new) = n
        /\ \A i \in 1..n : new[i] = IF i = n THEN b ELSE index[i]
    BY <2>1, ExceptSeq
  <2>3. new # <<>> /\ Top(new) = b
    <3>1. new # <<>>
      BY <2>1, <2>2, ListFacts
    <3> HIDE DEF new
    <3> QED
      BY <3>1, <2>1, <2>2 DEF Top
  <2>4. \A i \in 1..n : new[i].addr = index[i].addr
    BY <2>2, <1>4 DEF Top
  <2>5. Rising(new)
    <3>1. DOMAIN new = 1..n
      BY <2>2, ListFacts
    <3> HIDE DEF new
    <3> QED
      BY <3>1, <2>4, <1>1 DEF Rising
  <2>6. ASSUME NEW a \in Word, a < b.addr PROVE LookUp(new, a) = LookUp(index, a)
    <3>1. n - 1 \in Nat /\ n - 1 <= n
      BY <2>1, <1>1
    <3>2. \A i \in 1..n - 1 : new[i] = index[i]
      BY <2>2, <1>1
    <3>3. \A i \in 1..n : i > n - 1 => i = n
      <4> HIDE DEF n
      <4> QED
        BY <1>1
    <3>4. a < index[n].addr /\ a < new[n].addr
      BY <2>6, <2>1, <2>4, <1>4 DEF Top
    <3> HIDE DEF new
    <3> QED
      BY <3>1, <3>2, <3>3, <3>4, <2>2, <2>5, LookUpSame
  <2> QED
    BY <2>2, <2>3, <2>5, <2>6
<1>5. CASE ~ (index # <<>> /\ Top(index).addr = b.addr)
  <2>1. new = Append(index, b)
    BY <1>5 DEF AddBoundary
  <2>2. /\ new \in Seq(Boundary) /\ Len(new) = n + 1
        /\ \A i \in 1..n : new[i] = index[i]
        /\ new[n + 1] = b
    BY <2>1, AppendProperties
  <2>3. DOMAIN new = 1..n + 1 /\ new # <<>> /\ Top(new) = b
    <3>1. DOMAIN new = 1..n + 1 /\ new # <<>>
      BY <2>2, <1>1, ListFacts
    <3> HIDE DEF new
    <3> QED
      BY <3>1, <2>2 DEF Top
  <2>4. \A i \in 1..n : index[i].addr < b.addr
    <3>1. ASSUME NEW i \in 1..n PROVE index[i].addr < b.addr
      <4>1. n \in 1..n /\ index[n].addr < b.addr
        BY <1>1, <1>2, <1>5 DEF Top
      <4>2. i < n => index[i].addr < index[n].addr
        BY <4>1, <1>1 DEF Rising
      <4> QED
        BY <4>1, <4>2, <1>1, <1>2
    <3> QED
      BY <3>1
  <2>5. Rising(new)
    <3> SUFFICES ASSUME NEW i \in 1..n + 1, NEW j \in 1..n + 1, i < j
                 PROVE  new[i].addr < new[j].addr
      BY <2>3 DEF Rising
    <3>1. i \in 1..n
      BY <1>1
    <3>2. CASE j = n + 1
      BY <3>1, <3>2, <2>2, <2>4
    <3>3. CASE j \in 1..n
      BY <3>1, <3>3, <2>2, <1>1 DEF Rising
    <3> QED
      BY <3>2, <3>3, <1>1
  <2>6. ASSUME NEW a \in Word, a < b.addr PROVE LookUp(new, a) = LookUp(index, a)
    <3>1. n <= n /\ n <= Len(new) /\ \A i \in 1..n : ~ (i > n)
      BY <2>2, <1>1
    <3>2. \A i \in 1..Len(new) : i > n => i = n + 1
      BY <2>2, <1>1
    <3> HIDE DEF new
    <3> QED
      BY <3>1, <3>2, <2>2, <2>5, <2>6, <1>1, LookUpSame
  <2> QED
    BY <2>2, <2>3, <2>5, <2>6
<1> QED
  BY <1>4, <1>5

\* NewTable only reads the symbols, so what it has established stays.
LEMMA SameTable ==
  ASSUME syms' = syms
  PROVE  /\ ID' = ID /\ Boundary' = Boundary
         /\ NoneWraps' = NoneWraps
         /\ IsTable(syms) => IsTable(syms)'
         /\ \A i, j : Before(i, j)' = Before(i, j)
         /\ \A k : SymsOf(k)' = SymsOf(k) /\ Laminar(k)' = Laminar(k)
         /\ \A k, index, a : Right(k, index, a)' = Right(k, index, a)
<1>1. ID' = ID /\ Boundary' = Boundary
  BY DEF ID, Boundary
<1>2. NoneWraps' = NoneWraps
  BY DEF NoneWraps, ID
<1>3. IsTable(syms) => IsTable(syms)'
  BY DEF IsTable, IsSymbol
<1>4. \A i, j : Before(i, j)' = Before(i, j)
  BY DEF Before
<1>5. \A k : SymsOf(k)' = SymsOf(k)
  BY DEF SymsOf, ID
<1>6. \A k : Laminar(k)' = Laminar(k)
  BY <1>5 DEF Laminar
<1>7. \A k, a : Containing(k, a)' = Containing(k, a)
  BY <1>5 DEF Containing
<1>8. \A index, a : LookUp(index, a)' = LookUp(index, a)
  BY DEF LookUp, End
<1>9. \A S : Preferred(S)' = Preferred(S)
  BY <1>4 DEF Preferred
<1>10. ASSUME NEW k, NEW index, NEW a PROVE Right(k, index, a)' = Right(k, index, a)
  BY <1>6, <1>7, <1>8, <1>9 DEF Right
<1> QED
  BY <1>1, <1>2, <1>3, <1>4, <1>5, <1>6, <1>10

LEMMA SameLimit ==
  ASSUME syms' = syms, ids' = ids
  PROVE  Limit' = Limit
<1>1. \A i, j : Before(i, j)' = Before(i, j)
  BY SameTable
<1>2. First' = First
  BY <1>1 DEF First
<1> QED
  BY <1>2 DEF Limit

-----------------------------------------------------------------------------
(* The index of a section *)

\* What holds while a section is indexed.
Indexing ==
  /\ TypeOK
  /\ todo[key] = SymsOf(key) /\ ids \subseteq todo[key]
  /\ StackOK

LEMMA IndexingFacts ==
  ASSUME Indexing
  PROVE  /\ IsTable(syms)
         /\ ids \subseteq ID /\ Begun \subseteq ID /\ OnStack \subseteq Begun
         /\ Limit \in Word /\ \A j \in ids : Limit <= syms[j].value
         /\ stack \in Seq(Boundary) /\ out \in Seq(Boundary)
         /\ Falls(stack)
         /\ \A i \in Begun \cup ids : syms[i].size # 0
<1>1. /\ IsTable(syms) /\ ids \subseteq ID /\ Begun \subseteq ID
      /\ stack \in Seq(Boundary) /\ out \in Seq(Boundary)
  BY DEF Indexing, TypeOK, Begun, SymsOf
<1>2. OnStack \subseteq Begun /\ Falls(stack)
  BY DEF Indexing, StackOK, OnStack, Falls
<1>3. \A i \in Begun \cup ids : syms[i].size # 0
  BY DEF Indexing, Begun, SymsOf
<1> QED
  BY <1>1, <1>2, <1>3, LimitRight

\* From the last boundary up to the next event the index is right.
LEMMA RightAt ==
  ASSUME Indexing, NoneWraps, IndexOK, out # <<>>,
         NEW a \in Word, Top(out).addr <= a,
         \A j \in ids : a < syms[j].value,
         stack # <<>> => a < Top(stack).addr
  PROVE  Right(key, out, a)
<1> DEFINE x == Top(out).id
           low == Top(out).addr
           S == Containing(key, a)
<1>1. /\ IsTable(syms) /\ ids \subseteq ID /\ Begun \subseteq ID
      /\ stack \in Seq(Boundary) /\ out \in Seq(Boundary) /\ Falls(stack)
  BY IndexingFacts
<1>2. Rising(out) /\ LastOK
  BY DEF IndexOK
<1>3. x \in Begun /\ \A i \in Begun : syms[i].value <= low
  BY <1>2 DEF LastOK
<1>4. \A i \in ID : /\ syms[i].value \in Nat /\ End(syms[i]) \in Nat
                    /\ End(syms[i]) = syms[i].value + syms[i].size
  BY <1>1, SymFacts, WordsAreNumbers DEF WordFacts
<1>5. a \in Nat /\ low \in Nat
  <2>1. Len(out) \in 1..Len(out)
    BY <1>1, ListFacts
  <2> QED
    BY <2>1, <1>1, ListFacts, WordsAreNumbers DEF WordFacts, Top
<1>6. ASSUME NEW i \in S PROVE i \in Begun /\ End(syms[i]) > a
  <2>1. i \in SymsOf(key) /\ syms[i].value <= a /\ a < syms[i].value + syms[i].size
    BY DEF Containing
  <2>2. i \in ID
    BY <2>1 DEF SymsOf
  <2>3. i \notin ids
    BY <2>1, <2>2, <1>4, <1>5
  <2> QED
    BY <2>1, <2>2, <2>3, <1>4 DEF Indexing, Begun
<1>7. LookUp(out, a) = Answer(Top(out), a)
  BY <1>1, <1>2, LookUpLast
<1>8. CASE End(syms[x]) <= a
  <2>1. stack = <<>>
    <3>1. SUFFICES ASSUME stack # <<>> PROVE FALSE
      OBVIOUS
    <3>2. PICK p \in DOMAIN stack : stack[p].id = x
      BY <1>2, <3>1 DEF LastOK, OnStack
    <3>3. stack[p].addr = End(syms[x])
      BY <3>2 DEF Indexing, StackOK
    <3>4. p \in 1..Len(stack) /\ Len(stack) \in 1..Len(stack) /\ DOMAIN stack = 1..Len(stack)
      BY <3>1, <3>2, <1>1, ListFacts
    <3>5. stack[p].addr >= Top(stack).addr
      BY <3>4, <1>1 DEF Falls, Top
    <3>6. Top(stack).addr \in Nat
      BY <3>4, <1>1, ListFacts, WordsAreNumbers DEF WordFacts, Top
    <3> QED
      BY <3>1, <3>3, <3>5, <3>6, <1>3, <1>1, <1>4, <1>5, <1>8
  <2>2. \A i \in Begun : End(syms[i]) <= End(syms[x])
    BY <2>1, <1>2 DEF LastOK
  <2>3. S = {}
    <3>1. ASSUME NEW i \in S PROVE FALSE
      BY <1>6, <2>2, <1>8, <1>3, <1>1, <1>4, <1>5
    <3> QED
      BY <3>1
  <2> QED
    BY <1>7, <1>8, <2>3 DEF Right, Answer
<1>9. CASE ~ (End(syms[x]) <= a)
  <2>1. x \in S
    <3>1. x \in SymsOf(key) /\ x \in ID
      BY <1>3, <1>1 DEF Indexing, Begun
    <3>2. syms[x].value <= a
      BY <3>1, <1>3, <1>4, <1>5
    <3>3. a < syms[x].value + syms[x].size
      BY <3>1, <1>9, <1>4, <1>5
    <3> QED
      BY <3>1, <3>2, <3>3 DEF Containing
  <2>2. LookUp(out, a) = x
    BY <1>7, <1>9 DEF Answer
  <2>3. ASSUME Laminar(key) PROVE x = Preferred(S)
    <3>1. ASSUME NEW i \in S \ {x} PROVE Before(i, x)
      <4>1. i \in Begun /\ End(syms[i]) > low
        BY <1>6, <1>1, <1>4, <1>5
      <4> QED
        BY <4>1, <2>3, <1>2 DEF LastOK
    <3>2. S \subseteq ID
      BY DEF Containing, SymsOf
    <3> HIDE DEF S, x
    <3> QED
      BY <3>1, <3>2, <2>1, <1>1, PreferredIs
  <2> QED
    BY <2>1, <2>2, <2>3 DEF Right
<1> QED
  BY <1>8, <1>9

\* What draining leaves on the stack, and what it takes off.
LEMMA Drains ==
  ASSUME Indexing, DrainStack
  PROVE  /\ stack # <<>> /\ Top(stack).addr \in Word /\ Top(stack).addr <= Limit
         /\ stack' \in Seq(Boundary)
         /\ Len(stack') < Len(stack)
         /\ \A i \in 1..Len(stack') : stack'[i] = stack[i] /\ stack[i].addr > Top(stack).addr
         /\ \A i \in Begun : \/ \E p \in 1..Len(stack') : stack'[p].id = i
                             \/ i \in OnStack /\ End(syms[i]) = Top(stack).addr
                             \/ i \notin OnStack
<1>1. /\ IsTable(syms) /\ Limit \in Word
      /\ stack \in Seq(Boundary) /\ Falls(stack)
  BY IndexingFacts
<1>2. stack # <<>> /\ ~ (Top(stack).addr > Limit) /\ stack' = Pop(stack)
  BY DEF DrainStack, Drained
<1>3. Len(stack) \in 1..Len(stack) /\ DOMAIN stack = 1..Len(stack)
  BY <1>1, <1>2, ListFacts
<1>4. Top(stack).addr \in Word
  BY <1>1, <1>3, ListFacts DEF Top
<1>5. Top(stack).addr <= Limit
  <2>1. Top(stack).addr \in Nat /\ Limit \in Nat
    BY <1>1, <1>4, WordsAreNumbers DEF WordFacts
  <2> QED
    BY <1>2, <2>1
<1>6. /\ Pop(stack) \in Seq(Boundary)
      /\ Len(Pop(stack)) < Len(stack)
      /\ \A i \in 1..Len(Pop(stack)) : Pop(stack)[i] = stack[i] /\ stack[i].addr > Top(stack).addr
      /\ \A i \in 1..Len(stack) : i > Len(Pop(stack)) => stack[i].addr = Top(stack).addr
  BY <1>1, <1>2, PopFacts
<1>7. Len(Pop(stack)) \in Nat
  BY <1>6, ListFacts
<1>8. ASSUME NEW i \in OnStack
      PROVE  \/ \E p \in 1..Len(stack') : stack'[p].id = i
             \/ End(syms[i]) = Top(stack).addr
  <2>1. PICK p \in 1..Len(stack) : stack[p].id = i
    BY <1>3 DEF OnStack
  <2>2. stack[p].addr = End(syms[i])
    BY <2>1, <1>3 DEF Indexing, StackOK
  <2>3. CASE p <= Len(Pop(stack))
    <3>1. p \in 1..Len(Pop(stack))
      BY <2>3, <1>7
    <3> QED
      BY <3>1, <2>1, <1>6, <1>2
  <2>4. CASE p > Len(Pop(stack))
    BY <2>1, <2>2, <2>4, <1>6
  <2> QED
    BY <2>3, <2>4, <1>7
<1> QED
  BY <1>2, <1>4, <1>5, <1>6, <1>8

LEMMA DrainIndexing ==
  ASSUME Indexing, DrainStack
  PROVE  Indexing'
<1> DEFINE e == Top(stack).addr
<1>1. /\ stack # <<>> /\ e \in Word /\ e <= Limit
      /\ stack' \in Seq(Boundary)
      /\ Len(stack') < Len(stack)
      /\ \A i \in 1..Len(stack') : stack'[i] = stack[i] /\ stack[i].addr > e
      /\ \A i \in Begun : \/ \E p \in 1..Len(stack') : stack'[p].id = i
                          \/ i \in OnStack /\ End(syms[i]) = e
                          \/ i \notin OnStack
  BY Drains
<1>2. /\ syms' = syms /\ names' = names /\ todo' = todo /\ sections' = sections
      /\ key' = key /\ ids' = ids /\ pc' = pc
  BY DEF DrainStack
<1>3. ID' = ID /\ Boundary' = Boundary /\ IsTable(syms)' /\ Limit' = Limit
      /\ (\A i, j : Before(i, j)' = Before(i, j)) /\ SymsOf(key)' = SymsOf(key)
  BY <1>2, SameTable, SameLimit, IndexingFacts
<1>4. Begun' = Begun
  BY <1>2 DEF Begun
<1>5. /\ Len(stack') \in Nat /\ DOMAIN stack' = 1..Len(stack')
      /\ Len(stack) \in Nat /\ DOMAIN stack = 1..Len(stack)
      /\ stack \in Seq(Boundary) /\ out \in Seq(Boundary)
  BY <1>1, ListFacts, IndexingFacts
<1>6. out' \in Seq(Boundary)
  <2>1. CASE stack' = <<>>
    BY <2>1, <1>5 DEF DrainStack
  <2>2. CASE stack' # <<>>
    <3>1. Len(stack') \in 1..Len(stack')
      BY <2>2, <1>1, ListFacts
    <3>2. Top(stack').id \in ID
      BY <3>1, <1>1, ListFacts DEF Top
    <3>3. [addr |-> e, id |-> Top(stack').id] \in Boundary
      BY <3>2, <1>1 DEF Boundary
    <3>4. out' = Append(out, [addr |-> e, id |-> Top(stack').id])
      BY <2>2 DEF DrainStack
    <3> QED
      BY <3>3, <3>4, <1>5, AppendProperties
  <2> QED
    BY <2>1, <2>2
<1>7. TypeOK'
  BY <1>1, <1>2, <1>3, <1>6 DEF Indexing, TypeOK, Key, ID
<1>8. StackOK'
  <2>1. \A i, j \in DOMAIN stack' : i <= j => stack'[i].addr >= stack'[j].addr
    BY <1>1, <1>5 DEF Indexing, StackOK
  <2>2. \A i \in DOMAIN stack' : stack'[i].id \in Begun /\ stack'[i].addr = End(syms[stack'[i].id])
    BY <1>1, <1>5 DEF Indexing, StackOK
  <2>3. ASSUME NEW i \in Begun PROVE i \in OnStack' \/ End(syms[i]) <= Limit
    <3>1. i \notin OnStack => End(syms[i]) <= Limit
      BY DEF Indexing, StackOK
    <3>2. (\E p \in 1..Len(stack') : stack'[p].id = i) => i \in OnStack'
      BY <1>5 DEF OnStack
    <3> QED
      BY <3>1, <3>2, <1>1
  <2>4. \A i \in Begun, j \in ids : Before(i, j)
    BY DEF Indexing, StackOK
  <2> QED
    BY <2>1, <2>2, <2>3, <2>4, <1>2, <1>3, <1>4 DEF StackOK, End
<1> QED
  BY <1>2, <1>3, <1>7, <1>8 DEF Indexing

LEMMA DrainIndexOK ==
  ASSUME Indexing, NoneWraps, IndexOK, DrainStack
  PROVE  IndexOK'
<1> DEFINE e == Top(stack).addr
           x == Top(out).id
           low == Top(out).addr
<1>1. /\ stack # <<>> /\ e \in Word /\ e <= Limit
      /\ stack' \in Seq(Boundary)
      /\ Len(stack') < Len(stack)
      /\ \A i \in 1..Len(stack') : stack'[i] = stack[i] /\ stack[i].addr > e
      /\ \A i \in Begun : \/ \E p \in 1..Len(stack') : stack'[p].id = i
                          \/ i \in OnStack /\ End(syms[i]) = e
                          \/ i \notin OnStack
  BY Drains
<1>2. /\ syms' = syms /\ names' = names /\ todo' = todo /\ sections' = sections
      /\ key' = key /\ ids' = ids /\ pc' = pc
  BY DEF DrainStack
<1>3. /\ ID' = ID /\ Boundary' = Boundary /\ Limit' = Limit
      /\ \A i, j : Before(i, j)' = Before(i, j)
      /\ Laminar(key)' = Laminar(key)
      /\ \A index, a : Right(key, index, a)' = Right(key, index, a)
  BY <1>2, SameTable, SameLimit
<1>4. Begun' = Begun
  BY <1>2 DEF Begun
<1>5. /\ Len(stack') \in Nat /\ DOMAIN stack' = 1..Len(stack')
      /\ Len(stack) \in 1..Len(stack) /\ DOMAIN stack = 1..Len(stack)
      /\ stack \in Seq(Boundary) /\ out \in Seq(Boundary)
  BY <1>1, ListFacts, IndexingFacts
<1>6. /\ IsTable(syms) /\ ids \subseteq ID /\ Begun \subseteq ID /\ OnStack \subseteq Begun
      /\ Limit \in Word /\ \A j \in ids : Limit <= syms[j].value
  BY IndexingFacts
<1>7. \A i \in ID : /\ syms[i].value \in Nat /\ End(syms[i]) \in Nat
                    /\ End(syms[i]) = syms[i].value + syms[i].size
  BY <1>6, SymFacts, WordsAreNumbers DEF WordFacts
<1>8. e \in Nat /\ Limit \in Nat
  BY <1>1, <1>6, WordsAreNumbers DEF WordFacts
<1>9. out # <<>>
  <2>1. stack[Len(stack)].id \in Begun
    BY <1>5 DEF Indexing, StackOK
  <2> QED
    BY <2>1 DEF IndexOK
<1>10. Rising(out) /\ LastOK
  BY <1>9 DEF IndexOK
<1>11. low \in Nat /\ e > low
  <2>1. Len(out) \in 1..Len(out)
    BY <1>9, <1>5, ListFacts
  <2>2. low \in Word
    BY <2>1, <1>5, ListFacts DEF Top
  <2> QED
    BY <2>2, <1>5, <1>10, WordsAreNumbers DEF WordFacts, LastOK, Top
<1>12. x \in Begun /\ low < End(syms[x]) /\ low <= Limit
       /\ (\A i \in Begun : syms[i].value <= low)
       /\ (\A a \in Word : a < low => Right(key, out, a))
  BY <1>10 DEF LastOK
<1>13. x \in OnStack /\ \A i \in Begun : i \in OnStack \/ End(syms[i]) <= low
  BY <1>10, <1>1 DEF LastOK
<1>14. \A i \in Begun : (\E p \in 1..Len(stack') : stack'[p].id = i) \/ End(syms[i]) <= e
  BY <1>1, <1>13, <1>6, <1>7, <1>8, <1>11
<1>15. CASE stack' = <<>>
  <2>1. out' = out
    BY <1>15 DEF DrainStack
  <2>2. Len(stack') = 0
    BY <1>15, <1>1, ListFacts
  <2>3. End(syms[x]) = e
    BY <1>1, <1>12, <1>13, <2>2
  <2>4. \A i \in Begun : End(syms[i]) <= End(syms[x])
    BY <1>14, <2>2, <2>3
  <2>5. Laminar(key) => \A i \in Begun : End(syms[i]) > low => i = x \/ Before(i, x)
    BY <1>10 DEF LastOK
  <2>6. DOMAIN stack' = {}
    BY <2>2, <1>5
  <2>7. LastOK'
    BY <1>2, <1>3, <1>4, <1>12, <1>15, <2>1, <2>4, <2>5, <2>6 DEF LastOK, End
  <2> QED
    BY <1>10, <1>9, <2>1, <2>7 DEF IndexOK, Rising
<1>16. CASE stack' # <<>>
  <2> DEFINE t == stack'
             y == Top(t).id
             b == [addr |-> e, id |-> y]
  <2>1. Len(t) \in 1..Len(t)
    BY <1>16, <1>1, ListFacts
  <2>2. y \in ID /\ b \in Boundary
    <3>1. y \in ID
      BY <2>1, <1>1, ListFacts DEF Top
    <3> QED
      BY <3>1, <1>1 DEF Boundary
  <2>3. out' = AddBoundary(out, b)
    <3>1. out' = Append(out, b)
      BY <1>16 DEF DrainStack
    <3>2. Top(out).addr # b.addr
      BY <1>11, <1>8
    <3> QED
      BY <3>1, <3>2 DEF AddBoundary
  <2>4. /\ out' \in Seq(Boundary) /\ out' # <<>> /\ Rising(out') /\ Top(out') = b
        /\ \A a \in Word : a < e => LookUp(out', a) = LookUp(out, a)
    <3>1. Top(out).addr <= b.addr
      BY <1>11, <1>8
    <3> HIDE DEF b
    <3>2. LET new == AddBoundary(out, b)
          IN /\ new \in Seq(Boundary) /\ new # <<>> /\ Rising(new) /\ Top(new) = b
             /\ \A a \in Word : a < b.addr => LookUp(new, a) = LookUp(out, a)
      BY <3>1, <2>2, <1>10, <1>5, AddBoundaryFacts
    <3>3. b.addr = e
      BY DEF b
    <3> QED
      BY <2>3, <3>2, <3>3
  <2>5. Top(out').addr = e /\ Top(out').id = y
    BY <2>4
  <2>6. y \in Begun /\ End(syms[y]) > e
    <3>1. t[Len(t)] = stack[Len(t)] /\ stack[Len(t)].addr > e /\ Len(t) \in DOMAIN stack
      BY <2>1, <1>1, <1>5
    <3>2. stack[Len(t)].id \in Begun /\ stack[Len(t)].addr = End(syms[stack[Len(t)].id])
      BY <3>1 DEF Indexing, StackOK
    <3> QED
      BY <3>1, <3>2 DEF Top
  <2>7. \A i \in Begun : syms[i].value <= e
    BY <1>12, <1>11, <1>6, <1>7, <1>8
  <2>8. ASSUME NEW a \in Word, a < e PROVE Right(key, out', a)
    <3>1. a \in Nat
      BY WordsAreNumbers DEF WordFacts
    <3>2. Right(key, out, a)
      <4>1. CASE a < low
        BY <4>1, <1>12
      <4>2. CASE low <= a
        <5>1. \A j \in ids : a < syms[j].value
          BY <2>8, <3>1, <1>1, <1>6, <1>7, <1>8
        <5> QED
          BY <5>1, <4>2, <2>8, <1>9, RightAt
      <4> QED
        BY <4>1, <4>2, <3>1, <1>11
    <3> QED
      BY <3>2, <2>4, <2>8 DEF Right
  <2>9. \A i \in DOMAIN t : t[i].addr > e
    BY <1>1, <1>5
  <2>10. y \in OnStack' /\ \A i \in Begun : i \in OnStack' \/ End(syms[i]) <= e
    <3>1. \A i : (\E p \in 1..Len(t) : t[p].id = i) => i \in OnStack'
      BY <1>5 DEF OnStack
    <3>2. t[Len(t)].id = y
      BY DEF Top
    <3> QED
      BY <3>1, <3>2, <2>1, <1>14
  <2>11. ASSUME Laminar(key)
         PROVE  /\ \A i \in Begun : End(syms[i]) > e => i = y \/ Before(i, y)
                /\ \A i, j \in DOMAIN t : i < j => Before(t[i].id, t[j].id)
    <3>1. \A i, j \in DOMAIN stack : i < j => Before(stack[i].id, stack[j].id)
      BY <2>11, <1>10 DEF LastOK
    <3>2. \A i \in DOMAIN t : i \in DOMAIN stack /\ t[i] = stack[i]
      BY <1>1, <1>5
    <3>3. \A i, j \in DOMAIN t : i < j => Before(t[i].id, t[j].id)
      BY <3>1, <3>2
    <3>4. ASSUME NEW i \in Begun, End(syms[i]) > e PROVE i = y \/ Before(i, y)
      <4>1. PICK p \in 1..Len(t) : t[p].id = i
        BY <3>4, <1>14, <1>6, <1>7, <1>8
      <4>2. CASE p = Len(t)
        BY <4>1, <4>2 DEF Top
      <4>3. CASE p < Len(t)
        <5>1. Before(t[p].id, t[Len(t)].id)
          BY <4>1, <4>3, <3>3, <2>1, <1>5
        <5> QED
          BY <4>1, <5>1 DEF Top
      <4>4. \A n \in Nat : \A q \in 1..n : q = n \/ q < n
        OBVIOUS
      <4> QED
        BY <4>1, <4>2, <4>3, <4>4, <1>5
    <3> QED
      BY <3>3, <3>4
  <2>12. LastOK'
    <3>1. (Top(out).id)' = y /\ (Top(out).addr)' = e
      BY <2>5 DEF Top
    <3> HIDE DEF e, y
    <3> QED
      BY <3>1, <1>1, <1>2, <1>3, <1>4, <1>16, <2>6, <2>7, <2>8, <2>9, <2>10, <2>11
      DEF LastOK, End
  <2> QED
    BY <2>4, <2>12 DEF IndexOK, Rising
<1> QED
  BY <1>15, <1>16

\* What the loop body does to the stack, and which symbol it visits.
LEMMA Starts ==
  ASSUME Indexing, StartSymbol
  PROVE  LET f == First
             v == syms[f].value
             b == [addr |-> End(syms[f]), id |-> f]
             n == Len(stack)
         IN /\ f \in ids /\ f \in ID /\ (\A j \in ids \ {f} : Before(f, j))
            /\ Limit = v /\ b \in Boundary /\ [addr |-> v, id |-> f] \in Boundary
            /\ ids' = ids \ {f} /\ Begun' = Begun \cup {f}
            /\ stack' \in Seq(Boundary) /\ Len(stack') = n + 1
            /\ \E k \in 0..n :
                 /\ \A i \in 1..n + 1 :
                      stack'[i] = IF i <= k THEN stack[i]
                                  ELSE IF i = k + 1 THEN b ELSE stack[i - 1]
                 /\ \A i \in 1..k : stack[i].addr >= b.addr
                 /\ \A i \in 1..n : i > k => stack[i].addr < b.addr
            /\ \A i \in OnStack \cup {f} : \E p \in 1..n + 1 : stack'[p].id = i
            /\ \A p \in 1..n + 1 : \/ stack'[p] = b
                                   \/ \E q \in 1..n : stack'[p] = stack[q]
<1> DEFINE f == First
           v == syms[f].value
           b == [addr |-> End(syms[f]), id |-> f]
           n == Len(stack)
<1>1. /\ IsTable(syms) /\ ids \subseteq ID /\ stack \in Seq(Boundary) /\ Falls(stack)
  BY IndexingFacts
<1>2. ids # {}
  BY DEF StartSymbol
<1>3. f \in ids /\ f \in ID /\ \A j \in ids \ {f} : Before(f, j)
  BY <1>1, <1>2, FirstRight
<1>4. Limit = v
  BY <1>2 DEF Limit
<1>5. b \in Boundary /\ [addr |-> v, id |-> f] \in Boundary
  BY <1>1, <1>3, SymFacts DEF Boundary
<1>6. /\ syms' = syms /\ todo' = todo /\ key' = key
      /\ ids' = ids \ {f} /\ stack' = Push(stack, b)
  BY DEF StartSymbol
<1>7. Begun' = Begun \cup {f}
  BY <1>3, <1>6 DEF Begun, Indexing
<1>8. n \in Nat /\ DOMAIN stack = 1..n
  BY <1>1, ListFacts
<1> HIDE DEF b
<1>9. /\ Push(stack, b) \in Seq(Boundary)
      /\ Len(Push(stack, b)) = n + 1
      /\ \E k \in 0..n :
           /\ \A i \in 1..n + 1 :
                Push(stack, b)[i] = IF i <= k THEN stack[i]
                                    ELSE IF i = k + 1 THEN b ELSE stack[i - 1]
           /\ \A i \in 1..k : stack[i].addr >= b.addr
           /\ \A i \in 1..n : i > k => stack[i].addr < b.addr
  BY <1>1, <1>5, PushFacts
<1>10. PICK k \in 0..n :
         \A i \in 1..n + 1 :
            stack'[i] = IF i <= k THEN stack[i] ELSE IF i = k + 1 THEN b ELSE stack[i - 1]
  BY <1>6, <1>9
<1>11. ASSUME NEW i \in OnStack \cup {f} PROVE \E p \in 1..n + 1 : stack'[p].id = i
  <2> HIDE DEF n, f
  <2>1. CASE i = f
    <3>1. k + 1 \in 1..n + 1 /\ ~ (k + 1 <= k)
      BY <1>8
    <3>2. stack'[k + 1] = b
      BY <3>1, <1>10
    <3> QED
      BY <3>1, <3>2, <2>1 DEF b
  <2>2. CASE i \in OnStack
    <3>1. PICK q \in 1..n : stack[q].id = i
      BY <2>2, <1>8 DEF OnStack
    <3>2. CASE q <= k
      <4>1. q \in 1..n + 1
        BY <1>8
      <4> QED
        BY <4>1, <3>1, <3>2, <1>10
    <3>3. CASE q > k
      <4>1. q + 1 \in 1..n + 1 /\ ~ (q + 1 <= k) /\ q + 1 # k + 1 /\ q + 1 - 1 = q
        BY <3>3, <1>8
      <4>2. stack'[q + 1] = stack[q]
        BY <4>1, <1>10
      <4> QED
        BY <4>1, <4>2, <3>1
    <3> QED
      BY <3>2, <3>3, <1>8
  <2> QED
    BY <2>1, <2>2
<1>12. ASSUME NEW p \in 1..n + 1
       PROVE  stack'[p] = b \/ \E q \in 1..n : stack'[p] = stack[q]
  <2> HIDE DEF n
  <2>1. p <= k => p \in 1..n
    BY <1>8
  <2>2. ~ (p <= k) /\ p # k + 1 => p - 1 \in 1..n
    BY <1>8
  <2> QED
    BY <2>1, <2>2, <1>10
<1> QED
  BY <1>3, <1>4, <1>5, <1>6, <1>7, <1>9, <1>11, <1>12 DEF b

\* Once a symbol is visited the limit does not fall.
LEMMA LimitRises ==
  ASSUME Indexing, StartSymbol
  PROVE  Limit \in Nat /\ Limit' \in Nat /\ Limit <= Limit'
<1> DEFINE f == First
           v == syms[f].value
<1>1. /\ f \in ids /\ f \in ID /\ (\A j \in ids \ {f} : Before(f, j))
      /\ Limit = v /\ ids' = ids \ {f}
  BY Starts
<1>2. IsTable(syms) /\ ids \subseteq ID
  BY IndexingFacts
<1>3. syms' = syms
  BY DEF StartSymbol
<1>4. v \in Nat /\ v <= W - 1
  BY <1>1, <1>2, SymFacts, WordsAreNumbers DEF WordFacts
<1>5. CASE ids' = {}
  BY <1>1, <1>4, <1>5, ConstantsAssumption DEF Limit
<1>6. CASE ids' # {}
  <2>1. First' \in ids'
    <3>1. ids' \in SUBSET ID
      BY <1>1, <1>2
    <3>2. \E g \in ids' : \A j \in ids' \ {g} : Before(g, j)
      BY <3>1, <1>6, <1>2, Earliest
    <3>3. \E g \in ids' : \A j \in ids' \ {g} : Before(g, j)'
      BY <3>2, <1>3, SameTable
    <3> QED
      BY <3>3 DEF First
  <2>2. Limit' = syms[First'].value
    BY <1>6, <1>3 DEF Limit
  <2>3. PICK g \in ids' : g = First'
    BY <2>1
  <2>4. g \in ids \ {f} /\ g \in ID
    BY <2>3, <1>1, <1>2
  <2>5. v <= syms[g].value /\ syms[g].value \in Nat
    BY <2>4, <1>1, <1>2, BeforeOrders, SymFacts, WordsAreNumbers DEF WordFacts
  <2> QED
    BY <1>1, <1>4, <2>2, <2>3, <2>5
<1> QED
  BY <1>5, <1>6

LEMMA StartIndexing ==
  ASSUME Indexing, StartSymbol
  PROVE  Indexing'
<1> DEFINE f == First
           v == syms[f].value
           b == [addr |-> End(syms[f]), id |-> f]
           n == Len(stack)
<1>1. /\ f \in ids /\ f \in ID /\ (\A j \in ids \ {f} : Before(f, j))
      /\ Limit = v /\ b \in Boundary /\ [addr |-> v, id |-> f] \in Boundary
      /\ ids' = ids \ {f} /\ Begun' = Begun \cup {f}
      /\ stack' \in Seq(Boundary) /\ Len(stack') = n + 1
  BY Starts
<1>2. PICK k \in 0..n :
        /\ \A i \in 1..n + 1 :
             stack'[i] = IF i <= k THEN stack[i] ELSE IF i = k + 1 THEN b ELSE stack[i - 1]
        /\ \A i \in 1..k : stack[i].addr >= b.addr
        /\ \A i \in 1..n : i > k => stack[i].addr < b.addr
  BY Starts
<1>3. /\ \A i \in OnStack \cup {f} : \E p \in 1..n + 1 : stack'[p].id = i
      /\ \A p \in 1..n + 1 : \/ stack'[p] = b
                             \/ \E q \in 1..n : stack'[p] = stack[q]
  BY Starts
<1>4. /\ syms' = syms /\ names' = names /\ todo' = todo /\ sections' = sections
      /\ key' = key /\ pc' = pc
      /\ out' = AddBoundary(out, [addr |-> v, id |-> f])
  BY DEF StartSymbol
<1>5. ID' = ID /\ Boundary' = Boundary /\ IsTable(syms)'
      /\ (\A i, j : Before(i, j)' = Before(i, j)) /\ SymsOf(key)' = SymsOf(key)
  BY <1>4, SameTable, IndexingFacts
<1>6. /\ IsTable(syms) /\ ids \subseteq ID /\ Begun \subseteq ID
      /\ stack \in Seq(Boundary) /\ out \in Seq(Boundary) /\ Falls(stack)
  BY IndexingFacts
<1>7. n \in Nat /\ DOMAIN stack = 1..n /\ DOMAIN stack' = 1..n + 1
  BY <1>1, <1>6, ListFacts
<1>8. out' \in Seq(Boundary)
  <2> DEFINE c == [addr |-> v, id |-> f]
  <2>1. c \in Boundary
    BY <1>1
  <2> HIDE DEF c
  <2>2. CASE out # <<>> /\ Top(out).addr = c.addr
    <3>1. Len(out) \in 1..Len(out)
      BY <2>2, <1>6, ListFacts
    <3>2. [out EXCEPT ![Len(out)] = c] \in Seq(Boundary)
      BY <3>1, <2>1, <1>6, ExceptSeq
    <3> QED
      BY <3>2, <2>2, <1>4 DEF AddBoundary, c
  <2>3. CASE ~ (out # <<>> /\ Top(out).addr = c.addr)
    <3>1. Append(out, c) \in Seq(Boundary)
      BY <2>1, <1>6, AppendProperties
    <3> QED
      BY <3>1, <2>3, <1>4 DEF AddBoundary, c
  <2> QED
    BY <2>2, <2>3
<1>9. TypeOK'
  <2>1. ids' \subseteq ID
    BY <1>1, <1>6
  <2> QED
    BY <2>1, <1>1, <1>4, <1>5, <1>8 DEF Indexing, TypeOK, Key, ID
<1>10. StackOK'
  <2>1. ASSUME NEW i \in 1..n + 1, NEW j \in 1..n + 1, i <= j
        PROVE  stack'[i].addr >= stack'[j].addr
    <3> DEFINE a == b.addr
    <3>1. a \in Nat /\ \A q \in 1..n : stack[q].addr \in Nat
      <4>1. a \in Word
        BY <1>6, <1>1, SymFacts
      <4> QED
        BY <4>1, <1>6, ListFacts, WordsAreNumbers DEF WordFacts
    <3>2. \A p, q \in 1..n : p <= q => stack[p].addr >= stack[q].addr
      BY <1>6, <1>7 DEF Falls
    <3>3. \A p \in 1..n + 1 : stack'[p].addr = IF p <= k THEN stack[p].addr
                              ELSE IF p = k + 1 THEN a ELSE stack[p - 1].addr
      BY <1>2
    <3>4. \A p \in 1..k : stack[p].addr >= a
      BY <1>2
    <3>5. \A p \in 1..n : p > k => stack[p].addr < a
      BY <1>2
    <3> HIDE DEF a, n, b, f
    <3>6. CASE j <= k
      <4>1. i \in 1..n /\ j \in 1..n /\ i <= k
        BY <3>6, <2>1, <1>7
      <4> QED
        BY <4>1, <3>2, <3>3, <3>6, <2>1
    <3>7. CASE j = k + 1
      <4>1. ~ (j <= k) /\ (i <= k => i \in 1..k) /\ (i <= k \/ i = k + 1)
        BY <3>7, <2>1, <1>7
      <4>2. stack'[j].addr = a
        BY <4>1, <3>7, <3>3
      <4>3. i <= k => stack'[i].addr = stack[i].addr
        BY <3>3
      <4>4. i = k + 1 => stack'[i].addr = a
        BY <4>2, <3>7
      <4> QED
        BY <4>1, <4>2, <4>3, <4>4, <3>4, <3>1
    <3>8. CASE j > k + 1
      <4>1. j - 1 \in 1..n /\ j - 1 > k /\ ~ (j <= k) /\ j # k + 1
        BY <3>8, <1>7
      <4>2. stack'[j].addr = stack[j - 1].addr
        BY <4>1, <3>3
      <4>3. CASE i <= k
        <5>1. i \in 1..n /\ i <= j - 1
          BY <4>1, <4>3, <1>7
        <5> QED
          BY <5>1, <4>1, <4>2, <4>3, <3>2, <3>3
      <4>4. CASE i = k + 1
        <5>1. ~ (i <= k)
          BY <4>4, <1>7
        <5>2. stack'[i].addr = a
          BY <5>1, <4>4, <3>3
        <5>3. stack[j - 1].addr < a
          BY <4>1, <3>5
        <5> QED
          BY <4>1, <4>2, <5>2, <5>3, <3>1
      <4>5. CASE i > k + 1
        <5>1. i - 1 \in 1..n /\ i - 1 <= j - 1 /\ ~ (i <= k) /\ i # k + 1
          BY <4>5, <2>1, <1>7
        <5> QED
          BY <5>1, <4>1, <4>2, <3>2, <3>3
      <4> QED
        BY <4>3, <4>4, <4>5, <1>7
    <3> QED
      BY <3>6, <3>7, <3>8, <1>7
  <2>2. ASSUME NEW p \in 1..n + 1
        PROVE  stack'[p].id \in Begun' /\ stack'[p].addr = End(syms[stack'[p].id])
    <3>1. CASE stack'[p] = b
      BY <3>1, <1>1
    <3>2. CASE \E q \in 1..n : stack'[p] = stack[q]
      BY <3>2, <1>1, <1>7 DEF Indexing, StackOK
    <3> QED
      BY <3>1, <3>2, <1>3
  <2>3. ASSUME NEW i \in Begun' PROVE i \in OnStack' \/ End(syms[i]) <= Limit'
    <3>1. (\E p \in 1..n + 1 : stack'[p].id = i) => i \in OnStack'
      BY <1>7 DEF OnStack
    <3>2. CASE i \in OnStack \cup {f}
      BY <3>1, <3>2, <1>3
    <3>3. CASE i \notin OnStack \cup {f}
      <4>1. i \in Begun /\ End(syms[i]) <= v
        BY <3>3, <1>1 DEF Indexing, StackOK
      <4>2. End(syms[i]) \in Nat /\ v \in Nat /\ Limit' \in Nat /\ v <= Limit'
        BY <4>1, <1>1, <1>6, LimitRises, SymFacts, WordsAreNumbers DEF WordFacts
      <4> QED
        BY <4>1, <4>2
    <3> QED
      BY <3>2, <3>3
  <2>4. \A i \in Begun', j \in ids' : Before(i, j)
    BY <1>1 DEF Indexing, StackOK
  <2> QED
    BY <2>1, <2>2, <2>3, <2>4, <1>4, <1>5, <1>7 DEF StackOK, End
<1>11. todo'[key'] = SymsOf(key)' /\ ids' \subseteq todo'[key']
  BY <1>1, <1>4, <1>5 DEF Indexing
<1> QED
  BY <1>9, <1>10, <1>11 DEF Indexing

LEMMA StartIndexOK ==
  ASSUME Indexing, NoneWraps, IndexOK, StartSymbol
  PROVE  IndexOK'
<1> DEFINE f == First
           v == syms[f].value
           b == [addr |-> End(syms[f]), id |-> f]
           c == [addr |-> v, id |-> f]
           n == Len(stack)
<1>1. /\ f \in ids /\ f \in ID /\ (\A j \in ids \ {f} : Before(f, j))
      /\ Limit = v /\ b \in Boundary /\ c \in Boundary
      /\ ids' = ids \ {f} /\ Begun' = Begun \cup {f}
      /\ stack' \in Seq(Boundary) /\ Len(stack') = n + 1
      /\ \A i \in OnStack \cup {f} : \E p \in 1..n + 1 : stack'[p].id = i
      /\ \A p \in 1..n + 1 : \/ stack'[p] = b
                             \/ \E q \in 1..n : stack'[p] = stack[q]
  BY Starts
<1>2. /\ syms' = syms /\ todo' = todo /\ key' = key
      /\ out' = AddBoundary(out, c)
      /\ (stack # <<>> => Top(stack).addr > v)
  BY <1>1 DEF StartSymbol, Drained
<1>3. /\ ID' = ID /\ Boundary' = Boundary
      /\ \A i, j : Before(i, j)' = Before(i, j)
      /\ Laminar(key)' = Laminar(key)
      /\ \A index, a : Right(key, index, a)' = Right(key, index, a)
  BY <1>2, SameTable
<1>4. /\ IsTable(syms) /\ ids \subseteq ID /\ Begun \subseteq ID /\ OnStack \subseteq Begun
      /\ (\A j \in ids : Limit <= syms[j].value)
      /\ (\A i \in Begun \cup ids : syms[i].size # 0)
      /\ stack \in Seq(Boundary) /\ out \in Seq(Boundary) /\ Falls(stack)
  BY IndexingFacts
<1>5. \A i \in ID : /\ syms[i].value \in Nat /\ End(syms[i]) \in Nat /\ syms[i].size \in Nat
                    /\ End(syms[i]) = syms[i].value + syms[i].size
  BY <1>4, SymFacts, WordsAreNumbers DEF WordFacts
<1>6. n \in Nat /\ DOMAIN stack = 1..n /\ DOMAIN stack' = 1..n + 1
  BY <1>1, <1>4, ListFacts
<1>7. v \in Nat /\ Limit' \in Nat /\ v <= Limit' /\ v < End(syms[f])
  <2>1. End(syms[f]) = v + syms[f].size /\ syms[f].size \in Nat /\ syms[f].size # 0
    BY <1>1, <1>4, <1>5
  <2>2. v \in Nat /\ Limit' \in Nat /\ v <= Limit'
    BY <1>1, LimitRises
  <2> QED
    BY <2>1, <2>2
\* What is on the stack reaches past the new symbol's start.
<1>8. \A q \in 1..n : /\ stack[q].addr > v /\ stack[q].addr \in Nat
                      /\ stack[q].id \in Begun /\ stack[q].addr = End(syms[stack[q].id])
  <2>1. SUFFICES ASSUME NEW q \in 1..n
                 PROVE  /\ stack[q].addr > v /\ stack[q].addr \in Nat
                        /\ stack[q].id \in Begun /\ stack[q].addr = End(syms[stack[q].id])
    OBVIOUS
  <2>2. n \in 1..n /\ q <= n /\ stack # <<>>
    BY <1>4, <1>6, ListFacts
  <2>3. stack[q].addr >= stack[n].addr /\ stack[n].addr > v
    BY <2>2, <1>2, <1>4, <1>6 DEF Falls, Top
  <2>4. stack[q].addr \in Nat /\ stack[n].addr \in Nat
    BY <2>2, <1>4, ListFacts, WordsAreNumbers DEF WordFacts
  <2>5. stack[q].id \in Begun /\ stack[q].addr = End(syms[stack[q].id])
    BY <1>6 DEF Indexing, StackOK
  <2>6. stack[q].addr > v
    BY <2>3, <2>4, <1>7
  <2> QED
    BY <2>4, <2>5, <2>6
<1>9. \A i \in Begun : Before(i, f)
  BY <1>1 DEF Indexing, StackOK
<1>10. \A i \in Begun : syms[i].value <= v
  BY <1>9, <1>4, <1>1, BeforeOrders
<1>11. out # <<>> => Top(out).addr <= v
  <2>1. ASSUME out # <<>> PROVE Top(out).addr <= v
    BY <2>1, <1>1 DEF IndexOK, LastOK
  <2> QED
    BY <2>1
<1>12. /\ out' \in Seq(Boundary) /\ out' # <<>> /\ Rising(out') /\ Top(out') = c
       /\ \A a \in Word : a < v => LookUp(out', a) = LookUp(out, a)
  <2>1. c.addr = v /\ Rising(out)
    BY DEF IndexOK
  <2> HIDE DEF c
  <2>2. LET new == AddBoundary(out, c)
        IN /\ new \in Seq(Boundary) /\ new # <<>> /\ Rising(new) /\ Top(new) = c
           /\ \A a \in Word : a < c.addr => LookUp(new, a) = LookUp(out, a)
    BY <2>1, <1>1, <1>4, <1>11, AddBoundaryFacts
  <2> QED
    BY <2>1, <2>2, <1>2
\* Below the new symbol the index is right.
<1>13. ASSUME NEW a \in Word, a < v PROVE Right(key, out', a)
  <2>1. a \in Nat
    BY WordsAreNumbers DEF WordFacts
  <2>2. \A j \in ids : a < syms[j].value
    BY <1>13, <2>1, <1>1, <1>4, <1>5, <1>7
  <2>3. Right(key, out, a)
    <3>1. CASE out = <<>>
      <4>1. Begun = {}
        BY <3>1 DEF IndexOK
      <4>2. Containing(key, a) = {}
        <5>1. ASSUME NEW i \in Containing(key, a) PROVE FALSE
          <6>1. i \in ids /\ syms[i].value <= a
            BY <4>1 DEF Containing, Indexing, Begun
          <6> QED
            BY <6>1, <2>1, <2>2, <1>4, <1>5
        <5> QED
          BY <5>1
      <4>3. LookUp(out, a) = NoSym
        BY <3>1, EmptyIndex
      <4> QED
        BY <4>2, <4>3 DEF Right
    <3>2. CASE out # <<>>
      <4>1. Top(out).addr \in Nat
        <5>1. Len(out) \in 1..Len(out)
          BY <3>2, <1>4, ListFacts
        <5> QED
          BY <5>1, <1>4, ListFacts, WordsAreNumbers DEF WordFacts, Top
      <4>2. CASE a < Top(out).addr
        BY <4>2, <3>2 DEF IndexOK, LastOK
      <4>3. CASE Top(out).addr <= a
        <5>1. stack # <<>> => a < Top(stack).addr
          <6>1. ASSUME stack # <<>> PROVE a < Top(stack).addr
            <7>1. n \in 1..n
              BY <6>1, <1>4, ListFacts
            <7>2. Top(stack).addr > v /\ Top(stack).addr \in Nat
              BY <7>1, <1>8 DEF Top
            <7> QED
              BY <7>2, <1>13, <2>1, <1>7
          <6> QED
            BY <6>1
        <5> QED
          BY <4>3, <5>1, <3>2, <2>2, RightAt
      <4> QED
        BY <4>1, <4>2, <4>3, <2>1
    <3> QED
      BY <3>1, <3>2
  <2> QED
    BY <2>3, <1>12, <1>13 DEF Right
<1>14. \A i \in DOMAIN stack' : stack'[i].addr > v
  BY <1>1, <1>6, <1>7, <1>8
<1>15. stack' # <<>>
  BY <1>1, <1>6, ListFacts
<1>16. /\ f \in OnStack'
       /\ \A i \in Begun' : i \in OnStack' \/ End(syms[i]) <= v
  <2>1. \A i \in OnStack \cup {f} : i \in OnStack'
    BY <1>1, <1>6 DEF OnStack
  <2>2. \A i \in Begun : i \in OnStack \/ End(syms[i]) <= v
    BY <1>1 DEF Indexing, StackOK
  <2> QED
    BY <2>1, <2>2, <1>1
\* Where symbols nest, those on the stack contain the new one: it goes on top.
<1>17. ASSUME Laminar(key)
       PROVE  \A i, j \in DOMAIN stack' : i < j => Before(stack'[i].id, stack'[j].id)
  <2>1. ASSUME NEW q \in 1..n PROVE stack[q].addr >= b.addr
    <3> DEFINE o == stack[q].id
    <3>1. o \in Begun /\ o \in ID /\ End(syms[o]) > v /\ stack[q].addr = End(syms[o])
      BY <1>8, <1>4
    <3>2. o \in SymsOf(key) /\ f \in SymsOf(key)
      BY <3>1, <1>1 DEF Indexing, Begun
    <3>3. syms[o].value <= v
      BY <3>1, <1>10
    <3>4. syms[o].value = v => syms[o].size >= syms[f].size
      BY <3>1, <1>1, <1>4, <1>9, BeforeOrders
    <3>5. \/ syms[o].value + syms[o].size <= syms[f].value
          \/ syms[f].value + syms[f].size <= syms[o].value
          \/ /\ syms[o].value <= syms[f].value
             /\ syms[f].value + syms[f].size <= syms[o].value + syms[o].size
          \/ /\ syms[f].value <= syms[o].value
             /\ syms[o].value + syms[o].size <= syms[f].value + syms[f].size
      BY <3>2, <1>17 DEF Laminar
    <3>6. /\ syms[o].value \in Nat /\ syms[o].size \in Nat
          /\ End(syms[o]) = syms[o].value + syms[o].size
          /\ syms[f].value \in Nat /\ syms[f].size \in Nat /\ syms[f].size # 0
          /\ End(syms[f]) = syms[f].value + syms[f].size
      BY <3>1, <1>1, <1>4, <1>5
    <3>7. b.addr = End(syms[f])
      OBVIOUS
    <3> HIDE DEF o, b, f
    <3> QED
      BY <3>1, <3>3, <3>4, <3>5, <3>6, <3>7, SMTT(60)
  <2>2. PICK k \in 0..n :
          /\ \A i \in 1..n + 1 :
               stack'[i] = IF i <= k THEN stack[i] ELSE IF i = k + 1 THEN b ELSE stack[i - 1]
          /\ \A i \in 1..n : i > k => stack[i].addr < b.addr
    BY Starts
  <2>3. k = n
    <3>1. n \in 1..n => ~ (n > k)
      BY <2>1, <2>2, <1>1, <1>8, <1>5
    <3> HIDE DEF n
    <3> QED
      BY <3>1, <1>6
  <2>4. ASSUME NEW i \in 1..n + 1, NEW j \in 1..n + 1, i < j
        PROVE  Before(stack'[i].id, stack'[j].id)
    <3> HIDE DEF n, b
    <3>1. i \in 1..n /\ i <= k
      BY <2>3, <2>4, <1>6
    <3>2. stack'[i] = stack[i]
      BY <3>1, <2>2
    <3>3. CASE j = n + 1
      <4>1. stack'[j] = b
        BY <3>3, <2>2, <2>3, <1>6
      <4>2. b.id = f
        BY DEF b
      <4> QED
        BY <3>1, <3>2, <4>1, <4>2, <1>8, <1>9
    <3>4. CASE j \in 1..n
      <4>1. j <= k
        BY <3>4, <2>3, <1>6
      <4>2. stack'[j] = stack[j]
        BY <4>1, <2>2
      <4>3. out # <<>>
        <5>1. stack[i].id \in Begun
          BY <3>1, <1>8
        <5> QED
          BY <5>1 DEF IndexOK
      <4>4. \A p, q \in DOMAIN stack : p < q => Before(stack[p].id, stack[q].id)
        BY <4>3, <1>17 DEF IndexOK, LastOK
      <4> QED
        BY <3>1, <3>2, <3>4, <4>2, <4>4, <2>4, <1>6 DEF n
    <3> QED
      BY <3>3, <3>4, <1>6
  <2> QED
    BY <2>4, <1>6
<1>18. LastOK'
  <2>1. (Top(out).id)' = f /\ (Top(out).addr)' = v
    BY <1>12 DEF Top
  <2>2. \A i \in Begun' : syms[i].value <= v
    BY <1>1, <1>7, <1>10
  <2>3. f \in Begun'
    BY <1>1
  <2>4. \A i \in Begun' : i = f \/ Before(i, f)
    BY <1>1, <1>9
  <2> HIDE DEF f, v
  <2> QED
    BY <2>1, <2>2, <2>3, <2>4, <1>2, <1>3, <1>7, <1>13, <1>14, <1>15, <1>16, <1>17
    DEF LastOK, End
<1> QED
  BY <1>12, <1>18 DEF IndexOK, Rising

\* A section without symbols needs no index.
LEMMA NothingRight ==
  ASSUME NEW k, SymsOf(k) = {}, NEW a \in Word
  PROVE  Right(k, <<>>, a)
<1>1. Containing(k, a) = {}
  BY DEF Containing
<1> QED
  BY <1>1, EmptyIndex DEF Right

\* A finished index is right at every address.
LEMMA DoneRight ==
  ASSUME Indexing, NoneWraps, IndexOK, ids = {}, Drained, NEW a \in Word
  PROVE  Right(key, out, a)
<1>1. /\ stack \in Seq(Boundary) /\ out \in Seq(Boundary)
  BY IndexingFacts
<1>2. stack = <<>>
  <2>1. SUFFICES ASSUME stack # <<>> PROVE FALSE
    OBVIOUS
  <2>2. Limit = W - 1
    BY DEF Limit
  <2>3. Len(stack) \in 1..Len(stack)
    BY <2>1, <1>1, ListFacts
  <2>4. Top(stack).addr \in Word
    BY <2>3, <1>1, ListFacts DEF Top
  <2>5. Top(stack).addr > W - 1
    BY <2>1, <2>2 DEF Drained
  <2> QED
    BY <2>4, <2>5, ConstantsAssumption DEF Word
<1>3. CASE out = <<>>
  <2>1. SymsOf(key) = {}
    BY <1>3 DEF IndexOK, Begun, Indexing
  <2> QED
    BY <1>3, <2>1, NothingRight
<1>4. CASE out # <<>>
  <2>1. Len(out) \in 1..Len(out)
    BY <1>4, <1>1, ListFacts
  <2>2. Top(out).addr \in Nat /\ a \in Nat
    BY <2>1, <1>1, ListFacts, WordsAreNumbers DEF WordFacts, Top
  <2>3. CASE a < Top(out).addr
    BY <2>3, <1>4 DEF IndexOK, LastOK
  <2>4. CASE Top(out).addr <= a
    BY <2>4, <1>2, <1>4, RightAt
  <2> QED
    BY <2>2, <2>3, <2>4
<1> QED
  BY <1>3, <1>4

-----------------------------------------------------------------------------
(* The invariant *)

LEMMA InitInv == Init => IInv
<1> SUFFICES ASSUME Init PROVE IInv
  OBVIOUS
<1>1. IsTable(syms)
  BY TablesAssumption DEF Init
<1>2. <<>> \in Seq(Boundary) /\ NoSection \in Key
  BY EmptySeq DEF Key
<1>3. TypeOK
  <2>1. names \in [Name -> ID \cup {NoSym}]
    BY DEF Init
  <2>2. todo \in [Key -> SUBSET ID]
    BY DEF Init
  <2>3. sections \in [Key -> Seq(Boundary)]
    BY <1>2 DEF Init
  <2> QED
    BY <1>1, <1>2, <2>1, <2>2, <2>3 DEF Init, TypeOK
<1> QED
  BY <1>3 DEF Init, IInv

LEMMA NewTableInv == ASSUME IInv, NewTable PROVE IInv'
<1>1. TypeOK /\ \A k \in Key : sections[k] = <<>>
  BY DEF IInv, NewTable
<1>2. /\ syms' = syms /\ sections' = sections /\ key' = key /\ ids' = ids
      /\ stack' = stack /\ out' = out /\ stack = <<>> /\ out = <<>>
      /\ pc' = "sections" /\ todo' = [k \in Key |-> SymsOf(k)]
  BY DEF NewTable, IInv
<1>3. /\ ID' = ID /\ Boundary' = Boundary /\ IsTable(syms)' /\ Key' = Key
      /\ \A k : SymsOf(k)' = SymsOf(k)
      /\ \A k, index, a : Right(k, index, a)' = Right(k, index, a)
  BY <1>1, <1>2, SameTable DEF TypeOK, Key
<1>4. names' \in [Name -> ID \cup {NoSym}]
  <2>1. ASSUME NEW S \in SUBSET ID, S # {} PROVE Max(S) \in ID
    <3>1. PICK n \in Nat : \A i \in ID : i <= n
      BY <1>1, SymFacts DEF TypeOK
    <3>2. S \in SUBSET Nat
      BY <1>1, SymFacts DEF TypeOK
    <3>3. Max(S) \in S
      BY <2>1, <3>1, <3>2, GreatestNat
    <3> QED
      BY <3>3
  <2>2. ASSUME NEW n \in Name
        PROVE  LET globals == {i \in ID : syms[i].name = n /\ ~ syms[i].local}
               IN (IF globals = {} THEN NoSym ELSE Max(globals)) \in ID \cup {NoSym}
    BY <2>1
  <2> QED
    BY <2>2 DEF NewTable
<1>5. TypeOK'
  <2>1. todo' \in [Key -> SUBSET ID]
    BY <1>2 DEF SymsOf
  <2> QED
    BY <1>1, <1>2, <1>3, <1>4, <2>1 DEF TypeOK
<1>6. SectionsOK'
  <2>1. ASSUME NEW k \in Key
        PROVE  /\ Rising(sections[k])
               /\ todo'[k] = {} => \A a \in Word : Right(k, sections[k], a)
    <3>1. sections[k] = <<>>
      BY <1>1
    <3>2. Rising(sections[k])
      BY <3>1 DEF Rising
    <3>3. todo'[k] = {} => SymsOf(k) = {}
      BY <1>2
    <3> QED
      BY <3>1, <3>2, <3>3, NothingRight
  <2> QED
    BY <2>1, <1>2, <1>3 DEF SectionsOK, Rising
<1>7. \A k \in Key : todo'[k] = SymsOf(k)'
  BY <1>2, <1>3
<1> QED
  BY <1>2, <1>3, <1>5, <1>6, <1>7 DEF IInv

LEMMA MakeAddrIndexInv ==
  ASSUME IInv, NEW k \in Key, MakeAddrIndex(k)
  PROVE  IInv'
<1>1. /\ syms' = syms /\ names' = names /\ todo' = todo /\ sections' = sections
      /\ key' = k /\ ids' = todo[k] /\ stack' = <<>> /\ out' = <<>>
      /\ pc' = "index" /\ pc = "sections" /\ todo[k] # {}
  BY DEF MakeAddrIndex
<1>2. /\ TypeOK /\ (\A l \in Key : todo[l] \in {{}, SymsOf(l)})
      /\ (NoneWraps => SectionsOK)
  BY <1>1 DEF IInv
<1>3. /\ ID' = ID /\ Boundary' = Boundary /\ IsTable(syms)' /\ Key' = Key
      /\ NoneWraps' = NoneWraps
      /\ (\A l : SymsOf(l)' = SymsOf(l))
      /\ \A l, index, a : Right(l, index, a)' = Right(l, index, a)
  BY <1>1, <1>2, SameTable DEF TypeOK, Key
<1>4. TypeOK'
  <2>1. <<>> \in Seq(Boundary)
    BY EmptySeq
  <2> QED
    BY <1>1, <1>2, <1>3, <2>1 DEF TypeOK
<1>5. NoneWraps' => SectionsOK'
  BY <1>1, <1>2, <1>3 DEF SectionsOK, Rising
<1>6. Begun' = {} /\ DOMAIN stack' = {}
  BY <1>1 DEF Begun
<1>7. StackOK'
  BY <1>6 DEF StackOK
<1>8. IndexOK'
  BY <1>1, <1>6 DEF IndexOK, Rising
<1>9. todo'[key'] = SymsOf(key)' /\ ids' \subseteq todo'[key']
  BY <1>1, <1>2, <1>3
<1> QED
  BY <1>1, <1>2, <1>3, <1>4, <1>5, <1>7, <1>8, <1>9 DEF IInv

LEMMA InIndex ==
  ASSUME IInv, pc = "index"
  PROVE  /\ Indexing /\ (NoneWraps => SectionsOK /\ IndexOK)
         /\ \A k \in Key : todo[k] \in {{}, SymsOf(k)}
BY DEF IInv, Indexing

LEMMA IndexStepInv ==
  ASSUME IInv, pc = "index", DrainStack \/ StartSymbol
  PROVE  IInv'
<1>1. /\ Indexing /\ (NoneWraps => SectionsOK /\ IndexOK)
      /\ \A k \in Key : todo[k] \in {{}, SymsOf(k)}
  BY InIndex
<1>2. /\ syms' = syms /\ todo' = todo /\ sections' = sections /\ key' = key /\ pc' = "index"
  BY DEF DrainStack, StartSymbol
<1>3. /\ Key' = Key /\ NoneWraps' = NoneWraps
      /\ (\A k : SymsOf(k)' = SymsOf(k))
      /\ \A k, index, a : Right(k, index, a)' = Right(k, index, a)
  BY <1>2, SameTable DEF Key
<1>4. Indexing' /\ (NoneWraps => IndexOK')
  BY <1>1, DrainIndexing, DrainIndexOK, StartIndexing, StartIndexOK
<1>5. NoneWraps => SectionsOK'
  BY <1>1, <1>2, <1>3 DEF SectionsOK, Rising
<1> QED
  BY <1>1, <1>2, <1>3, <1>4, <1>5 DEF IInv, Indexing

LEMMA IndexDoneInv == ASSUME IInv, IndexDone PROVE IInv'
<1>1. /\ syms' = syms /\ names' = names /\ ids' = ids /\ ids = {} /\ Drained
      /\ sections' = [sections EXCEPT ![key] = out]
      /\ todo' = [todo EXCEPT ![key] = {}]
      /\ key' = NoSection /\ stack' = <<>> /\ out' = <<>> /\ pc = "index" /\ pc' = "sections"
  BY DEF IndexDone
<1>2. /\ Indexing /\ (NoneWraps => SectionsOK /\ IndexOK)
      /\ \A k \in Key : todo[k] \in {{}, SymsOf(k)}
  BY <1>1, InIndex
<1>3. TypeOK
  BY <1>2 DEF Indexing
<1>4. /\ ID' = ID /\ Boundary' = Boundary /\ IsTable(syms)' /\ Key' = Key
      /\ NoneWraps' = NoneWraps
      /\ (\A k : SymsOf(k)' = SymsOf(k))
      /\ \A k, index, a : Right(k, index, a)' = Right(k, index, a)
  BY <1>1, <1>3, SameTable DEF TypeOK, Key
<1>5. /\ \A k \in Key : sections'[k] = IF k = key THEN out ELSE sections[k]
      /\ \A k \in Key : todo'[k] = IF k = key THEN {} ELSE todo[k]
  BY <1>1, <1>3 DEF TypeOK
<1>6. TypeOK'
  <2>1. <<>> \in Seq(Boundary) /\ NoSection \in Key
    BY EmptySeq DEF Key
  <2>2. sections' \in [Key -> Seq(Boundary)]
    BY <1>1, <1>3 DEF TypeOK
  <2>3. todo' \in [Key -> SUBSET ID]
    BY <1>1, <1>3 DEF TypeOK
  <2> QED
    BY <1>1, <1>3, <1>4, <2>1, <2>2, <2>3 DEF TypeOK
<1>7. NoneWraps => SectionsOK'
  <2> SUFFICES ASSUME NoneWraps, NEW k \in Key
               PROVE  /\ Rising(sections'[k])
                      /\ todo'[k] = {} => \A a \in Word : Right(k, sections'[k], a)
    BY <1>4 DEF SectionsOK, Rising
  <2>1. CASE k = key
    <3>1. \A a \in Word : Right(key, out, a)
      BY <1>1, <1>2, DoneRight
    <3>2. Rising(out)
      BY <1>2 DEF IndexOK
    <3> QED
      BY <2>1, <3>1, <3>2, <1>5
  <2>2. CASE k # key
    BY <2>2, <1>2, <1>5 DEF SectionsOK
  <2> QED
    BY <2>1, <2>2
<1>8. \A k \in Key : todo'[k] \in {{}, SymsOf(k)'}
  BY <1>2, <1>4, <1>5
<1> QED
  BY <1>1, <1>4, <1>6, <1>7, <1>8 DEF IInv

LEMMA TableDoneInv == ASSUME IInv, TableDone PROVE IInv'
<1>1. /\ syms' = syms /\ names' = names /\ todo' = todo /\ sections' = sections
      /\ key' = key /\ ids' = ids /\ stack' = stack /\ out' = out
      /\ pc = "sections" /\ pc' = "ready" /\ \A k \in Key : todo[k] = {}
  BY DEF TableDone
<1>2. TypeOK /\ (NoneWraps => SectionsOK) /\ stack = <<>> /\ out = <<>>
  BY <1>1 DEF IInv
<1>3. /\ ID' = ID /\ Boundary' = Boundary /\ IsTable(syms)' /\ Key' = Key
      /\ NoneWraps' = NoneWraps
      /\ \A k, index, a : Right(k, index, a)' = Right(k, index, a)
  BY <1>1, <1>2, SameTable DEF TypeOK, Key
<1>4. TypeOK'
  BY <1>1, <1>2, <1>3 DEF TypeOK
<1>5. NoneWraps => SectionsOK'
  BY <1>1, <1>2, <1>3 DEF SectionsOK, Rising
<1> QED
  BY <1>1, <1>2, <1>3, <1>4, <1>5 DEF IInv

LEMMA StutterInv == ASSUME IInv, UNCHANGED vars PROVE IInv'
<1>1. /\ syms' = syms /\ names' = names /\ todo' = todo /\ sections' = sections
      /\ key' = key /\ ids' = ids /\ stack' = stack /\ out' = out /\ pc' = pc
  BY DEF vars
<1>2. /\ ID' = ID /\ Boundary' = Boundary /\ IsTable(syms)' /\ Key' = Key
      /\ NoneWraps' = NoneWraps
      /\ (\A i, j : Before(i, j)' = Before(i, j))
      /\ (\A k : SymsOf(k)' = SymsOf(k) /\ Laminar(k)' = Laminar(k))
      /\ (\A k, index, a : Right(k, index, a)' = Right(k, index, a))
      /\ Limit' = Limit
  BY <1>1, SameTable, SameLimit DEF TypeOK, Key, IInv
<1>3. TypeOK'
  BY <1>1, <1>2 DEF TypeOK, IInv
<1>4. SectionsOK' = SectionsOK
  BY <1>1, <1>2 DEF SectionsOK, Rising
<1>5. Begun' = Begun /\ OnStack' = OnStack
  BY <1>1 DEF Begun, OnStack
<1>6. StackOK' = StackOK
  BY <1>1, <1>2, <1>5 DEF StackOK, End
<1>7. IndexOK' = IndexOK
  <2>1. LastOK' = LastOK
    BY <1>1, <1>2, <1>5 DEF LastOK, End, Top
  <2> QED
    BY <1>1, <1>5, <2>1 DEF IndexOK, Rising
<1> QED
  BY <1>1, <1>2, <1>3, <1>4, <1>6, <1>7 DEF IInv

LEMMA NextInv == IInv /\ [Next]_vars => IInv'
<1> SUFFICES ASSUME IInv, [Next]_vars PROVE IInv'
  OBVIOUS
<1>1. CASE NewTable
  BY <1>1, NewTableInv
<1>2. CASE \E k \in Key : MakeAddrIndex(k)
  BY <1>2, MakeAddrIndexInv
<1>3. CASE DrainStack \/ StartSymbol
  BY <1>3, IndexStepInv DEF DrainStack, StartSymbol
<1>4. CASE IndexDone
  BY <1>4, IndexDoneInv
<1>5. CASE TableDone
  BY <1>5, TableDoneInv
<1>6. CASE UNCHANGED vars
  BY <1>6, StutterInv
<1> QED
  BY <1>1, <1>2, <1>3, <1>4, <1>5, <1>6 DEF Next

-----------------------------------------------------------------------------
(* What the invariant says *)

LEMMA RisingStrictly ==
  ASSUME NEW index \in Seq(Boundary), Rising(index)
  PROVE  StrictlyRising(index)
<1>1. Len(index) \in Nat /\ DOMAIN index = 1..Len(index)
  BY ListFacts
<1>2. \A i \in 2..Len(index) : i - 1 \in 1..Len(index) /\ i \in 1..Len(index) /\ i - 1 < i
  <2> DEFINE n == Len(index)
  <2>1. n \in Nat
    BY <1>1
  <2> HIDE DEF n
  <2>2. \A i \in 2..n : i - 1 \in 1..n /\ i \in 1..n /\ i - 1 < i
    BY <2>1
  <2> QED
    BY <2>2 DEF n
<1> QED
  BY <1>1, <1>2 DEF Rising, StrictlyRising

LEMMA InvWellFormed == IInv => WellFormed
<1> SUFFICES ASSUME IInv PROVE WellFormed
  OBVIOUS
<1>1. TypeOK
  BY DEF IInv
<1>2. StrictlyRising(<<>>)
  <2>1. Rising(<<>>) /\ <<>> \in Seq(Boundary)
    BY EmptySeq DEF Rising
  <2> QED
    BY <2>1, RisingStrictly
<1>3. ASSUME NoneWraps PROVE StrictlyRising(out)
  <2>1. CASE pc = "index"
    BY <2>1, <1>1, <1>3, RisingStrictly DEF IInv, IndexOK, TypeOK
  <2>2. CASE pc # "index"
    BY <2>2, <1>2 DEF IInv
  <2> QED
    BY <2>1, <2>2
<1>4. ASSUME NoneWraps, NEW k \in Key PROVE StrictlyRising(sections[k])
  <2>1. CASE pc = "new"
    BY <2>1, <1>2 DEF IInv
  <2>2. CASE pc # "new"
    <3>1. sections[k] \in Seq(Boundary) /\ Rising(sections[k])
      BY <2>2, <1>1, <1>4 DEF IInv, SectionsOK, TypeOK
    <3> QED
      BY <3>1, RisingStrictly
  <2> QED
    BY <2>1, <2>2
<1> QED
  BY <1>1, <1>3, <1>4 DEF WellFormed

LEMMA InvStackIsCurrent == IInv => StackIsCurrent
<1> SUFFICES ASSUME IInv, pc = "index"
             PROVE  /\ \A i \in 2..Len(stack) : stack[i - 1].addr >= stack[i].addr
                    /\ \A i \in DOMAIN stack : stack[i].addr = End(syms[stack[i].id])
                    /\ Drained =>
                         {stack[i].id : i \in DOMAIN stack}
                           = {i \in todo[key] \ ids : End(syms[i]) > Limit}
  BY DEF StackIsCurrent
<1>1. Indexing
  BY InIndex
<1>2. /\ IsTable(syms) /\ Begun \subseteq ID /\ Limit \in Word
      /\ stack \in Seq(Boundary) /\ Falls(stack)
  BY <1>1, IndexingFacts
<1>3. Len(stack) \in Nat /\ DOMAIN stack = 1..Len(stack)
  BY <1>2, ListFacts
<1>4. \A i \in 2..Len(stack) : stack[i - 1].addr >= stack[i].addr
  <2> DEFINE n == Len(stack)
  <2>1. n \in Nat
    BY <1>3
  <2> HIDE DEF n
  <2>2. \A i \in 2..n : i - 1 \in 1..n /\ i \in 1..n /\ i - 1 <= i
    BY <2>1
  <2> QED
    BY <2>2, <1>2, <1>3 DEF n, Falls
<1>5. \A i \in DOMAIN stack : stack[i].id \in Begun /\ stack[i].addr = End(syms[stack[i].id])
  BY <1>1 DEF Indexing, StackOK
<1>6. ASSUME Drained PROVE OnStack = {i \in Begun : End(syms[i]) > Limit}
  <2>1. ASSUME NEW q \in DOMAIN stack PROVE stack[q].addr > Limit
    <3>1. Len(stack) \in 1..Len(stack) /\ q <= Len(stack) /\ stack # <<>>
      BY <1>2, <1>3, ListFacts
    <3>2. Top(stack).addr > Limit /\ stack[q].addr >= Top(stack).addr
      BY <3>1, <1>2, <1>3, <1>6 DEF Drained, Falls, Top
    <3>3. Top(stack).addr \in Nat /\ stack[q].addr \in Nat /\ Limit \in Nat
      BY <3>1, <1>2, <1>3, ListFacts, WordsAreNumbers DEF WordFacts, Top
    <3> QED
      BY <3>2, <3>3
  <2>2. \A i \in OnStack : i \in Begun /\ End(syms[i]) > Limit
    BY <2>1, <1>5 DEF OnStack
  <2>3. ASSUME NEW i \in Begun, End(syms[i]) > Limit PROVE i \in OnStack
    <3>1. End(syms[i]) \in Nat /\ Limit \in Nat
      BY <1>2, SymFacts, WordsAreNumbers DEF WordFacts
    <3>2. ~ (End(syms[i]) <= Limit)
      BY <2>3, <3>1
    <3> QED
      BY <3>2, <1>1 DEF Indexing, StackOK
  <2> QED
    BY <2>2, <2>3
<1> QED
  BY <1>4, <1>5, <1>6 DEF OnStack, Begun

LEMMA KeysOf ==
  /\ \A section \in Section \cup {NoSection} : KeyOf(section) \in Key
  /\ \A k \in Key : KeyOf(k) = k
BY ConstantsAssumption DEF KeyOf, Key

LEMMA InvReady ==
  ASSUME IInv, pc = "ready", NoneWraps
  PROVE  \A k \in Key, a \in Word : Right(k, sections[k], a)
BY DEF IInv, SectionsOK

LEMMA InvComplete == IInv => Complete
<1> SUFFICES ASSUME IInv, pc = "ready", NoneWraps,
                    NEW section \in Section \cup {NoSection}, NEW a \in Word
             PROVE  LET S == Containing(KeyOf(section), a)
                    IN IF S = {} THEN Addr(section, a) = NoSym ELSE Addr(section, a) \in S
  BY DEF Complete
<1> QED
  BY InvReady, KeysOf DEF Right, Addr

LEMMA InvInnermost == IInv => Innermost
<1> SUFFICES ASSUME IInv, pc = "ready", NoneWraps, NEW k \in Key, NEW a \in Word,
                    Laminar(k), Containing(k, a) # {}
             PROVE  Addr(k, a) = Preferred(Containing(k, a))
  BY DEF Innermost
<1>1. Right(k, sections[k], a)
  BY InvReady
<1> QED
  BY <1>1, KeysOf DEF Right, Addr

-----------------------------------------------------------------------------
(* Theorems *)

\* While NewTable indexes the symbols of any table, the part of an index that is
\* built is right at every address below its last boundary, and at the last
\* boundary and up to the next event the symbol of that boundary is
\* (symtab.go:91-185).
THEOREM Invariance == Spec => []IInv
<1> QED
  BY InitInv, NextInv, PTL DEF Spec

\* An index is strictly sorted by address at every step of its construction, so
\* that the binary search of Addr is well defined (symtab.go:29-35, :204-206).
THEOREM AlwaysWellFormed == Spec => []WellFormed
<1> QED
  BY Invariance, InvWellFormed, PTL

\* Whatever is visited and drained, the stack holds the visited symbols that end
\* after the current address and no others (symtab.go:106-111).
THEOREM AlwaysStackIsCurrent == Spec => []StackIsCurrent
<1> QED
  BY Invariance, InvStackIsCurrent, PTL

\* However symbols overlap, Addr finds a symbol that contains the address if
\* there is one, and NoSym otherwise (symtab.go:188-191).
THEOREM AlwaysComplete == Spec => []Complete
<1> QED
  BY Invariance, InvComplete, PTL

\* Where symbols nest, Addr finds the innermost (symtab.go:193-195, :99-102).
THEOREM AlwaysInnermost == Spec => []Innermost
<1> QED
  BY Invariance, InvInnermost, PTL

-----------------------------------------------------------------------------
(* Sizes *)

LEMMA SymbolFacts ==
  ASSUME NEW sym \in Symbol
  PROVE  /\ IsSymbol(sym)
         /\ sym.value \in Nat /\ sym.value < W /\ sym.size \in Nat
         /\ Sz!Visited(sym) => /\ sym.section \in Section /\ sym.section \in Nat
                               /\ Sz!SecEnd(sym.section) \in Nat
                               /\ Sz!SecEnd(sym.section) < W
                               /\ sym.value <= Sz!SecEnd(sym.section)
<1>1. IsSymbol(sym)
  BY DEF Symbol, IsSymbol
<1>2. sym.value \in 0..W - 1 /\ sym.size \in 0..W - 1 /\ W \in Nat \ {0}
  BY ConstantsAssumption DEF Symbol, Word
<1>3. ASSUME NEW s \in Section PROVE Sz!SecEnd(s) \in Nat /\ Sz!SecEnd(s) < W
  <2> DEFINE a == Bounds[s].addr
             z == Bounds[s].size
  <2>1. a \in Nat /\ z \in Nat /\ W \in Nat \ {0}
    BY SizesAssumption, ConstantsAssumption DEF Word
  <2>2. (a + z) % W \in Nat /\ (a + z) % W < W
    <3> HIDE DEF a, z
    <3> QED
      BY <2>1
  <2> QED
    BY <2>2 DEF Sz!SecEnd
<1>4. ASSUME Sz!Visited(sym)
      PROVE  sym.section \in Section /\ sym.value <= Sz!SecEnd(sym.section)
  BY <1>4 DEF Sz!Visited, Symbol
<1>5. sym.value \in Nat /\ sym.value < W /\ sym.size \in Nat
  BY <1>2
<1>6. Section \subseteq Nat
  BY SizesAssumption
<1> QED
  BY <1>1, <1>3, <1>4, <1>5, <1>6

\* A symbol with another size.
Sized(sym, size) == [sym EXCEPT !.size = size, !.synthesized = TRUE]

LEMMA SizedFacts ==
  ASSUME NEW sym \in Symbol, NEW size \in Word
  PROVE  /\ Sized(sym, size) \in Symbol
         /\ Sized(sym, size).size = size /\ Sized(sym, size).synthesized
         /\ Sized(sym, size).value = sym.value
         /\ Sized(sym, size).section = sym.section
         /\ Sz!Visited(Sized(sym, size)) = Sz!Visited(sym)
         /\ Sz!IsSectionSym(Sized(sym, size)) = Sz!IsSectionSym(sym)
<1> DEFINE new == Sized(sym, size)
<1>1. /\ new \in Symbol /\ new.size = size /\ new.synthesized
      /\ new.value = sym.value /\ new.section = sym.section /\ new.kind = sym.kind
  BY DEF Sized, Symbol
<1> HIDE DEF new
<1>2. Sz!IsSectionSym(new) = Sz!IsSectionSym(sym)
  BY <1>1 DEF Sz!IsSectionSym
<1>3. Sz!Visited(new) = Sz!Visited(sym)
  BY <1>1, <1>2 DEF Sz!Visited
<1> QED
  BY <1>1, <1>2, <1>3 DEF new

\* Sizes change what a symbol covers, never where it is.
SamePlaces ==
  /\ ID' = ID
  /\ \A i \in ID : /\ syms'[i] \in Symbol
                   /\ syms'[i].value = syms[i].value
                   /\ syms'[i].section = syms[i].section
                   /\ Sz!Visited(syms'[i]) = Sz!Visited(syms[i])
                   /\ Sz!IsSectionSym(syms'[i]) = Sz!IsSectionSym(syms[i])

LEMMA SameAfter ==
  ASSUME SamePlaces
  PROVE  /\ \A i \in ID : Sz!After(i)' = Sz!After(i)
         /\ \A i \in ID : {syms'[j].value : j \in Sz!After(i)} = {syms[j].value : j \in Sz!After(i)}
         /\ \A i, j \in ID : Sz!Before(i, j)' = Sz!Before(i, j)
<1>1. \A i \in ID : Sz!After(i) \subseteq ID
  BY DEF Sz!After, ID
<1>2. ASSUME NEW i \in ID PROVE Sz!After(i)' = Sz!After(i)
  <2>1. Sz!After(i) = {j \in ID : /\ Sz!Visited(syms[j])
                                  /\ syms[j].section = syms[i].section
                                  /\ syms[j].value > syms[i].value}
    BY DEF Sz!After, ID
  <2>2. Sz!After(i)' = {j \in ID' : /\ Sz!Visited(syms'[j])
                                    /\ syms'[j].section = syms'[i].section
                                    /\ syms'[j].value > syms'[i].value}
    BY DEF Sz!After, ID, Sz!Visited, Sz!IsSectionSym, Sz!SecEnd
  <2> QED
    BY <2>1, <2>2 DEF SamePlaces
<1>3. ASSUME NEW i \in ID
      PROVE  {syms'[j].value : j \in Sz!After(i)} = {syms[j].value : j \in Sz!After(i)}
  BY <1>1 DEF SamePlaces
<1>4. \A i, j \in ID : Sz!Before(i, j)' = Sz!Before(i, j)
  BY DEF SamePlaces, Sz!Before
<1> QED
  BY <1>2, <1>3, <1>4

\* What ReachesNext says of a symbol.
Reaches(i) ==
  syms[i].value + syms[i].size
    = IF Sz!After(i) = {} THEN Sz!SecEnd(syms[i].section)
      ELSE Min({syms[j].value : j \in Sz!After(i)})

LEMMA ReachesAll ==
  /\ ReachesNext <=>
       \A i \in ID : syms[i].synthesized /\ ~ Sz!IsSectionSym(syms[i]) => Reaches(i)
  /\ ReachesNext' <=>
       \A i \in ID' : syms'[i].synthesized /\ ~ Sz!IsSectionSym(syms'[i]) => Reaches(i)'
<1>1. \A S : Sz!Min(S) = Min(S)
  BY DEF Sz!Min, Min
<1>2. \A i : Reaches(i) <=>
        syms[i].value + syms[i].size
          = IF Sz!After(i) = {} THEN Sz!SecEnd(syms[i].section)
            ELSE Sz!Min({syms[j].value : j \in Sz!After(i)})
  BY <1>1 DEF Reaches
<1>3. \A i : Reaches(i)' <=>
        syms'[i].value + syms'[i].size
          = IF Sz!After(i)' = {} THEN Sz!SecEnd(syms'[i].section)
            ELSE Sz!Min({syms'[j].value : j \in Sz!After(i)'})
  BY <1>1 DEF Reaches, Sz!SecEnd
<1> QED
  BY <1>2, <1>3 DEF ReachesNext, Sz!ReachesNext, Sz!IsSectionSym, Sz!SecEnd, ID

LEMMA ReachesSame ==
  ASSUME SamePlaces, NEW i \in ID
  PROVE  Reaches(i)' <=>
           syms[i].value + syms'[i].size
             = IF Sz!After(i) = {} THEN Sz!SecEnd(syms[i].section)
               ELSE Min({syms[j].value : j \in Sz!After(i)})
<1>1. Sz!After(i)' = Sz!After(i)
      /\ {syms'[j].value : j \in Sz!After(i)} = {syms[j].value : j \in Sz!After(i)}
  BY SameAfter
<1>2. syms'[i].value = syms[i].value /\ syms'[i].section = syms[i].section
  BY DEF SamePlaces
<1>3. Reaches(i)' <=>
        syms'[i].value + syms'[i].size
          = IF Sz!After(i)' = {} THEN Sz!SecEnd(syms'[i].section)
            ELSE Min({syms'[j].value : j \in Sz!After(i)'})
  BY DEF Reaches, Sz!SecEnd
<1> QED
  BY <1>1, <1>2, <1>3

LEMMA SizesInit == SizedInit => SizesOK
<1> SUFFICES ASSUME SizedInit PROVE SizesOK
  OBVIOUS
<1>1. /\ \A i \in ID : syms[i] \in Symbol /\ ~ syms[i].synthesized
      /\ unsized = {} /\ sizing = "gather"
  BY SizesAssumption DEF SizedInit, Init, Sz!Start, ID
<1> QED
  BY <1>1 DEF SizesOK, ReachesNext, Sz!ReachesNext, ID

LEMMA GatherOK == ASSUME SizesOK, Sz!Gather PROVE SamePlaces /\ SizesOK'
<1>1. /\ unsized' = {i \in ID : Sz!Visited(syms[i])}
      /\ syms' = [i \in ID |-> Sz!SizeSection(syms[i])]
      /\ sizing = "gather" /\ sizing' = "groups"
  BY DEF Sz!Gather, ID
<1>2. \A i \in ID : syms[i] \in Symbol /\ ~ syms[i].synthesized
  BY <1>1 DEF SizesOK
<1>3. ID' = ID
  BY <1>1 DEF ID
<1>4. ASSUME NEW i \in ID
      PROVE  /\ syms'[i] \in Symbol
             /\ syms'[i].value = syms[i].value /\ syms'[i].section = syms[i].section
             /\ Sz!Visited(syms'[i]) = Sz!Visited(syms[i])
             /\ Sz!IsSectionSym(syms'[i]) = Sz!IsSectionSym(syms[i])
             /\ syms'[i].synthesized => Sz!IsSectionSym(syms[i])
  <2> DEFINE sym == syms[i]
  <2>1. sym \in Symbol /\ ~ sym.synthesized /\ syms'[i] = Sz!SizeSection(sym)
    BY <1>1, <1>2
  <2> HIDE DEF sym
  <2>2. CASE Sz!IsSectionSym(sym) /\ sym.value = Bounds[sym.section].addr /\ sym.size = 0
    <3>1. syms'[i] = Sized(sym, Bounds[sym.section].size)
      BY <2>1, <2>2 DEF Sz!SizeSection, Sized
    <3>2. Bounds[sym.section].size \in Word
      BY <2>1, <2>2, SizesAssumption DEF Sz!IsSectionSym, Symbol
    <3>3. /\ syms'[i] \in Symbol
          /\ syms'[i].value = sym.value /\ syms'[i].section = sym.section
          /\ Sz!Visited(syms'[i]) = Sz!Visited(sym)
          /\ Sz!IsSectionSym(syms'[i]) = Sz!IsSectionSym(sym)
      BY <2>1, <3>1, <3>2, SizedFacts
    <3> QED
      BY <2>2, <3>3 DEF sym
  <2>3. CASE ~ (Sz!IsSectionSym(sym) /\ sym.value = Bounds[sym.section].addr /\ sym.size = 0)
    <3>1. syms'[i] = sym
      BY <2>1, <2>3 DEF Sz!SizeSection
    <3> QED
      BY <2>1, <3>1 DEF sym
  <2> QED
    BY <2>2, <2>3
<1>5. SamePlaces
  BY <1>3, <1>4 DEF SamePlaces
<1>6. \A i \in unsized' : Sz!Visited(syms'[i]) /\ ~ syms'[i].synthesized
  BY <1>1, <1>4 DEF Sz!Visited
<1>7. \A j \in ID' \ unsized' : ~ Sz!Visited(syms'[j])
  BY <1>1, <1>3, <1>4
<1>8. \A i \in ID' : ~ (syms'[i].synthesized /\ ~ Sz!IsSectionSym(syms'[i]))
  BY <1>3, <1>4
<1>9. ReachesNext'
  BY <1>8 DEF ReachesNext, Sz!ReachesNext, ID, Sz!IsSectionSym
<1>10. \A i \in ID' : syms'[i] \in Symbol
  BY <1>3, <1>4
<1>11. unsized' \subseteq ID'
  BY <1>1, <1>3
<1> QED
  BY <1>1, <1>5, <1>6, <1>7, <1>8, <1>9, <1>10, <1>11
  DEF SizesOK, Sz!Visited, Sz!IsSectionSym, Sz!SecEnd, Symbol, Word

\* The room after a group ends where the next symbol of the section starts, or
\* at the section's end.
LEMMA RoomRight ==
  ASSUME SizesOK, NEW s1 \in unsized, s1 \in Sz!Firsts
  PROVE  LET group == {j \in unsized : Sz!SamePlace(s1, j)}
             room == Sz!RoomAfter(s1, unsized \ group)
         IN /\ room \in Word
            /\ syms[s1].value + room
                 = IF Sz!After(s1) = {} THEN Sz!SecEnd(syms[s1].section)
                   ELSE Min({syms[j].value : j \in Sz!After(s1)})
<1> DEFINE group == {j \in unsized : Sz!SamePlace(s1, j)}
           rest == unsized \ group
           next == {j \in rest : \A k \in rest : ~ Sz!Before(k, j)}
           same == {j \in next : syms[j].section = syms[s1].section}
           end == IF same = {} THEN Sz!SecEnd(syms[s1].section)
                  ELSE syms[CHOOSE j \in same : TRUE].value
           A == Sz!After(s1)
           V == {syms[j].value : j \in A}
           v == syms[s1].value
<1>1. unsized \subseteq ID /\ \A i \in ID : syms[i] \in Symbol
  BY DEF SizesOK
<1>2. /\ \A i \in unsized : Sz!Visited(syms[i])
      /\ \A i \in unsized, j \in ID \ unsized : Sz!Visited(syms[j]) => Sz!Before(j, i)
  BY DEF SizesOK
<1>3. \A i \in ID : /\ syms[i].value \in Nat /\ syms[i].value < W
                    /\ Sz!Visited(syms[i]) => /\ syms[i].section \in Nat
                                              /\ Sz!SecEnd(syms[i].section) \in Nat
                                              /\ Sz!SecEnd(syms[i].section) < W
                                              /\ syms[i].value <= Sz!SecEnd(syms[i].section)
  BY <1>1, SymbolFacts
<1>4. \A j \in unsized : ~ Sz!Before(j, s1)
  BY DEF Sz!Firsts
<1>5. A = {j \in rest : syms[j].section = syms[s1].section}
  <2>1. ASSUME NEW j \in A PROVE j \in rest /\ syms[j].section = syms[s1].section
    <3>1. /\ j \in ID /\ Sz!Visited(syms[j])
          /\ syms[j].section = syms[s1].section /\ syms[j].value > v
      BY DEF Sz!After, ID
    <3>2. j \in unsized
      BY <3>1, <1>1, <1>2, <1>3 DEF Sz!Before
    <3>3. j \notin group
      BY <3>1, <1>1, <1>3 DEF Sz!SamePlace
    <3> QED
      BY <3>1, <3>2, <3>3
  <2>2. ASSUME NEW j \in rest, syms[j].section = syms[s1].section PROVE j \in A
    <3>1. syms[j].value # v /\ ~ (syms[j].value < v)
      BY <2>2, <1>1, <1>4 DEF Sz!SamePlace, Sz!Before
    <3>2. syms[j].value > v
      BY <3>1, <1>1, <1>3
    <3> QED
      BY <2>2, <3>2, <1>1, <1>2 DEF Sz!After, ID
  <2> QED
    BY <2>1, <2>2
<1>6. same \subseteq A
  BY <1>5
<1>7. \A j \in A : syms[j].value \in Nat /\ syms[j].value < W /\ syms[j].value > v
  BY <1>1, <1>3 DEF Sz!After, ID
<1> DEFINE EndRight ==
             /\ end \in Nat /\ end < W /\ v <= end
             /\ end = IF A = {} THEN Sz!SecEnd(syms[s1].section) ELSE Min(V)
<1>8. ASSUME A = {} PROVE EndRight
  <2>1. end = Sz!SecEnd(syms[s1].section)
    BY <1>6, <1>8
  <2>2. end \in Nat /\ end < W /\ v <= end
    BY <2>1, <1>1, <1>2, <1>3
  <2>3. end = IF A = {} THEN Sz!SecEnd(syms[s1].section) ELSE Min(V)
    BY <2>1, <1>8
  <2> QED
    BY <2>2, <2>3
<1>9. ASSUME A # {} PROVE EndRight
  <2>1. Min(V) \in V /\ \A y \in V : Min(V) <= y
    <3>1. V \in SUBSET Nat /\ V # {}
      BY <1>7, <1>9
    <3> HIDE DEF V
    <3> QED
      BY <3>1, LeastNat
  <2>2. PICK m \in A : syms[m].value = Min(V)
    BY <2>1
  <2>3. m \in same
    <3>1. m \in rest /\ syms[m].section = syms[s1].section
      BY <1>5
    <3>2. ASSUME NEW k \in rest PROVE ~ Sz!Before(k, m)
      <4>1. ~ (syms[k].section < syms[s1].section)
        BY <1>4 DEF Sz!Before
      <4>2. syms[k].section = syms[s1].section => syms[m].value <= syms[k].value
        BY <1>5, <2>1, <2>2
      <4>3. syms[k].value \in Nat /\ syms[m].value \in Nat
        BY <1>1, <1>3, <3>1
      <4> QED
        BY <4>1, <4>2, <4>3, <3>1 DEF Sz!Before
    <3> QED
      BY <3>1, <3>2
  <2>4. PICK c \in same : c = CHOOSE j \in same : TRUE
    BY <2>3
  <2>5. c \in A /\ ~ Sz!Before(m, c)
    BY <1>5, <2>3, <2>4
  <2>6. ~ (syms[m].value < syms[c].value)
    BY <2>5, <2>3 DEF Sz!Before
  <2>7. syms[c].value = Min(V)
    <3>1. Min(V) <= syms[c].value
      BY <2>1, <2>5
    <3>2. syms[c].value \in Nat /\ syms[m].value \in Nat
      BY <2>5, <1>7
    <3> QED
      BY <3>1, <3>2, <2>2, <2>6
  <2>8. end = Min(V)
    BY <2>3, <2>4, <2>7
  <2>9. end \in Nat /\ end < W /\ v <= end
    BY <2>2, <2>8, <1>7, <1>1, <1>3
  <2> QED
    BY <1>9, <2>8, <2>9
<1>10. EndRight
  BY <1>8, <1>9
<1> DEFINE room == Sz!RoomAfter(s1, rest)
<1>11. room = (W + end - v) % W
  BY DEF Sz!RoomAfter
<1>12. v \in Nat /\ W \in Nat \ {0}
  BY <1>1, <1>3, ConstantsAssumption
<1> HIDE DEF room, end, v, A, V
<1>13. (W + end - v) % W = end - v
  <2>1. end - v \in 0..W - 1 /\ W + end - v = (end - v) + W
    BY <1>10, <1>12
  <2>2. \A d \in 0..W - 1 : (d + W) % W = d
    BY <1>12
  <2> QED
    BY <2>1, <2>2
<1>14. room \in Word /\ v + room = end
  BY <1>10, <1>11, <1>12, <1>13 DEF Word
<1>15. v + room = IF A = {} THEN Sz!SecEnd(syms[s1].section) ELSE Min(V)
  BY <1>10, <1>14
<1> QED
  BY <1>14, <1>15 DEF room, v, A, V

LEMMA GroupOK ==
  ASSUME SizesOK, NEW s1 \in ID, Sz!Group(s1)
  PROVE  SamePlaces /\ SizesOK'
<1> DEFINE group == {j \in unsized : Sz!SamePlace(s1, j)}
           room == Sz!RoomAfter(s1, unsized \ group)
<1>1. /\ s1 \in Sz!Firsts /\ sizing = "groups" /\ sizing' = "groups"
      /\ unsized' = unsized \ group
      /\ syms' = IF Sz!AnyZero(s1, group)
                 THEN [i \in ID |->
                         IF i \in group /\ syms[i].size = 0
                         THEN Sized(syms[i], room) ELSE syms[i]]
                 ELSE syms
  BY DEF Sz!Group, ID, Sized
<1>2. /\ unsized \subseteq ID /\ (\A i \in ID : syms[i] \in Symbol)
      /\ (\A i \in unsized : Sz!Visited(syms[i]) /\ ~ syms[i].synthesized)
      /\ (\A i \in unsized, j \in ID \ unsized : Sz!Visited(syms[j]) => Sz!Before(j, i))
      /\ (\A i \in ID : syms[i].synthesized /\ ~ Sz!IsSectionSym(syms[i]) => Sz!Visited(syms[i]))
      /\ ReachesNext
  BY DEF SizesOK
<1>3. s1 \in unsized
  BY <1>1 DEF Sz!Firsts
<1>4. /\ room \in Word
      /\ syms[s1].value + room
           = IF Sz!After(s1) = {} THEN Sz!SecEnd(syms[s1].section)
             ELSE Min({syms[j].value : j \in Sz!After(s1)})
  BY <1>1, <1>3, RoomRight
<1> HIDE DEF room
<1>5. ID' = ID
  BY <1>1 DEF ID
<1>6. ASSUME NEW i \in ID
      PROVE  syms'[i] = syms[i] \/ (i \in group /\ syms'[i] = Sized(syms[i], room))
  BY <1>1
<1>7. SamePlaces
  <2>1. ASSUME NEW i \in ID
        PROVE  /\ syms'[i] \in Symbol
               /\ syms'[i].value = syms[i].value
               /\ syms'[i].section = syms[i].section
               /\ Sz!Visited(syms'[i]) = Sz!Visited(syms[i])
               /\ Sz!IsSectionSym(syms'[i]) = Sz!IsSectionSym(syms[i])
    <3>1. syms[i] \in Symbol
      BY <1>2
    <3> QED
      BY <3>1, <1>4, <1>6, SizedFacts
  <2> QED
    BY <2>1, <1>5 DEF SamePlaces
<1>8. \A i \in unsized' : Sz!Visited(syms'[i]) /\ ~ syms'[i].synthesized
  <2> SUFFICES ASSUME NEW i \in unsized' PROVE Sz!Visited(syms'[i]) /\ ~ syms'[i].synthesized
    OBVIOUS
  <2>1. i \in unsized /\ i \notin group /\ i \in ID
    BY <1>1, <1>2
  <2>2. syms'[i] = syms[i]
    BY <2>1, <1>6
  <2> QED
    BY <2>1, <2>2, <1>2
\* Those of the group come before all that are left.
<1>9. ASSUME NEW i \in unsized', NEW j \in ID \ unsized', Sz!Visited(syms'[j])
      PROVE  Sz!Before(j, i)'
  <2>1. i \in unsized /\ i \notin group /\ i \in ID /\ Sz!Visited(syms[j])
    BY <1>1, <1>2, <1>7, <1>9 DEF SamePlaces
  <2>2. Sz!Before(j, i)
    <3>1. CASE j \notin unsized
      BY <3>1, <2>1, <1>2
    <3>2. CASE j \in unsized
      <4>1. syms[s1].section = syms[j].section /\ syms[s1].value = syms[j].value
        BY <3>2, <1>1 DEF Sz!SamePlace
      <4>2. ~ Sz!Before(i, s1) /\ ~ Sz!SamePlace(s1, i)
        BY <2>1, <1>1 DEF Sz!Firsts
      <4>3. /\ syms[i].section \in Nat /\ syms[j].section \in Nat
            /\ syms[i].value \in Nat /\ syms[j].value \in Nat
        BY <2>1, <3>2, <1>2, SymbolFacts
      <4> QED
        BY <4>1, <4>2, <4>3 DEF Sz!Before, Sz!SamePlace
    <3> QED
      BY <3>1, <3>2
  <2>3. Sz!Before(j, i)' = Sz!Before(j, i)
    BY <2>1, <1>7, SameAfter
  <2> QED
    BY <2>2, <2>3
<1>10. \A i \in ID : syms'[i].synthesized /\ ~ Sz!IsSectionSym(syms'[i]) => Sz!Visited(syms'[i])
  <2> SUFFICES ASSUME NEW i \in ID, syms'[i].synthesized, ~ Sz!IsSectionSym(syms'[i])
               PROVE  Sz!Visited(syms'[i])
    OBVIOUS
  <2>1. i \in group => Sz!Visited(syms[i])
    BY <1>2
  <2>2. Sz!Visited(syms'[i]) = Sz!Visited(syms[i])
        /\ Sz!IsSectionSym(syms'[i]) = Sz!IsSectionSym(syms[i])
    BY <1>7 DEF SamePlaces
  <2> QED
    BY <2>1, <2>2, <1>2, <1>6
<1>11. ASSUME NEW i \in ID, syms'[i].synthesized, ~ Sz!IsSectionSym(syms'[i])
       PROVE  Reaches(i)'
  <2>1. Reaches(i)' <=>
          syms[i].value + syms'[i].size
            = IF Sz!After(i) = {} THEN Sz!SecEnd(syms[i].section)
              ELSE Min({syms[j].value : j \in Sz!After(i)})
    BY <1>7, ReachesSame
  <2>2. CASE syms'[i] = syms[i]
    <3>1. Reaches(i)
      BY <2>2, <1>2, <1>11, ReachesAll
    <3> QED
      BY <2>1, <2>2, <3>1 DEF Reaches
  <2>3. CASE i \in group /\ syms'[i] = Sized(syms[i], room)
    <3>1. syms'[i].size = room
      BY <2>3, <1>2, <1>4, SizedFacts
    <3>2. syms[s1].section = syms[i].section /\ syms[s1].value = syms[i].value
      BY <2>3 DEF Sz!SamePlace
    <3>3. Sz!After(i) = Sz!After(s1)
      BY <3>2 DEF Sz!After
    <3> QED
      BY <2>1, <3>1, <3>2, <3>3, <1>4
  <2> QED
    BY <2>2, <2>3, <1>6
<1>12. ReachesNext'
  BY <1>5, <1>11, ReachesAll
<1>13. \A i \in ID : syms'[i] \in Symbol
  BY <1>7 DEF SamePlaces
<1>14. unsized' \subseteq ID
  BY <1>1, <1>2
<1> QED
  BY <1>1, <1>5, <1>7, <1>8, <1>9, <1>10, <1>12, <1>13, <1>14
  DEF SizesOK, Sz!Visited, Sz!IsSectionSym, Sz!SecEnd, Symbol, Word

LEMMA SizesKept ==
  ASSUME SizesOK, syms' = syms, unsized' = unsized, sizing' \in {sizing, "done"}
  PROVE  SizesOK'
<1>1. \A i, j : Sz!Before(i, j)' = Sz!Before(i, j)
  BY DEF Sz!Before
<1>2. ReachesNext'
  <2>1. \A i : Sz!After(i)' = Sz!After(i)
    BY DEF Sz!After, Sz!Visited, Sz!IsSectionSym, Sz!SecEnd
  <2> QED
    BY <2>1 DEF SizesOK, ReachesNext, Sz!ReachesNext, Sz!IsSectionSym, Sz!SecEnd
<1> QED
  BY <1>1, <1>2 DEF SizesOK, ID, Symbol, Word, Sz!Visited, Sz!IsSectionSym, Sz!SecEnd

-----------------------------------------------------------------------------
(* The invariant *)

LEMMA SizedInitInv == SizedInit => SizedInv
BY InitInv, SizesInit DEF SizedInit, SizedInv

\* SynthesizeSizes runs before NewTable, which then finds a slice of symbols.
LEMMA SynthesizeSizesInv == ASSUME SizedInv, SynthesizeSizes PROVE SizedInv'
<1>1. /\ pc = "new" /\ Sz!Next /\ names' = names /\ todo' = todo /\ sections' = sections
      /\ key' = key /\ ids' = ids /\ stack' = stack /\ out' = out /\ pc' = pc
  BY DEF SynthesizeSizes
<1>2. IInv /\ SizesOK /\ TypeOK
  BY DEF SizedInv, IInv
<1>3. (SamePlaces \/ syms' = syms) /\ SizesOK'
  <2>1. CASE Sz!Gather
    BY <2>1, <1>2, GatherOK
  <2>2. CASE \E s1 \in DOMAIN syms : Sz!Group(s1)
    BY <2>2, <1>2, GroupOK DEF ID
  <2>3. CASE Sz!Finish
    <3>1. syms' = syms /\ unsized' = unsized /\ sizing' = "done"
      BY <2>3 DEF Sz!Finish
    <3> QED
      BY <3>1, <1>2, SizesKept
  <2> QED
    BY <2>1, <2>2, <2>3, <1>1 DEF Sz!Next
<1>4. ID' = ID /\ IsTable(syms)'
  <2>1. CASE syms' = syms
    BY <2>1, <1>2, SameTable DEF TypeOK
  <2>2. CASE SamePlaces
    <3>1. ID' = ID /\ \A i \in ID : IsSymbol(syms'[i])
      BY <2>2, SymbolFacts DEF SamePlaces
    <3> QED
      BY <3>1, <1>2 DEF TypeOK, IsTable, ID, IsSymbol
  <2> QED
    BY <2>1, <2>2, <1>3
<1>5. Boundary' = Boundary /\ Key' = Key
  BY <1>4 DEF Boundary, Key
<1>6. TypeOK'
  BY <1>1, <1>2, <1>4, <1>5 DEF TypeOK
<1> QED
  BY <1>1, <1>2, <1>3, <1>5, <1>6 DEF SizedInv, IInv

LEMMA BuildInv == ASSUME SizedInv, Build PROVE SizedInv'
<1>1. Next /\ unsized' = unsized /\ sizing' = sizing /\ IInv /\ SizesOK
  BY DEF Build, SizedInv
<1>2. syms' = syms
  BY <1>1 DEF Next, NewTable, MakeAddrIndex, DrainStack, StartSymbol, IndexDone, TableDone
<1>3. SizesOK'
  BY <1>1, <1>2, SizesKept
<1> QED
  BY <1>1, <1>3, NextInv DEF SizedInv

LEMMA SizedNextInv == SizedInv /\ [SizedNext]_allvars => SizedInv'
<1> SUFFICES ASSUME SizedInv, [SizedNext]_allvars PROVE SizedInv'
  OBVIOUS
<1>1. CASE SynthesizeSizes
  BY <1>1, SynthesizeSizesInv
<1>2. CASE Build
  BY <1>2, BuildInv
<1>3. CASE UNCHANGED allvars
  <2>1. UNCHANGED vars /\ syms' = syms /\ unsized' = unsized /\ sizing' = sizing
    BY <1>3 DEF allvars, vars
  <2> QED
    BY <2>1, StutterInv, SizesKept DEF SizedInv
<1> QED
  BY <1>1, <1>2, <1>3 DEF SizedNext

-----------------------------------------------------------------------------
(* A section that is covered *)

LEMMA InvSizedCovers == SizedInv => SizedCovers
<1> SUFFICES ASSUME SizedInv, pc = "ready", sizing = "done", NoneWraps,
                    NEW s \in Section, NEW a \in Word,
                    \A i \in SymsOf(KeyOf(s)) : syms[i].section = s /\ syms[i].synthesized,
                    \A i \in ID : syms[i].section = s => syms[i].kind # "section",
                    \A i \in VisitedOf(s) : syms[i].synthesized,
                    {i \in VisitedOf(s) : syms[i].value <= a} # {},
                    a < Sz!SecEnd(s)
             PROVE  LET below == {i \in VisitedOf(s) : syms[i].value <= a}
                    IN Addr(s, a) \in
                         {i \in below : \A j \in below : syms[j].value <= syms[i].value}
  BY DEF SizedCovers
<1> DEFINE below == {i \in VisitedOf(s) : syms[i].value <= a}
           V == {syms[i].value : i \in below}
<1>1. IInv /\ SizesOK /\ IsTable(syms)
  BY DEF SizedInv, IInv, TypeOK
<1>2. \A i \in ID : syms[i] \in Symbol /\ syms[i].value \in Nat /\ syms[i].size \in Nat
  BY <1>1, SymbolFacts DEF SizesOK
<1>3. a \in Nat
  BY WordsAreNumbers DEF WordFacts
\* Every visited symbol of the section reaches the next one.
<1>4. ASSUME NEW i \in VisitedOf(s) PROVE i \in ID /\ Reaches(i)
  <2>1. i \in ID /\ syms[i].section = s /\ Sz!Visited(syms[i]) /\ syms[i].synthesized
    BY DEF VisitedOf
  <2>2. ~ Sz!IsSectionSym(syms[i])
    BY <2>1 DEF Sz!Visited
  <2> QED
    BY <2>1, <2>2, <1>1, ReachesAll DEF SizesOK
<1>5. Max(V) \in V /\ \A y \in V : y <= Max(V)
  <2>1. V \in SUBSET Nat /\ V # {} /\ \A y \in V : y <= a
    BY <1>2 DEF VisitedOf
  <2> HIDE DEF V
  <2> QED
    BY <2>1, <1>3, GreatestNat
<1>6. PICK l \in below : syms[l].value = Max(V)
  BY <1>5
<1>7. \A j \in below : syms[j].value <= syms[l].value
  BY <1>5, <1>6
\* The last to start at or before the address contains it.
<1>8. a < syms[l].value + syms[l].size
  <2>1. Reaches(l) /\ l \in ID /\ syms[l].section = s
    BY <1>4, <1>6 DEF VisitedOf
  <2>2. CASE Sz!After(l) = {}
    BY <2>1, <2>2 DEF Reaches
  <2>3. CASE Sz!After(l) # {}
    <3> DEFINE N == {syms[j].value : j \in Sz!After(l)}
    <3>1. N \in SUBSET Nat /\ N # {}
      BY <2>3, <1>2 DEF Sz!After, ID
    <3>2. Min(N) \in N
      <4> HIDE DEF N
      <4> QED
        BY <3>1, LeastNat
    <3>3. PICK j \in Sz!After(l) : syms[j].value = Min(N)
      BY <3>2
    <3>4. j \in VisitedOf(s) /\ syms[j].value > syms[l].value /\ j \in ID
      BY <2>1, <3>3 DEF Sz!After, VisitedOf, ID
    <3>5. ~ (syms[j].value <= a)
      BY <2>1, <3>4, <1>2, <1>6, <1>7
    <3>6. syms[l].value + syms[l].size = Min(N)
      BY <2>1, <2>3 DEF Reaches
    <3> QED
      BY <3>3, <3>4, <3>5, <3>6, <1>2, <1>3
  <2> QED
    BY <2>2, <2>3
<1>9. l \in Containing(KeyOf(s), a)
  <2>1. l \in ID /\ syms[l].section = s /\ syms[l].value <= a
    BY <1>6 DEF VisitedOf
  <2>2. syms[l].size # 0
    BY <2>1, <1>2, <1>3, <1>8
  <2>3. s # NoSection
    BY ConstantsAssumption
  <2> QED
    BY <2>1, <2>2, <2>3, <1>8 DEF Containing, SymsOf
<1> DEFINE c == Addr(s, a)
<1>10. c \in Containing(KeyOf(s), a)
  BY <1>1, <1>9, InvComplete DEF Complete
<1> HIDE DEF c
<1>11. /\ c \in ID /\ syms[c].section = s /\ syms[c].synthesized /\ syms[c].kind # "section"
       /\ syms[c].value <= a /\ a < syms[c].value + syms[c].size
  BY <1>10 DEF Containing, SymsOf
<1>12. c \in below
  <2>1. Sz!Visited(syms[c])
    BY <1>1, <1>11 DEF SizesOK, Sz!IsSectionSym
  <2> QED
    BY <2>1, <1>11 DEF VisitedOf
\* One that starts earlier ends before the address.
<1>13. syms[c].value = syms[l].value
  <2>1. SUFFICES ASSUME syms[c].value < syms[l].value PROVE FALSE
    BY <1>7, <1>12, <1>2, <1>6, <1>11 DEF VisitedOf
  <2> DEFINE N == {syms[j].value : j \in Sz!After(c)}
  <2>2. l \in Sz!After(c)
    BY <2>1, <1>6, <1>11 DEF Sz!After, VisitedOf, ID
  <2>3. N \in SUBSET Nat /\ N # {}
    BY <2>2, <1>2 DEF Sz!After, ID
  <2>4. \A y \in N : Min(N) <= y
    <3> HIDE DEF N
    <3> QED
      BY <2>3, LeastNat
  <2>5. Min(N) <= syms[l].value
    BY <2>2, <2>4
  <2>6. syms[c].value + syms[c].size = Min(N)
    BY <2>2, <1>4, <1>12 DEF Reaches
  <2> QED
    BY <2>5, <2>6, <1>2, <1>3, <1>6, <1>11 DEF VisitedOf
<1> QED
  BY <1>7, <1>12, <1>13 DEF c

-----------------------------------------------------------------------------
(* Theorems *)

\* Whether or not sizes are synthesized first, each step of SynthesizeSizes and
\* of NewTable keeps the invariants of both (size.go:11-89, symtab.go:40-185).
THEOREM SizedInvariance == SizedSpec => []SizedInv
<1> QED
  BY SizedInitInv, SizedNextInv, PTL DEF SizedSpec

\* The index is strictly sorted by address as it is built (symtab.go:29-35).
THEOREM SizedWellFormed == SizedSpec => []WellFormed
<1>1. SizedInv => WellFormed
  BY InvWellFormed DEF SizedInv
<1> QED
  BY <1>1, SizedInvariance, PTL

\* The stack holds just the symbols at the current address (symtab.go:106-111).
THEOREM SizedStackIsCurrent == SizedSpec => []StackIsCurrent
<1>1. SizedInv => StackIsCurrent
  BY InvStackIsCurrent DEF SizedInv
<1> QED
  BY <1>1, SizedInvariance, PTL

\* Addr finds a symbol that contains the address if there is one
\* (symtab.go:188-191).
THEOREM SizedComplete == SizedSpec => []Complete
<1>1. SizedInv => Complete
  BY InvComplete DEF SizedInv
<1> QED
  BY <1>1, SizedInvariance, PTL

\* Where symbols nest, Addr finds the innermost (symtab.go:193-195).
THEOREM SizedInnermost == SizedSpec => []Innermost
<1>1. SizedInv => Innermost
  BY InvInnermost DEF SizedInv
<1> QED
  BY <1>1, SizedInvariance, PTL

\* In whatever order symbols and sections are, and whatever lies past the end of
\* a section, a synthesized size reaches exactly to the next symbol of the
\* section or to its end (size.go:68-77).
THEOREM AlwaysReachesNext == SizedSpec => []ReachesNext
<1>1. SizedInv => ReachesNext
  BY DEF SizedInv, SizesOK
<1> QED
  BY <1>1, SizedInvariance, PTL

\* A section whose sizes are all synthesized has no holes from its first symbol
\* to its end: each address finds the last symbol that starts at or before it
\* (symtab.go:47-50, size.go:9-10).
THEOREM AlwaysSizedCovers == SizedSpec => []SizedCovers
<1> QED
  BY InvSizedCovers, SizedInvariance, PTL
=============================================================================
