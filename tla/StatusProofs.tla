---------------------------- MODULE StatusProofs ----------------------------
(***************************************************************************)
(* Theorems of what `status` makes of a text and a scan (IndexStatus), for *)
(* all texts, snapshots and scans: a text is loaded with a scan policy     *)
(* exactly if it has one, a snapshot that was saved is loaded as it was,   *)
(* and what is reported is the difference between the records and the      *)
(* scan.                                                                   *)
(*                                                                         *)
(* The order of strings is a strict total order, so that records can be    *)
(* brought in order; the loader knows of the policy what the lines behind  *)
(* it say; a saved text is a sum of lines, each of which is read as what   *)
(* was written, because escaping is undone and normalisation leaves what   *)
(* it has made; and the merge has counted the paths that both sides have   *)
(* passed.                                                                 *)
(***************************************************************************)
EXTENDS IndexStatus, SequenceTheorems, WellFoundedInduction, FunctionTheorems,
        FiniteSetTheorems, TLAPS

USE DEF Precedes

Texts == Seq(Nat)
StrictOrder ==
    /\ \A p \in Texts : ~ Load!Before(p, p)
    /\ \A p, q, r \in Texts :
          Load!Before(p, q) /\ Load!Before(q, r) => Load!Before(p, r)
    /\ \A p, q \in Texts : p = q \/ Load!Before(p, q) \/ Load!Before(q, p)
-----------------------------------------------------------------------------
\* The modules that are instances here have their own copy of the library.
LEMMA SameLibrary == \A S : /\ Merge!Cardinality(S) = Cardinality(S)
                            /\ Load!Cardinality(S) = Cardinality(S)
BY DEF Merge!Cardinality, Load!Cardinality, Cardinality, Merge!IsFiniteSet, Load!IsFiniteSet,
       IsFiniteSet
-----------------------------------------------------------------------------
LEMMA LeastNumber ==
  ASSUME NEW T \in SUBSET Nat, T # {}
  PROVE  \E n \in T : \A m \in T : n <= m
<1> DEFINE R == OpToRel(<, Nat)
<1>1. IsWellFoundedOn(R, Nat)
  BY NatLessThanWellFounded
<1>2. PICK n \in T : \A m \in T : <<m, n>> \notin R
  <2> HIDE DEF R
  <2>1. QED BY <1>1, WFMin
<1>3. \A m \in T : ~ (m < n)
  BY <1>2 DEF OpToRel
<1>4. QED BY <1>3

\* Induction up to a number, for a set.
LEMMA UpTo ==
  ASSUME NEW n \in Nat, NEW S, 0 \in S, \A i \in 1 .. n : i - 1 \in S => i \in S
  PROVE  0 .. n \subseteq S
<1> DEFINE T == {i \in 0 .. n : i \notin S}
<1>1. SUFFICES ASSUME T # {}
               PROVE  FALSE
  OBVIOUS
<1>2. PICK i \in T : \A j \in T : i <= j
  <2>1. T \in SUBSET Nat
    OBVIOUS
  <2> HIDE DEF T
  <2>2. QED BY <1>1, <2>1, LeastNumber
<1>3. i \in 1 .. n /\ i - 1 \in 0 .. n /\ i - 1 \notin T
  BY <1>2
<1>4. QED BY <1>2, <1>3

\* A function can be defined by recursion, a step at a time.
IsRecursive(g, n, T, b, E) ==
    g \in [0 .. n -> T] /\ g[0] = b /\ \A i \in 1 .. n : g[i] = E[<<i, g[i - 1]>>]

LEMMA Recursion ==
  ASSUME NEW n \in Nat, NEW T, NEW b \in T, NEW E \in [(1 .. n) \X T -> T]
  PROVE  \E g : IsRecursive(g, n, T, b, E)
<1> DEFINE Is(g, k) == /\ g \in [0 .. k -> T] /\ g[0] = b
                       /\ \A i \in 1 .. k : g[i] = E[<<i, g[i - 1]>>]
           S == {k \in 0 .. n : \E g : Is(g, k)}
<1>1. 0 \in S
  <2>1. Is([i \in 0 .. 0 |-> b], 0)
    OBVIOUS
  <2> HIDE DEF Is
  <2>2. QED BY <2>1
<1>2. ASSUME NEW k \in 1 .. n, k - 1 \in S
      PROVE  k \in S
  <2>1. PICK g : Is(g, k - 1)
    BY <1>2
  <2> DEFINE h == [i \in 0 .. k |-> IF i = k THEN E[<<k, g[k - 1]>>] ELSE g[i]]
  <2>2. g[k - 1] \in T /\ <<k, g[k - 1]>> \in (1 .. n) \X T
    BY <2>1
  <2>3. h \in [0 .. k -> T] /\ h[0] = b
    BY <2>1, <2>2
  <2>4. \A i \in 1 .. k : h[i] = E[<<i, h[i - 1]>>]
    <3>1. ASSUME NEW i \in 1 .. k, i # k
          PROVE  i \in 1 .. k - 1 /\ h[i] = g[i] /\ h[i - 1] = g[i - 1]
      BY <3>1
    <3>2. h[k] = E[<<k, g[k - 1]>>] /\ h[k - 1] = g[k - 1]
      OBVIOUS
    <3>3. \A i \in 1 .. k - 1 : g[i] = E[<<i, g[i - 1]>>]
      BY <2>1
    <3> HIDE DEF h
    <3>4. QED BY <3>1, <3>2, <3>3
  <2>5. Is(h, k)
    BY <2>3, <2>4
  <2>6. QED
    <3> HIDE DEF h, Is
    <3> QED BY <2>5
<1>3. n \in S
  <2> HIDE DEF S
  <2>1. 0 .. n \subseteq S
    BY <1>1, <1>2, UpTo
  <2>2. QED BY <2>1
<1>4. QED BY <1>3 DEF IsRecursive
-----------------------------------------------------------------------------
\* The order of strings: they agree up to a place where one ends or is less.
Differ(a, b, k) ==
    /\ k \in Nat /\ k <= Len(a) /\ k < Len(b)
    /\ \A j \in 1 .. k : a[j] = b[j]
    /\ k = Len(a) \/ a[k + 1] < b[k + 1]

LEMMA BeforeIs ==
  ASSUME NEW a \in Texts, NEW b \in Texts
  PROVE  Load!Before(a, b) <=> \E k \in Nat : Differ(a, b, k)
<1>0. /\ Len(a) \in Nat /\ Len(b) \in Nat /\ DOMAIN a = 1 .. Len(a) /\ DOMAIN b = 1 .. Len(b)
      /\ \A i \in 1 .. Len(a) : a[i] \in Nat
      /\ \A i \in 1 .. Len(b) : b[i] \in Nat
  BY ElementOfSeq DEF Texts
<1>1. ASSUME NEW k \in Nat, k <= Len(a), k <= Len(b)
      PROVE  SubSeq(a, 1, k) = SubSeq(b, 1, k) <=> \A j \in 1 .. k : a[j] = b[j]
  <2>1. /\ SubSeq(a, 1, k) \in Seq(Nat) /\ SubSeq(b, 1, k) \in Seq(Nat)
        /\ Len(SubSeq(a, 1, k)) = k /\ Len(SubSeq(b, 1, k)) = k
        /\ \A j \in 1 .. k : SubSeq(a, 1, k)[j] = a[j]
        /\ \A j \in 1 .. k : SubSeq(b, 1, k)[j] = b[j]
    <3>1. 1 \in Int /\ k \in Int
      OBVIOUS
    <3>2. /\ \A i \in 1 .. k : i \in 1 .. Len(a) /\ a[i] \in Nat
          /\ \A i \in 1 .. k : i \in 1 .. Len(b) /\ b[i] \in Nat
      BY <1>0, <1>1
    <3>3. /\ SubSeq(a, 1, k) \in Seq(Nat)
          /\ Len(SubSeq(a, 1, k)) = IF 1 <= k THEN k - 1 + 1 ELSE 0
          /\ \A i \in 1 .. k - 1 + 1 : SubSeq(a, 1, k)[i] = a[1 + i - 1]
      BY <3>1, <3>2, SubSeqProperties
    <3>4. /\ SubSeq(b, 1, k) \in Seq(Nat)
          /\ Len(SubSeq(b, 1, k)) = IF 1 <= k THEN k - 1 + 1 ELSE 0
          /\ \A i \in 1 .. k - 1 + 1 : SubSeq(b, 1, k)[i] = b[1 + i - 1]
      BY <3>1, <3>2, SubSeqProperties
    <3>5. QED BY <3>3, <3>4
  <2>2. ASSUME \A j \in 1 .. k : a[j] = b[j]
        PROVE  SubSeq(a, 1, k) = SubSeq(b, 1, k)
    BY <2>1, <2>2, SeqEqual
  <2>3. QED BY <2>1, <2>2
<1>2. Load!IsStrictPrefix(a, b) <=> Differ(a, b, Len(a))
  <2>1. ASSUME Len(a) <= Len(b)
        PROVE  SubSeq(a, 1, Len(a)) = SubSeq(b, 1, Len(a)) <=>
                   \A j \in 1 .. Len(a) : a[j] = b[j]
    BY <1>0, <1>1, <2>1
  <2>2. Len(a) = Len(b) /\ (\A j \in 1 .. Len(a) : a[j] = b[j]) => a = b
    BY SeqEqual DEF Texts
  <2>3. Load!IsStrictPrefix(a, b) <=>
           /\ Len(a) <= Len(b) /\ a # b
           /\ SubSeq(a, 1, Len(a)) = SubSeq(b, 1, Len(a))
    BY DEF Load!IsStrictPrefix, Load!IsPrefix
  <2>4. Differ(a, b, Len(a)) <=> Len(a) < Len(b) /\ \A j \in 1 .. Len(a) : a[j] = b[j]
    BY <1>0 DEF Differ
  <2>5. Len(a) <= Len(b) /\ Len(a) # Len(b) <=> Len(a) < Len(b)
    <3>1. \A x, y \in Nat : x <= y /\ x # y <=> x < y
      OBVIOUS
    <3>2. QED BY <1>0, <3>1
  <2>6. Len(a) # Len(b) => a # b
    OBVIOUS
  <2>7. QED BY <2>1, <2>2, <2>3, <2>4, <2>5, <2>6
<1>3. ASSUME NEW i \in DOMAIN a \intersect DOMAIN b, a[i] < b[i],
             SubSeq(a, 1, i - 1) = SubSeq(b, 1, i - 1)
      PROVE  Differ(a, b, i - 1)
  <2>1. i - 1 \in Nat /\ i - 1 <= Len(a) /\ i - 1 < Len(b) /\ (i - 1) + 1 = i
    BY <1>0
  <2>2. QED BY <1>1, <1>3, <2>1 DEF Differ
<1>4. ASSUME NEW k \in Nat, Differ(a, b, k), k # Len(a)
      PROVE  /\ k + 1 \in DOMAIN a \intersect DOMAIN b /\ a[k + 1] < b[k + 1]
             /\ SubSeq(a, 1, (k + 1) - 1) = SubSeq(b, 1, (k + 1) - 1)
  <2>1. k <= Len(a) /\ k < Len(b) /\ (\A j \in 1 .. k : a[j] = b[j]) /\ a[k + 1] < b[k + 1]
    BY <1>4 DEF Differ
  <2>2. k < Len(a) /\ k <= Len(b) /\ (k + 1) - 1 = k /\ k + 1 \in 1 .. Len(a)
        /\ k + 1 \in 1 .. Len(b)
    <3>1. \A x, y \in Nat : /\ k <= x /\ k # x /\ k < y =>
                               /\ k < x /\ k <= y /\ (k + 1) - 1 = k
                               /\ k + 1 \in 1 .. x /\ k + 1 \in 1 .. y
      OBVIOUS
    <3>2. Len(a) \in Nat /\ Len(b) \in Nat /\ k <= Len(a) /\ k # Len(a) /\ k < Len(b)
      BY <1>0, <1>4, <2>1
    <3> QED BY <3>1, <3>2
  <2>3. SubSeq(a, 1, k) = SubSeq(b, 1, k)
    BY <1>1, <2>1, <2>2
  <2>4. QED BY <1>0, <2>1, <2>2, <2>3
<1>5. Load!Before(a, b) <=>
         \/ Load!IsStrictPrefix(a, b)
         \/ \E i \in DOMAIN a \intersect DOMAIN b :
                a[i] < b[i] /\ SubSeq(a, 1, i - 1) = SubSeq(b, 1, i - 1)
  BY DEF Load!Before
<1>6. \A i \in DOMAIN a \intersect DOMAIN b : i - 1 \in Nat
  BY <1>0
<1>7. QED
  <2>1. ASSUME NEW k \in Nat, Differ(a, b, k)
        PROVE  Load!Before(a, b)
    BY <1>2, <1>4, <1>5, <2>1
  <2>2. QED BY <1>0, <1>2, <1>3, <1>5, <1>6, <2>1

LEMMA BeforeIsOrder == StrictOrder
<1>0. \A a \in Texts : Len(a) \in Nat /\ \A i \in 1 .. Len(a) : a[i] \in Nat
  BY ElementOfSeq DEF Texts
<1>1. ASSUME NEW p \in Texts
      PROVE  ~ Load!Before(p, p)
  <2>1. ASSUME NEW k \in Nat, Differ(p, p, k)
        PROVE  FALSE
    <3>1. k + 1 \in 1 .. Len(p) /\ p[k + 1] < p[k + 1]
      BY <1>0, <2>1 DEF Differ
    <3>2. QED BY <1>0, <3>1
  <2>2. QED BY <2>1, BeforeIs
<1>2. ASSUME NEW p \in Texts, NEW q \in Texts, NEW r \in Texts,
             Load!Before(p, q), Load!Before(q, r)
      PROVE  Load!Before(p, r)
  <2>1. PICK k \in Nat : Differ(p, q, k)
    BY <1>2, BeforeIs
  <2>2. PICK m \in Nat : Differ(q, r, m)
    BY <1>2, BeforeIs
  <2>3. CASE k < m
    <3>1. k <= Len(p) /\ k < Len(r) /\ \A j \in 1 .. k : p[j] = r[j]
      BY <1>0, <2>1, <2>2, <2>3 DEF Differ
    <3>2. q[k + 1] = r[k + 1]
      BY <2>2, <2>3 DEF Differ
    <3>3. Differ(p, r, k)
      BY <2>1, <3>1, <3>2 DEF Differ
    <3>4. QED BY <3>3, BeforeIs
  <2>4. CASE m < k
    <3>1. m <= Len(p) /\ m < Len(r) /\ m # Len(q) /\ \A j \in 1 .. m : p[j] = r[j]
      BY <1>0, <2>1, <2>2, <2>4 DEF Differ
    <3>2. p[m + 1] = q[m + 1]
      BY <2>1, <2>4 DEF Differ
    <3>3. Differ(p, r, m)
      BY <2>2, <3>1, <3>2 DEF Differ
    <3>4. QED BY <3>3, BeforeIs
  <2>5. CASE k = m
    <3>1. /\ k <= Len(p) /\ k < Len(q) /\ k < Len(r) /\ k # Len(q)
          /\ \A j \in 1 .. k : p[j] = r[j]
      BY <1>0, <2>1, <2>2, <2>5 DEF Differ
    <3>2. q[k + 1] < r[k + 1] /\ (k = Len(p) \/ p[k + 1] < q[k + 1])
      BY <2>1, <2>2, <2>5, <3>1 DEF Differ
    <3>3. k = Len(p) \/ p[k + 1] < r[k + 1]
      <4>1. /\ q[k + 1] \in Nat /\ r[k + 1] \in Nat
            /\ k # Len(p) => p[k + 1] \in Nat
        BY <1>0, <3>1
      <4>2. QED BY <3>2, <4>1
    <3>4. Differ(p, r, k)
      BY <3>1, <3>3 DEF Differ
    <3>5. QED BY <3>4, BeforeIs
  <2>6. QED BY <2>3, <2>4, <2>5
<1>3. ASSUME NEW p \in Texts, NEW q \in Texts, p # q
      PROVE  Load!Before(p, q) \/ Load!Before(q, p)
  <2> DEFINE K == {k \in Nat : k = Len(p) \/ k = Len(q) \/ p[k + 1] # q[k + 1]}
  <2>1. PICK k \in K : \A m \in K : k <= m
    <3>1. K \in SUBSET Nat /\ K # {}
      BY <1>0
    <3> HIDE DEF K
    <3>2. QED BY <3>1, LeastNumber
  <2>2. k \in Nat /\ k <= Len(p) /\ k <= Len(q)
    BY <1>0, <2>1
  <2>3. \A j \in 1 .. k : p[j] = q[j]
    <3>1. ASSUME NEW j \in 1 .. k
          PROVE  p[j] = q[j]
      <4>1. j - 1 \in Nat /\ j - 1 < k /\ (j - 1) + 1 = j
        BY <2>2
      <4>2. j - 1 \notin K
        <5> HIDE DEF K
        <5>1. j - 1 \in K => k <= j - 1
          BY <2>1
        <5>2. QED BY <2>2, <4>1, <5>1
      <4>3. QED BY <4>1, <4>2
    <3>2. QED BY <3>1
  <2>4. CASE k = Len(p)
    <3>1. k # Len(q)
      BY <1>3, <2>3, <2>4, SeqEqual DEF Texts
    <3>2. Differ(p, q, k)
      BY <1>0, <2>2, <2>3, <2>4, <3>1 DEF Differ
    <3>3. QED BY <3>2, BeforeIs
  <2>5. CASE k # Len(p) /\ k = Len(q)
    <3>1. Differ(q, p, k)
      BY <1>0, <2>2, <2>3, <2>5 DEF Differ
    <3>2. QED BY <3>1, BeforeIs
  <2>6. CASE k # Len(p) /\ k # Len(q)
    <3>1. k + 1 \in 1 .. Len(p) /\ k + 1 \in 1 .. Len(q) /\ k < Len(p) /\ k < Len(q)
      BY <1>0, <2>2, <2>6
    <3>2. p[k + 1] \in Nat /\ q[k + 1] \in Nat /\ p[k + 1] # q[k + 1]
      BY <1>0, <2>1, <2>6, <3>1
    <3>3. Differ(p, q, k) \/ Differ(q, p, k)
      BY <2>2, <2>3, <3>1, <3>2 DEF Differ
    <3>4. QED BY <3>3, BeforeIs
  <2>7. QED BY <2>4, <2>5, <2>6
<1>4. QED
  <2>1. \A p \in Texts : ~ Load!Before(p, p)
    BY <1>1
  <2>2. \A p, q, r \in Texts :
           Load!Before(p, q) /\ Load!Before(q, r) => Load!Before(p, r)
    BY <1>2
  <2>3. \A p, q \in Texts : p = q \/ Load!Before(p, q) \/ Load!Before(q, p)
    BY <1>3
  <2>4. QED BY <2>1, <2>2, <2>3 DEF StrictOrder
-----------------------------------------------------------------------------
Listings == Seq([path : Texts, data : FileData])

\* Position k is the last one of its path, or there is nothing at hand.
AtEnd(f, k) ==
    /\ k \in 0 .. Len(f)
    /\ k # 0 /\ k < Len(f) => f[k + 1].path # f[k].path

-----------------------------------------------------------------------------
LEMMA RecordsAre ==
  ASSUME NEW f \in Listings
  PROVE  /\ Len(f) \in Nat /\ DOMAIN f = 1 .. Len(f)
         /\ \A i \in 1 .. Len(f) : f[i].path \in Texts
<1>1. \A i \in 1 .. Len(f) : f[i] \in [path : Texts, data : FileData]
  BY ElementOfSeq DEF Listings
<1>2. \A r \in [path : Texts, data : FileData] : r.path \in Texts
  OBVIOUS
<1>3. Len(f) \in Nat /\ DOMAIN f = 1 .. Len(f)
  BY DEF Listings
<1>4. QED BY <1>1, <1>2, <1>3

\* Neighbours in order are all in order.
LEMMA Sorted ==
  ASSUME StrictOrder, NEW f \in Listings, Merge!Ordered(f),
         NEW i \in 1 .. Len(f), NEW j \in 1 .. Len(f), i <= j
  PROVE  f[i].path = f[j].path \/ Load!Before(f[i].path, f[j].path)
<1> DEFINE Wrong == {k \in i .. Len(f) : ~ (f[i].path = f[k].path
                                           \/ Load!Before(f[i].path, f[k].path))}
<1>0. Len(f) \in Nat /\ i \in Nat /\ j \in Nat /\ \A k \in 1 .. Len(f) : f[k].path \in Texts
  BY RecordsAre
<1>1. SUFFICES ASSUME Wrong # {}
               PROVE  FALSE
  BY <1>0
<1>2. PICK k \in Wrong : \A m \in Wrong : k <= m
  <2>1. Wrong \in SUBSET Nat
    BY <1>0
  <2> HIDE DEF Wrong
  <2>2. QED BY <1>1, <2>1, LeastNumber
<1>3. k \in Nat /\ i < k /\ k <= Len(f) /\ k - 1 \in i .. Len(f)
  BY <1>0, <1>2
<1>4. k - 1 \notin Wrong
  BY <1>2, <1>3
<1>5. f[i].path = f[k - 1].path \/ Load!Before(f[i].path, f[k - 1].path)
  BY <1>3, <1>4
<1>6. f[k - 1].path = f[k].path \/ Load!Before(f[k - 1].path, f[k].path)
  <2>1. k - 1 \in 1 .. Len(f) - 1 /\ (k - 1) + 1 = k
    BY <1>0, <1>3
  <2>2. f[k - 1].path = f[(k - 1) + 1].path \/ Load!Before(f[k - 1].path, f[(k - 1) + 1].path)
    BY <2>1 DEF Merge!Ordered
  <2>3. QED BY <2>1, <2>2
<1>7. f[i].path \in Texts /\ f[k - 1].path \in Texts /\ f[k].path \in Texts
  BY <1>0, <1>3
<1>8. f[i].path = f[k].path \/ Load!Before(f[i].path, f[k].path)
  BY <1>5, <1>6, <1>7 DEF StrictOrder
<1>9. QED BY <1>2, <1>8

\* What is after the last record of a path has a greater one.
LEMMA AfterRun ==
  ASSUME StrictOrder, NEW f \in Listings, Merge!Ordered(f), NEW k \in 1 .. Len(f), AtEnd(f, k),
         NEW i \in 1 .. Len(f)
  PROVE  /\ i > k => Load!Before(f[k].path, f[i].path) /\ f[i].path # f[k].path
         /\ i <= k => f[i].path = f[k].path \/ Load!Before(f[i].path, f[k].path)
<1>0. Len(f) \in Nat /\ k \in Nat /\ \A j \in 1 .. Len(f) : f[j].path \in Texts
  BY RecordsAre
<1>1. ASSUME i > k
      PROVE  Load!Before(f[k].path, f[i].path)
  <2>1. k + 1 \in 1 .. Len(f) /\ k + 1 <= i /\ k \in 1 .. Len(f) - 1
    BY <1>0, <1>1
  <2>2. Load!Before(f[k].path, f[k + 1].path)
    BY <1>0, <2>1 DEF AtEnd, Merge!Ordered
  <2>3. f[k + 1].path = f[i].path \/ Load!Before(f[k + 1].path, f[i].path)
    BY <2>1, Sorted
  <2>4. f[k].path \in Texts /\ f[k + 1].path \in Texts /\ f[i].path \in Texts
    BY <1>0, <2>1
  <2>5. QED BY <2>2, <2>3, <2>4 DEF StrictOrder
<1>2. ASSUME i <= k
      PROVE  f[i].path = f[k].path \/ Load!Before(f[i].path, f[k].path)
  BY <1>2, Sorted
<1>3. QED BY <1>0, <1>1, <1>2 DEF StrictOrder

\* next_last_record finds the last record of the path that comes next.
LEMMA NextLastIs ==
  ASSUME NEW f \in Listings, NEW n \in 0 .. Len(f), n # Len(f)
  PROVE  LET k == Merge!NextLast(f, n)
         IN  /\ k \in n + 1 .. Len(f)
             /\ \A i \in n + 1 .. k : f[i].path = f[n + 1].path
             /\ k < Len(f) => f[k + 1].path # f[n + 1].path
<1> DEFINE P(k) == /\ \A i \in n + 1 .. k : f[i].path = f[n + 1].path
                   /\ k < Len(f) => f[k + 1].path # f[n + 1].path
           Ends == {k \in n + 1 .. Len(f) : k < Len(f) => f[k + 1].path # f[n + 1].path}
<1>0. Len(f) \in Nat /\ n \in Nat /\ Len(f) \in Ends
  BY RecordsAre
<1>1. PICK k \in Ends : \A m \in Ends : k <= m
  <2>1. Ends \in SUBSET Nat /\ Ends # {}
    BY <1>0
  <2> HIDE DEF Ends
  <2>2. QED BY <2>1, LeastNumber
<1>2. \A i \in n + 1 .. k : f[i].path = f[n + 1].path
  <2> DEFINE Others == {i \in n + 1 .. k : f[i].path # f[n + 1].path}
  <2>1. SUFFICES ASSUME Others # {}
                 PROVE  FALSE
    OBVIOUS
  <2>2. PICK i \in Others : \A m \in Others : i <= m
    <3>1. Others \in SUBSET Nat
      BY <1>0
    <3> HIDE DEF Others
    <3>2. QED BY <2>1, <3>1, LeastNumber
  <2>3. i \in Nat /\ k \in Nat /\ k <= Len(f) /\ n + 1 < i /\ i <= k
    BY <1>0, <1>1, <2>2
  <2>4. (i - 1) + 1 = i /\ i - 1 \in n + 1 .. Len(f) /\ i - 1 < k
    BY <1>0, <2>3
  <2>5. i - 1 \in Ends
    BY <2>2, <2>4
  <2>6. k <= i - 1
    <3> HIDE DEF Ends
    <3>1. QED BY <1>1, <2>5
  <2>7. QED BY <2>3, <2>6
<1>3. k \in n + 1 .. Len(f) /\ P(k)
  BY <1>1, <1>2
<1>4. Merge!NextLast(f, n) = CHOOSE j \in n + 1 .. Len(f) : P(j)
  BY DEF Merge!NextLast
<1> HIDE DEF P
<1>5. Merge!NextLast(f, n) \in n + 1 .. Len(f) /\ P(Merge!NextLast(f, n))
  BY <1>3, <1>4
<1>6. QED BY <1>5 DEF P

-----------------------------------------------------------------------------
LEMMA PathsFinite ==
  ASSUME NEW f \in Listings
  PROVE  IsFiniteSet(Merge!PathsOf(f))
<1> DEFINE g == [i \in 1 .. Len(f) |-> f[i].path]
<1>1. g \in Surjection(1 .. Len(f), Merge!PathsOf(f))
  <2>1. g \in [1 .. Len(f) -> Merge!PathsOf(f)]
    BY RecordsAre DEF Merge!PathsOf
  <2>2. \A p \in Merge!PathsOf(f) : \E i \in 1 .. Len(f) : g[i] = p
    BY RecordsAre DEF Merge!PathsOf
  <2>3. QED BY <2>1, <2>2 DEF Surjection
<1>2. IsFiniteSet(1 .. Len(f))
  BY RecordsAre, FS_Interval
<1>3. QED BY <1>1, <1>2, FS_Surjection

\* Nothing is passed at first.
LEMMA FirstPasses ==
  ASSUME StrictOrder, NEW f \in Listings, Merge!Ordered(f)
  PROVE  AtEnd(f, Merge!NextLast(f, 0)) /\ Merge!Passed(f, Merge!NextLast(f, 0)) = {}
<1> DEFINE k == Merge!NextLast(f, 0)
<1>0. Len(f) \in Nat /\ DOMAIN f = 1 .. Len(f) /\ \A i \in 1 .. Len(f) : f[i].path \in Texts
  BY RecordsAre
<1>1. CASE Len(f) = 0
  BY <1>0, <1>1 DEF Merge!NextLast, AtEnd, Merge!Passed
<1>2. CASE Len(f) # 0
  <2>1. /\ k \in 1 .. Len(f) /\ \A i \in 1 .. k : f[i].path = f[1].path
        /\ k < Len(f) => f[k + 1].path # f[1].path
    BY <1>0, <1>2, NextLastIs
  <2> HIDE DEF k
  <2>2. f[k].path = f[1].path
    BY <2>1
  <2>3. AtEnd(f, k)
    BY <1>0, <2>1, <2>2 DEF AtEnd
  <2>4. \A i \in 1 .. Len(f) : ~ Load!Before(f[i].path, f[k].path)
    <3>1. SUFFICES ASSUME NEW i \in 1 .. Len(f), Load!Before(f[i].path, f[k].path)
                   PROVE  FALSE
      OBVIOUS
    <3>2. CASE i <= k
      <4>1. f[i].path = f[k].path
        BY <1>0, <2>1, <2>2, <3>2
      <4>2. QED BY <1>0, <3>1, <4>1 DEF StrictOrder
    <3>3. CASE i > k
      <4>1. Load!Before(f[k].path, f[i].path)
        BY <2>1, <2>3, <3>3, AfterRun
      <4>2. QED BY <1>0, <2>1, <3>1, <4>1 DEF StrictOrder
    <3>4. QED BY <1>0, <2>1, <3>2, <3>3
  <2>5. k # 0
    BY <2>1
  <2>6. QED BY <1>0, <2>3, <2>4, <2>5 DEF Merge!Passed, k
<1>3. QED BY <1>1, <1>2

\* Taking the next record passes the path at hand and no other.
LEMMA NextPasses ==
  ASSUME StrictOrder, NEW f \in Listings, Merge!Ordered(f), NEW k \in 1 .. Len(f), AtEnd(f, k)
  PROVE  /\ AtEnd(f, Merge!NextLast(f, k))
         /\ Merge!Passed(f, Merge!NextLast(f, k)) = Merge!Passed(f, k) \union {f[k].path}
         /\ f[k].path \notin Merge!Passed(f, k)
<1> DEFINE m == Merge!NextLast(f, k)
           upTo == {f[i].path : i \in 1 .. k}
<1>0. /\ Len(f) \in Nat /\ DOMAIN f = 1 .. Len(f) /\ k \in Nat
      /\ \A i \in 1 .. Len(f) : f[i].path \in Texts
  BY RecordsAre
<1>1. Merge!Passed(f, k) \union {f[k].path} = upTo
  <2>1. \A i \in 1 .. Len(f) : Load!Before(f[i].path, f[k].path) => i <= k
    <3>1. SUFFICES ASSUME NEW i \in 1 .. Len(f), Load!Before(f[i].path, f[k].path), i > k
                   PROVE  FALSE
      BY <1>0
    <3>2. Load!Before(f[k].path, f[i].path)
      BY <3>1, AfterRun
    <3>3. QED BY <1>0, <3>1, <3>2 DEF StrictOrder
  <2>2. \A i \in 1 .. k : /\ i \in 1 .. Len(f)
                          /\ f[i].path = f[k].path \/ Load!Before(f[i].path, f[k].path)
    BY <1>0, AfterRun
  <2>3. Merge!Passed(f, k) =
        {f[i].path : i \in {i \in 1 .. Len(f) : Load!Before(f[i].path, f[k].path)}}
    BY <1>0 DEF Merge!Passed
  <2>4. QED BY <1>0, <2>1, <2>2, <2>3
<1>2. f[k].path \notin Merge!Passed(f, k)
  BY <1>0 DEF Merge!Passed, StrictOrder
<1>3. CASE k = Len(f)
  <2>1. m = 0
    BY <1>3 DEF Merge!NextLast
  <2>2. Merge!Passed(f, m) = upTo
    BY <1>0, <1>3, <2>1 DEF Merge!Passed
  <2>3. AtEnd(f, m)
    BY <1>0, <2>1 DEF AtEnd
  <2>4. QED BY <1>1, <1>2, <2>2, <2>3
<1>4. CASE k # Len(f)
  <2>1. /\ m \in k + 1 .. Len(f) /\ \A i \in k + 1 .. m : f[i].path = f[k + 1].path
        /\ m < Len(f) => f[m + 1].path # f[k + 1].path
    <3>1. k \in 0 .. Len(f)
      BY <1>0
    <3>2. QED BY <1>4, <3>1, NextLastIs
  <2> HIDE DEF m
  <2>2. m \in 1 .. Len(f) /\ m # 0 /\ k < m /\ f[m].path = f[k + 1].path
    BY <1>0, <2>1
  <2>3. AtEnd(f, m)
    BY <1>0, <2>1, <2>2 DEF AtEnd
  <2>4. \A i \in 1 .. k : i \in 1 .. Len(f) /\ Load!Before(f[i].path, f[m].path)
    <3>1. SUFFICES ASSUME NEW i \in 1 .. k
                   PROVE  i \in 1 .. Len(f) /\ Load!Before(f[i].path, f[m].path)
      OBVIOUS
    <3>2. i \in 1 .. Len(f) /\ i <= k
      BY <1>0
    <3>3. f[i].path = f[k].path \/ Load!Before(f[i].path, f[k].path)
      BY <3>2, AfterRun
    <3>4. Load!Before(f[k].path, f[m].path)
      BY <2>2, AfterRun
    <3>5. QED BY <1>0, <2>2, <3>2, <3>3, <3>4 DEF StrictOrder
  <2>5. \A i \in 1 .. Len(f) : Load!Before(f[i].path, f[m].path) => i <= k
    <3>1. SUFFICES ASSUME NEW i \in 1 .. Len(f), Load!Before(f[i].path, f[m].path), i > k
                   PROVE  FALSE
      BY <1>0
    <3>2. CASE i <= m
      <4>1. i \in k + 1 .. m
        BY <1>0, <2>2, <3>1, <3>2
      <4>2. f[i].path = f[m].path
        BY <2>1, <2>2, <4>1
      <4>3. QED BY <1>0, <2>2, <3>1, <4>2 DEF StrictOrder
    <3>3. CASE i > m
      <4>1. Load!Before(f[m].path, f[i].path)
        BY <2>2, <2>3, <3>3, AfterRun
      <4>2. QED BY <1>0, <2>2, <3>1, <4>1 DEF StrictOrder
    <3>4. QED BY <1>0, <2>2, <3>2, <3>3
  <2>6. Merge!Passed(f, m) =
        {f[i].path : i \in {i \in 1 .. Len(f) : Load!Before(f[i].path, f[m].path)}}
    BY <1>0, <2>2 DEF Merge!Passed
  <2>7. Merge!Passed(f, m) = upTo
    BY <2>4, <2>5, <2>6
  <2>8. QED BY <1>1, <1>2, <2>3, <2>7 DEF m
<1>5. QED BY <1>3, <1>4

\* Of the records of one path the last one counts.
LEMMA DataOfRun ==
  ASSUME StrictOrder, NEW f \in Listings, Merge!Ordered(f), NEW k \in 1 .. Len(f), AtEnd(f, k)
  PROVE  Merge!DataAt(f, f[k].path) = f[k].data
<1> DEFINE P(i) == /\ f[i].path = f[k].path
                   /\ \A j \in DOMAIN f : f[j].path = f[k].path => j <= i
<1>0. Len(f) \in Nat /\ DOMAIN f = 1 .. Len(f) /\ k \in Nat
  BY RecordsAre
<1>1. P(k)
  <2>1. SUFFICES ASSUME NEW j \in 1 .. Len(f), f[j].path = f[k].path, j > k
                 PROVE  FALSE
    BY <1>0
  <2>2. QED BY <2>1, AfterRun
<1>2. \A i \in DOMAIN f : P(i) => i = k
  BY <1>0, <1>1
<1>3. k \in DOMAIN f
  BY <1>0
<1> HIDE DEF P
<1>4. (CHOOSE i \in DOMAIN f : P(i)) = k
  BY <1>1, <1>2, <1>3
<1>5. QED BY <1>4 DEF Merge!DataAt, P

-----------------------------------------------------------------------------
\* One comparison after another: what is compared is in order, and the scan stays.
Inputs == {f \in Listings : Merge!Ordered(f)}

MergeInv ==
    /\ oldFiles \in Inputs /\ newFiles \in Inputs
    /\ Merge!TypeOK
    /\ phase # "idle" => /\ AtEnd(oldFiles, left) /\ AtEnd(newFiles, right)
                         /\ Merge!CountsWhatIsPassed
    /\ phase = "done" => left = 0 /\ right = 0

LEMMA PassedAll ==
  ASSUME NEW f \in Listings, NEW k
  PROVE  /\ Merge!Passed(f, k) \subseteq Merge!PathsOf(f)
         /\ k = 0 => Merge!Passed(f, k) = Merge!PathsOf(f)
         /\ k \in 1 .. Len(f) =>
               Merge!Passed(f, k) = {p \in Merge!PathsOf(f) : Load!Before(p, f[k].path)}
<1>1. DOMAIN f = 1 .. Len(f) /\ \A j \in 1 .. Len(f) : j # 0
  BY RecordsAre
<1>2. QED BY <1>1 DEF Merge!Passed, Merge!PathsOf

\* Adding one new element to a finite set.
LEMMA AddOne ==
  ASSUME NEW S, NEW T, NEW x, NEW n, IsFiniteSet(S), n = Cardinality(S),
         x \notin S, T = S \union {x}
  PROVE  n + 1 = Cardinality(T) /\ n \in Nat
BY FS_AddElement, FS_CardinalityType

\* What the invariant says while records are at hand, in one place.
LEMMA AtHand ==
  ASSUME MergeInv, phase = "merging"
  PROVE  /\ oldFiles \in Listings /\ newFiles \in Listings
         /\ Merge!Ordered(oldFiles) /\ Merge!Ordered(newFiles)
         /\ AtEnd(oldFiles, left) /\ AtEnd(newFiles, right)
         /\ Merge!CountsWhatIsPassed
         /\ left \in 0 .. Len(oldFiles) /\ right \in 0 .. Len(newFiles)
         /\ left # 0 => left \in 1 .. Len(oldFiles) /\ oldRead = left
                        /\ Merge!OldPath \in Merge!PathsOf(oldFiles) /\ Merge!OldPath \in Texts
         /\ right # 0 => right \in 1 .. Len(newFiles) /\ newRead = right
                         /\ Merge!NewPath \in Merge!PathsOf(newFiles) /\ Merge!NewPath \in Texts
         /\ added \in Nat /\ updated \in Nat /\ removed \in Nat /\ unchanged \in Nat
<1>1. /\ oldFiles \in Listings /\ newFiles \in Listings /\ Merge!Ordered(oldFiles)
      /\ Merge!Ordered(newFiles)
  BY DEF MergeInv, Inputs
<1>2. /\ Len(oldFiles) \in Nat /\ DOMAIN oldFiles = 1 .. Len(oldFiles)
      /\ Len(newFiles) \in Nat /\ DOMAIN newFiles = 1 .. Len(newFiles)
      /\ \A i \in 1 .. Len(oldFiles) : oldFiles[i].path \in Texts
      /\ \A i \in 1 .. Len(newFiles) : newFiles[i].path \in Texts
  BY <1>1, RecordsAre
<1>3. left \in 0 .. Len(oldFiles) /\ right \in 0 .. Len(newFiles)
  BY DEF MergeInv, Merge!TypeOK
<1>4. ASSUME left # 0
      PROVE  left \in 1 .. Len(oldFiles) /\ oldRead = left
             /\ Merge!OldPath \in Merge!PathsOf(oldFiles) /\ Merge!OldPath \in Texts
  <2>1. left \in 1 .. Len(oldFiles)
    BY <1>2, <1>3, <1>4
  <2>2. oldRead = left
    BY <1>4 DEF MergeInv, Merge!TypeOK, Merge!Given
  <2>3. QED BY <1>2, <2>1, <2>2 DEF Merge!OldPath, Merge!PathsOf
<1>5. ASSUME right # 0
      PROVE  right \in 1 .. Len(newFiles) /\ newRead = right
             /\ Merge!NewPath \in Merge!PathsOf(newFiles) /\ Merge!NewPath \in Texts
  <2>1. right \in 1 .. Len(newFiles)
    BY <1>2, <1>3, <1>5
  <2>2. newRead = right
    BY <1>5 DEF MergeInv, Merge!TypeOK, Merge!Given
  <2>3. QED BY <1>2, <2>1, <2>2 DEF Merge!NewPath, Merge!PathsOf
<1>6. added \in Nat /\ updated \in Nat /\ removed \in Nat /\ unchanged \in Nat
  BY DEF MergeInv, Merge!TypeOK, Merge!summary
<1>7. QED BY <1>1, <1>3, <1>4, <1>5, <1>6 DEF MergeInv

\* The parts of the invariant that a turn changes only through the positions.
LEMMA TurnTypes ==
  ASSUME MergeInv, phase = "merging", UNCHANGED Merge!inputs, phase' \in {"merging", "done"},
         AtEnd(oldFiles, left'), AtEnd(newFiles, right'),
         oldRead' = Merge!Given(oldFiles, left'), newRead' = Merge!Given(newFiles, right'),
         added' \in Nat, updated' \in Nat, removed' \in Nat, unchanged' \in Nat,
         Merge!CountsWhatIsPassed', phase' = "done" => left' = 0 /\ right' = 0
  PROVE  MergeInv'
<1>1. oldFiles' = oldFiles /\ newFiles' = newFiles
  BY DEF Merge!inputs
<1>2. left' \in 0 .. Len(oldFiles) /\ right' \in 0 .. Len(newFiles)
  BY DEF AtEnd
<1>3. Merge!TypeOK'
  BY <1>1, <1>2 DEF Merge!TypeOK, MergeInv, Merge!summary, Merge!Ordered, Merge!Given
<1>4. QED BY <1>1, <1>3 DEF MergeInv, AtEnd

\* A path that one side has at hand, and the other neither has at hand nor before it,
\* is not on the other side at all.
LEMMA OnlyHere ==
  ASSUME StrictOrder, NEW f \in Listings, NEW k \in 0 .. Len(f), NEW p \in Texts,
         k # 0 => Load!Before(p, f[k].path), p \notin Merge!Passed(f, k)
  PROVE  p \notin Merge!PathsOf(f)
<1>1. CASE k = 0
  BY <1>1, PassedAll
<1>2. CASE k # 0
  <2>1. k \in 1 .. Len(f)
    BY <1>2, RecordsAre
  <2>2. Merge!Passed(f, k) = {q \in Merge!PathsOf(f) : Load!Before(q, f[k].path)}
    BY <2>1, PassedAll
  <2>3. QED BY <1>2, <2>2
<1>3. QED BY <1>1, <1>2

LEMMA MergeRemoveKeeps ==
  ASSUME StrictOrder, MergeInv, Merge!Remove
  PROVE  MergeInv'
<1> DEFINE O == Merge!PathsOf(oldFiles)
           N == Merge!PathsOf(newFiles)
           op == Merge!Passed(oldFiles, left)
           np == Merge!Passed(newFiles, right)
           x == Merge!OldPath
<1>1. /\ phase = "merging" /\ phase' = phase /\ left # 0
      /\ right # 0 => Load!Before(Merge!OldPath, Merge!NewPath)
      /\ removed' = removed + 1 /\ UNCHANGED <<newRead, right, added, updated, unchanged>>
      /\ oldFiles' = oldFiles /\ newFiles' = newFiles
      /\ left' = Merge!NextLast(oldFiles, oldRead) /\ oldRead' = Merge!Given(oldFiles, left')
  BY DEF Merge!Remove, Merge!AdvanceOld, Merge!inputs
<1>2. /\ oldFiles \in Listings /\ newFiles \in Listings
      /\ Merge!Ordered(oldFiles) /\ Merge!Ordered(newFiles)
      /\ AtEnd(oldFiles, left) /\ AtEnd(newFiles, right)
      /\ left \in 1 .. Len(oldFiles) /\ oldRead = left /\ right \in 0 .. Len(newFiles)
      /\ x \in O /\ x \in Texts /\ x = oldFiles[left].path
      /\ added \in Nat /\ updated \in Nat /\ removed \in Nat /\ unchanged \in Nat
  BY <1>1, AtHand DEF Merge!OldPath
<1>3. /\ removed = Cardinality(op \ N)
      /\ added = Cardinality(np \ O)
      /\ unchanged = Cardinality((op \intersect np) \ Merge!Altered)
      /\ updated = Cardinality(op \intersect np \intersect Merge!Altered)
      /\ op \intersect N \subseteq np /\ np \intersect O \subseteq op
  BY <1>1, AtHand, SameLibrary DEF Merge!CountsWhatIsPassed
<1>4. /\ AtEnd(oldFiles, left') /\ x \notin op
      /\ Merge!Passed(oldFiles, left') = op \union {x}
  BY <1>1, <1>2, NextPasses
<1>5. x \notin N
  <2>1. x \notin np
    BY <1>2, <1>3, <1>4
  <2>2. right # 0 => Load!Before(x, newFiles[right].path)
    BY <1>1 DEF Merge!NewPath
  <2>3. QED BY <1>2, <2>1, <2>2, OnlyHere
<1>6. np \subseteq N /\ IsFiniteSet(op \ N)
  BY <1>2, PassedAll, PathsFinite, FS_Subset
<1>7. Merge!CountsWhatIsPassed'
  <2>1. /\ Merge!Altered' = Merge!Altered /\ Merge!PathsOf(oldFiles') = O
        /\ Merge!PathsOf(newFiles') = N
    BY <1>1 DEF Merge!Altered, Merge!Common
  <2>2. Merge!Passed(oldFiles', left') = op \union {x} /\ Merge!Passed(newFiles', right') = np
    BY <1>1, <1>4
  <2> HIDE DEF O, N, op, np, x
  <2>3. (op \union {x}) \ N = (op \ N) \union {x} /\ x \notin op \ N
    BY <1>4, <1>5
  <2>4. removed' = Cardinality((op \union {x}) \ N)
    BY <1>1, <1>3, <1>6, <2>3, AddOne
  <2>5. (op \union {x}) \intersect np = op \intersect np
    BY <1>5, <1>6
  <2>6. (op \union {x}) \intersect N \subseteq np /\ np \intersect O \subseteq op \union {x}
    BY <1>3, <1>5
  <2>7. QED BY <1>1, <1>3, <2>1, <2>2, <2>4, <2>5, <2>6, SameLibrary DEF Merge!CountsWhatIsPassed
<1>8. newRead' = Merge!Given(newFiles, right')
  BY <1>1 DEF MergeInv, Merge!TypeOK
<1>9. QED BY <1>1, <1>2, <1>4, <1>7, <1>8, TurnTypes DEF Merge!inputs

LEMMA MergeAddKeeps ==
  ASSUME StrictOrder, MergeInv, Merge!Add
  PROVE  MergeInv'
<1> DEFINE O == Merge!PathsOf(oldFiles)
           N == Merge!PathsOf(newFiles)
           op == Merge!Passed(oldFiles, left)
           np == Merge!Passed(newFiles, right)
           x == Merge!NewPath
<1>1. /\ phase = "merging" /\ phase' = phase /\ right # 0
      /\ left # 0 => Load!Before(Merge!NewPath, Merge!OldPath)
      /\ added' = added + 1 /\ UNCHANGED <<oldRead, left, updated, removed, unchanged>>
      /\ oldFiles' = oldFiles /\ newFiles' = newFiles
      /\ right' = Merge!NextLast(newFiles, newRead) /\ newRead' = Merge!Given(newFiles, right')
  BY DEF Merge!Add, Merge!AdvanceNew, Merge!inputs
<1>2. /\ oldFiles \in Listings /\ newFiles \in Listings
      /\ Merge!Ordered(oldFiles) /\ Merge!Ordered(newFiles)
      /\ AtEnd(oldFiles, left) /\ AtEnd(newFiles, right)
      /\ right \in 1 .. Len(newFiles) /\ newRead = right /\ left \in 0 .. Len(oldFiles)
      /\ x \in N /\ x \in Texts /\ x = newFiles[right].path
      /\ added \in Nat /\ updated \in Nat /\ removed \in Nat /\ unchanged \in Nat
  BY <1>1, AtHand DEF Merge!NewPath
<1>3. /\ removed = Cardinality(op \ N)
      /\ added = Cardinality(np \ O)
      /\ unchanged = Cardinality((op \intersect np) \ Merge!Altered)
      /\ updated = Cardinality(op \intersect np \intersect Merge!Altered)
      /\ op \intersect N \subseteq np /\ np \intersect O \subseteq op
  BY <1>1, AtHand, SameLibrary DEF Merge!CountsWhatIsPassed
<1>4. /\ AtEnd(newFiles, right') /\ x \notin np
      /\ Merge!Passed(newFiles, right') = np \union {x}
  BY <1>1, <1>2, NextPasses
<1>5. x \notin O
  <2>1. x \notin op
    BY <1>2, <1>3, <1>4
  <2>2. left # 0 => Load!Before(x, oldFiles[left].path)
    BY <1>1 DEF Merge!OldPath
  <2>3. QED BY <1>2, <2>1, <2>2, OnlyHere
<1>6. op \subseteq O /\ IsFiniteSet(np \ O)
  BY <1>2, PassedAll, PathsFinite, FS_Subset
<1>7. Merge!CountsWhatIsPassed'
  <2>1. /\ Merge!Altered' = Merge!Altered /\ Merge!PathsOf(oldFiles') = O
        /\ Merge!PathsOf(newFiles') = N
    BY <1>1 DEF Merge!Altered, Merge!Common
  <2>2. Merge!Passed(oldFiles', left') = op /\ Merge!Passed(newFiles', right') = np \union {x}
    BY <1>1, <1>4
  <2> HIDE DEF O, N, op, np, x
  <2>3. (np \union {x}) \ O = (np \ O) \union {x} /\ x \notin np \ O
    BY <1>4, <1>5
  <2>4. added' = Cardinality((np \union {x}) \ O)
    BY <1>1, <1>3, <1>6, <2>3, AddOne
  <2>5. op \intersect (np \union {x}) = op \intersect np
    BY <1>5, <1>6
  <2>6. op \intersect N \subseteq np \union {x} /\ (np \union {x}) \intersect O \subseteq op
    BY <1>3, <1>5
  <2>7. QED BY <1>1, <1>3, <2>1, <2>2, <2>4, <2>5, <2>6, SameLibrary DEF Merge!CountsWhatIsPassed
<1>8. oldRead' = Merge!Given(oldFiles, left')
  BY <1>1 DEF MergeInv, Merge!TypeOK
<1>9. QED BY <1>1, <1>2, <1>4, <1>7, <1>8, TurnTypes DEF Merge!inputs

LEMMA MergeMatchKeeps ==
  ASSUME StrictOrder, MergeInv, Merge!Match
  PROVE  MergeInv'
<1> DEFINE O == Merge!PathsOf(oldFiles)
           N == Merge!PathsOf(newFiles)
           op == Merge!Passed(oldFiles, left)
           np == Merge!Passed(newFiles, right)
           x == Merge!OldPath
           A == Merge!Altered
<1>1. /\ phase = "merging" /\ phase' = phase /\ left # 0 /\ right # 0
      /\ Merge!OldPath = Merge!NewPath
      /\ unchanged' = (IF Merge!SameMetadata THEN unchanged + 1 ELSE unchanged)
      /\ updated' = (IF Merge!SameMetadata THEN updated ELSE updated + 1)
      /\ UNCHANGED <<added, removed>> /\ oldFiles' = oldFiles /\ newFiles' = newFiles
      /\ left' = Merge!NextLast(oldFiles, oldRead) /\ oldRead' = Merge!Given(oldFiles, left')
      /\ right' = Merge!NextLast(newFiles, newRead) /\ newRead' = Merge!Given(newFiles, right')
  BY DEF Merge!Match, Merge!AdvanceOld, Merge!AdvanceNew, Merge!inputs
<1>2. /\ oldFiles \in Listings /\ newFiles \in Listings
      /\ Merge!Ordered(oldFiles) /\ Merge!Ordered(newFiles)
      /\ AtEnd(oldFiles, left) /\ AtEnd(newFiles, right)
      /\ left \in 1 .. Len(oldFiles) /\ oldRead = left
      /\ right \in 1 .. Len(newFiles) /\ newRead = right
      /\ x \in O /\ x \in N /\ x = oldFiles[left].path /\ x = newFiles[right].path
      /\ added \in Nat /\ updated \in Nat /\ removed \in Nat /\ unchanged \in Nat
  BY <1>1, AtHand DEF Merge!OldPath, Merge!NewPath
<1>3. /\ removed = Cardinality(op \ N)
      /\ added = Cardinality(np \ O)
      /\ unchanged = Cardinality((op \intersect np) \ A)
      /\ updated = Cardinality(op \intersect np \intersect A)
      /\ op \intersect N \subseteq np /\ np \intersect O \subseteq op
  BY <1>1, AtHand, SameLibrary DEF Merge!CountsWhatIsPassed
<1>4. /\ AtEnd(oldFiles, left') /\ x \notin op
      /\ Merge!Passed(oldFiles, left') = op \union {x}
  BY <1>1, <1>2, NextPasses
<1>5. /\ AtEnd(newFiles, right') /\ x \notin np
      /\ Merge!Passed(newFiles, right') = np \union {x}
  BY <1>1, <1>2, NextPasses
<1>6. x \in A <=> ~ Merge!SameMetadata
  <2>1. /\ Merge!DataAt(oldFiles, x) = oldFiles[left].data
        /\ Merge!DataAt(newFiles, x) = newFiles[right].data
    BY <1>2, DataOfRun
  <2>2. QED BY <1>2, <2>1 DEF Merge!Altered, Merge!Common, Merge!SameMetadata
<1>7. IsFiniteSet((op \intersect np) \ A) /\ IsFiniteSet(op \intersect np \intersect A)
  <2>1. op \subseteq O /\ IsFiniteSet(O)
    BY <1>2, PassedAll, PathsFinite
  <2> HIDE DEF O, N, op, np, x, A
  <2>2. (op \intersect np) \ A \in SUBSET O /\ op \intersect np \intersect A \in SUBSET O
    BY <2>1
  <2>3. QED BY <2>1, <2>2, FS_Subset
<1>8. Merge!CountsWhatIsPassed'
  <2>1. Merge!Altered' = A /\ Merge!PathsOf(oldFiles') = O /\ Merge!PathsOf(newFiles') = N
    BY <1>1 DEF Merge!Altered, Merge!Common
  <2>2. /\ Merge!Passed(oldFiles', left') = op \union {x}
        /\ Merge!Passed(newFiles', right') = np \union {x}
    BY <1>1, <1>4, <1>5
  <2> DEFINE both == op \intersect np
  <2> HIDE DEF O, N, op, np, x, A
  <2>3. /\ (op \union {x}) \ N = op \ N /\ (np \union {x}) \ O = np \ O
        /\ (op \union {x}) \intersect N \subseteq np \union {x}
        /\ (np \union {x}) \intersect O \subseteq op \union {x}
    BY <1>2, <1>3
  <2>4. (op \union {x}) \intersect (np \union {x}) = both \union {x} /\ x \notin both
    BY <1>4, <1>5
  <2>5. CASE Merge!SameMetadata
    <3>1. /\ (both \union {x}) \ A = (both \ A) \union {x} /\ x \notin both \ A
          /\ (both \union {x}) \intersect A = both \intersect A
      BY <1>6, <2>4, <2>5
    <3>2. unchanged' = Cardinality((both \union {x}) \ A)
      <4>1. /\ IsFiniteSet(both \ A) /\ unchanged = Cardinality(both \ A)
            /\ unchanged' = unchanged + 1
        BY <1>1, <1>3, <1>7, <2>5
      <4> HIDE DEF both
      <4>2. unchanged + 1 = Cardinality((both \union {x}) \ A)
        BY <3>1, <4>1, AddOne
      <4>3. QED BY <4>1, <4>2
    <3>3. updated' = Cardinality((both \union {x}) \intersect A)
      BY <1>1, <1>3, <2>5, <3>1
    <3>4. QED BY <1>1, <1>3, <2>1, <2>2, <2>3, <2>4, <3>2, <3>3, SameLibrary
      DEF Merge!CountsWhatIsPassed
  <2>6. CASE ~ Merge!SameMetadata
    <3>1. /\ (both \union {x}) \intersect A = (both \intersect A) \union {x}
          /\ x \notin both \intersect A
          /\ (both \union {x}) \ A = both \ A
      BY <1>6, <2>4, <2>6
    <3>2. updated' = Cardinality((both \union {x}) \intersect A)
      <4>1. /\ IsFiniteSet(both \intersect A) /\ updated = Cardinality(both \intersect A)
            /\ updated' = updated + 1
        BY <1>1, <1>3, <1>7, <2>6
      <4> HIDE DEF both
      <4>2. updated + 1 = Cardinality((both \union {x}) \intersect A)
        BY <3>1, <4>1, AddOne
      <4>3. QED BY <4>1, <4>2
    <3>3. unchanged' = Cardinality((both \union {x}) \ A)
      BY <1>1, <1>3, <2>6, <3>1
    <3>4. QED BY <1>1, <1>3, <2>1, <2>2, <2>3, <2>4, <3>2, <3>3, SameLibrary
      DEF Merge!CountsWhatIsPassed
  <2>7. QED BY <2>5, <2>6
<1>9. updated' \in Nat /\ unchanged' \in Nat
  BY <1>1, <1>2
<1>10. QED BY <1>1, <1>2, <1>4, <1>5, <1>8, <1>9, TurnTypes DEF Merge!inputs

LEMMA MergeBreakKeeps ==
  ASSUME MergeInv, Merge!Break
  PROVE  MergeInv'
<1>1. /\ phase = "merging" /\ phase' = "done" /\ left = 0 /\ right = 0
      /\ UNCHANGED <<oldRead, newRead, left, right, added, updated, removed, unchanged>>
      /\ oldFiles' = oldFiles /\ newFiles' = newFiles
  BY DEF Merge!Break, Merge!summary, Merge!inputs
<1>2. /\ oldRead = Merge!Given(oldFiles, left) /\ newRead = Merge!Given(newFiles, right)
  BY <1>1 DEF MergeInv, Merge!TypeOK
<1>3. Merge!CountsWhatIsPassed'
  BY <1>1, AtHand DEF Merge!CountsWhatIsPassed, Merge!Altered, Merge!Common
<1>4. QED BY <1>1, <1>2, <1>3, AtHand, TurnTypes DEF Merge!inputs

LEMMA MergeStartKeeps ==
  ASSUME StrictOrder, MergeInv, NEW old \in Inputs, Merge!Start(old)
  PROVE  MergeInv'
<1>1. /\ phase' = "merging" /\ oldFiles' = old /\ newFiles' = newFiles
      /\ left' = Merge!NextLast(old, 0) /\ right' = Merge!NextLast(newFiles, 0)
      /\ oldRead' = Merge!Given(old, left') /\ newRead' = Merge!Given(newFiles, right')
      /\ added' = 0 /\ updated' = 0 /\ removed' = 0 /\ unchanged' = 0
  BY DEF Merge!Start
<1>2. old \in Listings /\ Merge!Ordered(old) /\ newFiles \in Listings /\ Merge!Ordered(newFiles)
  BY DEF Inputs, MergeInv
<1>3. /\ AtEnd(old, left') /\ Merge!Passed(old, left') = {}
      /\ AtEnd(newFiles, right') /\ Merge!Passed(newFiles, right') = {}
  BY <1>1, <1>2, FirstPasses
<1>4. Merge!CountsWhatIsPassed'
  <2>1. Merge!Passed(oldFiles', left') = {} /\ Merge!Passed(newFiles', right') = {}
    BY <1>1, <1>3
  <2>2. Cardinality({}) = 0
    BY FS_EmptySet
  <2>3. QED BY <1>1, <2>1, <2>2, SameLibrary DEF Merge!CountsWhatIsPassed
<1>5. Merge!TypeOK'
  <2>1. left' \in 0 .. Len(old) /\ right' \in 0 .. Len(newFiles)
    BY <1>3 DEF AtEnd
  <2>2. Merge!Ordered(oldFiles') /\ Merge!Ordered(newFiles')
    BY <1>1, <1>2
  <2>3. Merge!summary' \in Nat \X Nat \X Nat \X Nat
    BY <1>1 DEF Merge!summary
  <2>4. QED BY <1>1, <2>1, <2>2, <2>3 DEF Merge!TypeOK
<1>6. newFiles \in Inputs
  BY DEF MergeInv
<1>7. AtEnd(oldFiles', left') /\ AtEnd(newFiles', right')
  BY <1>1, <1>3
<1>8. QED BY <1>1, <1>4, <1>5, <1>6, <1>7 DEF MergeInv

LEMMA MergeInductive ==
  ASSUME StrictOrder, MergeInv, [(\E old \in Inputs : Merge!Start(old)) \/ Merge!Turn]_Merge!vars
  PROVE  MergeInv'
<1>1. CASE UNCHANGED Merge!vars
  <2>1. /\ UNCHANGED <<oldFiles, newFiles, oldRead, newRead, left, right, phase>>
        /\ UNCHANGED <<added, updated, removed, unchanged>>
    BY <1>1 DEF Merge!vars, Merge!inputs, Merge!summary
  <2>2. QED BY <2>1
    DEF MergeInv, Merge!TypeOK, Merge!summary, Merge!CountsWhatIsPassed, Merge!Altered, Merge!Common
<1>2. QED BY <1>1, MergeStartKeeps, MergeRemoveKeeps, MergeAddKeeps, MergeMatchKeeps,
             MergeBreakKeeps
  DEF Merge!Turn

LEMMA MergeInitially ==
  ASSUME Merge!Init, newFiles \in Inputs
  PROVE  MergeInv
<1>1. Len(<<>>) = 0 /\ <<>> \in Listings /\ Merge!Ordered(<<>>)
  BY DEF Listings, Merge!Ordered
<1>2. newFiles \in Listings /\ Merge!Ordered(newFiles) /\ Len(newFiles) \in Nat
  BY RecordsAre DEF Inputs
<1>3. Merge!TypeOK
  BY <1>1, <1>2 DEF Merge!Init, Merge!TypeOK, Merge!Given, Merge!summary
<1>4. QED BY <1>1, <1>3 DEF Merge!Init, MergeInv, Inputs

\* At the end everything is passed.
LEMMA EndIs ==
  ASSUME MergeInv, phase = "done"
  PROVE  Merge!MatchesCompare
<1> DEFINE O == Merge!PathsOf(oldFiles)
           N == Merge!PathsOf(newFiles)
<1>1. oldFiles \in Listings /\ newFiles \in Listings /\ left = 0 /\ right = 0
  BY DEF MergeInv, Inputs
<1>2. Merge!Passed(oldFiles, left) = O /\ Merge!Passed(newFiles, right) = N
  BY <1>1, PassedAll
<1>3. /\ removed = Cardinality(O \ N) /\ added = Cardinality(N \ O)
      /\ unchanged = Cardinality((O \intersect N) \ Merge!Altered)
      /\ updated = Cardinality(O \intersect N \intersect Merge!Altered)
  BY <1>2, SameLibrary DEF MergeInv, Merge!CountsWhatIsPassed
<1>4. Merge!Altered \subseteq Merge!Common /\ Merge!Common = O \intersect N
  BY DEF Merge!Altered, Merge!Common
<1>5. O \intersect N \intersect Merge!Altered = Merge!Altered
  BY <1>4
<1>6. Merge!summary = Merge!Compare
  BY <1>3, <1>4, <1>5, SameLibrary DEF Merge!summary, Merge!Compare
<1>7. ASSUME ~ Merge!HasChanges
      PROVE  O = N /\ \A p \in N : Merge!DataAt(oldFiles, p) = Merge!DataAt(newFiles, p)
  <2>1. IsFiniteSet(O \ N) /\ IsFiniteSet(N \ O) /\ IsFiniteSet(Merge!Altered)
    <3>1. IsFiniteSet(O) /\ IsFiniteSet(N)
      BY <1>1, PathsFinite
    <3>2. O \ N \in SUBSET O /\ N \ O \in SUBSET N /\ Merge!Altered \in SUBSET O
      BY <1>4
    <3> HIDE DEF O, N
    <3>3. QED BY <3>1, <3>2, FS_Subset
  <2>2. O \ N = {} /\ N \ O = {} /\ Merge!Altered = {}
    <3>1. Cardinality(O \ N) = 0 /\ Cardinality(N \ O) = 0 /\ Cardinality(Merge!Altered) = 0
      BY <1>3, <1>5, <1>7 DEF Merge!HasChanges
    <3> HIDE DEF O, N
    <3>2. QED BY <2>1, <3>1, FS_EmptySet
  <2>3. O = N
    BY <2>2
  <2>4. QED BY <2>2, <2>3 DEF Merge!Altered, Merge!Common
<1>8. QED BY <1>6, <1>7 DEF Merge!MatchesCompare

-----------------------------------------------------------------------------
Arranges(s, S) ==
    LET n == Cardinality(S)
    IN  /\ s \in [1 .. n -> S]
        /\ \A p \in S : \E i \in 1 .. n : s[i] = p
        /\ \A i, j \in 1 .. n : i < j => Load!Before(s[i], s[j])

\* A finite set of texts has one that comes last: the one with the fewest after it.
LEMMA Greatest ==
  ASSUME StrictOrder, NEW T \in SUBSET Texts, IsFiniteSet(T), T # {}
  PROVE  \E x \in T : \A y \in T : y = x \/ Load!Before(y, x)
<1> DEFINE After(x) == {y \in T : Load!Before(x, y)}
           Counts == {Cardinality(After(x)) : x \in T}
<1>1. \A x \in T : IsFiniteSet(After(x)) /\ Cardinality(After(x)) \in Nat
  <2>1. SUFFICES ASSUME NEW x \in T
                 PROVE  IsFiniteSet(After(x)) /\ Cardinality(After(x)) \in Nat
    OBVIOUS
  <2>2. After(x) \in SUBSET T
    OBVIOUS
  <2> HIDE DEF After
  <2>3. QED BY <2>2, FS_Subset, FS_CardinalityType
<1>2. PICK n \in Counts : \A m \in Counts : n <= m
  <2>1. Counts \in SUBSET Nat /\ Counts # {}
    BY <1>1
  <2> HIDE DEF Counts
  <2>2. QED BY <2>1, LeastNumber
<1>3. PICK x \in T : n = Cardinality(After(x))
  BY <1>2
<1>4. SUFFICES ASSUME NEW y \in T, y # x, ~ Load!Before(y, x)
               PROVE  FALSE
  BY <1>3
<1>5. y \in After(x)
  BY <1>4 DEF StrictOrder
<1>6. After(y) \in SUBSET After(x) /\ y \notin After(y)
  BY <1>5 DEF StrictOrder
<1>7. Cardinality(After(x)) <= Cardinality(After(y))
  BY <1>2, <1>3
<1> HIDE DEF After
<1>8. /\ Cardinality(After(y)) <= Cardinality(After(x))
      /\ Cardinality(After(x)) = Cardinality(After(y)) => After(x) = After(y)
  BY <1>1, <1>6, FS_Subset
<1>9. Cardinality(After(x)) = Cardinality(After(y))
  BY <1>1, <1>7, <1>8
<1>10. QED BY <1>5, <1>6, <1>8, <1>9

LEMMA ArrangementExists ==
  ASSUME StrictOrder, NEW S \in SUBSET Texts, IsFiniteSet(S)
  PROVE  \E s : Arranges(s, S)
<1> DEFINE Sizes == {n \in Nat : \A T \in SUBSET S : Cardinality(T) = n => \E s : Arranges(s, T)}
<1>0. \A T \in SUBSET S : IsFiniteSet(T) /\ Cardinality(T) \in Nat
  BY FS_Subset, FS_CardinalityType
<1>1. 0 \in Sizes
  <2>1. SUFFICES ASSUME NEW T \in SUBSET S, Cardinality(T) = 0
                 PROVE  \E s : Arranges(s, T)
    OBVIOUS
  <2>2. T = {}
    BY <1>0, <2>1, FS_EmptySet
  <2> DEFINE s == [i \in 1 .. 0 |-> 0]
  <2>3. s \in [1 .. 0 -> T] /\ \A i \in 1 .. 0 : FALSE
    OBVIOUS
  <2>4. Arranges(s, T)
    BY <2>1, <2>2, <2>3 DEF Arranges
  <2>5. QED BY <2>4
<1>2. ASSUME NEW n \in 1 .. Cardinality(S), n - 1 \in Sizes
      PROVE  n \in Sizes
  <2>1. SUFFICES ASSUME NEW T \in SUBSET S, Cardinality(T) = n
                 PROVE  \E s : Arranges(s, T)
    BY <1>0
  <2>2. T # {}
    BY <2>1, FS_EmptySet
  <2>3. PICK x \in T : \A y \in T : y = x \/ Load!Before(y, x)
    BY <1>0, <2>2, Greatest
  <2> DEFINE U == T \ {x}
  <2>4. U \in SUBSET S /\ Cardinality(U) = n - 1
    BY <1>0, <2>1, FS_RemoveElement
  <2>5. PICK s : Arranges(s, U)
    <3> HIDE DEF U
    <3> QED BY <1>2, <2>4
  <2>6. /\ s \in [1 .. n - 1 -> U]
        /\ \A p \in U : \E i \in 1 .. n - 1 : s[i] = p
        /\ \A i, j \in 1 .. n - 1 : i < j => Load!Before(s[i], s[j])
    BY <2>4, <2>5 DEF Arranges
  <2> DEFINE t == [i \in 1 .. n |-> IF i = n THEN x ELSE s[i]]
  <2>7. /\ n \in Nat /\ n \in 1 .. n /\ t[n] = x
        /\ \A i \in 1 .. n - 1 : i \in 1 .. n /\ i < n /\ t[i] = s[i] /\ s[i] \in U
        /\ \A i \in 1 .. n : i = n \/ i \in 1 .. n - 1
    BY <2>6
  <2>8. t \in [1 .. n -> T]
    BY <2>6, <2>7
  <2> HIDE DEF t
  <2>9. \A p \in T : \E i \in 1 .. n : t[i] = p
    BY <2>6, <2>7
  <2>10. \A i, j \in 1 .. n : i < j => Load!Before(t[i], t[j])
    <3>1. SUFFICES ASSUME NEW i \in 1 .. n, NEW j \in 1 .. n, i < j
                   PROVE  Load!Before(t[i], t[j])
      OBVIOUS
    <3>2. i \in 1 .. n - 1
      BY <3>1
    <3>3. CASE j = n
      BY <2>3, <2>7, <3>2, <3>3
    <3>4. CASE j # n
      <4>1. j \in 1 .. n - 1
        BY <3>4
      <4>2. QED BY <2>6, <2>7, <3>1, <3>2, <4>1
    <3>5. QED BY <3>3, <3>4
  <2>11. Arranges(t, T)
    BY <2>1, <2>8, <2>9, <2>10 DEF Arranges
  <2>12. QED BY <2>11
<1>3. Cardinality(S) \in Sizes
  <2>1. Cardinality(S) \in Nat
    BY <1>0
  <2> HIDE DEF Sizes
  <2>2. 0 .. Cardinality(S) \subseteq Sizes
    BY <1>1, <1>2, <2>1, UpTo
  <2>3. QED BY <2>1, <2>2
<1>4. QED BY <1>3

\* What a BTreeMap iterates over has every key once, in order.
LEMMA InOrderIs ==
  ASSUME NEW S \in SUBSET Texts, IsFiniteSet(S)
  PROVE  Cardinality(S) \in Nat /\ Arranges(Load!InOrder(S), S)
<1> DEFINE n == Cardinality(S)
           Injective(f) == \A i, j \in 1 .. n : i # j => f[i] # f[j]
           Ascending(f) == \A i, j \in DOMAIN f : i < j => Load!Before(f[i], f[j])
<1>0. n \in Nat /\ StrictOrder
  BY FS_CardinalityType, BeforeIsOrder
<1>1. Load!SetToSeqs(S) = {f \in [1 .. n -> S] : Injective(f)}
  BY SameLibrary DEF Load!SetToSeqs
<1>2. PICK s : Arranges(s, S)
  BY <1>0, ArrangementExists
<1>3. s \in [1 .. n -> S] /\ Injective(s) /\ Ascending(s)
  <2>1. s \in [1 .. n -> S] /\ \A i, j \in 1 .. n : i < j => Load!Before(s[i], s[j])
    BY <1>2 DEF Arranges
  <2>2. ASSUME NEW i \in 1 .. n, NEW j \in 1 .. n, i # j
        PROVE  s[i] # s[j]
    <3>1. s[i] \in Texts /\ s[j] \in Texts
      BY <2>1
    <3>2. i < j \/ j < i
      BY <1>0, <2>2
    <3>3. QED BY <1>0, <2>1, <3>1, <3>2 DEF StrictOrder
  <2>3. QED BY <2>1, <2>2
<1>4. Load!InOrder(S) = CHOOSE f \in Load!SetToSeqs(S) : Ascending(f)
  BY DEF Load!InOrder
<1> DEFINE t == Load!InOrder(S)
<1>5. t \in Load!SetToSeqs(S) /\ Ascending(t)
  <2>1. s \in Load!SetToSeqs(S)
    BY <1>1, <1>3
  <2> HIDE DEF Ascending, Injective
  <2>2. QED BY <1>3, <1>4, <2>1
<1> HIDE DEF t
<1>6. t \in [1 .. n -> S] /\ Injective(t) /\ Ascending(t) /\ DOMAIN t = 1 .. n
  BY <1>1, <1>5
<1>7. \A p \in S : \E i \in 1 .. n : t[i] = p
  <2>1. t \in Injection(1 .. n, S)
    BY <1>6 DEF Injection, IsInjective
  <2>2. IsFiniteSet(1 .. n) /\ Cardinality(1 .. n) = n
    BY <1>0, FS_Interval
  <2>3. t \in Surjection(1 .. n, S)
    BY <2>1, <2>2, FS_Injection
  <2>4. QED BY <2>3 DEF Surjection
<1>8. QED BY <1>0, <1>6, <1>7 DEF Arranges, t
-----------------------------------------------------------------------------
\* What is loaded is compared in order, once for every path.
IsListing(f) ==
    /\ IsFiniteSet(DOMAIN f) /\ DOMAIN f \subseteq Texts
    /\ f \in [DOMAIN f -> FileData]

LEMMA InPathOrderIs ==
  ASSUME NEW f, IsListing(f)
  PROVE  /\ InPathOrder(f) \in Inputs
         /\ Merge!PathsOf(InPathOrder(f)) = DOMAIN f
         /\ \A p \in DOMAIN f : Merge!DataAt(InPathOrder(f), p) = f[p]
<1> DEFINE paths == Load!InOrder(DOMAIN f)
           n == Cardinality(DOMAIN f)
           g == [i \in 1 .. n |-> [path |-> paths[i], data |-> f[paths[i]]]]
<1>1. n \in Nat /\ Arranges(paths, DOMAIN f)
  BY InOrderIs DEF IsListing
<1>2. /\ DOMAIN paths = 1 .. n /\ \A i \in 1 .. n : paths[i] \in DOMAIN f
      /\ \A p \in DOMAIN f : \E i \in 1 .. n : paths[i] = p
      /\ \A i, j \in 1 .. n : i < j => Load!Before(paths[i], paths[j])
  BY <1>1 DEF Arranges
<1>3. InPathOrder(f) = g
  <2>1. InPathOrder(f) = [i \in DOMAIN paths |-> [path |-> paths[i], data |-> f[paths[i]]]]
    BY DEF InPathOrder
  <2>2. QED BY <1>2, <2>1
<1> HIDE DEF paths, n
<1>4. g \in Listings /\ Len(g) = n /\ DOMAIN g = 1 .. n
  <2>1. \A i \in 1 .. n : g[i] \in [path : Texts, data : FileData]
    BY <1>2 DEF IsListing
  <2>2. QED BY <1>1, <2>1 DEF Listings
<1>5. Merge!Ordered(g)
  <2>1. \A i \in 1 .. n - 1 : i \in 1 .. n /\ i + 1 \in 1 .. n /\ i < i + 1
    BY <1>1
  <2>2. QED BY <1>2, <1>4, <2>1 DEF Merge!Ordered
<1>6. Merge!PathsOf(g) = DOMAIN f
  BY <1>2, <1>4 DEF Merge!PathsOf
<1>7. ASSUME NEW p \in DOMAIN f
      PROVE  Merge!DataAt(g, p) = f[p]
  <2> DEFINE P(i) == /\ g[i].path = p
                     /\ \A j \in DOMAIN g : g[j].path = p => j <= i
  <2>1. PICK k \in 1 .. n : paths[k] = p
    BY <1>2
  <2>2. \A j \in 1 .. n : paths[j] = p => j = k
    <3>1. SUFFICES ASSUME NEW j \in 1 .. n, paths[j] = p, j # k
                   PROVE  FALSE
      OBVIOUS
    <3>2. Load!Before(p, p)
      BY <1>1, <1>2, <2>1, <3>1
    <3>3. QED BY <3>2, BeforeIsOrder DEF StrictOrder, IsListing
  <2>3. \A i \in DOMAIN g : P(i) <=> i = k
    BY <1>1, <1>4, <2>1, <2>2
  <2>4. Merge!DataAt(g, p) = g[CHOOSE i \in DOMAIN g : P(i)].data
    BY DEF Merge!DataAt
  <2> HIDE DEF P
  <2>5. (CHOOSE i \in DOMAIN g : P(i)) = k
    BY <1>4, <2>1, <2>3
  <2>6. QED BY <2>1, <2>4, <2>5
<1> HIDE DEF g
<1>8. QED BY <1>3, <1>4, <1>5, <1>6, <1>7 DEF Inputs
-----------------------------------------------------------------------------
\* Characters of texts.
LEMMA SubText ==
  ASSUME NEW s \in Texts, NEW a \in Nat, NEW b \in Int, a > 0, b <= Len(s)
  PROVE  /\ SubSeq(s, a, b) \in Texts
         /\ Len(SubSeq(s, a, b)) = IF a <= b THEN b - a + 1 ELSE 0
         /\ \A i \in 1 .. b - a + 1 : SubSeq(s, a, b)[i] = s[a + i - 1]
<1>1. s \in Seq(Nat)
  BY DEF Texts
<1>2. SubSeq(s, a, b) \in Texts
  BY <1>1 DEF Texts
<1>3. Len(SubSeq(s, a, b)) = IF a <= b THEN b - a + 1 ELSE 0
  BY <1>1
<1>4. \A i \in 1 .. b - a + 1 : SubSeq(s, a, b)[i] = s[a + i - 1]
  <2>1. \A i \in a .. b : s[i] \in Nat
    BY <1>1
  <2>2. QED BY <2>1, SubSeqProperties
<1>5. QED BY <1>2, <1>3, <1>4

LEMMA ConcatText == \A a, b \in Texts : a \o b \in Texts
BY ConcatProperties DEF Texts

LEMMA FlattenIsText ==
  ASSUME NEW seqs \in Seq(Texts)
  PROVE  Load!FlattenSeq(seqs) \in Texts
<1> DEFINE n == Len(seqs)
           F(f) == [i \in 1 .. n |-> IF i = 1 THEN seqs[i] ELSE f[i - 1] \o seqs[i]]
<1>0. n \in Nat /\ \A i \in 1 .. n : seqs[i] \in Texts
  BY ElementOfSeq
<1>1. CASE n = 0
  <2>1. seqs = <<>>
    BY <1>1, EmptySeq
  <2>2. QED BY <1>1, <2>1, EmptySeq DEF Load!FlattenSeq, Texts
<1>2. CASE n # 0
  <2> DEFINE E == [x \in (1 .. n) \X Texts |-> IF x[1] = 1 THEN seqs[1] ELSE x[2] \o seqs[x[1]]]
  <2>1. E \in [(1 .. n) \X Texts -> Texts]
    BY <1>0, ConcatText
  <2>2. <<>> \in Texts
    BY EmptySeq DEF Texts
  <2>3. PICK g : IsRecursive(g, n, Texts, <<>>, E)
    <3>1. n \in Nat
      BY <1>0
    <3> HIDE DEF E, n
    <3>2. QED BY <2>1, <2>2, <3>1, Recursion
  <2> DEFINE h == [i \in 1 .. n |-> g[i]]
  <2>4. h = F(h)
    <3>1. ASSUME NEW i \in 1 .. n
          PROVE  h[i] = IF i = 1 THEN seqs[i] ELSE h[i - 1] \o seqs[i]
      <4>1. <<i, g[i - 1]>> \in (1 .. n) \X Texts
        <5>1. i - 1 \in 0 .. n
          BY <1>0
        <5>2. g \in [0 .. n -> Texts]
          BY <2>3 DEF IsRecursive
        <5>3. g[i - 1] \in Texts
          BY <5>1, <5>2
        <5>4. QED BY <5>3
      <4>2. g[i] = IF i = 1 THEN seqs[1] ELSE g[i - 1] \o seqs[i]
        BY <2>3, <4>1 DEF IsRecursive
      <4>3. i # 1 => i - 1 \in 1 .. n
        BY <1>0
      <4>4. QED BY <4>2, <4>3
    <3>2. h = [i \in 1 .. n |-> h[i]]
      OBVIOUS
    <3> HIDE DEF h
    <3>3. QED BY <3>1, <3>2
  <2>5. Load!FlattenSeq(seqs) = (CHOOSE f : f = F(f))[n]
    BY <1>2 DEF Load!FlattenSeq
  <2> DEFINE f == CHOOSE f : f = F(f)
  <2>6. f = F(f)
    <3> HIDE DEF h
    <3> QED BY <2>4
  <2> HIDE DEF f
  <2>7. \A i \in 1 .. n : f[i] = IF i = 1 THEN seqs[i] ELSE f[i - 1] \o seqs[i]
    BY <2>6
  <2> DEFINE S == {i \in 0 .. n : i = 0 \/ f[i] \in Texts}
  <2>8. \A i \in 1 .. n : i - 1 \in S => i \in S
    <3>1. SUFFICES ASSUME NEW i \in 1 .. n, i - 1 \in S
                   PROVE  f[i] \in Texts
      BY <1>0
    <3>2. CASE i = 1
      BY <1>0, <2>7, <3>2
    <3>3. CASE i # 1
      <4>1. f[i - 1] \in Texts
        BY <3>1, <3>3
      <4>2. QED BY <1>0, <2>7, <3>3, <4>1, ConcatText
    <3>4. QED BY <3>2, <3>3
  <2>9. n \in S
    <3>1. 0 \in S
      BY <1>0
    <3> HIDE DEF S, n
    <3>2. 0 .. n \subseteq S
      BY <1>0, <2>8, <3>1, UpTo
    <3>3. QED BY <1>0, <3>2
  <2>10. QED BY <1>2, <2>5, <2>9 DEF f
<1>3. QED BY <1>1, <1>2
-----------------------------------------------------------------------------
LEMMA CharactersAreNumbers ==
  /\ Load!Tab \in Nat /\ Load!LineFeed \in Nat /\ Load!Return \in Nat /\ Load!Slash \in Nat
  /\ Load!Backslash \in Nat /\ Load!LetterN \in Nat /\ Load!LetterR \in Nat
  /\ Load!LetterT \in Nat /\ Load!IndexHeader \in Nat /\ Load!Meta \in Nat
  /\ Load!RootKey \in Nat /\ Load!ScanPolicyKey \in Nat /\ Load!ExcludeNameKey \in Nat
  /\ \A n \in Nat : Load!Number(n) \in Nat
BY DEF Load!Tab, Load!LineFeed, Load!Return, Load!Slash, Load!Backslash, Load!LetterN,
       Load!LetterR, Load!LetterT, Load!IndexHeader, Load!Meta, Load!RootKey,
       Load!ScanPolicyKey, Load!ExcludeNameKey, Load!Number

LEMMA ShortTexts ==
  /\ <<>> \in Texts
  /\ \A a \in Nat : <<a>> \in Texts
  /\ \A a, b \in Nat : <<a, b>> \in Texts
  /\ \A a, b, c, d \in Nat : <<a, b, c, d>> \in Texts
BY EmptySeq DEF Texts
-----------------------------------------------------------------------------
\* Texts put together of parts.
Sums(g, seqs) ==
    /\ g \in [0 .. Len(seqs) -> Texts]
    /\ \A i \in 1 .. Len(seqs) : g[i] = g[i - 1] \o seqs[i]

LEMMA ConcatIs ==
  ASSUME NEW a \in Texts, NEW b \in Texts
  PROVE  /\ a \o b \in Texts /\ Len(a) \in Nat /\ Len(b) \in Nat
         /\ Len(a \o b) = Len(a) + Len(b)
         /\ \A i \in 1 .. Len(a) : (a \o b)[i] = a[i]
         /\ \A i \in 1 .. Len(b) : (a \o b)[Len(a) + i] = b[i]
<1>0. a \in Seq(Nat) /\ b \in Seq(Nat) /\ Len(a) \in Nat /\ Len(b) \in Nat
  BY LenProperties DEF Texts
<1>1. /\ a \o b \in Seq(Nat) /\ Len(a \o b) = Len(a) + Len(b)
      /\ \A i \in 1 .. Len(a) + Len(b) : (a \o b)[i] = IF i <= Len(a) THEN a[i] ELSE b[i - Len(a)]
  BY <1>0, ConcatProperties
<1>2. ASSUME NEW i \in 1 .. Len(a)
      PROVE  (a \o b)[i] = a[i]
  <2>1. i \in 1 .. Len(a) + Len(b) /\ i <= Len(a)
    BY <1>0
  <2>2. QED BY <1>1, <2>1
<1>3. ASSUME NEW i \in 1 .. Len(b)
      PROVE  (a \o b)[Len(a) + i] = b[i]
  <2>1. Len(a) + i \in 1 .. Len(a) + Len(b) /\ ~ (Len(a) + i <= Len(a)) /\ (Len(a) + i) - Len(a) = i
    BY <1>0
  <2>2. QED BY <1>1, <2>1
<1>4. QED BY <1>0, <1>1, <1>2, <1>3 DEF Texts

LEMMA ConcatTwice == \A a, b, c \in Texts : (a \o b) \o c = a \o (b \o c)
<1>1. SUFFICES ASSUME NEW a \in Texts, NEW b \in Texts, NEW c \in Texts
               PROVE  (a \o b) \o c = a \o (b \o c)
  OBVIOUS
<1> DEFINE l == (a \o b) \o c
           r == a \o (b \o c)
           x == Len(a)
           y == Len(b)
           z == Len(c)
<1>2. \A s, t \in Seq(Nat) : /\ s \o t \in Seq(Nat) /\ Len(s \o t) = Len(s) + Len(t)
                            /\ \A i \in 1 .. Len(s) + Len(t) :
                                  (s \o t)[i] = IF i <= Len(s) THEN s[i] ELSE t[i - Len(s)]
  BY ConcatProperties
<1>3. a \in Seq(Nat) /\ b \in Seq(Nat) /\ c \in Seq(Nat) /\ x \in Nat /\ y \in Nat /\ z \in Nat
  BY LenProperties DEF Texts
<1>4. /\ l \in Seq(Nat) /\ r \in Seq(Nat) /\ Len(l) = x + y + z /\ Len(r) = x + (y + z)
      /\ a \o b \in Seq(Nat) /\ b \o c \in Seq(Nat) /\ Len(a \o b) = x + y /\ Len(b \o c) = y + z
  BY <1>2, <1>3
<1>5. /\ \A i \in 1 .. x + y : (a \o b)[i] = IF i <= x THEN a[i] ELSE b[i - x]
      /\ \A i \in 1 .. y + z : (b \o c)[i] = IF i <= y THEN b[i] ELSE c[i - y]
  BY <1>2, <1>3
<1>6. \A i \in 1 .. (x + y) + z : l[i] = IF i <= x + y THEN (a \o b)[i] ELSE c[i - (x + y)]
  <2>1. \A i \in 1 .. Len(a \o b) + z :
           l[i] = IF i <= Len(a \o b) THEN (a \o b)[i] ELSE c[i - Len(a \o b)]
    BY <1>2, <1>3, <1>4
  <2>2. QED BY <1>4, <2>1
<1>7. \A i \in 1 .. x + (y + z) : r[i] = IF i <= x THEN a[i] ELSE (b \o c)[i - x]
  <2>1. \A i \in 1 .. x + Len(b \o c) : r[i] = IF i <= x THEN a[i] ELSE (b \o c)[i - x]
    BY <1>2, <1>3, <1>4
  <2>2. QED BY <1>4, <2>1
<1> HIDE DEF l, r, x, y, z
<1>8. ASSUME NEW i \in 1 .. (x + y) + z
      PROVE  l[i] = r[i]
  <2>1. i \in 1 .. x + (y + z)
    BY <1>3
  <2>2. CASE i <= x
    <3>1. i \in 1 .. x + y /\ i <= x + y
      BY <1>3, <2>2
    <3>2. QED BY <1>5, <1>6, <1>7, <2>1, <2>2, <3>1
  <2>3. CASE ~ (i <= x) /\ i <= x + y
    <3>1. i \in 1 .. x + y /\ i - x \in 1 .. y + z /\ i - x <= y
      BY <1>3, <2>3
    <3>2. QED BY <1>5, <1>6, <1>7, <2>1, <2>3, <3>1
  <2>4. CASE ~ (i <= x + y)
    <3>1. ~ (i <= x) /\ i - x \in 1 .. y + z /\ ~ (i - x <= y) /\ i - x - y = i - (x + y)
      BY <1>3, <2>4
    <3>2. QED BY <1>5, <1>6, <1>7, <2>1, <2>4, <3>1
  <2>5. QED BY <2>2, <2>3, <2>4
<1>9. Len(l) = Len(r) /\ Len(l) = (x + y) + z
  BY <1>3, <1>4
<1>10. l = r
  BY <1>4, <1>8, <1>9, SeqEqual
<1>11. QED BY <1>10 DEF l, r

LEMMA ConcatNothing == \A a \in Texts : a \o <<>> = a /\ <<>> \o a = a
BY ConcatEmptySeq, Zenon DEF Texts

LEMMA SumsExist ==
  ASSUME NEW seqs \in Seq(Texts), NEW b \in Texts
  PROVE  \E g : Sums(g, seqs) /\ g[0] = b
<1> DEFINE n == Len(seqs)
           E == [x \in (1 .. n) \X Texts |-> x[2] \o seqs[x[1]]]
<1>0. n \in Nat /\ \A i \in 1 .. n : seqs[i] \in Texts
  BY ElementOfSeq
<1>1. E \in [(1 .. n) \X Texts -> Texts]
  BY <1>0, ConcatText
<1>2. PICK g : IsRecursive(g, n, Texts, b, E)
  <2> HIDE DEF E, n
  <2>1. QED BY <1>0, <1>1, Recursion
<1>3. g \in [0 .. n -> Texts] /\ g[0] = b /\ \A i \in 1 .. n : g[i] = E[<<i, g[i - 1]>>]
  BY <1>2 DEF IsRecursive
<1>4. ASSUME NEW i \in 1 .. n
      PROVE  g[i] = g[i - 1] \o seqs[i]
  <2>1. i - 1 \in 0 .. n
    BY <1>0
  <2>2. g[i - 1] \in Texts
    BY <1>3, <2>1
  <2>3. <<i, g[i - 1]>> \in (1 .. n) \X Texts
    BY <2>2
  <2>4. QED BY <1>3, <2>3
<1>5. QED BY <1>3, <1>4 DEF Sums

\* Every sum begins with those before it.
LEMMA SumBegins ==
  ASSUME NEW seqs \in Seq(Texts), NEW g, Sums(g, seqs), NEW k \in 0 .. Len(seqs)
  PROVE  \E c \in Texts : g[Len(seqs)] = g[k] \o c
<1> DEFINE n == Len(seqs)
           S == {i \in 0 .. n : \E c \in Texts : g[n] = g[n - i] \o c}
<1>0. n \in Nat /\ (\A i \in 1 .. n : seqs[i] \in Texts) /\ \A i \in 0 .. n : g[i] \in Texts
  BY ElementOfSeq DEF Sums
<1>1. 0 \in S
  <2>1. n - 0 = n /\ n \in 0 .. n /\ 0 \in 0 .. n
    BY <1>0
  <2>2. g[n] = g[n] \o <<>> /\ <<>> \in Texts
    BY <1>0, <2>1, ConcatNothing, ShortTexts
  <2>3. \E c \in Texts : g[n] = g[n - 0] \o c
    BY <2>1, <2>2
  <2>4. QED BY <2>1, <2>3
<1>2. ASSUME NEW i \in 1 .. n, i - 1 \in S
      PROVE  i \in S
  <2>1. PICK c \in Texts : g[n] = g[n - (i - 1)] \o c
    BY <1>2
  <2>2. n - (i - 1) \in 1 .. n /\ (n - (i - 1)) - 1 = n - i /\ n - i \in 0 .. n
    BY <1>0
  <2>3. g[n - (i - 1)] = g[n - i] \o seqs[n - (i - 1)]
    BY <2>2 DEF Sums
  <2>4. seqs[n - (i - 1)] \in Texts /\ g[n - i] \in Texts
    BY <1>0, <2>2
  <2>5. g[n] = (g[n - i] \o seqs[n - (i - 1)]) \o c
    BY <2>1, <2>3
  <2>6. (g[n - i] \o seqs[n - (i - 1)]) \o c = g[n - i] \o (seqs[n - (i - 1)] \o c)
    BY <2>4, ConcatTwice
  <2>7. seqs[n - (i - 1)] \o c \in Texts
    BY <2>4, ConcatText
  <2>8. \E d \in Texts : g[n] = g[n - i] \o d
    BY <2>5, <2>6, <2>7
  <2>9. i \in 0 .. n
    BY <1>0
  <2>10. QED BY <2>8, <2>9
<1>3. n - k \in S
  <2> HIDE DEF S, n
  <2>1. 0 .. n \subseteq S
    BY <1>0, <1>1, <1>2, UpTo
  <2>2. k \in 0 .. n
    BY DEF n
  <2>3. n - k \in 0 .. n
    BY <1>0, <2>2
  <2>4. QED BY <2>1, <2>3
<1>4. n - (n - k) = k
  BY <1>0
<1>5. QED BY <1>3, <1>4

\* A run of parts adds what they are put together.
LEMMA SumOfRun ==
  ASSUME NEW seqs \in Seq(Texts), NEW g, Sums(g, seqs), NEW parts \in Seq(Texts),
         NEW a \in Nat, a + Len(parts) <= Len(seqs),
         \A i \in 1 .. Len(parts) : seqs[a + i] = parts[i]
  PROVE  g[a + Len(parts)] = g[a] \o Load!FlattenSeq(parts)
<1> DEFINE m == Len(parts)
           n == Len(seqs)
           F(h) == [i \in 1 .. m |-> IF i = 1 THEN parts[i] ELSE h[i - 1] \o parts[i]]
<1>0. /\ m \in Nat /\ n \in Nat /\ \A i \in 1 .. m : parts[i] \in Texts
      /\ \A i \in 0 .. n : g[i] \in Texts
  <2>1. m \in Nat /\ \A i \in 1 .. m : parts[i] \in Texts
    BY ElementOfSeq
  <2>2. n \in Nat /\ \A i \in 0 .. n : g[i] \in Texts
    BY ElementOfSeq DEF Sums
  <2>3. QED BY <2>1, <2>2
<1>1. CASE m = 0
  <2>1. parts = <<>>
    BY <1>1, EmptySeq
  <2>2. Load!FlattenSeq(parts) = <<>>
    BY <1>1, <2>1 DEF Load!FlattenSeq
  <2>3. g[a] \in Texts /\ a + m = a
    BY <1>0, <1>1
  <2>4. QED BY <2>2, <2>3, ConcatNothing
<1>2. CASE m # 0
  <2>1. PICK h : Sums(h, parts) /\ h[0] = <<>>
    BY SumsExist, ShortTexts
  <2> DEFINE t == [i \in 1 .. m |-> h[i]]
  <2>2. t = F(t)
    <3>1. ASSUME NEW i \in 1 .. m
          PROVE  t[i] = IF i = 1 THEN parts[i] ELSE t[i - 1] \o parts[i]
      <4>1. h[i] = h[i - 1] \o parts[i] /\ h[0] = <<>>
        BY <2>1 DEF Sums
      <4>2. i = 1 => h[i] = parts[i]
        <5>1. SUFFICES ASSUME i = 1
                       PROVE  h[1] = parts[1]
          OBVIOUS
        <5>2. parts[1] \in Texts /\ <<>> \o parts[1] = parts[1]
          BY <1>0, <5>1, ConcatNothing
        <5>3. h[1] = h[0] \o parts[1]
          <6>1. i - 1 = 0
            BY <5>1
          <6>2. QED BY <4>1, <5>1, <6>1
        <5>4. QED BY <4>1, <5>2, <5>3
      <4>3. i # 1 => i - 1 \in 1 .. m
        BY <1>0
      <4>4. QED BY <4>1, <4>2, <4>3
    <3>2. t = [i \in 1 .. m |-> t[i]]
      OBVIOUS
    <3> HIDE DEF t
    <3>3. QED BY <3>1, <3>2
  <2> DEFINE f == CHOOSE f : f = F(f)
  <2>3. Load!FlattenSeq(parts) = f[m]
    BY <1>2 DEF Load!FlattenSeq
  <2>4. f = F(f)
    <3> HIDE DEF t
    <3> QED BY <2>2
  <2> HIDE DEF f
  <2>5. \A i \in 1 .. m : f[i] = IF i = 1 THEN parts[i] ELSE f[i - 1] \o parts[i]
    BY <2>4
  <2> DEFINE S == {i \in 0 .. m : i = 0 \/ (f[i] \in Texts /\ g[a + i] = g[a] \o f[i])}
  <2>6. 0 \in S
    BY <1>0
  <2>7. ASSUME NEW i \in 1 .. m, i - 1 \in S
        PROVE  f[i] \in Texts /\ g[a + i] = g[a] \o f[i]
    <3>1. a + i \in 1 .. n /\ (a + i) - 1 = a + (i - 1) /\ a \in 0 .. n
      BY <1>0
    <3>2. g[a + i] = g[a + (i - 1)] \o parts[i]
      BY <3>1 DEF Sums
    <3>3. CASE i = 1
      <4>1. a + (i - 1) = a /\ f[i] = parts[i]
        BY <2>5, <3>3
      <4>2. QED BY <1>0, <3>2, <4>1
    <3>4. CASE i # 1
      <4>0. i - 1 # 0
        BY <3>4
      <4>1. f[i - 1] \in Texts /\ g[a + (i - 1)] = g[a] \o f[i - 1]
        BY <2>7, <4>0
      <4>2. f[i] = f[i - 1] \o parts[i]
        BY <2>5, <3>4
      <4>3. parts[i] \in Texts /\ g[a] \in Texts
        BY <1>0, <3>1
      <4>4. (g[a] \o f[i - 1]) \o parts[i] = g[a] \o (f[i - 1] \o parts[i])
        BY <4>1, <4>3, ConcatTwice
      <4>5. f[i - 1] \o parts[i] \in Texts
        BY <4>1, <4>3, ConcatText
      <4>6. QED BY <3>2, <4>1, <4>2, <4>4, <4>5
    <3>5. QED BY <3>3, <3>4
  <2>8. m \in S
    <3>0. \A i \in 1 .. m : i \in 0 .. m
      BY <1>0
    <3>1. \A i \in 1 .. m : i - 1 \in S => i \in S
      <4>1. SUFFICES ASSUME NEW i \in 1 .. m, i - 1 \in S
                     PROVE  i \in S
        OBVIOUS
      <4>2. f[i] \in Texts /\ g[a + i] = g[a] \o f[i]
        BY <2>7, <4>1
      <4>3. QED BY <3>0, <4>2
    <3> HIDE DEF S, m
    <3>2. 0 .. m \subseteq S
      BY <1>0, <2>6, <3>1, UpTo
    <3>3. QED BY <1>0, <3>2
  <2>9. QED BY <1>2, <2>3, <2>8
<1>3. QED BY <1>1, <1>2
-----------------------------------------------------------------------------
LEMMA EscapedIsText ==
  ASSUME NEW value \in Texts
  PROVE  Load!Escaped(value) \in Texts
<1> DEFINE seqs == [i \in DOMAIN value |-> Load!EscapedCharacter(value[i])]
<1>1. \A c \in Nat : Load!EscapedCharacter(c) \in Texts
  BY CharactersAreNumbers, ShortTexts DEF Load!EscapedCharacter
<1>2. seqs \in Seq(Texts)
  <2>1. Len(value) \in Nat /\ DOMAIN value = 1 .. Len(value)
        /\ \A i \in 1 .. Len(value) : value[i] \in Nat
    BY ElementOfSeq DEF Texts
  <2>2. \A i \in 1 .. Len(value) : Load!EscapedCharacter(value[i]) \in Texts
    BY <1>1, <2>1
  <2>3. QED BY <2>1, <2>2
<1> HIDE DEF seqs
<1>3. Load!FlattenSeq(seqs) \in Texts
  BY <1>2, FlattenIsText
<1>4. QED BY <1>3 DEF Load!Escaped, seqs

LEMMA LossyIsText ==
  ASSUME NEW path \in Texts
  PROVE  Load!Lossy(path) \in Texts
<1>1. Len(path) \in Nat /\ DOMAIN path = 1 .. Len(path)
      /\ \A i \in 1 .. Len(path) : path[i] \in Nat
  BY ElementOfSeq DEF Texts
<1>2. Load!Replacement \in Nat
  BY DEF Load!Replacement
<1>3. Load!Lossy(path) \in [1 .. Len(path) -> Nat]
  BY <1>1, <1>2 DEF Load!Lossy
<1>4. QED BY <1>1, <1>3 DEF Texts

\* A root that is UTF-8 is written as it is.
LEMMA LossyOfUtf8 ==
  ASSUME NEW path \in Texts, \A i \in DOMAIN path : path[i] \notin Load!NotUtf8
  PROVE  Load!Lossy(path) = path
<1>1. path = [i \in DOMAIN path |-> path[i]]
  BY DEF Texts
<1>2. QED BY <1>1 DEF Load!Lossy

LEMMA RecordsAreTexts ==
  /\ \A key \in Nat, value \in Texts : Load!MetadataRecord(key, value) \in Texts
  /\ \A path \in Texts, data \in FileData : Load!FileRecord(path, data) \in Texts
<1>1. ASSUME NEW key \in Nat, NEW value \in Texts
      PROVE  Load!MetadataRecord(key, value) \in Texts
  <2>1. /\ <<Load!Meta, Load!Tab, key, Load!Tab>> \in Texts /\ <<Load!LineFeed>> \in Texts
        /\ Load!Escaped(value) \in Texts
    BY CharactersAreNumbers, ShortTexts, EscapedIsText
  <2>2. QED BY <2>1, ConcatText DEF Load!MetadataRecord
<1>2. ASSUME NEW path \in Texts, NEW data \in FileData
      PROVE  Load!FileRecord(path, data) \in Texts
  <2>1. /\ <<Load!Number(data.size), Load!Tab, Load!Number(data.time), Load!Tab>> \in Texts
        /\ <<Load!LineFeed>> \in Texts
    <3>1. data.size \in Nat /\ data.time \in Nat
      BY DEF FileData
    <3>2. QED BY <3>1, CharactersAreNumbers, ShortTexts
  <2>2. QED BY <2>1, ConcatText DEF Load!FileRecord
<1>3. QED BY <1>1, <1>2

\* What save_with writes is a text.
LEMMA SavedIsText ==
  ASSUME NEW s, IsSnapshot(s)
  PROVE  Load!Saved(s) \in Texts
<1> DEFINE names == IF s.policy = Unknown THEN <<>> ELSE Load!InOrder(s.policy)
           paths == Load!InOrder(DOMAIN s.files)
           nameLines == [i \in DOMAIN names |->
                            Load!MetadataRecord(Load!ExcludeNameKey, names[i])]
           fileLines == [i \in DOMAIN paths |-> Load!FileRecord(paths[i], s.files[paths[i]])]
           rootLine == IF s.root = NoRoot THEN <<>>
                       ELSE Load!MetadataRecord(Load!RootKey, Load!Lossy(s.root))
           policyLine == IF s.policy = Unknown THEN <<>>
                         ELSE Load!MetadataRecord(Load!ScanPolicyKey, <<Load!Number(1)>>)
<1>0. /\ s.root # NoRoot => Load!Lossy(s.root) \in Texts
      /\ s.policy # Unknown => IsFiniteSet(s.policy) /\ s.policy \in SUBSET Texts
      /\ IsFiniteSet(DOMAIN s.files) /\ DOMAIN s.files \in SUBSET Texts
      /\ s.files \in [DOMAIN s.files -> FileData]
  BY SameLibrary, LossyIsText DEF IsSnapshot, IsPath, Texts
<1>1. \E n \in Nat : names \in [1 .. n -> Texts]
  <2>1. CASE s.policy = Unknown
    <3>1. names \in [1 .. 0 -> Texts]
      BY <2>1
    <3>2. QED BY <3>1
  <2>2. CASE s.policy # Unknown
    <3>1. names = Load!InOrder(s.policy)
      BY <2>2
    <3> HIDE DEF names
    <3>2. Cardinality(s.policy) \in Nat /\ Arranges(names, s.policy)
      BY <1>0, <2>2, <3>1, InOrderIs
    <3>3. QED BY <1>0, <2>2, <3>2 DEF Arranges
  <2>3. QED BY <2>1, <2>2
<1>2. \E n \in Nat : paths \in [1 .. n -> DOMAIN s.files]
  <2>1. Cardinality(DOMAIN s.files) \in Nat /\ Arranges(paths, DOMAIN s.files)
    BY <1>0, InOrderIs
  <2> HIDE DEF paths
  <2>2. QED BY <2>1 DEF Arranges
<1>3. nameLines \in Seq(Texts)
  <2> HIDE DEF names
  <2>1. PICK n \in Nat : names \in [1 .. n -> Texts]
    BY <1>1
  <2>2. \A i \in 1 .. n : Load!MetadataRecord(Load!ExcludeNameKey, names[i]) \in Texts
    BY <2>1, RecordsAreTexts, CharactersAreNumbers
  <2>3. QED BY <2>1, <2>2
<1>4. fileLines \in Seq(Texts)
  <2> HIDE DEF paths
  <2>1. PICK n \in Nat : paths \in [1 .. n -> DOMAIN s.files]
    BY <1>2
  <2>2. \A i \in 1 .. n : Load!FileRecord(paths[i], s.files[paths[i]]) \in Texts
    <3>1. SUFFICES ASSUME NEW i \in 1 .. n
                   PROVE  Load!FileRecord(paths[i], s.files[paths[i]]) \in Texts
      OBVIOUS
    <3>2. paths[i] \in Texts /\ s.files[paths[i]] \in FileData
      BY <1>0, <2>1
    <3>3. QED BY <3>2, RecordsAreTexts
  <2>3. QED BY <2>1, <2>2
<1>5. rootLine \in Texts
  BY <1>0, RecordsAreTexts, CharactersAreNumbers, ShortTexts
<1>6. policyLine \in Texts
  <2>1. <<Load!Number(1)>> \in Texts
    BY CharactersAreNumbers, ShortTexts
  <2>2. QED BY <2>1, RecordsAreTexts, CharactersAreNumbers, ShortTexts
<1> HIDE DEF nameLines, fileLines, rootLine, policyLine
<1>7. Load!FlattenSeq(nameLines) \in Texts /\ Load!FlattenSeq(fileLines) \in Texts
  BY <1>3, <1>4, FlattenIsText
<1>8. <<Load!IndexHeader, Load!LineFeed>> \in Texts
  BY CharactersAreNumbers, ShortTexts
<1>9. Load!Saved(s) = <<Load!IndexHeader, Load!LineFeed>> \o rootLine \o policyLine
                      \o Load!FlattenSeq(nameLines) \o Load!FlattenSeq(fileLines)
  BY DEF Load!Saved, nameLines, fileLines, rootLine, policyLine
<1>10. QED BY <1>5, <1>6, <1>7, <1>8, <1>9, ConcatText
-----------------------------------------------------------------------------
LEMMA LeastIs ==
  ASSUME NEW T \in SUBSET Nat, T # {}
  PROVE  Load!Min(T) \in T /\ \A m \in T : Load!Min(T) <= m
<1>1. \E n \in T : \A m \in T : n <= m
  BY LeastNumber
<1>2. QED BY <1>1 DEF Load!Min

LEMMA SegmentIsText ==
  ASSUME NEW path \in Texts, NEW i \in 1 .. Len(path)
  PROVE  Load!Segment(path, i) \in Texts
<1> DEFINE next == {j \in Load!Separators(path) : j >= i} \union {Len(path) + 1}
<1>1. Len(path) \in Nat /\ DOMAIN path = 1 .. Len(path)
  BY DEF Texts
<1>2. next \in SUBSET Nat /\ next # {} /\ \A j \in next : j <= Len(path) + 1
  BY <1>1 DEF Load!Separators
<1>3. Load!Segment(path, i) = SubSeq(path, i, Load!Min(next) - 1)
  BY DEF Load!Segment
<1> HIDE DEF next
<1>4. Load!Min(next) \in Nat /\ Load!Min(next) <= Len(path) + 1
  BY <1>2, LeastIs
<1>5. QED BY <1>1, <1>3, <1>4, SubText
-----------------------------------------------------------------------------
\* from_user_path, a segment at a time.
KeptAt(path, i) ==
    /\ i = 1 \/ i - 1 \in Load!Separators(path)
    /\ Load!Segment(path, i) \notin {<<>>, <<Load!Dot>>}

Joined(done, segment) == IF done = <<>> THEN segment ELSE done \o <<Load!Slash>> \o segment

Normalizes(f, path) ==
    /\ f \in [0 .. Len(path) -> Texts] /\ f[0] = <<>>
    /\ \A i \in 1 .. Len(path) :
          f[i] = IF KeptAt(path, i) THEN Joined(f[i - 1], Load!Segment(path, i)) ELSE f[i - 1]

LEMMA NormalizedIs ==
  ASSUME NEW path \in Texts
  PROVE  \E f : Normalizes(f, path) /\ Load!Normalized(path) = f[Len(path)]
<1> DEFINE n == Len(path)
           F(f) == [i \in 0 .. n |->
                      IF i = 0 THEN <<>>
                      ELSE IF KeptAt(path, i) THEN Joined(f[i - 1], Load!Segment(path, i))
                      ELSE f[i - 1]]
           E == [x \in (1 .. n) \X Texts |->
                   IF KeptAt(path, x[1]) THEN Joined(x[2], Load!Segment(path, x[1])) ELSE x[2]]
           f == CHOOSE f : f = F(f)
<1>0. n \in Nat /\ <<>> \in Texts
  BY ShortTexts DEF Texts
<1>1. \A a, b \in Texts : Joined(a, b) \in Texts
  <2>1. <<Load!Slash>> \in Texts
    BY CharactersAreNumbers, ShortTexts
  <2>2. QED BY <2>1, ConcatText DEF Joined
<1>2. E \in [(1 .. n) \X Texts -> Texts]
  BY <1>1, SegmentIsText
<1>3. \E g : g = F(g)
  <2>1. PICK g : IsRecursive(g, n, Texts, <<>>, E)
    <3>1. n \in Nat
      BY <1>0
    <3> HIDE DEF E, n
    <3>2. QED BY <1>0, <1>2, <3>1, Recursion
  <2>2. /\ g \in [0 .. n -> Texts] /\ g[0] = <<>>
        /\ \A i \in 1 .. n : g[i] = E[<<i, g[i - 1]>>]
    BY <2>1 DEF IsRecursive
  <2>3. \A i \in 1 .. n :
           g[i] = IF KeptAt(path, i) THEN Joined(g[i - 1], Load!Segment(path, i)) ELSE g[i - 1]
    <3>1. SUFFICES ASSUME NEW i \in 1 .. n
                   PROVE  E[<<i, g[i - 1]>>] =
                             IF KeptAt(path, i) THEN Joined(g[i - 1], Load!Segment(path, i))
                             ELSE g[i - 1]
      BY <2>2
    <3>2. g[i - 1] \in Texts
      BY <1>0, <2>2
    <3>3. QED BY <3>2
  <2>4. \A i \in 0 .. n : g[i] = F(g)[i]
    BY <2>2, <2>3
  <2>5. g = F(g)
    BY <2>2, <2>4
  <2>6. QED BY <2>5
<1>4. f = F(f)
  BY <1>3
<1>5. Load!Normalized(path) = f[n]
  BY DEF Load!Normalized, KeptAt, Joined
<1> HIDE DEF f
<1>6. /\ DOMAIN f = 0 .. n /\ f = [i \in 0 .. n |-> f[i]] /\ f[0] = <<>>
      /\ \A i \in 1 .. n :
            f[i] = IF KeptAt(path, i) THEN Joined(f[i - 1], Load!Segment(path, i)) ELSE f[i - 1]
  <2>1. \A i \in 1 .. n : i \in 0 .. n /\ i # 0
    BY <1>0
  <2>2. 0 \in 0 .. n
    BY <1>0
  <2>3. QED BY <1>4, <2>1, <2>2
<1> DEFINE S == {i \in 0 .. n : f[i] \in Texts}
<1>7. 0 \in S
  BY <1>0, <1>6
<1>8. \A i \in 1 .. n : i - 1 \in S => i \in S
  <2>1. SUFFICES ASSUME NEW i \in 1 .. n, f[i - 1] \in Texts
                 PROVE  i \in 0 .. n /\ f[i] \in Texts
    OBVIOUS
  <2>2. Load!Segment(path, i) \in Texts
    BY SegmentIsText
  <2>3. QED BY <1>0, <1>1, <1>6, <2>1, <2>2
<1>9. 0 .. n \subseteq S
  <2> HIDE DEF S, n
  <2>1. QED BY <1>0, <1>7, <1>8, UpTo
<1>10. f \in [0 .. n -> Texts]
  BY <1>6, <1>9
<1>11. Normalizes(f, path)
  BY <1>6, <1>10 DEF Normalizes
<1>12. QED BY <1>5, <1>11

\* PathId::from_user_path makes a text of a text.
LEMMA NormalizedIsText ==
  ASSUME NEW path \in Texts
  PROVE  Load!Normalized(path) \in Texts
<1>1. PICK f : Normalizes(f, path) /\ Load!Normalized(path) = f[Len(path)]
  BY NormalizedIs
<1>2. Len(path) \in 0 .. Len(path)
  BY DEF Texts
<1>3. QED BY <1>1, <1>2 DEF Normalizes
-----------------------------------------------------------------------------
\* unescape_metadata_value, a character at a time.
Meaning(c) == CASE c = Load!Backslash -> <<Load!Backslash>>
                [] c = Load!LetterT -> <<Load!Tab>>
                [] c = Load!LetterN -> <<Load!LineFeed>>
                [] c = Load!LetterR -> <<Load!Return>>
                [] OTHER -> <<Load!Backslash, c>>

Take(state, c) ==
    IF state.open THEN [open |-> FALSE, out |-> state.out \o Meaning(c)]
    ELSE IF c = Load!Backslash THEN [state EXCEPT !.open = TRUE]
    ELSE [state EXCEPT !.out = Append(@, c)]

Nothing == [open |-> FALSE, out |-> <<>>]
HalfRead == [open : BOOLEAN, out : Texts]

Reads(f, value) ==
    /\ f \in [0 .. Len(value) -> HalfRead] /\ f[0] = Nothing
    /\ \A i \in 1 .. Len(value) : f[i] = Take(f[i - 1], value[i])

LEMMA UnescapedIs ==
  ASSUME NEW value \in Texts
  PROVE  \E f : /\ Reads(f, value)
                /\ LET end == f[Len(value)]
                   IN  Load!Unescaped(value) =
                          IF end.open THEN Append(end.out, Load!Backslash) ELSE end.out
<1> DEFINE n == Len(value)
           F(f) == [i \in 0 .. n |-> IF i = 0 THEN Nothing ELSE Take(f[i - 1], value[i])]
           E == [x \in (1 .. n) \X HalfRead |-> Take(x[2], value[x[1]])]
           f == CHOOSE f : f = F(f)
<1>0. n \in Nat /\ Nothing \in HalfRead /\ \A i \in 1 .. n : value[i] \in Nat
  BY ShortTexts, ElementOfSeq DEF Texts, Nothing, HalfRead
<1>1. \A s \in HalfRead, c \in Nat : Take(s, c) \in HalfRead
  <2>1. SUFFICES ASSUME NEW s \in HalfRead, NEW c \in Nat
                 PROVE  Take(s, c) \in HalfRead
    OBVIOUS
  <2>2. Meaning(c) \in Texts
    BY CharactersAreNumbers, ShortTexts DEF Meaning
  <2>3. s.out \in Texts /\ s.out \o Meaning(c) \in Texts /\ Append(s.out, c) \in Texts
    BY <2>2, ConcatText, AppendProperties DEF Texts, HalfRead
  <2>4. QED BY <2>3 DEF Take, HalfRead
<1>2. E \in [(1 .. n) \X HalfRead -> HalfRead]
  BY <1>0, <1>1
<1>3. PICK g : IsRecursive(g, n, HalfRead, Nothing, E)
  <2> HIDE DEF E, n
  <2>1. QED BY <1>0, <1>2, Recursion
<1>4. /\ g \in [0 .. n -> HalfRead] /\ g[0] = Nothing
      /\ \A i \in 1 .. n : g[i] = E[<<i, g[i - 1]>>]
  BY <1>3 DEF IsRecursive
<1>5. ASSUME NEW i \in 1 .. n
      PROVE  g[i] = Take(g[i - 1], value[i])
  <2>1. i - 1 \in 0 .. n
    BY <1>0
  <2>2. g[i - 1] \in HalfRead
    BY <1>4, <2>1
  <2>3. <<i, g[i - 1]>> \in (1 .. n) \X HalfRead
    BY <2>2
  <2>4. QED BY <1>4, <2>3
<1>6. g = F(g)
  <2>1. \A i \in 0 .. n : i = 0 \/ i \in 1 .. n
    BY <1>0
  <2>2. \A i \in 0 .. n : g[i] = F(g)[i]
    BY <1>4, <1>5, <2>1
  <2>3. QED BY <1>4, <2>2
<1>7. f = F(f)
  BY <1>6
<1>8. Load!Unescaped(value) = IF f[n].open THEN Append(f[n].out, Load!Backslash) ELSE f[n].out
  BY DEF Load!Unescaped, Take, Meaning, Nothing
<1> HIDE DEF f
<1>9. /\ DOMAIN f = 0 .. n /\ f = [i \in 0 .. n |-> f[i]]
      /\ f[0] = Nothing /\ \A i \in 1 .. n : f[i] = Take(f[i - 1], value[i])
  <2>1. \A i \in 1 .. n : i \in 0 .. n /\ i # 0
    BY <1>0
  <2>2. 0 \in 0 .. n
    BY <1>0
  <2>3. QED BY <1>7, <2>1, <2>2
<1> DEFINE S == {i \in 0 .. n : f[i] \in HalfRead}
<1>10. 0 \in S
  BY <1>0, <1>9
<1>11. \A i \in 1 .. n : i - 1 \in S => i \in S
  <2>1. SUFFICES ASSUME NEW i \in 1 .. n, f[i - 1] \in HalfRead
                 PROVE  i \in 0 .. n /\ f[i] \in HalfRead
    OBVIOUS
  <2>2. f[i] = Take(f[i - 1], value[i]) /\ value[i] \in Nat
    BY <1>0, <1>9
  <2>3. QED BY <1>0, <1>1, <2>1, <2>2
<1>12. 0 .. n \subseteq S
  <2> HIDE DEF S, n
  <2>1. QED BY <1>0, <1>10, <1>11, UpTo
<1>13. f \in [0 .. n -> HalfRead]
  BY <1>9, <1>12
<1>14. Reads(f, value)
  BY <1>9, <1>13 DEF Reads
<1>15. QED BY <1>8, <1>14

\* What unescape_metadata_value makes of a text is a text.
LEMMA UnescapedIsText ==
  ASSUME NEW value \in Texts
  PROVE  Load!Unescaped(value) \in Texts
<1>1. PICK f : /\ Reads(f, value)
               /\ Load!Unescaped(value) =
                     IF f[Len(value)].open THEN Append(f[Len(value)].out, Load!Backslash)
                     ELSE f[Len(value)].out
  BY UnescapedIs
<1>2. f[Len(value)] \in HalfRead
  <2>1. Len(value) \in Nat
    BY DEF Texts
  <2>2. QED BY <1>1, <2>1 DEF Reads
<1>3. f[Len(value)].out \in Texts
  BY <1>2 DEF HalfRead
<1>4. QED BY <1>1, <1>3, CharactersAreNumbers, AppendProperties DEF Texts
-----------------------------------------------------------------------------
\* splitn makes one to three parts, which are texts; an empty line has one.
LEMMA PartsAre ==
  ASSUME NEW line \in Texts
  PROVE  /\ Load!Parts(line) \in Seq(Texts) /\ Len(Load!Parts(line)) \in 1 .. 3
         /\ Len(Load!Parts(line)) >= 2 => line # <<>>
         /\ \A i \in Nat \ {0} : Load!Part(line, i) \in Texts
<1> DEFINE n == Len(line)
           I == {i \in 1 .. n : line[i] = Load!Tab}
           first == IF I # {} THEN Load!Min(I) ELSE 0
           J == {i \in first + 1 .. n : line[i] = Load!Tab}
           second == IF J # {} THEN Load!Min(J) ELSE 0
           a == SubSeq(line, 1, first - 1)
           b == SubSeq(line, first + 1, n)
           c == SubSeq(line, first + 1, second - 1)
           d == SubSeq(line, second + 1, n)
<1>0. n \in Nat
  BY DEF Texts
<1>1. Load!Parts(line) = IF first = 0 THEN <<line>>
                         ELSE IF second = 0 THEN <<a, b>> ELSE <<a, c, d>>
  BY DEF Load!Parts, Load!SelectInSeq, Load!SelectInSubSeq
<1>2. first \in 0 .. n
  <2>1. CASE I # {}
    <3>1. I \in SUBSET Nat
      BY <1>0
    <3>2. Load!Min(I) \in I
      <4> HIDE DEF I
      <4> QED BY <2>1, <3>1, LeastIs
    <3>3. QED BY <1>0, <2>1, <3>2
  <2>2. CASE I = {}
    BY <1>0, <2>2
  <2>3. QED BY <2>1, <2>2
<1>3. second \in 0 .. n
  <2> HIDE DEF first
  <2>1. CASE J # {}
    <3>1. J \in SUBSET Nat
      BY <1>0, <1>2
    <3>2. Load!Min(J) \in J
      <4> HIDE DEF J
      <4> QED BY <2>1, <3>1, LeastIs
    <3>3. QED BY <1>0, <1>2, <2>1, <3>2
  <2>2. CASE J = {}
    BY <1>0, <2>2
  <2>3. QED BY <2>1, <2>2
<1>4. first # 0 => line # <<>>
  BY <1>2
<1> HIDE DEF first, second
<1>5. a \in Texts /\ b \in Texts /\ c \in Texts /\ d \in Texts
  BY <1>0, <1>2, <1>3, SubText
<1> HIDE DEF a, b, c, d
<1>6. /\ Load!Parts(line) \in Seq(Texts) /\ Len(Load!Parts(line)) \in 1 .. 3
      /\ Len(Load!Parts(line)) >= 2 => line # <<>>
  <2>1. CASE first = 0
    BY <1>1, <2>1
  <2>2. CASE first # 0 /\ second = 0
    BY <1>1, <1>4, <1>5, <2>2
  <2>3. CASE first # 0 /\ second # 0
    BY <1>1, <1>4, <1>5, <2>3
  <2>4. QED BY <2>1, <2>2, <2>3
<1>7. \A i \in Nat \ {0} : Load!Part(line, i) \in Texts
  <2>1. SUFFICES ASSUME NEW i \in Nat \ {0}
                 PROVE  Load!Part(line, i) \in Texts
    OBVIOUS
  <2>2. i <= Len(Load!Parts(line)) => Load!Parts(line)[i] \in Texts
    BY <1>6, ElementOfSeq
  <2>3. QED BY <2>2, ShortTexts DEF Load!Part
<1>8. QED BY <1>6, <1>7

\* A line ends at the next line feed or with the text.
LEMMA LineEndIs ==
  ASSUME text \in Texts, NEW n \in Nat, n < Len(text)
  PROVE  /\ Load!LineEnd(n) \in n + 1 .. Len(text)
         /\ \A i \in n + 1 .. Load!LineEnd(n) - 1 : text[i] # Load!LineFeed
         /\ Load!LineEnd(n) = Len(text) \/ text[Load!LineEnd(n)] = Load!LineFeed
<1> DEFINE I == {i \in n + 1 .. Len(text) : text[i] = Load!LineFeed}
<1>0. Len(text) \in Nat
  BY DEF Texts
<1>1. CASE I = {}
  <2>1. Load!LineEnd(n) = Len(text)
    BY <1>1 DEF Load!LineEnd, Load!SelectInSubSeq
  <2>2. QED BY <1>0, <1>1, <2>1
<1>2. CASE I # {}
  <2>1. I \in SUBSET Nat
    BY <1>0
  <2> DEFINE e == Load!Min(I)
  <2>2. e \in I /\ \A m \in I : e <= m
    <3> HIDE DEF I
    <3> QED BY <1>2, <2>1, LeastIs
  <2>3. e # 0
    BY <1>0, <2>2
  <2>4. Load!LineEnd(n) = e
    BY <1>2, <2>3 DEF Load!LineEnd, Load!SelectInSubSeq
  <2> HIDE DEF e
  <2>5. QED BY <1>0, <2>2, <2>4
<1>3. QED BY <1>1, <1>2

LEMMA LineIsText ==
  ASSUME text \in Texts, NEW n \in Nat, n < Len(text)
  PROVE  Load!LineAfter(n) \in Texts
<1> DEFINE raw == SubSeq(text, n + 1, Load!LineEnd(n))
           body == IF Load!Last(raw) = Load!LineFeed THEN Load!Front(raw) ELSE raw
<1>1. raw \in Texts
  BY LineEndIs, SubText
<1>2. \A s \in Texts : Load!Front(s) \in Texts
  <2>1. SUFFICES ASSUME NEW s \in Texts
                 PROVE  Load!Front(s) \in Texts
    OBVIOUS
  <2>2. Len(s) - 1 \in Int /\ Len(s) - 1 <= Len(s)
    BY DEF Texts
  <2>3. QED BY <2>2, SubText DEF Load!Front
<1>3. body \in Texts
  BY <1>1, <1>2
<1>4. Load!LineAfter(n) \in {body, Load!Front(body)}
  BY DEF Load!LineAfter
<1>5. QED BY <1>2, <1>3, <1>4

LEMMA MetadataIs ==
  ASSUME NEW line \in Texts, NEW key
  PROVE  /\ Load!IsMetadata(line, key) => line # <<>> /\ Load!IsAnyMetadata(line)
         /\ \A k : Load!IsMetadata(line, key) /\ Load!IsMetadata(line, k) => k = key
<1>1. Load!IsMetadata(line, key) => line # <<>> /\ Load!IsAnyMetadata(line)
  BY PartsAre DEF Load!IsMetadata, Load!IsAnyMetadata
<1>2. ASSUME NEW k, Load!IsMetadata(line, key), Load!IsMetadata(line, k)
      PROVE  k = key
  <2>1. <<k>> = <<key>>
    BY <1>2 DEF Load!IsMetadata
  <2>2. <<k>>[1] = <<key>>[1]
    BY <2>1
  <2>3. QED BY <2>2
<1>3. QED BY <1>1, <1>2
-----------------------------------------------------------------------------
\* The lines of a kind that start before position n of the text.
LinesBefore(key, n) == {k \in Load!Lines(key) : k < n}
MarkerLines(n) == LinesBefore(Load!ScanPolicyKey, n)
NameLines(n) == LinesBefore(Load!ExcludeNameKey, n)
HasName(n) == Len(Load!Parts(Load!LineAfter(n))) = 3

AtMostOne(S) == \A a, b \in S : a = b

WellFormed(markers, names) ==
    /\ AtMostOne(markers)
    /\ \A n \in markers : Load!HasMarker(n)
    /\ \A n \in names : HasName(n)

\* Where the loader is, and what it has.
LoadTypes ==
    /\ text \in Texts
    /\ position \in Load!LineStarts \union {0, Len(text)}
    /\ header \in {"unread", "present", "absent"}
    /\ header = "unread" => position = 0
    /\ header = "present" => position # 0
    /\ IsListing(files)
    /\ root \in Texts \union {NoRoot}
    /\ policySeen \in BOOLEAN /\ exclusionsSeen \in BOOLEAN
    /\ IsFiniteSet(exclusions) /\ exclusions \subseteq Texts
    /\ pc \in {"reading", "loaded", "invalid", "failed"}

\* What the loader knows of the policy is what the lines behind it say.
PolicyInv ==
    /\ header # "present" => ~ policySeen /\ ~ exclusionsSeen /\ pc # "invalid"
    /\ header = "present" /\ pc # "invalid" =>
          /\ policySeen <=> MarkerLines(position) # {}
          /\ exclusionsSeen <=> NameLines(position) # {}
          /\ WellFormed(MarkerLines(position), NameLines(position))
    /\ pc = "loaded" => position = Len(text) /\ (exclusionsSeen => policySeen)
    /\ pc = "invalid" =>
          \/ ~ WellFormed(MarkerLines(Len(text)), NameLines(Len(text)))
          \/ NameLines(Len(text)) # {} /\ MarkerLines(Len(text)) = {}

LoadInv == LoadTypes /\ PolicyInv

LEMMA TextKept ==
  ASSUME text' = text
  PROVE  /\ Load!LineStarts' = Load!LineStarts
         /\ \A key, n : LinesBefore(key, n)' = LinesBefore(key, n)
         /\ \A n : MarkerLines(n)' = MarkerLines(n) /\ NameLines(n)' = NameLines(n)
         /\ \A n : (Load!HasMarker(n)' <=> Load!HasMarker(n)) /\ (HasName(n)' <=> HasName(n))
<1>0. \A n : Load!LineEnd(n)' = Load!LineEnd(n)
  BY DEF Load!LineEnd, Load!SelectInSubSeq
<1>1. \A n : Load!LineAfter(n)' = Load!LineAfter(n)
  BY <1>0 DEF Load!LineAfter
<1>2. Load!LineStarts' = Load!LineStarts
  BY DEF Load!LineStarts
<1>3. \A key : Load!Lines(key)' = Load!Lines(key)
  BY <1>1, <1>2 DEF Load!Lines
<1>4. \A key, n : LinesBefore(key, n)' = LinesBefore(key, n)
  BY <1>3 DEF LinesBefore
<1>5. \A n : MarkerLines(n)' = MarkerLines(n) /\ NameLines(n)' = NameLines(n)
  BY <1>4 DEF MarkerLines, NameLines
<1>6. \A n : (Load!HasMarker(n)' <=> Load!HasMarker(n)) /\ (HasName(n)' <=> HasName(n))
  BY <1>1 DEF Load!HasMarker, HasName
<1>7. QED BY <1>2, <1>4, <1>5, <1>6

\* A line that has been read is behind the loader, and no other.
LEMMA LineRead ==
  ASSUME LoadTypes, Load!AtLine, header # "unread", NEW key
  PROVE  LET next == Load!LineEnd(position)
             here == IF position # 0 /\ Load!IsMetadata(Load!LineAfter(position), key)
                     THEN {position} ELSE {}
         IN  /\ next \in Load!LineStarts \union {0, Len(text)} /\ next \in Nat \ {0}
             /\ position \in Nat /\ position < Len(text) /\ next <= Len(text)
             /\ LinesBefore(key, next) = LinesBefore(key, position) \union here
             /\ LinesBefore(key, next) \subseteq LinesBefore(key, Len(text))
             /\ \A n \in LinesBefore(key, position) : n # position
<1> DEFINE next == Load!LineEnd(position)
<1>1. Len(text) \in Nat /\ position \in Nat /\ position < Len(text) /\ position \in Load!LineStarts
  BY DEF LoadTypes, Texts, Load!AtLine, Load!LineStarts
<1>2. /\ next \in position + 1 .. Len(text)
      /\ \A i \in position + 1 .. next - 1 : text[i] # Load!LineFeed
      /\ next = Len(text) \/ text[next] = Load!LineFeed
  BY <1>1, LineEndIs DEF LoadTypes
<1> HIDE DEF next
<1>3. next \in Load!LineStarts \union {0, Len(text)} /\ next \in Nat \ {0} /\ next <= Len(text)
  BY <1>1, <1>2 DEF Load!LineStarts
<1>4. \A n \in Load!LineStarts : n \in Nat /\ (n < next <=> n < position \/ n = position)
  <2>1. SUFFICES ASSUME NEW n \in Load!LineStarts, n < next, n > position
                 PROVE  FALSE
    BY <1>1, <1>2 DEF Load!LineStarts
  <2>2. n \in position + 1 .. next - 1 /\ n # 0
    BY <1>1, <1>2, <2>1 DEF Load!LineStarts
  <2>3. text[n] = Load!LineFeed
    BY <2>1, <2>2 DEF Load!LineStarts
  <2>4. QED BY <1>2, <2>2, <2>3
<1>5. Load!Lines(key) \subseteq Load!LineStarts
      /\ (position \in Load!Lines(key) <=>
             position # 0 /\ Load!IsMetadata(Load!LineAfter(position), key))
  BY <1>1 DEF Load!Lines
<1>6. \A n \in Load!LineStarts : n < next => n < Len(text)
  BY <1>1, <1>3, <1>4
<1>7. \A n \in LinesBefore(key, position) : n # position
  BY <1>1, <1>4, <1>5 DEF LinesBefore
<1>8. QED BY <1>1, <1>3, <1>4, <1>5, <1>6, <1>7 DEF LinesBefore, next

\* What a line may do to what the loader knows of the policy.
LineMeans ==
    LET isMarker == Load!IsMetadata(Load!LineAfter(position), Load!ScanPolicyKey)
        isName == Load!IsMetadata(Load!LineAfter(position), Load!ExcludeNameKey)
    IN  /\ header = "present" /\ isMarker =>
              IF policySeen \/ ~ Load!HasMarker(position) THEN pc' = "invalid"
              ELSE policySeen' = TRUE /\ pc' = pc
        /\ header = "present" /\ isName =>
              IF ~ HasName(position) THEN pc' = "invalid"
              ELSE exclusionsSeen' = TRUE /\ pc' = pc
        /\ ~ isMarker \/ header # "present" => policySeen' = policySeen
        /\ ~ isName \/ header # "present" => exclusionsSeen' = exclusionsSeen
        /\ (~ isMarker /\ ~ isName) \/ header # "present" => pc' = pc

LEMMA MeaningKeeps ==
  ASSUME LoadInv, text' = text, header' = header, header # "unread", Load!AtLine,
         position' = Load!LineEnd(position), LineMeans
  PROVE  PolicyInv'
<1> DEFINE M == MarkerLines(position)
           N == NameLines(position)
           isMarker == Load!IsMetadata(Load!LineAfter(position), Load!ScanPolicyKey)
           isName == Load!IsMetadata(Load!LineAfter(position), Load!ExcludeNameKey)
<1>0. pc = "reading"
  BY DEF Load!AtLine
<1>1. CASE header # "present"
  BY <1>0, <1>1 DEF LoadInv, PolicyInv, LineMeans
<1>2. CASE header = "present"
  <2>0. position # 0
    BY <1>2 DEF LoadInv, LoadTypes
  <2>1. /\ MarkerLines(position') = M \union (IF isMarker THEN {position} ELSE {})
        /\ MarkerLines(position') \subseteq MarkerLines(Len(text))
        /\ \A n \in M : n # position
    BY <2>0, LineRead DEF LoadInv, MarkerLines
  <2>2. /\ NameLines(position') = N \union (IF isName THEN {position} ELSE {})
        /\ NameLines(position') \subseteq NameLines(Len(text))
    BY <2>0, LineRead DEF LoadInv, NameLines
  <2>3. ~ (isMarker /\ isName)
    <3>1. Load!LineAfter(position) \in Texts
      BY LineRead, LineIsText DEF LoadInv, LoadTypes
    <3>2. Load!ScanPolicyKey # Load!ExcludeNameKey
      BY DEF Load!ScanPolicyKey, Load!ExcludeNameKey
    <3>3. QED BY <3>1, <3>2, MetadataIs
  <2>4. /\ policySeen <=> M # {}
        /\ exclusionsSeen <=> N # {}
        /\ WellFormed(M, N)
    BY <1>0, <1>2 DEF LoadInv, PolicyInv
  <2>5. policySeen \in BOOLEAN /\ exclusionsSeen \in BOOLEAN
    BY DEF LoadInv, LoadTypes
  <2> DEFINE M1 == MarkerLines(position')
             N1 == NameLines(position')
  <2>6. CASE pc' = "invalid"
    <3>1. ~ WellFormed(M1, N1)
      <4>1. CASE isMarker
        <5>1. policySeen \/ ~ Load!HasMarker(position)
          BY <1>0, <1>2, <2>6, <4>1 DEF LineMeans
        <5>2. CASE policySeen
          <6>1. PICK n \in M : n # position
            BY <2>1, <2>4, <5>2
          <6>2. n \in M1 /\ position \in M1
            BY <2>1, <4>1, <6>1
          <6>3. QED BY <6>1, <6>2 DEF WellFormed, AtMostOne
        <5>3. CASE ~ Load!HasMarker(position)
          BY <2>1, <4>1, <5>3 DEF WellFormed
        <5>4. QED BY <5>1, <5>2, <5>3
      <4>2. CASE isName
        <5>1. ~ HasName(position)
          BY <1>0, <1>2, <2>6, <4>2 DEF LineMeans
        <5>2. QED BY <2>2, <4>2, <5>1 DEF WellFormed
      <4>3. CASE ~ isMarker /\ ~ isName
        BY <1>0, <2>6, <4>3 DEF LineMeans
      <4>4. QED BY <4>1, <4>2, <4>3
    <3>2. ~ WellFormed(MarkerLines(Len(text)), NameLines(Len(text)))
      BY <2>1, <2>2, <3>1 DEF WellFormed, AtMostOne
    <3>3. /\ MarkerLines(Len(text))' = MarkerLines(Len(text))
          /\ NameLines(Len(text))' = NameLines(Len(text))
      BY TextKept
    <3>4. WellFormed(MarkerLines(Len(text)), NameLines(Len(text)))'
          <=> WellFormed(MarkerLines(Len(text)), NameLines(Len(text)))
      BY <3>3, TextKept DEF WellFormed, AtMostOne
    <3>5. (~ WellFormed(MarkerLines(Len(text)), NameLines(Len(text))))'
      BY <3>2, <3>4
    <3>6. QED BY <1>2, <2>6, <3>5 DEF PolicyInv
  <2>7. CASE pc' # "invalid"
    <3>1. pc' = "reading"
      BY <1>0, <2>7 DEF LineMeans
    <3>2. WellFormed(M1, N1)
      <4>1. isMarker => M1 = {position} /\ Load!HasMarker(position)
        <5>1. SUFFICES ASSUME isMarker
                       PROVE  M1 = {position} /\ Load!HasMarker(position)
          OBVIOUS
        <5>2. ~ policySeen /\ Load!HasMarker(position)
          BY <1>2, <2>7, <5>1 DEF LineMeans
        <5>3. M = {}
          BY <2>4, <5>2
        <5>4. QED BY <2>1, <5>1, <5>2, <5>3
      <4>2. isName => HasName(position)
        BY <1>2, <2>7 DEF LineMeans
      <4>3. ~ isMarker => M1 = M
        BY <2>1
      <4>4. AtMostOne(M1)
        BY <2>4, <4>1, <4>3 DEF WellFormed, AtMostOne
      <4>5. \A n \in M1 : Load!HasMarker(n)
        BY <2>4, <4>1, <4>3 DEF WellFormed
      <4>6. \A n \in N1 : HasName(n)
        BY <2>2, <2>4, <4>2 DEF WellFormed
      <4>7. QED BY <4>4, <4>5, <4>6 DEF WellFormed
    <3>3. policySeen' <=> M1 # {}
      <4>1. CASE isMarker
        <5>1. policySeen' = TRUE
          BY <1>2, <2>7, <4>1 DEF LineMeans
        <5>2. QED BY <2>1, <4>1, <5>1
      <4>2. CASE ~ isMarker
        <5>1. policySeen' = policySeen
          BY <4>2 DEF LineMeans
        <5>2. QED BY <2>1, <2>4, <4>2, <5>1
      <4>3. QED BY <4>1, <4>2
    <3>4. exclusionsSeen' <=> N1 # {}
      <4>1. CASE isName
        <5>1. exclusionsSeen' = TRUE
          BY <1>2, <2>7, <4>1 DEF LineMeans
        <5>2. QED BY <2>2, <4>1, <5>1
      <4>2. CASE ~ isName
        <5>1. exclusionsSeen' = exclusionsSeen
          BY <4>2 DEF LineMeans
        <5>2. QED BY <2>2, <2>4, <4>2, <5>1
      <4>3. QED BY <4>1, <4>2
    <3>5. MarkerLines(position)' = M1 /\ NameLines(position)' = N1
      BY TextKept DEF MarkerLines, NameLines, LinesBefore
    <3> HIDE DEF M1, N1
    <3>6. WellFormed(MarkerLines(position), NameLines(position))'
      <4>1. \A S, T : WellFormed(S, T) <=> /\ AtMostOne(S)
                                           /\ \A n \in S : Load!HasMarker(n)
                                           /\ \A n \in T : HasName(n)
        BY DEF WellFormed
      <4>2. /\ AtMostOne(M1)
            /\ \A n \in MarkerLines(position)' : Load!HasMarker(n)'
            /\ \A n \in NameLines(position)' : HasName(n)'
        BY <3>2, <3>5, <4>1, TextKept
      <4>3. QED BY <3>5, <4>2 DEF WellFormed, AtMostOne
    <3>7. /\ (policySeen <=> MarkerLines(position) # {})'
          /\ (exclusionsSeen <=> NameLines(position) # {})'
      BY <3>3, <3>4, <3>5
    <3>8. QED BY <1>2, <3>1, <3>6, <3>7 DEF PolicyInv
  <2>8. QED BY <2>6, <2>7
<1>3. QED BY <1>1, <1>2
-----------------------------------------------------------------------------
\* What a line is, once and for every action that reads it.
LEMMA LineAt ==
  ASSUME LoadTypes, Load!AtLine
  PROVE  /\ pc = "reading"
         /\ Load!LineAfter(position) \in Texts
         /\ \A k, m : Load!IsMetadata(Load!LineAfter(position), k)
                      /\ Load!IsMetadata(Load!LineAfter(position), m) => k = m
         /\ \A k : Load!IsMetadata(Load!LineAfter(position), k) =>
               /\ Load!LineAfter(position) # <<>>
               /\ Load!IsAnyMetadata(Load!LineAfter(position))
         /\ \A i \in 1 .. 3 : Load!Part(Load!LineAfter(position), i) \in Texts
<1>1. position \in Nat /\ position < Len(text) /\ text \in Texts /\ pc = "reading"
  BY DEF LoadTypes, Load!AtLine, Load!LineStarts, Texts
<1>2. Load!LineAfter(position) \in Texts
  BY <1>1, LineIsText
<1>3. \A i \in 1 .. 3 : Load!Part(Load!LineAfter(position), i) \in Texts
  BY <1>2, PartsAre
<1>4. QED BY <1>1, <1>2, <1>3, MetadataIs

LEMMA KeysDiffer ==
  /\ Load!ScanPolicyKey # Load!ExcludeNameKey
  /\ Load!RootKey # Load!ScanPolicyKey /\ Load!RootKey # Load!ExcludeNameKey
BY DEF Load!ScanPolicyKey, Load!ExcludeNameKey, Load!RootKey

\* A line in which every kind of line is read as it means keeps the invariant.
LEMMA LineKeeps ==
  ASSUME LoadInv, UNCHANGED Load!given, header' = header, header # "unread", Load!AtLine,
         position' = Load!LineEnd(position), LineMeans,
         IsListing(files'), root' \in Texts \union {NoRoot},
         policySeen' \in BOOLEAN, exclusionsSeen' \in BOOLEAN,
         IsFiniteSet(exclusions'), exclusions' \subseteq Texts,
         pc' \in {"reading", "invalid"}
  PROVE  LoadInv'
<1>1. text' = text
  BY DEF Load!given
<1>2. PolicyInv'
  BY <1>1, MeaningKeeps
<1>3. /\ Load!LineEnd(position) \in Load!LineStarts \union {0, Len(text)}
      /\ Load!LineEnd(position) \in Nat \ {0}
  BY LineRead DEF LoadInv
<1>4. position' \in Load!LineStarts' \union {0, Len(text')} /\ position' # 0
  BY <1>1, <1>3, TextKept
<1>5. IsListing(files)'
  BY DEF IsListing
<1>6. LoadTypes'
  BY <1>1, <1>4, <1>5 DEF LoadInv, LoadTypes
<1>7. QED BY <1>2, <1>6 DEF LoadInv

LEMMA ReadHeaderKeeps ==
  ASSUME LoadInv, Load!ReadHeader, UNCHANGED Load!given
  PROVE  LoadInv'
<1>0. text' = text
  BY DEF Load!given
<1>1. /\ position = 0 /\ header = "unread" /\ text \in Texts /\ 0 < Len(text)
      /\ pc = "reading" /\ pc' = pc /\ files' = files
      /\ UNCHANGED <<root, policySeen, exclusionsSeen, exclusions>>
  BY DEF Load!ReadHeader, Load!AtLine, LoadInv, LoadTypes, Load!metadata
<1>2. ~ policySeen /\ ~ exclusionsSeen
  BY <1>1 DEF LoadInv, PolicyInv
<1>3. CASE header' = "present"
  <2>1. position' = Load!LineEnd(0)
    BY <1>3 DEF Load!ReadHeader
  <2>2. /\ Load!LineEnd(0) \in 0 + 1 .. Len(text)
        /\ \A i \in 0 + 1 .. Load!LineEnd(0) - 1 : text[i] # Load!LineFeed
        /\ Load!LineEnd(0) = Len(text) \/ text[Load!LineEnd(0)] = Load!LineFeed
    BY <1>1, LineEndIs
  <2> DEFINE next == Load!LineEnd(0)
  <2> HIDE DEF next
  <2>3. Len(text) \in Nat
    BY <1>1 DEF Texts
  <2>4. next \in Nat \ {0} /\ next \in Load!LineStarts \union {0, Len(text)}
    BY <2>2, <2>3 DEF Load!LineStarts, next
  <2>5. position' \in Load!LineStarts' \union {0, Len(text')} /\ position' # 0
    BY <1>0, <2>1, <2>4, TextKept DEF next
  <2>6. \A key : LinesBefore(key, next) = {}
    <3>1. \A n \in Load!LineStarts : n # 0 => n \in Nat /\ text[n] = Load!LineFeed /\ n > 0
      BY <2>3 DEF Load!LineStarts
    <3>2. \A n \in Load!LineStarts : n # 0 => ~ (n < next)
      BY <2>2, <2>3, <2>4, <3>1 DEF next
    <3>3. QED BY <3>2 DEF LinesBefore, Load!Lines
  <2>7. MarkerLines(position)' = {} /\ NameLines(position)' = {}
    BY <1>0, <2>1, <2>6, TextKept DEF MarkerLines, NameLines, next
  <2>8. PolicyInv'
    BY <1>1, <1>2, <2>7 DEF PolicyInv, WellFormed, AtMostOne
  <2>9. IsListing(files)'
    BY <1>1 DEF LoadInv, LoadTypes, IsListing
  <2>10. LoadTypes'
    BY <1>0, <1>1, <1>3, <2>5, <2>9 DEF LoadInv, LoadTypes
  <2>11. QED BY <2>8, <2>10 DEF LoadInv
<1>4. CASE header' = "absent" /\ position' = position
  <2>1. PolicyInv'
    BY <1>1, <1>2, <1>4 DEF PolicyInv
  <2>2. IsListing(files)'
    BY <1>1 DEF LoadInv, LoadTypes, IsListing
  <2>3. LoadTypes'
    BY <1>0, <1>1, <1>4, <2>2 DEF LoadInv, LoadTypes
  <2>4. QED BY <2>1, <2>3 DEF LoadInv
<1>5. QED BY <1>3, <1>4 DEF Load!ReadHeader

LEMMA ReadScanPolicyKeeps ==
  ASSUME LoadInv, Load!ReadScanPolicy, UNCHANGED Load!given
  PROVE  LoadInv'
<1> DEFINE line == Load!LineAfter(position)
<1>1. /\ Load!AtLine /\ header # "unread" /\ position' = Load!LineEnd(position)
      /\ header' = header /\ header = "present"
      /\ Load!IsMetadata(line, Load!ScanPolicyKey)
      /\ IF policySeen \/ Len(Load!Parts(line)) < 3 \/ Load!Part(line, 3) # <<Load!Number(1)>>
         THEN pc' = "invalid" /\ policySeen' = policySeen
         ELSE policySeen' = TRUE /\ pc' = pc
      /\ UNCHANGED <<files, root, exclusionsSeen, exclusions>>
  BY DEF Load!ReadScanPolicy, Load!ReadLine, Load!InVersioned
<1>2. Len(Load!Parts(line)) \in 1 .. 3
  BY <1>1, LineAt, PartsAre DEF LoadInv
<1>3. Load!HasMarker(position)
      <=> ~ (Len(Load!Parts(line)) < 3 \/ Load!Part(line, 3) # <<Load!Number(1)>>)
  <2>1. \A n \in 1 .. 3 : n = 3 <=> ~ (n < 3)
    OBVIOUS
  <2>2. Len(Load!Parts(line)) = 3 <=> ~ (Len(Load!Parts(line)) < 3)
    BY <1>2, <2>1
  <2>3. QED BY <2>2 DEF Load!HasMarker
<1>4. LineMeans
  BY <1>1, <1>3, LineAt, KeysDiffer DEF LoadInv, LineMeans
<1>5. IsListing(files')
  BY <1>1 DEF LoadInv, LoadTypes
<1>6. QED BY <1>1, <1>4, <1>5, LineKeeps, LineAt DEF LoadInv, LoadTypes

LEMMA ReadExcludeNameKeeps ==
  ASSUME LoadInv, Load!ReadExcludeName, UNCHANGED Load!given
  PROVE  LoadInv'
<1> DEFINE line == Load!LineAfter(position)
           name == Load!Unescaped(Load!Part(line, 3))
<1>1. /\ Load!AtLine /\ header # "unread" /\ position' = Load!LineEnd(position)
      /\ header' = header /\ header = "present"
      /\ Load!IsMetadata(line, Load!ExcludeNameKey)
      /\ IF Len(Load!Parts(line)) < 3
         THEN pc' = "invalid" /\ UNCHANGED <<exclusionsSeen, exclusions>>
         ELSE exclusionsSeen' = TRUE /\ exclusions' = exclusions \union {name} /\ pc' = pc
      /\ UNCHANGED <<files, root, policySeen>>
  BY DEF Load!ReadExcludeName, Load!ReadLine, Load!InVersioned
<1>2. Len(Load!Parts(line)) \in 1 .. 3
  BY <1>1, LineAt, PartsAre DEF LoadInv
<1>3. HasName(position) <=> ~ (Len(Load!Parts(line)) < 3)
  <2>1. \A n \in 1 .. 3 : n = 3 <=> ~ (n < 3)
    OBVIOUS
  <2>2. Len(Load!Parts(line)) = 3 <=> ~ (Len(Load!Parts(line)) < 3)
    BY <1>2, <2>1
  <2>3. QED BY <2>2 DEF HasName
<1>4. LineMeans
  BY <1>1, <1>3, LineAt, KeysDiffer DEF LoadInv, LineMeans
<1>5. IsListing(files')
  BY <1>1 DEF LoadInv, LoadTypes
<1>6. IsFiniteSet(exclusions') /\ exclusions' \subseteq Texts
  <2>1. name \in Texts
    BY <1>1, LineAt, UnescapedIsText DEF LoadInv
  <2> HIDE DEF name
  <2>2. IsFiniteSet(exclusions \union {name})
    BY FS_AddElement DEF LoadInv, LoadTypes
  <2>3. QED BY <1>1, <2>1, <2>2 DEF LoadInv, LoadTypes
<1>7. pc' \in {"reading", "invalid"} /\ exclusionsSeen' \in BOOLEAN /\ policySeen' \in BOOLEAN
      /\ root' \in Texts \union {NoRoot}
  BY <1>1, LineAt DEF LoadInv, LoadTypes
<1>8. QED BY <1>1, <1>4, <1>5, <1>6, <1>7, LineKeeps

LEMMA ReadRootKeeps ==
  ASSUME LoadInv, Load!ReadRoot, UNCHANGED Load!given
  PROVE  LoadInv'
<1> DEFINE line == Load!LineAfter(position)
<1>1. /\ Load!AtLine /\ header # "unread" /\ position' = Load!LineEnd(position)
      /\ header' = header
      /\ Load!IsMetadata(line, Load!RootKey)
      /\ root' = Load!Unescaped(Load!Part(line, 3))
      /\ UNCHANGED <<files, policySeen, exclusionsSeen, exclusions, pc>>
  BY DEF Load!ReadRoot, Load!ReadLine, Load!InVersioned
<1>2. LineMeans
  BY <1>1, LineAt, KeysDiffer DEF LoadInv, LineMeans
<1>3. root' \in Texts
  BY <1>1, LineAt, UnescapedIsText DEF LoadInv
<1>4. IsListing(files')
  BY <1>1 DEF LoadInv, LoadTypes
<1>5. QED BY <1>1, <1>2, <1>3, <1>4, LineKeeps, LineAt DEF LoadInv, LoadTypes

LEMMA SkipLineKeeps ==
  ASSUME LoadInv, Load!SkipLine, UNCHANGED Load!given
  PROVE  LoadInv'
<1> DEFINE line == Load!LineAfter(position)
<1>1. /\ Load!AtLine /\ header # "unread" /\ position' = Load!LineEnd(position)
      /\ header' = header
      /\ line # <<>> => ~ Load!IsMetadata(line, Load!ScanPolicyKey)
                        /\ ~ Load!IsMetadata(line, Load!ExcludeNameKey)
      /\ UNCHANGED <<files, root, policySeen, exclusionsSeen, exclusions, pc>>
  BY DEF Load!SkipLine, Load!ReadLine, Load!metadata
<1>2. LineMeans
  BY <1>1, LineAt DEF LoadInv, LineMeans
<1>3. IsListing(files')
  BY <1>1 DEF LoadInv, LoadTypes
<1>4. QED BY <1>1, <1>2, <1>3, LineKeeps, LineAt DEF LoadInv, LoadTypes

\* A field that is not a number is zero.
LEMMA ParsedIsNumber ==
  ASSUME NEW field \in Texts
  PROVE  Load!Parsed(field) \in Nat
<1>1. field \in Seq(Nat)
  BY DEF Texts
<1>2. Len(field) = 1 => field[1] \in Nat
  BY <1>1
<1>3. QED BY <1>2 DEF Load!Parsed, Load!Number

LEMMA ReadRecordKeeps ==
  ASSUME LoadInv, Load!ReadRecord, UNCHANGED Load!given
  PROVE  LoadInv'
<1> DEFINE line == Load!LineAfter(position)
           path == Load!Normalized(IF header = "present" THEN Load!Part(line, 3) ELSE line)
           data == IF header = "present"
                   THEN [size |-> Load!Parsed(Load!Part(line, 1)),
                         time |-> Load!Parsed(Load!Part(line, 2))]
                   ELSE [size |-> 0, time |-> 0]
           result == [p \in DOMAIN files \union {path} |-> IF p = path THEN data ELSE files[p]]
<1>1. /\ Load!AtLine /\ header # "unread" /\ position' = Load!LineEnd(position)
      /\ header' = header
      /\ header = "present" => ~ Load!IsAnyMetadata(line)
      /\ files' = result
      /\ UNCHANGED <<root, policySeen, exclusionsSeen, exclusions, pc>>
  BY DEF Load!ReadRecord, Load!ReadLine, Load!Upsert, Load!metadata
<1>2. LineMeans
  BY <1>1, LineAt DEF LoadInv, LineMeans
<1>3. path \in Texts
  BY <1>1, LineAt, NormalizedIsText DEF LoadInv
<1>4. data \in FileData
  <2>1. Load!Parsed(Load!Part(line, 1)) \in Nat /\ Load!Parsed(Load!Part(line, 2)) \in Nat
    BY <1>1, LineAt, ParsedIsNumber DEF LoadInv
  <2>2. QED BY <2>1 DEF FileData
<1> HIDE DEF path, data
<1>5. IsListing(result)
  <2>1. IsFiniteSet(DOMAIN files \union {path}) /\ DOMAIN files \union {path} \subseteq Texts
    BY <1>3, FS_AddElement DEF LoadInv, LoadTypes, IsListing
  <2>2. \A p \in DOMAIN files : files[p] \in FileData
    BY DEF LoadInv, LoadTypes, IsListing
  <2>3. QED BY <1>4, <2>1, <2>2 DEF IsListing
<1> HIDE DEF result
<1>6. QED BY <1>1, <1>2, <1>5, LineKeeps, LineAt DEF LoadInv, LoadTypes

LEMMA FinishKeeps ==
  ASSUME LoadInv, Load!Finish, UNCHANGED Load!given
  PROVE  LoadInv'
<1>1. /\ text' = text /\ pc = "reading" /\ position = Len(text)
      /\ pc' = IF exclusionsSeen /\ ~ policySeen THEN "invalid" ELSE "loaded"
      /\ UNCHANGED <<position, header, files, root, policySeen, exclusionsSeen, exclusions>>
  BY DEF Load!Finish, Load!given, Load!metadata
<1>2. Load!LineStarts' = Load!LineStarts /\ IsListing(files)'
  BY <1>1, TextKept DEF LoadInv, LoadTypes, IsListing
<1>3. LoadTypes'
  BY <1>1, <1>2 DEF LoadInv, LoadTypes
<1>4. PolicyInv'
  <2>1. /\ MarkerLines(position)' = MarkerLines(position)
        /\ NameLines(position)' = NameLines(position)
        /\ MarkerLines(Len(text))' = MarkerLines(position)
        /\ NameLines(Len(text))' = NameLines(position)
    BY <1>1, TextKept
  <2>2. WellFormed(MarkerLines(position), NameLines(position))'
        <=> WellFormed(MarkerLines(position), NameLines(position))
    BY <1>1, <2>1, TextKept DEF WellFormed, AtMostOne
  <2>3. header # "present" => ~ policySeen /\ ~ exclusionsSeen
    BY DEF LoadInv, PolicyInv
  <2>4. header = "present" => /\ policySeen <=> MarkerLines(position) # {}
                              /\ exclusionsSeen <=> NameLines(position) # {}
                              /\ WellFormed(MarkerLines(position), NameLines(position))
    BY <1>1 DEF LoadInv, PolicyInv
  <2>5. CASE exclusionsSeen /\ ~ policySeen
    <3>1. header = "present" /\ pc' = "invalid"
      BY <1>1, <2>3, <2>5 DEF LoadInv, LoadTypes
    <3>2. (NameLines(Len(text)) # {} /\ MarkerLines(Len(text)) = {})'
      BY <2>1, <2>4, <2>5, <3>1
    <3>3. QED BY <1>1, <3>1, <3>2 DEF PolicyInv
  <2>6. CASE ~ (exclusionsSeen /\ ~ policySeen)
    <3>1. pc' = "loaded" /\ (exclusionsSeen' => policySeen') /\ position' = Len(text')
      BY <1>1, <2>6
    <3>2. header = "present" => /\ (policySeen <=> MarkerLines(position) # {})'
                                /\ (exclusionsSeen <=> NameLines(position) # {})'
                                /\ WellFormed(MarkerLines(position), NameLines(position))'
      BY <1>1, <2>1, <2>2, <2>4
    <3>3. QED BY <1>1, <2>3, <3>1, <3>2 DEF PolicyInv
  <2>7. QED BY <2>5, <2>6
<1>5. QED BY <1>3, <1>4 DEF LoadInv

\* What does not look at the text may change pc only.
LEMMA LoadStutters ==
  ASSUME LoadInv, UNCHANGED <<text, position, header, files, root, policySeen, exclusionsSeen,
                              exclusions>>,
         pc' = pc \/ (pc = "reading" /\ pc' = "failed")
  PROVE  LoadInv'
<1>1. Load!LineStarts' = Load!LineStarts /\ IsListing(files)'
  BY TextKept DEF LoadInv, LoadTypes, IsListing
<1>2. LoadTypes'
  BY <1>1 DEF LoadInv, LoadTypes
<1>3. /\ MarkerLines(position)' = MarkerLines(position)
      /\ NameLines(position)' = NameLines(position)
      /\ MarkerLines(Len(text))' = MarkerLines(Len(text))
      /\ NameLines(Len(text))' = NameLines(Len(text))
  BY TextKept
<1>4. /\ WellFormed(MarkerLines(position), NameLines(position))'
         <=> WellFormed(MarkerLines(position), NameLines(position))
      /\ WellFormed(MarkerLines(Len(text)), NameLines(Len(text)))'
         <=> WellFormed(MarkerLines(Len(text)), NameLines(Len(text)))
  BY <1>3, TextKept DEF WellFormed, AtMostOne
<1>5. PolicyInv'
  BY <1>3, <1>4 DEF LoadInv, PolicyInv
<1>6. QED BY <1>2, <1>5 DEF LoadInv

LEMMA LoadKeeps ==
  ASSUME LoadInv, Load!Next
  PROVE  LoadInv'
<1>1. UNCHANGED Load!given /\ text' = text
  BY DEF Load!Next, Load!given
<1>2. CASE Load!ReadFails
  <2>1. UNCHANGED <<position, header, files, root, policySeen, exclusionsSeen, exclusions>>
        /\ pc = "reading" /\ pc' = "failed"
    BY <1>2 DEF Load!ReadFails, Load!metadata
  <2>2. QED BY <1>1, <2>1, LoadStutters
<1>3. QED BY <1>1, <1>2, ReadHeaderKeeps, ReadScanPolicyKeeps, ReadExcludeNameKeeps, ReadRootKeeps,
             SkipLineKeeps, ReadRecordKeeps, FinishKeeps DEF Load!Next

\* Nothing has been read yet.
Opened ==
    /\ position = 0 /\ header = "unread" /\ files = Load!NoRecords /\ root = NoRoot
    /\ ~ policySeen /\ ~ exclusionsSeen /\ policySeen \in BOOLEAN /\ exclusionsSeen \in BOOLEAN
    /\ exclusions = {} /\ pc = "reading"

LEMMA LoadInitially == text \in Texts /\ Opened => LoadInv
<1> SUFFICES ASSUME text \in Texts, Opened
             PROVE  LoadInv
  OBVIOUS
<1>1. IsListing(files)
  <2>1. DOMAIN Load!NoRecords = {}
    BY DEF Load!NoRecords
  <2>2. Load!NoRecords \in [{} -> FileData]
    BY DEF Load!NoRecords
  <2>3. QED BY <2>1, <2>2, FS_EmptySet DEF Opened, IsListing
<1>2. IsFiniteSet(exclusions) /\ exclusions \subseteq Texts
  BY FS_EmptySet DEF Opened
<1>3. LoadTypes
  BY <1>1, <1>2 DEF Opened, LoadTypes
<1>4. PolicyInv
  BY DEF Opened, PolicyInv
<1>5. QED BY <1>3, <1>4 DEF LoadInv

LEMMA ReplaceKeeps ==
  ASSUME NEW s, IsSnapshot(s), Load!Replace(s)
  PROVE  LoadInv'
<1>1. text' \in Texts
  BY SavedIsText DEF Load!Replace
<1>2. Opened'
  BY DEF Opened, Load!Replace, Load!NoRecords
<1>3. (text \in Texts /\ Opened => LoadInv)'
  BY LoadInitially, PTL
<1>4. QED BY <1>1, <1>2, <1>3
-----------------------------------------------------------------------------
\* What the loader knows at its end is what the whole text says.
LEMMA FewLines ==
  ASSUME NEW S, IsFiniteSet(S)
  PROVE  Load!Cardinality(S) <= 1 <=> AtMostOne(S)
<1>1. Load!Cardinality(S) = Cardinality(S) /\ Cardinality(S) \in Nat
  BY SameLibrary, FS_CardinalityType
<1>2. CASE S = {}
  <2>1. Cardinality(S) = 0
    BY <1>2, FS_EmptySet
  <2>2. QED BY <1>1, <1>2, <2>1 DEF AtMostOne
<1>3. CASE S # {}
  <2>1. Cardinality(S) # 0
    BY <1>3, FS_EmptySet
  <2>2. Load!Cardinality(S) <= 1 <=> Cardinality(S) = 1
    BY <1>1, <2>1
  <2>3. Cardinality(S) = 1 <=> \E x : S = {x}
    BY FS_Singleton
  <2>4. (\E x : S = {x}) <=> AtMostOne(S)
    BY <1>3 DEF AtMostOne
  <2>5. QED BY <2>2, <2>3, <2>4
<1>4. QED BY <1>2, <1>3

LEMMA PolicyIsClosed == LoadInv /\ Unknown \notin SUBSET Texts => Load!PolicyFailsClosed
<1> SUFFICES ASSUME LoadInv, Unknown \notin SUBSET Texts
             PROVE  Load!PolicyFailsClosed
  OBVIOUS
<1> DEFINE markers == IF header = "present" THEN Load!Lines(Load!ScanPolicyKey) ELSE {}
           names == IF header = "present" THEN Load!Lines(Load!ExcludeNameKey) ELSE {}
           wellFormed == /\ Load!Cardinality(markers) <= 1
                         /\ \A n \in markers : Load!HasMarker(n)
                         /\ \A n \in names : Len(Load!Parts(Load!LineAfter(n))) = 3
                         /\ names # {} => markers # {}
<1>1. \A key : LinesBefore(key, Len(text)) = Load!Lines(key) /\ IsFiniteSet(Load!Lines(key))
  <2>1. Len(text) \in Nat
    BY DEF LoadInv, LoadTypes, Texts
  <2>2. \A n \in Load!LineStarts : n \in 0 .. Len(text) - 1 /\ n < Len(text)
    BY <2>1 DEF Load!LineStarts
  <2>3. IsFiniteSet(0 .. Len(text) - 1)
    BY <2>1, FS_Interval
  <2>4. \A key : Load!Lines(key) \subseteq Load!LineStarts
    BY DEF Load!Lines
  <2>5. \A key : IsFiniteSet(Load!Lines(key))
    BY <2>2, <2>3, <2>4, FS_Subset
  <2>6. QED BY <2>2, <2>4, <2>5 DEF LinesBefore
<1>2. header = "present" => /\ markers = MarkerLines(Len(text)) /\ names = NameLines(Len(text))
                            /\ IsFiniteSet(markers)
  BY <1>1 DEF MarkerLines, NameLines
<1>3. header # "present" => markers = {} /\ names = {} /\ IsFiniteSet(markers)
  BY FS_EmptySet
<1>4. wellFormed <=> WellFormed(markers, names) /\ (names # {} => markers # {})
  <2> HIDE DEF markers, names
  <2>1. Load!Cardinality(markers) <= 1 <=> AtMostOne(markers)
    BY <1>2, <1>3, FewLines
  <2>2. QED BY <2>1 DEF WellFormed, HasName
<1>5. Load!Policy = Unknown <=> ~ policySeen
  BY DEF Load!Policy, LoadInv, LoadTypes
<1>6. ASSUME pc = "loaded"
      PROVE  wellFormed /\ (Load!Policy = Unknown <=> markers = {})
  <2> HIDE DEF wellFormed
  <2>1. position = Len(text) /\ (exclusionsSeen => policySeen)
    BY <1>6 DEF LoadInv, PolicyInv
  <2>2. CASE header = "present"
    <3>1. /\ policySeen <=> markers # {}
          /\ exclusionsSeen <=> names # {}
          /\ WellFormed(markers, names)
      <4> HIDE DEF markers, names
      <4> QED BY <1>2, <1>6, <2>1, <2>2 DEF LoadInv, PolicyInv
    <3> HIDE DEF markers, names
    <3>2. QED BY <1>4, <1>5, <2>1, <3>1
  <2>3. CASE header # "present"
    <3>1. markers = {} /\ names = {} /\ ~ policySeen
      BY <1>3, <2>3 DEF LoadInv, PolicyInv
    <3> HIDE DEF markers, names
    <3>2. WellFormed(markers, names)
      BY <3>1 DEF WellFormed, AtMostOne
    <3>3. QED BY <1>4, <1>5, <3>1, <3>2
  <2>4. QED BY <2>2, <2>3
<1>7. ASSUME pc = "invalid"
      PROVE  ~ wellFormed
  <2> HIDE DEF wellFormed
  <2>1. header = "present"
    BY <1>7 DEF LoadInv, PolicyInv
  <2>2. \/ ~ WellFormed(MarkerLines(Len(text)), NameLines(Len(text)))
        \/ NameLines(Len(text)) # {} /\ MarkerLines(Len(text)) = {}
    BY <1>7 DEF LoadInv, PolicyInv
  <2> HIDE DEF markers, names
  <2>3. QED BY <1>2, <1>4, <2>1, <2>2
<1>8. QED BY <1>6, <1>7 DEF Load!PolicyFailsClosed
-----------------------------------------------------------------------------
\* escape_metadata_value, a character at a time.
Writes(g, value) ==
    Sums(g, [i \in 1 .. Len(value) |-> Load!EscapedCharacter(value[i])]) /\ g[0] = <<>>

LEMMA EscapedIs ==
  ASSUME NEW value \in Texts
  PROVE  /\ [i \in 1 .. Len(value) |-> Load!EscapedCharacter(value[i])] \in Seq(Texts)
         /\ \A i \in 1 .. Len(value) : value[i] \in Nat
         /\ \E g : Writes(g, value) /\ Load!Escaped(value) = g[Len(value)]
<1> DEFINE n == Len(value)
           seqs == [i \in 1 .. n |-> Load!EscapedCharacter(value[i])]
<1>0. n \in Nat /\ DOMAIN value = 1 .. n /\ \A i \in 1 .. n : value[i] \in Nat
  BY ElementOfSeq DEF Texts
<1>1. \A c \in Nat : Load!EscapedCharacter(c) \in Texts
  BY CharactersAreNumbers, ShortTexts DEF Load!EscapedCharacter
<1>2. seqs \in Seq(Texts) /\ Len(seqs) = n
  <2>1. \A i \in 1 .. n : Load!EscapedCharacter(value[i]) \in Texts
    BY <1>0, <1>1
  <2>2. QED BY <1>0, <2>1
<1>3. Load!Escaped(value) = Load!FlattenSeq(seqs)
  BY <1>0 DEF Load!Escaped
<1> HIDE DEF seqs, n
<1>4. PICK g : Sums(g, seqs) /\ g[0] = <<>>
  BY <1>2, SumsExist, ShortTexts
<1>5. g[0 + Len(seqs)] = g[0] \o Load!FlattenSeq(seqs)
  <2>1. /\ 0 \in Nat /\ 0 + Len(seqs) <= Len(seqs)
        /\ \A i \in 1 .. Len(seqs) : seqs[0 + i] = seqs[i]
    BY <1>0, <1>2
  <2>2. Sums(g, seqs) /\ seqs \in Seq(Texts)
    BY <1>2, <1>4
  <2>3. QED BY <2>1, <2>2, SumOfRun
<1>6. g[0] = <<>> /\ Load!FlattenSeq(seqs) \in Texts /\ 0 + Len(seqs) = n
  BY <1>0, <1>2, <1>4, FlattenIsText DEF Sums
<1>7. g[n] = Load!Escaped(value)
  BY <1>3, <1>5, <1>6, ConcatNothing
<1>8. Writes(g, value)
  BY <1>4 DEF Writes, seqs, n
<1>9. seqs \in Seq(Texts) /\ \E h : Writes(h, value) /\ Load!Escaped(value) = h[n]
  BY <1>2, <1>7, <1>8
<1>10. QED BY <1>0, <1>9 DEF seqs, n
-----------------------------------------------------------------------------
\* A character of a text.
Has(a, c) == \E j \in 1 .. Len(a) : a[j] = c

LEMMA ConcatHas ==
  ASSUME NEW a \in Texts, NEW b \in Texts, NEW c
  PROVE  Has(a \o b, c) <=> Has(a, c) \/ Has(b, c)
<1>0. /\ Len(a) \in Nat /\ Len(b) \in Nat /\ Len(a \o b) = Len(a) + Len(b)
      /\ \A i \in 1 .. Len(a) : (a \o b)[i] = a[i]
      /\ \A i \in 1 .. Len(b) : (a \o b)[Len(a) + i] = b[i]
  BY ConcatIs
<1>1. ASSUME NEW j \in 1 .. Len(a \o b), j \notin 1 .. Len(a)
      PROVE  j - Len(a) \in 1 .. Len(b) /\ Len(a) + (j - Len(a)) = j
  BY <1>0, <1>1
<1>2. Has(a \o b, c) => Has(a, c) \/ Has(b, c)
  <2>1. SUFFICES ASSUME NEW j \in 1 .. Len(a \o b), (a \o b)[j] = c
                 PROVE  Has(a, c) \/ Has(b, c)
    BY DEF Has
  <2>2. CASE j \in 1 .. Len(a)
    BY <1>0, <2>1, <2>2 DEF Has
  <2>3. CASE j \notin 1 .. Len(a)
    <3>1. j - Len(a) \in 1 .. Len(b) /\ Len(a) + (j - Len(a)) = j
      BY <1>1, <2>3
    <3>2. b[j - Len(a)] = c
      BY <1>0, <2>1, <3>1
    <3>3. QED BY <3>1, <3>2 DEF Has
  <2>4. QED BY <2>2, <2>3
<1>3. ASSUME Has(a, c)
      PROVE  Has(a \o b, c)
  <2>1. PICK j \in 1 .. Len(a) : a[j] = c
    BY <1>3 DEF Has
  <2>2. j \in 1 .. Len(a \o b) /\ (a \o b)[j] = c
    BY <1>0, <2>1
  <2>3. QED BY <2>2 DEF Has
<1>4. ASSUME Has(b, c)
      PROVE  Has(a \o b, c)
  <2>1. PICK j \in 1 .. Len(b) : b[j] = c
    BY <1>4 DEF Has
  <2>2. Len(a) + j \in 1 .. Len(a \o b) /\ (a \o b)[Len(a) + j] = c
    BY <1>0, <2>1
  <2>3. QED BY <2>2 DEF Has
<1>5. QED BY <1>2, <1>3, <1>4

LEMMA EscapedCharacterIs ==
  ASSUME NEW c \in Nat
  PROVE  LET s == Load!EscapedCharacter(c)
         IN  /\ s \in Texts /\ ~ Has(s, Load!LineFeed) /\ ~ Has(s, Load!Return)
             /\ \/ s = <<c>> /\ c # Load!Backslash
                \/ \E d \in Nat : s = <<Load!Backslash, d>> /\ Meaning(d) = <<c>>
<1> DEFINE s == Load!EscapedCharacter(c)
<1>1. \A x : \A d \in Nat : Has(<<d>>, x) <=> x = d
  <2>1. \A d \in Nat : Len(<<d>>) = 1 /\ <<d>>[1] = d
    OBVIOUS
  <2>2. QED BY <2>1 DEF Has
<1>2. \A x : \A d, e \in Nat : Has(<<d, e>>, x) <=> x = d \/ x = e
  <2>1. \A d, e \in Nat : Len(<<d, e>>) = 2 /\ <<d, e>>[1] = d /\ <<d, e>>[2] = e
    OBVIOUS
  <2>2. 1 .. 2 = {1, 2}
    OBVIOUS
  <2>3. QED BY <2>1, <2>2 DEF Has
<1>3. \/ s = <<c>> /\ c # Load!Backslash /\ c # Load!LineFeed /\ c # Load!Return
      \/ \E d \in {Load!Backslash, Load!LetterT, Load!LetterN, Load!LetterR} :
             s = <<Load!Backslash, d>> /\ Meaning(d) = <<c>>
  BY DEF Load!EscapedCharacter, Meaning, Load!Backslash, Load!LetterT, Load!LetterN,
         Load!LetterR, Load!Tab, Load!LineFeed, Load!Return
<1>4. \A d \in {Load!Backslash, Load!LetterT, Load!LetterN, Load!LetterR} :
         d \in Nat /\ d # Load!LineFeed /\ d # Load!Return
  BY DEF Load!Backslash, Load!LetterT, Load!LetterN, Load!LetterR, Load!LineFeed, Load!Return
<1>5. s \in Texts
  BY <1>3, <1>4, ShortTexts, CharactersAreNumbers
<1> HIDE DEF s
<1>6. ~ Has(s, Load!LineFeed) /\ ~ Has(s, Load!Return)
  <2>1. CASE s = <<c>> /\ c # Load!LineFeed /\ c # Load!Return
    BY <1>1, <2>1
  <2>2. CASE \E d \in {Load!Backslash, Load!LetterT, Load!LetterN, Load!LetterR} :
                s = <<Load!Backslash, d>>
    <3>1. PICK d \in {Load!Backslash, Load!LetterT, Load!LetterN, Load!LetterR} :
             s = <<Load!Backslash, d>>
      BY <2>2
    <3>2. Load!Backslash \in Nat /\ d \in Nat /\ d # Load!LineFeed /\ d # Load!Return
          /\ Load!Backslash # Load!LineFeed /\ Load!Backslash # Load!Return
      BY <1>4
    <3>3. QED BY <1>2, <3>1, <3>2
  <2>3. QED BY <1>3, <2>1, <2>2
<1>7. QED BY <1>3, <1>4, <1>5, <1>6 DEF s

\* What is escaped keeps to its line.
LEMMA EscapedFits ==
  ASSUME NEW value \in Texts
  PROVE  ~ Has(Load!Escaped(value), Load!LineFeed) /\ ~ Has(Load!Escaped(value), Load!Return)
<1> DEFINE n == Len(value)
           seqs == [i \in 1 .. n |-> Load!EscapedCharacter(value[i])]
<1>0. n \in Nat /\ seqs \in Seq(Texts) /\ Len(seqs) = n /\ \A i \in 1 .. n : value[i] \in Nat
  <2>1. n \in Nat
    BY DEF Texts
  <2>2. QED BY <2>1, EscapedIs
<1>1. PICK g : Sums(g, seqs) /\ g[0] = <<>> /\ Load!Escaped(value) = g[n]
  BY EscapedIs DEF Writes
<1>2. \A i \in 1 .. n : seqs[i] = Load!EscapedCharacter(value[i])
  OBVIOUS
<1> HIDE DEF seqs
<1>3. /\ g \in [0 .. n -> Texts] /\ g[0] = <<>>
      /\ \A i \in 1 .. n : g[i] = g[i - 1] \o seqs[i]
  BY <1>0, <1>1 DEF Sums
<1> HIDE DEF n
<1> DEFINE Fits(s) == ~ Has(s, Load!LineFeed) /\ ~ Has(s, Load!Return)
           S == {i \in 0 .. n : Fits(g[i])}
<1>4. 0 \in S
  BY <1>0, <1>3 DEF Has
<1>5. ASSUME NEW i \in 1 .. n, i - 1 \in S
      PROVE  i \in S
  <2>1. i \in 0 .. n /\ g[i - 1] \in Texts /\ Fits(g[i - 1])
    BY <1>0, <1>3, <1>5
  <2>2. seqs[i] \in Texts /\ Fits(seqs[i])
    BY <1>0, <1>2, EscapedCharacterIs
  <2>3. Fits(g[i])
    <3>1. g[i] = g[i - 1] \o seqs[i]
      BY <1>3
    <3>2. \A c : Has(g[i - 1] \o seqs[i], c) <=> Has(g[i - 1], c) \/ Has(seqs[i], c)
      BY <2>1, <2>2, ConcatHas
    <3>3. QED BY <2>1, <2>2, <3>1, <3>2
  <2>4. QED BY <2>1, <2>3
<1>6. n \in S
  <2> HIDE DEF S
  <2>1. 0 .. n \subseteq S
    BY <1>0, <1>4, <1>5, UpTo
  <2>2. QED BY <1>0, <2>1
<1>7. QED BY <1>1, <1>6
-----------------------------------------------------------------------------
\* Every value is read back as it was, whatever characters it has.
LEMMA EscapedIsReadBack ==
  ASSUME NEW value \in Texts
  PROVE  Load!Unescaped(Load!Escaped(value)) = value
<1> DEFINE n == Len(value)
           seqs == [i \in 1 .. n |-> Load!EscapedCharacter(value[i])]
           e == Load!Escaped(value)
<1>0. /\ n \in Nat /\ seqs \in Seq(Texts) /\ Len(seqs) = n /\ \A i \in 1 .. n : value[i] \in Nat
      /\ value \in Seq(Nat) /\ e \in Texts
  <2>1. n \in Nat /\ value \in Seq(Nat)
    BY DEF Texts
  <2>2. QED BY <2>1, EscapedIs, EscapedIsText
<1>1. PICK g : Sums(g, seqs) /\ g[0] = <<>> /\ e = g[n]
  BY EscapedIs DEF Writes
<1>2. \A i \in 1 .. n : seqs[i] = Load!EscapedCharacter(value[i])
  OBVIOUS
<1> HIDE DEF seqs, e
<1>3. \A k \in 0 .. Len(seqs) : \E c \in Texts : g[Len(seqs)] = g[k] \o c
  BY <1>0, <1>1, SumBegins
<1>4. /\ g \in [0 .. n -> Texts] /\ g[0] = <<>>
      /\ \A i \in 1 .. n : g[i] = g[i - 1] \o seqs[i]
  BY <1>0, <1>1 DEF Sums
<1>5. PICK f : /\ Reads(f, e)
               /\ Load!Unescaped(e) = IF f[Len(e)].open
                                      THEN Append(f[Len(e)].out, Load!Backslash)
                                      ELSE f[Len(e)].out
  BY <1>0, UnescapedIs
<1> DEFINE Read(i) == [open |-> FALSE, out |-> SubSeq(value, 1, i)]
           S == {i \in 0 .. n : f[Len(g[i])] = Read(i)}
<1>6. 0 \in S
  <2>1. Len(g[0]) = 0 /\ SubSeq(value, 1, 0) = <<>>
    BY <1>4, SubSeqEmpty
  <2>2. f[0] = Nothing
    BY <1>5 DEF Reads
  <2>3. f[Len(g[0])] = Read(0)
    BY <2>1, <2>2 DEF Nothing
  <2>4. QED BY <1>0, <2>3
<1>7. ASSUME NEW i \in 1 .. n, i - 1 \in S
      PROVE  i \in S
  <2> DEFINE c == value[i]
             s == Load!EscapedCharacter(c)
             k == Len(g[i - 1])
  <2>1. /\ i \in 0 .. n /\ i - 1 \in 0 .. n /\ g[i] = g[i - 1] \o s /\ s \in Texts /\ c \in Nat
        /\ g[i - 1] \in Texts /\ g[i] \in Texts /\ f[k] = Read(i - 1)
    <3>1. i \in 0 .. n /\ i - 1 \in 0 .. n /\ f[k] = Read(i - 1) /\ c \in Nat
      BY <1>0, <1>7
    <3>2. s \in Texts
      BY <3>1, EscapedCharacterIs
    <3>3. g[i] = g[i - 1] \o s
      BY <1>2, <1>4
    <3>4. g[i - 1] \in Texts /\ g[i] \in Texts
      BY <1>4, <3>1
    <3>5. QED BY <3>1, <3>2, <3>3, <3>4
  <2>2. k \in Nat /\ Len(g[i]) = k + Len(s) /\ \A j \in 1 .. Len(s) : g[i][k + j] = s[j]
    <3> HIDE DEF s
    <3>1. /\ Len(g[i - 1]) \in Nat /\ Len(g[i - 1] \o s) = Len(g[i - 1]) + Len(s)
          /\ \A j \in 1 .. Len(s) : (g[i - 1] \o s)[Len(g[i - 1]) + j] = s[j]
      BY <2>1, ConcatIs
    <3>2. QED BY <2>1, <3>1
  <2>3. PICK r \in Texts : e = g[i] \o r
    <3>1. \E r \in Texts : g[Len(seqs)] = g[i] \o r
      <4>1. i \in 0 .. Len(seqs)
        BY <1>0, <2>1
      <4>2. QED BY <1>3, <4>1
    <3>2. QED BY <1>0, <1>1, <3>1
  <2>4. /\ Len(g[i]) \in Nat /\ Len(r) \in Nat /\ Len(e) = Len(g[i]) + Len(r)
        /\ \A j \in 1 .. Len(g[i]) : e[j] = g[i][j]
    <3>1. g[i] \in Texts /\ r \in Texts
      BY <2>1
    <3>2. /\ Len(g[i]) \in Nat /\ Len(r) \in Nat /\ Len(g[i] \o r) = Len(g[i]) + Len(r)
          /\ \A j \in 1 .. Len(g[i]) : (g[i] \o r)[j] = g[i][j]
      BY <3>1, ConcatIs
    <3>3. QED BY <2>3, <3>2
  <2>5. \A j \in 1 .. Len(s) : /\ k + j \in 1 .. Len(e) /\ e[k + j] = s[j]
                              /\ f[k + j] = Take(f[k + j - 1], s[j])
    <3>1. SUFFICES ASSUME NEW j \in 1 .. Len(s)
                   PROVE  k + j \in 1 .. Len(e) /\ e[k + j] = s[j]
                          /\ f[k + j] = Take(f[k + j - 1], s[j])
      OBVIOUS
    <3>2. Len(s) \in Nat
      BY <2>1 DEF Texts
    <3>3. k + j \in 1 .. Len(g[i]) /\ k + j \in 1 .. Len(e)
      <4> HIDE DEF k, s
      <4>1. k + j \in 1 .. Len(g[i])
        BY <2>2, <3>2
      <4>2. QED BY <2>4, <4>1
    <3>4. e[k + j] = s[j]
      BY <2>2, <2>4, <3>3
    <3>5. f[k + j] = Take(f[k + j - 1], e[k + j])
      BY <1>5, <3>3 DEF Reads
    <3>6. QED BY <3>3, <3>4, <3>5
  <2>6. SubSeq(value, 1, i) = SubSeq(value, 1, i - 1) \o <<c>>
        /\ SubSeq(value, 1, i - 1) \in Seq(Nat)
        /\ Append(SubSeq(value, 1, i - 1), c) = SubSeq(value, 1, i - 1) \o <<c>>
    <3>1. 1 \in 1 .. Len(value) /\ i \in 1 .. Len(value)
      BY <1>0
    <3>2. SubSeq(value, 1, i) = SubSeq(value, 1, i - 1) \o <<c>>
      BY <1>0, <3>1, SubSeqRecursiveSecond
    <3>3. SubSeq(value, 1, i - 1) \in Texts
      BY <1>0, SubText
    <3>4. QED BY <2>1, <3>2, <3>3, AppendIsConcat DEF Texts
  <2> HIDE DEF k, s, c
  <2>7. f[Len(g[i])] = Read(i)
    <3>1. CASE s = <<c>> /\ c # Load!Backslash
      <4>1. Len(s) = 1 /\ s[1] = c /\ 1 \in 1 .. Len(s) /\ k + 1 - 1 = k
        BY <2>2, <3>1
      <4>2. f[k + 1] = Take(f[k], c)
        BY <2>5, <4>1
      <4>3. Take(Read(i - 1), c) = Read(i)
        BY <2>6, <3>1 DEF Take
      <4>4. QED BY <2>1, <2>2, <4>1, <4>2, <4>3
    <3>2. CASE \E d \in Nat : s = <<Load!Backslash, d>> /\ Meaning(d) = <<c>>
      <4>1. PICK d \in Nat : s = <<Load!Backslash, d>> /\ Meaning(d) = <<c>>
        BY <3>2
      <4>2. /\ Len(s) = 2 /\ s[1] = Load!Backslash /\ s[2] = d
            /\ 1 \in 1 .. Len(s) /\ 2 \in 1 .. Len(s)
            /\ k + 1 - 1 = k /\ k + 2 - 1 = k + 1
        BY <2>2, <4>1
      <4>3. f[k + 1] = Take(Read(i - 1), Load!Backslash)
        BY <2>1, <2>5, <4>2
      <4>4. f[k + 1] = [open |-> TRUE, out |-> SubSeq(value, 1, i - 1)]
        BY <4>3 DEF Take
      <4>5. f[k + 2] = Take(f[k + 1], d)
        BY <2>5, <4>2
      <4>6. f[k + 2] = [open |-> FALSE, out |-> SubSeq(value, 1, i - 1) \o <<c>>]
        BY <4>1, <4>4, <4>5 DEF Take
      <4>7. QED BY <2>2, <2>6, <4>2, <4>6
    <3>3. QED BY <2>1, <3>1, <3>2, EscapedCharacterIs DEF s
  <2>8. QED BY <2>1, <2>7
<1>8. n \in S
  <2> HIDE DEF S, n
  <2>1. 0 .. n \subseteq S
    BY <1>0, <1>6, <1>7, UpTo
  <2>2. QED BY <1>0, <2>1
<1>9. SubSeq(value, 1, n) = value
  BY <1>0, SubSeqFull
<1>10. f[Len(e)].open = FALSE /\ f[Len(e)].out = value
  BY <1>1, <1>8, <1>9
<1>11. QED BY <1>5, <1>10 DEF e
-----------------------------------------------------------------------------
\* A line that has been written is the one that is read.
Fielded(x, y, rest) == <<x, Load!Tab, y, Load!Tab>> \o rest

LEMMA FieldedIs ==
  ASSUME NEW x \in Nat, NEW y \in Nat, NEW rest \in Texts
  PROVE  LET line == Fielded(x, y, rest)
         IN  /\ line \in Texts /\ Len(rest) \in Nat /\ Len(line) = 4 + Len(rest)
             /\ line[1] = x /\ line[2] = Load!Tab /\ line[3] = y /\ line[4] = Load!Tab
             /\ \A i \in 1 .. Len(rest) : line[4 + i] = rest[i]
<1> DEFINE front == <<x, Load!Tab, y, Load!Tab>>
<1>1. /\ front \in Texts /\ Len(front) = 4
      /\ front[1] = x /\ front[2] = Load!Tab /\ front[3] = y /\ front[4] = Load!Tab
  BY ShortTexts, CharactersAreNumbers
<1> HIDE DEF front
<1>2. /\ front \o rest \in Texts /\ Len(rest) \in Nat
      /\ Len(front \o rest) = Len(front) + Len(rest)
      /\ \A i \in 1 .. Len(front) : (front \o rest)[i] = front[i]
      /\ \A i \in 1 .. Len(rest) : (front \o rest)[Len(front) + i] = rest[i]
  BY <1>1, ConcatIs
<1>3. 1 \in 1 .. 4 /\ 2 \in 1 .. 4 /\ 3 \in 1 .. 4 /\ 4 \in 1 .. 4
  OBVIOUS
<1>4. Fielded(x, y, rest) = front \o rest
  BY DEF Fielded, front
<1>5. QED BY <1>1, <1>2, <1>3, <1>4

\* splitn finds the two fields before the tabs and leaves the rest as it is.
LEMMA PartsOfFields ==
  ASSUME NEW x \in Nat, NEW y \in Nat, NEW rest \in Texts, x # Load!Tab, y # Load!Tab
  PROVE  LET line == Fielded(x, y, rest)
         IN  /\ Load!Parts(line) = <<<<x>>, <<y>>, rest>> /\ Len(Load!Parts(line)) = 3
             /\ Load!Part(line, 1) = <<x>> /\ Load!Part(line, 2) = <<y>>
             /\ Load!Part(line, 3) = rest
             /\ Load!IsAnyMetadata(line) <=> x = Load!Meta
             /\ \A key : Load!IsMetadata(line, key) <=> x = Load!Meta /\ key = y
<1> DEFINE line == Fielded(x, y, rest)
           n == Len(line)
           I == {i \in 1 .. n : line[i] = Load!Tab}
           first == IF I # {} THEN Load!Min(I) ELSE 0
           J == {i \in first + 1 .. n : line[i] = Load!Tab}
           second == IF J # {} THEN Load!Min(J) ELSE 0
<1>0. /\ line \in Texts /\ Len(rest) \in Nat /\ n = 4 + Len(rest)
      /\ line[1] = x /\ line[2] = Load!Tab /\ line[3] = y /\ line[4] = Load!Tab
      /\ \A i \in 1 .. Len(rest) : line[4 + i] = rest[i]
  BY FieldedIs
<1>1. Load!Parts(line) =
         IF first = 0 THEN <<line>>
         ELSE IF second = 0 THEN <<SubSeq(line, 1, first - 1), SubSeq(line, first + 1, n)>>
         ELSE <<SubSeq(line, 1, first - 1), SubSeq(line, first + 1, second - 1),
                SubSeq(line, second + 1, n)>>
  BY DEF Load!Parts, Load!SelectInSeq, Load!SelectInSubSeq
<1> HIDE DEF line
<1>2. first = 2
  <2>1. I \in SUBSET Nat /\ 2 \in I /\ 0 \notin I /\ 1 \notin I
    BY <1>0
  <2>2. Load!Min(I) \in I /\ \A m \in I : Load!Min(I) <= m
    <3> HIDE DEF I
    <3> QED BY <2>1, LeastIs
  <2> DEFINE k == Load!Min(I)
  <2>3. k \in Nat /\ k <= 2 /\ k # 0 /\ k # 1
    <3> HIDE DEF I
    <3> QED BY <2>1, <2>2
  <2>4. k = 2
    <3> HIDE DEF k
    <3> QED BY <2>3
  <2>5. QED BY <2>1, <2>4
<1> HIDE DEF first
<1>3. second = 4
  <2>1. J \in SUBSET Nat /\ 4 \in J /\ 3 \notin J /\ \A i \in J : i >= 3
    BY <1>0, <1>2
  <2>2. Load!Min(J) \in J /\ \A m \in J : Load!Min(J) <= m
    <3> HIDE DEF J
    <3> QED BY <2>1, LeastIs
  <2> DEFINE k == Load!Min(J)
  <2>3. k \in Nat /\ k <= 4 /\ k >= 3 /\ k # 3
    <3> HIDE DEF J
    <3> QED BY <2>1, <2>2
  <2>4. k = 4
    <3> HIDE DEF k
    <3> QED BY <2>3
  <2>5. QED BY <2>1, <2>4
<1> HIDE DEF second
<1>4. SubSeq(line, 1, 1) = <<x>> /\ SubSeq(line, 3, 3) = <<y>>
  <2>1. /\ SubSeq(line, 1, 1) \in Seq(Nat) /\ Len(SubSeq(line, 1, 1)) = 1
        /\ SubSeq(line, 1, 1)[1] = line[1]
        /\ SubSeq(line, 3, 3) \in Seq(Nat) /\ Len(SubSeq(line, 3, 3)) = 1
        /\ SubSeq(line, 3, 3)[1] = line[3]
    <3>1. 1 <= n /\ 3 <= n /\ 3 - 3 + 1 = 1 /\ 1 - 1 + 1 = 1 /\ 3 + 1 - 1 = 3 /\ 1 \in 1 .. 1
      BY <1>0
    <3>2. /\ SubSeq(line, 1, 1) \in Texts /\ Len(SubSeq(line, 1, 1)) = 1
          /\ \A i \in 1 .. 1 : SubSeq(line, 1, 1)[i] = line[1 + i - 1]
      BY <1>0, <3>1, SubText
    <3>3. /\ SubSeq(line, 3, 3) \in Texts /\ Len(SubSeq(line, 3, 3)) = 1
          /\ \A i \in 1 .. 1 : SubSeq(line, 3, 3)[i] = line[3 + i - 1]
      BY <1>0, <3>1, SubText
    <3>4. QED BY <3>1, <3>2, <3>3 DEF Texts
  <2>2. \A s \in Seq(Nat), c \in Nat : Len(s) = 1 /\ s[1] = c => s = <<c>>
    <3>1. SUFFICES ASSUME NEW s \in Seq(Nat), NEW c \in Nat, Len(s) = 1, s[1] = c
                   PROVE  s = <<c>>
      OBVIOUS
    <3>2. <<c>> \in Seq(Nat) /\ Len(<<c>>) = 1 /\ <<c>>[1] = c
      OBVIOUS
    <3>3. \A i \in 1 .. Len(s) : s[i] = <<c>>[i]
      BY <3>1, <3>2
    <3>4. QED BY <3>1, <3>2, <3>3, SeqEqual
  <2>3. QED BY <1>0, <2>1, <2>2
<1>5. SubSeq(line, 5, n) = rest
  <2>1. /\ SubSeq(line, 5, n) \in Texts
        /\ Len(SubSeq(line, 5, n)) = IF 5 <= n THEN n - 5 + 1 ELSE 0
        /\ \A i \in 1 .. n - 5 + 1 : SubSeq(line, 5, n)[i] = line[5 + i - 1]
    BY <1>0, SubText
  <2>2. Len(SubSeq(line, 5, n)) = Len(rest) /\ n - 5 + 1 = Len(rest)
    BY <1>0, <2>1
  <2>3. \A i \in 1 .. Len(rest) : SubSeq(line, 5, n)[i] = rest[i]
    <3>1. \A i \in 1 .. Len(rest) : 5 + i - 1 = 4 + i
      BY <1>0
    <3>2. QED BY <1>0, <2>1, <2>2, <3>1
  <2>4. QED BY <2>1, <2>2, <2>3, SeqEqual DEF Texts
<1>6. Load!Parts(line) = <<<<x>>, <<y>>, rest>>
  <2>1. first - 1 = 1 /\ first + 1 = 3 /\ second - 1 = 3 /\ second + 1 = 5
        /\ first # 0 /\ second # 0
    BY <1>2, <1>3
  <2>2. QED BY <1>1, <1>4, <1>5, <2>1
<1>7. /\ Len(Load!Parts(line)) = 3 /\ Load!Parts(line)[1] = <<x>>
      /\ Load!Parts(line)[2] = <<y>> /\ Load!Parts(line)[3] = rest
  BY <1>6
<1>8. /\ Load!Part(line, 1) = <<x>> /\ Load!Part(line, 2) = <<y>> /\ Load!Part(line, 3) = rest
  BY <1>7 DEF Load!Part
<1>9. \A a, b : <<a>> = <<b>> <=> a = b
  <2>1. \A a : <<a>>[1] = a
    OBVIOUS
  <2>2. QED BY <2>1
<1>10. Load!IsAnyMetadata(line) <=> x = Load!Meta
  BY <1>7, <1>9 DEF Load!IsAnyMetadata
<1>11. \A key : Load!IsMetadata(line, key) <=> x = Load!Meta /\ key = y
  BY <1>7, <1>9 DEF Load!IsMetadata
<1>12. QED BY <1>6, <1>7, <1>8, <1>10, <1>11 DEF line

\* A text has a line where one has been written that keeps to itself.
KeepsToLine(body) ==
    /\ ~ Has(body, Load!LineFeed)
    /\ body = <<>> \/ body[Len(body)] # Load!Return

LEMMA LineThere ==
  ASSUME NEW a \in Texts, NEW body \in Texts, NEW c \in Texts, KeepsToLine(body),
         text = (a \o (body \o <<Load!LineFeed>>)) \o c
  PROVE  /\ Len(a) < Len(text)
         /\ Load!LineEnd(Len(a)) = Len(a \o (body \o <<Load!LineFeed>>))
         /\ Load!LineAfter(Len(a)) = body
<1> DEFINE m == Len(a)
           k == Len(body)
           line == body \o <<Load!LineFeed>>
<1>0. /\ line \in Texts /\ m \in Nat /\ k \in Nat /\ Len(line) = k + 1
      /\ (\A i \in 1 .. k : line[i] = body[i]) /\ line[k + 1] = Load!LineFeed
  <2>1. <<Load!LineFeed>> \in Texts /\ Len(<<Load!LineFeed>>) = 1
        /\ <<Load!LineFeed>>[1] = Load!LineFeed /\ 1 \in 1 .. 1
    BY ShortTexts, CharactersAreNumbers
  <2>2. /\ line \in Texts /\ k \in Nat /\ Len(line) = k + 1
        /\ (\A i \in 1 .. k : line[i] = body[i])
        /\ \A i \in 1 .. 1 : line[k + i] = <<Load!LineFeed>>[i]
    BY <2>1, ConcatIs
  <2>3. m \in Nat
    BY DEF Texts
  <2>4. QED BY <2>1, <2>2, <2>3
<1> HIDE DEF line
<1>1. /\ a \o line \in Texts /\ Len(a \o line) = m + (k + 1)
      /\ \A i \in 1 .. k + 1 : (a \o line)[m + i] = line[i]
  <2>1. /\ a \o line \in Texts /\ Len(a \o line) = m + Len(line)
        /\ \A i \in 1 .. Len(line) : (a \o line)[m + i] = line[i]
    BY <1>0, ConcatIs
  <2> HIDE DEF m, k
  <2>2. QED BY <1>0, <2>1
<1>2. /\ text \in Texts /\ Len(c) \in Nat /\ Len(text) = (m + (k + 1)) + Len(c)
      /\ \A i \in 1 .. m + (k + 1) : text[i] = (a \o line)[i]
  BY <1>1, ConcatIs DEF line
<1> HIDE DEF m, k
<1>3. m < Len(text) /\ Len(text) \in Nat
  BY <1>0, <1>2
<1>4. \A i \in 1 .. k + 1 : m + i \in 1 .. Len(text) /\ text[m + i] = line[i]
  <2>1. SUFFICES ASSUME NEW i \in 1 .. k + 1
                 PROVE  m + i \in 1 .. Len(text) /\ text[m + i] = line[i]
    OBVIOUS
  <2>2. m + i \in 1 .. m + (k + 1)
    BY <1>0
  <2>3. m + i \in 1 .. Len(text)
    BY <1>0, <1>2, <2>2
  <2>4. QED BY <1>1, <1>2, <2>2, <2>3
<1>5. \A i \in 1 .. k : line[i] # Load!LineFeed
  BY <1>0 DEF KeepsToLine, Has, k
<1>6. Load!LineEnd(m) = m + (k + 1)
  <2> DEFINE e == Load!LineEnd(m)
  <2>1. /\ e \in m + 1 .. Len(text)
        /\ \A i \in m + 1 .. e - 1 : text[i] # Load!LineFeed
        /\ e = Len(text) \/ text[e] = Load!LineFeed
    BY <1>0, <1>2, <1>3, LineEndIs
  <2> HIDE DEF e
  <2> DEFINE q == m + (k + 1)
  <2>2. text[q] = Load!LineFeed /\ q \in m + 1 .. Len(text)
    <3>1. k + 1 \in 1 .. k + 1
      BY <1>0
    <3>2. text[q] = line[k + 1] /\ q \in 1 .. Len(text)
      BY <1>4, <3>1
    <3>3. q >= m + 1 /\ m \in Int
      BY <1>0
    <3> HIDE DEF q
    <3>4. q \in m + 1 .. Len(text)
      BY <1>3, <3>2, <3>3
    <3>5. QED BY <1>0, <3>2, <3>4
  <2>3. e <= q
    <3> HIDE DEF q
    <3>1. e \in Int /\ q \in Int
      BY <1>0, <1>3, <2>1, <2>2
    <3>2. CASE e > q
      <4>1. q \in m + 1 .. e - 1
        BY <1>0, <1>3, <2>1, <2>2, <3>1, <3>2
      <4>2. QED BY <2>1, <2>2, <4>1
    <3>3. QED BY <3>1, <3>2
  <2>4. ~ (e < q)
    <3> SUFFICES ASSUME e < q
                 PROVE  FALSE
      OBVIOUS
    <3>0. e \in Int /\ e >= m + 1 /\ e <= m + k
      BY <1>0, <1>3, <2>1
    <3>1. e - m \in 1 .. k /\ e - m \in 1 .. k + 1 /\ m + (e - m) = e /\ e # Len(text)
      BY <1>0, <1>2, <3>0
    <3>2. text[e] = line[e - m]
      BY <1>4, <3>1
    <3>3. QED BY <1>5, <2>1, <3>1, <3>2
  <2>5. e = q
    <3>1. e \in Int /\ q \in Int
      BY <1>0, <1>3, <2>1
    <3> HIDE DEF q
    <3>2. QED BY <2>3, <2>4, <3>1
  <2>6. QED BY <2>5 DEF e, q
<1> DEFINE raw == SubSeq(text, m + 1, m + (k + 1))
<1>7. raw = line
  <2>1. /\ raw \in Texts /\ Len(raw) = k + 1
        /\ \A i \in 1 .. k + 1 : raw[i] = text[m + i]
    <3>1. m + 1 \in Nat /\ m + 1 > 0 /\ m + (k + 1) \in Int /\ m + (k + 1) <= Len(text)
          /\ m + 1 <= m + (k + 1) /\ (m + (k + 1)) - (m + 1) + 1 = k + 1
      BY <1>0, <1>2
    <3>2. /\ raw \in Texts
          /\ Len(raw) = k + 1
          /\ \A i \in 1 .. k + 1 : raw[i] = text[(m + 1) + i - 1]
      <4> DEFINE p == m + 1
                 q == m + (k + 1)
      <4> HIDE DEF p, q
      <4>1. p \in Nat /\ p > 0 /\ q \in Int /\ q <= Len(text) /\ p <= q /\ q - p + 1 = k + 1
        BY <3>1 DEF p, q
      <4>2. /\ SubSeq(text, p, q) \in Texts
            /\ Len(SubSeq(text, p, q)) = IF p <= q THEN q - p + 1 ELSE 0
            /\ \A i \in 1 .. q - p + 1 : SubSeq(text, p, q)[i] = text[p + i - 1]
        BY <1>2, <4>1, SubText
      <4>3. QED BY <4>1, <4>2 DEF p, q
    <3>3. \A i \in 1 .. k + 1 : (m + 1) + i - 1 = m + i
      BY <1>0
    <3>4. QED BY <3>2, <3>3
  <2> HIDE DEF raw
  <2>2. Len(raw) = Len(line) /\ \A i \in 1 .. Len(raw) : raw[i] = line[i]
    BY <1>0, <1>4, <2>1
  <2>3. raw \in Seq(Nat) /\ line \in Seq(Nat)
    BY <1>0, <2>1 DEF Texts
  <2>4. QED BY <2>2, <2>3, SeqEqual
<1> HIDE DEF raw
<1>8. Load!Last(line) = Load!LineFeed
  BY <1>0 DEF Load!Last
<1>9. Load!Front(line) = body
  <2>1. Load!Front(line) = SubSeq(line, 1, k)
    <3>1. Len(line) - 1 = k
      BY <1>0
    <3>2. QED BY <3>1 DEF Load!Front
  <2>2. /\ SubSeq(line, 1, k) \in Texts /\ Len(SubSeq(line, 1, k)) = k
        /\ \A i \in 1 .. k : SubSeq(line, 1, k)[i] = line[i]
    <3>1. k <= Len(line) /\ k - 1 + 1 = k /\ 1 > 0 /\ (1 <= k \/ k = 0)
          /\ \A i \in 1 .. k : 1 + i - 1 = i
      BY <1>0
    <3>2. /\ SubSeq(line, 1, k) \in Texts
          /\ Len(SubSeq(line, 1, k)) = IF 1 <= k THEN k - 1 + 1 ELSE 0
          /\ \A i \in 1 .. k - 1 + 1 : SubSeq(line, 1, k)[i] = line[1 + i - 1]
      BY <1>0, <3>1, SubText
    <3>3. QED BY <3>1, <3>2
  <2>3. QED BY <1>0, <2>1, <2>2, SeqEqual DEF Texts, k
<1>10. body # <<>> => Load!Last(body) # Load!Return
  BY DEF KeepsToLine, Load!Last
<1>11. Load!LineAfter(m) = body
  <2>1. SubSeq(text, m + 1, Load!LineEnd(m)) = line
    BY <1>6, <1>7 DEF raw
  <2> DEFINE body1 == IF Load!Last(line) = Load!LineFeed THEN Load!Front(line) ELSE line
  <2>2. Load!LineAfter(m) = IF /\ Load!Last(line) = Load!LineFeed /\ body1 # <<>>
                               /\ Load!Last(body1) = Load!Return
                            THEN Load!Front(body1) ELSE body1
    BY <2>1 DEF Load!LineAfter
  <2>3. body1 = body
    BY <1>8, <1>9
  <2> HIDE DEF body1
  <2>4. QED BY <1>10, <2>2, <2>3
<1>12. QED BY <1>1, <1>3, <1>6, <1>11 DEF m, line
-----------------------------------------------------------------------------
\* A segment goes to the next separator, or to the end.
LEMMA SegmentIs ==
  ASSUME NEW path \in Texts, NEW i \in 1 .. Len(path)
  PROVE  \E e \in i - 1 .. Len(path) :
            /\ Load!Segment(path, i) = SubSeq(path, i, e)
            /\ \A j \in i .. e : path[j] # Load!Slash /\ path[j] # Load!Backslash
            /\ e = Len(path) \/ path[e + 1] \in {Load!Slash, Load!Backslash}
<1> DEFINE n == Len(path)
           next == {j \in Load!Separators(path) : j >= i} \union {n + 1}
           m == Load!Min(next)
<1>1. n \in Nat /\ DOMAIN path = 1 .. n
  BY DEF Texts
<1>2. Load!Separators(path) = {j \in 1 .. n : path[j] \in {Load!Slash, Load!Backslash}}
  BY <1>1 DEF Load!Separators
<1>3. next \in SUBSET Nat /\ next # {} /\ n + 1 \in next
      /\ (\A j \in next : j >= i /\ (j = n + 1 \/ j \in Load!Separators(path)))
      /\ \A j \in Load!Separators(path) : j >= i => j \in next
  BY <1>1, <1>2
<1>4. Load!Segment(path, i) = SubSeq(path, i, m - 1)
  BY DEF Load!Segment
<1>5. m \in next /\ \A j \in next : m <= j
  <2> HIDE DEF next
  <2>1. QED BY <1>3, LeastIs
<1> HIDE DEF m, next
<1>6. m \in Nat /\ m >= i /\ m <= n + 1 /\ (m = n + 1 \/ m \in Load!Separators(path))
  BY <1>1, <1>3, <1>5
<1>7. m - 1 \in i - 1 .. n /\ (m - 1) + 1 = m
  BY <1>1, <1>6
<1>8. ASSUME NEW j \in i .. m - 1
      PROVE  path[j] # Load!Slash /\ path[j] # Load!Backslash
  <2>1. j \in 1 .. n /\ j >= i /\ ~ (m <= j)
    BY <1>1, <1>6
  <2>2. j \notin Load!Separators(path)
    BY <1>3, <1>5, <2>1
  <2>3. QED BY <1>2, <2>1, <2>2
<1>9. m - 1 = n \/ path[(m - 1) + 1] \in {Load!Slash, Load!Backslash}
  BY <1>1, <1>2, <1>6, <1>7
<1>10. QED BY <1>4, <1>7, <1>8, <1>9
-----------------------------------------------------------------------------
\* A path that normalisation leaves as it is: slashes only between segments, none of them empty or
\* one dot.
Edge(q, i) == i = 0 \/ i = Len(q) + 1 \/ q[i] = Load!Slash

Clean(q) ==
    \A i \in 1 .. Len(q) :
        /\ q[i] # Load!Backslash
        /\ q[i] = Load!Slash => ~ Edge(q, i - 1) /\ ~ Edge(q, i + 1)
        /\ q[i] = Load!Dot => ~ (Edge(q, i - 1) /\ Edge(q, i + 1))

\* A segment that is kept.
Word(s) ==
    /\ s \in Texts /\ s # <<>> /\ s # <<Load!Dot>>
    /\ \A j \in 1 .. Len(s) : s[j] # Load!Slash /\ s[j] # Load!Backslash

LEMMA PathCharacters ==
  Load!Slash \in Nat /\ Load!Dot \in Nat /\ Load!Dot # Load!Slash /\ Load!Slash # Load!Backslash
BY DEF Load!Slash, Load!Dot, Load!Backslash

LEMMA WordIs ==
  ASSUME NEW s, Word(s)
  PROVE  Len(s) \in Nat \ {0} /\ ~ (Len(s) = 1 /\ s[1] = Load!Dot)
<1>1. Len(s) \in Nat /\ s \in Seq(Nat)
  BY DEF Word, Texts
<1>2. Len(s) # 0
  BY <1>1, EmptySeq DEF Word
<1>3. ASSUME Len(s) = 1, s[1] = Load!Dot
      PROVE  FALSE
  <2>1. <<Load!Dot>> \in Seq(Nat) /\ Len(<<Load!Dot>>) = 1 /\ <<Load!Dot>>[1] = Load!Dot
    BY PathCharacters
  <2>2. \A j \in 1 .. Len(s) : s[j] = <<Load!Dot>>[j]
    BY <1>3, <2>1
  <2>3. s = <<Load!Dot>>
    BY <1>1, <1>3, <2>1, <2>2, SeqEqual
  <2>4. QED BY <2>3 DEF Word
<1>4. QED BY <1>1, <1>2, <1>3

LEMMA WordIsClean ==
  ASSUME NEW s, Word(s)
  PROVE  Clean(s)
<1> DEFINE b == Len(s)
<1>0. b \in Nat /\ ~ (b = 1 /\ s[1] = Load!Dot)
      /\ \A j \in 1 .. b : s[j] # Load!Slash /\ s[j] # Load!Backslash
  BY WordIs DEF Word
<1>1. ASSUME NEW i \in 1 .. b, s[i] = Load!Dot, Edge(s, i - 1), Edge(s, i + 1)
      PROVE  FALSE
  <2>1. i = 1
    <3>1. i - 1 \in 1 .. b \/ i = 1
      BY <1>0
    <3>2. ~ (i - 1 = Len(s) + 1)
      BY <1>0
    <3>3. QED BY <1>0, <1>1, <3>1, <3>2 DEF Edge
  <2>2. i = b
    <3>1. i + 1 \in 1 .. b \/ i = b
      BY <1>0
    <3>2. ~ (i + 1 = 0)
      BY <1>0
    <3>3. (i + 1 = Len(s) + 1) => i = b
      BY <1>0
    <3>4. QED BY <1>0, <1>1, <3>1, <3>2, <3>3 DEF Edge
  <2>3. QED BY <1>0, <1>1, <2>1, <2>2
<1>2. QED BY <1>0, <1>1 DEF Clean

LEMMA JoinedIsClean ==
  ASSUME NEW d \in Texts, Clean(d), NEW s, Word(s)
  PROVE  Joined(d, s) \in Texts /\ Clean(Joined(d, s))
<1>1. CASE d = <<>>
  BY <1>1, WordIsClean DEF Joined, Word
<1>2. CASE d # <<>>
  <2> DEFINE a == Len(d)
             b == Len(s)
             t == (d \o <<Load!Slash>>) \o s
  <2>0. a \in Nat /\ b \in Nat /\ a # 0 /\ b # 0 /\ s \in Texts /\ ~ (b = 1 /\ s[1] = Load!Dot)
        /\ \A j \in 1 .. b : s[j] # Load!Slash /\ s[j] # Load!Backslash
    <3>1. a \in Nat /\ a # 0
      BY <1>2, EmptySeq DEF Texts
    <3>2. QED BY <3>1, WordIs DEF Word
  <2>1. Joined(d, s) = t
    BY <1>2 DEF Joined
  <2>2. /\ d \o <<Load!Slash>> \in Texts /\ Len(d \o <<Load!Slash>>) = a + 1
        /\ \A i \in 1 .. a : (d \o <<Load!Slash>>)[i] = d[i]
        /\ (d \o <<Load!Slash>>)[a + 1] = Load!Slash
    <3>1. <<Load!Slash>> \in Texts /\ Len(<<Load!Slash>>) = 1 /\ <<Load!Slash>>[1] = Load!Slash
      BY PathCharacters, ShortTexts
    <3> DEFINE one == <<Load!Slash>>
    <3> HIDE DEF one
    <3>2. /\ d \o one \in Texts /\ Len(d \o one) = Len(d) + Len(one)
          /\ \A i \in 1 .. Len(d) : (d \o one)[i] = d[i]
          /\ \A i \in 1 .. Len(one) : (d \o one)[Len(d) + i] = one[i]
      <4>1. one \in Texts
        BY <3>1 DEF one
      <4>2. QED BY <4>1, ConcatIs
    <3>3. 1 \in 1 .. 1
      OBVIOUS
    <3>4. QED BY <3>1, <3>2, <3>3 DEF one
  <2>3. /\ t \in Texts /\ Len(t) = (a + 1) + b
        /\ \A i \in 1 .. a + 1 : t[i] = (d \o <<Load!Slash>>)[i]
        /\ \A i \in 1 .. b : t[(a + 1) + i] = s[i]
    <3> DEFINE one == d \o <<Load!Slash>>
    <3> HIDE DEF one
    <3>1. one \in Texts /\ Len(one) = a + 1
      BY <2>2 DEF one
    <3>2. /\ one \o s \in Texts /\ Len(one \o s) = Len(one) + Len(s)
          /\ \A i \in 1 .. Len(one) : (one \o s)[i] = one[i]
          /\ \A i \in 1 .. Len(s) : (one \o s)[Len(one) + i] = s[i]
      BY <2>0, <3>1, ConcatIs
    <3>3. QED BY <3>1, <3>2 DEF one
  <2> HIDE DEF t
  <2>4. /\ \A i \in 1 .. a : t[i] = d[i]
        /\ t[a + 1] = Load!Slash
    <3>1. a + 1 \in 1 .. a + 1 /\ \A i \in 1 .. a : i \in 1 .. a + 1
      BY <2>0
    <3>2. QED BY <2>2, <2>3, <3>1
  <2>5. Len(t) = a + b + 1 /\ \A i \in 1 .. b : t[a + 1 + i] = s[i]
    BY <2>0, <2>3
  <2>6. \A i \in 1 .. a : /\ d[i] # Load!Backslash
                          /\ d[i] = Load!Slash => ~ Edge(d, i - 1) /\ ~ Edge(d, i + 1)
                          /\ d[i] = Load!Dot => ~ (Edge(d, i - 1) /\ Edge(d, i + 1))
    BY DEF Clean
  <2>7. \A i \in 0 .. a : Edge(t, i) <=> Edge(d, i)
    <3>1. SUFFICES ASSUME NEW i \in 0 .. a
                   PROVE  Edge(t, i) <=> Edge(d, i)
      OBVIOUS
    <3>2. i # Len(t) + 1 /\ i # Len(d) + 1
      BY <2>0, <2>5
    <3>3. i = 0 \/ i \in 1 .. a
      BY <2>0
    <3>4. QED BY <2>4, <3>2, <3>3 DEF Edge
  <2>8. Edge(t, a + 1) /\ Edge(d, a + 1)
    BY <2>4 DEF Edge
  <2>9. \A j \in 1 .. b : ~ Edge(t, a + 1 + j)
    <3>1. SUFFICES ASSUME NEW j \in 1 .. b
                   PROVE  ~ Edge(t, a + 1 + j)
      OBVIOUS
    <3>2. a + 1 + j # 0 /\ a + 1 + j # Len(t) + 1
      BY <2>0, <2>5
    <3>3. t[a + 1 + j] # Load!Slash
      BY <2>0, <2>5
    <3>4. QED BY <3>2, <3>3 DEF Edge
  <2>10. ASSUME NEW i \in 1 .. a
         PROVE  /\ t[i] # Load!Backslash
                /\ t[i] = Load!Slash => ~ Edge(t, i - 1) /\ ~ Edge(t, i + 1)
                /\ t[i] = Load!Dot => ~ (Edge(t, i - 1) /\ Edge(t, i + 1))
    <3>1. t[i] = d[i]
      BY <2>4
    <3>2. Edge(t, i - 1) <=> Edge(d, i - 1)
      <4>1. i - 1 \in 0 .. a
        BY <2>0
      <4>2. QED BY <2>7, <4>1
    <3>3. Edge(t, i + 1) <=> Edge(d, i + 1)
      <4>1. i + 1 \in 0 .. a \/ i + 1 = a + 1
        BY <2>0
      <4>2. QED BY <2>7, <2>8, <4>1
    <3>4. QED BY <2>6, <3>1, <3>2, <3>3
  <2>11. /\ t[a + 1] # Load!Backslash /\ t[a + 1] # Load!Dot
         /\ ~ Edge(t, (a + 1) - 1) /\ ~ Edge(t, (a + 1) + 1)
    <3>1. ~ Edge(t, a)
      <4>1. a \in 1 .. a /\ a \in 0 .. a
        BY <2>0
      <4>2. d[a] # Load!Slash
        BY <2>6, <2>8, <4>1
      <4>3. ~ Edge(d, a)
        <5>1. a # 0 /\ a # Len(d) + 1
          BY <2>0
        <5>2. QED BY <4>2, <5>1 DEF Edge
      <4>4. QED BY <2>7, <4>1, <4>3
    <3>2. (a + 1) - 1 = a /\ 1 \in 1 .. b
      BY <2>0
    <3>3. QED BY <2>4, <2>9, <3>1, <3>2, PathCharacters
  <2>12. ASSUME NEW j \in 1 .. b
         PROVE  /\ t[a + 1 + j] # Load!Backslash /\ t[a + 1 + j] # Load!Slash
                /\ t[a + 1 + j] = Load!Dot
                      => ~ (Edge(t, (a + 1 + j) - 1) /\ Edge(t, (a + 1 + j) + 1))
    <3>1. t[a + 1 + j] # Load!Backslash /\ t[a + 1 + j] # Load!Slash
      BY <2>0, <2>5
    <3>2. ASSUME s[j] = Load!Dot, Edge(t, (a + 1 + j) - 1), Edge(t, (a + 1 + j) + 1)
          PROVE  FALSE
      <4>1. j = 1
        <5>1. j = 1 \/ (j - 1 \in 1 .. b /\ (a + 1 + j) - 1 = a + 1 + (j - 1))
          BY <2>0
        <5>2. QED BY <2>9, <3>2, <5>1
      <4>2. j = b
        <5>1. j = b \/ (j + 1 \in 1 .. b /\ (a + 1 + j) + 1 = a + 1 + (j + 1))
          BY <2>0
        <5>2. QED BY <2>9, <3>2, <5>1
      <4>3. QED BY <2>0, <3>2, <4>1, <4>2
    <3>3. QED BY <2>5, <3>1, <3>2
  <2>13. \A i \in 1 .. Len(t) : \/ i \in 1 .. a \/ i = a + 1
                               \/ (i - (a + 1) \in 1 .. b /\ i = a + 1 + (i - (a + 1)))
    BY <2>0, <2>5
  <2>14. Clean(t)
    <3>1. SUFFICES ASSUME NEW i \in 1 .. Len(t)
                   PROVE  /\ t[i] # Load!Backslash
                          /\ t[i] = Load!Slash => ~ Edge(t, i - 1) /\ ~ Edge(t, i + 1)
                          /\ t[i] = Load!Dot => ~ (Edge(t, i - 1) /\ Edge(t, i + 1))
      BY DEF Clean
    <3>2. CASE i \in 1 .. a
      BY <2>10, <3>2
    <3>3. CASE i = a + 1
      BY <2>11, <3>3
    <3>4. CASE i - (a + 1) \in 1 .. b /\ i = a + 1 + (i - (a + 1))
      <4> DEFINE j == i - (a + 1)
      <4>1. j \in 1 .. b /\ i = a + 1 + j
        BY <3>4
      <4> HIDE DEF j
      <4>2. QED BY <2>12, <4>1
    <3>5. QED BY <2>13, <3>2, <3>3, <3>4
  <2>15. QED BY <2>1, <2>3, <2>14
<1>3. QED BY <1>1, <1>2
-----------------------------------------------------------------------------
\* What from_user_path makes is clean.
LEMMA KeptIsWord ==
  ASSUME NEW path \in Texts, NEW i \in 1 .. Len(path), KeptAt(path, i)
  PROVE  Word(Load!Segment(path, i))
<1> DEFINE s == Load!Segment(path, i)
<1>1. s # <<>> /\ s # <<Load!Dot>> /\ s \in Texts
  BY SegmentIsText DEF KeptAt
<1>2. PICK e \in i - 1 .. Len(path) :
         /\ s = SubSeq(path, i, e)
         /\ \A j \in i .. e : path[j] # Load!Slash /\ path[j] # Load!Backslash
  BY SegmentIs
<1>3. Len(path) \in Nat
  BY DEF Texts
<1>4. /\ Len(s) = IF i <= e THEN e - i + 1 ELSE 0
      /\ \A j \in 1 .. e - i + 1 : s[j] = path[i + j - 1]
  <2> HIDE DEF s
  <2>1. i \in Nat /\ i > 0 /\ e \in Int /\ e <= Len(path)
    BY <1>3
  <2>2. /\ Len(SubSeq(path, i, e)) = IF i <= e THEN e - i + 1 ELSE 0
        /\ \A j \in 1 .. e - i + 1 : SubSeq(path, i, e)[j] = path[i + j - 1]
    BY <2>1, SubText
  <2>3. QED BY <1>2, <2>2
<1> HIDE DEF s
<1>5. \A j \in 1 .. Len(s) : j \in 1 .. e - i + 1 /\ i + j - 1 \in i .. e
  BY <1>3, <1>4
<1>6. QED BY <1>1, <1>2, <1>4, <1>5 DEF Word, s

LEMMA NormalizedIsClean ==
  ASSUME NEW path \in Texts
  PROVE  Load!Normalized(path) \in Texts /\ Clean(Load!Normalized(path))
<1> DEFINE n == Len(path)
<1>0. n \in Nat
  BY DEF Texts
<1>1. PICK f : Normalizes(f, path) /\ Load!Normalized(path) = f[n]
  BY NormalizedIs
<1> DEFINE S == {i \in 0 .. n : f[i] \in Texts /\ Clean(f[i])}
<1>2. 0 \in S
  <2>1. f[0] = <<>> /\ <<>> \in Texts /\ Len(<<>>) = 0 /\ 0 \in 0 .. n
    BY <1>0, <1>1, ShortTexts DEF Normalizes
  <2>2. Clean(<<>>)
    BY <2>1 DEF Clean
  <2>3. QED BY <2>1, <2>2
<1>3. \A i \in 1 .. n : i - 1 \in S => i \in S
  <2>1. SUFFICES ASSUME NEW i \in 1 .. n, f[i - 1] \in Texts, Clean(f[i - 1])
                 PROVE  f[i] \in Texts /\ Clean(f[i])
    BY <1>0
  <2>2. f[i] = IF KeptAt(path, i) THEN Joined(f[i - 1], Load!Segment(path, i)) ELSE f[i - 1]
    BY <1>1 DEF Normalizes
  <2>3. CASE KeptAt(path, i)
    BY <2>1, <2>2, <2>3, KeptIsWord, JoinedIsClean
  <2>4. CASE ~ KeptAt(path, i)
    BY <2>1, <2>2, <2>4
  <2>5. QED BY <2>3, <2>4
<1>4. n \in S
  <2> HIDE DEF S, n
  <2>1. 0 .. n \subseteq S
    BY <1>0, <1>2, <1>3, UpTo
  <2>2. QED BY <1>0, <2>1
<1>5. QED BY <1>1, <1>4

\* Every segment of a clean path is kept.
LEMMA CleanSegment ==
  ASSUME NEW q \in Texts, Clean(q), NEW i \in 1 .. Len(q)
  PROVE  /\ KeptAt(q, i) <=> i = 1 \/ q[i - 1] = Load!Slash
         /\ \E e \in i - 1 .. Len(q) :
               /\ Load!Segment(q, i) = SubSeq(q, i, e)
               /\ \A j \in i .. e : q[j] # Load!Slash
               /\ e = Len(q) \/ q[e + 1] = Load!Slash
<1> DEFINE n == Len(q)
           s == Load!Segment(q, i)
<1>0. n \in Nat /\ DOMAIN q = 1 .. n /\ q \in Seq(Nat)
  BY DEF Texts
<1>1. PICK e \in i - 1 .. n : /\ s = SubSeq(q, i, e)
                              /\ \A j \in i .. e : q[j] # Load!Slash /\ q[j] # Load!Backslash
                              /\ e = n \/ q[e + 1] \in {Load!Slash, Load!Backslash}
  BY SegmentIs
<1>2. \A j \in 1 .. n : /\ q[j] # Load!Backslash
                        /\ q[j] = Load!Slash => ~ Edge(q, j - 1) /\ ~ Edge(q, j + 1)
                        /\ q[j] = Load!Dot => ~ (Edge(q, j - 1) /\ Edge(q, j + 1))
  BY DEF Clean
<1>3. e = n \/ q[e + 1] = Load!Slash
  <2>1. e \in i - 1 .. n /\ n \in Nat /\ i \in Nat \ {0}
    BY <1>0
  <2>2. e # n => e + 1 \in 1 .. n
    <3> HIDE DEF n
    <3>1. QED BY <2>1
  <2>3. QED BY <1>1, <1>2, <2>2
<1>4. i - 1 \in Load!Separators(q) <=> i # 1 /\ q[i - 1] = Load!Slash
  <2>1. i - 1 \in 1 .. n <=> i # 1
    BY <1>0
  <2>2. QED BY <1>0, <1>2, <2>1 DEF Load!Separators
<1>5. /\ Len(s) = IF i <= e THEN e - i + 1 ELSE 0
      /\ \A j \in 1 .. e - i + 1 : s[j] = q[i + j - 1]
  <2> HIDE DEF s
  <2>1. i \in Nat /\ i > 0 /\ e \in Int /\ e <= Len(q)
    BY <1>0
  <2>2. /\ Len(SubSeq(q, i, e)) = IF i <= e THEN e - i + 1 ELSE 0
        /\ \A j \in 1 .. e - i + 1 : SubSeq(q, i, e)[j] = q[i + j - 1]
    BY <2>1, SubText
  <2>3. QED BY <1>1, <2>2
<1> HIDE DEF s
<1>6. ASSUME i = 1 \/ q[i - 1] = Load!Slash
      PROVE  s # <<>> /\ s # <<Load!Dot>>
  <2>1. Edge(q, i - 1)
    BY <1>6 DEF Edge
  <2>2. q[i] # Load!Slash
    BY <1>2, <2>1
  <2>3. i <= e
    <3>1. e = i - 1 => e + 1 = i /\ e # n
      BY <1>0
    <3>2. e # i - 1
      BY <1>3, <2>2, <3>1
    <3>3. QED BY <1>0, <3>2
  <2>4. Len(s) = e - i + 1 /\ Len(s) # 0 /\ 1 \in 1 .. e - i + 1 /\ i + 1 - 1 = i
    BY <1>0, <1>5, <2>3
  <2>5. s[1] = q[i]
    BY <1>5, <2>4
  <2>6. ASSUME s = <<Load!Dot>>
        PROVE  FALSE
    <3>1. Len(s) = 1 /\ s[1] = Load!Dot
      BY <2>6
    <3>2. e = i /\ q[i] = Load!Dot
      <4>1. e \in Int /\ i \in Int
        BY <1>0
      <4>2. e - i + 1 = 1
        BY <2>4, <3>1
      <4>3. e = i
        BY <4>1, <4>2
      <4>4. QED BY <2>5, <3>1, <4>3
    <3>3. Edge(q, i + 1)
      BY <1>3, <3>2 DEF Edge
    <3>4. QED BY <1>2, <2>1, <3>2, <3>3
  <2>7. s # <<>>
    <3>1. Len(<<>>) = 0
      OBVIOUS
    <3>2. QED BY <2>4, <3>1
  <2>8. QED BY <2>6, <2>7
<1>7. KeptAt(q, i) <=> i = 1 \/ q[i - 1] = Load!Slash
  BY <1>4, <1>6 DEF KeptAt, s
<1>8. QED BY <1>1, <1>3, <1>7 DEF s

\* So normalisation leaves it as it is.
LEMMA CleanIsNormalized ==
  ASSUME NEW q \in Texts, Clean(q)
  PROVE  Load!Normalized(q) = q
<1> DEFINE n == Len(q)
<1>0. n \in Nat /\ q \in Seq(Nat)
  BY DEF Texts
<1>1. PICK f : Normalizes(f, q) /\ Load!Normalized(q) = f[n]
  BY NormalizedIs
<1>2. /\ f[0] = <<>>
      /\ \A i \in 1 .. n : f[i] = IF KeptAt(q, i) THEN Joined(f[i - 1], Load!Segment(q, i))
                                  ELSE f[i - 1]
  BY <1>1 DEF Normalizes
<1>3. \A j \in 1 .. n : q[j] = Load!Slash => ~ Edge(q, j - 1) /\ ~ Edge(q, j + 1)
  BY DEF Clean
\* The segments up to position i are complete, up to e.
<1> DEFINE Reaches(i, e) ==
              /\ f[i] = SubSeq(q, 1, e) /\ i - 1 <= e /\ (i = 0 => e = 0)
              /\ i > 0 => /\ \A j \in i .. e : q[j] # Load!Slash
                          /\ e = n \/ q[e + 1] = Load!Slash
           S == {i \in 0 .. n : \E e \in 0 .. n : Reaches(i, e)}
<1>4. 0 \in S
  <2>1. SubSeq(q, 1, 0) = <<>>
    BY SubSeqEmpty
  <2>2. Reaches(0, 0)
    BY <1>2, <2>1
  <2>3. 0 \in 0 .. n
    BY <1>0
  <2> HIDE DEF Reaches
  <2>4. QED BY <2>2, <2>3
<1>5. ASSUME NEW i \in 1 .. n, i - 1 \in S
      PROVE  i \in S
  <2>1. PICK d \in 0 .. n : Reaches(i - 1, d)
    BY <1>5
  <2>2. PICK e \in i - 1 .. n : /\ Load!Segment(q, i) = SubSeq(q, i, e)
                                /\ \A j \in i .. e : q[j] # Load!Slash
                                /\ e = n \/ q[e + 1] = Load!Slash
    BY CleanSegment
  <2>3. KeptAt(q, i) <=> i = 1 \/ q[i - 1] = Load!Slash
    BY CleanSegment
  <2>4. i \in 0 .. n /\ d \in Int /\ e \in 0 .. n
    BY <1>0
  <2>5. CASE i = 1
    <3>1. KeptAt(q, 1) /\ f[0] = <<>> /\ f[1] = Joined(f[0], Load!Segment(q, 1))
      <4>1. 1 \in 1 .. n /\ 1 - 1 = 0
        BY <2>5
      <4>2. QED BY <1>2, <2>3, <2>5, <4>1
    <3>2. f[i] = SubSeq(q, 1, e)
      BY <2>2, <2>5, <3>1 DEF Joined
    <3>3. Reaches(i, e)
      BY <2>2, <2>4, <3>2
    <3> HIDE DEF Reaches
    <3>4. QED BY <2>4, <3>3
  <2>6. CASE i # 1 /\ q[i - 1] = Load!Slash
    <3>1. i - 1 \in 1 .. n /\ i - 1 > 0 /\ i - 1 # 0 /\ d >= i - 2
      BY <1>0, <2>1, <2>4, <2>6
    <3>2. d = i - 2
      <4>1. ~ (d >= i - 1)
        <5>1. d >= i - 1 => i - 1 \in i - 1 .. d
          BY <2>4
        <5>2. QED BY <2>1, <2>6, <3>1, <5>1
      <4>2. QED BY <2>4, <3>1, <4>1
    <3>3. i - 2 # 0
      <4>1. ~ Edge(q, (i - 1) - 1)
        BY <1>3, <2>6, <3>1
      <4>2. (i - 1) - 1 = i - 2
        BY <1>0
      <4>3. QED BY <4>1, <4>2 DEF Edge
    <3>4. f[i - 1] = SubSeq(q, 1, i - 2)
      BY <2>1, <3>2
    <3>5. /\ SubSeq(q, 1, i - 2) \in Texts /\ Len(SubSeq(q, 1, i - 2)) = i - 2
          /\ SubSeq(q, 1, i - 2) # <<>>
      <4> DEFINE p == i - 2
      <4>1. p \in Nat /\ p # 0 /\ p <= Len(q) /\ p \in Int
        BY <1>0, <3>1, <3>3
      <4> HIDE DEF p
      <4>2. SubSeq(q, 1, p) \in Texts /\ Len(SubSeq(q, 1, p)) = IF 1 <= p THEN p - 1 + 1 ELSE 0
        BY <4>1, SubText
      <4>3. Len(SubSeq(q, 1, p)) = p
        BY <4>1, <4>2
      <4>4. Len(<<>>) = 0
        OBVIOUS
      <4>5. QED BY <4>1, <4>2, <4>3, <4>4 DEF p
    <3>6. f[i] = SubSeq(q, 1, i - 2) \o <<Load!Slash>> \o SubSeq(q, i, e)
      BY <1>2, <2>2, <2>3, <2>6, <3>4, <3>5 DEF Joined
    <3>7. SubSeq(q, 1, i - 2) \o <<Load!Slash>> = SubSeq(q, 1, i - 1)
      <4>1. 1 \in 1 .. Len(q) /\ i - 1 \in 1 .. Len(q) /\ (i - 1) - 1 = i - 2
        BY <1>0, <3>1
      <4> DEFINE p == i - 1
      <4>2. p \in 1 .. Len(q) /\ p - 1 = i - 2 /\ 1 <= p + 1
        BY <4>1
      <4> HIDE DEF p
      <4>3. SubSeq(q, 1, p) = SubSeq(q, 1, p - 1) \o <<q[p]>>
        BY <1>0, <4>1, <4>2, SubSeqRecursiveSecond
      <4>4. QED BY <2>6, <4>2, <4>3 DEF p
    <3>8. SubSeq(q, 1, i - 1) \o SubSeq(q, i, e) = SubSeq(q, 1, e)
      <4> DEFINE m == i - 1
      <4>1. m + 1 = i /\ m \in Nat /\ m <= e /\ e <= n /\ e \in Nat /\ m \in 1 .. e
        BY <1>0, <2>4, <3>1
      <4> HIDE DEF m
      <4>2. SubSeq(q, 1, m) \o SubSeq(q, m + 1, e) = SubSeq(q, 1, e)
        <5> DEFINE x == SubSeq(q, 1, m)
                   y == SubSeq(q, m + 1, e)
                   z == SubSeq(q, 1, e)
        <5>1. x \in Texts /\ Len(x) = m /\ \A j \in 1 .. m : x[j] = q[j]
          <6>1. m \in Int /\ m <= Len(q) /\ 1 <= m /\ m - 1 + 1 = m
                /\ \A j \in 1 .. m : 1 + j - 1 = j
            BY <1>0, <4>1
          <6>2. /\ x \in Texts /\ Len(x) = IF 1 <= m THEN m - 1 + 1 ELSE 0
                /\ \A j \in 1 .. m - 1 + 1 : x[j] = q[1 + j - 1]
            BY <6>1, SubText
          <6> HIDE DEF x
          <6>3. QED BY <6>1, <6>2
        <5>2. z \in Texts /\ Len(z) = e /\ \A j \in 1 .. e : z[j] = q[j]
          <6>1. e \in Int /\ e <= Len(q) /\ 1 <= e /\ e - 1 + 1 = e
                /\ \A j \in 1 .. e : 1 + j - 1 = j
            BY <1>0, <4>1
          <6>2. /\ z \in Texts /\ Len(z) = IF 1 <= e THEN e - 1 + 1 ELSE 0
                /\ \A j \in 1 .. e - 1 + 1 : z[j] = q[1 + j - 1]
            BY <6>1, SubText
          <6> HIDE DEF z
          <6>3. QED BY <6>1, <6>2
        <5>3. y \in Texts /\ Len(y) = e - m /\ \A j \in 1 .. e - m : y[j] = q[m + j]
          <6> DEFINE p == m + 1
          <6>1. p \in Nat /\ p > 0 /\ e \in Int /\ e <= Len(q) /\ e - p + 1 = e - m
                /\ (p <= e \/ e - m = 0) /\ \A j \in 1 .. e - m : p + j - 1 = m + j
            BY <1>0, <4>1
          <6> HIDE DEF p
          <6>2. /\ SubSeq(q, p, e) \in Texts
                /\ Len(SubSeq(q, p, e)) = IF p <= e THEN e - p + 1 ELSE 0
                /\ \A j \in 1 .. e - p + 1 : SubSeq(q, p, e)[j] = q[p + j - 1]
            BY <6>1, SubText
          <6>3. y = SubSeq(q, p, e)
            BY DEF p
          <6> HIDE DEF y
          <6>4. QED BY <6>1, <6>2, <6>3
        <5> HIDE DEF x, y, z
        <5>4. /\ x \o y \in Texts /\ Len(x \o y) = m + (e - m)
              /\ \A j \in 1 .. m : (x \o y)[j] = x[j]
              /\ \A j \in 1 .. e - m : (x \o y)[m + j] = y[j]
          <6>1. /\ x \o y \in Texts /\ Len(x \o y) = Len(x) + Len(y)
                /\ \A j \in 1 .. Len(x) : (x \o y)[j] = x[j]
                /\ \A j \in 1 .. Len(y) : (x \o y)[Len(x) + j] = y[j]
            BY <5>1, <5>3, ConcatIs
          <6>2. QED BY <5>1, <5>3, <6>1
        <5>5. Len(x \o y) = e
          BY <4>1, <5>4
        <5>6. ASSUME NEW j \in 1 .. e
              PROVE  (x \o y)[j] = z[j]
          <6>1. j \in 1 .. m \/ (j - m \in 1 .. e - m /\ m + (j - m) = j)
            BY <4>1
          <6>2. CASE j \in 1 .. m
            BY <5>1, <5>2, <5>4, <6>2
          <6>3. CASE j - m \in 1 .. e - m /\ m + (j - m) = j
            <7> DEFINE k == j - m
            <7>1. k \in 1 .. e - m /\ m + k = j
              BY <6>3
            <7> HIDE DEF k
            <7>2. QED BY <5>2, <5>3, <5>4, <7>1
          <6>4. QED BY <6>1, <6>2, <6>3
        <5>7. x \o y = z
          BY <5>2, <5>4, <5>5, <5>6, SeqEqual DEF Texts
        <5>8. QED BY <5>7 DEF x, y, z
      <4>3. QED BY <4>1, <4>2 DEF m
    <3>9. f[i] = SubSeq(q, 1, e)
      BY <3>6, <3>7, <3>8
    <3>10. Reaches(i, e)
      BY <2>2, <2>4, <3>9
    <3> HIDE DEF Reaches
    <3>11. QED BY <2>4, <3>10
  <2>7. CASE i # 1 /\ q[i - 1] # Load!Slash
    <3>1. f[i] = f[i - 1]
      BY <1>2, <2>3, <2>7
    <3>2. i - 1 > 0 /\ i - 1 # 0 /\ d >= i - 2
      BY <1>0, <2>1, <2>4, <2>7
    <3>3. d >= i - 1
      <4>1. d # i - 2
        <5>1. d = i - 2 => d + 1 = i - 1 /\ d # n
          BY <1>0
        <5>2. QED BY <2>1, <2>7, <3>2, <5>1
      <4>2. QED BY <2>4, <3>2, <4>1
    <3>4. \A j \in i .. d : j \in i - 1 .. d
      BY <2>4
    <3>5. Reaches(i, d)
      BY <2>1, <2>4, <3>1, <3>2, <3>3, <3>4
    <3> HIDE DEF Reaches
    <3>6. QED BY <2>4, <3>5
  <2>8. QED BY <2>5, <2>6, <2>7
<1>6. n \in S
  <2> HIDE DEF S, n
  <2>1. 0 .. n \subseteq S
    BY <1>0, <1>4, <1>5, UpTo
  <2>2. QED BY <1>0, <2>1
<1>7. PICK e \in 0 .. n : Reaches(n, e)
  BY <1>6
<1>8. e = n
  <2>1. SUFFICES ASSUME e # n
                 PROVE  FALSE
    OBVIOUS
  <2>2. n > 0 /\ e = n - 1 /\ n \in 1 .. n /\ e + 1 = n
    BY <1>0, <1>7, <2>1
  <2>3. q[n] = Load!Slash
    BY <1>7, <2>1, <2>2
  <2>4. Edge(q, n + 1)
    BY DEF Edge
  <2>5. QED BY <1>3, <2>2, <2>3, <2>4
<1>9. SubSeq(q, 1, n) = q
  BY <1>0, SubSeqFull
<1>10. QED BY <1>1, <1>7, <1>8, <1>9

\* from_user_path leaves what it has made as it is.
LEMMA NormalizedTwice ==
  ASSUME NEW path \in Texts
  PROVE  Load!Normalized(Load!Normalized(path)) = Load!Normalized(path)
BY NormalizedIsClean, CleanIsNormalized
-----------------------------------------------------------------------------
\* The lines that save_with writes after the header, and what they say.
NamesOf(s) == IF s.policy = Unknown THEN <<>> ELSE Load!InOrder(s.policy)
PathsOf(s) == Load!InOrder(DOMAIN s.files)

Kinds == {"root", "marker", "name", "file"}
KeyOf(kind) == CASE kind = "root" -> Load!RootKey
                 [] kind = "marker" -> Load!ScanPolicyKey
                 [] OTHER -> Load!ExcludeNameKey
Marker == <<Load!Number(1)>>

Entries(s) ==
    LET a == IF s.root = NoRoot THEN 0 ELSE 1
        b == a + (IF s.policy = Unknown THEN 0 ELSE 1)
        c == b + Len(NamesOf(s))
    IN  [i \in 1 .. c + Len(PathsOf(s)) |->
            IF i <= a THEN [kind |-> "root", value |-> Load!Lossy(s.root)]
            ELSE IF i <= b THEN [kind |-> "marker", value |-> Marker]
            ELSE IF i <= c THEN [kind |-> "name", value |-> NamesOf(s)[i - b]]
            ELSE [kind |-> "file", value |-> PathsOf(s)[i - c]]]

Body(s, e) ==
    IF e.kind = "file"
    THEN Fielded(Load!Number(s.files[e.value].size), Load!Number(s.files[e.value].time), e.value)
    ELSE Fielded(Load!Meta, KeyOf(e.kind), Load!Escaped(e.value))

Written(s) == [i \in 1 .. Len(Entries(s)) |-> Body(s, Entries(s)[i]) \o <<Load!LineFeed>>]

\* What the first k lines of a kind say.
Of(es, k, kind) == {es[i].value : i \in {j \in 1 .. k : es[j].kind = kind}}

LEMMA SnapshotIs ==
  ASSUME NEW s, IsSnapshot(s)
  PROVE  /\ s.root # NoRoot => Load!Lossy(s.root) \in Texts
         /\ s.policy # Unknown => s.policy \in SUBSET Texts
         /\ DOMAIN s.files \in SUBSET Texts /\ s.files \in [DOMAIN s.files -> FileData]
         /\ \A p \in DOMAIN s.files : Load!Normalized(p) = p
         /\ \E n \in Nat : /\ Len(NamesOf(s)) = n /\ DOMAIN NamesOf(s) = 1 .. n
                           /\ s.policy = Unknown => n = 0
                           /\ s.policy # Unknown =>
                                 /\ NamesOf(s) \in [1 .. n -> s.policy]
                                 /\ \A v \in s.policy : \E i \in 1 .. n : NamesOf(s)[i] = v
         /\ \E n \in Nat : /\ Len(PathsOf(s)) = n /\ PathsOf(s) \in [1 .. n -> DOMAIN s.files]
                           /\ \A p \in DOMAIN s.files : \E i \in 1 .. n : PathsOf(s)[i] = p
<1>0. /\ s.root # NoRoot => Load!Lossy(s.root) \in Texts
      /\ s.policy # Unknown => IsFiniteSet(s.policy) /\ s.policy \in SUBSET Texts
      /\ IsFiniteSet(DOMAIN s.files) /\ DOMAIN s.files \in SUBSET Texts
      /\ s.files \in [DOMAIN s.files -> FileData]
      /\ \A p \in DOMAIN s.files : Load!Normalized(p) = p
  BY SameLibrary, LossyIsText DEF IsSnapshot, IsPath, Texts
<1>1. \E n \in Nat : /\ Len(NamesOf(s)) = n /\ DOMAIN NamesOf(s) = 1 .. n
                     /\ s.policy = Unknown => n = 0
                     /\ s.policy # Unknown =>
                           /\ NamesOf(s) \in [1 .. n -> s.policy]
                           /\ \A v \in s.policy : \E i \in 1 .. n : NamesOf(s)[i] = v
  <2>1. CASE s.policy = Unknown
    <3>1. NamesOf(s) = <<>> /\ Len(<<>>) = 0 /\ DOMAIN <<>> = 1 .. 0 /\ 0 \in Nat
      BY <2>1 DEF NamesOf
    <3>2. QED BY <2>1, <3>1
  <2>2. CASE s.policy # Unknown
    <3> DEFINE m == Cardinality(s.policy)
               names == Load!InOrder(s.policy)
    <3>1. m \in Nat /\ Arranges(names, s.policy)
      BY <1>0, <2>2, InOrderIs
    <3>2. NamesOf(s) = names
      BY <2>2 DEF NamesOf
    <3> HIDE DEF names
    <3>3. /\ names \in [1 .. m -> s.policy]
          /\ \A v \in s.policy : \E i \in 1 .. m : names[i] = v
      BY <3>1 DEF Arranges
    <3> HIDE DEF m
    <3>4. Len(names) = m /\ DOMAIN names = 1 .. m
      <4>1. names \in Seq(s.policy)
        BY <3>1, <3>3
      <4>2. QED BY <3>1, <3>3, <4>1, LenProperties
    <3>5. QED BY <2>2, <3>1, <3>2, <3>3, <3>4
  <2>3. QED BY <2>1, <2>2
<1>2. \E n \in Nat : /\ Len(PathsOf(s)) = n /\ PathsOf(s) \in [1 .. n -> DOMAIN s.files]
                     /\ \A p \in DOMAIN s.files : \E i \in 1 .. n : PathsOf(s)[i] = p
  <2> DEFINE m == Cardinality(DOMAIN s.files)
             S == DOMAIN s.files
             paths == Load!InOrder(S)
  <2>1. m \in Nat /\ Arranges(paths, S)
    BY <1>0, InOrderIs
  <2>2. PathsOf(s) = paths
    BY DEF PathsOf
  <2> HIDE DEF paths
  <2>3. /\ paths \in [1 .. m -> S]
        /\ \A p \in S : \E i \in 1 .. m : paths[i] = p
    BY <2>1 DEF Arranges
  <2> HIDE DEF m, S
  <2>4. Len(paths) = m
    <3>1. paths \in Seq(S)
      BY <2>1, <2>3
    <3>2. QED BY <2>1, <2>3, <3>1, LenProperties
  <2>5. QED BY <2>1, <2>2, <2>3, <2>4 DEF S
<1>3. QED BY <1>0, <1>1, <1>2

LEMMA EntriesAre ==
  ASSUME NEW s, IsSnapshot(s)
  PROVE  LET es == Entries(s)
             n == Len(es)
         IN  /\ n \in Nat /\ es \in Seq([kind : Kinds, value : Texts])
             /\ \A i \in 1 .. n :
                   /\ es[i] \in [kind : Kinds, value : Texts]
                   /\ es[i].kind = "root" => s.root # NoRoot /\ es[i].value = Load!Lossy(s.root)
                   /\ es[i].kind = "marker" => es[i].value = Marker
                   /\ es[i].kind = "file" => es[i].value \in DOMAIN s.files
             /\ \A i, j \in 1 .. n : es[i].kind = "marker" /\ es[j].kind = "marker" => i = j
             /\ Of(es, n, "root") = {} <=> s.root = NoRoot
             /\ Of(es, n, "marker") = {} <=> s.policy = Unknown
             /\ Of(es, n, "name") = IF s.policy = Unknown THEN {} ELSE s.policy
             /\ Of(es, n, "file") = DOMAIN s.files
<1> DEFINE es == Entries(s)
           names == NamesOf(s)
           paths == PathsOf(s)
           a == IF s.root = NoRoot THEN 0 ELSE 1
           b == a + (IF s.policy = Unknown THEN 0 ELSE 1)
           c == b + Len(names)
           n == c + Len(paths)
<1>1. PICK x \in Nat : /\ Len(names) = x /\ DOMAIN names = 1 .. x
                       /\ s.policy = Unknown => x = 0
                       /\ s.policy # Unknown =>
                             /\ names \in [1 .. x -> s.policy]
                             /\ \A v \in s.policy : \E i \in 1 .. x : names[i] = v
  BY SnapshotIs
<1>2. PICK y \in Nat : /\ Len(paths) = y /\ paths \in [1 .. y -> DOMAIN s.files]
                       /\ \A p \in DOMAIN s.files : \E i \in 1 .. y : paths[i] = p
  BY SnapshotIs
<1>3. /\ s.root # NoRoot => Load!Lossy(s.root) \in Texts
      /\ s.policy # Unknown => s.policy \in SUBSET Texts
      /\ DOMAIN s.files \in SUBSET Texts
  BY SnapshotIs
<1>4. es = [i \in 1 .. n |-> IF i <= a THEN [kind |-> "root", value |-> Load!Lossy(s.root)]
                             ELSE IF i <= b THEN [kind |-> "marker", value |-> Marker]
                             ELSE IF i <= c THEN [kind |-> "name", value |-> names[i - b]]
                             ELSE [kind |-> "file", value |-> paths[i - c]]]
  BY DEF Entries
<1> HIDE DEF es, names, paths
<1>5. /\ a \in {0, 1} /\ (a = 1 <=> s.root # NoRoot)
      /\ b \in {a, a + 1} /\ (b = a + 1 <=> s.policy # Unknown)
      /\ c = b + x /\ n = c + y
  BY <1>1, <1>2
<1> HIDE DEF a, b, c, n
<1>6. n \in Nat /\ a \in Nat /\ b \in Nat /\ c \in Nat /\ a <= b /\ b <= c /\ c <= n
  BY <1>5
<1>7. \A i \in 1 .. n : \/ /\ i <= a /\ i = 1
                           /\ es[i] = [kind |-> "root", value |-> Load!Lossy(s.root)]
                        \/ i > a /\ i <= b /\ i = b /\ es[i] = [kind |-> "marker", value |-> Marker]
                        \/ i > b /\ i <= c /\ es[i] = [kind |-> "name", value |-> names[i - b]]
                        \/ i > c /\ es[i] = [kind |-> "file", value |-> paths[i - c]]
  <2>1. SUFFICES ASSUME NEW i \in 1 .. n
                 PROVE  \/ /\ i <= a /\ i = 1
                           /\ es[i] = [kind |-> "root", value |-> Load!Lossy(s.root)]
                        \/ i > a /\ i <= b /\ i = b /\ es[i] = [kind |-> "marker", value |-> Marker]
                        \/ i > b /\ i <= c /\ es[i] = [kind |-> "name", value |-> names[i - b]]
                        \/ i > c /\ es[i] = [kind |-> "file", value |-> paths[i - c]]
    OBVIOUS
  <2>2. /\ i <= a => i = 1
        /\ i > a /\ i <= b => i = b
        /\ (i <= a \/ i > a) /\ (i <= b \/ i > b) /\ (i <= c \/ i > c)
        /\ (i > a <=> ~ (i <= a)) /\ (i > b <=> ~ (i <= b)) /\ (i > c <=> ~ (i <= c))
        /\ i > b => i > a
        /\ i > c => i > b
    BY <1>5, <1>6
  <2>3. QED BY <1>4, <2>2
<1>8. /\ \A i \in 1 .. n : i <= a => s.root # NoRoot
      /\ \A i \in 1 .. n : i > a /\ i <= b => s.policy # Unknown
      /\ \A i \in 1 .. n : i > b /\ i <= c => i - b \in 1 .. x /\ s.policy # Unknown
      /\ \A i \in 1 .. n : i > c => i - c \in 1 .. y
  BY <1>1, <1>5, <1>6
<1>9. ASSUME NEW i \in 1 .. n
      PROVE  /\ es[i] \in [kind : Kinds, value : Texts]
             /\ es[i].kind = "root" => s.root # NoRoot /\ es[i].value = Load!Lossy(s.root)
             /\ es[i].kind = "marker" => es[i].value = Marker /\ i = b /\ s.policy # Unknown
             /\ es[i].kind = "name" => s.policy # Unknown /\ es[i].value \in s.policy
             /\ es[i].kind = "file" => es[i].value \in DOMAIN s.files
  <2>1. CASE i <= a /\ i = 1 /\ es[i] = [kind |-> "root", value |-> Load!Lossy(s.root)]
    BY <1>3, <1>8, <2>1 DEF Kinds
  <2>2. CASE i > a /\ i <= b /\ i = b /\ es[i] = [kind |-> "marker", value |-> Marker]
    <3>1. Marker \in Texts
      BY CharactersAreNumbers, ShortTexts DEF Marker
    <3>2. QED BY <1>8, <2>2, <3>1 DEF Kinds
  <2>3. CASE i > b /\ i <= c /\ es[i] = [kind |-> "name", value |-> names[i - b]]
    <3>1. s.policy # Unknown /\ names[i - b] \in s.policy
      BY <1>1, <1>8, <2>3
    <3>2. QED BY <1>3, <2>3, <3>1 DEF Kinds
  <2>4. CASE i > c /\ es[i] = [kind |-> "file", value |-> paths[i - c]]
    <3>1. paths[i - c] \in DOMAIN s.files
      BY <1>2, <1>8, <2>4
    <3>2. QED BY <1>3, <2>4, <3>1 DEF Kinds
  <2>5. QED BY <1>7, <2>1, <2>2, <2>3, <2>4
<1>10. /\ s.root # NoRoot => 1 \in 1 .. n /\ es[1].kind = "root"
       /\ s.policy # Unknown => b \in 1 .. n /\ es[b].kind = "marker"
       /\ \A i \in 1 .. x : b + i \in 1 .. n /\ es[b + i] = [kind |-> "name", value |-> names[i]]
       /\ \A i \in 1 .. y : c + i \in 1 .. n /\ es[c + i] = [kind |-> "file", value |-> paths[i]]
  <2>1. ASSUME s.root # NoRoot
        PROVE  1 \in 1 .. n /\ es[1].kind = "root"
    <3>1. 1 \in 1 .. n /\ 1 <= a
      BY <1>5, <1>6, <2>1
    <3>2. es[1] = [kind |-> "root", value |-> Load!Lossy(s.root)]
      BY <1>4, <3>1
    <3>3. QED BY <3>1, <3>2
  <2>2. ASSUME s.policy # Unknown
        PROVE  b \in 1 .. n /\ es[b].kind = "marker"
    <3>1. b \in 1 .. n /\ ~ (b <= a) /\ b <= b
      BY <1>5, <1>6, <2>2
    <3>2. es[b] = [kind |-> "marker", value |-> Marker]
      BY <1>4, <3>1
    <3>3. QED BY <3>1, <3>2
  <2>3. ASSUME NEW i \in 1 .. x
        PROVE  b + i \in 1 .. n /\ es[b + i] = [kind |-> "name", value |-> names[i]]
    <3>1. b + i \in 1 .. n /\ ~ (b + i <= a) /\ ~ (b + i <= b) /\ ~ (b + i > c) /\ (b + i) - b = i
      BY <1>5, <1>6
    <3>2. QED BY <1>7, <3>1
  <2>4. ASSUME NEW i \in 1 .. y
        PROVE  c + i \in 1 .. n /\ es[c + i] = [kind |-> "file", value |-> paths[i]]
    <3>1. c + i \in 1 .. n /\ ~ (c + i <= a) /\ ~ (c + i <= b) /\ ~ (c + i <= c) /\ (c + i) - c = i
      BY <1>5, <1>6
    <3>2. QED BY <1>7, <3>1
  <2>5. QED BY <2>1, <2>2, <2>3, <2>4
<1>11. es \in Seq([kind : Kinds, value : Texts]) /\ Len(es) = n
  <2> DEFINE R == [kind : Kinds, value : Texts]
  <2>1. DOMAIN es = 1 .. n /\ es = [i \in 1 .. n |-> es[i]] /\ \A i \in 1 .. n : es[i] \in R
    BY <1>4, <1>9
  <2> HIDE DEF R
  <2>2. es \in [1 .. n -> R]
    BY <2>1
  <2>3. es \in Seq(R)
    BY <1>6, <2>2
  <2>4. Len(es) = n
    BY <1>6, <2>1, <2>3, LenProperties
  <2>5. QED BY <2>3, <2>4 DEF R
<1>12. /\ Of(es, n, "root") = {} <=> s.root = NoRoot
       /\ Of(es, n, "marker") = {} <=> s.policy = Unknown
  <2>1. \A kind : Of(es, n, kind) = {} <=> \A i \in 1 .. n : es[i].kind # kind
    BY DEF Of
  <2>2. Of(es, n, "root") = {} <=> s.root = NoRoot
    BY <1>9, <1>10, <2>1
  <2>3. Of(es, n, "marker") = {} <=> s.policy = Unknown
    BY <1>9, <1>10, <2>1
  <2>4. QED BY <2>2, <2>3
<1>13. Of(es, n, "name") = IF s.policy = Unknown THEN {} ELSE s.policy
  <2>1. \A v \in Of(es, n, "name") : s.policy # Unknown /\ v \in s.policy
    BY <1>9 DEF Of
  <2>2. ASSUME s.policy # Unknown, NEW v \in s.policy
        PROVE  v \in Of(es, n, "name")
    <3>1. PICK i \in 1 .. x : names[i] = v
      BY <1>1, <2>2
    <3> DEFINE j == b + i
    <3>2. j \in 1 .. n /\ es[j] = [kind |-> "name", value |-> names[i]]
      BY <1>10
    <3> HIDE DEF j
    <3>3. es[j].kind = "name" /\ es[j].value = v
      BY <3>1, <3>2
    <3>4. QED BY <3>2, <3>3 DEF Of
  <2>3. QED BY <2>1, <2>2
<1>14. Of(es, n, "file") = DOMAIN s.files
  <2>1. \A v \in Of(es, n, "file") : v \in DOMAIN s.files
    BY <1>9 DEF Of
  <2>2. ASSUME NEW v \in DOMAIN s.files
        PROVE  v \in Of(es, n, "file")
    <3>1. PICK i \in 1 .. y : paths[i] = v
      BY <1>2
    <3> DEFINE j == c + i
    <3>2. j \in 1 .. n /\ es[j] = [kind |-> "file", value |-> paths[i]]
      BY <1>10
    <3> HIDE DEF j
    <3>3. es[j].kind = "file" /\ es[j].value = v
      BY <3>1, <3>2
    <3>4. QED BY <3>2, <3>3 DEF Of
  <2>3. QED BY <2>1, <2>2
<1>15. QED BY <1>6, <1>9, <1>11, <1>12, <1>13, <1>14 DEF es
-----------------------------------------------------------------------------
\* What the text of a snapshot is put together of.
Header == <<Load!IndexHeader, Load!LineFeed>>

LEMMA SumAfterOne ==
  ASSUME NEW seqs \in Seq(Texts), NEW g, Sums(g, seqs), NEW i \in 1 .. Len(seqs)
  PROVE  g[i] = g[i - 1] \o seqs[i] /\ g[i - 1] \in Texts /\ g[i] \in Texts
<1>1. i - 1 \in 0 .. Len(seqs) /\ i \in 0 .. Len(seqs)
  OBVIOUS
<1>2. QED BY <1>1 DEF Sums

LEMMA EntryIs ==
  ASSUME NEW s, IsSnapshot(s), NEW i \in 1 .. Len(Entries(s))
  PROVE  LET e == Entries(s)[i]
         IN  /\ e.kind \in Kinds /\ e.value \in Texts
             /\ e.kind = "file" => /\ e.value \in DOMAIN s.files
                                   /\ s.files[e.value] \in FileData
                                   /\ s.files[e.value].size \in Nat
                                   /\ s.files[e.value].time \in Nat
                                   /\ Load!Normalized(e.value) = e.value
             /\ KeyOf(e.kind) \in Nat
<1> DEFINE e == Entries(s)[i]
<1>1. /\ e \in [kind : Kinds, value : Texts]
      /\ e.kind = "file" => e.value \in DOMAIN s.files
  BY EntriesAre
<1> HIDE DEF e
<1>2. e.kind \in Kinds /\ e.value \in Texts
  BY <1>1
<1>3. \A p \in DOMAIN s.files : s.files[p] \in FileData /\ Load!Normalized(p) = p
  <2>1. s.files \in [DOMAIN s.files -> FileData]
    BY SnapshotIs
  <2>2. QED BY <2>1, SnapshotIs
<1>4. \A d \in FileData : d.size \in Nat /\ d.time \in Nat
  BY DEF FileData
<1>5. KeyOf(e.kind) \in Nat
  BY CharactersAreNumbers DEF KeyOf
<1>6. QED BY <1>1, <1>2, <1>3, <1>4, <1>5 DEF e

LEMMA BodyIsText ==
  ASSUME NEW s, IsSnapshot(s), NEW i \in 1 .. Len(Entries(s))
  PROVE  Body(s, Entries(s)[i]) \in Texts
<1> DEFINE e == Entries(s)[i]
<1>1. /\ e.value \in Texts /\ KeyOf(e.kind) \in Nat
      /\ e.kind = "file" => s.files[e.value].size \in Nat /\ s.files[e.value].time \in Nat
  BY EntryIs
<1> HIDE DEF e
<1>2. CASE e.kind = "file"
  <2>1. Load!Number(s.files[e.value].size) \in Nat /\ Load!Number(s.files[e.value].time) \in Nat
    BY <1>1, <1>2, CharactersAreNumbers
  <2>2. QED BY <1>1, <1>2, <2>1, FieldedIs DEF Body, e
<1>3. CASE e.kind # "file"
  <2>1. Load!Meta \in Nat /\ Load!Escaped(e.value) \in Texts
    BY <1>1, CharactersAreNumbers, EscapedIsText
  <2>2. QED BY <1>1, <1>3, <2>1, FieldedIs DEF Body, e
<1>4. QED BY <1>2, <1>3

LEMMA WrittenAreTexts ==
  ASSUME NEW s, IsSnapshot(s)
  PROVE  /\ Written(s) \in Seq(Texts) /\ Len(Written(s)) = Len(Entries(s))
         /\ \A i \in 1 .. Len(Entries(s)) :
               Written(s)[i] = Body(s, Entries(s)[i]) \o <<Load!LineFeed>>
<1> DEFINE n == Len(Entries(s))
           F(i) == Body(s, Entries(s)[i]) \o <<Load!LineFeed>>
<1>1. n \in Nat
  BY EntriesAre
<1>2. \A i \in 1 .. n : F(i) \in Texts
  <2>1. <<Load!LineFeed>> \in Texts
    BY CharactersAreNumbers, ShortTexts
  <2>2. QED BY <2>1, BodyIsText, ConcatText
<1>3. Written(s) = [i \in 1 .. n |-> F(i)]
  BY DEF Written
<1> HIDE DEF F, n
<1>4. [i \in 1 .. n |-> F(i)] \in Seq(Texts) /\ Len([i \in 1 .. n |-> F(i)]) = n
  BY <1>1, <1>2
<1>5. QED BY <1>3, <1>4 DEF F, n

LEMMA SavedIsSum ==
  ASSUME NEW s, IsSnapshot(s), NEW g, Sums(g, Written(s)), g[0] = Header
  PROVE  g[Len(Entries(s))] = Load!Saved(s)
<1> DEFINE es == Entries(s)
           W == Written(s)
           names == NamesOf(s)
           paths == PathsOf(s)
           a == IF s.root = NoRoot THEN 0 ELSE 1
           b == a + (IF s.policy = Unknown THEN 0 ELSE 1)
           c == b + Len(names)
           n == c + Len(paths)
           rootLine == IF s.root = NoRoot THEN <<>>
                       ELSE Load!MetadataRecord(Load!RootKey, Load!Lossy(s.root))
           policyLine == IF s.policy = Unknown THEN <<>>
                         ELSE Load!MetadataRecord(Load!ScanPolicyKey, <<Load!Number(1)>>)
           nameLines == [i \in DOMAIN names |->
                            Load!MetadataRecord(Load!ExcludeNameKey, names[i])]
           fileLines == [i \in DOMAIN paths |-> Load!FileRecord(paths[i], s.files[paths[i]])]
           Line(e) == Body(s, e) \o <<Load!LineFeed>>
<1>1. PICK x \in Nat : /\ Len(names) = x /\ DOMAIN names = 1 .. x
                       /\ s.policy = Unknown => x = 0
                       /\ s.policy # Unknown => names \in [1 .. x -> s.policy]
  BY SnapshotIs
<1>2. PICK y \in Nat : Len(paths) = y /\ paths \in [1 .. y -> DOMAIN s.files]
  BY SnapshotIs
<1>3. /\ s.root # NoRoot => Load!Lossy(s.root) \in Texts
      /\ s.policy # Unknown => s.policy \in SUBSET Texts
      /\ DOMAIN s.files \in SUBSET Texts /\ s.files \in [DOMAIN s.files -> FileData]
  BY SnapshotIs
<1>4. es = [i \in 1 .. n |-> IF i <= a THEN [kind |-> "root", value |-> Load!Lossy(s.root)]
                             ELSE IF i <= b THEN [kind |-> "marker", value |-> Marker]
                             ELSE IF i <= c THEN [kind |-> "name", value |-> names[i - b]]
                             ELSE [kind |-> "file", value |-> paths[i - c]]]
  BY DEF Entries
<1>5. /\ W \in Seq(Texts) /\ Len(W) = Len(es) /\ \A i \in 1 .. Len(es) : W[i] = Line(es[i])
      /\ Sums(g, W)
  BY WrittenAreTexts
<1>6. Load!Saved(s) = Header \o rootLine \o policyLine
                      \o Load!FlattenSeq(nameLines) \o Load!FlattenSeq(fileLines)
  BY DEF Load!Saved, Header, NamesOf, PathsOf
<1>7. /\ \A k \in {"root", "marker", "name"} : \A v :
            Line([kind |-> k, value |-> v]) = Load!MetadataRecord(KeyOf(k), v)
      /\ \A v : Line([kind |-> "file", value |-> v]) = Load!FileRecord(v, s.files[v])
  BY DEF Body, Fielded, Load!MetadataRecord, Load!FileRecord
<1>8. KeyOf("root") = Load!RootKey /\ KeyOf("marker") = Load!ScanPolicyKey
      /\ KeyOf("name") = Load!ExcludeNameKey
  BY DEF KeyOf
<1>9. nameLines \in Seq(Texts) /\ Len(nameLines) = x
      /\ \A i \in 1 .. x : nameLines[i] = Load!MetadataRecord(Load!ExcludeNameKey, names[i])
  <2>1. ASSUME NEW i \in 1 .. x
        PROVE  Load!MetadataRecord(Load!ExcludeNameKey, names[i]) \in Texts
    <3>1. s.policy # Unknown /\ names[i] \in Texts
      BY <1>1, <1>3
    <3>2. QED BY <3>1, RecordsAreTexts, CharactersAreNumbers
  <2> HIDE DEF names
  <2>2. QED BY <1>1, <2>1
<1>10. fileLines \in Seq(Texts) /\ Len(fileLines) = y
       /\ \A i \in 1 .. y : fileLines[i] = Load!FileRecord(paths[i], s.files[paths[i]])
  <2>1. ASSUME NEW i \in 1 .. y
        PROVE  Load!FileRecord(paths[i], s.files[paths[i]]) \in Texts
    <3>1. paths[i] \in Texts /\ s.files[paths[i]] \in FileData
      BY <1>2, <1>3
    <3>2. QED BY <3>1, RecordsAreTexts
  <2> HIDE DEF paths
  <2>2. QED BY <1>2, <2>1
<1> HIDE DEF es, W, names, paths, nameLines, fileLines, Line
<1>11. /\ a \in {0, 1} /\ (a = 1 <=> s.root # NoRoot)
       /\ b \in {a, a + 1} /\ (b = a + 1 <=> s.policy # Unknown)
       /\ c = b + x /\ n = c + y
  BY <1>1, <1>2
<1> HIDE DEF a, b, c, n
<1>12. n \in Nat /\ a \in Nat /\ b \in Nat /\ c \in Nat /\ a <= b /\ b <= c /\ c <= n
  BY <1>11
<1>13. Len(es) = n /\ Len(W) = n
  <2>1. Len(es) \in Nat /\ DOMAIN es = 1 .. Len(es)
    <3>1. Len(es) \in Nat /\ es \in Seq([kind : Kinds, value : Texts])
      BY EntriesAre DEF es
    <3>2. QED BY <3>1, LenProperties
  <2>2. DOMAIN es = 1 .. n
    BY <1>4
  <2>3. Len(es) = n
    <3> DEFINE m == Len(es)
    <3>1. 1 .. m = 1 .. n /\ m \in Nat
      BY <2>1, <2>2
    <3> HIDE DEF m
    <3>2. m = n
      BY <1>12, <3>1
    <3>3. QED BY <3>2 DEF m
  <2>4. QED BY <1>5, <2>3
<1>14. rootLine \in Texts /\ policyLine \in Texts /\ Header \in Texts
  <2>1. Marker \in Texts /\ Header \in Texts /\ Marker = <<Load!Number(1)>>
    BY CharactersAreNumbers, ShortTexts DEF Marker, Header
  <2>2. QED BY <1>3, <2>1, RecordsAreTexts, CharactersAreNumbers, ShortTexts
<1>15. g[a] = Header \o rootLine
  <2>1. CASE s.root = NoRoot
    <3>1. a = 0 /\ rootLine = <<>> /\ Header \o <<>> = Header
      BY <1>11, <1>14, <2>1, ConcatNothing
    <3>2. QED BY <3>1
  <2>2. CASE s.root # NoRoot
    <3>1. a = 1 /\ 1 \in 1 .. n /\ 1 <= a /\ 1 - 1 = 0
      BY <1>11, <1>12, <2>2
    <3>2. es[1] = [kind |-> "root", value |-> Load!Lossy(s.root)]
      BY <1>4, <3>1
    <3>3. W[1] = Load!MetadataRecord(Load!RootKey, Load!Lossy(s.root))
      BY <1>5, <1>7, <1>8, <1>13, <3>1, <3>2
    <3>4. g[1] = g[1 - 1] \o W[1]
      <4>1. 1 \in 1 .. Len(W)
        BY <1>13, <3>1
      <4>2. QED BY <1>5, <4>1, SumAfterOne
    <3>5. QED BY <2>2, <3>1, <3>3, <3>4
  <2>3. QED BY <2>1, <2>2
<1>16. g[b] = g[a] \o policyLine
  <2>1. CASE s.policy = Unknown
    <3>1. b = a /\ policyLine = <<>> /\ Header \o rootLine \in Texts
      BY <1>11, <1>12, <1>14, <2>1, ConcatText
    <3>2. (Header \o rootLine) \o <<>> = Header \o rootLine
      BY <3>1, ConcatNothing
    <3>3. QED BY <1>15, <3>1, <3>2
  <2>2. CASE s.policy # Unknown
    <3>1. b = a + 1 /\ b \in 1 .. n /\ ~ (b <= a) /\ b <= b /\ b - 1 = a
      BY <1>11, <1>12, <2>2
    <3>2. es[b] = [kind |-> "marker", value |-> Marker]
      BY <1>4, <3>1
    <3>3. W[b] = Load!MetadataRecord(Load!ScanPolicyKey, <<Load!Number(1)>>)
      BY <1>5, <1>7, <1>8, <1>13, <3>1, <3>2 DEF Marker
    <3>4. g[b] = g[b - 1] \o W[b]
      <4>1. b \in 1 .. Len(W)
        BY <1>13, <3>1
      <4>2. QED BY <1>5, <4>1, SumAfterOne
    <3>5. QED BY <2>2, <3>1, <3>3, <3>4
  <2>3. QED BY <2>1, <2>2
<1>17. g[c] = g[b] \o Load!FlattenSeq(nameLines)
  <2>1. \A i \in 1 .. x : W[b + i] = nameLines[i]
    <3>1. SUFFICES ASSUME NEW i \in 1 .. x
                   PROVE  W[b + i] = nameLines[i]
      OBVIOUS
    <3> DEFINE j == b + i
    <3>2. j \in 1 .. n /\ ~ (j <= a) /\ ~ (j <= b) /\ j <= c /\ j - b = i
      BY <1>11, <1>12
    <3> HIDE DEF j
    <3>3. es[j] = [kind |-> "name", value |-> names[i]]
      BY <1>4, <3>2
    <3>4. W[j] = Load!MetadataRecord(Load!ExcludeNameKey, names[i])
      BY <1>5, <1>7, <1>8, <1>13, <3>2, <3>3
    <3>5. QED BY <1>9, <3>4 DEF j
  <2>2. b + Len(nameLines) <= Len(W) /\ b + Len(nameLines) = c
        /\ \A i \in 1 .. Len(nameLines) : W[b + i] = nameLines[i]
    BY <1>9, <1>11, <1>12, <1>13, <2>1
  <2>3. g[b + Len(nameLines)] = g[b] \o Load!FlattenSeq(nameLines)
    <3>1. nameLines \in Seq(Texts) /\ W \in Seq(Texts) /\ Sums(g, W) /\ b \in Nat
      BY <1>5, <1>9, <1>12
    <3>2. QED BY <2>2, <3>1, SumOfRun, Zenon
  <2>4. QED BY <2>2, <2>3
<1>18. g[n] = g[c] \o Load!FlattenSeq(fileLines)
  <2>1. \A i \in 1 .. y : W[c + i] = fileLines[i]
    <3>1. SUFFICES ASSUME NEW i \in 1 .. y
                   PROVE  W[c + i] = fileLines[i]
      OBVIOUS
    <3> DEFINE j == c + i
    <3>2. j \in 1 .. n /\ ~ (j <= a) /\ ~ (j <= b) /\ ~ (j <= c) /\ j - c = i
      BY <1>11, <1>12
    <3> HIDE DEF j
    <3>3. es[j] = [kind |-> "file", value |-> paths[i]]
      BY <1>4, <3>2
    <3>4. W[j] = Load!FileRecord(paths[i], s.files[paths[i]])
      BY <1>5, <1>7, <1>13, <3>2, <3>3
    <3>5. QED BY <1>10, <3>4 DEF j
  <2>2. c + Len(fileLines) <= Len(W) /\ c + Len(fileLines) = n
        /\ \A i \in 1 .. Len(fileLines) : W[c + i] = fileLines[i]
    BY <1>10, <1>11, <1>12, <1>13, <2>1
  <2>3. g[c + Len(fileLines)] = g[c] \o Load!FlattenSeq(fileLines)
    <3>1. fileLines \in Seq(Texts) /\ W \in Seq(Texts) /\ Sums(g, W) /\ c \in Nat
      BY <1>5, <1>10, <1>12
    <3>2. QED BY <2>2, <3>1, SumOfRun, Zenon
  <2>4. QED BY <2>2, <2>3
<1>19. QED BY <1>6, <1>13, <1>15, <1>16, <1>17, <1>18 DEF es
-----------------------------------------------------------------------------
\* How a line that has been written is read.
LEMMA Codes ==
  /\ Load!Meta # Load!Tab /\ Load!Meta # Load!LineFeed /\ Load!Meta # Load!Return
  /\ Load!IndexHeader # Load!LineFeed /\ Load!IndexHeader # Load!Return
  /\ Load!Tab # Load!LineFeed /\ Load!Tab # Load!Return
  /\ \A kind : /\ KeyOf(kind) # Load!Tab /\ KeyOf(kind) # Load!LineFeed
               /\ KeyOf(kind) # Load!Return
  /\ \A n \in Nat : /\ Load!Number(n) # Load!Tab /\ Load!Number(n) # Load!LineFeed
                    /\ Load!Number(n) # Load!Return /\ Load!Number(n) # Load!Meta
                    /\ Load!Number(n) # Load!Backslash
                    /\ Load!Parsed(<<Load!Number(n)>>) = n
<1>1. \A kind : KeyOf(kind) \in {Load!RootKey, Load!ScanPolicyKey, Load!ExcludeNameKey}
  BY DEF KeyOf
<1>2. \A k \in {Load!RootKey, Load!ScanPolicyKey, Load!ExcludeNameKey} :
         k # Load!Tab /\ k # Load!LineFeed /\ k # Load!Return
  BY DEF Load!RootKey, Load!ScanPolicyKey, Load!ExcludeNameKey, Load!Tab, Load!LineFeed,
         Load!Return
<1>3. ASSUME NEW n \in Nat
      PROVE  Load!Parsed(<<Load!Number(n)>>) = n
  <2>1. Len(<<Load!Number(n)>>) = 1 /\ <<Load!Number(n)>>[1] = Load!Number(n)
    OBVIOUS
  <2>2. Load!Number(n) >= Load!Number(0) /\ Load!Number(n) - Load!Number(0) = n
    BY DEF Load!Number
  <2>3. QED BY <2>1, <2>2 DEF Load!Parsed
<1>4. \A n \in Nat : /\ Load!Number(n) # Load!Tab /\ Load!Number(n) # Load!LineFeed
                     /\ Load!Number(n) # Load!Return /\ Load!Number(n) # Load!Meta
                     /\ Load!Number(n) # Load!Backslash
  BY DEF Load!Number, Load!Tab, Load!LineFeed, Load!Return, Load!Meta, Load!Backslash
<1>5. /\ Load!Meta # Load!Tab /\ Load!Meta # Load!LineFeed /\ Load!Meta # Load!Return
      /\ Load!IndexHeader # Load!LineFeed /\ Load!IndexHeader # Load!Return
      /\ Load!Tab # Load!LineFeed /\ Load!Tab # Load!Return
  BY DEF Load!Meta, Load!Tab, Load!LineFeed, Load!Return, Load!IndexHeader
<1>6. QED BY <1>1, <1>2, <1>3, <1>4, <1>5

LEMMA FieldedKeeps ==
  ASSUME NEW x \in Nat, NEW y \in Nat, NEW rest \in Texts, KeepsToLine(rest),
         x # Load!LineFeed, y # Load!LineFeed
  PROVE  KeepsToLine(Fielded(x, y, rest))
<1> DEFINE line == Fielded(x, y, rest)
           m == Len(rest)
<1>1. /\ line \in Texts /\ m \in Nat /\ Len(line) = 4 + m
      /\ line[1] = x /\ line[2] = Load!Tab /\ line[3] = y /\ line[4] = Load!Tab
      /\ \A i \in 1 .. m : line[4 + i] = rest[i]
  BY FieldedIs
<1> HIDE DEF line
<1>2. \A i \in 1 .. m : rest[i] # Load!LineFeed
  BY DEF KeepsToLine, Has
<1>3. rest = <<>> \/ rest[m] # Load!Return
  BY DEF KeepsToLine
<1>4. m = 0 => rest = <<>>
  BY EmptySeq DEF Texts
<1>5. rest = <<>> => m = 0
  OBVIOUS
<1> HIDE DEF m
<1>6. ~ Has(line, Load!LineFeed)
  <2>1. SUFFICES ASSUME NEW i \in 1 .. Len(line), line[i] = Load!LineFeed
                 PROVE  FALSE
    BY DEF Has
  <2>2. i \in {1, 2, 3, 4} \/ (i - 4 \in 1 .. m /\ 4 + (i - 4) = i)
    BY <1>1
  <2>3. i - 4 \in 1 .. m /\ 4 + (i - 4) = i => line[i] = rest[i - 4]
    BY <1>1
  <2>4. QED BY <1>1, <1>2, <2>1, <2>2, <2>3, Codes
<1>7. line[Len(line)] # Load!Return
  <2>1. CASE m = 0
    <3>1. Len(line) = 4
      BY <1>1, <2>1
    <3>2. QED BY <1>1, <3>1, Codes
  <2>2. CASE m # 0
    <3>1. m \in 1 .. m
      BY <1>1, <2>2
    <3>2. line[4 + m] = rest[m] /\ rest # <<>>
      BY <1>1, <1>5, <2>2, <3>1
    <3>3. QED BY <1>1, <1>3, <3>2
  <2>3. QED BY <2>1, <2>2
<1>8. QED BY <1>6, <1>7 DEF KeepsToLine, line

LEMMA EscapedKeeps ==
  ASSUME NEW value \in Texts
  PROVE  Load!Escaped(value) \in Texts /\ KeepsToLine(Load!Escaped(value))
<1> DEFINE e == Load!Escaped(value)
<1>1. e \in Texts /\ ~ Has(e, Load!LineFeed) /\ ~ Has(e, Load!Return)
  BY EscapedIsText, EscapedFits
<1> HIDE DEF e
<1>2. e = <<>> \/ e[Len(e)] # Load!Return
  <2>1. SUFFICES ASSUME e # <<>>
                 PROVE  e[Len(e)] # Load!Return
    OBVIOUS
  <2>2. Len(e) \in 1 .. Len(e)
    <3>1. Len(e) \in Nat /\ Len(e) # 0
      BY <1>1, <2>1, EmptySeq DEF Texts
    <3>2. QED BY <3>1
  <2>3. QED BY <1>1, <2>2 DEF Has
<1>3. QED BY <1>1, <1>2 DEF KeepsToLine, e

LEMMA FittingKeeps ==
  ASSUME NEW path \in Texts, Load!FitsLine(path)
  PROVE  KeepsToLine(path)
<1>1. DOMAIN path = 1 .. Len(path)
  BY DEF Texts
<1>2. /\ Load!LineFeed \notin {path[i] : i \in DOMAIN path}
      /\ path = <<>> \/ path[Len(path)] # Load!Return
  BY DEF Load!FitsLine, Load!ToSet, Load!Last
<1>3. QED BY <1>1, <1>2 DEF KeepsToLine, Has

LEMMA MarkerIsRead == Load!Escaped(Marker) = Marker
<1>1. Marker \in Texts /\ Len(Marker) = 1 /\ Marker[1] = Load!Number(1) /\ 1 \in Nat
  BY CharactersAreNumbers, ShortTexts DEF Marker
<1>2. Load!EscapedCharacter(Load!Number(1)) = <<Load!Number(1)>>
  BY DEF Load!EscapedCharacter, Load!Number, Load!Backslash, Load!Tab, Load!LineFeed, Load!Return
<1>3. PICK g : Writes(g, Marker) /\ Load!Escaped(Marker) = g[1]
  BY <1>1, EscapedIs
<1> DEFINE seqs == [i \in 1 .. Len(Marker) |-> Load!EscapedCharacter(Marker[i])]
<1>4. Sums(g, seqs) /\ g[0] = <<>>
  BY <1>3 DEF Writes
<1>5. Len(seqs) = 1 /\ seqs[1] = Marker /\ 1 \in 1 .. 1 /\ 1 - 1 = 0
  BY <1>1, <1>2 DEF Marker
<1> HIDE DEF seqs
<1>6. g[1] = g[1 - 1] \o seqs[1]
  BY <1>4, <1>5 DEF Sums
<1>7. g[1] = <<>> \o Marker
  BY <1>4, <1>5, <1>6
<1>8. <<>> \o Marker = Marker
  BY <1>1, ConcatNothing
<1>9. QED BY <1>3, <1>7, <1>8

LEMMA BodyIs ==
  ASSUME NEW s, IsSnapshot(s), NEW i \in 1 .. Len(Entries(s))
  PROVE  LET e == Entries(s)[i]
             line == Body(s, e)
         IN  /\ line \in Texts /\ line # <<>> /\ Len(Load!Parts(line)) = 3
             /\ (e.kind = "file" => Load!FitsLine(e.value)) => KeepsToLine(line)
             /\ e.kind = "file" =>
                   /\ ~ Load!IsAnyMetadata(line) /\ \A key : ~ Load!IsMetadata(line, key)
                   /\ Load!Parsed(Load!Part(line, 1)) = s.files[e.value].size
                   /\ Load!Parsed(Load!Part(line, 2)) = s.files[e.value].time
                   /\ Load!Part(line, 3) = e.value
             /\ e.kind # "file" =>
                   /\ Load!IsAnyMetadata(line)
                   /\ \A key : Load!IsMetadata(line, key) <=> key = KeyOf(e.kind)
                   /\ Load!Part(line, 3) = Load!Escaped(e.value)
<1> DEFINE e == Entries(s)[i]
           line == Body(s, e)
           Good == /\ line # <<>> /\ Len(Load!Parts(line)) = 3
                   /\ (e.kind = "file" => Load!FitsLine(e.value)) => KeepsToLine(line)
                   /\ e.kind = "file" =>
                         /\ ~ Load!IsAnyMetadata(line) /\ \A key : ~ Load!IsMetadata(line, key)
                         /\ Load!Parsed(Load!Part(line, 1)) = s.files[e.value].size
                         /\ Load!Parsed(Load!Part(line, 2)) = s.files[e.value].time
                         /\ Load!Part(line, 3) = e.value
                   /\ e.kind # "file" =>
                         /\ Load!IsAnyMetadata(line)
                         /\ \A key : Load!IsMetadata(line, key) <=> key = KeyOf(e.kind)
                         /\ Load!Part(line, 3) = Load!Escaped(e.value)
<1>1. /\ e.value \in Texts /\ KeyOf(e.kind) \in Nat
      /\ e.kind = "file" => s.files[e.value].size \in Nat /\ s.files[e.value].time \in Nat
  BY EntryIs
<1>2. line \in Texts
  BY BodyIsText
<1> HIDE DEF e
<1>3. \A x \in Nat, y \in Nat, rest \in Texts : Fielded(x, y, rest) # <<>>
  <2>1. SUFFICES ASSUME NEW x \in Nat, NEW y \in Nat, NEW rest \in Texts
                 PROVE  Fielded(x, y, rest) # <<>>
    OBVIOUS
  <2>2. Len(Fielded(x, y, rest)) = 4 + Len(rest) /\ Len(rest) \in Nat
    BY FieldedIs
  <2>3. Len(Fielded(x, y, rest)) # 0 /\ Len(<<>>) = 0
    BY <2>2
  <2>4. QED BY <2>3
<1>4. ASSUME e.kind = "file"
      PROVE  Good
  <2> DEFINE x == Load!Number(s.files[e.value].size)
             y == Load!Number(s.files[e.value].time)
  <2>1. /\ x \in Nat /\ y \in Nat /\ x # Load!Tab /\ y # Load!Tab
        /\ x # Load!LineFeed /\ y # Load!LineFeed /\ x # Load!Meta
        /\ Load!Parsed(<<x>>) = s.files[e.value].size
        /\ Load!Parsed(<<y>>) = s.files[e.value].time
    BY <1>1, <1>4, CharactersAreNumbers, Codes
  <2>2. line = Fielded(x, y, e.value)
    BY <1>4 DEF Body
  <2> HIDE DEF x, y, line
  <2>3. line # <<>>
    BY <1>1, <1>3, <2>1, <2>2
  <2>4. /\ Len(Load!Parts(line)) = 3
        /\ Load!Part(line, 1) = <<x>> /\ Load!Part(line, 2) = <<y>>
        /\ Load!Part(line, 3) = e.value
        /\ Load!IsAnyMetadata(line) <=> x = Load!Meta
        /\ \A key : Load!IsMetadata(line, key) <=> x = Load!Meta /\ key = y
    <3> DEFINE v == e.value
    <3>1. v \in Texts
      BY <1>1
    <3> HIDE DEF v
    <3>2. /\ Len(Load!Parts(Fielded(x, y, v))) = 3
          /\ Load!Part(Fielded(x, y, v), 1) = <<x>> /\ Load!Part(Fielded(x, y, v), 2) = <<y>>
          /\ Load!Part(Fielded(x, y, v), 3) = v
          /\ Load!IsAnyMetadata(Fielded(x, y, v)) <=> x = Load!Meta
          /\ \A key : Load!IsMetadata(Fielded(x, y, v), key) <=> x = Load!Meta /\ key = y
      BY <2>1, <3>1, PartsOfFields
    <3>3. QED BY <2>2, <3>2 DEF v
  <2>5. Load!FitsLine(e.value) => KeepsToLine(line)
    BY <1>1, <2>1, <2>2, FieldedKeeps, FittingKeeps
  <2>6. QED BY <1>4, <2>1, <2>3, <2>4, <2>5
<1>5. ASSUME e.kind # "file"
      PROVE  Good
  <2> DEFINE x == Load!Meta
             y == KeyOf(e.kind)
             v == Load!Escaped(e.value)
  <2>1. /\ x \in Nat /\ y \in Nat /\ x # Load!Tab /\ y # Load!Tab
        /\ x # Load!LineFeed /\ y # Load!LineFeed /\ v \in Texts /\ KeepsToLine(v)
        /\ x = Load!Meta /\ y = KeyOf(e.kind) /\ v = Load!Escaped(e.value)
    BY <1>1, CharactersAreNumbers, Codes, EscapedKeeps
  <2>2. line = Fielded(x, y, v)
    BY <1>5 DEF Body
  <2> HIDE DEF x, y, v, line
  <2>3. line # <<>>
    BY <1>3, <2>1, <2>2
  <2>4. /\ Len(Load!Parts(line)) = 3
        /\ Load!Part(line, 3) = v
        /\ Load!IsAnyMetadata(line) <=> x = Load!Meta
        /\ \A key : Load!IsMetadata(line, key) <=> x = Load!Meta /\ key = y
    BY <2>1, <2>2, PartsOfFields
  <2>5. KeepsToLine(line)
    BY <2>1, <2>2, FieldedKeeps
  <2>6. QED BY <1>5, <2>1, <2>3, <2>4, <2>5
<1>6. Good
  BY <1>4, <1>5
<1>7. QED BY <1>2, <1>6 DEF e
-----------------------------------------------------------------------------
\* Where the loader finds the lines of a snapshot that it is at.
LEMMA HeaderThere ==
  ASSUME NEW s, IsSnapshot(s), text = Load!Saved(s)
  PROVE  /\ 0 < Len(text) /\ Load!LineAfter(0) = <<Load!IndexHeader>>
         /\ \E g : /\ Sums(g, Written(s)) /\ g[0] = Header /\ Load!LineEnd(0) = Len(g[0])
<1>1. Written(s) \in Seq(Texts) /\ Len(Written(s)) = Len(Entries(s)) /\ Header \in Texts
  BY WrittenAreTexts, CharactersAreNumbers, ShortTexts DEF Header
<1>2. PICK g : Sums(g, Written(s)) /\ g[0] = Header
  BY <1>1, SumsExist
<1>3. g[Len(Entries(s))] = text
  BY <1>2, SavedIsSum
<1>4. PICK c \in Texts : text = Header \o c
  <2>1. 0 \in 0 .. Len(Written(s))
    BY <1>1
  <2>2. \E c \in Texts : g[Len(Written(s))] = g[0] \o c
    BY <1>1, <1>2, <2>1, SumBegins
  <2>3. QED BY <1>1, <1>2, <1>3, <2>2
<1> DEFINE body == <<Load!IndexHeader>>
<1>5. body \in Texts /\ KeepsToLine(body) /\ body \o <<Load!LineFeed>> = Header
  <2>1. body \in Texts /\ Len(body) = 1 /\ body[1] = Load!IndexHeader
    BY CharactersAreNumbers, ShortTexts
  <2>2. KeepsToLine(body)
    BY <2>1, Codes DEF KeepsToLine, Has
  <2>3. body \o <<Load!LineFeed>> = Header
    <3> DEFINE end == <<Load!LineFeed>>
    <3>1. end \in Texts /\ Len(end) = 1 /\ end[1] = Load!LineFeed /\ 1 \in 1 .. 1
      BY CharactersAreNumbers, ShortTexts
    <3> HIDE DEF end, body
    <3>2. /\ body \o end \in Texts /\ Len(body \o end) = Len(body) + Len(end)
          /\ \A i \in 1 .. Len(body) : (body \o end)[i] = body[i]
          /\ \A i \in 1 .. Len(end) : (body \o end)[Len(body) + i] = end[i]
      BY <2>1, <3>1, ConcatIs
    <3>3. Len(body \o end) = 2 /\ (body \o end)[1] = Load!IndexHeader
          /\ (body \o end)[2] = Load!LineFeed
      <4>1. 1 + 1 = 2
        OBVIOUS
      <4>2. QED BY <2>1, <3>1, <3>2, <4>1
    <3>4. Len(Header) = 2 /\ Header[1] = Load!IndexHeader /\ Header[2] = Load!LineFeed
      BY DEF Header
    <3>5. \A i \in 1 .. 2 : i = 1 \/ i = 2
      OBVIOUS
    <3>6. body \o end = Header
      <4>1. body \o end \in Seq(Nat) /\ Header \in Seq(Nat)
        BY <1>1, <3>2 DEF Texts
      <4>2. /\ Len(body \o end) = Len(Header)
            /\ \A i \in 1 .. Len(body \o end) : (body \o end)[i] = Header[i]
        BY <3>3, <3>4, <3>5
      <4>3. QED BY <4>1, <4>2, SeqEqual
    <3>7. QED BY <3>6 DEF end
  <2>4. QED BY <2>1, <2>2, <2>3
<1> HIDE DEF body
<1>6. <<>> \o Header = Header /\ <<>> \in Texts /\ Len(<<>>) = 0
  BY <1>1, ConcatNothing, ShortTexts
<1>7. text = (<<>> \o (body \o <<Load!LineFeed>>)) \o c
  BY <1>4, <1>5, <1>6
<1>8. /\ Len(<<>>) < Len(text)
      /\ Load!LineEnd(Len(<<>>)) = Len(<<>> \o (body \o <<Load!LineFeed>>))
      /\ Load!LineAfter(Len(<<>>)) = body
  BY <1>5, <1>6, <1>7, LineThere
<1>9. QED BY <1>2, <1>5, <1>6, <1>8 DEF body

LEMMA EntryThere ==
  ASSUME NEW s, IsSnapshot(s), text = Load!Saved(s),
         NEW g, Sums(g, Written(s)), g[0] = Header, NEW k \in 0 .. Len(Entries(s))
  PROVE  /\ k = Len(Entries(s)) => Len(g[k]) = Len(text)
         /\ k # Len(Entries(s)) =>
               LET e == Entries(s)[k + 1]
               IN  /\ Len(g[k]) < Len(text)
                   /\ (e.kind = "file" => Load!FitsLine(e.value)) =>
                         /\ Load!LineEnd(Len(g[k])) = Len(g[k + 1])
                         /\ Load!LineAfter(Len(g[k])) = Body(s, e)
<1> DEFINE n == Len(Entries(s))
           W == Written(s)
<1>1. W \in Seq(Texts) /\ Len(W) = n /\ n \in Nat /\ Sums(g, W)
      /\ \A i \in 1 .. n : W[i] = Body(s, Entries(s)[i]) \o <<Load!LineFeed>>
  BY WrittenAreTexts, EntriesAre
<1>2. g[n] = text
  BY SavedIsSum
<1>3. ASSUME k # n
      PROVE  LET e == Entries(s)[k + 1]
             IN  /\ Len(g[k]) < Len(text)
                 /\ (e.kind = "file" => Load!FitsLine(e.value)) =>
                       /\ Load!LineEnd(Len(g[k])) = Len(g[k + 1])
                       /\ Load!LineAfter(Len(g[k])) = Body(s, e)
  <2> DEFINE e == Entries(s)[k + 1]
             body == Body(s, e)
             line == body \o <<Load!LineFeed>>
  <2>1. k + 1 \in 1 .. n /\ (k + 1) - 1 = k /\ k + 1 \in 0 .. n
    BY <1>1, <1>3
  <2>2. body \in Texts /\ ((e.kind = "file" => Load!FitsLine(e.value)) => KeepsToLine(body))
    BY <2>1, BodyIs
  <2> HIDE DEF W, n, body
  <2>3. g[k + 1] = g[k] \o line /\ g[k] \in Texts /\ g[k + 1] \in Texts
    <3> DEFINE j == k + 1
    <3>1. j \in 1 .. Len(W) /\ j - 1 = k
      BY <1>1, <2>1
    <3>2. W[j] = line
      BY <1>1, <2>1 DEF body
    <3> HIDE DEF j, line
    <3>3. g[j] = g[j - 1] \o W[j] /\ g[j - 1] \in Texts /\ g[j] \in Texts
      BY <1>1, <3>1, SumAfterOne
    <3>4. QED BY <3>1, <3>2, <3>3 DEF j
  <2>4. PICK c \in Texts : text = g[k + 1] \o c
    <3>1. k + 1 \in 0 .. Len(W)
      BY <1>1, <2>1
    <3>2. \E c \in Texts : g[Len(W)] = g[k + 1] \o c
      BY <1>1, <3>1, SumBegins
    <3>3. QED BY <1>1, <1>2, <3>2
  <2>5. Len(g[k]) < Len(text)
    <3>1. line \in Texts /\ Len(line) = Len(body) + 1 /\ Len(body) \in Nat
      <4>1. <<Load!LineFeed>> \in Texts /\ Len(<<Load!LineFeed>>) = 1
        BY CharactersAreNumbers, ShortTexts
      <4>2. line \in Texts /\ Len(line) = Len(body) + Len(<<Load!LineFeed>>) /\ Len(body) \in Nat
        BY <2>2, <4>1, ConcatIs
      <4>3. QED BY <4>1, <4>2
    <3> HIDE DEF line
    <3> DEFINE x == g[k]
               y == g[k + 1]
    <3>2. x \in Texts /\ y \in Texts /\ y = x \o line /\ text = y \o c
      BY <2>3, <2>4
    <3> HIDE DEF x, y
    <3>3. Len(x \o line) = Len(x) + Len(line) /\ Len(x) \in Nat
      BY <3>1, <3>2, ConcatIs
    <3>4. Len(y \o c) = Len(y) + Len(c) /\ Len(c) \in Nat
      BY <3>2, ConcatIs
    <3> DEFINE p == Len(x)
               q == Len(line)
               r == Len(c)
               t == Len(text)
               b == Len(body)
    <3>5. p \in Nat /\ r \in Nat /\ b \in Nat /\ q = b + 1 /\ t = (p + q) + r
      BY <3>1, <3>2, <3>3, <3>4
    <3> HIDE DEF p, q, r, t, b
    <3>6. p < t
      BY <3>5
    <3>7. QED BY <3>6 DEF p, t, x
  <2>6. ASSUME KeepsToLine(body)
        PROVE  Load!LineEnd(Len(g[k])) = Len(g[k + 1]) /\ Load!LineAfter(Len(g[k])) = body
    <3>1. text = (g[k] \o (body \o <<Load!LineFeed>>)) \o c
      BY <2>3, <2>4
    <3>2. /\ Load!LineEnd(Len(g[k])) = Len(g[k] \o (body \o <<Load!LineFeed>>))
          /\ Load!LineAfter(Len(g[k])) = body
      BY <2>2, <2>3, <2>6, <3>1, LineThere
    <3>3. QED BY <2>3, <3>2
  <2>7. QED BY <2>2, <2>5, <2>6 DEF body
<1>4. QED BY <1>2, <1>3
-----------------------------------------------------------------------------
\* What the loader has of a snapshot is what the lines behind it say.
HasRead(s, k) ==
    LET es == Entries(s)
    IN  /\ root = IF Of(es, k, "root") = {} THEN NoRoot ELSE Load!Lossy(s.root)
        /\ policySeen <=> Of(es, k, "marker") # {}
        /\ exclusionsSeen <=> Of(es, k, "name") # {}
        /\ exclusions = Of(es, k, "name")
        /\ files = [p \in Of(es, k, "file") |-> s.files[p]]

IsAt(s, g, k) ==
    /\ Sums(g, Written(s)) /\ g[0] = Header
    /\ k \in 0 .. Len(Entries(s)) /\ position = Len(g[k])
    /\ HasRead(s, k)

AllFit(s) == \A p \in DOMAIN s.files : Load!FitsLine(p)

SavedInv ==
    saved # NoSnapshot =>
        /\ IsSnapshot(saved) /\ text = Load!Saved(saved)
        /\ header # "absent"
        /\ header = "unread" => /\ position = 0 /\ files = Load!NoRecords /\ root = NoRoot
                                /\ exclusions = {} /\ pc \in {"reading", "failed"}
        /\ header = "present" /\ AllFit(saved) =>
              pc # "invalid" /\ \E g, k : IsAt(saved, g, k)

\* Every path in memory is normalised, and there are no names without a line of one.
ReadInv ==
    /\ \A p \in DOMAIN files : Load!Normalized(p) = p
    /\ exclusionsSeen \/ exclusions = {}

LEMMA OfNext ==
  ASSUME NEW es, NEW k \in Nat, NEW kind
  PROVE  Of(es, k + 1, kind) =
            Of(es, k, kind) \union (IF es[k + 1].kind = kind THEN {es[k + 1].value} ELSE {})
<1>1. 1 .. k + 1 = (1 .. k) \union {k + 1}
  OBVIOUS
<1> DEFINE A == 1 .. k
           B == 1 .. k + 1
           j == k + 1
<1>2. B = A \union {j}
  BY <1>1
<1> HIDE DEF A, B, j
<1>3. {es[i].value : i \in {m \in B : es[m].kind = kind}} =
         {es[i].value : i \in {m \in A : es[m].kind = kind}}
            \union (IF es[j].kind = kind THEN {es[j].value} ELSE {})
  BY <1>2
<1>4. QED BY <1>3 DEF Of, A, B, j

\* What a line does to what has been read.
Does(s, e) ==
    /\ IF e.kind = "root" THEN root' = e.value ELSE root' = root
    /\ IF e.kind = "marker" THEN policySeen' = TRUE ELSE policySeen' = policySeen
    /\ IF e.kind = "name"
       THEN exclusionsSeen' = TRUE /\ exclusions' = exclusions \union {e.value}
       ELSE exclusionsSeen' = exclusionsSeen /\ exclusions' = exclusions
    /\ IF e.kind = "file"
       THEN files' = [p \in DOMAIN files \union {e.value} |->
                         IF p = e.value THEN s.files[e.value] ELSE files[p]]
       ELSE files' = files

LEMMA ReadsOn ==
  ASSUME NEW s, IsSnapshot(s), NEW k \in Nat, k + 1 \in 1 .. Len(Entries(s)),
         HasRead(s, k), Does(s, Entries(s)[k + 1])
  PROVE  HasRead(s, k + 1)'
<1> DEFINE es == Entries(s)
           e == es[k + 1]
           Was(kind) == Of(es, k, kind)
           Is(kind) == Of(es, k + 1, kind)
<1>1. \A kind : Is(kind) = Was(kind) \union (IF e.kind = kind THEN {e.value} ELSE {})
  BY OfNext
<1>2. e.kind = "root" => e.value = Load!Lossy(s.root)
  BY EntriesAre
<1> HIDE DEF es
<1>3. /\ root = IF Was("root") = {} THEN NoRoot ELSE Load!Lossy(s.root)
      /\ policySeen <=> Was("marker") # {}
      /\ exclusionsSeen <=> Was("name") # {}
      /\ exclusions = Was("name")
      /\ files = [p \in Was("file") |-> s.files[p]]
  BY DEF HasRead, es
<1>4. /\ IF e.kind = "root" THEN root' = e.value ELSE root' = root
      /\ IF e.kind = "marker" THEN policySeen' = TRUE ELSE policySeen' = policySeen
      /\ IF e.kind = "name"
         THEN exclusionsSeen' = TRUE /\ exclusions' = exclusions \union {e.value}
         ELSE exclusionsSeen' = exclusionsSeen /\ exclusions' = exclusions
      /\ IF e.kind = "file"
         THEN files' = [p \in DOMAIN files \union {e.value} |->
                           IF p = e.value THEN s.files[e.value] ELSE files[p]]
         ELSE files' = files
  BY DEF Does, es
<1> HIDE DEF e, Was, Is
<1>5. root' = IF Is("root") = {} THEN NoRoot ELSE Load!Lossy(s.root)
  BY <1>1, <1>2, <1>3, <1>4
<1>6. policySeen' <=> Is("marker") # {}
  BY <1>1, <1>3, <1>4
<1>7. (exclusionsSeen' <=> Is("name") # {}) /\ exclusions' = Is("name")
  BY <1>1, <1>3, <1>4
<1>8. files' = [p \in Is("file") |-> s.files[p]]
  <2>1. CASE e.kind = "file"
    <3>1. DOMAIN files = Was("file") /\ \A p \in Was("file") : files[p] = s.files[p]
      BY <1>3
    <3>2. Is("file") = DOMAIN files \union {e.value}
      BY <1>1, <2>1, <3>1
    <3>3. files' = [p \in Is("file") |-> IF p = e.value THEN s.files[e.value] ELSE files[p]]
      BY <1>4, <2>1, <3>2
    <3>4. \A p \in Is("file") :
             (IF p = e.value THEN s.files[e.value] ELSE files[p]) = s.files[p]
      BY <3>1, <3>2
    <3>5. QED BY <3>3, <3>4
  <2>2. CASE e.kind # "file"
    <3>1. Is("file") = Was("file")
      BY <1>1, <2>2
    <3>2. QED BY <1>3, <1>4, <2>2, <3>1
  <2>3. QED BY <2>1, <2>2
<1>9. QED BY <1>5, <1>6, <1>7, <1>8 DEF HasRead, Is, es

\* Only the action for its kind reads a line that has been written.
LEMMA EntryIsRead ==
  ASSUME NEW s, IsSnapshot(s), NEW i \in 1 .. Len(Entries(s)), header = "present",
         Load!LineAfter(position) = Body(s, Entries(s)[i]),
         Entries(s)[i].kind = "marker" => ~ policySeen,
         \/ Load!ReadScanPolicy \/ Load!ReadExcludeName \/ Load!ReadRoot
         \/ Load!SkipLine \/ Load!ReadRecord
  PROVE  /\ position' = Load!LineEnd(position) /\ header' = header /\ pc' = pc
         /\ Does(s, Entries(s)[i])
<1> DEFINE e == Entries(s)[i]
           line == Body(s, e)
           Good == /\ position' = Load!LineEnd(position) /\ header' = header /\ pc' = pc
                   /\ Does(s, e)
<1>1. /\ line # <<>> /\ Len(Load!Parts(line)) = 3
      /\ e.kind = "file" =>
            /\ ~ Load!IsAnyMetadata(line) /\ \A key : ~ Load!IsMetadata(line, key)
            /\ Load!Parsed(Load!Part(line, 1)) = s.files[e.value].size
            /\ Load!Parsed(Load!Part(line, 2)) = s.files[e.value].time
            /\ Load!Part(line, 3) = e.value
      /\ e.kind # "file" =>
            /\ Load!IsAnyMetadata(line)
            /\ \A key : Load!IsMetadata(line, key) <=> key = KeyOf(e.kind)
            /\ Load!Part(line, 3) = Load!Escaped(e.value)
  BY BodyIs
<1>2. /\ e.kind \in Kinds /\ e.value \in Texts
      /\ e.kind = "file" => /\ s.files[e.value] \in FileData
                            /\ Load!Normalized(e.value) = e.value
      /\ e.kind = "marker" => e.value = Marker
  BY EntryIs, EntriesAre
<1>3. Load!LineAfter(position) = line /\ (e.kind = "marker" => ~ policySeen)
  OBVIOUS
<1> HIDE DEF e, line
<1>4. /\ e.kind # "file" /\ KeyOf(e.kind) = Load!RootKey => e.kind = "root"
      /\ e.kind # "file" /\ KeyOf(e.kind) = Load!ScanPolicyKey => e.kind = "marker"
      /\ e.kind # "file" /\ KeyOf(e.kind) = Load!ExcludeNameKey => e.kind = "name"
      /\ KeyOf(e.kind) \in {Load!RootKey, Load!ScanPolicyKey, Load!ExcludeNameKey}
  BY <1>2, KeysDiffer DEF KeyOf, Kinds
<1>5. e.kind # "file" /\ e.kind # "marker" => Load!Unescaped(Load!Part(line, 3)) = e.value
  BY <1>1, <1>2, EscapedIsReadBack
<1>6. ASSUME Load!ReadScanPolicy
      PROVE  Good
  <2>1. /\ position' = Load!LineEnd(position) /\ header' = header
        /\ Load!IsMetadata(line, Load!ScanPolicyKey)
        /\ IF policySeen \/ Len(Load!Parts(line)) < 3 \/ Load!Part(line, 3) # <<Load!Number(1)>>
           THEN pc' = "invalid" /\ policySeen' = policySeen
           ELSE policySeen' = TRUE /\ pc' = pc
        /\ UNCHANGED <<files, root, exclusionsSeen, exclusions>>
    BY <1>3, <1>6 DEF Load!ReadScanPolicy, Load!ReadLine, Load!InVersioned
  <2>2. e.kind = "marker"
    BY <1>1, <1>4, <2>1
  <2>3. Load!Part(line, 3) = <<Load!Number(1)>>
    BY <1>1, <1>2, <2>2, MarkerIsRead DEF Marker
  <2>4. ~ (Len(Load!Parts(line)) < 3)
    BY <1>1
  <2>5. policySeen' = TRUE /\ pc' = pc
    BY <1>3, <2>1, <2>2, <2>3, <2>4
  <2>6. QED BY <2>1, <2>2, <2>5 DEF Does
<1>7. ASSUME Load!ReadExcludeName
      PROVE  Good
  <2>1. /\ position' = Load!LineEnd(position) /\ header' = header
        /\ Load!IsMetadata(line, Load!ExcludeNameKey)
        /\ IF Len(Load!Parts(line)) < 3
           THEN pc' = "invalid" /\ UNCHANGED <<exclusionsSeen, exclusions>>
           ELSE /\ exclusionsSeen' = TRUE /\ pc' = pc
                /\ exclusions' = exclusions \union {Load!Unescaped(Load!Part(line, 3))}
        /\ UNCHANGED <<files, root, policySeen>>
    BY <1>3, <1>7 DEF Load!ReadExcludeName, Load!ReadLine, Load!InVersioned
  <2>2. e.kind = "name"
    BY <1>1, <1>4, <2>1
  <2>3. ~ (Len(Load!Parts(line)) < 3)
    BY <1>1
  <2>4. exclusionsSeen' = TRUE /\ pc' = pc /\ exclusions' = exclusions \union {e.value}
    BY <1>5, <2>1, <2>2, <2>3
  <2>5. QED BY <2>1, <2>2, <2>4 DEF Does
<1>8. ASSUME Load!ReadRoot
      PROVE  Good
  <2>1. /\ position' = Load!LineEnd(position) /\ header' = header
        /\ Load!IsMetadata(line, Load!RootKey)
        /\ root' = Load!Unescaped(Load!Part(line, 3))
        /\ UNCHANGED <<files, policySeen, exclusionsSeen, exclusions, pc>>
    BY <1>3, <1>8 DEF Load!ReadRoot, Load!ReadLine, Load!InVersioned
  <2>2. e.kind = "root"
    BY <1>1, <1>4, <2>1
  <2>3. root' = e.value
    BY <1>5, <2>1, <2>2
  <2>4. QED BY <2>1, <2>2, <2>3 DEF Does
<1>9. ~ Load!SkipLine
  <2>1. SUFFICES ASSUME Load!SkipLine
                 PROVE  FALSE
    OBVIOUS
  <2>2. /\ Load!IsAnyMetadata(line)
        /\ ~ Load!IsMetadata(line, Load!ScanPolicyKey)
        /\ ~ Load!IsMetadata(line, Load!ExcludeNameKey)
        /\ Load!IsMetadata(line, Load!RootKey) => Len(Load!Parts(line)) < 3
    BY <1>1, <1>3, <2>1 DEF Load!SkipLine, Load!ReadLine
  <2>3. ~ (Len(Load!Parts(line)) < 3)
    BY <1>1
  <2>4. QED BY <1>1, <1>4, <2>2, <2>3
<1>10. ASSUME Load!ReadRecord
       PROVE  Good
  <2> DEFINE path == Load!Normalized(Load!Part(line, 3))
             data == [size |-> Load!Parsed(Load!Part(line, 1)),
                      time |-> Load!Parsed(Load!Part(line, 2))]
  <2>1. /\ position' = Load!LineEnd(position) /\ header' = header
        /\ ~ Load!IsAnyMetadata(line)
        /\ files' = [p \in DOMAIN files \union {path} |-> IF p = path THEN data ELSE files[p]]
        /\ UNCHANGED <<root, policySeen, exclusionsSeen, exclusions, pc>>
    BY <1>3, <1>10 DEF Load!ReadRecord, Load!ReadLine, Load!Upsert, Load!metadata
  <2>2. e.kind = "file"
    BY <1>1, <2>1
  <2>3. path = e.value
    BY <1>1, <1>2, <2>2
  <2>4. data = s.files[e.value]
    <3>1. \A d \in FileData : d = [size |-> d.size, time |-> d.time]
      BY DEF FileData
    <3>2. data = [size |-> s.files[e.value].size, time |-> s.files[e.value].time]
      BY <1>1, <2>2
    <3>3. QED BY <1>2, <2>2, <3>1, <3>2
  <2> HIDE DEF path, data
  <2>5. QED BY <2>1, <2>2, <2>3, <2>4 DEF Does
<1>11. Good
  BY <1>6, <1>7, <1>8, <1>9, <1>10
<1>12. QED BY <1>11 DEF e
-----------------------------------------------------------------------------
LEMMA SavedHeaderKeeps ==
  ASSUME LoadInv, SavedInv, Load!ReadHeader, UNCHANGED Load!given
  PROVE  SavedInv'
<1>0. text' = text /\ saved' = saved
  BY DEF Load!given
<1> SUFFICES ASSUME saved # NoSnapshot
             PROVE  SavedInv'
  BY <1>0 DEF SavedInv
<1>1. IsSnapshot(saved) /\ text = Load!Saved(saved)
  BY DEF SavedInv
<1>2. /\ header = "unread" /\ pc' = pc /\ files' = files
      /\ UNCHANGED <<root, policySeen, exclusionsSeen, exclusions>>
      /\ IF Load!LineAfter(0) = <<Load!IndexHeader>>
         THEN header' = "present" /\ position' = Load!LineEnd(0)
         ELSE header' = "absent" /\ UNCHANGED position
  BY DEF Load!ReadHeader, Load!metadata
<1>3. /\ position = 0 /\ files = Load!NoRecords /\ root = NoRoot
      /\ exclusions = {} /\ pc \in {"reading", "failed"}
  BY <1>2 DEF SavedInv
<1>4. ~ policySeen /\ ~ exclusionsSeen
  BY <1>2 DEF LoadInv, PolicyInv
<1>5. /\ Load!LineAfter(0) = <<Load!IndexHeader>>
      /\ \E g : Sums(g, Written(saved)) /\ g[0] = Header /\ Load!LineEnd(0) = Len(g[0])
  BY <1>1, HeaderThere
<1>6. PICK g : Sums(g, Written(saved)) /\ g[0] = Header /\ Load!LineEnd(0) = Len(g[0])
  BY <1>5
<1>7. header' = "present" /\ position' = Len(g[0])
  BY <1>2, <1>5, <1>6
<1>8. HasRead(saved, 0)'
  <2>1. \A es, kind : Of(es, 0, kind) = {}
    BY DEF Of
  <2>2. files' = [p \in {} |-> saved.files[p]]
    BY <1>2, <1>3 DEF Load!NoRecords
  <2>3. HasRead(saved, 0)' <=>
           /\ root' = IF Of(Entries(saved), 0, "root") = {} THEN NoRoot ELSE Load!Lossy(saved.root)
           /\ policySeen' <=> Of(Entries(saved), 0, "marker") # {}
           /\ exclusionsSeen' <=> Of(Entries(saved), 0, "name") # {}
           /\ exclusions' = Of(Entries(saved), 0, "name")
           /\ files' = [p \in Of(Entries(saved), 0, "file") |-> saved.files[p]]
    BY <1>0 DEF HasRead
  <2>4. QED BY <1>2, <1>3, <1>4, <2>1, <2>2, <2>3
<1>9. IsAt(saved, g, 0)'
  <2>1. 0 \in 0 .. Len(Entries(saved))
    BY <1>1, EntriesAre
  <2>2. QED BY <1>0, <1>6, <1>7, <1>8, <2>1 DEF IsAt
<1>10. pc' # "invalid"
  BY <1>2, <1>3
<1>11. QED BY <1>0, <1>1, <1>7, <1>9, <1>10 DEF SavedInv

LEMMA SavedLineKeeps ==
  ASSUME LoadInv, SavedInv, UNCHANGED Load!given,
         \/ Load!ReadScanPolicy \/ Load!ReadExcludeName \/ Load!ReadRoot
         \/ Load!SkipLine \/ Load!ReadRecord
  PROVE  SavedInv'
<1>0. text' = text /\ saved' = saved
  BY DEF Load!given
<1> SUFFICES ASSUME saved # NoSnapshot
             PROVE  SavedInv'
  BY <1>0 DEF SavedInv
<1>1. IsSnapshot(saved) /\ text = Load!Saved(saved)
  BY DEF SavedInv
<1>2. Load!AtLine /\ header # "unread" /\ header' = header
  BY DEF Load!ReadScanPolicy, Load!ReadExcludeName, Load!ReadRoot, Load!SkipLine,
         Load!ReadRecord, Load!ReadLine
<1>3. header = "present" /\ position < Len(text)
  BY <1>2 DEF SavedInv, LoadInv, LoadTypes, Load!AtLine
<1>4. ASSUME AllFit(saved)
      PROVE  pc' # "invalid" /\ \E g, k : IsAt(saved, g, k)'
  <2>1. PICK g, k : IsAt(saved, g, k)
    BY <1>3, <1>4 DEF SavedInv
  <2> DEFINE es == Entries(saved)
             n == Len(es)
             e == es[k + 1]
  <2>2. /\ Sums(g, Written(saved)) /\ g[0] = Header
        /\ k \in 0 .. n /\ position = Len(g[k]) /\ HasRead(saved, k) /\ n \in Nat
    BY <1>1, <2>1, EntriesAre DEF IsAt
  <2>3. k # n
    <3>1. k = n => Len(g[k]) = Len(text)
      BY <1>1, <2>2, EntryThere
    <3>2. Len(text) \in Nat
      BY DEF LoadInv, LoadTypes, Texts
    <3>3. QED BY <1>3, <2>2, <3>1, <3>2
  <2>4. k \in Nat /\ k + 1 \in 1 .. n /\ k + 1 \in 0 .. n
    BY <2>2, <2>3
  <2>5. e.kind = "file" => Load!FitsLine(e.value)
    BY <1>1, <1>4, <2>4, EntriesAre DEF AllFit
  <2>6. Load!LineEnd(position) = Len(g[k + 1]) /\ Load!LineAfter(position) = Body(saved, e)
    BY <1>1, <2>2, <2>3, <2>5, EntryThere
  <2>7. e.kind = "marker" => ~ policySeen
    <3>1. SUFFICES ASSUME e.kind = "marker", policySeen
                   PROVE  FALSE
      OBVIOUS
    <3>2. Of(es, k, "marker") # {}
      BY <2>2, <3>1 DEF HasRead
    <3>3. PICK j \in 1 .. k : es[j].kind = "marker"
      BY <3>2 DEF Of
    <3>4. j \in 1 .. n /\ j # k + 1
      BY <2>2
    <3>5. \A i, m \in 1 .. n : es[i].kind = "marker" /\ es[m].kind = "marker" => i = m
      BY <1>1, EntriesAre
    <3> HIDE DEF es, n
    <3>6. QED BY <2>4, <3>1, <3>3, <3>4, <3>5
  <2>8. position' = Load!LineEnd(position) /\ pc' = pc /\ Does(saved, e)
    BY <1>1, <1>3, <2>4, <2>6, <2>7, EntryIsRead
  <2>9. HasRead(saved, k + 1)'
    <3>1. PICK s : s = saved
      OBVIOUS
    <3>2. HasRead(s, k + 1)'
      BY <1>1, <2>2, <2>4, <2>8, <3>1, ReadsOn
    <3>3. QED BY <1>0, <3>1, <3>2
  <2>10. IsAt(saved, g, k + 1)'
    BY <1>0, <2>2, <2>4, <2>6, <2>8, <2>9 DEF IsAt
  <2>11. pc = "reading"
    BY <1>2 DEF Load!AtLine
  <2>12. QED BY <2>8, <2>10, <2>11
<1>5. QED BY <1>0, <1>1, <1>2, <1>3, <1>4 DEF SavedInv

\* Nothing of the loader has changed but pc.
LEMMA AtKept ==
  ASSUME UNCHANGED <<saved, position, files, root, policySeen, exclusionsSeen, exclusions>>
  PROVE  \A g, k : IsAt(saved, g, k)' <=> IsAt(saved, g, k)
<1>1. \A k : HasRead(saved, k)' <=> HasRead(saved, k)
  BY DEF HasRead
<1>2. QED BY <1>1 DEF IsAt

LEMMA SavedFinishKeeps ==
  ASSUME LoadInv, SavedInv, Load!Finish, UNCHANGED Load!given
  PROVE  SavedInv'
<1>0. text' = text /\ saved' = saved
  BY DEF Load!given
<1> SUFFICES ASSUME saved # NoSnapshot
             PROVE  SavedInv'
  BY <1>0 DEF SavedInv
<1>1. IsSnapshot(saved) /\ text = Load!Saved(saved)
  BY DEF SavedInv
<1>2. /\ position = Len(text)
      /\ pc' = IF exclusionsSeen /\ ~ policySeen THEN "invalid" ELSE "loaded"
      /\ UNCHANGED <<position, header, files, root, policySeen, exclusionsSeen, exclusions>>
  BY DEF Load!Finish, Load!metadata
<1>3. header = "present"
  <2>1. 0 < Len(text)
    BY <1>1, HeaderThere
  <2>2. header # "unread"
    BY <1>2, <2>1 DEF SavedInv
  <2>3. QED BY <2>2 DEF SavedInv, LoadInv, LoadTypes
<1>4. ASSUME AllFit(saved)
      PROVE  pc' # "invalid" /\ \E g, k : IsAt(saved, g, k)'
  <2>1. PICK g, k : IsAt(saved, g, k)
    BY <1>3, <1>4 DEF SavedInv
  <2> DEFINE es == Entries(saved)
             n == Len(es)
  <2>2. /\ Sums(g, Written(saved)) /\ g[0] = Header
        /\ k \in 0 .. n /\ position = Len(g[k]) /\ HasRead(saved, k)
    BY <2>1 DEF IsAt
  <2>3. k = n
    <3>1. k # n => Len(g[k]) < Len(text)
      BY <1>1, <2>2, EntryThere
    <3>2. QED BY <1>2, <2>2, <3>1
  <2>4. exclusionsSeen => policySeen
    <3>1. /\ Of(es, n, "marker") = {} <=> saved.policy = Unknown
          /\ Of(es, n, "name") = IF saved.policy = Unknown THEN {} ELSE saved.policy
      BY <1>1, EntriesAre
    <3>2. /\ policySeen <=> Of(es, n, "marker") # {}
          /\ exclusionsSeen <=> Of(es, n, "name") # {}
      BY <2>2, <2>3 DEF HasRead
    <3>3. QED BY <3>1, <3>2
  <2>5. IsAt(saved, g, k)'
    BY <1>0, <1>2, <2>1, AtKept
  <2>6. QED BY <1>2, <2>4, <2>5
<1>5. QED BY <1>0, <1>1, <1>2, <1>3, <1>4 DEF SavedInv

LEMMA SavedStutters ==
  ASSUME SavedInv, UNCHANGED <<text, saved, position, header, files, root, policySeen,
                               exclusionsSeen, exclusions>>,
         pc' = pc \/ pc' = "failed"
  PROVE  SavedInv'
<1>1. \A g, k : IsAt(saved, g, k)' <=> IsAt(saved, g, k)
  BY AtKept
<1>2. QED BY <1>1 DEF SavedInv

LEMMA SavedKeeps ==
  ASSUME LoadInv, SavedInv, Load!Next
  PROVE  SavedInv'
<1>1. UNCHANGED Load!given /\ text' = text /\ saved' = saved
  BY DEF Load!Next, Load!given
<1>2. CASE Load!ReadFails
  <2>1. UNCHANGED <<position, header, files, root, policySeen, exclusionsSeen, exclusions>>
        /\ pc' = "failed"
    BY <1>2 DEF Load!ReadFails, Load!metadata
  <2>2. QED BY <1>1, <2>1, SavedStutters
<1>3. QED BY <1>1, <1>2, SavedHeaderKeeps, SavedLineKeeps, SavedFinishKeeps DEF Load!Next

LEMMA ReadKeeps ==
  ASSUME LoadInv, ReadInv, Load!Next
  PROVE  ReadInv'
<1>1. CASE Load!ReadRecord
  <2> DEFINE line == Load!LineAfter(position)
             path == Load!Normalized(IF header = "present" THEN Load!Part(line, 3) ELSE line)
  <2>1. /\ Load!AtLine /\ DOMAIN files' = DOMAIN files \union {path}
        /\ UNCHANGED <<exclusionsSeen, exclusions>>
    BY <1>1 DEF Load!ReadRecord, Load!ReadLine, Load!Upsert, Load!metadata
  <2>2. line \in Texts /\ Load!Part(line, 3) \in Texts
    BY <2>1, LineAt DEF LoadInv
  <2>3. Load!Normalized(path) = path
    BY <2>2, NormalizedTwice
  <2> HIDE DEF path
  <2>4. QED BY <2>1, <2>3 DEF ReadInv
<1>2. CASE Load!ReadExcludeName
  <2>1. files' = files /\ (exclusionsSeen' = TRUE \/ UNCHANGED <<exclusionsSeen, exclusions>>)
    BY <1>2 DEF Load!ReadExcludeName, Load!ReadLine
  <2>2. QED BY <2>1 DEF ReadInv
<1>3. ASSUME \/ Load!ReadHeader \/ Load!ReadScanPolicy \/ Load!ReadRoot \/ Load!SkipLine
             \/ Load!Finish \/ Load!ReadFails
      PROVE  UNCHANGED <<files, exclusionsSeen, exclusions>>
  BY <1>3 DEF Load!ReadHeader, Load!ReadScanPolicy, Load!ReadRoot, Load!SkipLine, Load!Finish,
              Load!ReadFails, Load!ReadLine, Load!metadata
<1>4. QED BY <1>1, <1>2, <1>3 DEF ReadInv, Load!Next

\* A snapshot that has just been saved.
LEMMA ReplaceSaves ==
  ASSUME NEW s, IsSnapshot(s), Load!Replace(s)
  PROVE  SavedInv' /\ ReadInv'
<1>1. /\ saved' = s /\ text' = Load!Saved(s) /\ position' = 0 /\ header' = "unread"
      /\ files' = Load!NoRecords /\ root' = NoRoot /\ exclusions' = {} /\ pc' = "reading"
  BY DEF Load!Replace, Load!NoRecords
<1>2. DOMAIN files' = {}
  BY <1>1 DEF Load!NoRecords
<1>3. QED BY <1>1, <1>2 DEF SavedInv, ReadInv

\* At the end of the text every line is behind the loader.
LEMMA SavedIsRead == LoadInv /\ SavedInv /\ ReadInv => Load!SavedIsLoaded
<1> SUFFICES ASSUME LoadInv, SavedInv, ReadInv
             PROVE  Load!SavedIsLoaded
  OBVIOUS
<1>1. Load!TypeOK
  <2>1. position \in 0 .. Len(text)
    BY DEF LoadInv, LoadTypes, Load!LineStarts, Texts
  <2>2. \A p \in DOMAIN files : files[p] \in [size : Nat, time : Nat]
    <3>1. files \in [DOMAIN files -> [size : Nat, time : Nat]]
      BY DEF LoadInv, LoadTypes, IsListing, FileData
    <3>2. QED BY <3>1
  <2>3. QED BY <2>1, <2>2 DEF LoadInv, LoadTypes, ReadInv, Load!TypeOK
<1>2. saved # NoSnapshot => header # "absent"
  BY DEF SavedInv
<1>3. ASSUME saved # NoSnapshot, \A p \in DOMAIN saved.files : Load!FitsLine(p)
      PROVE  /\ pc # "invalid"
             /\ pc = "loaded" => /\ root = Load!AfterSaving(saved.root)
                                 /\ Load!Policy = saved.policy
                                 /\ files = saved.files
  <2>1. AllFit(saved) /\ IsSnapshot(saved) /\ text = Load!Saved(saved)
    BY <1>3 DEF AllFit, SavedInv
  <2>2. pc # "invalid"
    BY <1>3, <2>1 DEF SavedInv, LoadInv, LoadTypes
  <2>3. ASSUME pc = "loaded"
        PROVE  /\ root = Load!AfterSaving(saved.root) /\ Load!Policy = saved.policy
               /\ files = saved.files
    <3>1. header = "present" /\ position = Len(text)
      BY <1>3, <2>3 DEF SavedInv, LoadInv, LoadTypes, PolicyInv
    <3>2. PICK g, k : IsAt(saved, g, k)
      BY <1>3, <2>1, <3>1 DEF SavedInv
    <3> DEFINE es == Entries(saved)
               n == Len(es)
    <3>3. /\ Sums(g, Written(saved)) /\ g[0] = Header
          /\ k \in 0 .. n /\ position = Len(g[k]) /\ HasRead(saved, k)
      BY <3>2 DEF IsAt
    <3>4. k = n
      <4>1. k # n => Len(g[k]) < Len(text)
        BY <2>1, <3>3, EntryThere
      <4>2. QED BY <3>1, <3>3, <4>1
    <3>5. /\ Of(es, n, "root") = {} <=> saved.root = NoRoot
          /\ Of(es, n, "marker") = {} <=> saved.policy = Unknown
          /\ Of(es, n, "name") = IF saved.policy = Unknown THEN {} ELSE saved.policy
          /\ Of(es, n, "file") = DOMAIN saved.files
      BY <2>1, EntriesAre
    <3>6. /\ root = IF Of(es, n, "root") = {} THEN NoRoot ELSE Load!Lossy(saved.root)
          /\ policySeen <=> Of(es, n, "marker") # {}
          /\ exclusions = Of(es, n, "name")
          /\ files = [p \in Of(es, n, "file") |-> saved.files[p]]
      BY <3>3, <3>4 DEF HasRead
    <3>7. saved.files = [p \in DOMAIN saved.files |-> saved.files[p]]
      <4>1. saved.files \in [DOMAIN saved.files -> FileData]
        BY <2>1, SnapshotIs
      <4>2. QED BY <4>1
    <3> HIDE DEF es, n
    <3>8. files = saved.files
      BY <3>5, <3>6, <3>7
    <3>9. Load!Policy = saved.policy
      BY <3>5, <3>6 DEF Load!Policy
    <3>10. root = Load!AfterSaving(saved.root)
      BY <3>5, <3>6 DEF Load!AfterSaving
    <3>11. QED BY <3>8, <3>9, <3>10
  <2>4. QED BY <2>2, <2>3
<1>4. QED BY <1>1, <1>2, <1>3 DEF Load!SavedIsLoaded
-----------------------------------------------------------------------------
\* The loader, the comparison and what a refresh has saved.
Snapshots == [root : Texts, policy : SUBSET Texts,
              files : UNION {[S -> FileData] : S \in SUBSET Texts}]

\* What stands for no policy and for no snapshot is neither.
Distinct == Unknown \notin SUBSET Texts /\ NoSnapshot \notin Snapshots

StatusInv ==
    /\ LoadInv
    /\ SavedInv /\ ReadInv
    /\ MergeInv
    /\ \A i \in DOMAIN newFiles : IsPath(newFiles[i].path)
    /\ phase # "idle" => pc = "loaded" /\ oldFiles = InPathOrder(files)
    /\ published => saved # NoSnapshot /\ saved.files = ByPath(newFiles)

\* Of every path there is a last record, and it has the metadata that replace_all keeps.
LEMMA ByPathIsListing ==
  ASSUME NEW f \in Listings
  PROVE  /\ IsListing(ByPath(f)) /\ DOMAIN ByPath(f) = Merge!PathsOf(f)
         /\ \A p \in Merge!PathsOf(f) : ByPath(f)[p] = Merge!DataAt(f, p)
<1>1. ByPath(f) = [p \in Merge!PathsOf(f) |-> Merge!DataAt(f, p)]
  BY DEF ByPath
<1>2. Len(f) \in Nat /\ DOMAIN f = 1 .. Len(f) /\ \A i \in 1 .. Len(f) :
                                                     f[i].path \in Texts
  BY RecordsAre
<1>3. ASSUME NEW p \in Merge!PathsOf(f)
      PROVE  Merge!DataAt(f, p) \in FileData
  <2> DEFINE I == {i \in 1 .. Len(f) : f[i].path = p}
             IsLast(i) == /\ f[i].path = p
                        /\ \A j \in DOMAIN f : f[j].path = p => j <= i
  <2>1. I # {}
    BY <1>2 DEF Merge!PathsOf
  <2>2. PICK k \in {Len(f) - i : i \in I} : \A m \in {Len(f) - i : i \in I} : k <= m
    <3>1. {Len(f) - i : i \in I} \in SUBSET Nat /\ {Len(f) - i : i \in I} # {}
      BY <1>2, <2>1
    <3> HIDE DEF I
    <3>2. QED BY <3>1, LeastNumber
  <2>3. PICK i \in I : k = Len(f) - i
    BY <2>2
  <2>4. \A j \in I : Len(f) - i <= Len(f) - j
    BY <2>2, <2>3
  <2>5. \A j \in I : j <= i
    BY <1>2, <2>3, <2>4
  <2>6. i \in DOMAIN f /\ IsLast(i)
    BY <1>2, <2>3, <2>5
  <2> HIDE DEF IsLast
  <2>7. (CHOOSE j \in DOMAIN f : IsLast(j)) \in DOMAIN f
    BY <2>6
  <2>8. Merge!DataAt(f, p) = f[CHOOSE j \in DOMAIN f : IsLast(j)].data
    BY DEF Merge!DataAt, IsLast
  <2>9. \A j \in 1 .. Len(f) : f[j].data \in FileData
    <3>1. \A j \in 1 .. Len(f) : f[j] \in [path : Texts, data : FileData]
      BY ElementOfSeq DEF Listings
    <3>2. \A r \in [path : Texts, data : FileData] : r.data \in FileData
      OBVIOUS
    <3>3. QED BY <3>1, <3>2
  <2>10. QED BY <1>2, <2>7, <2>8, <2>9
<1>4. IsFiniteSet(Merge!PathsOf(f)) /\ Merge!PathsOf(f) \subseteq Texts
  BY <1>2, PathsFinite DEF Merge!PathsOf
<1>5. QED BY <1>1, <1>3, <1>4 DEF IsListing

\* What a refresh saves is a snapshot.
LEMMA RefreshIsSnapshot ==
  ASSUME LoadTypes, newFiles \in Listings, root # NoRoot, Load!Policy # Unknown,
         \A i \in DOMAIN newFiles : IsPath(newFiles[i].path)
  PROVE  LET s == [root |-> root, policy |-> Load!Policy, files |-> ByPath(newFiles)]
         IN  IsSnapshot(s) /\ s \in Snapshots
<1> DEFINE s == [root |-> root, policy |-> Load!Policy, files |-> ByPath(newFiles)]
<1>1. root \in Texts
  BY DEF LoadTypes
<1>2. IsFiniteSet(Load!Policy) /\ Load!Policy \in SUBSET Texts
  BY DEF LoadTypes, Load!Policy
<1>3. /\ IsListing(ByPath(newFiles))
      /\ \A p \in DOMAIN ByPath(newFiles) : IsPath(p)
  BY ByPathIsListing DEF Merge!PathsOf
<1>4. s.root = root /\ s.policy = Load!Policy /\ s.files = ByPath(newFiles)
  OBVIOUS
<1>5. IsSnapshot(s)
  <2> HIDE DEF s
  <2>1. QED BY <1>1, <1>2, <1>3, <1>4, SameLibrary DEF IsSnapshot, IsListing, Texts
<1>6. ByPath(newFiles) \in UNION {[S -> FileData] : S \in SUBSET Texts}
  BY <1>3 DEF IsListing
<1>7. QED BY <1>1, <1>2, <1>5, <1>6 DEF Snapshots

LEMMA StatusInitially == Init => StatusInv
<1> SUFFICES ASSUME Init
             PROVE  StatusInv
  OBVIOUS
<1> DEFINE Good == /\ text \in Texts /\ newFiles \in Inputs
                   /\ \A i \in DOMAIN newFiles : IsPath(newFiles[i].path)
                   /\ saved # NoSnapshot => IsSnapshot(saved) /\ text = Load!Saved(saved)
<1>1. Good
  <2>1. CASE \E case \in Cases : saved = case.saved /\ text = Load!Saved(case.saved)
                                 /\ newFiles = case.scan
    <3>1. PICK case \in Cases : saved = case.saved /\ text = Load!Saved(case.saved)
                                /\ newFiles = case.scan
      BY <2>1
    <3>2. /\ IsSnapshot(case.saved) /\ Merge!Ordered(case.scan)
          /\ case.scan \in Seq([path : Seq(Nat), data : FileData])
      BY <3>1, InputsAssumption
    <3>3. text \in Texts
      BY <3>1, <3>2, SavedIsText
    <3>4. newFiles \in Inputs
      BY <3>1, <3>2 DEF Inputs, Listings, Texts
    <3>5. \A i \in DOMAIN newFiles : IsPath(newFiles[i].path)
      BY <3>1, InputsAssumption
    <3>6. QED BY <3>1, <3>2, <3>3, <3>4, <3>5
  <2>2. CASE saved = NoSnapshot /\ text \in Documents /\ newFiles = <<>>
    <3>1. text \in Texts
      BY <2>2, InputsAssumption DEF Texts
    <3>2. /\ Len(<<>>) = 0 /\ <<>> \in Listings /\ Merge!Ordered(<<>>)
          /\ \A i \in DOMAIN <<>> : IsPath(<<>>[i].path)
      BY DEF Listings, Merge!Ordered
    <3>3. QED BY <2>2, <3>1, <3>2 DEF Inputs
  <2>3. QED BY <2>1, <2>2 DEF Init
<1>2. Load!Init /\ Merge!Init /\ published = FALSE
  BY DEF Init
<1>3. LoadInv
  BY <1>1, <1>2, LoadInitially DEF Load!Init, Opened
<1>4. MergeInv /\ phase = "idle"
  BY <1>1, <1>2, MergeInitially DEF Merge!Init
<1>5. SavedInv /\ ReadInv
  <2>1. /\ header = "unread" /\ position = 0 /\ files = Load!NoRecords /\ root = NoRoot
        /\ exclusions = {} /\ pc = "reading"
    BY <1>2 DEF Load!Init
  <2>2. DOMAIN Load!NoRecords = {}
    BY DEF Load!NoRecords
  <2>3. QED BY <1>1, <2>1, <2>2 DEF SavedInv, ReadInv
<1>6. QED BY <1>1, <1>2, <1>3, <1>4, <1>5 DEF StatusInv

LEMMA LoadNeeds == Load!Next => pc = "reading"
BY DEF Load!Next, Load!ReadHeader, Load!ReadScanPolicy, Load!ReadExcludeName, Load!ReadRoot,
       Load!SkipLine, Load!ReadRecord, Load!ReadLine, Load!AtLine, Load!Finish, Load!ReadFails

LEMMA StatusKeeps ==
  ASSUME Distinct, StatusInv, Next
  PROVE  StatusInv'
<1>0. /\ LoadInv /\ SavedInv /\ ReadInv /\ MergeInv /\ newFiles \in Listings /\ StrictOrder
      /\ \A i \in DOMAIN newFiles : IsPath(newFiles[i].path)
  BY BeforeIsOrder DEF StatusInv, MergeInv, Inputs
<1>1. CASE Open
  <2>1. /\ Load!Next /\ saved' = saved
        /\ UNCHANGED <<oldFiles, newFiles, oldRead, newRead, left, right>>
        /\ UNCHANGED <<added, updated, removed, unchanged, phase, published>>
    BY <1>1 DEF Open, merging, Load!Next, Load!given
  <2>2. phase = "idle"
    BY <2>1, LoadNeeds DEF StatusInv
  <2>3. LoadInv'
    BY <1>0, <2>1, LoadKeeps
  <2>4. MergeInv'
    BY <1>0, <2>1, MergeInductive DEF Merge!vars, Merge!inputs, Merge!summary
  <2>5. ByPath(newFiles)' = ByPath(newFiles)
    BY <2>1 DEF ByPath, Merge!PathsOf, Merge!DataAt
  <2>6. SavedInv' /\ ReadInv'
    BY <1>0, <2>1, SavedKeeps, ReadKeeps
  <2>7. (\A i \in DOMAIN newFiles : IsPath(newFiles[i].path))'
    BY <1>0, <2>1
  <2>8. QED BY <2>1, <2>2, <2>3, <2>4, <2>5, <2>6, <2>7 DEF StatusInv
<1>2. ASSUME UNCHANGED loading
      PROVE  LoadInv' /\ SavedInv' /\ ReadInv' /\ saved' = saved /\ pc' = pc
             /\ InPathOrder(files)' = InPathOrder(files)
  <2>1. UNCHANGED <<text, saved, position, header, files, root, policySeen, exclusionsSeen,
                    exclusions, pc>>
    BY <1>2 DEF loading
  <2>2. InPathOrder(files)' = InPathOrder(files)
    BY <2>1 DEF InPathOrder
  <2>3. LoadInv'
    BY <1>0, <2>1, LoadStutters
  <2>4. SavedInv' /\ ReadInv'
    BY <1>0, <2>1, SavedStutters DEF ReadInv
  <2>5. QED BY <2>1, <2>2, <2>3, <2>4
<1>3. CASE Compare
  <2>1. /\ pc = "loaded" /\ Merge!Start(InPathOrder(files))
        /\ UNCHANGED loading /\ published' = published
    BY <1>3 DEF Compare
  <2>2. newFiles' = newFiles /\ oldFiles' = InPathOrder(files)
    BY <2>1 DEF Merge!Start
  <2>3. MergeInv'
    <3>1. InPathOrder(files) \in Inputs
      BY <1>0, InPathOrderIs DEF LoadInv, LoadTypes
    <3>2. QED BY <1>0, <2>1, <3>1, MergeStartKeeps
  <2>4. ByPath(newFiles)' = ByPath(newFiles)
    BY <2>2 DEF ByPath, Merge!PathsOf, Merge!DataAt
  <2>5. (\A i \in DOMAIN newFiles : IsPath(newFiles[i].path))'
    BY <1>0, <2>2
  <2>6. QED BY <1>2, <2>1, <2>2, <2>3, <2>4, <2>5 DEF StatusInv
<1>4. CASE CompareNext
  <2>1. /\ Merge!Turn /\ UNCHANGED loading /\ published' = published
    BY <1>4 DEF CompareNext
  <2>2. newFiles' = newFiles /\ oldFiles' = oldFiles /\ phase # "idle"
    BY <2>1 DEF Merge!Turn, Merge!Remove, Merge!Add, Merge!Match, Merge!Break, Merge!inputs
  <2>3. MergeInv'
    BY <1>0, <2>1, MergeInductive
  <2>4. ByPath(newFiles)' = ByPath(newFiles)
    BY <2>2 DEF ByPath, Merge!PathsOf, Merge!DataAt
  <2>5. (\A i \in DOMAIN newFiles : IsPath(newFiles[i].path))'
    BY <1>0, <2>2
  <2>6. QED BY <1>2, <2>1, <2>2, <2>3, <2>4, <2>5 DEF StatusInv
<1>5. CASE Refresh
  <2> DEFINE s == [root |-> root, policy |-> Load!Policy, files |-> ByPath(newFiles)]
  <2>1. /\ root # NoRoot /\ Load!Policy # Unknown /\ Load!Replace(s)
        /\ published' = TRUE /\ phase' = "idle"
        /\ UNCHANGED <<oldFiles, newFiles, oldRead, newRead, left, right>>
        /\ UNCHANGED <<added, updated, removed, unchanged>>
    BY <1>5 DEF Refresh, Published, merging
  <2>2. IsSnapshot(s) /\ s \in Snapshots
    BY <1>0, <2>1, RefreshIsSnapshot DEF LoadInv
  <2>3. s.files = ByPath(newFiles)
    OBVIOUS
  <2> HIDE DEF s
  <2>4. LoadInv' /\ saved' = s
    BY <2>1, <2>2, ReplaceKeeps DEF Load!Replace
  <2>5. MergeInv'
    BY <1>0, <2>1 DEF MergeInv, Merge!TypeOK, Merge!summary
  <2>6. ByPath(newFiles)' = ByPath(newFiles)
    BY <2>1 DEF ByPath, Merge!PathsOf, Merge!DataAt
  <2>7. s # NoSnapshot
    BY <2>2 DEF Distinct
  <2>8. SavedInv' /\ ReadInv'
    BY <2>1, <2>2, ReplaceSaves
  <2>9. (\A i \in DOMAIN newFiles : IsPath(newFiles[i].path))'
    BY <1>0, <2>1
  <2>10. QED BY <2>1, <2>3, <2>4, <2>5, <2>6, <2>7, <2>8, <2>9 DEF StatusInv
<1>6. QED BY <1>1, <1>3, <1>4, <1>5 DEF Next

LEMMA StatusInvariance == Distinct => (Spec => []StatusInv)
<1> SUFFICES ASSUME Distinct
             PROVE  Spec => []StatusInv
  OBVIOUS
<1>1. ASSUME StatusInv, [Next]_vars
      PROVE  StatusInv'
  <2>1. CASE UNCHANGED vars
    <3>1. UNCHANGED <<text, saved, position, header, files, root, policySeen, exclusionsSeen,
                      exclusions, pc>>
          /\ UNCHANGED <<oldFiles, newFiles, oldRead, newRead, left, right>>
          /\ UNCHANGED <<added, updated, removed, unchanged, phase, published>>
      BY <2>1 DEF vars, loading, merging
    <3>2. LoadInv'
      BY <1>1, <3>1, LoadStutters DEF StatusInv
    <3>3. MergeInv'
      BY <1>1, <3>1, MergeInductive, BeforeIsOrder
      DEF StatusInv, Merge!vars, Merge!inputs, Merge!summary
    <3>4. ByPath(newFiles)' = ByPath(newFiles)
          /\ InPathOrder(files)' = InPathOrder(files)
      BY <3>1 DEF ByPath, Merge!PathsOf, Merge!DataAt, InPathOrder
    <3>5. SavedInv' /\ ReadInv'
      BY <1>1, <3>1, SavedStutters DEF StatusInv, ReadInv
    <3>6. (\A i \in DOMAIN newFiles : IsPath(newFiles[i].path))'
      BY <1>1, <3>1 DEF StatusInv
    <3>7. QED BY <1>1, <3>1, <3>2, <3>3, <3>4, <3>5, <3>6 DEF StatusInv
  <2>2. QED BY <1>1, <2>1, StatusKeeps
<1>2. Init => StatusInv
  BY StatusInitially
<1>3. QED BY <1>1, <1>2, PTL DEF Spec

\* A text is loaded with a scan policy exactly if it has one well-formed marker, and a damaged
\* policy is refused, whatever the text: one of this version, an older one, one that somebody has
\* edited or one that a refresh has written.
THEOREM PolicyClosed == Distinct => (Spec => []PolicyFailsClosed)
<1> SUFFICES ASSUME Distinct
             PROVE  Spec => []PolicyFailsClosed
  OBVIOUS
<1>1. StatusInv => PolicyFailsClosed
  BY PolicyIsClosed DEF Distinct, StatusInv, PolicyFailsClosed
<1>2. Spec => []StatusInv
  BY StatusInvariance
<1>3. QED BY <1>1, <1>2, PTL

\* What save_with has written is loaded again, for every snapshot: never taken for a text of an
\* older version and, as long as every path keeps to its line, never refused and loaded with the
\* root, the policy and the records that were saved.
THEOREM RoundTrip == Distinct => (Spec => []SavedIsLoaded)
<1> SUFFICES ASSUME Distinct
             PROVE  Spec => []SavedIsLoaded
  OBVIOUS
<1>1. StatusInv => SavedIsLoaded
  BY SavedIsRead DEF StatusInv, SavedIsLoaded
<1>2. Spec => []StatusInv
  BY StatusInvariance
<1>3. QED BY <1>1, <1>2, PTL

\* What is reported is the difference between the records that were loaded and the scan, by the
\* definition with maps, at every turn of the merge and whatever duplicates the scan has; and
\* nothing is reported after a refresh, because the round trip is exact.
THEOREM StatusExact == Distinct => (Spec => []StatusTrue)
<1> SUFFICES ASSUME Distinct
             PROVE  Spec => []StatusTrue
  OBVIOUS
<1>1. ASSUME StatusInv
      PROVE  StatusTrue
  <2>1. MergeInv /\ LoadInv /\ Load!SavedIsLoaded
    BY <1>1, SavedIsRead DEF StatusInv
  <2>2. Merge!TypeOK
    BY <2>1 DEF MergeInv
  <2>3. phase # "idle" => Merge!CountsWhatIsPassed
    BY <2>1 DEF MergeInv
  <2>4. phase = "done" => Merge!MatchesCompare /\ Merge!MatchesCompare
    BY <2>1, EndIs
  <2>5. ASSUME phase = "done", published, \A p \in DOMAIN saved.files : Load!FitsLine(p)
        PROVE  ~ Merge!HasChanges
    <3>1. /\ pc = "loaded" /\ oldFiles = InPathOrder(files)
          /\ saved # NoSnapshot /\ saved.files = ByPath(newFiles)
      BY <1>1, <2>5 DEF StatusInv
    <3>2. files = ByPath(newFiles)
      BY <2>1, <2>5, <3>1 DEF Load!SavedIsLoaded
    <3> DEFINE N == Merge!PathsOf(newFiles)
    <3>3. /\ IsListing(files) /\ DOMAIN files = N
          /\ \A p \in N : files[p] = Merge!DataAt(newFiles, p)
      BY <2>1, <3>2, ByPathIsListing DEF MergeInv, Inputs
    <3>4. /\ Merge!PathsOf(oldFiles) = N
          /\ \A p \in N : Merge!DataAt(oldFiles, p) = Merge!DataAt(newFiles, p)
      <4> HIDE DEF N
      <4> QED BY <3>1, <3>3, InPathOrderIs
    <3>5. Merge!Altered = {} /\ N \ Merge!PathsOf(oldFiles) = {} /\ Merge!PathsOf(oldFiles) \ N = {}
      BY <3>4 DEF Merge!Altered, Merge!Common
    <3>6. Merge!Cardinality({}) = 0
      BY SameLibrary, FS_EmptySet
    <3>7. added = 0 /\ updated = 0 /\ removed = 0
      <4>1. Merge!summary = Merge!Compare
        BY <2>4, <2>5 DEF Merge!MatchesCompare
      <4> HIDE DEF N
      <4>2. Merge!Compare = <<0, 0, 0, Merge!Cardinality(Merge!Common \ Merge!Altered)>>
        BY <3>5, <3>6 DEF Merge!Compare, N
      <4>3. QED BY <4>1, <4>2 DEF Merge!summary
    <3>8. QED BY <3>7 DEF Merge!HasChanges
  <2>6. QED BY <2>2, <2>3, <2>4, <2>5 DEF StatusTrue
<1>2. Spec => []StatusInv
  BY StatusInvariance
<1>3. QED BY <1>1, <1>2, PTL
=============================================================================
