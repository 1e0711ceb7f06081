-------------------------- MODULE PromQueryCache_proofs --------------------------
(***************************************************************************)
(* Proofs about the cache of Prometheus queries, for any targets, series,  *)
(* windows, overlap and step: as long as no sample is stored in front of   *)
(* one that is there already, the cached frames are in order and what is   *)
(* shown is what a query of the whole range would have returned.           *)
(***************************************************************************)
EXTENDS PromQueryCache, FiniteSetTheorems, SequenceTheorems, WellFoundedInduction, TLAPS

-----------------------------------------------------------------------------
(* Tables                                                                    *)

\* The times of a table grow.
Sorted(f) == \A k, l \in 1 .. Len(f) : k < l => f[k].time < f[l].time

Contains(f, x) == \E k \in 1 .. Len(f) : f[k] = x

\* A set of naturals has a least element.
LEMMA LeastExists ==
    ASSUME NEW T, T \subseteq Nat, T # {}
    PROVE  \E x \in T : \A y \in T : x <= y
<1> DEFINE R == OpToRel(<, Nat)
<1>1. IsWellFoundedOn(R, Nat)
  BY NatLessThanWellFounded
<1>2. \A y, x \in Nat : y < x => <<y, x>> \in R
  BY DEF OpToRel
<1> HIDE DEF R
<1>3. PICK x \in T : \A y \in T : ~ (<<y, x>> \in R)
  BY <1>1, WFMin
<1>4. \A y \in T : ~ (y < x)
  BY <1>2, <1>3
<1>5. QED
  BY <1>3, <1>4

LEMMA SampleFacts ==
    /\ Steps \subseteq Nat
    /\ \A x \in Samples : x.time \in Steps /\ x.time \in Nat /\ x.value \in 1 .. 2
                          /\ x = [time |-> x.time, value |-> x.value]
BY DEF Samples, Steps

LEMMA TableFacts ==
    ASSUME NEW f \in Seq(Samples)
    PROVE  /\ Len(f) \in Nat /\ DOMAIN f = 1 .. Len(f)
           /\ \A k \in 1 .. Len(f) : f[k] \in Samples /\ f[k].time \in Nat /\ f[k].time \in Steps
           /\ f # <<>> => Len(f) >= 1
           /\ f = <<>> => Len(f) = 0
           /\ f # <<>> => Head(f) = f[1]
<1>1. Len(f) \in Nat /\ DOMAIN f = 1 .. Len(f)
  BY LenProperties
<1>2. \A k \in 1 .. Len(f) : f[k] \in Samples
  BY ElementOfSeq
<1>3. f # <<>> => Len(f) >= 1
  BY EmptySeq
<1>4. f = <<>> => Len(f) = 0
  BY EmptySeq
<1>5. QED
  BY <1>1, <1>2, <1>3, <1>4, SampleFacts

\* A slice within the table.
LEMMA SliceFacts ==
    ASSUME NEW f \in Seq(Samples), NEW a \in 0 .. Len(f), NEW b \in 0 .. Len(f)
    PROVE  /\ Slice(f, a, b) \in Seq(Samples)
           /\ Len(Slice(f, a, b)) = IF a < b THEN b - a ELSE 0
           /\ \A k \in 1 .. b - a : Slice(f, a, b)[k] = f[a + k]
<1>1. Len(f) \in Nat
  BY TableFacts
<1>2. Slice(f, a, b) = SubSeq(f, a + 1, b)
  <2>1. Least(a, Len(f)) = a /\ Least(b, Len(f)) = b /\ ~ (a < 0) /\ ~ (b < 0)
    BY <1>1 DEF Least
  <2>2. QED
    BY <2>1 DEF Slice
<1>3. \A i \in a + 1 .. b : f[i] \in Samples
  BY <1>1, TableFacts
<1>4. a + 1 \in Int /\ b \in Int
  BY <1>1
<1> DEFINE m == a + 1
<1>5. /\ SubSeq(f, m, b) \in Seq(Samples)
      /\ Len(SubSeq(f, m, b)) = IF m <= b THEN b - m + 1 ELSE 0
      /\ \A i \in 1 .. b - m + 1 : SubSeq(f, m, b)[i] = f[m + i - 1]
  <2>1. m \in Int /\ \A i \in m .. b : f[i] \in Samples
    BY <1>3, <1>4
  <2> HIDE DEF m
  <2>2. QED
    BY <1>4, <2>1, SubSeqProperties
<1>6. QED
  BY <1>1, <1>2, <1>5

\* closestIdx finds the closest time, the earlier of two.
LEMMA ClosestFacts ==
    ASSUME NEW f \in Seq(Samples), f # <<>>, NEW t \in Int
    PROVE  /\ ClosestIdx(t, f) \in 0 .. Len(f) - 1
           /\ \A j \in 0 .. Len(f) - 1 :
                \/ Distance(t, Time(f, ClosestIdx(t, f))) < Distance(t, Time(f, j))
                \/ /\ Distance(t, Time(f, ClosestIdx(t, f))) = Distance(t, Time(f, j))
                   /\ ClosestIdx(t, f) <= j
<1> DEFINE I == 0 .. Len(f) - 1
           d(i) == Distance(t, Time(f, i))
           D == {d(i) : i \in I}
<1>1. Len(f) \in Nat /\ Len(f) >= 1 /\ \A i \in I : Time(f, i) \in Nat
  BY TableFacts DEF Time
<1>2. \A i \in I : d(i) \in Nat
  BY <1>1 DEF Distance
<1>3. PICK m \in D : \A y \in D : m <= y
  <2>1. D \subseteq Nat /\ D # {}
    BY <1>1, <1>2
  <2> HIDE DEF D
  <2>2. QED
    BY <2>1, LeastExists
<1> DEFINE J == {i \in I : d(i) = m}
<1>4. PICK c \in J : \A j \in J : c <= j
  <2>1. J \subseteq Nat /\ J # {}
    BY <1>1, <1>3
  <2> HIDE DEF J
  <2>2. QED
    BY <2>1, LeastExists
<1>5. ASSUME NEW j \in I
      PROVE  d(c) < d(j) \/ (d(c) = d(j) /\ c <= j)
  <2>1. d(c) = m /\ m <= d(j) /\ m \in Nat /\ d(j) \in Nat
    BY <1>2, <1>3, <1>4, <1>5
  <2>2. d(j) = m => c <= j
    BY <1>4, <1>5
  <2> HIDE DEF d
  <2>3. QED
    BY <2>1, <2>2
<1>6. c \in I
  BY <1>4
<1>7. QED
  BY <1>5, <1>6 DEF ClosestIdx

\* A time that is in the table is its own closest.
LEMMA ClosestIsExact ==
    ASSUME NEW f \in Seq(Samples), Sorted(f), NEW k \in 1 .. Len(f)
    PROVE  ClosestIdx(f[k].time, f) = k - 1
<1> DEFINE t == f[k].time
           c == ClosestIdx(t, f)
<1>1. f # <<>> /\ Len(f) \in Nat /\ t \in Nat /\ k - 1 \in 0 .. Len(f) - 1
  BY TableFacts
<1>2. c \in 0 .. Len(f) - 1
      /\ Distance(t, Time(f, c)) <= Distance(t, Time(f, k - 1))
  <2>1. \A j \in 0 .. Len(f) - 1 : Time(f, j) \in Nat
    BY <1>1, TableFacts DEF Time
  <2>2. \A j \in 0 .. Len(f) - 1 : Distance(t, Time(f, j)) \in Nat
    BY <1>1, <2>1 DEF Distance
  <2>3. /\ c \in 0 .. Len(f) - 1
        /\ \A j \in 0 .. Len(f) - 1 :
             \/ Distance(t, Time(f, c)) < Distance(t, Time(f, j))
             \/ Distance(t, Time(f, c)) = Distance(t, Time(f, j)) /\ c <= j
    <3>1. t \in Int
      BY <1>1
    <3> HIDE DEF t
    <3>2. QED
      BY <1>1, <3>1, ClosestFacts
  <2> HIDE DEF c, t
  <2>4. QED
    BY <1>1, <2>2, <2>3
<1>3. Time(f, k - 1) = t /\ Time(f, c) = f[c + 1].time /\ c + 1 \in 1 .. Len(f)
  BY <1>1, <1>2 DEF Time
<1>4. f[c + 1].time = t
  <2>1. f[c + 1].time \in Nat
    BY <1>3, TableFacts
  <2>2. QED
    BY <1>1, <1>2, <1>3, <2>1 DEF Distance
<1> HIDE DEF c
<1>5. ~ (c + 1 < k) /\ ~ (k < c + 1)
  <2>1. ASSUME c + 1 < k PROVE FALSE
    <3>1. f[c + 1].time < f[k].time
      BY <1>3, <2>1 DEF Sorted
    <3>2. QED
      BY <1>1, <1>4, <3>1
  <2>2. ASSUME k < c + 1 PROVE FALSE
    <3>1. f[k].time < f[c + 1].time
      BY <1>3, <2>2 DEF Sorted
    <3>2. QED
      BY <1>1, <1>4, <3>1
  <2>3. QED
    BY <2>1, <2>2
<1>6. QED
  BY <1>1, <1>2, <1>5 DEF c

LEMMA ConcatSorted ==
    ASSUME NEW p \in Seq(Samples), NEW q \in Seq(Samples), Sorted(p), Sorted(q),
           \A k \in 1 .. Len(p), l \in 1 .. Len(q) : p[k].time < q[l].time
    PROVE  /\ p \o q \in Seq(Samples)
           /\ Sorted(p \o q)
           /\ \A x : Contains(p \o q, x) <=> Contains(p, x) \/ Contains(q, x)
<1> DEFINE r == p \o q
           m == Len(p)
           n == Len(q)
<1>1. m \in Nat /\ n \in Nat
  BY TableFacts
<1>2. /\ r \in Seq(Samples)
      /\ Len(r) = m + n
      /\ \A i \in 1 .. m + n : r[i] = IF i <= m THEN p[i] ELSE q[i - m]
  BY ConcatProperties
<1> HIDE DEF r
<1>3. Sorted(r)
  <2>1. SUFFICES ASSUME NEW k \in 1 .. m + n, NEW l \in 1 .. m + n, k < l
                 PROVE  r[k].time < r[l].time
    BY <1>2 DEF Sorted
  <2>2. CASE l <= m
    <3>1. k \in 1 .. m /\ l \in 1 .. m /\ r[k] = p[k] /\ r[l] = p[l]
      BY <1>1, <1>2, <2>1, <2>2
    <3>2. QED
      BY <2>1, <3>1 DEF Sorted
  <2>3. CASE k <= m /\ ~ (l <= m)
    <3>1. k \in 1 .. m /\ l - m \in 1 .. n /\ r[k] = p[k] /\ r[l] = q[l - m]
      BY <1>1, <1>2, <2>1, <2>3
    <3>2. QED
      BY <3>1
  <2>4. CASE ~ (k <= m)
    <3>1. /\ k - m \in 1 .. n /\ l - m \in 1 .. n /\ k - m < l - m
          /\ r[k] = q[k - m] /\ r[l] = q[l - m]
      BY <1>1, <1>2, <2>1, <2>4
    <3>2. QED
      BY <3>1 DEF Sorted
  <2>5. QED
    BY <1>1, <2>1, <2>2, <2>3, <2>4
<1>4. ASSUME NEW x
      PROVE  Contains(r, x) <=> Contains(p, x) \/ Contains(q, x)
  <2>1. ASSUME Contains(r, x) PROVE Contains(p, x) \/ Contains(q, x)
    <3>1. PICK i \in 1 .. m + n : r[i] = x
      BY <1>2, <2>1 DEF Contains
    <3>2. (i \in 1 .. m /\ p[i] = x) \/ (i - m \in 1 .. n /\ q[i - m] = x)
      BY <1>1, <1>2, <3>1
    <3>3. QED
      BY <3>2 DEF Contains
  <2>2. ASSUME Contains(p, x) PROVE Contains(r, x)
    <3>1. PICK i \in 1 .. m : p[i] = x
      BY <2>2 DEF Contains
    <3>2. i \in 1 .. m + n /\ r[i] = x
      BY <1>1, <1>2, <3>1
    <3>3. QED
      BY <1>2, <3>2 DEF Contains
  <2>3. ASSUME Contains(q, x) PROVE Contains(r, x)
    <3>1. PICK i \in 1 .. n : q[i] = x
      BY <2>3 DEF Contains
    <3>2. i + m \in 1 .. m + n /\ ~ (i + m <= m) /\ (i + m) - m = i
      BY <1>1
    <3>3. r[i + m] = x
      BY <1>2, <3>1, <3>2
    <3>4. QED
      BY <1>2, <3>2, <3>3 DEF Contains
  <2>4. QED
    BY <2>1, <2>2, <2>3
<1>5. QED
  BY <1>2, <1>3, <1>4 DEF r

\* The rows before index b.
LEMMA PrefixFacts ==
    ASSUME NEW f \in Seq(Samples), Sorted(f), NEW b \in 0 .. Len(f)
    PROVE  /\ Slice(f, 0, b) \in Seq(Samples)
           /\ Len(Slice(f, 0, b)) = b
           /\ \A k \in 1 .. b : Slice(f, 0, b)[k] = f[k]
           /\ Sorted(Slice(f, 0, b))
<1>1. Len(f) \in Nat /\ 0 \in 0 .. Len(f)
  BY TableFacts
<1>2. /\ Slice(f, 0, b) \in Seq(Samples)
      /\ Len(Slice(f, 0, b)) = b
      /\ \A k \in 1 .. b : Slice(f, 0, b)[k] = f[k]
  <2>1. /\ Slice(f, 0, b) \in Seq(Samples)
        /\ Len(Slice(f, 0, b)) = IF 0 < b THEN b - 0 ELSE 0
        /\ \A k \in 1 .. b - 0 : Slice(f, 0, b)[k] = f[0 + k]
    BY <1>1, SliceFacts
  <2>2. QED
    BY <1>1, <2>1
<1>3. \A k \in 1 .. b : k \in 1 .. Len(f)
  BY <1>1
<1>4. QED
  BY <1>2, <1>3 DEF Sorted

\* amendTable, when the new table holds all there is from a time on and begins
\* at or behind a row of the old one: the old table up to that time, and then
\* the new one.
LEMMA AmendFacts ==
    ASSUME NEW p \in Seq(Samples), NEW q \in Seq(Samples), Sorted(p), Sorted(q), q # <<>>,
           NEW cut \in Int,
           \A k \in 1 .. Len(q) : cut <= q[k].time,
           \A k \in 1 .. Len(p) : cut <= p[k].time => \E l \in 1 .. Len(q) : q[l].time = p[k].time,
           \A l \in 1 .. Len(q) : (\E k \in 1 .. Len(p) : q[l].time <= p[k].time)
                                    => \E k \in 1 .. Len(p) : p[k].time = q[l].time
    PROVE  /\ AmendTable(p, q) \in Seq(Samples)
           /\ Sorted(AmendTable(p, q))
           /\ \A x : Contains(AmendTable(p, q), x)
                       <=> Contains(q, x) \/ (Contains(p, x) /\ x.time < cut)
<1> DEFINE m == Len(p)
           n == Len(q)
<1>1. /\ m \in Nat /\ n \in Nat /\ n >= 1 /\ Head(q) = q[1]
      /\ \A k \in 1 .. m : p[k].time \in Nat
      /\ \A k \in 1 .. n : q[k].time \in Nat
  BY TableFacts
<1>2. \A l \in 1 .. n : q[1].time <= q[l].time /\ q[l].time <= q[n].time
  <2>1. SUFFICES ASSUME NEW l \in 1 .. n
                 PROVE  q[1].time <= q[l].time /\ q[l].time <= q[n].time
    OBVIOUS
  <2>2. 1 \in 1 .. n /\ n \in 1 .. n
    BY <1>1
  <2>3. (1 < l => q[1].time < q[l].time) /\ (l < n => q[l].time < q[n].time)
    BY <2>2 DEF Sorted
  <2>4. QED
    BY <1>1, <2>2, <2>3
<1>3. CASE p = <<>>
  <2>1. AmendTable(p, q) = q
    BY <1>3, ConcatEmptySeq DEF AmendTable
  <2>2. \A x : ~ Contains(p, x)
    BY <1>3, TableFacts DEF Contains
  <2>3. QED
    BY <2>1, <2>2
<1>4. CASE p # <<>>
  <2>1. m >= 1 /\ Head(p) = p[1]
    BY <1>4, TableFacts
  <2>2. \A k \in 1 .. m : p[1].time <= p[k].time /\ p[k].time <= p[m].time
    <3>1. SUFFICES ASSUME NEW k \in 1 .. m
                   PROVE  p[1].time <= p[k].time /\ p[k].time <= p[m].time
      OBVIOUS
    <3>2. 1 \in 1 .. m /\ m \in 1 .. m
      BY <1>1, <2>1
    <3>3. (1 < k => p[1].time < p[k].time) /\ (k < m => p[k].time < p[m].time)
      BY <3>2 DEF Sorted
    <3>4. QED
      BY <1>1, <3>2, <3>3
  <2> DEFINE pStart == p[1].time
             pEnd   == p[m].time
             nStart == q[1].time
             nEnd   == q[n].time
             a      == ClosestIdx(nStart, p)
  <2>3. pStart \in Nat /\ pEnd \in Nat /\ nStart \in Nat /\ nEnd \in Nat
    BY <1>1, <2>1
  <2>4. CASE nStart > pEnd
    <3>1. AmendTable(p, q) = p \o q
      BY <1>1, <1>4, <2>1, <2>4 DEF AmendTable
    <3>2. \A k \in 1 .. m, l \in 1 .. n : p[k].time < q[l].time
      <4>1. SUFFICES ASSUME NEW k \in 1 .. m, NEW l \in 1 .. n
                     PROVE  p[k].time < q[l].time
        OBVIOUS
      <4>2. p[k].time <= pEnd /\ p[k].time \in Nat
        BY <1>1, <2>2
      <4>3. nStart <= q[l].time /\ q[l].time \in Nat
        BY <1>1, <1>2
      <4> HIDE DEF pEnd, nStart
      <4>4. QED
        BY <2>3, <2>4, <4>2, <4>3
    <3>3. \A k \in 1 .. m : p[k].time < cut
      <4>1. SUFFICES ASSUME NEW k \in 1 .. m, cut <= p[k].time
                     PROVE  FALSE
        BY <1>1
      <4>2. PICK l \in 1 .. n : q[l].time = p[k].time
        BY <4>1
      <4>3. QED
        BY <1>1, <3>2, <4>2
    <3>4. \A x : Contains(p, x) => x.time < cut
      BY <3>3 DEF Contains
    <3>5. QED
      BY <3>1, <3>2, <3>4, ConcatSorted
  <2>5. CASE ~ (nStart > pEnd)
    <3>1. PICK j \in 1 .. m : p[j].time = nStart
      <4>1. 1 \in 1 .. n /\ m \in 1 .. m /\ q[1].time <= p[m].time
        BY <1>1, <2>1, <2>3, <2>5
      <4>2. QED
        BY <4>1
    <3>2. cut <= nStart /\ pStart <= nStart
      BY <1>1, <2>2, <3>1
    <3>3. pEnd <= nEnd
      <4>1. m \in 1 .. m /\ cut <= p[m].time
        BY <1>1, <2>1, <2>3, <2>5, <3>2
      <4>2. PICK l \in 1 .. n : q[l].time = p[m].time
        BY <4>1
      <4>3. QED
        BY <1>2, <4>2
    <3>4. ASSUME NEW k \in 1 .. m, nStart <= p[k].time
          PROVE  cut <= p[k].time
      BY <1>1, <2>3, <3>2, <3>4
    <3>5. ASSUME NEW k \in 1 .. m, p[k].time < nStart
          PROVE  p[k].time < cut
      <4>1. SUFFICES ASSUME cut <= p[k].time PROVE FALSE
        BY <1>1
      <4>2. PICK l \in 1 .. n : q[l].time = p[k].time
        BY <4>1
      <4>3. QED
        BY <1>1, <1>2, <2>3, <3>5, <4>2
    <3>6. CASE nStart <= pStart
      <4>1. AmendTable(p, q) = q
        <5>1. Head(p).time = pStart /\ p[Len(p)].time = pEnd /\ Head(q).time = nStart
              /\ q[Len(q)].time = nEnd
          BY <1>1, <2>1
        <5>2. ~ (nStart > pEnd) /\ ~ (nEnd < pStart) /\ nStart <= pStart /\ nEnd >= pEnd
          <6> HIDE DEF pStart, pEnd, nStart, nEnd
          <6>1. pStart <= pEnd
            BY <2>3, <2>5, <3>2, <3>6
          <6>2. QED
            BY <2>3, <2>5, <3>3, <3>6, <6>1
        <5> HIDE DEF pStart, pEnd, nStart, nEnd
        <5>3. QED
          BY <1>4, <5>1, <5>2 DEF AmendTable
      <4>2. \A x : Contains(p, x) => cut <= x.time
        <5>1. \A k \in 1 .. m : cut <= p[k].time
          BY <1>1, <2>2, <2>3, <3>2, <3>6
        <5>2. QED
          BY <5>1 DEF Contains
      <4>3. \A x : ~ (Contains(p, x) /\ x.time < cut)
        <5>1. SUFFICES ASSUME NEW x, Contains(p, x), x.time < cut PROVE FALSE
          OBVIOUS
        <5>2. x.time \in Nat
          BY <1>1, <5>1 DEF Contains
        <5>3. QED
          BY <4>2, <5>1, <5>2
      <4>4. QED
        BY <4>1, <4>3
    <3>7. CASE pStart < nStart
      <4>1. a = j - 1 /\ Time(p, a) = nStart
        <5>1. ClosestIdx(p[j].time, p) = j - 1
          BY ClosestIsExact
        <5>2. (j - 1) + 1 = j
          OBVIOUS
        <5>3. QED
          BY <3>1, <5>1, <5>2 DEF Time
      <4> DEFINE b == j - 1
      <4>2. b \in 0 .. m
        BY <1>1
      <4>3. AmendTable(p, q) = Slice(p, 0, b) \o q
        <5>1. ~ (Time(p, a) < nStart) /\ ~ (nEnd < pStart) /\ ~ (nStart <= pStart) /\ ~ (nEnd < pEnd)
              /\ nStart >= pStart
          <6> HIDE DEF pStart, pEnd, nStart, nEnd, a
          <6>1. nStart <= nEnd
            BY <1>1, <1>2 DEF nStart, nEnd
          <6>2. Time(p, a) = nStart
            BY <4>1
          <6>3. QED
            BY <2>3, <3>3, <3>7, <6>1, <6>2
        <5>2. Head(p).time = pStart /\ p[Len(p)].time = pEnd /\ Head(q).time = nStart
              /\ q[Len(q)].time = nEnd
          BY <1>1, <2>1
        <5> HIDE DEF a, pStart, pEnd, nStart, nEnd
        <5>3. AmendTable(p, q) = Slice(p, 0, a) \o q
          BY <1>4, <2>5, <5>1, <5>2 DEF AmendTable, a
        <5>4. QED
          BY <4>1, <5>3
      <4> HIDE DEF a
      <4> DEFINE s == Slice(p, 0, b)
      <4>4. /\ s \in Seq(Samples) /\ Len(s) = b /\ Sorted(s)
            /\ \A k \in 1 .. b : s[k] = p[k]
        <5> HIDE DEF b
        <5>1. QED
          BY <4>2, PrefixFacts
      <4> HIDE DEF s
      <4>5. \A k \in 1 .. b : k \in 1 .. m /\ p[k].time < nStart
        <5>1. SUFFICES ASSUME NEW k \in 1 .. b
                       PROVE  k \in 1 .. m /\ p[k].time < nStart
          OBVIOUS
        <5>2. k \in 1 .. m /\ k < j
          BY <1>1
        <5>3. p[k].time < p[j].time
          BY <5>2 DEF Sorted
        <5>4. QED
          BY <3>1, <5>2, <5>3
      <4>6. \A k \in 1 .. Len(s), l \in 1 .. n : s[k].time < q[l].time
        <5>1. SUFFICES ASSUME NEW k \in 1 .. b, NEW l \in 1 .. n
                       PROVE  p[k].time < q[l].time
          BY <4>4
        <5>2. k \in 1 .. m /\ p[k].time < nStart
          BY <4>5
        <5>3. nStart <= q[l].time
          BY <1>2
        <5>4. p[k].time \in Nat
          BY <1>1, <5>2
        <5>5. q[l].time \in Nat
          BY <1>1
        <5> HIDE DEF nStart
        <5>6. QED
          BY <2>3, <5>2, <5>3, <5>4, <5>5
      <4>7. /\ s \o q \in Seq(Samples) /\ Sorted(s \o q)
            /\ \A x : Contains(s \o q, x) <=> Contains(s, x) \/ Contains(q, x)
        BY <4>4, <4>6, ConcatSorted
      <4>8. ASSUME NEW x
            PROVE  Contains(s, x) <=> Contains(p, x) /\ x.time < cut
        <5>1. ASSUME Contains(s, x) PROVE Contains(p, x) /\ x.time < cut
          <6>1. PICK k \in 1 .. b : s[k] = x
            BY <4>4, <5>1 DEF Contains
          <6>2. k \in 1 .. m /\ p[k] = x /\ p[k].time < nStart
            BY <4>4, <4>5, <6>1
          <6>3. QED
            BY <3>5, <6>2 DEF Contains
        <5>2. ASSUME Contains(p, x), x.time < cut PROVE Contains(s, x)
          <6>1. PICK k \in 1 .. m : p[k] = x
            BY <5>2 DEF Contains
          <6>2. p[k].time < nStart
            BY <1>1, <2>3, <3>2, <5>2, <6>1
          <6>3. k < j
            <7>1. SUFFICES ASSUME j <= k PROVE FALSE
              BY <1>1
            <7>2. j < k => p[j].time < p[k].time
              BY DEF Sorted
            <7>3. QED
              BY <1>1, <2>3, <3>1, <6>2, <7>1, <7>2
          <6>4. k \in 1 .. b
            BY <1>1, <6>3
          <6>5. QED
            BY <4>4, <6>1, <6>4 DEF Contains
        <5>3. QED
          BY <5>1, <5>2
      <4>9. QED
        BY <4>3, <4>7, <4>8 DEF s
    <3>8. QED
      BY <2>3, <3>6, <3>7
  <2>6. QED
    BY <2>4, <2>5
<1>5. QED
  BY <1>3, <1>4

\* amendTable, when the new table has a row for every row of the old one.
LEMMA AmendAllFacts ==
    ASSUME NEW p \in Seq(Samples), NEW q \in Seq(Samples), Sorted(q), q # <<>>,
           \A k \in 1 .. Len(p) : \E l \in 1 .. Len(q) : q[l].time = p[k].time
    PROVE  AmendTable(p, q) = q
<1> DEFINE m == Len(p)
           n == Len(q)
<1>1. /\ m \in Nat /\ n \in Nat /\ n >= 1 /\ Head(q) = q[1]
      /\ \A k \in 1 .. m : p[k].time \in Nat
      /\ \A k \in 1 .. n : q[k].time \in Nat
  BY TableFacts
<1>2. \A l \in 1 .. n : q[1].time <= q[l].time /\ q[l].time <= q[n].time
  <2>1. SUFFICES ASSUME NEW l \in 1 .. n
                 PROVE  q[1].time <= q[l].time /\ q[l].time <= q[n].time
    OBVIOUS
  <2>2. 1 \in 1 .. n /\ n \in 1 .. n
    BY <1>1
  <2>3. (1 < l => q[1].time < q[l].time) /\ (l < n => q[l].time < q[n].time)
    BY <2>2 DEF Sorted
  <2>4. QED
    BY <1>1, <2>2, <2>3
<1>3. CASE p = <<>>
  <2>1. AmendTable(p, q) = <<>> \o q
    BY <1>3 DEF AmendTable
  <2>2. QED
    BY <2>1, ConcatEmptySeq
<1>4. CASE p # <<>>
  <2>1. m >= 1 /\ Head(p) = p[1] /\ 1 \in 1 .. m /\ m \in 1 .. m
    BY <1>1, <1>4, TableFacts
  <2>2. \A k \in 1 .. m : q[1].time <= p[k].time /\ p[k].time <= q[n].time
    BY <1>2
  <2> DEFINE pStart == p[1].time
             pEnd == p[m].time
             nStart == q[1].time
             nEnd == q[n].time
  <2>3. /\ pStart \in Nat /\ pEnd \in Nat /\ nStart \in Nat /\ nEnd \in Nat
        /\ nStart <= pStart /\ pStart <= nEnd /\ nStart <= pEnd /\ pEnd <= nEnd
    <3>1. 1 \in 1 .. n /\ n \in 1 .. n
      BY <1>1
    <3>2. QED
      BY <1>1, <2>1, <2>2, <3>1
  <2>4. /\ Head(p).time = pStart /\ Head(q).time = nStart
        /\ p[Len(p)].time = pEnd /\ q[Len(q)].time = nEnd
    BY <1>1, <2>1
  <2> HIDE DEF pStart, pEnd, nStart, nEnd
  <2>5. ~ (nStart > pEnd) /\ ~ (nEnd < pStart) /\ nStart <= pStart /\ nEnd >= pEnd
    BY <2>3
  <2>6. QED
    BY <1>4, <2>4, <2>5 DEF AmendTable
<1>5. QED
  BY <1>3, <1>4

\* trimTable, when nothing is behind the end: the rows from a time on.
LEMMA TrimFacts ==
    ASSUME NEW f \in Seq(Samples), Sorted(f), NEW from \in Int, NEW to \in Int,
           \A k \in 1 .. Len(f) : f[k].time <= to
    PROVE  /\ TrimTable(f, from, to) \in Seq(Samples)
           /\ Sorted(TrimTable(f, from, to))
           /\ \A x : Contains(TrimTable(f, from, to), x) <=> Contains(f, x) /\ from <= x.time
<1> DEFINE n == Len(f)
<1>1. n \in Nat /\ \A k \in 1 .. n : f[k].time \in Nat
  BY TableFacts
<1>2. CASE f = <<>>
  <2>1. TrimTable(f, from, to) = f
    BY <1>2 DEF TrimTable
  <2>2. n = 0
    BY <1>2, TableFacts
  <2>3. QED
    BY <2>1, <2>2 DEF Contains
<1>3. CASE f # <<>>
  <2> DEFINE c     == ClosestIdx(from, f)
             first == IF f[1].time >= from THEN 0
                      ELSE IF Time(f, c) < from THEN c + 1 ELSE c
  <2>1. n >= 1 /\ Head(f) = f[1] /\ n \in 1 .. n
    BY <1>1, <1>3, TableFacts
  <2>2. TrimTable(f, from, to) = Slice(f, first, n)
    <3>1. f[n].time <= to
      BY <2>1
    <3>2. Head(f).time = f[1].time
      BY <2>1
    <3>3. QED
      BY <1>3, <3>1, <3>2 DEF TrimTable
  <2>3. /\ c \in 0 .. n - 1
        /\ \A j \in 0 .. n - 1 : \/ Distance(from, Time(f, c)) < Distance(from, Time(f, j))
                                 \/ Distance(from, Time(f, c)) = Distance(from, Time(f, j)) /\ c <= j
    BY <1>3, ClosestFacts
  <2> HIDE DEF c
  <2>4. /\ c + 1 \in 1 .. n /\ Time(f, c) = f[c + 1].time
        /\ \A k \in 1 .. n : Distance(from, f[c + 1].time) <= Distance(from, f[k].time)
    <3>1. c + 1 \in 1 .. n
      BY <1>1, <2>3
    <3>2. ASSUME NEW k \in 1 .. n
          PROVE  Distance(from, f[c + 1].time) <= Distance(from, f[k].time)
      <4>1. k - 1 \in 0 .. n - 1 /\ (k - 1) + 1 = k
        BY <1>1
      <4>2. Time(f, k - 1) = f[k].time
        BY <4>1 DEF Time
      <4>3. Distance(from, f[k].time) \in Int /\ Distance(from, f[c + 1].time) \in Int
        <5>1. f[k].time \in Int /\ f[c + 1].time \in Int
          BY <1>1, <3>1
        <5>2. \A t \in Int : Distance(from, t) \in Int
          BY DEF Distance
        <5>3. QED
          BY <5>1, <5>2
      <4>4. \/ Distance(from, f[c + 1].time) < Distance(from, f[k].time)
            \/ Distance(from, f[c + 1].time) = Distance(from, f[k].time)
        BY <2>3, <4>1, <4>2 DEF Time
      <4>5. QED
        BY <4>3, <4>4
    <3>3. QED
      BY <3>1, <3>2 DEF Time
  <2>5. first \in 0 .. n
    BY <1>1, <2>3
  <2>6. ASSUME NEW k \in 1 .. n
        PROVE  from <= f[k].time <=> first < k
    <3> DEFINE u == f[k].time
               v == f[c + 1].time
    <3>1. u \in Nat /\ v \in Nat /\ Distance(from, v) <= Distance(from, u)
      BY <1>1, <2>4
    <3>2. (k < c + 1 => u < v) /\ (c + 1 < k => v < u) /\ (k = c + 1 => u = v)
      BY <2>4 DEF Sorted
    <3>3. f[1].time \in Nat /\ f[1].time <= u
      <4>1. 1 \in 1 .. n
        BY <2>1, <1>1
      <4>2. 1 < k => f[1].time < u
        BY <4>1 DEF Sorted
      <4>3. QED
        BY <1>1, <4>1, <4>2
    <3>4. CASE f[1].time >= from
      BY <3>1, <3>3, <3>4, <1>1
    <3>5. CASE ~ (f[1].time >= from) /\ v < from
      <4>1. first = c + 1
        BY <2>4, <3>5
      <4>2. v < u => from <= u
        BY <3>1, <3>5 DEF Distance
      <4> HIDE DEF u, v, first
      <4>3. from <= u <=> c + 1 < k
        BY <1>1, <2>4, <3>1, <3>2, <3>5, <4>2
      <4>4. QED
        BY <4>1, <4>3 DEF u
    <3>6. CASE ~ (f[1].time >= from) /\ ~ (v < from)
      <4>1. first = c
        BY <2>4, <3>6
      <4>2. u < v => u < from
        BY <3>1, <3>6 DEF Distance
      <4> HIDE DEF u, v, first
      <4>3. from <= u <=> c < k
        BY <1>1, <2>3, <2>4, <3>1, <3>2, <3>6, <4>2
      <4>4. QED
        BY <4>1, <4>3 DEF u
    <3>7. QED
      BY <3>4, <3>5, <3>6
  <2> HIDE DEF first
  <2> DEFINE s == Slice(f, first, n)
  <2>7. /\ s \in Seq(Samples) /\ Len(s) = n - first
        /\ \A k \in 1 .. n - first : s[k] = f[first + k] /\ first + k \in 1 .. n
    <3>1. n \in 0 .. Len(f)
      BY <1>1
    <3>2. /\ s \in Seq(Samples) /\ Len(s) = IF first < n THEN n - first ELSE 0
          /\ \A k \in 1 .. n - first : s[k] = f[first + k]
      BY <2>5, <3>1, SliceFacts
    <3> HIDE DEF s
    <3>3. QED
      BY <1>1, <2>5, <3>2
  <2> HIDE DEF s
  <2>8. Sorted(s)
    <3>1. SUFFICES ASSUME NEW k \in 1 .. n - first, NEW l \in 1 .. n - first, k < l
                   PROVE  s[k].time < s[l].time
      BY <2>7 DEF Sorted
    <3>2. first + k \in 1 .. n /\ first + l \in 1 .. n /\ first + k < first + l
      BY <1>1, <2>5, <3>1
    <3>3. QED
      BY <2>7, <3>2 DEF Sorted
  <2>9. ASSUME NEW x
        PROVE  Contains(s, x) <=> Contains(f, x) /\ from <= x.time
    <3>1. ASSUME Contains(s, x) PROVE Contains(f, x) /\ from <= x.time
      <4>1. PICK k \in 1 .. n - first : s[k] = x
        BY <2>7, <3>1 DEF Contains
      <4>2. first + k \in 1 .. n /\ f[first + k] = x /\ first < first + k
        BY <1>1, <2>5, <2>7, <4>1
      <4>3. QED
        BY <2>6, <4>2 DEF Contains
    <3>2. ASSUME Contains(f, x), from <= x.time PROVE Contains(s, x)
      <4>1. PICK k \in 1 .. n : f[k] = x
        BY <3>2 DEF Contains
      <4>2. first < k
        BY <2>6, <3>2, <4>1
      <4>3. k - first \in 1 .. n - first /\ first + (k - first) = k
        BY <1>1, <2>5, <4>2
      <4>4. s[k - first] = x
        BY <2>7, <4>1, <4>3
      <4>5. QED
        BY <2>7, <4>3, <4>4 DEF Contains
    <3>3. QED
      BY <3>1, <3>2
  <2>10. QED
    BY <2>2, <2>7, <2>8, <2>9 DEF s
<1>4. QED
  BY <1>2, <1>3

\* How many elements of a set come before one.
Rank(T, t) == Cardinality({u \in T : u < t})

\* The elements of a finite set of naturals can be numbered in their order.
LEMMA RankFacts ==
    ASSUME NEW T, T \subseteq Nat, IsFiniteSet(T)
    PROVE  /\ Cardinality(T) \in Nat
           /\ \A t \in T : Rank(T, t) \in 0 .. Cardinality(T) - 1
           /\ \A t, v \in T : t < v => Rank(T, t) < Rank(T, v)
           /\ \A k \in 1 .. Cardinality(T) : \E t \in T : Rank(T, t) = k - 1
<1> DEFINE n == Cardinality(T)
<1>1. n \in Nat
  BY FS_CardinalityType
<1>2. ASSUME NEW t \in T
      PROVE  IsFiniteSet({u \in T : u < t}) /\ Rank(T, t) \in Nat /\ Rank(T, t) <= n - 1
  <2> DEFINE S == T \ {t}
             b == {u \in T : u < t}
  <2>1. IsFiniteSet(S) /\ Cardinality(S) = n - 1
    BY FS_RemoveElement
  <2>2. b \in SUBSET S
    OBVIOUS
  <2>3. Rank(T, t) = Cardinality(b)
    BY DEF Rank
  <2>4. IsFiniteSet(b) /\ Cardinality(b) <= Cardinality(S) /\ Cardinality(b) \in Nat
    <3> HIDE DEF S, b
    <3>1. IsFiniteSet(b) /\ Cardinality(b) <= Cardinality(S)
      BY <2>1, <2>2, FS_Subset
    <3>2. QED
      BY <3>1, FS_CardinalityType
  <2>5. QED
    BY <2>1, <2>3, <2>4
<1>3. ASSUME NEW t \in T, NEW v \in T, t < v
      PROVE  Rank(T, t) < Rank(T, v)
  <2> DEFINE b == {u \in T : u < t}
             c == {u \in T : u < v}
  <2>1. /\ IsFiniteSet(b) /\ IsFiniteSet(c)
        /\ Rank(T, t) = Cardinality(b) /\ Rank(T, v) = Cardinality(c)
        /\ Cardinality(b) \in Nat /\ Cardinality(c) \in Nat
    BY <1>2 DEF Rank
  <2>2. b \cup {t} \in SUBSET c /\ t \notin b
    <3>1. t \in Nat /\ v \in Nat /\ t \in c /\ t \notin b
      BY <1>3
    <3>2. \A u \in b : u \in c
      <4>1. SUFFICES ASSUME NEW u \in T, u < t PROVE u < v
        OBVIOUS
      <4>2. u \in Nat
        OBVIOUS
      <4>3. QED
        BY <1>3, <3>1, <4>1, <4>2
    <3> HIDE DEF b, c
    <3>3. QED
      BY <3>1, <3>2
  <2> HIDE DEF b, c
  <2>3. Cardinality(b \cup {t}) = Cardinality(b) + 1
    BY <2>1, <2>2, FS_AddElement
  <2>4. Cardinality(b \cup {t}) <= Cardinality(c)
    BY <2>1, <2>2, FS_Subset
  <2>5. QED
    BY <2>1, <2>3, <2>4
<1>4. \A t \in T : Rank(T, t) \in 0 .. n - 1
  <2>1. SUFFICES ASSUME NEW t \in T PROVE Rank(T, t) \in 0 .. n - 1
    OBVIOUS
  <2>2. Rank(T, t) \in Nat /\ Rank(T, t) <= n - 1
    BY <1>2
  <2> HIDE DEF n
  <2>3. QED
    BY <1>1, <2>2
<1>5. \A t, v \in T : t < v => Rank(T, t) < Rank(T, v)
  BY <1>3
<1>6. ASSUME NEW k \in 1 .. n
      PROVE  \E t \in T : Rank(T, t) = k - 1
  <2> DEFINE I == 0 .. n - 1
             f == [t \in T |-> Rank(T, t)]
  <2>1. f \in [T -> I]
    <3> HIDE DEF I
    <3>1. QED
      BY <1>4 DEF I
  <2>2. \A t, v \in T : f[t] = f[v] => t = v
    <3>1. SUFFICES ASSUME NEW t \in T, NEW v \in T, Rank(T, t) = Rank(T, v)
                   PROVE  t = v
      OBVIOUS
    <3>2. Rank(T, t) \in Int /\ t \in Nat /\ v \in Nat
      BY <1>4
    <3>3. ~ (t < v) /\ ~ (v < t)
      BY <1>5, <3>1, <3>2
    <3>4. QED
      BY <3>2, <3>3
  <2>3. IsFiniteSet(I) /\ Cardinality(I) = n
    <3> DEFINE z == n - 1
    <3>1. z \in Int /\ (0 > z => n = 0) /\ (~ (0 > z) => z - 0 + 1 = n)
      BY <1>1
    <3> HIDE DEF z
    <3>2. \A a, b \in Int : IsFiniteSet(a .. b) /\ Cardinality(a .. b) = IF a > b THEN 0 ELSE b - a + 1
      BY FS_Interval, Zenon
    <3>3. 0 \in Int
      OBVIOUS
    <3>4. IsFiniteSet(0 .. z) /\ Cardinality(0 .. z) = IF 0 > z THEN 0 ELSE z - 0 + 1
      BY <3>1, <3>2, <3>3, Zenon
    <3>5. I = 0 .. z
      BY DEF z
    <3> HIDE DEF I, n
    <3>6. QED
      BY <3>1, <3>4, <3>5
  <2> HIDE DEF f, I
  <2>4. f \in Injection(T, I)
    BY <2>1, <2>2 DEF Injection, IsInjective
  <2>5. f \in Surjection(T, I)
    BY <2>3, <2>4, FS_Injection
  <2>6. k - 1 \in I
    BY <1>1 DEF I
  <2>7. PICK t \in T : f[t] = k - 1
    BY <2>5, <2>6 DEF Surjection
  <2>8. QED
    BY <2>7 DEF f
<1>7. QED
  BY <1>1, <1>4, <1>5, <1>6

\* The answer to a range query: every sample of the range, in order.
LEMMA RangeQueryFacts ==
    ASSUME NEW data \in [Steps -> 0 .. 2], NEW from \in Int, NEW to \in Int
    PROVE  /\ RangeQuery(data, from, to) \in Seq(Samples)
           /\ Sorted(RangeQuery(data, from, to))
           /\ \A x : Contains(RangeQuery(data, from, to), x) <=>
                 \E t \in Steps : /\ RoundDown(from) <= t /\ t <= RoundDown(to) /\ data[t] # 0
                                  /\ x = [time |-> t, value |-> data[t]]
<1> DEFINE T == {t \in DOMAIN data : RoundDown(from) <= t /\ t <= RoundDown(to) /\ data[t] # 0}
           at(k) == CHOOSE t \in T : Rank(T, t) = k - 1
           n == Cardinality(T)
           R == RangeQuery(data, from, to)
<1>1. T \subseteq Steps /\ T \subseteq Nat
      /\ T = {t \in Steps : RoundDown(from) <= t /\ t <= RoundDown(to) /\ data[t] # 0}
  BY SampleFacts
<1>2. IsFiniteSet(T)
  <2>1. T \in SUBSET (0 .. MaxTime)
    BY <1>1 DEF Steps
  <2>2. IsFiniteSet(0 .. MaxTime)
    BY CacheAssumption, FS_Interval
  <2> HIDE DEF T
  <2>3. QED
    BY <2>1, <2>2, FS_Subset
<1>3. R = [k \in 1 .. n |-> [time |-> at(k), value |-> data[at(k)]]]
  BY DEF RangeQuery, Rank
<1>4. /\ n \in Nat
      /\ \A t \in T : Rank(T, t) \in 0 .. n - 1
      /\ \A t, v \in T : t < v => Rank(T, t) < Rank(T, v)
      /\ \A k \in 1 .. n : \E t \in T : Rank(T, t) = k - 1
  <2> HIDE DEF T
  <2>1. QED
    BY <1>1, <1>2, RankFacts
<1>5. \A t \in T : data[t] \in 1 .. 2 /\ t \in Steps /\ t \in Nat
  BY <1>1
<1>6. \A x : (\E t \in T : x = [time |-> t, value |-> data[t]]) <=>
             \E t \in Steps : /\ RoundDown(from) <= t /\ t <= RoundDown(to) /\ data[t] # 0
                              /\ x = [time |-> t, value |-> data[t]]
  BY <1>1
<1> HIDE DEF T, n, R
<1>7. \A k \in 1 .. n : at(k) \in T /\ Rank(T, at(k)) = k - 1
  BY <1>4
<1> HIDE DEF at
<1>8. R \in Seq(Samples) /\ Len(R) = n
  <2>1. \A k \in 1 .. n : [time |-> at(k), value |-> data[at(k)]] \in Samples
    BY <1>5, <1>7 DEF Samples
  <2>2. R \in [1 .. n -> Samples]
    BY <1>3, <2>1
  <2>3. R \in Seq(Samples)
    BY <1>4, <2>2
  <2>4. QED
    BY <1>3, <1>4, <2>3, LenProperties
<1>9. Sorted(R)
  <2>1. SUFFICES ASSUME NEW k \in 1 .. n, NEW l \in 1 .. n, k < l
                 PROVE  at(k) < at(l)
    BY <1>3, <1>8 DEF Sorted
  <2>2. at(k) \in T /\ at(l) \in T /\ Rank(T, at(k)) = k - 1 /\ Rank(T, at(l)) = l - 1
    BY <1>7
  <2>3. at(l) < at(k) => l - 1 < k - 1
    BY <1>4, <2>2
  <2>4. at(l) # at(k)
    BY <2>1, <2>2
  <2>5. at(k) \in Nat /\ at(l) \in Nat
    BY <1>5, <2>2
  <2>6. QED
    BY <2>1, <2>3, <2>4, <2>5
<1>10. ASSUME NEW x
       PROVE  Contains(R, x) <=> \E t \in T : x = [time |-> t, value |-> data[t]]
  <2>1. ASSUME Contains(R, x) PROVE \E t \in T : x = [time |-> t, value |-> data[t]]
    <3>1. PICK k \in 1 .. n : R[k] = x
      BY <1>8, <2>1 DEF Contains
    <3>2. x = [time |-> at(k), value |-> data[at(k)]] /\ at(k) \in T
      BY <1>3, <1>7, <3>1
    <3>3. QED
      BY <3>2
  <2>2. ASSUME NEW t \in T, x = [time |-> t, value |-> data[t]] PROVE Contains(R, x)
    <3> DEFINE k == Rank(T, t) + 1
    <3>1. k \in 1 .. n /\ Rank(T, t) = k - 1
      BY <1>4
    <3> HIDE DEF k
    <3>2. at(k) \in T /\ Rank(T, at(k)) = Rank(T, t)
      BY <1>7, <3>1
    <3>3. at(k) = t
      <4>1. ~ (at(k) < t) /\ ~ (t < at(k))
        BY <1>4, <3>2
      <4>2. at(k) \in Nat /\ t \in Nat
        BY <1>5, <3>2
      <4>3. QED
        BY <4>1, <4>2
    <3>4. R[k] = x
      BY <1>3, <2>2, <3>1, <3>3
    <3>5. QED
      BY <1>8, <3>1, <3>4 DEF Contains
  <2>3. QED
    BY <2>1, <2>2
<1>11. QED
  BY <1>6, <1>8, <1>9, <1>10 DEF R

-----------------------------------------------------------------------------
(* Times and samples                                                         *)

LEMMA ProductMonotone ==
    ASSUME NEW a \in Int, NEW b \in Int, NEW d \in Nat, a <= b
    PROVE  a * d <= b * d
<1>1. PICK c \in Nat : b = a + c
  <2>1. b - a \in Nat /\ b = a + (b - a)
    OBVIOUS
  <2>2. QED
    BY <2>1
<1>2. b * d = a * d + c * d
  BY <1>1
<1>3. a * d \in Int /\ c * d \in Nat
  OBVIOUS
<1>4. QED
  BY <1>2, <1>3

\* Rounding down stays within a step, keeps the order and is done once.
LEMMA RoundDownFacts ==
    /\ \A x \in Int : RoundDown(x) \in Int /\ RoundDown(x) <= x /\ x < RoundDown(x) + Step
    /\ \A x, y \in Int : x <= y => RoundDown(x) <= RoundDown(y)
    /\ \A x \in Int : RoundDown(RoundDown(x)) = RoundDown(x)
    /\ \A x \in Int, t \in Steps : t <= x <=> t <= RoundDown(x)
<1>1. Step \in Nat \ {0}
  BY CacheAssumption
<1>2. \A x \in Int : x \div Step \in Int /\ x % Step \in 0 .. Step - 1
                     /\ x = Step * (x \div Step) + (x % Step)
  BY <1>1
<1>3. ASSUME NEW x \in Int
      PROVE  RoundDown(x) \in Int /\ RoundDown(x) <= x /\ x < RoundDown(x) + Step
  <2> DEFINE q == x \div Step
             r == x % Step
  <2>1. q \in Int /\ r \in 0 .. Step - 1 /\ x = Step * q + r
    BY <1>2
  <2>2. RoundDown(x) = q * Step
    BY DEF RoundDown
  <2> HIDE DEF q, r
  <2>3. q * Step = Step * q /\ Step * q \in Int
    BY <1>1, <2>1
  <2>4. QED
    BY <1>1, <2>1, <2>2, <2>3
<1>4. ASSUME NEW x \in Int, NEW q \in Int, q * Step <= x
      PROVE  q <= x \div Step
  <2> DEFINE p == x \div Step
  <2>1. p \in Int /\ x < p * Step + Step
    BY <1>2, <1>3 DEF RoundDown
  <2> HIDE DEF p
  <2>2. SUFFICES ASSUME p + 1 <= q PROVE FALSE
    BY <2>1 DEF p
  <2>3. (p + 1) * Step <= q * Step
    BY <1>1, <2>1, <2>2, ProductMonotone
  <2>4. (p + 1) * Step = p * Step + Step /\ p * Step \in Int /\ q * Step \in Int
    BY <1>1, <2>1
  <2>5. QED
    BY <1>1, <1>4, <2>1, <2>3, <2>4
<1>5. ASSUME NEW x \in Int, NEW q \in Int, q * Step <= x
      PROVE  q * Step <= RoundDown(x)
  <2>1. q <= x \div Step /\ x \div Step \in Int
    BY <1>2, <1>4, <1>5
  <2> DEFINE p == x \div Step
  <2> HIDE DEF p
  <2>2. q * Step <= p * Step
    BY <1>1, <2>1, ProductMonotone DEF p
  <2>3. QED
    BY <2>2 DEF p, RoundDown
<1>6. ASSUME NEW x \in Int, NEW y \in Int, x <= y
      PROVE  RoundDown(x) <= RoundDown(y)
  <2>1. RoundDown(x) <= y
    BY <1>3, <1>6
  <2>2. RoundDown(x) = (x \div Step) * Step /\ x \div Step \in Int
    BY <1>2 DEF RoundDown
  <2>3. QED
    BY <1>5, <2>1, <2>2
<1>7. ASSUME NEW x \in Int
      PROVE  RoundDown(RoundDown(x)) = RoundDown(x)
  <2> DEFINE y == RoundDown(x)
             q == x \div Step
  <2>1. y = q * Step /\ q \in Int /\ y \in Int /\ q * Step <= y
    BY <1>2, <1>3 DEF RoundDown
  <2> HIDE DEF y, q
  <2>2. q * Step <= RoundDown(y) /\ RoundDown(y) <= y /\ RoundDown(y) \in Int
    BY <1>3, <1>5, <2>1
  <2>3. RoundDown(y) = y
    BY <2>1, <2>2
  <2>4. QED
    BY <2>3 DEF y
<1>8. ASSUME NEW x \in Int, NEW t \in Steps
      PROVE  t <= x <=> t <= RoundDown(x)
  <2>1. t \in Nat /\ t % Step = 0
    BY DEF Steps
  <2> DEFINE q == t \div Step
  <2>2. q \in Int /\ t = q * Step
    <3>1. t = Step * (t \div Step) + (t % Step) /\ t \div Step \in Int
      BY <1>2, <2>1
    <3>2. Step * (t \div Step) = (t \div Step) * Step
      BY <1>1, <3>1
    <3>3. QED
      BY <1>1, <2>1, <3>1, <3>2
  <2> HIDE DEF q
  <2>3. t <= x => t <= RoundDown(x)
    BY <1>5, <2>2
  <2>4. RoundDown(x) <= x /\ RoundDown(x) \in Int
    BY <1>3
  <2>5. QED
    BY <2>1, <2>3, <2>4
<1>9. QED
  BY <1>3, <1>6, <1>7, <1>8

LEMMA HasFacts ==
    ASSUME NEW f \in Seq(Samples)
    PROVE  /\ \A t : HasTime(f, t) <=> \E x \in Samples : Contains(f, x) /\ x.time = t
           /\ \A t, v : HasSample(f, t, v) <=> Contains(f, [time |-> t, value |-> v])
           /\ \A x : Contains(f, x) => x \in Samples
<1>1. DOMAIN f = 1 .. Len(f) /\ \A k \in 1 .. Len(f) : f[k] \in Samples
  BY TableFacts
<1>2. QED
  BY <1>1 DEF HasTime, HasSample, Contains

\* What procFrames makes of a table and an answer that holds all there is from
\* the start of the request: the samples before it, and those of the answer.
LEMMA MergeFacts ==
    ASSUME NEW p \in Seq(Samples), Sorted(p), NEW data \in [Steps -> 0 .. 2],
           NEW start \in Int, NEW to \in Int,
           \A x : Contains(p, x) => x.time <= to /\ data[x.time] # 0,
           \/ \A t \in Steps, x \in Samples :
                  RoundDown(start) <= t /\ data[t] # 0 /\ Contains(p, x) /\ t <= x.time
                      => HasTime(p, t)
           \/ \A x : Contains(p, x) => RoundDown(start) <= x.time
    PROVE  LET A == Amended(p, RangeQuery(data, start, to))
           IN  /\ A \in Seq(Samples)
               /\ Sorted(A)
               /\ \A x : Contains(A, x) <=>
                     \/ \E t \in Steps : /\ RoundDown(start) <= t /\ t <= to /\ data[t] # 0
                                         /\ x = [time |-> t, value |-> data[t]]
                     \/ Contains(p, x) /\ x.time < RoundDown(start)
<1> DEFINE q == RangeQuery(data, start, to)
           cut == RoundDown(start)
           New(x) == \E t \in Steps : /\ cut <= t /\ t <= to /\ data[t] # 0
                                      /\ x = [time |-> t, value |-> data[t]]
<1>1. /\ q \in Seq(Samples) /\ Sorted(q)
      /\ \A x : Contains(q, x) <=> New(x)
  <2>1. \A t \in Steps : t <= to <=> t <= RoundDown(to)
    BY RoundDownFacts
  <2>2. QED
    BY <2>1, RangeQueryFacts
<1>2. cut \in Int
  BY RoundDownFacts
<1> HIDE DEF q, cut
<1>3. \A x : Contains(p, x) => x \in Samples /\ x.time \in Steps /\ x.time \in Nat
  BY HasFacts, SampleFacts
<1>4. \A x : Contains(p, x) /\ cut <= x.time => New([time |-> x.time, value |-> data[x.time]])
  BY <1>3
<1>5. \A t : New([time |-> t, value |-> data[t]]) => \E y : Contains(q, y) /\ y.time = t
  <2>1. SUFFICES ASSUME NEW t, New([time |-> t, value |-> data[t]])
                 PROVE  \E y : Contains(q, y) /\ y.time = t
    OBVIOUS
  <2>2. Contains(q, [time |-> t, value |-> data[t]])
    BY <1>1, <2>1
  <2>3. QED
    BY <2>2
<1>6. CASE q = <<>>
  <2>1. Amended(p, q) = p
    BY <1>6 DEF Amended
  <2>2. \A x : ~ Contains(q, x)
    BY <1>6, TableFacts DEF Contains
  <2>3. ASSUME NEW x, Contains(p, x) PROVE x.time < cut
    <3>1. SUFFICES ASSUME cut <= x.time PROVE FALSE
      BY <1>2, <1>3, <2>3
    <3>2. New([time |-> x.time, value |-> data[x.time]])
      BY <1>4, <2>3, <3>1
    <3>3. QED
      BY <1>5, <2>2, <3>2
  <2>4. \A x : Contains(p, x) <=> New(x) \/ (Contains(p, x) /\ x.time < cut)
    BY <1>1, <2>2, <2>3
  <2>5. QED
    BY <2>1, <2>4 DEF q, cut
<1>7. CASE q # <<>>
  <2>1. Amended(p, q) = AmendTable(p, q)
    BY <1>7 DEF Amended
  <2>2. \A l \in 1 .. Len(q) : cut <= q[l].time
    <3>1. SUFFICES ASSUME NEW l \in 1 .. Len(q) PROVE cut <= q[l].time
      OBVIOUS
    <3>2. New(q[l])
      BY <1>1 DEF Contains
    <3>3. QED
      BY <3>2
  <2>3. ASSUME NEW k \in 1 .. Len(p), cut <= p[k].time
        PROVE  \E l \in 1 .. Len(q) : q[l].time = p[k].time
    <3>1. Contains(p, p[k])
      BY DEF Contains
    <3>2. \E y : Contains(q, y) /\ y.time = p[k].time
      BY <1>4, <1>5, <2>3, <3>1
    <3>3. QED
      BY <3>2 DEF Contains
  <2>4. ASSUME \A t \in Steps, x \in Samples :
                   cut <= t /\ data[t] # 0 /\ Contains(p, x) /\ t <= x.time => HasTime(p, t),
               NEW l \in 1 .. Len(q), NEW j \in 1 .. Len(p), q[l].time <= p[j].time
        PROVE  \E k \in 1 .. Len(p) : p[k].time = q[l].time
    <3>1. New(q[l])
      BY <1>1 DEF Contains
    <3>2. PICK t \in Steps : cut <= t /\ data[t] # 0 /\ q[l] = [time |-> t, value |-> data[t]]
      BY <3>1
    <3>3. q[l].time = t
      BY <3>2
    <3>4. Contains(p, p[j]) /\ t <= p[j].time
      BY <2>4, <3>3 DEF Contains
    <3>5. HasTime(p, t)
      BY <1>3, <2>4, <3>2, <3>4
    <3>6. QED
      BY <3>3, <3>5, TableFacts DEF HasTime
  <2>5. /\ AmendTable(p, q) \in Seq(Samples)
        /\ Sorted(AmendTable(p, q))
        /\ \A x : Contains(AmendTable(p, q), x) <=> Contains(q, x) \/ (Contains(p, x) /\ x.time < cut)
    <3>1. CASE \A t \in Steps, x \in Samples :
                  cut <= t /\ data[t] # 0 /\ Contains(p, x) /\ t <= x.time => HasTime(p, t)
      <4>1. \A l \in 1 .. Len(q) : (\E k \in 1 .. Len(p) : q[l].time <= p[k].time)
                                      => \E k \in 1 .. Len(p) : p[k].time = q[l].time
        BY <2>4, <3>1
      <4>2. \A k \in 1 .. Len(p) : cut <= p[k].time => \E l \in 1 .. Len(q) : q[l].time = p[k].time
        BY <2>3
      <4>3. QED
        BY <1>1, <1>2, <1>7, <2>2, <4>1, <4>2, AmendFacts
    <3>2. CASE \A x : Contains(p, x) => cut <= x.time
      <4>1. \A k \in 1 .. Len(p) : cut <= p[k].time
        BY <3>2 DEF Contains
      <4>2. \A k \in 1 .. Len(p) : \E l \in 1 .. Len(q) : q[l].time = p[k].time
        BY <2>3, <4>1
      <4>3. AmendTable(p, q) = q
        BY <1>1, <1>7, <4>2, AmendAllFacts
      <4>4. ASSUME NEW x, Contains(p, x) PROVE ~ (x.time < cut)
        BY <1>2, <1>3, <3>2, <4>4
      <4>5. QED
        BY <1>1, <4>3, <4>4
    <3>3. QED
      BY <3>1, <3>2 DEF cut
  <2>6. QED
    BY <1>1, <2>1, <2>5 DEF q, cut
<1>8. QED
  BY <1>6, <1>7

-----------------------------------------------------------------------------
(* The inductive invariant                                                   *)

\* The target whose entry stands for those of all, and the time from which on
\* the next partial request asks for samples.
Last == Targets[Len(Targets)]
Since == RoundDown(cache[Last].prevTo - Overlap)

\* Where what is shown of a range begins.
Edge(from) == Greatest(RoundDown(from), from - DatapointStep)

LEMMA EdgeFacts ==
    /\ \A x \in Int : /\ Edge(x) \in Int /\ RoundDown(x) <= Edge(x) /\ x - DatapointStep <= Edge(x)
                     /\ Edge(x) \in {RoundDown(x), x - DatapointStep}
    /\ \A x, y \in Int : x <= y => Edge(x) <= Edge(y)
<1>1. DatapointStep \in Nat
  BY CacheAssumption
<1>2. \A a, b \in Int : /\ Greatest(a, b) \in Int /\ Greatest(a, b) \in {a, b}
                       /\ a <= Greatest(a, b) /\ b <= Greatest(a, b)
  BY DEF Greatest
<1>3. ASSUME NEW x \in Int
      PROVE  /\ Edge(x) \in Int /\ RoundDown(x) <= Edge(x) /\ x - DatapointStep <= Edge(x)
             /\ Edge(x) \in {RoundDown(x), x - DatapointStep}
  <2>1. RoundDown(x) \in Int /\ x - DatapointStep \in Int
    BY <1>1, RoundDownFacts
  <2>2. QED
    BY <1>2, <2>1 DEF Edge
<1>4. ASSUME NEW x \in Int, NEW y \in Int, x <= y
      PROVE  Edge(x) <= Edge(y)
  <2>1. /\ RoundDown(x) \in Int /\ RoundDown(y) \in Int /\ RoundDown(x) <= RoundDown(y)
        /\ x - DatapointStep \in Int /\ x - DatapointStep <= y - DatapointStep
        /\ y - DatapointStep \in Int
    BY <1>1, <1>4, RoundDownFacts
  <2>2. /\ Edge(y) \in Int /\ RoundDown(y) <= Edge(y) /\ y - DatapointStep <= Edge(y)
        /\ Edge(x) \in {RoundDown(x), x - DatapointStep}
    BY <1>3
  <2>3. QED
    BY <2>1, <2>2
<1>5. QED
  BY <1>3, <1>4

\* Where the view that an entry was made for begins.
ViewFrom(e) == Edge(e.prevTo - e.sig[2])

Agrees(f, data, t) == IF data[t] = 0 THEN ~ HasTime(f, t) ELSE HasSample(f, t, data[t])

\* Every cached sample has one in the database.
Stored(f, data) == \A x : Contains(f, x) => data[x.time] # 0

\* From a time on, no sample of the database is missing in front of a cached one.
Filled(f, data, from) ==
    \A t \in Steps, x \in Samples :
        from <= t /\ data[t] # 0 /\ Contains(f, x) /\ t <= x.time => HasTime(f, t)

Types ==
    /\ now \in 0 .. MaxTime /\ revisions \in 0 .. MaxRevisions
    /\ db \in [Series -> [Steps -> 0 .. 2]]
    /\ seen = NotSeen \/ seen \in [Series -> [Steps -> 0 .. 2]]
    /\ expr \in [Idents -> Series]
    /\ \A i \in Idents : good[i] \in 0 .. now /\ stale[i] \subseteq Steps

DbOK == \A s \in Series, t \in Steps : db[s][t] # 0 => t <= now

EntryOK(i) ==
    LET e == cache[i]
        data == db[e.sig[1]]
    IN  /\ e.sig \in Series \X Windows \X BOOLEAN
        /\ e.prevTo \in e.sig[2] .. now
        /\ e.frame \in Seq(Samples) /\ Sorted(e.frame)
        /\ \A x : Contains(e.frame, x) =>
              e.prevTo - e.sig[2] - DatapointStep <= x.time /\ x.time <= e.prevTo
        /\ Stored(e.frame, data)
        /\ \A from \in Int : from >= Since /\ from >= ViewFrom(e) => Filled(e.frame, data, from)
        /\ \A t \in Steps : t < good[i] - Overlap /\ t \notin stale[i] /\ ViewFrom(e) <= t
                                => Agrees(e.frame, data, t)

EntriesOK == \A i \in Idents : cache[i] = NoEntry \/ EntryOK(i)

\* A partial request is one that every entry can be merged with; any other has
\* emptied the cache.
RequestOK ==
    request # NoRequest =>
        /\ request.window \in Windows /\ request.from \in Nat
        /\ request.to = request.from + request.window /\ request.to <= now
        /\ request.relative \in BOOLEAN /\ request.partial \in BOOLEAN
        /\ request.sigs = [i \in Idents |-> Signature(expr[i], request.window, request.relative)]
        /\ request.partial =>
              /\ request.relative
              /\ request.start = PartialStart(cache[Last].prevTo, request.from)
              /\ \A i \in Idents : /\ cache[i].sig = request.sigs[i]
                                   /\ Follows(cache[i].prevTo, request.from, request.to)
        /\ ~ request.partial =>
              /\ request.start = request.from
              /\ \A i \in Idents : cache[i] = NoEntry /\ good[i] = 0

\* What the server saw has since changed only where samples may still change,
\* and only behind the last sample that it saw.
SeenOK ==
    seen # NotSeen =>
        /\ request # NoRequest
        /\ \A s \in Series, t \in Steps :
              /\ seen[s][t] # 0 => db[s][t] # 0
              /\ t < request.to - Overlap => seen[s][t] = db[s][t]
              /\ \A u \in Steps : t < u /\ seen[s][u] # 0 /\ db[s][t] # 0 => seen[s][t] # 0
        /\ \A i \in Idents : cache[i] # NoEntry => Stored(cache[i].frame, seen[cache[i].sig[1]])

Inv == Types /\ DbOK /\ EntriesOK /\ RequestOK /\ SeenOK

LEMMA LastFacts == Last \in Idents
<1>1. Targets \in Seq(Idents) /\ Targets # <<>>
  BY CacheAssumption
<1>2. Len(Targets) \in Nat /\ Len(Targets) # 0 /\ DOMAIN Targets = 1 .. Len(Targets)
  BY <1>1, EmptySeq, LenProperties
<1>3. QED
  BY <1>2 DEF Last, Idents

\* What an entry that is there, or is not, is like.
LEMMA EntryFacts ==
    ASSUME Types, EntriesOK, NEW i \in Idents
    PROVE  /\ cache[i].prevTo \in 0 .. now
           /\ cache[i].frame \in Seq(Samples) /\ Sorted(cache[i].frame)
           /\ \A x : Contains(cache[i].frame, x) => x.time <= cache[i].prevTo
           /\ cache[i] = NoEntry => /\ cache[i].frame = <<>> /\ cache[i].sig = <<>>
                                    /\ \A x : ~ Contains(cache[i].frame, x)
           /\ \A e, w, r : cache[i].sig = Signature(e, w, r) => EntryOK(i)
           /\ cache[i] # NoEntry => EntryOK(i)
<1>1. now \in Nat
  BY DEF Types
<1>2. CASE cache[i] = NoEntry
  <2>1. cache[i].prevTo = 0 /\ cache[i].frame = <<>> /\ cache[i].sig = <<>>
    BY <1>2 DEF NoEntry
  <2>2. <<>> \in Seq(Samples) /\ Len(<<>>) = 0
    BY EmptySeq
  <2>3. Sorted(<<>>) /\ \A x : ~ Contains(<<>>, x)
    BY <2>2 DEF Sorted, Contains
  <2>4. \A e, w, r : Signature(e, w, r) # <<>>
    BY DEF Signature
  <2>5. QED
    BY <1>1, <1>2, <2>1, <2>2, <2>3, <2>4
<1>3. CASE cache[i] # NoEntry
  <2>1. EntryOK(i)
    BY <1>3 DEF EntriesOK
  <2>2. cache[i].sig[2] \in Nat
    BY <2>1, CacheAssumption DEF EntryOK
  <2>3. QED
    BY <1>1, <1>3, <2>1, <2>2 DEF EntryOK
<1>4. QED
  BY <1>2, <1>3

-----------------------------------------------------------------------------
(* Answers                                                                   *)

\* From where on an answer holds all there is.
Cut == RoundDown(request.start)

\* What a request asks for, and what is left to the cache.
LEMMA RequestFacts ==
    ASSUME Inv, request # NoRequest
    PROVE  /\ request.window \in Nat /\ request.from \in Nat /\ request.to \in 0 .. now
           /\ request.to = request.from + request.window
           /\ request.start \in Int /\ request.start <= request.to /\ Cut \in Int
           /\ Since \in Int /\ RoundDown(request.from) <= Cut
           /\ RoundDown(request.from) \in Int /\ RoundDown(request.from) <= Edge(request.from)
           /\ Edge(request.from) \in Int /\ request.from - DatapointStep <= Edge(request.from)
           /\ \A i \in Idents : cache[i].prevTo \in Nat /\ cache[i].prevTo <= request.to
           /\ ~ request.partial =>
                  /\ Cut = RoundDown(request.from)
                  /\ Since <= 0
                  /\ \A i \in Idents : cache[i] = NoEntry /\ good[i] = 0
           /\ request.partial =>
                  /\ request.relative /\ Since <= Cut /\ Since < request.to - Overlap
                  /\ Cut = Since \/ Cut = RoundDown(request.from)
                  /\ \A i \in Idents :
                        /\ cache[i] # NoEntry /\ EntryOK(i)
                        /\ cache[i].sig = <<expr[i], request.window, request.relative>>
                        /\ ViewFrom(cache[i]) \in Int
                        /\ ViewFrom(cache[i]) <= Edge(request.from)
                        /\ \/ ViewFrom(cache[i]) <= Cut
                           \/ Cut <= cache[i].prevTo - cache[i].sig[2] - DatapointStep
<1>1. Step \in Nat /\ Step > 0 /\ Overlap \in Nat /\ Windows \subseteq Nat
  BY CacheAssumption
<1>2. /\ request.window \in Nat /\ request.from \in Nat /\ request.to \in 0 .. now
      /\ request.to = request.from + request.window /\ now \in Nat
  <2>1. /\ request.window \in Windows /\ request.from \in Nat
        /\ request.to = request.from + request.window /\ request.to <= now
    BY DEF Inv, RequestOK
  <2>2. now \in Nat
    BY DEF Inv, Types
  <2>3. request.window \in Nat
    BY <1>1, <2>1
  <2>4. request.to \in Nat
    BY <2>1, <2>3
  <2>5. QED
    BY <2>1, <2>2, <2>3, <2>4
<1>3. \A i \in Idents : cache[i].prevTo \in Nat
  BY <1>2, EntryFacts DEF Inv
<1>4. Last \in Idents /\ cache[Last].prevTo - Overlap \in Int
  BY <1>1, <1>3, LastFacts
<1> DEFINE from == request.from
           p == cache[Last].prevTo - Overlap
<1>5. /\ Since = RoundDown(p) /\ Since \in Int /\ Since <= p
      /\ RoundDown(from) \in Int /\ RoundDown(from) <= from
      /\ Edge(from) \in Int /\ RoundDown(from) <= Edge(from) /\ from - DatapointStep <= Edge(from)
  <2>1. from \in Int /\ p \in Int /\ Since = RoundDown(p)
    BY <1>2, <1>4 DEF Since
  <2> HIDE DEF from, p
  <2>2. /\ RoundDown(from) \in Int /\ RoundDown(from) <= from
        /\ RoundDown(p) \in Int /\ RoundDown(p) <= p
    BY <2>1, RoundDownFacts
  <2>4. Edge(from) \in Int /\ RoundDown(from) <= Edge(from) /\ from - DatapointStep <= Edge(from)
    BY <2>1, EdgeFacts
  <2>3. QED
    BY <1>1, <2>1, <2>2, <2>4
<1>6. CASE request.partial
  <2>1. /\ request.relative
        /\ request.start = RoundDown(Greatest(p, from))
        /\ \A i \in Idents : cache[i].sig = Signature(expr[i], request.window, request.relative)
    BY <1>6 DEF Inv, RequestOK, PartialStart
  <2>2. \A i \in Idents : cache[i].prevTo < request.to /\ request.from <= cache[i].prevTo
    <3>1. \A i \in Idents : Follows(cache[i].prevTo, request.from, request.to)
      BY <1>6 DEF Inv, RequestOK
    <3>2. QED
      BY <1>2, <1>3, <3>1 DEF Follows
  <2>3. /\ from \in Int /\ p \in Int
    BY <1>2, <1>4
  <2>4. Greatest(p, from) \in {p, from} /\ p <= Greatest(p, from) /\ from <= Greatest(p, from)
    BY <2>3 DEF Greatest
  <2>5. /\ request.start = RoundDown(Greatest(p, from)) /\ request.start = Cut
        /\ request.start \in Int /\ request.start <= Greatest(p, from)
        /\ RoundDown(p) <= request.start /\ RoundDown(from) <= request.start
        /\ request.start = RoundDown(p) \/ request.start = RoundDown(from)
    <3> DEFINE g == Greatest(p, from)
    <3>1. g \in Int /\ p <= g /\ from <= g /\ g \in {p, from}
      BY <2>3, <2>4
    <3> HIDE DEF g, p, from
    <3>2. /\ RoundDown(g) \in Int /\ RoundDown(g) <= g /\ RoundDown(RoundDown(g)) = RoundDown(g)
          /\ RoundDown(p) <= RoundDown(g) /\ RoundDown(from) <= RoundDown(g)
          /\ RoundDown(g) = RoundDown(p) \/ RoundDown(g) = RoundDown(from)
      BY <2>3, <3>1, RoundDownFacts
    <3>3. request.start = RoundDown(g)
      BY <2>1 DEF g
    <3>4. QED
      BY <3>2, <3>3 DEF Cut, g
  <2>6. p < request.to - Overlap /\ p <= request.to /\ from <= request.to
    BY <1>1, <1>2, <1>3, <1>4, <2>2
  <2>7. request.start <= request.to /\ Since < request.to - Overlap
    <3> HIDE DEF p, from
    <3>1. request.to \in Int
      BY <1>2
    <3>2. QED
      BY <1>1, <1>5, <2>3, <2>4, <2>5, <2>6, <3>1
  <2>8. ASSUME NEW i \in Idents
        PROVE  /\ cache[i] # NoEntry /\ EntryOK(i)
               /\ cache[i].sig = <<expr[i], request.window, request.relative>>
               /\ ViewFrom(cache[i]) \in Int /\ ViewFrom(cache[i]) <= Edge(from)
               /\ \/ ViewFrom(cache[i]) <= Cut
                  \/ Cut <= cache[i].prevTo - cache[i].sig[2] - DatapointStep
    <3>1. cache[i].sig = Signature(expr[i], request.window, request.relative)
      BY <2>1, <2>8
    <3>2. EntryOK(i) /\ (cache[i] = NoEntry => cache[i].sig = <<>>)
      BY <2>8, <3>1, EntryFacts DEF Inv
    <3>3. cache[i].sig = <<expr[i], request.window, request.relative>> /\ cache[i].sig # <<>>
      BY <3>1 DEF Signature
    <3>4. cache[i].sig[2] = request.window
      BY <3>3
    <3>5. /\ cache[i].prevTo - cache[i].sig[2] \in Int
          /\ cache[i].prevTo - cache[i].sig[2] <= from
      BY <1>2, <1>3, <2>8, <2>2, <3>4
    <3> DEFINE v == cache[i].prevTo - cache[i].sig[2]
    <3>6. ViewFrom(cache[i]) = Edge(v) /\ v \in Int /\ v <= from
      BY <3>5 DEF ViewFrom
    <3> HIDE DEF v, from
    <3>7. Edge(v) \in Int /\ Edge(v) <= Edge(from) /\ Edge(v) \in {RoundDown(v), v - DatapointStep}
      BY <2>3, <3>6, EdgeFacts
    <3>8. RoundDown(v) \in Int /\ RoundDown(v) <= RoundDown(from)
      BY <2>3, <3>6, RoundDownFacts
    <3>9. RoundDown(from) <= Cut /\ Cut \in Int
      BY <2>5
    <3>10. Edge(v) <= Cut \/ Cut <= v - DatapointStep
      <4>1. CASE Edge(v) = RoundDown(v)
        BY <1>5, <3>8, <3>9, <4>1
      <4>2. CASE Edge(v) = v - DatapointStep
        BY <3>7, <3>9, <4>2
      <4>3. QED
        BY <3>7, <4>1, <4>2
    <3>11. QED
      BY <3>2, <3>3, <3>6, <3>7, <3>10 DEF v
  <2>9. \A i \in Idents : cache[i].prevTo <= request.to
    BY <1>2, <1>3, <2>2
  <2>10. QED
    BY <1>2, <1>3, <1>5, <1>6, <2>1, <2>5, <2>7, <2>8, <2>9
<1>7. CASE ~ request.partial
  <2>1. request.start = from /\ \A i \in Idents : cache[i] = NoEntry /\ good[i] = 0
    BY <1>7 DEF Inv, RequestOK
  <2>2. \A i \in Idents : cache[i].prevTo = 0
    BY <2>1 DEF NoEntry
  <2>3. p <= 0
    BY <1>1, <1>4, <2>2
  <2>4. Since <= 0
    <3> HIDE DEF p
    <3>1. p \in Int
      BY <1>4 DEF p
    <3>2. QED
      BY <1>5, <2>3, <3>1
  <2>5. Cut = RoundDown(from) /\ request.start <= request.to
    BY <1>2, <2>1 DEF Cut
  <2>6. QED
    BY <1>2, <1>3, <1>5, <1>7, <2>1, <2>2, <2>4, <2>5
<1>8. QED
  BY <1>6, <1>7

\* What the cache makes of an answer with data: what it had from before the
\* request, as far as it is still in view, and the samples that the server saw.
LEMMA DataFacts ==
    ASSUME Inv, request # NoRequest, seen # NotSeen, request.relative, NEW i \in Idents
    PROVE  /\ Entry(i, "data").frame \in Seq(Samples) /\ Sorted(Entry(i, "data").frame)
           /\ \A x : Contains(Entry(i, "data").frame, x) <=>
                 /\ request.from - DatapointStep <= x.time
                 /\ \/ \E t \in Steps : /\ Cut <= t /\ t <= request.to /\ seen[expr[i]][t] # 0
                                        /\ x = [time |-> t, value |-> seen[expr[i]][t]]
                    \/ Contains(cache[i].frame, x) /\ x.time < Cut
<1> DEFINE p == cache[i].frame
           data == seen[expr[i]]
           start == request.start
           to == request.to
           from == request.from - DatapointStep
           A == Amended(p, RangeQuery(data, start, to))
<1>1. DatapointStep \in Nat /\ now \in Nat
  BY CacheAssumption DEF Inv, Types
<1>2. start \in Int /\ to \in Int /\ from \in Int /\ Cut \in Int
  BY <1>1, RequestFacts
<1>3. data \in [Steps -> 0 .. 2] /\ expr[i] \in Series
  BY DEF Inv, Types
<1>4. /\ p \in Seq(Samples) /\ Sorted(p)
      /\ \A x : Contains(p, x) => x.time <= cache[i].prevTo
  BY EntryFacts DEF Inv
<1>5. \A x : Contains(p, x) => x \in Samples /\ x.time \in Nat
  BY <1>4, HasFacts, SampleFacts
<1>6. \A x : Contains(p, x) => x.time <= to /\ data[x.time] # 0
  <2>1. SUFFICES ASSUME NEW x, Contains(p, x) PROVE x.time <= to /\ data[x.time] # 0
    OBVIOUS
  <2>2. cache[i].prevTo \in Nat /\ cache[i].prevTo <= to
    BY RequestFacts
  <2>3. cache[i] # NoEntry
    BY <2>1, EntryFacts DEF Inv
  <2>4. cache[i].sig = <<expr[i], request.window, request.relative>>
    BY <2>3, RequestFacts DEF Inv, RequestOK
  <2>5. cache[i].sig[1] = expr[i] /\ Stored(p, seen[cache[i].sig[1]])
    BY <2>3, <2>4 DEF Inv, SeenOK
  <2>6. QED
    BY <1>2, <1>4, <1>5, <2>1, <2>2, <2>5 DEF Stored
<1>7. \/ \A t \in Steps, x \in Samples :
            RoundDown(start) <= t /\ data[t] # 0 /\ Contains(p, x) /\ t <= x.time => HasTime(p, t)
      \/ \A x : Contains(p, x) => RoundDown(start) <= x.time
  <2>1. CASE \A x : ~ Contains(p, x)
    BY <2>1
  <2>2. CASE \E x : Contains(p, x)
    <3>1. cache[i] # NoEntry
      BY <2>2, EntryFacts DEF Inv
    <3>2. request.partial
      BY <3>1, RequestFacts DEF Inv, RequestOK
    <3>3. /\ EntryOK(i) /\ cache[i].sig = <<expr[i], request.window, request.relative>>
          /\ Since <= Cut /\ ViewFrom(cache[i]) \in Int
          /\ \/ ViewFrom(cache[i]) <= Cut
             \/ Cut <= cache[i].prevTo - cache[i].sig[2] - DatapointStep
      BY <3>2, RequestFacts
    <3>4. cache[i].sig[1] = expr[i] /\ cache[i].sig[2] = request.window
      BY <3>3
    <3>5. CASE ViewFrom(cache[i]) <= Cut
      <4>1. SUFFICES ASSUME NEW t \in Steps, NEW x \in Samples,
                            RoundDown(start) <= t, data[t] # 0, Contains(p, x), t <= x.time
                     PROVE  HasTime(p, t)
        OBVIOUS
      <4>2. Filled(p, db[expr[i]], Cut)
        BY <1>2, <3>3, <3>4, <3>5 DEF EntryOK
      <4>3. db[expr[i]][t] # 0
        BY <1>3, <4>1 DEF Inv, SeenOK
      <4>4. QED
        BY <4>1, <4>2, <4>3 DEF Filled, Cut
    <3>6. CASE Cut <= cache[i].prevTo - cache[i].sig[2] - DatapointStep
      <4>1. cache[i].prevTo - cache[i].sig[2] - DatapointStep \in Int
        <5>1. cache[i].prevTo \in Nat /\ request.window \in Nat /\ DatapointStep \in Nat
          BY RequestFacts, CacheAssumption
        <5>2. QED
          BY <3>4, <5>1
      <4>2. \A x : Contains(p, x) => cache[i].prevTo - cache[i].sig[2] - DatapointStep <= x.time
        BY <3>3 DEF EntryOK
      <4> DEFINE v == cache[i].prevTo - cache[i].sig[2] - DatapointStep
      <4>3. \A x : Contains(p, x) => v <= x.time /\ x.time \in Nat
        BY <1>5, <4>2
      <4>4. v \in Int /\ Cut <= v
        BY <3>6, <4>1
      <4> HIDE DEF v, p
      <4>5. \A x : Contains(p, x) => Cut <= x.time
        BY <1>2, <4>3, <4>4
      <4>6. QED
        BY <4>5 DEF Cut, p
    <3>7. QED
      BY <3>3, <3>5, <3>6
  <2>3. QED
    BY <2>1, <2>2
<1>8. /\ A \in Seq(Samples) /\ Sorted(A)
      /\ \A x : Contains(A, x) <=>
            \/ \E t \in Steps : /\ Cut <= t /\ t <= to /\ data[t] # 0
                                /\ x = [time |-> t, value |-> data[t]]
            \/ Contains(p, x) /\ x.time < Cut
  <2> HIDE DEF p, data, start, to
  <2>1. QED
    BY <1>2, <1>3, <1>4, <1>6, <1>7, MergeFacts DEF Cut, start
<1>9. Entry(i, "data").frame = TrimTable(A, from, to)
  BY DEF Entry, RespFrame, Trimmed
<1> HIDE DEF A
<1>10. \A k \in 1 .. Len(A) : A[k].time <= to
  <2>1. SUFFICES ASSUME NEW k \in 1 .. Len(A) PROVE A[k].time <= to
    OBVIOUS
  <2>2. Contains(A, A[k])
    BY DEF Contains
  <2>3. QED
    BY <1>6, <1>8, <2>2
<1>11. /\ TrimTable(A, from, to) \in Seq(Samples)
       /\ Sorted(TrimTable(A, from, to))
       /\ \A x : Contains(TrimTable(A, from, to), x) <=> Contains(A, x) /\ from <= x.time
  <2> HIDE DEF from, to
  <2>1. QED
    BY <1>2, <1>8, <1>10, TrimFacts
<1>12. QED
  BY <1>8, <1>9, <1>11

\* An error beside an empty frame leaves what is still in view.
LEMMA ErrorFacts ==
    ASSUME Inv, request # NoRequest, NEW i \in Idents, NEW o, o # "data"
    PROVE  /\ Entry(i, o).frame \in Seq(Samples) /\ Sorted(Entry(i, o).frame)
           /\ \A x : Contains(Entry(i, o).frame, x) <=>
                 request.from - DatapointStep <= x.time /\ Contains(cache[i].frame, x)
<1> DEFINE p == cache[i].frame
           to == request.to
           from == request.from - DatapointStep
<1>1. DatapointStep \in Nat /\ now \in Nat
  BY CacheAssumption DEF Inv, Types
<1>2. to \in Int /\ from \in Int
  BY <1>1, RequestFacts
<1>3. /\ p \in Seq(Samples) /\ Sorted(p)
      /\ \A x : Contains(p, x) => x.time <= cache[i].prevTo
  BY EntryFacts DEF Inv
<1>4. \A k \in 1 .. Len(p) : p[k].time <= to
  <2>1. SUFFICES ASSUME NEW k \in 1 .. Len(p) PROVE p[k].time <= to
    OBVIOUS
  <2>2. Contains(p, p[k]) /\ p[k].time \in Nat
    BY <1>3, TableFacts DEF Contains
  <2>3. cache[i].prevTo \in Nat /\ cache[i].prevTo <= to
    BY RequestFacts
  <2>4. QED
    BY <1>2, <1>3, <2>2, <2>3
<1>5. Entry(i, o).frame = TrimTable(p, from, to)
  BY DEF Entry, RespFrame, Trimmed, Amended
<1>6. /\ TrimTable(p, from, to) \in Seq(Samples)
      /\ Sorted(TrimTable(p, from, to))
      /\ \A x : Contains(TrimTable(p, from, to), x) <=> Contains(p, x) /\ from <= x.time
  <2> HIDE DEF p, from, to
  <2>1. QED
    BY <1>2, <1>3, <1>4, TrimFacts
<1>7. QED
  BY <1>5, <1>6

\* A table agrees with the data at a time when it has the sample there, if there
\* is one, and no other.
LEMMA AgreesFacts ==
    ASSUME NEW f \in Seq(Samples), NEW data \in [Steps -> 0 .. 2], NEW t \in Steps
    PROVE  Agrees(f, data, t) <=>
              IF data[t] = 0 THEN \A x \in Samples : Contains(f, x) => x.time # t
                             ELSE Contains(f, [time |-> t, value |-> data[t]])
BY HasFacts DEF Agrees

\* At the times that are not stale an answer with data shows what the server saw.
LEMMA DataIsShown ==
    ASSUME Inv, request # NoRequest, seen # NotSeen, request.relative, NEW i \in Idents,
           NEW t \in Steps, Edge(request.from) <= t, t <= request.to,
           t \notin StaleAfterData(i)
    PROVE  Agrees(Entry(i, "data").frame, seen[expr[i]], t)
<1> DEFINE F == Entry(i, "data").frame
           p == cache[i].frame
           data == seen[expr[i]]
           New(x) == \E u \in Steps : /\ Cut <= u /\ u <= request.to /\ data[u] # 0
                                      /\ x = [time |-> u, value |-> data[u]]
<1>1. /\ F \in Seq(Samples) /\ p \in Seq(Samples)
      /\ \A x : Contains(F, x) <=>
            request.from - DatapointStep <= x.time /\ (New(x) \/ (Contains(p, x) /\ x.time < Cut))
  BY DataFacts, EntryFacts DEF Inv
<1>2. data \in [Steps -> 0 .. 2] /\ expr[i] \in Series /\ t \in Nat
      /\ DatapointStep \in Nat /\ Overlap \in Nat /\ now \in Nat
  BY CacheAssumption, SampleFacts DEF Inv, Types
<1>3. /\ Cut \in Int /\ Since \in Int /\ request.from \in Nat /\ request.to \in Nat
      /\ RoundDown(request.from) \in Int /\ Edge(request.from) \in Int
      /\ RoundDown(request.from) <= t /\ request.from - DatapointStep <= t
  <2>1. /\ Cut \in Int /\ Since \in Int /\ request.from \in Nat /\ request.to \in Nat
        /\ RoundDown(request.from) \in Int /\ RoundDown(request.from) <= Edge(request.from)
        /\ Edge(request.from) \in Int /\ request.from - DatapointStep <= Edge(request.from)
    BY <1>2, RequestFacts
  <2>2. QED
    BY <1>2, <2>1
<1> HIDE DEF F, p, data
<1>4. CASE Cut <= t
  <2>1. CASE data[t] = 0
    <3>1. \A x \in Samples : Contains(F, x) => x.time # t
      <4>1. SUFFICES ASSUME NEW x \in Samples, Contains(F, x), x.time = t PROVE FALSE
        OBVIOUS
      <4>2. ~ (x.time < Cut)
        BY <1>2, <1>3, <1>4, <4>1
      <4>3. New(x)
        BY <1>1, <4>1, <4>2
      <4>4. QED
        BY <2>1, <4>1, <4>3
    <3>2. QED
      BY <1>1, <1>2, <2>1, <3>1, AgreesFacts DEF F, data
  <2>2. CASE data[t] # 0
    <3>1. New([time |-> t, value |-> data[t]])
      BY <1>4, <2>2
    <3>2. Contains(F, [time |-> t, value |-> data[t]])
      BY <1>1, <1>3, <3>1
    <3>3. QED
      BY <1>1, <1>2, <2>2, <3>2, AgreesFacts DEF F, data
  <2>3. QED
    BY <2>1, <2>2
<1>5. CASE ~ (Cut <= t)
  <2>1. t < Cut
    BY <1>2, <1>3, <1>5
  <2>2. request.partial /\ t < Since
    <3>1. Cut # RoundDown(request.from)
      BY <1>2, <1>3, <2>1
    <3>2. request.partial
      BY <3>1, RequestFacts
    <3>3. Cut = Since
      BY <3>1, <3>2, RequestFacts
    <3>4. QED
      BY <2>1, <3>2, <3>3
  <2>3. t \notin stale[i] /\ ~ (t >= good[i] - Overlap)
    BY <2>2 DEF StaleAfterData, Since, Last
  <2>4. good[i] - Overlap \in Int
    BY <1>2 DEF Inv, Types
  <2>5. t < good[i] - Overlap
    BY <1>2, <2>3, <2>4
  <2>6. /\ EntryOK(i) /\ cache[i].sig = <<expr[i], request.window, request.relative>>
        /\ ViewFrom(cache[i]) \in Int /\ ViewFrom(cache[i]) <= Edge(request.from)
        /\ Since < request.to - Overlap
    BY <2>2, RequestFacts
  <2>7. ViewFrom(cache[i]) <= t /\ t < request.to - Overlap
    BY <1>2, <1>3, <2>2, <2>6
  <2>8. Agrees(p, db[expr[i]], t)
    <3>1. cache[i].sig[1] = expr[i]
      BY <2>6
    <3>2. QED
      BY <2>3, <2>5, <2>6, <2>7, <3>1 DEF EntryOK, p
  <2>9. data[t] = db[expr[i]][t]
    BY <1>2, <2>7 DEF Inv, SeenOK, data
  <2>10. Agrees(p, data, t)
    BY <2>8, <2>9 DEF Agrees
  <2>11. \A x \in Samples : x.time = t => (Contains(F, x) <=> Contains(p, x))
    <3>1. SUFFICES ASSUME NEW x \in Samples, x.time = t
                   PROVE  Contains(F, x) <=> Contains(p, x)
      OBVIOUS
    <3>2. ~ New(x)
      BY <1>5, <3>1
    <3>3. QED
      BY <1>1, <1>3, <2>1, <3>1, <3>2
  <2>12. CASE data[t] = 0
    <3>1. \A x \in Samples : Contains(p, x) => x.time # t
      BY <1>1, <1>2, <2>10, <2>12, AgreesFacts
    <3>2. \A x \in Samples : Contains(F, x) => x.time # t
      BY <2>11, <3>1
    <3>3. QED
      BY <1>1, <1>2, <2>12, <3>2, AgreesFacts DEF F, data
  <2>13. CASE data[t] # 0
    <3>1. Contains(p, [time |-> t, value |-> data[t]])
      BY <1>1, <1>2, <2>10, <2>13, AgreesFacts
    <3>2. [time |-> t, value |-> data[t]] \in Samples
      BY <1>1, <3>1, HasFacts
    <3>3. Contains(F, [time |-> t, value |-> data[t]])
      BY <2>11, <3>1, <3>2
    <3>4. QED
      BY <1>1, <1>2, <2>13, <3>3, AgreesFacts DEF F, data
  <2>14. QED
    BY <2>12, <2>13
<1>6. QED
  BY <1>4, <1>5 DEF F, data

-----------------------------------------------------------------------------
(* The steps                                                                 *)

LEMMA InitInv == Init => Inv
<1>1. SUFFICES ASSUME Init PROVE Inv
  OBVIOUS
<1>2. MaxTime \in Nat /\ MaxRevisions \in Nat /\ Overlap \in Nat
  BY CacheAssumption
<1>3. now \in 0 .. MaxTime
  BY <1>1, <1>2 DEF Init
<1>4. Types
  BY <1>1, <1>2, <1>3 DEF Init, Types
<1>5. DbOK
  <2>1. SUFFICES ASSUME NEW s \in Series, NEW t \in Steps, db[s][t] # 0
                 PROVE  t <= now
    BY DEF DbOK
  <2>2. t < now - Overlap \/ t <= now
    BY <1>1, <2>1 DEF Init
  <2>3. QED
    BY <1>2, <1>3, <2>2, SampleFacts
<1>6. EntriesOK
  BY <1>1 DEF Init, EntriesOK
<1>7. RequestOK /\ SeenOK
  BY <1>1 DEF Init, RequestOK, SeenOK
<1>8. QED
  BY <1>4, <1>5, <1>6, <1>7 DEF Inv

\* The database may change where samples may still change, and what is new is
\* new behind all that is there.
LEMMA DatabaseStep ==
    ASSUME Inv, Types', DbOK', now <= now',
           UNCHANGED <<expr, cache, request, seen, good, stale>>,
           \A s \in Series, t \in Steps : db[s][t] # 0 => db'[s][t] # 0,
           \A s \in Series, t \in Steps : t < now - Overlap => db'[s][t] = db[s][t],
           \A s \in Series, t, u \in Steps :
                t < u /\ db[s][t] = 0 /\ db'[s][t] # 0 => db[s][u] = 0
    PROVE  Inv'
<1>1. /\ now \in Nat /\ now' \in Nat /\ Overlap \in Nat /\ Steps \subseteq Nat
      /\ \A i \in Idents : good[i] \in Nat /\ good[i] <= now
  BY CacheAssumption, SampleFacts DEF Inv, Types
<1>2. Last \in Idents /\ Last' = Last /\ Since' = Since
  BY LastFacts DEF Last, Since
<1>3. ASSUME NEW i \in Idents, cache[i] # NoEntry
      PROVE  EntryOK(i)'
  <2> DEFINE e == cache[i]
             s == e.sig[1]
  <2>1. EntryOK(i) /\ cache'[i] = e /\ good'[i] = good[i] /\ stale'[i] = stale[i]
    BY <1>3 DEF Inv, EntriesOK
  <2>2. s \in Series /\ e.prevTo \in e.sig[2] .. now /\ e.sig[2] \in Nat /\ e.frame \in Seq(Samples)
    BY <2>1, CacheAssumption DEF EntryOK
  <2>3. e.prevTo \in e.sig[2] .. now'
    BY <1>1, <2>2
  <2>4. Stored(e.frame, db[s]) /\ \A x : Contains(e.frame, x) => x \in Samples /\ x.time \in Steps
    BY <2>1, <2>2, HasFacts, SampleFacts DEF EntryOK
  <2>5. Stored(e.frame, db'[s])
    BY <2>2, <2>4 DEF Stored
  <2>6. ASSUME NEW from \in Int, from >= Since, from >= ViewFrom(e)
        PROVE  Filled(e.frame, db'[s], from)
    <3>1. Filled(e.frame, db[s], from)
      BY <2>1, <2>6 DEF EntryOK
    <3>2. SUFFICES ASSUME NEW t \in Steps, NEW x \in Samples,
                          from <= t, db'[s][t] # 0, Contains(e.frame, x), t <= x.time
                   PROVE  HasTime(e.frame, t)
      BY DEF Filled
    <3>3. x.time \in Steps /\ db[s][x.time] # 0
      BY <2>4, <3>2 DEF Stored
    <3>4. db[s][t] # 0
      <4>1. t \in Nat /\ x.time \in Nat
        BY <1>1, <3>3
      <4>2. CASE t = x.time
        BY <3>3, <4>2
      <4>3. CASE t < x.time
        BY <2>2, <3>2, <3>3, <4>3
      <4>4. QED
        BY <3>2, <4>1, <4>2, <4>3
    <3>5. QED
      BY <3>1, <3>2, <3>4 DEF Filled
  <2>7. ASSUME NEW t \in Steps, t < good[i] - Overlap, t \notin stale[i], ViewFrom(e) <= t
        PROVE  Agrees(e.frame, db'[s], t)
    <3>1. Agrees(e.frame, db[s], t)
      BY <2>1, <2>7 DEF EntryOK
    <3>2. t < now - Overlap
      BY <1>1, <2>7
    <3>3. db'[s][t] = db[s][t]
      BY <2>2, <3>2
    <3>4. QED
      BY <3>1, <3>3 DEF Agrees
  <2>8. /\ e.sig \in Series \X Windows \X BOOLEAN
        /\ Sorted(e.frame)
        /\ \A x : Contains(e.frame, x) =>
              e.prevTo - e.sig[2] - DatapointStep <= x.time /\ x.time <= e.prevTo
    BY <2>1 DEF EntryOK
  <2>9. QED
    BY <1>2, <2>1, <2>2, <2>3, <2>5, <2>6, <2>7, <2>8 DEF EntryOK, ViewFrom
<1>4. EntriesOK'
  BY <1>3 DEF EntriesOK, NoEntry
<1>5. RequestOK'
  <2>1. request # NoRequest => request.to \in Nat
    BY RequestFacts
  <2>2. request # NoRequest => request.to <= now'
    BY <1>1, <2>1 DEF Inv, RequestOK
  <2>3. QED
    BY <1>2, <2>2 DEF Inv, RequestOK, NoRequest, Signature, PartialStart, Follows, NoEntry
<1>6. SeenOK'
  <2>1. SUFFICES ASSUME seen # NotSeen PROVE SeenOK'
    BY DEF SeenOK, NotSeen
  <2>2. /\ request # NoRequest /\ request.to \in Nat /\ request.to <= now
        /\ seen \in [Series -> [Steps -> 0 .. 2]]
    BY <2>1, RequestFacts DEF Inv, SeenOK, Types
  <2>3. ASSUME NEW s \in Series, NEW t \in Steps
        PROVE  /\ seen[s][t] # 0 => db'[s][t] # 0
               /\ t < request.to - Overlap => seen[s][t] = db'[s][t]
               /\ \A u \in Steps : t < u /\ seen[s][u] # 0 /\ db'[s][t] # 0 => seen[s][t] # 0
    <3>1. /\ seen[s][t] # 0 => db[s][t] # 0
          /\ t < request.to - Overlap => seen[s][t] = db[s][t]
      BY <2>1 DEF Inv, SeenOK
    <3>2. t < request.to - Overlap => t < now - Overlap
      BY <1>1, <2>2
    <3>3. ASSUME NEW u \in Steps, t < u, seen[s][u] # 0, db'[s][t] # 0
          PROVE  seen[s][t] # 0
      <4>1. db[s][u] # 0
        BY <2>1, <3>3 DEF Inv, SeenOK
      <4>2. db[s][t] # 0
        BY <3>3, <4>1
      <4>3. QED
        BY <2>1, <3>3, <4>2 DEF Inv, SeenOK
    <3>4. QED
      BY <3>1, <3>2, <3>3
  <2>4. QED
    BY <2>1, <2>2, <2>3 DEF Inv, SeenOK, NotSeen, NoRequest, NoEntry, Stored, Contains
<1>7. QED
  BY <1>4, <1>5, <1>6 DEF Inv

LEMMA TickInv ==
    ASSUME Inv, Tick PROVE Inv'
<1>1. /\ now \in Nat /\ now' = now + 1 /\ now' \in 0 .. MaxTime /\ MaxTime \in Nat /\ Overlap \in Nat
      /\ Steps \subseteq Nat /\ db \in [Series -> [Steps -> 0 .. 2]]
  BY CacheAssumption, SampleFacts DEF Inv, Types, Tick
<1>2. \A s \in Series, t \in Steps :
          db'[s][t] = IF s \in Regular /\ t = now + 1 THEN 1 ELSE db[s][t]
  BY <1>1 DEF Tick
<1>3. db' \in [Series -> [Steps -> 0 .. 2]]
  BY <1>1 DEF Tick
<1>4. \A s \in Series, t \in Steps : db[s][t] # 0 => t <= now
  BY DEF Inv, DbOK
<1>5. Types'
  <2>1. \A i \in Idents : good'[i] \in 0 .. now' /\ stale'[i] \subseteq Steps
    BY <1>1 DEF Inv, Types, Tick
  <2>2. QED
    BY <1>1, <1>3, <2>1 DEF Inv, Types, Tick, NotSeen
<1>6. DbOK'
  BY <1>1, <1>2, <1>4 DEF DbOK
<1>7. \A s \in Series, t \in Steps : db[s][t] # 0 => db'[s][t] # 0
  BY <1>2
<1>8. \A s \in Series, t \in Steps : t < now - Overlap => db'[s][t] = db[s][t]
  BY <1>1, <1>2
<1>9. \A s \in Series, t, u \in Steps :
          t < u /\ db[s][t] = 0 /\ db'[s][t] # 0 => db[s][u] = 0
  <2>1. SUFFICES ASSUME NEW s \in Series, NEW t \in Steps, NEW u \in Steps,
                        t < u, db[s][t] = 0, db'[s][t] # 0
                 PROVE  db[s][u] = 0
    OBVIOUS
  <2>2. t = now + 1
    BY <1>2, <2>1
  <2>3. ~ (u <= now)
    BY <1>1, <2>1, <2>2
  <2>4. QED
    BY <1>4, <2>3
<1>10. UNCHANGED <<expr, cache, request, seen, good, stale>> /\ now <= now'
  BY <1>1 DEF Tick
<1>11. QED
  BY <1>5, <1>6, <1>7, <1>8, <1>9, <1>10, DatabaseStep

LEMMA ArriveInv ==
    ASSUME ~ LateSamples, Inv, NEW s \in Series, NEW t \in Steps, Arrive(s, t)
    PROVE  Inv'
<1>1. /\ now \in Nat /\ now' = now /\ Overlap \in Nat /\ t \in Nat /\ t <= now
      /\ ~ (t < now - Overlap)
      /\ Steps \subseteq Nat /\ db \in [Series -> [Steps -> 0 .. 2]]
  BY CacheAssumption, SampleFacts DEF Inv, Types, Arrive
<1>2. \A r \in Series, v \in Steps : db'[r][v] = IF r = s /\ v = t THEN 1 ELSE db[r][v]
  BY <1>1 DEF Arrive
<1>3. db' \in [Series -> [Steps -> 0 .. 2]]
  BY <1>1 DEF Arrive
<1>4. db[s][t] = 0 /\ \A u \in Steps : u > t => db[s][u] = 0
  BY DEF Arrive
<1>5. Types'
  BY <1>1, <1>3 DEF Inv, Types, Arrive, NotSeen
<1>6. DbOK'
  BY <1>1, <1>2 DEF Inv, DbOK
<1>7. \A r \in Series, v \in Steps : db[r][v] # 0 => db'[r][v] # 0
  BY <1>2
<1>8. \A r \in Series, v \in Steps : v < now - Overlap => db'[r][v] = db[r][v]
  BY <1>1, <1>2
<1>9. \A r \in Series, v, u \in Steps :
          v < u /\ db[r][v] = 0 /\ db'[r][v] # 0 => db[r][u] = 0
  BY <1>1, <1>2, <1>4
<1>10. UNCHANGED <<expr, cache, request, seen, good, stale>> /\ now <= now'
  BY <1>1 DEF Arrive
<1>11. QED
  BY <1>5, <1>6, <1>7, <1>8, <1>9, <1>10, DatabaseStep

LEMMA ReviseInv ==
    ASSUME Inv, NEW s \in Series, NEW t \in Steps, Revise(s, t)
    PROVE  Inv'
<1>1. /\ now \in Nat /\ now' = now /\ Overlap \in Nat /\ t \in Nat
      /\ ~ (t < now - Overlap) /\ MaxRevisions \in Nat
      /\ Steps \subseteq Nat /\ db \in [Series -> [Steps -> 0 .. 2]]
  BY CacheAssumption, SampleFacts DEF Inv, Types, Revise
<1>2. \A r \in Series, v \in Steps : db'[r][v] = IF r = s /\ v = t THEN 2 ELSE db[r][v]
  BY <1>1 DEF Revise
<1>3. db' \in [Series -> [Steps -> 0 .. 2]]
  BY <1>1 DEF Revise
<1>4. db[s][t] = 1
  BY DEF Revise
<1>5. Types'
  <2>1. revisions' \in 0 .. MaxRevisions
    BY <1>1 DEF Inv, Types, Revise
  <2>2. QED
    BY <1>1, <1>3, <2>1 DEF Inv, Types, Revise, NotSeen
<1>6. \A r \in Series, v \in Steps : db[r][v] # 0 <=> db'[r][v] # 0
  BY <1>2, <1>4
<1>7. DbOK'
  BY <1>1, <1>6 DEF Inv, DbOK
<1>8. \A r \in Series, v \in Steps : v < now - Overlap => db'[r][v] = db[r][v]
  BY <1>1, <1>2
<1>9. UNCHANGED <<expr, cache, request, seen, good, stale>> /\ now <= now'
  BY <1>1 DEF Revise
<1>10. QED
  BY <1>5, <1>6, <1>7, <1>8, <1>9, DatabaseStep

LEMMA RefreshInv ==
    ASSUME Inv, NEW window \in Windows, NEW relative \in BOOLEAN, NEW exprs \in Edited,
           Refresh(window, relative, exprs)
    PROVE  Inv'
<1> DEFINE from == now - window
           sigs == [i \in Idents |-> Signature(exprs[i], window, relative)]
           partial == relative /\ \A i \in Idents :
               /\ cache[i].sig = sigs[i]
               /\ Follows(cache[i].prevTo, from, now)
<1>1. /\ now \in Nat /\ window \in Nat /\ from >= 0
      /\ UNCHANGED <<now, db, revisions, stale>>
      /\ seen' = NotSeen /\ expr' = exprs
      /\ request'.window = window /\ request'.from = from /\ request'.to = now
      /\ request'.relative = relative /\ request'.partial = partial /\ request'.sigs = sigs
      /\ request'.start = IF partial THEN PartialStart(cache[Last].prevTo, from) ELSE from
      /\ cache' = IF partial THEN cache ELSE [i \in Idents |-> NoEntry]
      /\ good' = IF partial THEN good ELSE [i \in Idents |-> 0]
  BY CacheAssumption DEF Inv, Types, Refresh, Last
<1>2. exprs \in [Idents -> Series]
  BY DEF Edited
<1>3. from \in Nat /\ from + window = now
  BY <1>1
<1>4. Last \in Idents /\ Last' = Last
  BY LastFacts DEF Last
<1> HIDE DEF from
<1>5. Types'
  <2>1. \A i \in Idents : good'[i] \in 0 .. now' /\ stale'[i] \subseteq Steps
    BY <1>1 DEF Inv, Types
  <2>2. QED
    BY <1>1, <1>2, <2>1 DEF Inv, Types, NotSeen
<1>6. DbOK'
  BY <1>1 DEF Inv, DbOK
<1>7. EntriesOK'
  <2>1. CASE partial
    <3>1. cache' = cache /\ good' = good /\ stale' = stale /\ db' = db /\ now' = now
      BY <1>1, <2>1
    <3>2. QED
      BY <1>4, <3>1 DEF Inv, EntriesOK, EntryOK, Since, ViewFrom, NoEntry
  <2>2. CASE ~ partial
    BY <1>1, <2>2 DEF EntriesOK, NoEntry
  <2>3. QED
    BY <2>1, <2>2
<1>8. RequestOK'
  <2>1. request'.sigs = [i \in Idents |-> Signature(expr'[i], request'.window, request'.relative)]
    BY <1>1
  <2>2. /\ request'.window \in Windows /\ request'.from \in Nat
        /\ request'.to = request'.from + request'.window /\ request'.to <= now'
        /\ request'.relative \in BOOLEAN /\ request'.partial \in BOOLEAN
    BY <1>1, <1>3
  <2>3. CASE partial
    <3>1. /\ relative /\ cache' = cache
          /\ \A i \in Idents : cache[i].sig = sigs[i] /\ Follows(cache[i].prevTo, from, now)
      BY <1>1, <2>3
    <3>2. request'.start = PartialStart(cache'[Last].prevTo, request'.from)
      BY <1>1, <2>3
    <3> HIDE DEF sigs
    <3>3. \A i \in Idents : /\ cache'[i].sig = request'.sigs[i]
                            /\ Follows(cache'[i].prevTo, request'.from, request'.to)
      BY <1>1, <3>1
    <3>4. request'.partial
      BY <1>1, <2>3
    <3>5. request'.partial => request'.relative
      BY <1>1, <3>1
    <3>6. QED
      BY <1>4, <2>1, <2>2, <3>2, <3>3, <3>4, <3>5
         DEF RequestOK, NoRequest, Signature, Follows, PartialStart
  <2>4. CASE ~ partial
    <3>1. /\ ~ request'.partial /\ request'.start = request'.from
          /\ \A i \in Idents : cache'[i] = NoEntry /\ good'[i] = 0
      BY <1>1, <2>4
    <3>2. QED
      BY <2>1, <2>2, <3>1 DEF RequestOK, NoRequest, Signature, NoEntry
  <2>5. QED
    BY <2>3, <2>4
<1>9. SeenOK'
  BY <1>1 DEF SeenOK, NotSeen
<1>10. QED
  BY <1>5, <1>6, <1>7, <1>8, <1>9 DEF Inv

LEMMA EvaluateInv ==
    ASSUME Inv, Evaluate PROVE Inv'
<1>1. /\ request # NoRequest /\ seen' = db
      /\ UNCHANGED <<now, db, revisions, expr, cache, request, good, stale>>
  BY DEF Evaluate
<1>2. Types' /\ DbOK'
  BY <1>1 DEF Inv, Types, DbOK, NotSeen
<1>3. Last' = Last /\ Since' = Since
  BY <1>1 DEF Last, Since
<1>4. EntriesOK'
  BY <1>1, <1>3 DEF Inv, EntriesOK, EntryOK, ViewFrom, NoEntry
<1>5. RequestOK'
  BY <1>1, <1>3 DEF Inv, RequestOK, NoRequest, NoEntry, Signature, PartialStart, Follows
<1>6. SeenOK'
  <2>1. \A i \in Idents : cache[i] # NoEntry => Stored(cache[i].frame, db[cache[i].sig[1]])
    BY DEF Inv, EntriesOK, EntryOK
  <2>2. QED
    BY <1>1, <2>1 DEF SeenOK, NoRequest, NoEntry, Stored, Contains
<1>7. QED
  BY <1>2, <1>4, <1>5, <1>6 DEF Inv

\* What an answer writes into an entry beside the frame.
IsOfRequest(e, i) ==
    /\ e.sig = <<expr[i], request.window, request.relative>>
    /\ e.sig \in Series \X Windows \X BOOLEAN
    /\ e.sig[1] = expr[i] /\ e.sig[2] = request.window
    /\ e.prevTo = request.to /\ e.prevTo \in e.sig[2] .. now
    /\ e.prevTo - e.sig[2] = request.from
    /\ ViewFrom(e) = Edge(request.from)

LEMMA NewEntryFacts ==
    ASSUME Inv, request # NoRequest, request.relative, NEW i \in Idents, NEW o
    PROVE  IsOfRequest(Entry(i, o), i)
<1> DEFINE e == Entry(i, o)
<1>1. e.sig = request.sigs[i] /\ e.prevTo = request.to
  BY DEF Entry
<1>2. request.sigs[i] = <<expr[i], request.window, request.relative>>
  BY DEF Inv, RequestOK, Signature
<1>3. request.window \in Windows /\ request.relative \in BOOLEAN /\ expr[i] \in Series
  BY DEF Inv, RequestOK, Types
<1> HIDE DEF e
<1>4. /\ e.sig = <<expr[i], request.window, request.relative>>
      /\ e.sig \in Series \X Windows \X BOOLEAN
      /\ e.sig[1] = expr[i] /\ e.sig[2] = request.window
  <2>1. e.sig = <<expr[i], request.window, request.relative>>
    BY <1>1, <1>2
  <2>2. e.sig[1] = expr[i] /\ e.sig[2] = request.window
    BY <2>1
  <2>3. e.sig \in Series \X Windows \X BOOLEAN
    <3>1. \A a \in Series, b \in Windows, c \in BOOLEAN : <<a, b, c>> \in Series \X Windows \X BOOLEAN
      OBVIOUS
    <3>2. <<expr[i], request.window, request.relative>> \in Series \X Windows \X BOOLEAN
      BY <1>3, <3>1, Zenon
    <3>3. QED
      BY <2>1, <3>2, Zenon
  <2>4. QED
    BY <2>1, <2>2, <2>3
<1>5. /\ request.window \in Nat /\ request.from \in Nat /\ request.to \in 0 .. now
      /\ request.to = request.from + request.window /\ now \in Nat
  <2>1. now \in Nat
    BY DEF Inv, Types
  <2>2. QED
    BY <2>1, RequestFacts
<1>6. e.prevTo \in e.sig[2] .. now /\ e.prevTo - e.sig[2] = request.from
  BY <1>1, <1>4, <1>5
<1>7. ViewFrom(e) = Edge(request.from)
  BY <1>6 DEF ViewFrom
<1>8. IsOfRequest(e, i)
  BY <1>1, <1>4, <1>6, <1>7 DEF IsOfRequest
<1>9. QED
  BY <1>8 DEF e

\* What the answer leaves as it is, and the end of the last target's entry.
LEMMA AnswerFacts ==
    ASSUME Inv, NEW outcome \in [Idents -> Outcomes], Answer(outcome)
    PROVE  /\ request # NoRequest /\ seen # NotSeen
           /\ seen \in [Series -> [Steps -> 0 .. 2]]
           /\ UNCHANGED <<now, db, revisions, expr>>
           /\ request' = NoRequest /\ seen' = NotSeen
           /\ \A i \in Idents :
                 /\ outcome[i] \in Outcomes
                 /\ cache'[i] = IF ~ request.relative \/ outcome[i] = "absent" THEN cache[i]
                                ELSE Entry(i, outcome[i])
                 /\ good'[i] = IF outcome[i] = "data" THEN request.to ELSE good[i]
                 /\ stale'[i] = IF outcome[i] = "data" THEN StaleAfterData(i) ELSE stale[i]
           /\ Since' \in Int /\ Since <= Since' /\ Since \in Int
<1>1. /\ request # NoRequest /\ seen # NotSeen
      /\ UNCHANGED <<now, db, revisions, expr>>
      /\ request' = NoRequest /\ seen' = NotSeen
      /\ \A i \in Idents :
            /\ outcome[i] \in Outcomes
            /\ cache'[i] = IF ~ request.relative \/ outcome[i] = "absent" THEN cache[i]
                           ELSE Entry(i, outcome[i])
            /\ good'[i] = IF outcome[i] = "data" THEN request.to ELSE good[i]
            /\ stale'[i] = IF outcome[i] = "data" THEN StaleAfterData(i) ELSE stale[i]
  BY DEF Answer
<1>2. seen \in [Series -> [Steps -> 0 .. 2]]
  BY <1>1 DEF Inv, Types
<1>3. Last \in Idents /\ Last' = Last /\ Overlap \in Nat
  BY LastFacts, CacheAssumption DEF Last
<1> DEFINE p == cache[Last].prevTo
           q == cache'[Last].prevTo
<1>4. p \in Nat /\ q \in Nat /\ p <= q
  <2>1. p \in Nat /\ p <= request.to /\ request.to \in Nat
    BY <1>1, <1>3, RequestFacts
  <2>2. q = p \/ q = request.to
    <3>1. cache'[Last] = cache[Last] \/ cache'[Last] = Entry(Last, outcome[Last])
      BY <1>1, <1>3
    <3>2. Entry(Last, outcome[Last]).prevTo = request.to
      BY DEF Entry
    <3>3. QED
      BY <3>1, <3>2
  <2>3. QED
    BY <2>1, <2>2
<1>5. Since = RoundDown(p - Overlap) /\ Since' = RoundDown(q - Overlap)
  BY <1>3 DEF Since, RoundDown
<1>6. Since \in Int /\ Since' \in Int /\ Since <= Since'
  <2> DEFINE v == p - Overlap
             w == q - Overlap
  <2>1. v \in Int /\ w \in Int /\ v <= w
    BY <1>3, <1>4
  <2> HIDE DEF v, w
  <2>2. RoundDown(v) \in Int /\ RoundDown(w) \in Int /\ RoundDown(v) <= RoundDown(w)
    BY <2>1, RoundDownFacts
  <2>3. QED
    BY <1>5, <2>2 DEF v, w
<1>7. QED
  BY <1>1, <1>2, <1>6

\* The entry of a target after an answer without it.
LEMMA AbsentKeepsEntry ==
    ASSUME Inv, NEW outcome \in [Idents -> Outcomes], Answer(outcome),
           NEW i \in Idents, outcome[i] = "absent", cache[i] # NoEntry
    PROVE  EntryOK(i)'
<1>1. /\ EntryOK(i) /\ cache'[i] = cache[i] /\ good'[i] = good[i] /\ stale'[i] = stale[i]
      /\ now' = now /\ db' = db /\ Since \in Int /\ Since' \in Int /\ Since <= Since'
  BY AnswerFacts DEF Inv, EntriesOK
<1>2. \A from \in Int : from >= Since' => from >= Since
  BY <1>1
<1>3. QED
  BY <1>1, <1>2 DEF EntryOK, ViewFrom

\* The entry of a target after an error.
LEMMA ErrorKeepsEntry ==
    ASSUME Inv, NEW outcome \in [Idents -> Outcomes], Answer(outcome), request.relative,
           NEW i \in Idents, outcome[i] = "error"
    PROVE  EntryOK(i)'
<1> DEFINE e == Entry(i, "error")
           F == e.frame
           p == cache[i].frame
           data == db[expr[i]]
<1>1. /\ request # NoRequest
      /\ cache'[i] = e /\ good'[i] = good[i] /\ stale'[i] = stale[i]
      /\ now' = now /\ db' = db /\ expr[i] \in Series
      /\ Since \in Int /\ Since' \in Int /\ Since <= Since'
  BY AnswerFacts DEF Inv, Types
<1>2. /\ e.sig \in Series \X Windows \X BOOLEAN /\ e.sig[1] = expr[i]
      /\ e.prevTo \in e.sig[2] .. now
      /\ e.prevTo - e.sig[2] = request.from /\ e.prevTo = request.to
      /\ ViewFrom(e) = Edge(request.from)
  <2>1. IsOfRequest(e, i)
    <3>1. request # NoRequest
      BY <1>1
    <3>2. QED
      BY <3>1, NewEntryFacts
  <2> HIDE DEF e
  <2>2. QED
    BY <2>1 DEF IsOfRequest
<1>3. /\ F \in Seq(Samples) /\ Sorted(F) /\ p \in Seq(Samples)
      /\ \A x : Contains(F, x) <=> request.from - DatapointStep <= x.time /\ Contains(p, x)
      /\ \A x : Contains(p, x) => x.time <= cache[i].prevTo
  BY <1>1, ErrorFacts, EntryFacts DEF Inv
<1>4. /\ request.from \in Nat /\ request.to \in Nat /\ DatapointStep \in Nat /\ Overlap \in Nat
      /\ Steps \subseteq Nat
      /\ RoundDown(request.from) \in Int /\ RoundDown(request.from) <= Edge(request.from)
      /\ Edge(request.from) \in Int /\ request.from - DatapointStep <= Edge(request.from)
      /\ cache[i].prevTo \in Nat /\ cache[i].prevTo <= request.to
      /\ data \in [Steps -> 0 .. 2]
  <2>1. data \in [Steps -> 0 .. 2] /\ now \in Nat
    BY <1>1 DEF Inv, Types
  <2>2. DatapointStep \in Nat /\ Overlap \in Nat /\ Steps \subseteq Nat
    BY CacheAssumption, SampleFacts
  <2> HIDE DEF data
  <2>3. QED
    BY <1>1, <2>1, <2>2, RequestFacts
<1>5. /\ \A x : Contains(p, x) => x \in Samples /\ x.time \in Nat /\ request.partial
      /\ request.partial =>
            /\ EntryOK(i) /\ cache[i].sig[1] = expr[i]
            /\ ViewFrom(cache[i]) \in Int /\ ViewFrom(cache[i]) <= Edge(request.from)
      /\ ~ request.partial => good[i] = 0
  <2>1. \A x : Contains(p, x) => x \in Samples /\ x.time \in Nat
    BY <1>3, HasFacts, SampleFacts
  <2>2. \A x : Contains(p, x) => request.partial
    BY <1>1, EntryFacts, RequestFacts DEF Inv
  <2>3. request.partial =>
            /\ EntryOK(i) /\ cache[i].sig = <<expr[i], request.window, request.relative>>
            /\ ViewFrom(cache[i]) \in Int /\ ViewFrom(cache[i]) <= Edge(request.from)
    BY <1>1, RequestFacts
  <2>4. request.partial => cache[i].sig[1] = expr[i]
    BY <2>3
  <2>5. QED
    BY <1>1, <2>1, <2>2, <2>3, <2>4, RequestFacts
<1> HIDE DEF e, F, p
<1>6. \A x : Contains(F, x) =>
          e.prevTo - e.sig[2] - DatapointStep <= x.time /\ x.time <= e.prevTo
  <2>1. SUFFICES ASSUME NEW x, Contains(F, x)
                 PROVE  e.prevTo - e.sig[2] - DatapointStep <= x.time /\ x.time <= e.prevTo
    OBVIOUS
  <2>2. Contains(p, x) /\ request.from - DatapointStep <= x.time
    BY <1>3, <2>1
  <2>3. x.time <= cache[i].prevTo /\ x.time \in Nat
    BY <1>3, <1>5, <2>2
  <2>4. QED
    BY <1>2, <1>4, <2>2, <2>3
<1>7. Stored(F, data)
  BY <1>3, <1>5 DEF Stored, EntryOK, p, data
<1>8. ASSUME NEW from \in Int, from >= Since', from >= ViewFrom(e)
      PROVE  Filled(F, data, from)
  <2>1. SUFFICES ASSUME NEW t \in Steps, NEW x \in Samples,
                        from <= t, data[t] # 0, Contains(F, x), t <= x.time
                 PROVE  HasTime(F, t)
    BY DEF Filled
  <2>2. Contains(p, x) /\ request.partial
    BY <1>3, <1>5, <2>1
  <2>3. from >= Since /\ from >= ViewFrom(cache[i])
    BY <1>1, <1>2, <1>4, <1>5, <1>8, <2>2
  <2>4. Filled(p, data, from)
    BY <1>5, <2>2, <2>3 DEF EntryOK, p, data
  <2>5. HasTime(p, t)
    BY <2>1, <2>2, <2>4 DEF Filled
  <2>6. PICK y \in Samples : Contains(p, y) /\ y.time = t
    BY <1>3, <2>5, HasFacts
  <2>7. request.from - DatapointStep <= t
    BY <1>2, <1>4, <1>8, <2>1
  <2>8. QED
    BY <1>3, <2>6, <2>7, HasFacts
<1>9. ASSUME NEW t \in Steps, t < good[i] - Overlap, t \notin stale[i], ViewFrom(e) <= t
      PROVE  Agrees(F, data, t)
  <2>1. request.partial
    BY <1>4, <1>5, <1>9
  <2>2. ViewFrom(cache[i]) <= t /\ request.from - DatapointStep <= t
    BY <1>2, <1>4, <1>5, <1>9, <2>1
  <2>3. Agrees(p, data, t)
    BY <1>5, <1>9, <2>1, <2>2 DEF EntryOK, p, data
  <2>4. \A x : x.time = t => (Contains(F, x) <=> Contains(p, x))
    BY <1>3, <2>2
  <2>5. Contains(F, [time |-> t, value |-> data[t]]) <=> Contains(p, [time |-> t, value |-> data[t]])
    BY <2>4
  <2>6. data \in [Steps -> 0 .. 2]
    BY <1>4
  <2> HIDE DEF data
  <2>7. CASE data[t] = 0
    <3>1. \A x \in Samples : Contains(p, x) => x.time # t
      BY <1>3, <2>3, <2>6, <2>7, AgreesFacts
    <3>2. \A x \in Samples : Contains(F, x) => x.time # t
      BY <2>4, <3>1
    <3>3. QED
      BY <1>3, <2>6, <2>7, <3>2, AgreesFacts
  <2>8. CASE data[t] # 0
    <3>1. Contains(p, [time |-> t, value |-> data[t]])
      BY <1>3, <2>3, <2>6, <2>8, AgreesFacts
    <3>2. QED
      BY <1>3, <2>5, <2>6, <2>8, <3>1, AgreesFacts
  <2>9. QED
    BY <2>7, <2>8
<1>10. QED
  BY <1>1, <1>2, <1>3, <1>6, <1>7, <1>8, <1>9 DEF EntryOK, F, ViewFrom

\* The entry of a target after an answer with data.
LEMMA DataRenewsEntry ==
    ASSUME Inv, NEW outcome \in [Idents -> Outcomes], Answer(outcome), request.relative,
           NEW i \in Idents, outcome[i] = "data"
    PROVE  EntryOK(i)'
<1> DEFINE e == Entry(i, "data")
           F == e.frame
           p == cache[i].frame
           data == db[expr[i]]
           answer == seen[expr[i]]
           New(x) == \E t \in Steps : /\ Cut <= t /\ t <= request.to /\ answer[t] # 0
                                      /\ x = [time |-> t, value |-> answer[t]]
<1>1. /\ request # NoRequest /\ seen # NotSeen
      /\ cache'[i] = e /\ good'[i] = request.to /\ stale'[i] = StaleAfterData(i)
      /\ now' = now /\ db' = db /\ expr[i] \in Series
      /\ Since \in Int /\ Since' \in Int /\ Since <= Since'
  BY AnswerFacts DEF Inv, Types
<1>2. /\ e.sig \in Series \X Windows \X BOOLEAN /\ e.sig[1] = expr[i]
      /\ e.prevTo \in e.sig[2] .. now
      /\ e.prevTo - e.sig[2] = request.from /\ e.prevTo = request.to
      /\ ViewFrom(e) = Edge(request.from)
  <2>1. IsOfRequest(e, i)
    <3>1. request # NoRequest
      BY <1>1
    <3>2. QED
      BY <3>1, NewEntryFacts
  <2> HIDE DEF e
  <2>2. QED
    BY <2>1 DEF IsOfRequest
<1>3. /\ F \in Seq(Samples) /\ Sorted(F) /\ p \in Seq(Samples)
      /\ \A x : Contains(F, x) <=>
            request.from - DatapointStep <= x.time /\ (New(x) \/ (Contains(p, x) /\ x.time < Cut))
      /\ \A x : Contains(p, x) => x.time <= cache[i].prevTo
  BY <1>1, DataFacts, EntryFacts DEF Inv
<1>4. /\ request.from \in Nat /\ request.to \in Nat /\ DatapointStep \in Nat /\ Overlap \in Nat
      /\ Steps \subseteq Nat /\ Cut \in Int
      /\ RoundDown(request.from) \in Int /\ RoundDown(request.from) <= Edge(request.from)
      /\ Edge(request.from) \in Int /\ request.from - DatapointStep <= Edge(request.from)
      /\ cache[i].prevTo \in Nat /\ cache[i].prevTo <= request.to
      /\ data \in [Steps -> 0 .. 2] /\ answer \in [Steps -> 0 .. 2]
  <2>1. data \in [Steps -> 0 .. 2] /\ answer \in [Steps -> 0 .. 2] /\ now \in Nat
    BY <1>1 DEF Inv, Types
  <2>2. DatapointStep \in Nat /\ Overlap \in Nat /\ Steps \subseteq Nat
    BY CacheAssumption, SampleFacts
  <2> HIDE DEF data, answer
  <2>3. QED
    BY <1>1, <2>1, <2>2, RequestFacts
<1>5. \A t \in Steps :
          /\ answer[t] # 0 => data[t] # 0
          /\ t < request.to - Overlap => answer[t] = data[t]
          /\ \A u \in Steps : t < u /\ answer[u] # 0 /\ data[t] # 0 => answer[t] # 0
  BY <1>1 DEF Inv, SeenOK
<1>6. \A x : Contains(p, x) => data[x.time] # 0 /\ x.time \in Nat
  <2>1. SUFFICES ASSUME NEW x, Contains(p, x) PROVE data[x.time] # 0 /\ x.time \in Nat
    OBVIOUS
  <2>2. cache[i] # NoEntry
    BY <2>1, EntryFacts DEF Inv
  <2>3. request.partial
    BY <1>1, <2>2, RequestFacts
  <2>4. EntryOK(i) /\ cache[i].sig = <<expr[i], request.window, request.relative>>
    BY <1>1, <2>3, RequestFacts
  <2>5. cache[i].sig[1] = expr[i]
    BY <2>4
  <2>6. Stored(p, data)
    BY <2>4, <2>5 DEF EntryOK
  <2>7. x \in Samples
    BY <1>3, <2>1, HasFacts
  <2>8. QED
    BY <2>1, <2>6, <2>7, SampleFacts DEF Stored
<1>7. \A t \in Steps : RoundDown(request.from) <= t /\ t < Cut => t < Since
  <2>1. Cut = Since \/ Cut = RoundDown(request.from)
    <3>1. CASE request.partial
      BY <1>1, <3>1, RequestFacts
    <3>2. CASE ~ request.partial
      BY <1>1, <3>2, RequestFacts
    <3>3. QED
      BY <3>1, <3>2
  <2> HIDE DEF e, F, p, data, answer
  <2>2. SUFFICES ASSUME NEW t \in Steps, RoundDown(request.from) <= t, t < Cut
                 PROVE  t < Since
    OBVIOUS
  <2>3. t \in Int
    BY <1>4
  <2>4. Cut # RoundDown(request.from)
    BY <1>4, <2>2, <2>3
  <2>5. QED
    BY <2>1, <2>2, <2>4
<1> HIDE DEF e, F, p, data, answer
<1>8. \A x : Contains(F, x) =>
          e.prevTo - e.sig[2] - DatapointStep <= x.time /\ x.time <= e.prevTo
  <2>1. SUFFICES ASSUME NEW x, Contains(F, x)
                 PROVE  e.prevTo - e.sig[2] - DatapointStep <= x.time /\ x.time <= e.prevTo
    OBVIOUS
  <2>2. request.from - DatapointStep <= x.time /\ (New(x) \/ Contains(p, x))
    BY <1>3, <2>1
  <2>3. Contains(p, x) => x.time <= cache[i].prevTo /\ x.time \in Nat
    BY <1>3, <1>6
  <2>4. Contains(p, x) => x.time <= request.to
    BY <1>4, <2>3
  <2>5. New(x) => x.time <= request.to
    OBVIOUS
  <2>6. QED
    BY <1>2, <2>2, <2>4, <2>5
<1>9. Stored(F, data)
  <2>1. \A x : New(x) => data[x.time] # 0
    BY <1>5
  <2>2. QED
    BY <1>3, <1>6, <2>1 DEF Stored
<1>10. ASSUME NEW from \in Int, from >= Since', from >= ViewFrom(e)
       PROVE  Filled(F, data, from)
  <2>1. SUFFICES ASSUME NEW t \in Steps, NEW x \in Samples,
                        from <= t, data[t] # 0, Contains(F, x), t <= x.time
                 PROVE  HasTime(F, t)
    BY DEF Filled
  <2>2. t \in Nat /\ x.time \in Nat /\ RoundDown(request.from) <= t /\ Since <= t
    BY <1>1, <1>2, <1>4, <1>10, <2>1, SampleFacts
  <2>3. Cut <= t
    BY <1>1, <1>4, <1>7, <2>2
  <2>4. New(x)
    BY <1>3, <1>4, <2>1, <2>2, <2>3
  <2>5. PICK u \in Steps : u <= request.to /\ answer[u] # 0 /\ x.time = u
    BY <2>4
  <2>6. answer[t] # 0
    <3>1. CASE t = u
      BY <2>5, <3>1
    <3>2. CASE t < u
      BY <1>5, <2>1, <2>5, <3>2
    <3>3. QED
      BY <2>1, <2>2, <2>5, <3>1, <3>2
  <2>7. New([time |-> t, value |-> answer[t]])
    <3>1. t <= request.to
      BY <1>4, <2>1, <2>2, <2>5
    <3>2. QED
      BY <2>3, <2>6, <3>1
  <2>8. request.from - DatapointStep <= t
    BY <1>2, <1>4, <1>10, <2>1, <2>2
  <2>9. Contains(F, [time |-> t, value |-> answer[t]])
    BY <1>3, <2>7, <2>8
  <2>10. [time |-> t, value |-> answer[t]] \in Samples
    BY <1>3, <2>9, HasFacts
  <2>11. QED
    BY <1>3, <2>9, <2>10, HasFacts
<1>11. ASSUME NEW t \in Steps, t < request.to - Overlap, t \notin StaleAfterData(i),
              ViewFrom(e) <= t
       PROVE  Agrees(F, data, t)
  <2>1. t <= request.to /\ Edge(request.from) <= t
    BY <1>2, <1>4, <1>11
  <2>2. Agrees(F, answer, t)
    BY <1>1, <1>11, <2>1, DataIsShown DEF F, e, answer
  <2>3. QED
    BY <1>5, <1>11, <2>2 DEF Agrees
<1>12. QED
  BY <1>1, <1>2, <1>3, <1>8, <1>9, <1>10, <1>11 DEF EntryOK, F, data, ViewFrom

LEMMA AnswerInv ==
    ASSUME Inv, NEW outcome \in [Idents -> Outcomes], Answer(outcome)
    PROVE  Inv'
<1>1. /\ request # NoRequest /\ request' = NoRequest /\ seen' = NotSeen
      /\ UNCHANGED <<now, db, revisions, expr>>
      /\ \A i \in Idents :
            /\ outcome[i] \in Outcomes
            /\ cache'[i] = IF ~ request.relative \/ outcome[i] = "absent" THEN cache[i]
                           ELSE Entry(i, outcome[i])
            /\ good'[i] = IF outcome[i] = "data" THEN request.to ELSE good[i]
            /\ stale'[i] = IF outcome[i] = "data" THEN StaleAfterData(i) ELSE stale[i]
  BY AnswerFacts
<1>2. Types'
  <2>1. \A i \in Idents : stale[i] \subseteq Steps /\ good[i] \in 0 .. now
    BY DEF Inv, Types
  <2>2. \A i \in Idents : StaleAfterData(i) \subseteq Steps
    BY <2>1 DEF StaleAfterData
  <2>3. request.to \in 0 .. now
    BY <1>1, RequestFacts
  <2>4. \A i \in Idents : good'[i] \in 0 .. now' /\ stale'[i] \subseteq Steps
    BY <1>1, <2>1, <2>2, <2>3
  <2>5. QED
    BY <1>1, <2>4 DEF Inv, Types, NotSeen
<1>3. DbOK'
  BY <1>1 DEF Inv, DbOK
<1>4. ASSUME NEW i \in Idents
      PROVE  cache'[i] = NoEntry \/ EntryOK(i)'
  <2>1. CASE ~ request.relative
    <3>1. cache[i] = NoEntry
      BY <1>1, <2>1, RequestFacts DEF Inv, RequestOK
    <3>2. QED
      BY <1>1, <2>1, <3>1
  <2>2. CASE request.relative /\ outcome[i] = "absent"
    <3>1. cache'[i] = cache[i]
      BY <1>1, <2>2
    <3>2. QED
      BY <2>2, <3>1, AbsentKeepsEntry
  <2>3. CASE request.relative /\ outcome[i] = "error"
    BY <2>3, ErrorKeepsEntry
  <2>4. CASE request.relative /\ outcome[i] = "data"
    BY <2>4, DataRenewsEntry
  <2>5. outcome[i] \in {"data", "error", "absent"}
    BY <1>1 DEF Outcomes
  <2>6. QED
    BY <2>1, <2>2, <2>3, <2>4, <2>5
<1>5. EntriesOK'
  BY <1>4 DEF EntriesOK, NoEntry
<1>6. RequestOK' /\ SeenOK'
  BY <1>1 DEF RequestOK, SeenOK, NoRequest, NotSeen
<1>7. QED
  BY <1>2, <1>3, <1>5, <1>6 DEF Inv

LEMMA StutterInv ==
    ASSUME Inv, UNCHANGED vars PROVE Inv'
<1>1. UNCHANGED <<now, db, revisions, expr, cache, request, seen, good, stale>>
  BY DEF vars
<1>2. Types' /\ DbOK'
  BY <1>1 DEF Inv, Types, DbOK, NotSeen
<1>3. QED
  BY <1>1, <1>2, DatabaseStep DEF Inv, Types

LEMMA NextInv ==
    ASSUME ~ LateSamples, Inv, [Next]_vars PROVE Inv'
<1>1. CASE Tick
  BY <1>1, TickInv
<1>2. CASE \E s \in Series, t \in Steps : Arrive(s, t) \/ Revise(s, t)
  BY <1>2, ArriveInv, ReviseInv
<1>3. CASE \E window \in Windows, relative \in BOOLEAN, exprs \in Edited :
              Refresh(window, relative, exprs)
  BY <1>3, RefreshInv
<1>4. CASE Evaluate
  BY <1>4, EvaluateInv
<1>5. CASE \E outcome \in [Idents -> Outcomes] : Answer(outcome)
  BY <1>5, AnswerInv
<1>6. CASE UNCHANGED vars
  BY <1>6, StutterInv
<1>7. QED
  BY <1>1, <1>2, <1>3, <1>4, <1>5, <1>6 DEF Next

LEMMA InvHolds ==
    ASSUME ~ LateSamples PROVE Spec => []Inv
<1>1. Init => Inv
  BY InitInv
<1>2. Inv /\ [Next]_vars => Inv'
  BY NextInv
<1> HIDE DEF Inv
<1>3. QED
  BY <1>1, <1>2, PTL DEF Spec

-----------------------------------------------------------------------------
(* The properties                                                            *)

LEMMA InvImpliesTypeOK == Inv => TypeOK
<1>1. SUFFICES ASSUME Inv PROVE TypeOK
  OBVIOUS
<1>2. /\ now \in 0 .. MaxTime /\ revisions \in 0 .. MaxRevisions
      /\ db \in [Series -> [Steps -> 0 .. 2]]
      /\ seen = NotSeen \/ seen \in [Series -> [Steps -> 0 .. 2]]
      /\ now \in Nat
  BY <1>1 DEF Inv, Types
<1>3. ASSUME NEW i \in Idents
      PROVE  /\ expr[i] \in Series
             /\ cache[i].prevTo \in 0 .. now
             /\ cache[i].frame \in Seq(Samples) /\ IsSorted(cache[i].frame)
             /\ InView(cache[i])
             /\ good[i] \in 0 .. now /\ stale[i] \subseteq Steps
  <2>1. expr[i] \in Series /\ good[i] \in 0 .. now /\ stale[i] \subseteq Steps
    BY <1>1 DEF Inv, Types
  <2>2. /\ cache[i].prevTo \in 0 .. now
        /\ cache[i].frame \in Seq(Samples) /\ Sorted(cache[i].frame)
    BY <1>1, EntryFacts DEF Inv
  <2>3. DOMAIN cache[i].frame = 1 .. Len(cache[i].frame) /\ Len(cache[i].frame) \in Nat
    BY <2>2, TableFacts
  <2>4. IsSorted(cache[i].frame)
    <3>1. SUFFICES ASSUME NEW k \in 1 .. Len(cache[i].frame) - 1
                   PROVE  cache[i].frame[k].time < cache[i].frame[k + 1].time
      BY DEF IsSorted
    <3>2. k \in 1 .. Len(cache[i].frame) /\ k + 1 \in 1 .. Len(cache[i].frame) /\ k < k + 1
      BY <2>3
    <3>3. QED
      BY <2>2, <3>2 DEF Sorted
  <2>5. \A x : Contains(cache[i].frame, x) =>
            cache[i].prevTo - cache[i].sig[2] - DatapointStep <= x.time /\ x.time <= cache[i].prevTo
    BY <1>1, EntryFacts DEF Inv, EntryOK
  <2>6. ASSUME NEW k \in DOMAIN cache[i].frame
        PROVE  /\ cache[i].frame[k].time >= cache[i].prevTo - cache[i].sig[2] - DatapointStep
               /\ cache[i].frame[k].time <= cache[i].prevTo
    <3>1. Contains(cache[i].frame, cache[i].frame[k])
      BY <2>3 DEF Contains
    <3>2. cache[i] # NoEntry
      BY <1>1, <3>1, EntryFacts DEF Inv
    <3>3. cache[i].sig[2] \in Nat /\ DatapointStep \in Nat
      BY <1>1, <3>2, CacheAssumption DEF Inv, EntriesOK, EntryOK
    <3>4. cache[i].frame[k].time \in Nat
      BY <2>2, <2>3, TableFacts
    <3>5. QED
      BY <2>2, <2>5, <3>1, <3>3, <3>4
  <2>7. QED
    BY <2>1, <2>2, <2>4, <2>6 DEF InView
<1>4. request.start <= request.to /\ request.to <= now
  <2>1. CASE request = NoRequest
    BY <1>2, <2>1 DEF NoRequest
  <2>2. CASE request # NoRequest
    <3>1. request.start <= request.to /\ request.to \in 0 .. now
      BY <1>1, <2>2, RequestFacts
    <3>2. QED
      BY <1>2, <3>1
  <2>3. QED
    BY <2>1, <2>2
<1>5. QED
  BY <1>2, <1>3, <1>4 DEF TypeOK

\* As long as no sample is stored in front of one that is there already, every
\* variable stays within its type, and the frames that procFrames caches have
\* their samples in order and within the range asked for last and a DatapointStep before
\* it (QueryCache.ts: the merge and the cut).  With LateSamples a slice that ends
\* at -1 leaves a frame out of order, see the run that shows what amendTable does.
THEOREM TypeCorrect == ~LateSamples => (Spec => []TypeOK)
<1> SUFFICES ASSUME ~LateSamples PROVE Spec => []TypeOK
  OBVIOUS
<1>1. Inv => TypeOK
  BY InvImpliesTypeOK
<1> HIDE DEF Inv, TypeOK
<1>2. QED
  BY <1>1, InvHolds, PTL

\* A step that ends a request is an answer to it.
LEMMA RequestEnds ==
    ASSUME Inv, [Next]_vars, request # NoRequest, request' = NoRequest
    PROVE  \E outcome \in [Idents -> Outcomes] : Answer(outcome)
<1>1. CASE Tick
  BY <1>1 DEF Tick
<1>2. CASE \E s \in Series, t \in Steps : Arrive(s, t) \/ Revise(s, t)
  BY <1>2 DEF Arrive, Revise
<1>3. CASE \E window \in Windows, relative \in BOOLEAN, exprs \in Edited :
              Refresh(window, relative, exprs)
  <2>1. PICK window \in Windows : request'.window = window
    BY <1>3 DEF Refresh
  <2>2. NoRequest.window = 0
    BY DEF NoRequest
  <2>3. QED
    BY <2>1, <2>2, CacheAssumption
<1>4. CASE Evaluate
  BY <1>4 DEF Evaluate
<1>5. CASE UNCHANGED vars
  BY <1>5 DEF vars
<1>6. QED
  BY <1>1, <1>2, <1>3, <1>4, <1>5 DEF Next

LEMMA AnswerIsTransparent ==
    ASSUME Inv, [Next]_vars, NEW i \in Idents,
           request # NoRequest, request' = NoRequest, request.relative,
           good'[i] = request.to, good'[i] # good[i],
           NEW t \in Shown \ stale'[i]
    PROVE  IF seen[expr[i]][t] = 0 THEN ~HasTime(cache'[i].frame, t)
                                   ELSE HasSample(cache'[i].frame, t, seen[expr[i]][t])
<1>1. PICK outcome \in [Idents -> Outcomes] : Answer(outcome)
  BY RequestEnds
<1>2. outcome[i] = "data"
  BY <1>1, AnswerFacts
<1>3. seen # NotSeen /\ cache'[i] = Entry(i, "data") /\ stale'[i] = StaleAfterData(i)
  BY <1>1, <1>2, AnswerFacts
<1>4. t \in Steps /\ Edge(request.from) <= t /\ t <= request.to
  BY DEF Shown, Edge, Greatest
<1>6. Agrees(Entry(i, "data").frame, seen[expr[i]], t)
  BY <1>3, <1>4, DataIsShown
<1>5. QED
  BY <1>3, <1>6 DEF Agrees

\* As long as no sample is stored in front of one that is there already, what a
\* panel shows after an answer with data is what a query of the whole range would
\* have returned, whatever was edited, cancelled or answered with an error before:
\* the overlap asked for again makes good what came late (QueryCache.ts,
\* requestInfo and procFrames).  Left out are the times that no answer with data
\* has covered since an error moved the end of the entry on.
THEOREM RefreshesAreTransparent == ~LateSamples => (Spec => RefreshIsTransparent)
<1> SUFFICES ASSUME ~LateSamples PROVE Spec => RefreshIsTransparent
  OBVIOUS
<1> DEFINE Transparent ==
        \A i \in Idents :
            request # NoRequest /\ request' = NoRequest /\ request.relative
            /\ good'[i] = request.to /\ cache'[i].prevTo = request.to /\ good'[i] # good[i] =>
                \A t \in Shown \ stale'[i] :
                    LET value == seen[expr[i]][t]
                    IN  IF value = 0 THEN ~HasTime(cache'[i].frame, t)
                                     ELSE HasSample(cache'[i].frame, t, value)
<1>1. Inv /\ [Next]_vars => Transparent
  BY AnswerIsTransparent
<1>2. Inv /\ [Next]_vars => [Transparent]_vars
  BY <1>1
<1>3. RefreshIsTransparent <=> [][Transparent]_vars
  BY DEF RefreshIsTransparent
<1> HIDE DEF Inv, Transparent
<1>4. QED
  BY <1>2, <1>3, InvHolds, PTL DEF Spec

LEMMA AnswerKeepsOlder ==
    ASSUME Inv, [Next]_vars, NEW i \in Idents,
           request.relative, request' = NoRequest, request # NoRequest,
           NEW k \in DOMAIN cache[i].frame,
           cache[i].frame[k].time >= request.from,
           cache[i].frame[k].time < RoundDown(request.start)
    PROVE  HasSample(cache'[i].frame, cache[i].frame[k].time, cache[i].frame[k].value)
<1> DEFINE p == cache[i].frame
           x == p[k]
<1>1. PICK outcome \in [Idents -> Outcomes] : Answer(outcome)
  BY RequestEnds
<1>2. p \in Seq(Samples)
  BY EntryFacts DEF Inv
<1>3. Contains(p, x) /\ x \in Samples /\ x.time \in Nat /\ x = [time |-> x.time, value |-> x.value]
  <2>1. k \in 1 .. Len(p)
    BY <1>2, TableFacts
  <2>2. x \in Samples
    BY <1>2, <2>1, TableFacts
  <2>3. QED
    BY <2>1, <2>2, SampleFacts DEF Contains
<1>4. request.from \in Nat /\ DatapointStep \in Nat
  BY RequestFacts, CacheAssumption
<1>5. request.from - DatapointStep <= x.time /\ x.time < Cut
  BY <1>3, <1>4 DEF Cut
<1>6. /\ seen # NotSeen /\ outcome[i] \in Outcomes
      /\ cache'[i] = IF outcome[i] = "absent" THEN cache[i] ELSE Entry(i, outcome[i])
  BY <1>1, AnswerFacts
<1> HIDE DEF p, x
<1>7. Contains(cache'[i].frame, x) /\ cache'[i].frame \in Seq(Samples)
  <2>1. CASE outcome[i] = "absent"
    BY <1>2, <1>3, <1>6, <2>1 DEF p
  <2>2. CASE outcome[i] = "data"
    <3>1. cache'[i] = Entry(i, "data")
      BY <1>6, <2>2
    <3>2. QED
      BY <1>3, <1>5, <1>6, <3>1, DataFacts DEF p
  <2>3. CASE outcome[i] = "error"
    <3>1. cache'[i] = Entry(i, "error")
      BY <1>6, <2>3
    <3>2. QED
      BY <1>3, <1>5, <3>1, ErrorFacts DEF p
  <2>4. QED
    BY <1>6, <2>1, <2>2, <2>3 DEF Outcomes
<1>8. Contains(cache'[i].frame, [time |-> x.time, value |-> x.value])
  BY <1>3, <1>7
<1>9. QED
  BY <1>7, <1>8, HasFacts DEF p, x

\* As long as no sample is stored in front of one that is there already, an
\* answer loses none of the cached samples that lie in the range and in front of
\* what was asked for (amendTimeSeries.ts, the example of amendTable).  With
\* LateSamples the property does not hold, see the run that shows it.
THEOREM OlderPointsKept == ~LateSamples => (Spec => OlderPointsAreKept)
<1> SUFFICES ASSUME ~LateSamples PROVE Spec => OlderPointsAreKept
  OBVIOUS
<1> DEFINE Kept ==
        \A i \in Idents : request.relative /\ request' = NoRequest /\ request # NoRequest =>
            \A k \in DOMAIN cache[i].frame :
                LET sample == cache[i].frame[k]
                IN  sample.time >= request.from /\ sample.time < RoundDown(request.start)
                        => HasSample(cache'[i].frame, sample.time, sample.value)
<1>1. Inv /\ [Next]_vars => Kept
  BY AnswerKeepsOlder
<1>2. Inv /\ [Next]_vars => [Kept]_vars
  BY <1>1
<1>3. OlderPointsAreKept <=> [][Kept]_vars
  BY DEF OlderPointsAreKept
<1> HIDE DEF Inv, Kept
<1>4. QED
  BY <1>2, <1>3, InvHolds, PTL DEF Spec

=============================================================================
