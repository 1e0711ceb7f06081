----------------------- MODULE LokiShardSplitting_proofs -----------------------
(***************************************************************************)
(* Proofs about the splitting of Loki queries, for every range, length of  *)
(* a chunk, step, combination of groups and number of shards.  Both loops  *)
(* are proved together, since a subrequest of the shard loop is a run of   *)
(* the time loop.                                                          *)
(***************************************************************************)
EXTENDS LokiShardSplitting, SequenceTheorems, FiniteSetTheorems, WellFoundedInduction,
        TLAPS

-----------------------------------------------------------------------------
(* Least and largest elements, quotients                                     *)

\* A set of naturals has a least element.
LEMMA LeastExists ==
    ASSUME NEW T, T \subseteq Nat, T # {}
    PROVE  \E x \in T : \A y \in T : x <= y
<1> DEFINE R == OpToRel(<, Nat)
<1>1. IsWellFoundedOn(R, Nat)
  BY NatLessThanWellFounded
<1>2. \A y, x \in Nat : y < x => <<y, x>> \in R
  BY DEF OpToRel
<1> HIDE DEF R
<1>3. PICK x \in T : \A y \in T : ~ (<<y, x>> \in R)
  BY <1>1, WFMin
<1>4. \A y \in T : ~ (y < x)
  BY <1>2, <1>3
<1>5. QED
  BY <1>3, <1>4

\* A finite sequence of naturals has a largest element.
LEMMA LargestExists ==
    ASSUME NEW N \in Nat \ {0}, NEW f, \A i \in 1 .. N : f[i] \in Nat
    PROVE  \E i \in 1 .. N : \A j \in 1 .. N : f[j] <= f[i]
<1> DEFINE Has(k) == \E i \in 1 .. k : \A j \in 1 .. k : f[j] <= f[i]
           T == {k \in 1 .. N : ~ Has(k)}
<1>1. CASE T = {}
  BY <1>1
<1>2. CASE T # {}
  <2>1. PICK k \in T : \A y \in T : k <= y
    <3> HIDE DEF Has
    <3>1. T \subseteq Nat
      OBVIOUS
    <3> HIDE DEF T
    <3>2. QED
      BY <1>2, <3>1, LeastExists
  <2>2. k # 1
    BY <2>1
  <2>3. k - 1 \in 1 .. N /\ k - 1 \notin T
    <3>1. k \in 1 .. N
      OBVIOUS
    <3> HIDE DEF T
    <3>2. QED
      BY <2>1, <2>2, <3>1
  <2>4. PICK i \in 1 .. k - 1 : \A j \in 1 .. k - 1 : f[j] <= f[i]
    BY <2>3
  <2>5. CASE f[k] <= f[i]
    <3>1. \A j \in 1 .. k : f[j] <= f[i]
      BY <2>4, <2>5, <2>1
    <3>2. QED
      BY <3>1, <2>1, <2>4
  <2>6. CASE f[i] < f[k]
    <3>1. \A j \in 1 .. k : f[j] <= f[k]
      BY <2>4, <2>6, <2>1
    <3>2. QED
      BY <3>1, <2>1
  <2>7. QED
    BY <2>1, <2>4, <2>5, <2>6
<1>3. QED
  BY <1>1, <1>2

\* Rounding up a quotient of naturals gives a natural.
LEMMA CeilDivType ==
    ASSUME NEW a \in Nat, NEW b \in Nat \ {0}
    PROVE  CeilDiv(a, b) \in Nat
<1>1. a + b - 1 \in Nat
  OBVIOUS
<1>2. \A c \in Nat : c \div b \in Nat
  OBVIOUS
<1>3. QED
  BY <1>1, <1>2 DEF CeilDiv

\* getInitialGroupSize: the integer square root exists and is at least 1 when
\* there is a shard.
LEMMA RootType ==
    ASSUME NEW n \in Nat
    PROVE  /\ Root(n) \in 0 .. n
           /\ n > 0 => Root(n) >= 1
<1> DEFINE T == {k \in Nat : n < (k + 1) * (k + 1)}
<1>1. n \in T
  <2>1. (n + 1) * (n + 1) = n * n + 2 * n + 1
    OBVIOUS
  <2>2. n * n >= 0
    OBVIOUS
  <2>3. n * n \in Nat
    OBVIOUS
  <2>4. QED
    BY <2>1, <2>2, <2>3
<1>2. PICK r \in T : \A y \in T : r <= y
  BY <1>1, LeastExists
<1>3. r * r <= n
  <2>1. CASE r = 0
    BY <2>1
  <2>2. CASE r # 0
    <3>1. r - 1 \in Nat /\ r - 1 \notin T
      BY <1>2, <2>2
    <3>2. ~ (n < ((r - 1) + 1) * ((r - 1) + 1))
      BY <3>1
    <3>3. (r - 1) + 1 = r
      OBVIOUS
    <3>4. QED
      BY <3>2, <3>3
  <2>3. QED
    BY <2>1, <2>2
<1>4. r <= r * r
  <2>1. CASE r = 0
    BY <2>1
  <2>2. CASE r >= 1
    BY <2>2
  <2>3. QED
    BY <2>1, <2>2
<1>5. r \in 0 .. n /\ r * r <= n /\ n < (r + 1) * (r + 1)
  BY <1>2, <1>3, <1>4
<1>6. Root(n) \in 0 .. n /\ n < (Root(n) + 1) * (Root(n) + 1)
  BY <1>5 DEF Root
<1>7. n > 0 => Root(n) # 0
  BY <1>6
<1>8. QED
  BY <1>6, <1>7

-----------------------------------------------------------------------------
(* The groups of a request and the chunks they are cut into                  *)

GroupsOK(gs) ==
    /\ Len(gs) \in Nat \ {0}
    /\ DOMAIN gs = 1 .. Len(gs)
    /\ \A i \in 1 .. Len(gs) : Len(gs[i].part) \in Nat

LEMMA LogsPartitionType ==
    ASSUME NEW r \in Ranges
    PROVE  Len(LogsPartition(r)) \in Nat
<1> DEFINE n == Greatest(CeilDiv(r[2] - r[1], Day), 1)
<1>1. r[1] \in Nat /\ r[2] \in Nat /\ r[1] <= r[2] /\ Day \in Nat \ {0}
  BY SplittingAssumption
<1>2. r[2] - r[1] \in Nat
  BY <1>1
<1>3. CeilDiv(r[2] - r[1], Day) \in Nat
  BY <1>1, <1>2, CeilDivType
<1>4. n \in Nat
  BY <1>3 DEF Greatest
<1>5. LogsPartition(r) =
        [k \in 1 .. n |-> <<Greatest(r[2] - (n - k + 1) * Day, r[1]), r[2] - (n - k) * Day>>]
  BY DEF LogsPartition
<1> HIDE DEF n
<1>6. QED
  BY <1>4, <1>5

LEMMA MetricPartitionType ==
    ASSUME NEW r \in Ranges, NEW step \in Nat \ {0}
    PROVE  Len(MetricPartition(r, step)) \in Nat
<1> DEFINE aligned == (Day \div step) * step
           start   == r[1] - (r[1] % step)
           n       == CeilDiv(r[2] - start, aligned)
<1>1. r[1] \in Nat /\ r[2] \in Nat /\ r[1] <= r[2] /\ Day \in Nat \ {0}
  BY SplittingAssumption
<1>2. CASE Day < step
  BY <1>2 DEF MetricPartition
<1>3. CASE ~ (Day < step)
  <2>1. aligned \in Nat \ {0}
    <3>1. Day \div step \in Nat /\ Day \div step # 0
      BY <1>1, <1>3
    <3>3. \A x, y \in Nat \ {0} : x * y \in Nat \ {0}
      OBVIOUS
    <3>4. QED
      BY <3>1, <3>3
  <2>2. r[1] % step \in 0 .. step - 1 /\ r[1] % step <= r[1]
    <3>4. \A a \in Nat, b \in Nat \ {0} : a % b \in 0 .. b - 1 /\ a = b * (a \div b) + (a % b)
      OBVIOUS
    <3>1. r[1] % step \in 0 .. step - 1 /\ r[1] = step * (r[1] \div step) + (r[1] % step)
      BY <1>1, <3>4
    <3>2. step * (r[1] \div step) \in Nat
      BY <1>1
    <3>3. QED
      BY <3>1, <3>2, <1>1
  <2>3. r[2] - start \in Nat
    BY <1>1, <2>2
  <2>4. n \in Nat
    BY <2>1, <2>3, CeilDivType
  <2>5. MetricPartition(r, step) =
          [k \in 1 .. n |-> <<start + (k - 1) * aligned,
                              Least(start + k * aligned - step, r[2])>>]
    BY <1>3 DEF MetricPartition
  <2> HIDE DEF n
  <2>6. QED
    BY <2>4, <2>5
<1>4. QED
  BY <1>2, <1>3

LEMMA PartitionType ==
    ASSUME NEW r \in Ranges, NEW q \in [kind : Kinds, step : Nat \ {0}]
    PROVE  Len(Partition(q, r)) \in Nat
<1>1. CASE q.kind = "backward"
  BY <1>1, LogsPartitionType DEF Partition
<1>2. CASE q.kind = "forward"
  <2>1. Partition(q, r) = Reversed(LogsPartition(r))
    BY <1>2 DEF Partition
  <2>2. Len(LogsPartition(r)) \in Nat
    BY LogsPartitionType
  <2>3. \A s : Len(s) \in Nat => Len(Reversed(s)) \in Nat
    BY DEF Reversed
  <2>4. QED
    BY <2>1, <2>2, <2>3
<1>3. CASE q.kind = "metric"
  BY <1>3, MetricPartitionType DEF Partition
<1>4. CASE q.kind = "instant"
  BY <1>4 DEF Partition
<1>5. QED
  BY <1>1, <1>2, <1>3, <1>4 DEF Kinds

LEMMA GroupedType ==
    ASSUME NEW q \in Queries, NEW r \in Ranges
    PROVE  GroupsOK(Grouped(q, r))
<1>1. q \in Seq([kind : Kinds, step : Nat \ {0}]) \ {<<>>}
  BY SplittingAssumption
<1>2. Len(q) \in Nat \ {0}
  BY <1>1, EmptySeq
<1>3. \A i \in 1 .. Len(q) : q[i] \in [kind : Kinds, step : Nat \ {0}]
  <2> DEFINE S == [kind : Kinds, step : Nat \ {0}]
  <2>1. q \in Seq(S)
    BY <1>1
  <2> HIDE DEF S
  <2>2. \A i \in 1 .. Len(q) : q[i] \in S
    BY <2>1, ElementOfSeq
  <2>3. QED
    BY <2>2 DEF S
<1>4. Len(Grouped(q, r)) = Len(q) /\ DOMAIN Grouped(q, r) = 1 .. Len(q)
  BY <1>2 DEF Grouped
<1>5. \A i \in 1 .. Len(q) : Grouped(q, r)[i].part = Partition(q[i], r)
  <2>1. SUFFICES ASSUME NEW i \in 1 .. Len(q)
                 PROVE  Grouped(q, r)[i].part = Partition(q[i], r)
    OBVIOUS
  <2>2. Grouped(q, r)[i] = [kind |-> q[i].kind, step |-> q[i].step, part |-> Partition(q[i], r)]
    BY DEF Grouped
  <2>3. QED
    BY <2>2
<1>6. \A i \in 1 .. Len(q) : Len(Partition(q[i], r)) \in Nat
  BY <1>3, PartitionType
<1>7. QED
  BY <1>2, <1>4, <1>5, <1>6 DEF GroupsOK

\* The first row is that of the newest chunk of any group.
LEMMA TotalRequestsIsLargest ==
    ASSUME NEW gs, GroupsOK(gs)
    PROVE  /\ TotalRequests(gs) \in Nat
           /\ \A i \in 1 .. Len(gs) : Len(gs[i].part) <= TotalRequests(gs)
           /\ \E i \in 1 .. Len(gs) : Len(gs[i].part) = TotalRequests(gs)
<1> DEFINE f == [i \in 1 .. Len(gs) |-> Len(gs[i].part)]
<1>1. \A i \in 1 .. Len(gs) : f[i] \in Nat /\ f[i] = Len(gs[i].part)
  BY DEF GroupsOK
<1>2. Len(gs) \in Nat \ {0} /\ DOMAIN gs = 1 .. Len(gs)
  BY DEF GroupsOK
<1> HIDE DEF f
<1>3. PICK i \in 1 .. Len(gs) : \A j \in 1 .. Len(gs) : f[j] <= f[i]
  BY <1>1, <1>2, LargestExists
<1>4. \E n \in {Len(gs[j].part) : j \in DOMAIN gs} : \A j \in DOMAIN gs : Len(gs[j].part) <= n
  BY <1>1, <1>2, <1>3
<1>5. /\ TotalRequests(gs) \in {Len(gs[j].part) : j \in DOMAIN gs}
      /\ \A j \in DOMAIN gs : Len(gs[j].part) <= TotalRequests(gs)
  BY <1>4 DEF TotalRequests
<1>6. QED
  BY <1>1, <1>2, <1>5

\* getNextRequestPointers skips no chunk but the last one of a group before a
\* longer one.
LEMMA NextSkipsNothing ==
    ASSUME GroupsOK(groups),
           NEW n \in Nat, NEW g \in Groups,
           NextRow(n, g) > 0, NextGroup(n, g) > 0
    PROVE  /\ NextRow(n, g) \in Nat
           /\ NextGroup(n, g) \in Groups
           /\ \A h \in Groups : \A m \in 1 .. Parts(h) :
                (m > NextRow(n, g) \/ (m = NextRow(n, g) /\ h < NextGroup(n, g)))
                  => \/ m > n
                     \/ m = n /\ h <= g
                     \/ m = Parts(h) /\ BeforeALonger(h)
<1> DEFINE has   == {i \in Groups : n >= 1 /\ Parts(i) >= n}
           later == {i \in has : i > g}
           from  == IF later # {} THEN later ELSE has
           to    == NextGroup(n, g)
           row   == NextRow(n, g)
<1>1. Len(groups) \in Nat \ {0} /\ Groups = 1 .. Len(groups)
  BY DEF GroupsOK, Groups
<1>2. \A i \in Groups : i \in Nat /\ Parts(i) \in Nat
  BY <1>1 DEF GroupsOK, Parts
<1>3. to = IF from = {} THEN 0 ELSE CHOOSE i \in from : \A j \in from : i <= j
  BY DEF NextGroup
<1>4. row = IF later # {} THEN n ELSE n - 1
  BY DEF NextRow
<1>5. from # {} /\ from \subseteq Groups
  BY <1>3
<1>6. \E i \in from : \A j \in from : i <= j
  <2>1. from \subseteq Nat
    BY <1>5, <1>2
  <2> HIDE DEF from
  <2>2. QED
    BY <1>5, <2>1, LeastExists
<1>7. to \in from /\ \A j \in from : to <= j
  <2> HIDE DEF from
  <2>1. QED
    BY <1>3, <1>5, <1>6
<1>8. row \in Nat /\ to \in Groups
  BY <1>4, <1>5, <1>7
<1>9. ASSUME NEW h \in Groups, NEW m \in 1 .. Parts(h),
             m > row \/ (m = row /\ h < to)
      PROVE  m > n \/ (m = n /\ h <= g) \/ (m = Parts(h) /\ BeforeALonger(h))
  <2>1. CASE later # {}
    <3>1. row = n /\ from = later
      BY <2>1, <1>4
    <3>2. ASSUME m = n, h < to, h > g
          PROVE  FALSE
      <4>1. h \in later
        BY <3>2, <1>2, <1>9
      <4>2. QED
        BY <4>1, <3>1, <3>2, <1>7, <1>2, <1>8
    <3>3. QED
      BY <3>1, <3>2, <1>9, <1>2, <1>8
  <2>2. CASE later = {}
    <3>1. row = n - 1 /\ from = has /\ to \in has
      BY <2>2, <1>4, <1>7
    <3>2. CASE m = n
      <4>1. h \in has
        BY <3>2, <1>2, <1>9
      <4>2. ~ (h > g)
        BY <4>1, <2>2
      <4>3. QED
        BY <3>2, <4>2, <1>2, <1>1
    <3>3. CASE m = n - 1
      <4>1. h < to
        BY <3>1, <3>3, <1>9
      <4>2. h \notin has
        BY <4>1, <1>7, <3>1, <1>2, <1>8
      <4>3. Parts(h) = n - 1
        BY <4>2, <3>3, <3>1, <1>2, <1>9
      <4>4. Parts(to) > Parts(h)
        BY <4>3, <3>1, <1>2
      <4>5. \A i \in Groups : i < h => Parts(i) <= Parts(h)
        <5>1. SUFFICES ASSUME NEW i \in Groups, i < h
                       PROVE  Parts(i) <= Parts(h)
          OBVIOUS
        <5>2. i \notin has
          BY <5>1, <4>1, <1>7, <3>1, <1>2, <1>8
        <5>3. QED
          BY <5>2, <4>3, <3>1, <1>2
      <4>6. BeforeALonger(h)
        BY <4>1, <4>4, <4>5, <1>8, <1>2 DEF BeforeALonger
      <4>7. QED
        BY <4>3, <4>6, <3>3
    <3>4. CASE m > n
      BY <3>4
    <3>5. QED
      BY <3>1, <3>2, <3>3, <3>4, <1>9, <1>2
  <2>3. QED
    BY <2>1, <2>2
<1>10. QED
  BY <1>8, <1>9

-----------------------------------------------------------------------------
(* The time loop                                                             *)

\* Chunk m of group h comes before the present one.
Passed(h, m) == m > current.n \/ (m = current.n /\ h < current.g)

IsMerged(h, m) == \E k \in DOMAIN merged : merged[k] = <<h, m>>

\* As long as nothing went wrong, what was passed was merged.
PassedIsMerged ==
    phase \in {"run", "asking", "backoff"} /\ ~ stop =>
        \A h \in Groups \ full : \A m \in 1 .. Parts(h) :
            Passed(h, m) /\ ~ (m = Parts(h) /\ BeforeALonger(h)) => IsMerged(h, m)

\* A group whose logs are complete is not asked, and after an error nothing is.
AskedForAReason ==
    /\ phase \in {"asking", "backoff"} => ~ stop
    /\ phase = "asking" => current.g \notin full

SplitInv ==
    /\ GroupsOK(groups)
    /\ SplitTypeOK
    /\ AskedForAReason
    /\ PassedIsMerged
    /\ NoHoles

LEMMA GroupsFacts ==
    ASSUME GroupsOK(groups)
    PROVE  /\ Len(groups) \in Nat \ {0}
           /\ Groups = 1 .. Len(groups)
           /\ \A h \in Groups : h \in Nat /\ Parts(h) \in Nat
BY DEF GroupsOK, Groups, Parts

\* What is said of the groups does not change with the rest of the state.
LEMMA GroupsStay ==
    ASSUME UNCHANGED groups
    PROVE  /\ GroupsOK(groups) => GroupsOK(groups)'
           /\ Groups' = Groups
           /\ \A h : Parts(h)' = Parts(h)
           /\ \A h : BeforeALonger(h)' <=> BeforeALonger(h)
BY DEF GroupsOK, Groups, Parts, BeforeALonger

LEMMA NextRequestType ==
    ASSUME GroupsOK(groups), SplitTypeOK, NextRequest
    PROVE  /\ phase' \in {"run", "done"}
           /\ current' \in [n : Nat, g : Groups]
           /\ phase' = "run" =>
                \A h \in Groups : \A m \in 1 .. Parts(h) :
                  Passed(h, m)' => \/ Passed(h, m)
                                   \/ h = current.g /\ m = current.n
                                   \/ m = Parts(h) /\ BeforeALonger(h)
<1>1. current.n \in Nat /\ current.g \in Groups /\ current \in [n : Nat, g : Groups]
  BY DEF SplitTypeOK
<1>2. CASE NextRow(current.n, current.g) > 0 /\ NextGroup(current.n, current.g) > 0
  <2>1. phase' = "run"
        /\ current' = [n |-> NextRow(current.n, current.g), g |-> NextGroup(current.n, current.g)]
    BY <1>2 DEF NextRequest
  <2>2. /\ NextRow(current.n, current.g) \in Nat
        /\ NextGroup(current.n, current.g) \in Groups
        /\ \A h \in Groups : \A m \in 1 .. Parts(h) :
             (m > NextRow(current.n, current.g)
                \/ (m = NextRow(current.n, current.g) /\ h < NextGroup(current.n, current.g)))
               => \/ m > current.n
                  \/ m = current.n /\ h <= current.g
                  \/ m = Parts(h) /\ BeforeALonger(h)
    BY <1>1, <1>2, NextSkipsNothing
  <2>3. \A h \in Groups : h \in Nat
    BY GroupsFacts
  <2>4. QED
    BY <1>1, <2>1, <2>2, <2>3 DEF Passed
<1>3. CASE ~ (NextRow(current.n, current.g) > 0 /\ NextGroup(current.n, current.g) > 0)
  BY <1>1, <1>3 DEF NextRequest
<1>4. QED
  BY <1>2, <1>3

\* Nothing is merged: what was said of the merged chunks stays true.
LEMMA NothingMergedKeeps ==
    ASSUME NoHoles, UNCHANGED <<groups, merged>>
    PROVE  NoHoles'
BY GroupsStay DEF NoHoles

LEMMA StartsOver ==
    ASSUME GroupsOK(groups), UNCHANGED groups, merged' = <<>>, current' \in [n : Nat, g : Groups],
           phase' \in Phases, retried' = {}, stop' = FALSE, full' = {}, failure' = "none",
           nested' \in BOOLEAN,
           phase' = "run" => current' = [n |-> TotalRequests(groups), g |-> 1],
           phase' \notin {"asking", "backoff"}
    PROVE  SplitInv'
<1>1. GroupsOK(groups)' /\ Groups' = Groups /\ \A h : Parts(h)' = Parts(h)
  BY GroupsStay
<1>2. SplitTypeOK'
  <2>1. merged' \in Seq(Groups \X Nat)
    BY EmptySeq
  <2>2. QED
    BY <1>1, <2>1 DEF SplitTypeOK
<1>3. AskedForAReason'
  BY DEF AskedForAReason
<1>4. PassedIsMerged'
  <2>1. SUFFICES ASSUME phase' = "run", NEW h \in Groups, NEW m \in 1 .. Parts(h)
                 PROVE  ~ Passed(h, m)'
    BY <1>1 DEF PassedIsMerged
  <2>2. m <= TotalRequests(groups) /\ TotalRequests(groups) \in Nat
    BY GroupsFacts, TotalRequestsIsLargest DEF Parts
  <2>3. h >= 1
    BY GroupsFacts
  <2>4. QED
    BY <2>1, <2>2, <2>3, GroupsFacts DEF Passed
<1>5. NoHoles'
  BY DEF NoHoles
<1>6. QED
  BY <1>1, <1>2, <1>3, <1>4, <1>5 DEF SplitInv

LEMMA RunsKeep ==
    ASSUME SplitInv, Cut \/ Skip \/ Ask \/ RetryTimer
    PROVE  SplitInv'
<1>1. GroupsOK(groups) /\ SplitTypeOK /\ AskedForAReason /\ PassedIsMerged /\ NoHoles
  BY DEF SplitInv
<1>2. UNCHANGED <<range, groups, nested, retried, stop, full, merged, failure>>
  BY DEF Cut, Skip, Ask, RetryTimer
<1>3. /\ GroupsOK(groups)' /\ Groups' = Groups
      /\ \A h : Parts(h)' = Parts(h) /\ (BeforeALonger(h)' <=> BeforeALonger(h))
  BY <1>1, <1>2, GroupsStay
<1>4. NoHoles'
  BY <1>1, <1>2, NothingMergedKeeps
<1>5. \A h, m : IsMerged(h, m)' <=> IsMerged(h, m)
  BY <1>2 DEF IsMerged
<1>6. CASE Skip
  <2>1. phase = "run" /\ ~ stop /\ current.g \in full /\ NextRequest
    BY <1>6 DEF Skip
  <2>2. /\ phase' \in {"run", "done"}
        /\ current' \in [n : Nat, g : Groups]
        /\ phase' = "run" =>
             \A h \in Groups : \A m \in 1 .. Parts(h) :
               Passed(h, m)' => \/ Passed(h, m)
                                \/ h = current.g /\ m = current.n
                                \/ m = Parts(h) /\ BeforeALonger(h)
    BY <1>1, <2>1, NextRequestType
  <2>3. SplitTypeOK'
    BY <1>1, <1>2, <1>3, <2>2 DEF SplitTypeOK, Phases
  <2>4. AskedForAReason'
    BY <2>2 DEF AskedForAReason
  <2>5. PassedIsMerged'
    BY <1>1, <1>2, <1>3, <1>5, <2>1, <2>2 DEF PassedIsMerged
  <2>6. QED
    BY <1>3, <1>4, <2>3, <2>4, <2>5 DEF SplitInv
<1>7. CASE Cut \/ Ask \/ RetryTimer
  <2>1. /\ current' = current
        /\ \/ phase = "run" /\ stop /\ phase' = "cut"
           \/ phase = "run" /\ ~ stop /\ current.g \notin full /\ phase' = "asking"
           \/ phase = "backoff" /\ phase' = "run"
    BY <1>7 DEF Cut, Ask, RetryTimer
  <2>2. SplitTypeOK'
    BY <1>1, <1>2, <1>3, <2>1 DEF SplitTypeOK, Phases
  <2>3. AskedForAReason'
    BY <1>1, <1>2, <2>1 DEF AskedForAReason
  <2>4. PassedIsMerged'
    BY <1>1, <1>2, <1>3, <1>5, <2>1 DEF PassedIsMerged, Passed
  <2>5. QED
    BY <1>3, <1>4, <2>2, <2>3, <2>4 DEF SplitInv
<1>8. QED
  BY <1>6, <1>7

\* An answer is combined: the chunk of the present pointers is merged, if there
\* is one, and it leaves no hole.
LEMMA CombineKeeps ==
    ASSUME SplitInv, phase = "asking", merged' = Combine, UNCHANGED groups
    PROVE  /\ merged' \in Seq(Groups \X Nat)
           /\ \A h, m : IsMerged(h, m) => IsMerged(h, m)'
           /\ \A h, m : h = current.g /\ m = current.n /\ m \in 1 .. Parts(h) => IsMerged(h, m)'
           /\ NoHoles'
<1>1. /\ GroupsOK(groups) /\ SplitTypeOK /\ AskedForAReason /\ PassedIsMerged /\ NoHoles
      /\ ~ stop /\ current.g \notin full
  BY DEF SplitInv, AskedForAReason
<1>2. merged \in Seq(Groups \X Nat) /\ current.g \in Groups /\ current.n \in Nat
  BY <1>1 DEF SplitTypeOK
<1>3. /\ Groups' = Groups
      /\ \A h : Parts(h)' = Parts(h) /\ (BeforeALonger(h)' <=> BeforeALonger(h))
  BY GroupsStay
<1>4. CASE ~ HasRange
  <2>1. merged' = merged
    BY <1>4 DEF Combine
  <2>2. NoHoles'
    BY <1>1, <2>1, NothingMergedKeeps
  <2>3. QED
    BY <1>2, <1>4, <2>1, <2>2 DEF IsMerged, HasRange
<1>5. CASE HasRange
  <2> DEFINE c == <<current.g, current.n>>
             L == Len(merged)
  <2>1. merged' = Append(merged, c) /\ c \in Groups \X Nat
    BY <1>2, <1>5 DEF Combine
  <2>2. L \in Nat /\ DOMAIN merged = 1 .. L
    BY <1>2, LenProperties
  <2>3. /\ merged' \in Seq(Groups \X Nat)
        /\ DOMAIN merged' = 1 .. L + 1
        /\ \A k \in 1 .. L : merged'[k] = merged[k]
        /\ merged'[L + 1] = c
    <3>1. merged' \in Seq(Groups \X Nat) /\ Len(merged') = L + 1
      BY <1>2, <2>1
    <3>2. \A k \in 1 .. L : merged'[k] = merged[k]
      BY <1>2, <2>1
    <3>3. merged'[L + 1] = c
      BY <1>2, <2>1
    <3>4. QED
      BY <3>1, <3>2, <3>3, LenProperties
  <2> HIDE DEF c, L
  <2>4. ASSUME NEW h, NEW m, IsMerged(h, m)
        PROVE  IsMerged(h, m)'
    <3>1. PICK k \in 1 .. L : merged[k] = <<h, m>>
      BY <2>2, <2>4 DEF IsMerged
    <3>2. k \in 1 .. L + 1 /\ merged'[k] = <<h, m>>
      BY <2>2, <2>3, <3>1
    <3>3. QED
      BY <2>3, <3>2 DEF IsMerged
  <2>5. ASSUME NEW h, NEW m, h = current.g, m = current.n
        PROVE  IsMerged(h, m)'
    <3>1. L + 1 \in 1 .. L + 1
      BY <2>2
    <3>2. \E k \in DOMAIN merged' : merged'[k] = <<h, m>>
      BY <2>3, <2>5, <3>1 DEF c
    <3>3. QED
      BY <3>2 DEF IsMerged
  <2>6. NoHoles'
    <3>1. SUFFICES ASSUME NEW k \in 1 .. L + 1,
                          \/ merged'[k][2] < Parts(merged'[k][1]) - 1
                          \/ /\ merged'[k][2] = Parts(merged'[k][1]) - 1
                             /\ ~ BeforeALonger(merged'[k][1])
                   PROVE  \E j \in 1 .. k - 1 :
                             merged'[j] = <<merged'[k][1], merged'[k][2] + 1>>
      <4>1. DOMAIN merged' = 1 .. L + 1
        BY <2>3
      <4>2. \A h : Parts(h)' = Parts(h) /\ (BeforeALonger(h)' <=> BeforeALonger(h))
        BY <1>3
      <4>3. QED
        BY <4>1, <4>2 DEF NoHoles
    <3>2. PICK g, n : /\ g = merged'[k][1] /\ n = merged'[k][2]
                      /\ n < Parts(g) - 1 \/ (n = Parts(g) - 1 /\ ~ BeforeALonger(g))
      BY <3>1
    <3>3. CASE k \in 1 .. L
      <4>1. PICK j \in 1 .. k - 1 : merged[j] = <<g, n + 1>>
        BY <1>1, <2>2, <2>3, <3>2, <3>3 DEF NoHoles
      <4>2. j \in 1 .. L
        BY <3>3, <2>2
      <4>3. QED
        BY <2>3, <3>2, <4>1, <4>2
    <3>4. CASE k = L + 1
      <4>1. g = current.g /\ n = current.n
        BY <2>3, <3>2, <3>4 DEF c
      <4>2. Parts(g) \in Nat
        BY <4>1, <1>1, <1>2, GroupsFacts
      <4>3. n + 1 \in 1 .. Parts(g) /\ Passed(g, n + 1)
        BY <4>1, <4>2, <1>2, <3>2 DEF Passed
      <4>4. ~ (n + 1 = Parts(g) /\ BeforeALonger(g))
        BY <3>2, <4>1, <4>2, <1>2
      <4>5. IsMerged(g, n + 1)
        BY <1>1, <1>2, <4>1, <4>3, <4>4 DEF PassedIsMerged
      <4>6. PICK j \in 1 .. L : merged[j] = <<g, n + 1>>
        BY <2>2, <4>5 DEF IsMerged
      <4>7. j \in 1 .. k - 1 /\ merged'[j] = <<g, n + 1>>
        BY <2>2, <2>3, <3>4, <4>6
      <4>8. QED
        BY <3>2, <4>7
    <3>5. QED
      BY <2>2, <3>3, <3>4
  <2>7. QED
    BY <2>3, <2>4, <2>5, <2>6
<1>6. QED
  BY <1>4, <1>5

LEMMA AnswerDataKeeps ==
    ASSUME SplitInv, AnswerData
    PROVE  SplitInv'
<1>1. GroupsOK(groups) /\ SplitTypeOK /\ AskedForAReason /\ PassedIsMerged
  BY DEF SplitInv
<1>2. /\ phase = "asking" /\ merged' = Combine /\ NextRequest
      /\ UNCHANGED <<range, groups, nested, retried, stop, failure>>
      /\ full \subseteq full' /\ full' \subseteq full \cup {current.g}
  BY DEF AnswerData
<1>3. /\ GroupsOK(groups)' /\ Groups' = Groups
      /\ \A h : Parts(h)' = Parts(h) /\ (BeforeALonger(h)' <=> BeforeALonger(h))
  BY <1>1, <1>2, GroupsStay
<1>4. /\ merged' \in Seq(Groups \X Nat)
      /\ \A h, m : IsMerged(h, m) => IsMerged(h, m)'
      /\ \A h, m : h = current.g /\ m = current.n /\ m \in 1 .. Parts(h) => IsMerged(h, m)'
      /\ NoHoles'
  BY <1>2, CombineKeeps
<1>5. /\ phase' \in {"run", "done"}
      /\ current' \in [n : Nat, g : Groups]
      /\ phase' = "run" =>
           \A h \in Groups : \A m \in 1 .. Parts(h) :
             Passed(h, m)' => \/ Passed(h, m)
                              \/ h = current.g /\ m = current.n
                              \/ m = Parts(h) /\ BeforeALonger(h)
  BY <1>1, <1>2, NextRequestType
<1>6. SplitTypeOK'
  BY <1>1, <1>2, <1>3, <1>4, <1>5 DEF SplitTypeOK, Phases
<1>7. AskedForAReason'
  BY <1>5 DEF AskedForAReason
<1>8. PassedIsMerged'
  BY <1>1, <1>2, <1>3, <1>4, <1>5 DEF PassedIsMerged
<1>9. QED
  BY <1>3, <1>4, <1>6, <1>7, <1>8 DEF SplitInv

LEMMA AnswerErrorKeeps ==
    ASSUME SplitInv, NEW error \in Errors, AnswerError(error)
    PROVE  SplitInv'
<1>1. GroupsOK(groups) /\ SplitTypeOK /\ AskedForAReason /\ PassedIsMerged /\ NoHoles
  BY DEF SplitInv
<1>2. phase = "asking" /\ UNCHANGED <<range, groups, nested, full>>
  BY DEF AnswerError
<1>3. /\ GroupsOK(groups)' /\ Groups' = Groups
      /\ \A h : Parts(h)' = Parts(h) /\ (BeforeALonger(h)' <=> BeforeALonger(h))
  BY <1>1, <1>2, GroupsStay
<1>4. CASE MayRetry(error)
  <2>1. /\ phase' = "backoff" /\ retried' = retried \cup {current}
        /\ UNCHANGED <<current, stop, merged, failure>>
    BY <1>4 DEF AnswerError
  <2>2. SplitTypeOK'
    BY <1>1, <1>2, <1>3, <2>1 DEF SplitTypeOK, Phases
  <2>3. AskedForAReason'
    BY <1>1, <1>2, <2>1 DEF AskedForAReason
  <2>4. PassedIsMerged'
    BY <1>1, <1>2, <1>3, <2>1 DEF PassedIsMerged, Passed, IsMerged
  <2>5. NoHoles'
    BY <1>1, <1>2, <2>1, NothingMergedKeeps
  <2>6. QED
    BY <1>3, <2>2, <2>3, <2>4, <2>5 DEF SplitInv
<1>5. CASE ~ MayRetry(error)
  <2>1. /\ stop' = TRUE /\ NextRequest /\ UNCHANGED retried
        /\ merged' = merged \/ merged' = Combine
        /\ failure' = "partial" \/ failure' = error
    BY <1>5 DEF AnswerError
  <2>2. phase' \in {"run", "done"} /\ current' \in [n : Nat, g : Groups]
    BY <1>1, <2>1, NextRequestType
  <2>3. merged' \in Seq(Groups \X Nat) /\ NoHoles'
    <3>1. CASE merged' = merged
      BY <1>1, <1>2, <3>1, NothingMergedKeeps DEF SplitTypeOK
    <3>2. CASE merged' = Combine
      BY <1>2, <3>2, CombineKeeps
    <3>3. QED
      BY <2>1, <3>1, <3>2
  <2>4. SplitTypeOK'
    BY <1>1, <1>2, <1>3, <2>1, <2>2, <2>3 DEF SplitTypeOK, Phases, Errors
  <2>5. AskedForAReason'
    BY <2>2 DEF AskedForAReason
  <2>6. PassedIsMerged'
    BY <2>1 DEF PassedIsMerged
  <2>7. QED
    BY <1>3, <2>3, <2>4, <2>5, <2>6 DEF SplitInv
<1>6. QED
  BY <1>4, <1>5

\* The loop ends from outside, or by an exception.
LEMMA StoppedKeeps ==
    ASSUME SplitInv, stop' = TRUE, phase' \in Phases \ {"asking", "backoff"},
           UNCHANGED <<range, groups, nested, current, retried, full, merged, failure>>
    PROVE  SplitInv'
<1>1. GroupsOK(groups) /\ SplitTypeOK /\ AskedForAReason /\ PassedIsMerged /\ NoHoles
  BY DEF SplitInv
<1>2. GroupsOK(groups)' /\ Groups' = Groups
  BY <1>1, GroupsStay
<1>3. SplitTypeOK'
  BY <1>1, <1>2 DEF SplitTypeOK
<1>4. AskedForAReason' /\ PassedIsMerged'
  BY DEF AskedForAReason, PassedIsMerged
<1>5. NoHoles'
  BY <1>1, NothingMergedKeeps
<1>6. QED
  BY <1>2, <1>3, <1>4, <1>5 DEF SplitInv

LEMMA SplitStepKeeps ==
    ASSUME SplitInv, Runs \/ Answers \/ Unsubscribe
    PROVE  SplitInv'
<1>1. CASE Runs
  BY <1>1, RunsKeep DEF Runs
<1>2. CASE AnswerData
  BY <1>2, AnswerDataKeeps
<1>3. CASE \E error \in Errors : AnswerError(error)
  BY <1>3, AnswerErrorKeeps
<1>4. CASE Throw
  BY <1>4, StoppedKeeps DEF Throw, Phases
<1>5. CASE Unsubscribe
  BY <1>5, StoppedKeeps DEF Unsubscribe, Phases
<1>6. QED
  BY <1>1, <1>2, <1>3, <1>4, <1>5 DEF Answers

LEMMA SplitUnchangedKeeps ==
    ASSUME SplitInv, UNCHANGED splitVars
    PROVE  SplitInv'
<1>1. GroupsOK(groups) /\ SplitTypeOK /\ AskedForAReason /\ PassedIsMerged /\ NoHoles
  BY DEF SplitInv
<1>2. UNCHANGED <<range, groups, nested, phase, current, retried, stop, full, merged, failure>>
  BY DEF splitVars
<1>3. /\ GroupsOK(groups)' /\ Groups' = Groups
      /\ \A h : Parts(h)' = Parts(h) /\ (BeforeALonger(h)' <=> BeforeALonger(h))
  BY <1>1, <1>2, GroupsStay
<1>4. SplitTypeOK'
  BY <1>1, <1>2, <1>3 DEF SplitTypeOK
<1>5. AskedForAReason'
  BY <1>1, <1>2 DEF AskedForAReason
<1>6. PassedIsMerged'
  BY <1>1, <1>2, <1>3 DEF PassedIsMerged, Passed, IsMerged
<1>7. NoHoles'
  BY <1>1, <1>2, NothingMergedKeeps
<1>8. QED
  BY <1>3, <1>4, <1>5, <1>6, <1>7 DEF SplitInv

-----------------------------------------------------------------------------
(* The shard loop: types                                                     *)

ShardGroup == [shards : Nat, size : Nat, cycle : Nat]

\* A group of shards is never empty and no larger than all shards but one more.
SizeOK(shards, size) == IF shards = 0 THEN size = 0 ELSE size \in 1 .. shards + 1

GroupOK(x) == x.cycle <= x.shards /\ SizeOK(x.shards, x.size)

ShardsOK ==
    /\ shardGroups \in Seq(ShardGroup)
    /\ \A g \in DOMAIN shardGroups : GroupOK(shardGroups[g])

RestOK ==
    /\ outer \in Outers
    /\ outer # "off" => group \in ShardGroups
    /\ shardStop \in BOOLEAN
    /\ filled \subseteq ShardGroups
    /\ silent \subseteq ShardGroups \X Nat

AttemptsOK == \A k \in DOMAIN attempts : attempts[k] \in 1 .. 2

LEMMA ShardsFacts ==
    ASSUME ShardsOK
    PROVE  /\ ShardGroups = 1 .. Len(shardGroups)
           /\ Len(shardGroups) \in Nat
           /\ \A g \in ShardGroups :
                /\ g \in Nat
                /\ shardGroups[g].shards \in Nat
                /\ shardGroups[g].size \in Nat
                /\ shardGroups[g].cycle \in Nat
                /\ GroupOK(shardGroups[g])
                /\ shardGroups[g] \in ShardGroup
<1>1. shardGroups \in Seq(ShardGroup)
  BY DEF ShardsOK
<1>2. ShardGroups = 1 .. Len(shardGroups) /\ Len(shardGroups) \in Nat
  BY <1>1, LenProperties DEF ShardGroups
<1>3. \A g \in ShardGroups : shardGroups[g] \in ShardGroup
  <2> HIDE DEF ShardGroup
  <2>1. QED
    BY <1>1, <1>2, ElementOfSeq
<1>4. QED
  BY <1>2, <1>3 DEF ShardsOK, ShardGroup, ShardGroups

\* The sizes updateGroupSizeFromResponse may choose, after constrainGroupSize.
LEMMA SizesAfterOK ==
    ASSUME ShardsOK, NEW g \in ShardGroups, NEW size \in SizesAfter(g)
    PROVE  size \in Nat /\ SizeOK(shardGroups[g].shards, size)
<1> DEFINE x == shardGroups[g]
<1>1. x.shards \in Nat /\ x.size \in Nat /\ x.cycle \in Nat /\ SizeOK(x.shards, x.size)
  BY ShardsFacts DEF GroupOK
<1>2. CASE x.shards = 0
  BY <1>1, <1>2 DEF SizesAfter
<1>3. CASE x.shards # 0
  <2>1. PICK s \in NewSizes(x.size) : size = Constrained(x.cycle + x.size, s, x.shards)
    BY <1>3 DEF SizesAfter
  <2>2. x.size \in Nat \ {0}
    BY <1>1, <1>3 DEF SizeOK
  <2>3. s \in Nat \ {0}
    <3> DEFINE n == x.size
    <3>1. n \in Nat \ {0}
      BY <2>2
    <3>2. \/ s = n \/ s = n + 1 \/ s = (3 * n) \div 2 \/ s = (11 * n + 10 - 1) \div 10
          \/ n # 1 /\ (s = (9 * n + 10 - 1) \div 10 \/ s = n \div 2)
      BY <2>1 DEF NewSizes, CeilDiv
    <3> HIDE DEF n
    <3>3. QED
      BY <3>1, <3>2
  <2> DEFINE p == ((x.shards - (x.cycle + x.size)) * 7) \div 10
  <2>4. p \in Int /\ p <= x.shards
    BY <1>1, <2>2
  <2>5. size = Least(s, Greatest(p, 1))
    BY <2>1 DEF Constrained
  <2> HIDE DEF p
  <2>6. QED
    BY <1>1, <1>3, <2>3, <2>4, <2>5 DEF Least, Greatest, SizeOK
<1>4. QED
  BY <1>2, <1>3

\* The next group: pending, or none.
LEMMA NextShardsChooses ==
    ASSUME ShardsOK, RestOK, outer # "off", NEW size \in Nat, NEW stopped \in BOOLEAN,
           SizeOK(shardGroups[group].shards, size), NextShards(size, stopped)
    PROVE  /\ ShardsOK'
           /\ ShardGroups' = ShardGroups
           /\ group' \in ShardGroups
           /\ outer' \in {"run", "done", "error"}
           /\ outer' = "done" => ~ stopped
<1> DEFINE pending == {h \in ShardGroups : HasPending(h)}
           next    == IF group + 1 \in pending THEN group + 1
                      ELSE IF pending = {} THEN 0
                      ELSE CHOOSE h \in pending : \A i \in pending : h <= i
<1>1. /\ IF next = 0
         THEN /\ outer' = IF stopped THEN "error" ELSE "done"
              /\ UNCHANGED <<shardGroups, group>>
         ELSE /\ outer' = "run"
              /\ group' = next
              /\ shardGroups' =
                   IF next = group
                   THEN [shardGroups EXCEPT ![group] = Advanced(@, size)]
                   ELSE [shardGroups EXCEPT
                            ![next].cycle = Least(@ + shardGroups[next].size,
                                                  shardGroups[next].shards),
                            ![group].size = size]
  BY DEF NextShards
<1>2. /\ group \in ShardGroups
      /\ ShardGroups = 1 .. Len(shardGroups)
      /\ \A g \in ShardGroups :
           /\ g \in Nat /\ shardGroups[g].shards \in Nat /\ shardGroups[g].size \in Nat
           /\ shardGroups[g].cycle \in Nat /\ GroupOK(shardGroups[g])
           /\ shardGroups[g] \in ShardGroup
  BY ShardsFacts DEF RestOK
<1>3. next # 0 => next \in ShardGroups
  <2>1. CASE pending = {}
    BY <2>1
  <2>2. CASE pending # {}
    <3>1. \E h \in pending : \A i \in pending : h <= i
      <4>1. pending \subseteq Nat
        BY <1>2
      <4> HIDE DEF pending
      <4>2. QED
        BY <2>2, <4>1, LeastExists
    <3>2. (CHOOSE h \in pending : \A i \in pending : h <= i) \in pending
      <4> HIDE DEF pending
      <4>1. QED
        BY <3>1
    <3>3. pending \subseteq ShardGroups
      OBVIOUS
    <3> HIDE DEF pending
    <3>4. QED
      BY <2>2, <3>2, <3>3
  <2>3. QED
    BY <2>1, <2>2
<1> HIDE DEF next
<1>4. CASE next = 0
  BY <1>1, <1>2, <1>4 DEF ShardsOK, ShardGroups
<1>5. CASE next # 0
  <2>1. next \in ShardGroups /\ group' = next /\ outer' = "run"
    BY <1>1, <1>3, <1>5
  <2> DEFINE x == shardGroups[next]
             y == shardGroups[group]
             c == Least(x.cycle + x.size, x.shards)
  <2>2. c \in Nat /\ c <= x.shards
    BY <1>2, <2>1 DEF Least
  <2>3. /\ shardGroups' \in Seq(ShardGroup)
        /\ DOMAIN shardGroups' = DOMAIN shardGroups
        /\ \A g \in ShardGroups : GroupOK(shardGroups'[g])
    <3>1. CASE next = group
      <4> DEFINE z == Advanced(y, size)
      <4>1. shardGroups' = [shardGroups EXCEPT ![group] = z]
        BY <1>1, <1>5, <3>1
      <4>2. z \in ShardGroup /\ z = [shards |-> y.shards, size |-> size, cycle |-> c]
        <5>1. y \in ShardGroup /\ x = y
          BY <1>2, <3>1
        <5>2. y = [shards |-> y.shards, size |-> y.size, cycle |-> y.cycle]
          BY <5>1 DEF ShardGroup
        <5>3. z = [[y EXCEPT !.cycle = c] EXCEPT !.size = size]
          BY <5>1 DEF Advanced
        <5>4. z = [shards |-> y.shards, size |-> size, cycle |-> c]
          <6> HIDE DEF c, x, y, z
          <6>1. QED
            BY <5>2, <5>3
        <5>5. QED
          BY <1>2, <2>2, <5>4 DEF ShardGroup
      <4>3. GroupOK(z)
        BY <1>2, <2>2, <3>1, <4>2 DEF GroupOK
      <4> HIDE DEF z
      <4>4. /\ shardGroups' \in Seq(ShardGroup)
            /\ Len(shardGroups') = Len(shardGroups)
            /\ \A j \in 1 .. Len(shardGroups) :
                 shardGroups'[j] = IF j = group THEN z ELSE shardGroups[j]
        <5>1. shardGroups \in Seq(ShardGroup) /\ group \in 1 .. Len(shardGroups)
          BY <1>2 DEF ShardsOK
        <5> HIDE DEF ShardGroup
        <5>2. QED
          BY <4>1, <4>2, <5>1, ExceptSeq
      <4>5. DOMAIN shardGroups' = 1 .. Len(shardGroups)
        BY <4>4, LenProperties
      <4>6. QED
        BY <1>2, <4>3, <4>4, <4>5 DEF ShardGroups
    <3>2. CASE next # group
      <4> DEFINE u == [x EXCEPT !.cycle = c]
                 v == [y EXCEPT !.size = size]
                 mid == [shardGroups EXCEPT ![next] = u]
      <4>1. shardGroups' = [mid EXCEPT ![group] = v]
        <5>1. shardGroups' = [shardGroups EXCEPT ![next].cycle = c, ![group].size = size]
          BY <1>1, <1>5, <3>2
        <5>2. group \in DOMAIN shardGroups /\ next \in DOMAIN shardGroups
          BY <1>2, <2>1 DEF ShardGroups
        <5>3. shardGroups' = [mid EXCEPT ![group].size = size]
          BY <5>1
        <5>4. mid[group] = y
          BY <3>2, <5>2
        <5>5. QED
          BY <5>3, <5>4
      <4>2. u \in ShardGroup /\ GroupOK(u)
        BY <1>2, <2>1, <2>2 DEF ShardGroup, GroupOK
      <4>3. v \in ShardGroup /\ GroupOK(v)
        BY <1>2 DEF ShardGroup, GroupOK
      <4> HIDE DEF u, v
      <4>4. /\ mid \in Seq(ShardGroup)
            /\ Len(mid) = Len(shardGroups)
            /\ \A j \in 1 .. Len(shardGroups) : mid[j] = IF j = next THEN u ELSE shardGroups[j]
        <5>1. shardGroups \in Seq(ShardGroup) /\ next \in 1 .. Len(shardGroups)
          BY <1>2, <2>1 DEF ShardsOK
        <5> HIDE DEF ShardGroup
        <5>2. QED
          BY <4>2, <5>1, ExceptSeq
      <4> HIDE DEF mid
      <4>5. /\ shardGroups' \in Seq(ShardGroup)
            /\ Len(shardGroups') = Len(shardGroups)
            /\ \A j \in 1 .. Len(shardGroups) : shardGroups'[j] = IF j = group THEN v ELSE mid[j]
        <5>1. group \in 1 .. Len(mid)
          BY <1>2, <4>4
        <5> HIDE DEF ShardGroup
        <5>2. QED
          BY <4>1, <4>3, <4>4, <5>1, ExceptSeq
      <4>6. DOMAIN shardGroups' = 1 .. Len(shardGroups)
        BY <4>5, LenProperties
      <4>7. QED
        BY <1>2, <4>2, <4>3, <4>4, <4>5, <4>6 DEF ShardGroups
    <3>3. QED
      BY <3>1, <3>2
  <2>4. QED
    BY <2>1, <2>3 DEF ShardsOK, ShardGroups
<1>6. QED
  BY <1>4, <1>5

-----------------------------------------------------------------------------
(* The shard loop of one selector: which shards are accounted for            *)

Accounted(i) == 1 \in filled \/ asked[1][i] = 1 \/ <<1, i>> \in silent

OneSelector ==
    LET x == shardGroups[1]
    IN  /\ 1 \in DOMAIN asked
        /\ asked[1] \in [0 .. x.shards -> {0, 1}]
        /\ \A i \in 0 .. x.shards : asked[1][i] = 1 => <<1, i>> \notin silent
        /\ outer \in {"run", "query", "backoff"} /\ ~ shardStop =>
             \A i \in 0 .. x.shards :
                IF i \in 1 .. x.cycle THEN Accounted(i)
                                      ELSE asked[1][i] = 0 /\ <<1, i>> \notin silent
        /\ outer = "done" => \A i \in 0 .. x.shards : Accounted(i)

ShardingInv == Len(shardGroups) = 1 => OneSelector

\* An error stops the loop at once.
StopStops == outer \in {"query", "backoff"} => ~ shardStop

\* Between subrequests the time loop has not begun.
IdleBetween == outer \in {"run", "backoff"} => phase = "idle"

IInv == SplitInv /\ ShardsOK /\ RestOK /\ AttemptsOK /\ StopStops /\ ShardingInv

\* With one group the shards that are asked for are those the cycle passes
\* next, whatever size the next group has; those without a shard come last.
LEMMA OneGroupNext ==
    ASSUME ShardsOK, RestOK, outer # "off", Len(shardGroups) = 1,
           NEW size \in Nat, NEW stopped \in BOOLEAN, NextShards(size, stopped)
    PROVE  /\ shardGroups'[1].shards = shardGroups[1].shards
           /\ \/ /\ outer' = IF stopped THEN "error" ELSE "done"
                 /\ shardGroups[1].cycle = shardGroups[1].shards
                 /\ ShardsToQuery(1) = {0}
              \/ /\ outer' = "run"
                 /\ \A i \in 0 .. shardGroups[1].shards :
                      i \in 1 .. shardGroups'[1].cycle
                        <=> i \in 1 .. shardGroups[1].cycle \/ i \in ShardsToQuery(1)
                 /\ \A i \in ShardsToQuery(1) : i \notin 1 .. shardGroups[1].cycle
<1> DEFINE x == shardGroups[1]
           c == Least(x.cycle + x.size, x.shards)
<1>1. /\ ShardGroups = {1} /\ group = 1 /\ 1 \in DOMAIN shardGroups
      /\ x.shards \in Nat /\ x.size \in Nat /\ x.cycle \in Nat /\ x.cycle <= x.shards
      /\ x \in ShardGroup
  BY ShardsFacts DEF RestOK, GroupOK, ShardGroups
<1>2. CASE HasPending(1)
  <2>1. {h \in ShardGroups : HasPending(h)} = {1}
    BY <1>1, <1>2
  <2>2. (CHOOSE h \in {1} : \A i \in {1} : h <= i) = 1
    OBVIOUS
  <2>3. outer' = "run" /\ shardGroups' = [shardGroups EXCEPT ![1] = Advanced(@, size)]
    BY <1>1, <2>1, <2>2 DEF NextShards
  <2>4. shardGroups'[1] = Advanced(x, size)
    BY <1>1, <2>3
  <2>5. x = [shards |-> x.shards, size |-> x.size, cycle |-> x.cycle]
    BY <1>1 DEF ShardGroup
  <2>6. Advanced(x, size) = [[x EXCEPT !.cycle = c] EXCEPT !.size = size]
    BY DEF Advanced
  <2>7. shardGroups'[1] = [shards |-> x.shards, size |-> size, cycle |-> c]
    <3> HIDE DEF c, x
    <3>1. QED
      BY <2>4, <2>5, <2>6
  <2>8. x.cycle < x.shards
    BY <1>2 DEF HasPending
  <2>9. ShardsToQuery(1) = x.cycle + 1 .. c
    BY <1>1, <2>8 DEF ShardsToQuery
  <2>10. c \in Nat /\ x.cycle <= c /\ c <= x.shards
    BY <1>1 DEF Least
  <2>11. shardGroups'[1].shards = x.shards /\ shardGroups'[1].cycle = c
    BY <2>7
  <2> HIDE DEF c, x
  <2>12. \A i \in 0 .. x.shards :
           i \in 1 .. c <=> i \in 1 .. x.cycle \/ i \in x.cycle + 1 .. c
    BY <1>1, <2>10
  <2>13. \A i \in x.cycle + 1 .. c : i \notin 1 .. x.cycle
    BY <1>1, <2>10
  <2>14. QED
    BY <2>3, <2>9, <2>11, <2>12, <2>13 DEF x
<1>3. CASE ~ HasPending(1)
  <2>1. {h \in ShardGroups : HasPending(h)} = {}
    BY <1>1, <1>3
  <2>2. outer' = (IF stopped THEN "error" ELSE "done") /\ UNCHANGED shardGroups
    BY <1>1, <2>1 DEF NextShards
  <2>3. x.cycle = x.shards
    BY <1>1, <1>3 DEF HasPending
  <2>4. QED
    BY <2>2, <2>3 DEF ShardsToQuery
<1>4. QED
  BY <1>2, <1>3

-----------------------------------------------------------------------------
(* Every step keeps the invariant                                            *)

LEMMA EndSplitKeeps ==
    ASSUME SplitInv, EndSplit
    PROVE  SplitInv'
<1>1. GroupsOK(groups) /\ nested \in BOOLEAN
  BY DEF SplitInv, SplitTypeOK
<1>2. [n |-> 1, g |-> 1] \in [n : Nat, g : Groups]
  BY <1>1, GroupsFacts
<1>3. phase' = "idle" /\ current' = [n |-> 1, g |-> 1]
      /\ retried' = {} /\ stop' = FALSE /\ full' = {} /\ merged' = <<>>
      /\ failure' = "none" /\ UNCHANGED <<groups, nested>>
  BY DEF EndSplit
<1>4. QED
  BY <1>1, <1>2, <1>3, StartsOver DEF Phases

LEMMA StartKeeps ==
    ASSUME SplitInv, Start(groups), UNCHANGED <<range, groups, nested>>
    PROVE  SplitInv'
<1>1. GroupsOK(groups) /\ nested \in BOOLEAN
  BY DEF SplitInv, SplitTypeOK
<1>2. TotalRequests(groups) \in Nat
  BY <1>1, TotalRequestsIsLargest
<1>3. [n |-> TotalRequests(groups), g |-> 1] \in [n : Nat, g : Groups]
  BY <1>1, <1>2, GroupsFacts
<1>4. QED
  BY <1>1, <1>3, StartsOver DEF Start, Phases

LEMMA ShardUnchangedKeeps ==
    ASSUME IInv, UNCHANGED <<shardGroups, group, attempts, filled, asked, silent>>,
           outer' \in Outers, shardStop' \in BOOLEAN,
           outer = "off" => outer' = "off", outer' = "done" => outer = "done",
           outer' \in {"run", "query", "backoff"} => outer \in {"run", "query", "backoff"},
           shardStop => shardStop' \/ outer' \notin {"run", "query", "backoff"},
           outer' \in {"query", "backoff"} => ~ shardStop'
    PROVE  ShardsOK' /\ RestOK' /\ AttemptsOK' /\ StopStops' /\ ShardingInv'
<1>1. ShardsOK /\ RestOK /\ AttemptsOK /\ StopStops /\ ShardingInv
  BY DEF IInv
<1>2. ShardsOK' /\ AttemptsOK' /\ StopStops'
  BY <1>1 DEF ShardsOK, AttemptsOK, StopStops
<1>3. RestOK'
  BY <1>1 DEF RestOK, ShardGroups
<1>4. ShardingInv'
  BY <1>1 DEF ShardingInv, OneSelector, Accounted
<1>5. QED
  BY <1>2, <1>3, <1>4

\* A subrequest has ended, or is left out, and the loop looks for the next.
LEMMA NextShardsKeeps ==
    ASSUME IInv, outer # "off", NEW size \in Nat, NEW stopped \in BOOLEAN,
           SizeOK(shardGroups[group].shards, size), NextShards(size, stopped),
           UNCHANGED attempts, shardStop' \in BOOLEAN,
           filled' \subseteq ShardGroups, silent' \subseteq ShardGroups \X Nat
    PROVE  ShardsOK' /\ RestOK' /\ AttemptsOK' /\ StopStops'
<1>1. ShardsOK /\ RestOK /\ AttemptsOK
  BY DEF IInv
<1>2. /\ ShardsOK' /\ ShardGroups' = ShardGroups /\ group' \in ShardGroups
      /\ outer' \in {"run", "done", "error"}
  BY <1>1, NextShardsChooses
<1>3. RestOK'
  BY <1>2 DEF RestOK, Outers
<1>4. AttemptsOK' /\ StopStops'
  BY <1>1, <1>2 DEF AttemptsOK, StopStops
<1>5. QED
  BY <1>2, <1>3, <1>4

\* The shards of one selector after a subrequest: those that were asked for
\* are accounted for now, or the loop stops.
LEMMA NextShardsAccounts ==
    ASSUME IInv, outer # "off", NEW size \in Nat, NEW stopped \in BOOLEAN,
           SizeOK(shardGroups[group].shards, size), NextShards(size, stopped),
           outer \in {"run", "query"}, ~ shardStop, stopped <=> shardStop',
           Len(shardGroups) = 1 =>
             /\ 1 \in DOMAIN asked'
             /\ asked'[1] \in [0 .. shardGroups[1].shards -> {0, 1}]
             /\ \A i \in 0 .. shardGroups[1].shards :
                  /\ asked'[1][i] = 1 => <<1, i>> \notin silent'
                  /\ Accounted(i) => Accounted(i)'
                  /\ i \in ShardsToQuery(1) /\ ~ stopped => Accounted(i)'
                  /\ i \notin ShardsToQuery(1) /\ asked[1][i] = 0 /\ <<1, i>> \notin silent
                        => asked'[1][i] = 0 /\ <<1, i>> \notin silent'
    PROVE  ShardingInv'
<1>1. ShardsOK /\ RestOK /\ ShardingInv
  BY DEF IInv
<1>2. Len(shardGroups') = Len(shardGroups)
  <2>1. ShardsOK' /\ ShardGroups' = ShardGroups
    BY <1>1, NextShardsChooses
  <2>2. ShardGroups = 1 .. Len(shardGroups) /\ Len(shardGroups) \in Nat
    BY <1>1, ShardsFacts
  <2>3. shardGroups' \in Seq(ShardGroup)
    BY <2>1 DEF ShardsOK
  <2>4. DOMAIN shardGroups' = 1 .. Len(shardGroups') /\ Len(shardGroups') \in Nat
    BY <2>3, LenProperties
  <2>5. DOMAIN shardGroups' = 1 .. Len(shardGroups)
    BY <2>1, <2>2 DEF ShardGroups
  <2>6. QED
    BY <2>2, <2>4, <2>5
<1>3. SUFFICES ASSUME Len(shardGroups) = 1
               PROVE  OneSelector'
  BY <1>2 DEF ShardingInv
<1>4. OneSelector
  BY <1>1, <1>3 DEF ShardingInv
<1> DEFINE n == shardGroups[1].shards
           c == shardGroups[1].cycle
<1>5. n \in Nat /\ c \in Nat /\ c <= n
  BY <1>1, <1>3, ShardsFacts DEF GroupOK
<1>6. \A i \in 0 .. n : IF i \in 1 .. c THEN Accounted(i)
                        ELSE asked[1][i] = 0 /\ <<1, i>> \notin silent
  BY <1>4 DEF OneSelector
<1>7. /\ shardGroups'[1].shards = n
      /\ \/ /\ outer' = IF stopped THEN "error" ELSE "done"
            /\ c = n /\ ShardsToQuery(1) = {0}
         \/ /\ outer' = "run"
            /\ \A i \in 0 .. n :
                 i \in 1 .. shardGroups'[1].cycle <=> i \in 1 .. c \/ i \in ShardsToQuery(1)
            /\ \A i \in ShardsToQuery(1) : i \notin 1 .. c
  BY <1>1, <1>3, OneGroupNext
<1> HIDE DEF n, c
<1>8. /\ 1 \in DOMAIN asked'
      /\ asked'[1] \in [0 .. n -> {0, 1}]
      /\ \A i \in 0 .. n :
           /\ asked'[1][i] = 1 => <<1, i>> \notin silent'
           /\ Accounted(i) => Accounted(i)'
           /\ i \in ShardsToQuery(1) /\ ~ stopped => Accounted(i)'
           /\ i \notin ShardsToQuery(1) /\ asked[1][i] = 0 /\ <<1, i>> \notin silent
                 => asked'[1][i] = 0 /\ <<1, i>> \notin silent'
  BY <1>3 DEF n
<1>9. CASE outer' \in {"done", "error"}
  <2>1. \A i \in 0 .. n : ~ stopped => Accounted(i)'
    <3>1. SUFFICES ASSUME NEW i \in 0 .. n, ~ stopped
                   PROVE  Accounted(i)'
      OBVIOUS
    <3>2. i \in 1 .. c \/ i \in ShardsToQuery(1)
      BY <1>5, <1>7, <1>9
    <3>3. QED
      BY <1>6, <1>8, <3>1, <3>2
  <2>2. outer' = "done" => ~ stopped
    BY <1>7
  <2>3. QED
    BY <1>7, <1>8, <1>9, <2>1, <2>2 DEF OneSelector
<1>10. CASE outer' = "run"
  <2>1. ASSUME NEW i \in 0 .. n, ~ shardStop'
        PROVE  IF i \in 1 .. shardGroups'[1].cycle THEN Accounted(i)'
               ELSE asked'[1][i] = 0 /\ <<1, i>> \notin silent'
    <3>1. i \in 1 .. shardGroups'[1].cycle <=> i \in 1 .. c \/ i \in ShardsToQuery(1)
      BY <1>7, <1>10, <2>1
    <3>2. QED
      BY <1>6, <1>8, <2>1, <3>1
  <2>2. QED
    BY <1>7, <1>8, <1>10, <2>1 DEF OneSelector
<1>11. QED
  BY <1>7, <1>9, <1>10

\* A subrequest is asked for shards the one group has.
LEMMA ToQueryType ==
    ASSUME ShardsOK, NEW g \in ShardGroups
    PROVE  ShardsToQuery(g) \subseteq 0 .. shardGroups[g].shards
<1>1. /\ shardGroups[g].shards \in Nat /\ shardGroups[g].size \in Nat
      /\ shardGroups[g].cycle \in Nat
  BY ShardsFacts
<1>2. QED
  BY <1>1 DEF ShardsToQuery, Least

LEMMA OneGroupFacts ==
    ASSUME IInv, outer # "off", Len(shardGroups) = 1
    PROVE  /\ group = 1 /\ 1 \in ShardGroups
           /\ shardGroups[1].shards \in Nat
           /\ ShardsToQuery(1) \subseteq 0 .. shardGroups[1].shards
           /\ \A i \in ShardsToQuery(1) : i \notin 1 .. shardGroups[1].cycle
           /\ OneSelector
<1>1. ShardsOK /\ RestOK /\ ShardingInv
  BY DEF IInv
<1>2. ShardGroups = {1} /\ group = 1
  BY <1>1, ShardsFacts DEF RestOK
<1>3. /\ shardGroups[1].shards \in Nat /\ shardGroups[1].size \in Nat
      /\ shardGroups[1].cycle \in Nat /\ shardGroups[1].cycle <= shardGroups[1].shards
  BY <1>1, <1>2, ShardsFacts DEF GroupOK
<1>4. ShardsToQuery(1) \subseteq 0 .. shardGroups[1].shards
  BY <1>1, <1>2, ToQueryType
<1>5. \A i \in ShardsToQuery(1) : i \notin 1 .. shardGroups[1].cycle
  BY <1>3 DEF ShardsToQuery, Least
<1>6. QED
  BY <1>1, <1>2, <1>3, <1>4, <1>5 DEF ShardingInv

\* Nothing is said of any shard: what is accounted for stays as it is.
LEMMA NothingSaidAccounts ==
    ASSUME IInv, outer # "off", UNCHANGED <<asked, silent>>, filled \subseteq filled',
           NEW stopped \in BOOLEAN, stopped \/ 1 \in filled'
    PROVE  Len(shardGroups) = 1 =>
             /\ 1 \in DOMAIN asked'
             /\ asked'[1] \in [0 .. shardGroups[1].shards -> {0, 1}]
             /\ \A i \in 0 .. shardGroups[1].shards :
                  /\ asked'[1][i] = 1 => <<1, i>> \notin silent'
                  /\ Accounted(i) => Accounted(i)'
                  /\ i \in ShardsToQuery(1) /\ ~ stopped => Accounted(i)'
                  /\ i \notin ShardsToQuery(1) /\ asked[1][i] = 0 /\ <<1, i>> \notin silent
                        => asked'[1][i] = 0 /\ <<1, i>> \notin silent'
<1>1. SUFFICES ASSUME Len(shardGroups) = 1
               PROVE  /\ 1 \in DOMAIN asked'
                      /\ asked'[1] \in [0 .. shardGroups[1].shards -> {0, 1}]
                      /\ \A i \in 0 .. shardGroups[1].shards :
                           /\ asked'[1][i] = 1 => <<1, i>> \notin silent'
                           /\ Accounted(i) => Accounted(i)'
                           /\ i \in ShardsToQuery(1) /\ ~ stopped => Accounted(i)'
                           /\ i \notin ShardsToQuery(1) /\ asked[1][i] = 0
                                /\ <<1, i>> \notin silent
                                 => asked'[1][i] = 0 /\ <<1, i>> \notin silent'
  OBVIOUS
<1>2. OneSelector
  BY <1>1, OneGroupFacts
<1>3. QED
  BY <1>2 DEF OneSelector, Accounted

LEMMA ShardSkipKeeps ==
    ASSUME IInv, ShardSkip
    PROVE  IInv'
<1>1. /\ SplitInv /\ ShardsOK /\ RestOK
      /\ outer = "run" /\ ~ shardStop /\ group \in filled
      /\ NextShards(shardGroups[group].size, FALSE)
      /\ UNCHANGED <<splitVars, attempts, shardStop, filled, asked, silent>>
  BY DEF IInv, ShardSkip
<1>2. group \in ShardGroups /\ shardGroups[group].size \in Nat
      /\ SizeOK(shardGroups[group].shards, shardGroups[group].size)
  BY <1>1, ShardsFacts DEF RestOK, GroupOK
<1>3. SplitInv'
  BY <1>1, SplitUnchangedKeeps
<1>4. ShardsOK' /\ RestOK' /\ AttemptsOK' /\ StopStops'
  BY <1>1, <1>2, NextShardsKeeps DEF RestOK
<1>5. ShardingInv'
  <2>1. Len(shardGroups) = 1 => 1 \in filled'
    BY <1>1, OneGroupFacts
  <2>2. CASE Len(shardGroups) = 1
    BY <1>1, <1>2, <2>1, <2>2, NothingSaidAccounts, NextShardsAccounts DEF RestOK
  <2>3. CASE Len(shardGroups) # 1
    BY <1>1, <1>2, <2>3, NextShardsAccounts DEF RestOK
  <2>4. QED
    BY <2>2, <2>3
<1>6. QED
  BY <1>3, <1>4, <1>5 DEF IInv

LEMMA ShardGiveUpKeeps ==
    ASSUME IInv, ShardGiveUp
    PROVE  IInv'
<1>1. /\ SplitInv /\ ShardsOK /\ RestOK /\ StopStops
      /\ outer = "query" /\ shardStop' = TRUE
      /\ EndSplit
      /\ UNCHANGED <<attempts, filled, asked, silent>>
  BY DEF IInv, ShardGiveUp, Refused, TimedOut
<1>2. PICK size \in SizesAfter(group) : NextShards(size, TRUE)
  BY DEF ShardGiveUp
<1>3. size \in Nat /\ SizeOK(shardGroups[group].shards, size)
  BY <1>1, SizesAfterOK DEF RestOK
<1>4. SplitInv'
  BY <1>1, EndSplitKeeps
<1>5. ShardsOK' /\ RestOK' /\ AttemptsOK' /\ StopStops'
  BY <1>1, <1>2, <1>3, NextShardsKeeps DEF RestOK
<1>6. ShardingInv'
  BY <1>1, <1>2, <1>3, NothingSaidAccounts, NextShardsAccounts DEF StopStops
<1>7. QED
  BY <1>4, <1>5, <1>6 DEF IInv

LEMMA ShardSilentKeeps ==
    ASSUME IInv, ShardSilent
    PROVE  IInv'
<1>1. /\ SplitInv /\ ShardsOK /\ RestOK /\ StopStops
      /\ outer = "query"
      /\ silent' = silent \cup ({group} \X ShardsToQuery(group))
      /\ NextShards(shardGroups[group].size, FALSE)
      /\ EndSplit
      /\ UNCHANGED <<attempts, shardStop, filled, asked>>
  BY DEF IInv, ShardSilent
<1>2. group \in ShardGroups /\ shardGroups[group].size \in Nat
      /\ SizeOK(shardGroups[group].shards, shardGroups[group].size)
  BY <1>1, ShardsFacts DEF RestOK, GroupOK
<1>3. ~ shardStop /\ ~ shardStop'
  BY <1>1 DEF StopStops
<1>4. SplitInv'
  BY <1>1, EndSplitKeeps
<1>5. silent' \subseteq ShardGroups \X Nat
  <2>1. shardGroups[group].shards \in Nat /\ ShardsToQuery(group) \subseteq 0 .. shardGroups[group].shards
    BY <1>1, <1>2, ToQueryType, ShardsFacts
  <2>2. QED
    BY <1>1, <1>2, <2>1 DEF RestOK
<1>6. ShardsOK' /\ RestOK' /\ AttemptsOK' /\ StopStops'
  BY <1>1, <1>2, <1>5, NextShardsKeeps DEF RestOK
<1>7. ASSUME Len(shardGroups) = 1
      PROVE  /\ 1 \in DOMAIN asked'
             /\ asked'[1] \in [0 .. shardGroups[1].shards -> {0, 1}]
             /\ \A i \in 0 .. shardGroups[1].shards :
                  /\ asked'[1][i] = 1 => <<1, i>> \notin silent'
                  /\ Accounted(i) => Accounted(i)'
                  /\ i \in ShardsToQuery(1) /\ ~ FALSE => Accounted(i)'
                  /\ i \notin ShardsToQuery(1) /\ asked[1][i] = 0 /\ <<1, i>> \notin silent
                        => asked'[1][i] = 0 /\ <<1, i>> \notin silent'
  <2>1. /\ group = 1 /\ OneSelector
        /\ \A i \in ShardsToQuery(1) : i \notin 1 .. shardGroups[1].cycle
        /\ ShardsToQuery(1) \subseteq 0 .. shardGroups[1].shards
    BY <1>1, <1>7, OneGroupFacts
  <2>2. \A i : <<1, i>> \in silent' <=> <<1, i>> \in silent \/ i \in ShardsToQuery(1)
    BY <1>1, <2>1
  <2>3. \A i \in ShardsToQuery(1) : asked[1][i] = 0
    BY <1>1, <1>3, <2>1 DEF OneSelector
  <2>4. QED
    BY <1>1, <2>1, <2>2, <2>3 DEF OneSelector, Accounted
<1>8. ShardingInv'
  BY <1>1, <1>2, <1>3, <1>7, NextShardsAccounts
<1>9. QED
  BY <1>4, <1>6, <1>8 DEF IInv

LEMMA ShardAnswerKeeps ==
    ASSUME IInv, ShardAnswer
    PROVE  IInv'
<1>1. /\ SplitInv /\ ShardsOK /\ RestOK /\ StopStops
      /\ outer = "query"
      /\ asked' = Combined(group)
      /\ filled \subseteq filled' /\ filled' \subseteq filled \cup {group}
      /\ EndSplit
      /\ UNCHANGED <<attempts, shardStop, silent>>
  BY DEF IInv, ShardAnswer, Answered
<1>2. PICK size \in SizesAfter(group) : NextShards(size, FALSE)
  BY DEF ShardAnswer
<1>3. group \in ShardGroups /\ size \in Nat /\ SizeOK(shardGroups[group].shards, size)
  BY <1>1, SizesAfterOK DEF RestOK
<1>4. ~ shardStop /\ ~ shardStop'
  BY <1>1 DEF StopStops
<1>5. SplitInv'
  BY <1>1, EndSplitKeeps
<1>6. ShardsOK' /\ RestOK' /\ AttemptsOK' /\ StopStops'
  BY <1>1, <1>2, <1>3, NextShardsKeeps DEF RestOK
<1>7. ASSUME Len(shardGroups) = 1
      PROVE  /\ 1 \in DOMAIN asked'
             /\ asked'[1] \in [0 .. shardGroups[1].shards -> {0, 1}]
             /\ \A i \in 0 .. shardGroups[1].shards :
                  /\ asked'[1][i] = 1 => <<1, i>> \notin silent'
                  /\ Accounted(i) => Accounted(i)'
                  /\ i \in ShardsToQuery(1) /\ ~ FALSE => Accounted(i)'
                  /\ i \notin ShardsToQuery(1) /\ asked[1][i] = 0 /\ <<1, i>> \notin silent
                        => asked'[1][i] = 0 /\ <<1, i>> \notin silent'
  <2> DEFINE n == shardGroups[1].shards
             Q == ShardsToQuery(1)
  <2>1. /\ group = 1 /\ OneSelector /\ n \in Nat
        /\ \A i \in Q : i \notin 1 .. shardGroups[1].cycle
        /\ Q \subseteq 0 .. n
    BY <1>1, <1>7, OneGroupFacts
  <2>2. 1 \in DOMAIN asked /\ asked[1] \in [0 .. n -> {0, 1}]
    BY <2>1 DEF OneSelector
  <2>3. asked' = [asked EXCEPT ![1] =
                    [i \in DOMAIN asked[1] |-> IF i \in Q THEN asked[1][i] + 1 ELSE asked[1][i]]]
    BY <1>1, <2>1 DEF Combined
  <2> HIDE DEF Q, n
  <2>4. 1 \in DOMAIN asked'
        /\ asked'[1] = [i \in 0 .. n |-> IF i \in Q THEN asked[1][i] + 1 ELSE asked[1][i]]
    BY <2>2, <2>3
  <2>5. \A i \in Q : i \in 0 .. n /\ asked[1][i] = 0 /\ <<1, i>> \notin silent
    BY <1>1, <1>4, <2>1 DEF OneSelector, n
  <2>6. \A i \in 0 .. n : asked'[1][i] = IF i \in Q THEN 1 ELSE asked[1][i]
    <3>1. SUFFICES ASSUME NEW i \in 0 .. n
                   PROVE  asked'[1][i] = IF i \in Q THEN 1 ELSE asked[1][i]
      OBVIOUS
    <3>2. asked'[1][i] = IF i \in Q THEN asked[1][i] + 1 ELSE asked[1][i]
      BY <2>4, Zenon
    <3>3. CASE i \in Q
      <4>1. asked'[1][i] = asked[1][i] + 1
        BY <3>2, <3>3
      <4>2. asked[1][i] = 0
        BY <2>5, <3>3, Zenon
      <4>3. asked'[1][i] = 1
        BY <4>1, <4>2
      <4>4. QED
        BY <3>3, <4>3
    <3>4. QED
      BY <3>2, <3>3
  <2>7. asked'[1] \in [0 .. n -> {0, 1}]
    BY <2>2, <2>4, <2>6
  <2>8. \A i \in 0 .. n : asked[1][i] = 1 => <<1, i>> \notin silent
    BY <2>1 DEF OneSelector, n
  <2>9. \A i \in 0 .. n :
           /\ asked'[1][i] = 1 => <<1, i>> \notin silent'
           /\ Accounted(i) => Accounted(i)'
           /\ i \in Q => Accounted(i)'
           /\ i \notin Q /\ asked[1][i] = 0 /\ <<1, i>> \notin silent
                 => asked'[1][i] = 0 /\ <<1, i>> \notin silent'
    <3>1. SUFFICES ASSUME NEW i \in 0 .. n
                   PROVE  /\ asked'[1][i] = 1 => <<1, i>> \notin silent'
                          /\ Accounted(i) => Accounted(i)'
                          /\ i \in Q => Accounted(i)'
                          /\ i \notin Q /\ asked[1][i] = 0 /\ <<1, i>> \notin silent
                                => asked'[1][i] = 0 /\ <<1, i>> \notin silent'
      OBVIOUS
    <3>2. CASE i \in Q
      <4>1. asked'[1][i] = 1 /\ <<1, i>> \notin silent'
        BY <1>1, <2>5, <2>6, <3>2
      <4>2. QED
        BY <3>2, <4>1 DEF Accounted
    <3>3. CASE i \notin Q
      <4>1. asked'[1][i] = asked[1][i] /\ silent' = silent /\ filled \subseteq filled'
        BY <1>1, <2>6, <3>3
      <4>2. QED
        BY <2>8, <3>3, <4>1 DEF Accounted
    <3>4. QED
      BY <3>2, <3>3
  <2>10. QED
    BY <2>4, <2>7, <2>9 DEF n, Q
<1>8. ShardingInv'
  BY <1>1, <1>2, <1>3, <1>4, <1>7, NextShardsAccounts
<1>9. QED
  BY <1>5, <1>6, <1>8 DEF IInv

LEMMA ShardShrinkKeeps ==
    ASSUME IInv, ShardShrink
    PROVE  IInv'
<1> DEFINE x == shardGroups[group]
           z == [x EXCEPT !.size = Root(x.size)]
<1>1. /\ SplitInv /\ ShardsOK /\ RestOK /\ AttemptsOK /\ StopStops /\ ShardingInv
      /\ outer = "query" /\ x.size > 1
      /\ shardGroups' = [shardGroups EXCEPT ![group] = z]
      /\ outer' = "run" /\ EndSplit
      /\ UNCHANGED <<group, attempts, shardStop, filled, asked, silent>>
  BY DEF IInv, ShardShrink, TimedOut, Shrunk
<1>2. /\ group \in ShardGroups /\ ShardGroups = 1 .. Len(shardGroups)
      /\ x \in ShardGroup /\ GroupOK(x)
      /\ x.shards \in Nat /\ x.size \in Nat /\ x.cycle \in Nat
  BY <1>1, ShardsFacts DEF RestOK
<1>3. Root(x.size) \in 1 .. x.size
  BY <1>1, <1>2, RootType
<1>4. z \in ShardGroup /\ z.shards = x.shards /\ z.cycle = x.cycle /\ z.size = Root(x.size)
  BY <1>2, <1>3 DEF ShardGroup
<1>5. GroupOK(z)
  BY <1>1, <1>2, <1>3, <1>4 DEF GroupOK, SizeOK
<1> HIDE DEF z
<1>6. /\ shardGroups' \in Seq(ShardGroup)
      /\ Len(shardGroups') = Len(shardGroups)
      /\ \A j \in 1 .. Len(shardGroups) : shardGroups'[j] = IF j = group THEN z ELSE shardGroups[j]
  <2>1. shardGroups \in Seq(ShardGroup)
    BY <1>1 DEF ShardsOK
  <2> HIDE DEF ShardGroup
  <2>2. QED
    BY <1>1, <1>2, <1>4, <2>1, ExceptSeq
<1>7. DOMAIN shardGroups' = 1 .. Len(shardGroups)
  BY <1>6, LenProperties
<1>8. ShardsOK'
  BY <1>1, <1>2, <1>5, <1>6, <1>7 DEF ShardsOK, ShardGroups
<1>9. RestOK' /\ AttemptsOK' /\ StopStops'
  BY <1>1, <1>2, <1>7 DEF RestOK, AttemptsOK, StopStops, Outers, ShardGroups
<1>10. SplitInv'
  BY <1>1, EndSplitKeeps
<1>11. ShardingInv'
  <2>1. SUFFICES ASSUME Len(shardGroups) = 1
                 PROVE  OneSelector'
    BY <1>6 DEF ShardingInv
  <2>2. OneSelector /\ group = 1
    BY <1>1, <2>1, OneGroupFacts
  <2>3. shardGroups'[1].shards = shardGroups[1].shards /\ shardGroups'[1].cycle = shardGroups[1].cycle
    BY <1>4, <1>6, <2>1, <2>2
  <2>4. QED
    BY <1>1, <2>2, <2>3 DEF OneSelector, Accounted
<1>12. QED
  BY <1>8, <1>9, <1>10, <1>11 DEF IInv

LEMMA ShardRetryKeeps ==
    ASSUME IInv, ShardRetry
    PROVE  IInv'
<1>1. /\ SplitInv /\ ShardsOK /\ RestOK /\ AttemptsOK /\ StopStops /\ ShardingInv
      /\ outer = "query" /\ outer' = "backoff" /\ Retries <= 1
      /\ attempts' = RetriesAfter(Key, Retries + 1)
      /\ EndSplit
      /\ UNCHANGED <<shardGroups, group, shardStop, filled, asked, silent>>
  BY DEF IInv, ShardRetry, TimedOut
<1>2. SplitInv'
  BY <1>1, EndSplitKeeps
<1>3. AttemptsOK'
  <2>1. Retries \in 0 .. 1
    BY <1>1 DEF AttemptsOK, Retries
  <2> DEFINE n == Retries + 1
             key == Key
  <2>2. n \in 1 .. 2
    BY <2>1
  <2>3. attempts' = [k \in DOMAIN attempts \cup {key} |-> IF k = key THEN n ELSE attempts[k]]
    BY <1>1 DEF RetriesAfter
  <2> HIDE DEF n, key
  <2>4. QED
    BY <1>1, <2>2, <2>3 DEF AttemptsOK
<1>4. ShardsOK' /\ StopStops'
  BY <1>1 DEF ShardsOK, StopStops
<1>5. RestOK'
  BY <1>1 DEF RestOK, ShardGroups, Outers
<1>6. ShardingInv'
  BY <1>1 DEF ShardingInv, OneSelector, Accounted
<1>7. QED
  BY <1>2, <1>3, <1>4, <1>5, <1>6 DEF IInv

-----------------------------------------------------------------------------
(* The theorems                                                              *)

LEMMA InitHolds ==
    ASSUME ShardInit
    PROVE  IInv
<1>1. PICK q \in Queries, r \in Ranges : groups = Grouped(q, r) /\ range = r
  BY ShardAssumption DEF ShardInit, InitTimeOnly, InitSharded, Init
<1>2. GroupsOK(groups)
  BY <1>1, GroupedType
<1>3. /\ nested \in BOOLEAN /\ phase \in {"run", "idle"} /\ retried = {} /\ stop = FALSE
      /\ full = {} /\ merged = <<>> /\ failure = "none"
      /\ phase = "run" => current = [n |-> TotalRequests(groups), g |-> 1]
      /\ phase = "idle" => current = [n |-> 1, g |-> 1]
  BY DEF ShardInit, InitTimeOnly, InitSharded, Init
<1>4. TotalRequests(groups) \in Nat
      /\ \A i \in 1 .. Len(groups) : Len(groups[i].part) <= TotalRequests(groups)
  BY <1>2, TotalRequestsIsLargest
<1>5. SplitTypeOK
  <2>1. merged \in Seq(Groups \X Nat)
    BY <1>3, EmptySeq
  <2>2. current \in [n : Nat, g : Groups]
    BY <1>2, <1>3, <1>4, GroupsFacts
  <2>3. QED
    BY <1>3, <2>1, <2>2 DEF SplitTypeOK, Phases
<1>6. AskedForAReason /\ NoHoles
  BY <1>3 DEF AskedForAReason, NoHoles
<1>7. PassedIsMerged
  <2>1. SUFFICES ASSUME phase = "run", NEW h \in Groups, NEW m \in 1 .. Parts(h)
                 PROVE  ~ Passed(h, m)
    BY <1>3 DEF PassedIsMerged
  <2>2. m <= TotalRequests(groups) /\ h >= 1
    BY <1>2, <1>4, GroupsFacts DEF Parts
  <2>3. QED
    BY <1>2, <1>3, <1>4, <2>1, <2>2, GroupsFacts DEF Passed
<1>8. SplitInv
  BY <1>2, <1>5, <1>6, <1>7 DEF SplitInv
<1>9. attempts = [k \in {} |-> 0] /\ shardStop = FALSE /\ filled = {} /\ silent = {} /\ group = 1
      /\ outer \in {"off", "run"}
  BY DEF ShardInit, InitTimeOnly, InitSharded, InitShards
<1>10. AttemptsOK /\ StopStops
  BY <1>9 DEF AttemptsOK, StopStops
<1>11. CASE InitTimeOnly
  <2>1. shardGroups = <<>> /\ outer = "off"
    BY <1>11 DEF InitTimeOnly
  <2>2. ShardsOK /\ ShardingInv
    BY <2>1, EmptySeq DEF ShardsOK, ShardingInv
  <2>3. RestOK
    BY <1>9, <2>1 DEF RestOK, Outers
  <2>4. QED
    BY <1>8, <1>10, <2>2, <2>3 DEF IInv
<1>12. CASE InitSharded
  <2>1. PICK c \in ShardCounts :
          /\ shardGroups = [g \in DOMAIN c |-> [shards |-> c[g], size |-> Root(c[g]), cycle |-> 0]]
          /\ asked = [g \in DOMAIN c |-> [i \in 0 .. c[g] |-> 0]]
    BY <1>12 DEF InitSharded
  <2>2. c \in Seq(Nat) /\ c # <<>>
    BY ShardAssumption
  <2>3. DOMAIN c = 1 .. Len(c) /\ Len(c) \in Nat \ {0} /\ \A g \in DOMAIN c : c[g] \in Nat
    BY <2>2, LenProperties, EmptySeq
  <2>4. \A g \in DOMAIN c : shardGroups[g] \in ShardGroup /\ GroupOK(shardGroups[g])
    <3>1. SUFFICES ASSUME NEW g \in DOMAIN c
                   PROVE  shardGroups[g] \in ShardGroup /\ GroupOK(shardGroups[g])
      OBVIOUS
    <3>2. c[g] \in Nat /\ Root(c[g]) \in 0 .. c[g] /\ (c[g] > 0 => Root(c[g]) >= 1)
      BY <2>3, RootType
    <3>3. shardGroups[g] = [shards |-> c[g], size |-> Root(c[g]), cycle |-> 0]
      BY <2>1
    <3>4. QED
      BY <3>2, <3>3 DEF ShardGroup, GroupOK, SizeOK
  <2>5. shardGroups \in Seq(ShardGroup) /\ Len(shardGroups) = Len(c) /\ DOMAIN shardGroups = 1 .. Len(c)
    <3>1. shardGroups \in [1 .. Len(c) -> ShardGroup]
      <4> HIDE DEF ShardGroup
      <4>1. QED
        BY <2>1, <2>3, <2>4
    <3>2. shardGroups \in Seq(ShardGroup)
      <4> HIDE DEF ShardGroup
      <4>1. QED
        BY <2>3, <3>1
    <3>3. DOMAIN shardGroups = 1 .. Len(c)
      BY <2>1, <2>3
    <3>4. QED
      BY <2>3, <3>2, <3>3, LenProperties
  <2>6. ShardsOK
    BY <2>3, <2>4, <2>5 DEF ShardsOK
  <2>7. RestOK
    <3>1. 1 \in ShardGroups
      BY <2>3, <2>5 DEF ShardGroups
    <3>2. QED
      BY <1>9, <3>1 DEF RestOK, Outers
  <2>8. ShardingInv
    <3>1. SUFFICES ASSUME Len(shardGroups) = 1
                   PROVE  OneSelector
      BY DEF ShardingInv
    <3>2. 1 \in DOMAIN c
      BY <2>3
    <3>3. shardGroups[1].shards = c[1] /\ shardGroups[1].cycle = 0 /\ c[1] \in Nat
          /\ 1 \in DOMAIN asked /\ asked[1] = [i \in 0 .. c[1] |-> 0]
      BY <2>1, <2>3, <3>2
    <3>4. QED
      BY <1>9, <3>3 DEF OneSelector
  <2>9. QED
    BY <1>8, <1>10, <2>6, <2>7, <2>8 DEF IInv
<1>13. QED
  BY <1>11, <1>12 DEF ShardInit

LEMMA IdleKeeps ==
    ASSUME IdleBetween, [ShardNext]_vars
    PROVE  IdleBetween'
<1>1. CASE EndSplit
  BY <1>1 DEF EndSplit, IdleBetween
<1>2. CASE UNCHANGED splitVars /\ outer \in {"run", "backoff"}
  BY <1>2 DEF splitVars, IdleBetween
<1>3. CASE outer' \notin {"run", "backoff"}
  BY <1>3 DEF IdleBetween
<1>4. CASE UNCHANGED vars
  BY <1>4 DEF vars, splitVars, shardVars, IdleBetween
<1>5. CASE ShardStopped \/ ShardSkip \/ ShardRetryTimer
  BY <1>2, <1>5 DEF ShardStopped, ShardSkip, ShardRetryTimer
<1>6. CASE ShardQuery
  BY <1>3, <1>6 DEF ShardQuery
<1>7. CASE ShardAnswer \/ ShardShrink \/ ShardRetry \/ ShardGiveUp \/ ShardSilent
  BY <1>1, <1>7 DEF ShardAnswer, ShardShrink, ShardRetry, ShardGiveUp, ShardSilent
<1>8. CASE SplitRuns \/ SplitUnsubscribe
  BY <1>3, <1>8 DEF SplitRuns, SplitUnsubscribe, shardVars
<1>9. CASE ShardUnsubscribe
  BY <1>3, <1>9 DEF ShardUnsubscribe
<1>10. QED
  BY <1>4, <1>5, <1>6, <1>7, <1>8, <1>9 DEF ShardNext, ShardRuns

LEMMA NextKeeps ==
    ASSUME IInv, IdleBetween, [ShardNext]_vars
    PROVE  IInv'
<1>1. SplitInv /\ ShardsOK /\ RestOK /\ AttemptsOK /\ StopStops /\ ShardingInv
  BY DEF IInv
<1>2. ASSUME outer' \in Outers, shardStop' \in BOOLEAN, SplitInv',
             UNCHANGED <<shardGroups, group, attempts, filled, asked, silent>>,
             outer = "off" => outer' = "off", outer' = "done" => outer = "done",
             outer' \in {"run", "query", "backoff"} => outer \in {"run", "query", "backoff"},
             shardStop => shardStop' \/ outer' \notin {"run", "query", "backoff"},
             outer' \in {"query", "backoff"} => ~ shardStop'
      PROVE  IInv'
  BY <1>2, ShardUnchangedKeeps DEF IInv
<1>3. CASE ShardStopped
  <2>1. SplitInv'
    BY <1>1, <1>3, SplitUnchangedKeeps DEF ShardStopped
  <2>2. QED
    BY <1>1, <1>2, <1>3, <2>1 DEF ShardStopped, RestOK, Outers
<1>4. CASE ShardSkip
  BY <1>4, ShardSkipKeeps
<1>5. CASE ShardQuery
  <2>1. SplitInv'
    BY <1>1, <1>5, StartKeeps DEF ShardQuery
  <2>2. QED
    BY <1>1, <1>2, <1>5, <2>1 DEF ShardQuery, RestOK, Outers
<1>6. CASE ShardAnswer
  BY <1>6, ShardAnswerKeeps
<1>7. CASE ShardShrink
  BY <1>7, ShardShrinkKeeps
<1>8. CASE ShardRetry
  BY <1>8, ShardRetryKeeps
<1>9. CASE ShardRetryTimer
  <2>1. SplitInv'
    BY <1>1, <1>9, SplitUnchangedKeeps DEF ShardRetryTimer
  <2>2. QED
    BY <1>1, <1>2, <1>9, <2>1 DEF ShardRetryTimer, RestOK, Outers
<1>10. CASE ShardGiveUp
  BY <1>10, ShardGiveUpKeeps
<1>11. CASE ShardSilent
  BY <1>11, ShardSilentKeeps
<1>12. CASE SplitRuns \/ SplitUnsubscribe
  <2>1. (Runs \/ Answers \/ Unsubscribe) /\ UNCHANGED shardVars
    BY <1>12 DEF SplitRuns, SplitUnsubscribe
  <2>2. SplitInv'
    BY <1>1, <2>1, SplitStepKeeps
  <2>3. QED
    BY <1>1, <1>2, <2>1, <2>2 DEF shardVars, RestOK, StopStops
<1>13. CASE ShardUnsubscribe
  <2>1. phase \in Phases
    BY <1>1 DEF SplitInv, SplitTypeOK
  <2>2. phase' \in Phases \ {"asking", "backoff"}
    <3>1. outer = "query" => phase' = "dropped"
      BY <1>13 DEF ShardUnsubscribe
    <3>2. outer = "backoff" => phase' = "idle"
      BY <1>13 DEF ShardUnsubscribe, IdleBetween
    <3>3. QED
      BY <1>13, <3>1, <3>2 DEF ShardUnsubscribe, Phases
  <2>3. SplitInv'
    BY <1>1, <1>13, <2>2, StoppedKeeps DEF ShardUnsubscribe
  <2>4. QED
    BY <1>1, <1>2, <1>13, <2>3 DEF ShardUnsubscribe, RestOK, Outers
<1>14. CASE UNCHANGED vars
  <2>1. UNCHANGED splitVars /\ UNCHANGED shardVars
    BY <1>14 DEF vars
  <2>2. SplitInv'
    BY <1>1, <2>1, SplitUnchangedKeeps
  <2>3. QED
    BY <1>1, <1>2, <2>1, <2>2 DEF shardVars, RestOK, StopStops
<1>15. QED
  BY <1>3, <1>4, <1>5, <1>6, <1>7, <1>8, <1>9, <1>10, <1>11, <1>12, <1>13, <1>14
     DEF ShardNext, ShardRuns

LEMMA Invariance == ShardSpec => []IInv
<1>1. ShardInit => IInv /\ IdleBetween
  BY InitHolds DEF ShardInit, InitTimeOnly, InitSharded, IdleBetween
<1>2. IInv /\ IdleBetween /\ [ShardNext]_vars => (IInv /\ IdleBetween)'
  BY NextKeeps, IdleKeeps
<1>3. QED
  BY <1>1, <1>2, PTL DEF ShardSpec

\* Both loops keep their types, for all ranges, chunks, groups and shards; in
\* particular the size of a group of shards never becomes zero, which would end
\* the loop early, nor negative (updateGroupSizeFromResponse,
\* constrainGroupSize).
THEOREM TypeCorrect == ShardSpec => []TypeOK
<1>1. IInv => TypeOK
  <2>1. SUFFICES ASSUME IInv PROVE TypeOK
    OBVIOUS
  <2>2. \A g \in ShardGroups :
          /\ shardGroups[g].shards \in Nat
          /\ shardGroups[g].cycle \in 0 .. shardGroups[g].shards
          /\ SizeOK(shardGroups[g].shards, shardGroups[g].size)
    BY <2>1, ShardsFacts DEF IInv, GroupOK
  <2>3. QED
    BY <2>1, <2>2 DEF IInv, SplitInv, RestOK, AttemptsOK, TypeOK, SizeOK
<1>2. QED
  BY <1>1, Invariance, PTL

\* Whatever is retried, skipped or cut short, and however many groups of
\* however many chunks there are: what is shown of a group has no holes
\* (runNextRequest and getNextRequestPointers of querySplitting.ts).
THEOREM ShownWithoutHoles == ShardSpec => []NoHoles
<1>1. IInv => NoHoles
  BY DEF IInv, SplitInv
<1>2. QED
  BY <1>1, Invariance, PTL

\* For any number of shards of one selector, and whatever the sizes of the
\* groups become: no shard is combined twice, and none is left out of a query
\* that is done (splitQueriesByStreamShard).
THEOREM ShardsAreInvisible == ShardSpec => []ShardingIsInvisible
<1>1. IInv => ShardingIsInvisible
  <2>1. SUFFICES ASSUME IInv, Len(shardGroups) = 1
                 PROVE  \A i \in 0 .. shardGroups[1].shards :
                          /\ asked[1][i] <= 1
                          /\ asked[1][i] = 1 => <<1, i>> \notin silent
                          /\ outer = "done" /\ 1 \notin filled =>
                               asked[1][i] = 1 \/ <<1, i>> \in silent
    BY DEF ShardingIsInvisible
  <2>2. OneSelector
    BY <2>1 DEF IInv, ShardingInv
  <2>3. asked[1] \in [0 .. shardGroups[1].shards -> {0, 1}]
    BY <2>2 DEF OneSelector
  <2>4. \A i \in 0 .. shardGroups[1].shards : asked[1][i] <= 1
    <3>1. SUFFICES ASSUME NEW i \in 0 .. shardGroups[1].shards
                   PROVE  asked[1][i] <= 1
      OBVIOUS
    <3>2. asked[1][i] \in {0, 1}
      BY <2>3
    <3>3. QED
      BY <3>2
  <2>5. QED
    BY <2>2, <2>4 DEF OneSelector, Accounted
<1>2. QED
  BY <1>1, Invariance, PTL

-----------------------------------------------------------------------------
(* Every instant is in exactly one chunk                                     *)

LEMMA ProductMonotone ==
    ASSUME NEW a \in Nat, NEW b \in Nat, NEW d \in Nat, a <= b
    PROVE  a * d <= b * d
<1>1. PICK c \in Nat : b = a + c
  <2>1. b - a \in Nat /\ b = a + (b - a)
    OBVIOUS
  <2>2. QED
    BY <2>1
<1>2. b * d = a * d + c * d
  BY <1>1
<1>3. a * d \in Nat /\ c * d \in Nat
  OBVIOUS
<1>4. QED
  BY <1>2, <1>3

\* Only one interval of length d holds x, when they start at multiples of d.
LEMMA OneInterval ==
    ASSUME NEW x \in Int, NEW d \in Nat, NEW i \in Nat, NEW j \in Nat,
           i * d <= x, x < (i + 1) * d, j * d <= x, x < (j + 1) * d
    PROVE  i = j
<1>1. \A a, b \in Nat : a * d \in Nat /\ (a + 1) * d \in Nat
  OBVIOUS
<1>2. CASE i < j
  <2>1. (i + 1) * d <= j * d
    BY <1>2, ProductMonotone
  <2>2. QED
    BY <1>1, <2>1
<1>3. CASE j < i
  <2>1. (j + 1) * d <= i * d
    BY <1>3, ProductMonotone
  <2>2. QED
    BY <1>1, <2>1
<1>4. QED
  BY <1>2, <1>3

LEMMA DivisionOfNat ==
    ASSUME NEW a \in Nat, NEW d \in Nat \ {0}
    PROVE  /\ a \div d \in Nat
           /\ (a \div d) * d <= a
           /\ a < (a \div d + 1) * d
<1>1. a \div d \in Nat /\ a % d \in 0 .. d - 1 /\ a = d * (a \div d) + (a % d)
  OBVIOUS
<1> DEFINE q == a \div d
           s == a % d
<1>2. q \in Nat /\ s \in 0 .. d - 1 /\ a = d * q + s
  BY <1>1
<1> HIDE DEF q, s
<1>3. d * q = q * d /\ (q + 1) * d = q * d + d /\ q * d \in Nat
  BY <1>2
<1>4. q * d <= a /\ a < (q + 1) * d
  BY <1>2, <1>3
<1>5. QED
  BY <1>2, <1>4 DEF q

\* So many intervals of length d as CeilDiv says reach over a.
LEMMA CeilDivCovers ==
    ASSUME NEW a \in Nat, NEW d \in Nat \ {0}
    PROVE  a <= CeilDiv(a, d) * d
<1> DEFINE q == (a + d - 1) \div d
<1>1. a + d - 1 \in Nat
  OBVIOUS
<1>2. q \in Nat /\ a + d - 1 < (q + 1) * d
  BY <1>1, DivisionOfNat
<1>3. CeilDiv(a, d) = q
  BY DEF CeilDiv
<1> HIDE DEF q
<1>4. (q + 1) * d = q * d + d /\ q * d \in Nat
  BY <1>2
<1>5. QED
  BY <1>2, <1>3, <1>4

\* Day by day, counted from the end.
LEMMA LogsChunks ==
    ASSUME NEW r \in Ranges, NEW t \in r[1] .. r[2] - 1
    PROVE  \E m \in 1 .. Len(LogsPartition(r)) :
             /\ LogsPartition(r)[m][1] <= t /\ t < LogsPartition(r)[m][2]
             /\ \A l \in 1 .. Len(LogsPartition(r)) :
                  LogsPartition(r)[l][1] <= t /\ t < LogsPartition(r)[l][2] => l = m
<1> DEFINE a == r[1]
           b == r[2]
           n == Greatest(CeilDiv(b - a, Day), 1)
           p == LogsPartition(r)
           x == b - t - 1
           j == x \div Day
<1>1. a \in Nat /\ b \in Nat /\ a <= b /\ Day \in Nat \ {0} /\ t \in a .. b - 1
  BY SplittingAssumption
<1>2. p = [k \in 1 .. n |-> <<Greatest(b - (n - k + 1) * Day, a), b - (n - k) * Day>>]
  BY DEF LogsPartition
<1>3. n \in Nat \ {0} /\ b - a <= n * Day
  <2>1. b - a \in Nat
    BY <1>1
  <2> DEFINE c == CeilDiv(b - a, Day)
  <2>2. c \in Nat /\ b - a <= c * Day
    BY <1>1, <2>1, CeilDivType, CeilDivCovers
  <2>3. n = Greatest(c, 1)
    OBVIOUS
  <2> HIDE DEF c, n
  <2>4. n \in Nat \ {0} /\ c <= n
    BY <2>2, <2>3 DEF Greatest
  <2>5. c * Day <= n * Day
    BY <1>1, <2>2, <2>4, ProductMonotone
  <2>6. c * Day \in Nat /\ n * Day \in Nat
    BY <1>1, <2>2, <2>4
  <2>7. QED
    BY <2>1, <2>2, <2>4, <2>5, <2>6
<1> HIDE DEF n, p
<1>4. x \in Nat /\ x < b - a
  BY <1>1
<1>5. j \in Nat /\ j * Day <= x /\ x < (j + 1) * Day
  BY <1>1, <1>4, DivisionOfNat
<1> HIDE DEF j
<1>6. \A i \in Nat : i * Day \in Nat /\ (i + 1) * Day \in Nat
  BY <1>1
<1>7. j < n
  <2>1. SUFFICES ASSUME n <= j PROVE FALSE
    BY <1>3, <1>5
  <2>2. n * Day <= j * Day
    BY <1>1, <1>3, <1>5, <2>1, ProductMonotone
  <2>3. QED
    BY <1>1, <1>3, <1>4, <1>5, <1>6, <2>2
<1>8. Len(p) = n
  BY <1>2, <1>3
<1>9. ASSUME NEW k \in 1 .. n
      PROVE  /\ n - k \in Nat
             /\ p[k][1] <= t /\ t < p[k][2]
                  <=> (n - k) * Day <= x /\ x < (n - k + 1) * Day
  <2> DEFINE i == n - k
  <2>1. i \in Nat
    BY <1>3
  <2>2. p[k] = <<Greatest(b - (i + 1) * Day, a), b - i * Day>>
    BY <1>2
  <2> HIDE DEF i
  <2> DEFINE lo == i * Day
             hi == (i + 1) * Day
  <2>3. lo \in Nat /\ hi \in Nat
    BY <1>6, <2>1
  <2>4. p[k][1] = Greatest(b - hi, a) /\ p[k][2] = b - lo
    BY <2>2
  <2> HIDE DEF lo, hi
  <2>5. p[k][1] <= t /\ t < p[k][2] <=> lo <= x /\ x < hi
    BY <1>1, <2>3, <2>4 DEF Greatest
  <2>6. QED
    BY <2>1, <2>5 DEF lo, hi, i
<1>10. n - j \in 1 .. n /\ n - (n - j) = j
  BY <1>3, <1>5, <1>7
<1>11. p[n - j][1] <= t /\ t < p[n - j][2]
  BY <1>5, <1>9, <1>10
<1>12. ASSUME NEW l \in 1 .. n, p[l][1] <= t, t < p[l][2]
       PROVE  l = n - j
  <2> DEFINE i == n - l
  <2>1. i \in Nat /\ i * Day <= x /\ x < (i + 1) * Day
    BY <1>9, <1>12
  <2> HIDE DEF i
  <2>2. i = j
    BY <1>1, <1>4, <1>5, <2>1, OneInterval
  <2>3. QED
    BY <1>3, <1>5, <2>2 DEF i
<1>13. QED
  BY <1>8, <1>10, <1>11, <1>12 DEF p

\* The same chunks in the other order.
LEMMA ReversedChunks ==
    ASSUME NEW r \in Ranges, NEW t \in r[1] .. r[2] - 1
    PROVE  \E m \in 1 .. Len(Reversed(LogsPartition(r))) :
             /\ Reversed(LogsPartition(r))[m][1] <= t /\ t < Reversed(LogsPartition(r))[m][2]
             /\ \A l \in 1 .. Len(Reversed(LogsPartition(r))) :
                  Reversed(LogsPartition(r))[l][1] <= t /\ t < Reversed(LogsPartition(r))[l][2]
                    => l = m
<1> DEFINE p == LogsPartition(r)
           v == Reversed(p)
           n == Len(p)
<1>1. PICK m \in 1 .. n :
        /\ p[m][1] <= t /\ t < p[m][2]
        /\ \A l \in 1 .. n : p[l][1] <= t /\ t < p[l][2] => l = m
  BY LogsChunks
<1>2. n \in Nat
  BY LogsPartitionType
<1>3. v = [k \in 1 .. n |-> p[n + 1 - k]]
  BY DEF Reversed
<1> HIDE DEF p, v, n
<1>4. Len(v) = n /\ \A k \in 1 .. n : v[k] = p[n + 1 - k] /\ n + 1 - k \in 1 .. n
  BY <1>2, <1>3
<1>5. n + 1 - m \in 1 .. n /\ v[n + 1 - m] = p[m]
  <2>1. n + 1 - m \in 1 .. n /\ n + 1 - (n + 1 - m) = m
    BY <1>2
  <2>2. QED
    BY <1>4, <2>1
<1>6. ASSUME NEW l \in 1 .. n, v[l][1] <= t, v[l][2] > t
      PROVE  l = n + 1 - m
  <2>1. n + 1 - l = m
    BY <1>1, <1>4, <1>6
  <2>2. QED
    BY <1>2, <2>1
<1>7. QED
  BY <1>1, <1>4, <1>5, <1>6 DEF v, p

\* Whole steps, counted from the aligned start.
LEMMA MetricChunks ==
    ASSUME NEW r \in Ranges, NEW step \in Nat \ {0}, NEW t \in Int,
           Day < step => r[1] <= t,
           ~ (Day < step) => /\ r[1] - (r[1] % step) <= t
                             /\ (t - (r[1] - (r[1] % step))) % step = 0,
           t <= r[2] - 1
    PROVE  \E m \in 1 .. Len(MetricPartition(r, step)) :
             /\ MetricPartition(r, step)[m][1] <= t /\ t <= MetricPartition(r, step)[m][2]
             /\ \A l \in 1 .. Len(MetricPartition(r, step)) :
                  MetricPartition(r, step)[l][1] <= t /\ t <= MetricPartition(r, step)[l][2]
                    => l = m
<1> DEFINE p == MetricPartition(r, step)
<1>1. r[1] \in Nat /\ r[2] \in Nat /\ r[1] <= r[2] /\ Day \in Nat \ {0}
  BY SplittingAssumption
<1>2. CASE Day < step
  <2>1. p = <<r>>
    BY <1>2 DEF MetricPartition
  <2> HIDE DEF p
  <2>2. Len(p) = 1 /\ p[1] = r
    BY <2>1
  <2>3. 1 \in 1 .. Len(p) /\ p[1][1] <= t /\ t <= p[1][2] /\ \A l \in 1 .. Len(p) : l = 1
    BY <1>1, <1>2, <2>2
  <2>4. QED
    BY <2>3 DEF p
<1>3. CASE ~ (Day < step)
  <2> DEFINE s       == Day \div step
             aligned == s * step
             start   == r[1] - (r[1] % step)
             n       == CeilDiv(r[2] - start, aligned)
             x       == t - start
             c       == x \div step
             j       == c \div s
             d       == c % s
  <2>1. p = [k \in 1 .. n |-> <<start + (k - 1) * aligned,
                                 Least(start + k * aligned - step, r[2])>>]
    BY <1>3 DEF MetricPartition
  <2>2. s \in Nat \ {0}
    BY <1>1, <1>3
  <2>3. aligned \in Nat \ {0}
    <3>1. \A y, z \in Nat \ {0} : y * z \in Nat \ {0}
      OBVIOUS
    <3> HIDE DEF s
    <3>2. QED
      BY <2>2, <3>1
  <2>4. start \in Int /\ start <= r[1]
    <3>1. r[1] % step \in 0 .. step - 1
      BY <1>1
    <3>2. QED
      BY <1>1, <3>1
  <2>5. start <= t /\ x \in Nat /\ x % step = 0 /\ x < r[2] - start
    BY <1>1, <1>3, <2>4
  <2> HIDE DEF start, x
  <2>6. c \in Nat /\ x = c * step
    <3>1. x = step * (x \div step) + (x % step) /\ x \div step \in Nat
      BY <2>5
    <3>2. step * (x \div step) = (x \div step) * step
      BY <3>1
    <3>3. QED
      BY <2>5, <3>1, <3>2
  <2> HIDE DEF s, c
  <2>7. j \in Nat /\ d \in 0 .. s - 1 /\ c = s * j + d
    BY <2>2, <2>6
  <2> HIDE DEF j, d
  <2>8. x = j * aligned + d * step /\ d * step <= aligned - step /\ d * step \in Nat
    <3>1. x = (s * j + d) * step
      BY <2>6, <2>7
    <3>2. (s * j + d) * step = j * (s * step) + d * step
      BY <2>2, <2>7
    <3>3. d \in Nat /\ s - 1 \in Nat /\ d <= s - 1
      BY <2>2, <2>7
    <3>4. d * step <= (s - 1) * step
      BY <3>3, ProductMonotone
    <3>5. (s - 1) * step = s * step - step /\ d * step \in Nat
      BY <2>2, <3>3
    <3>6. QED
      BY <3>1, <3>2, <3>4, <3>5
  <2> HIDE DEF aligned
  <2>9. \A i \in Nat : i * aligned \in Nat /\ (i + 1) * aligned = i * aligned + aligned
    BY <2>3
  <2>10. j * aligned <= x /\ x <= (j + 1) * aligned - step /\ x < (j + 1) * aligned
    <3> DEFINE y == j * aligned
               z == d * step
    <3>1. y \in Nat /\ (j + 1) * aligned = y + aligned /\ x = y + z
          /\ z <= aligned - step /\ z \in Nat
      BY <2>7, <2>8, <2>9
    <3> HIDE DEF y, z
    <3>2. y <= x /\ x <= y + aligned - step /\ x < y + aligned
      BY <2>3, <3>1
    <3>3. QED
      BY <2>3, <3>1, <3>2 DEF y
  <2>11. n \in Nat /\ r[2] - start <= n * aligned
    <3>1. r[2] - start \in Nat
      BY <1>1, <2>4, <2>5
    <3>2. QED
      BY <2>3, <3>1, CeilDivType, CeilDivCovers
  <2> HIDE DEF n, p
  <2>12. j < n
    <3>1. SUFFICES ASSUME n <= j PROVE FALSE
      BY <2>7, <2>11
    <3>2. n * aligned <= j * aligned
      BY <2>3, <2>7, <2>11, <3>1, ProductMonotone
    <3> DEFINE u == n * aligned
               v == j * aligned
    <3>3. u \in Nat /\ v \in Nat /\ u <= v /\ r[2] - start <= u /\ v <= x
      BY <2>7, <2>9, <2>10, <2>11, <3>2
    <3> HIDE DEF u, v
    <3>4. QED
      BY <1>1, <2>4, <2>5, <3>3
  <2>13. Len(p) = n /\ j + 1 \in 1 .. n /\ (j + 1) - 1 = j
    BY <2>1, <2>7, <2>11, <2>12
  <2>14. ASSUME NEW k \in 1 .. n
         PROVE  /\ k - 1 \in Nat
                /\ (p[k][1] <= t /\ t <= p[k][2])
                     <=> ((k - 1) * aligned <= x /\ x <= (k - 1 + 1) * aligned - step)
    <3> DEFINE i == k - 1
    <3>1. i \in Nat /\ k = i + 1
      BY <2>11
    <3>2. p[k] = <<start + i * aligned, Least(start + (i + 1) * aligned - step, r[2])>>
      BY <2>1, <3>1
    <3> HIDE DEF i
    <3> DEFINE lo == i * aligned
               hi == (i + 1) * aligned
    <3>3. lo \in Nat /\ hi \in Int
      BY <2>9, <3>1
    <3>4. p[k][1] = start + lo /\ p[k][2] = Least(start + hi - step, r[2])
      BY <3>2
    <3> HIDE DEF lo, hi
    <3>5. (p[k][1] <= t /\ t <= p[k][2]) <=> (lo <= x /\ x <= hi - step)
      BY <1>1, <2>4, <3>3, <3>4 DEF Least, x
    <3>6. QED
      BY <3>1, <3>5 DEF lo, hi, i
  <2>15. p[j + 1][1] <= t /\ t <= p[j + 1][2]
    BY <2>10, <2>13, <2>14
  <2>16. ASSUME NEW l \in 1 .. n, p[l][1] <= t, t <= p[l][2]
         PROVE  l = j + 1
    <3> DEFINE i == l - 1
    <3>1. i \in Nat /\ i * aligned <= x /\ x <= (i + 1) * aligned - step
      BY <2>14, <2>16
    <3> HIDE DEF i
    <3>2. x < (i + 1) * aligned
      <4> DEFINE hi == (i + 1) * aligned
      <4>1. hi \in Int /\ x <= hi - step
        BY <2>9, <3>1
      <4> HIDE DEF hi
      <4>2. x < hi
        BY <2>5, <4>1
      <4>3. QED
        BY <4>2 DEF hi
    <3>3. i = j
      BY <2>3, <2>5, <2>7, <2>10, <3>1, <3>2, OneInterval
    <3>4. QED
      BY <2>7, <2>11, <3>3 DEF i
  <2>17. QED
    BY <2>13, <2>15, <2>16 DEF p
<1>4. QED
  BY <1>2, <1>3

\* The groups and the range are those of a request that was made.
AskedFor == range \in Ranges /\ \E q \in Queries : groups = Grouped(q, range)

LEMMA GroupedFields ==
    ASSUME NEW q \in Queries, NEW r \in Ranges, groups = Grouped(q, r), NEW g \in Groups
    PROVE  /\ groups[g].kind \in Kinds
           /\ groups[g].step \in Nat \ {0}
           /\ groups[g].part = CASE groups[g].kind = "backward" -> LogsPartition(r)
                                 [] groups[g].kind = "forward"  -> Reversed(LogsPartition(r))
                                 [] groups[g].kind = "metric"   -> MetricPartition(r, groups[g].step)
                                 [] groups[g].kind = "instant"  -> <<r>>
<1> DEFINE S == [kind : Kinds, step : Nat \ {0}]
<1>1. q \in Seq(S)
  BY SplittingAssumption
<1>2. Len(q) \in Nat
  BY <1>1
<1>3. g \in 1 .. Len(q)
  BY <1>2 DEF Groups, Grouped
<1>4. q[g] \in S
  <2> HIDE DEF S
  <2>1. QED
    BY <1>1, <1>3, ElementOfSeq
<1>5. groups[g] = [kind |-> q[g].kind, step |-> q[g].step, part |-> Partition(q[g], r)]
  BY <1>3 DEF Grouped
<1>6. groups[g].kind = q[g].kind /\ groups[g].step = q[g].step /\ groups[g].part = Partition(q[g], r)
  BY <1>5
<1>7. q[g].kind \in Kinds /\ q[g].step \in Nat \ {0}
  BY <1>4
<1>8. QED
  BY <1>6, <1>7 DEF Partition

\* The chunks of a group share out its instants (partitionTimeRange).
LEMMA CoveredOnce ==
    ASSUME AskedFor, NEW g \in Groups, NEW t \in Instants(g)
    PROVE  \E m \in 1 .. Parts(g) :
             /\ Holds(g, groups[g].part[m], t)
             /\ \A l \in 1 .. Parts(g) : Holds(g, groups[g].part[l], t) => l = m
<1>1. PICK q \in Queries : groups = Grouped(q, range) /\ range \in Ranges
  BY DEF AskedFor
<1>2. groups[g].kind \in Kinds /\ groups[g].step \in Nat \ {0}
  BY <1>1, GroupedFields
<1>3. range[1] \in Nat /\ range[2] \in Nat /\ range[1] <= range[2]
  BY <1>1, SplittingAssumption
<1>4. CASE groups[g].kind = "backward"
  <2>1. groups[g].part = LogsPartition(range) /\ IsLogs(g)
    BY <1>1, <1>4, GroupedFields DEF IsLogs
  <2>2. t \in range[1] .. range[2] - 1
    BY <1>4, <2>1 DEF Instants
  <2>3. QED
    BY <1>1, <2>1, <2>2, LogsChunks DEF Parts, Holds
<1>5. CASE groups[g].kind = "forward"
  <2>1. groups[g].part = Reversed(LogsPartition(range)) /\ IsLogs(g)
    BY <1>1, <1>5, GroupedFields DEF IsLogs
  <2>2. t \in range[1] .. range[2] - 1
    BY <1>5, <2>1 DEF Instants
  <2>3. QED
    BY <1>1, <2>1, <2>2, ReversedChunks DEF Parts, Holds
<1>6. CASE groups[g].kind = "metric"
  <2> DEFINE step  == groups[g].step
             first == IF Day < step THEN range[1] ELSE range[1] - (range[1] % step)
  <2>1. groups[g].part = MetricPartition(range, step) /\ ~ IsLogs(g)
    BY <1>1, <1>6, GroupedFields DEF IsLogs
  <2>2. t \in first .. range[2] - 1 /\ (t - first) % step = 0
    BY <1>6, <2>1 DEF Instants
  <2>3. step \in Nat \ {0} /\ Day \in Nat
    BY <1>2, SplittingAssumption
  <2>4. range[1] % step \in Int
    BY <1>3, <2>3
  <2>5. first \in Int
    BY <1>3, <2>4
  <2>6. t \in Int /\ first <= t /\ t <= range[2] - 1
    BY <1>3, <2>2, <2>5
  <2>7. /\ Day < step => range[1] <= t
        /\ ~ (Day < step) => /\ range[1] - (range[1] % step) <= t
                             /\ (t - (range[1] - (range[1] % step))) % step = 0
    BY <2>2, <2>6
  <2> HIDE DEF step, first
  <2>8. \E m \in 1 .. Len(MetricPartition(range, step)) :
          /\ MetricPartition(range, step)[m][1] <= t /\ t <= MetricPartition(range, step)[m][2]
          /\ \A l \in 1 .. Len(MetricPartition(range, step)) :
               MetricPartition(range, step)[l][1] <= t /\ t <= MetricPartition(range, step)[l][2]
                 => l = m
    BY <1>1, <2>3, <2>6, <2>7, MetricChunks
  <2>9. QED
    BY <2>1, <2>8 DEF Parts, Holds
<1>7. CASE groups[g].kind = "instant"
  <2>1. groups[g].part = <<range>> /\ ~ IsLogs(g)
    BY <1>1, <1>7, GroupedFields DEF IsLogs
  <2>2. t = range[2]
    BY <1>7, <2>1 DEF Instants
  <2>3. Parts(g) = 1 /\ groups[g].part[1] = range
    BY <2>1 DEF Parts
  <2>4. Holds(g, groups[g].part[1], t)
    BY <1>3, <2>1, <2>2, <2>3 DEF Holds
  <2>5. QED
    BY <2>3, <2>4
<1>8. QED
  BY <1>2, <1>4, <1>5, <1>6, <1>7 DEF Kinds

-----------------------------------------------------------------------------
(* Every chunk is merged once                                                *)

\* The time loop goes on, and nothing went wrong yet.
GoesOn == phase \in {"run", "asking", "backoff"} /\ ~ stop

\* No chunk is merged twice, and none before its turn.
MergedOnce ==
    /\ \A k \in DOMAIN merged : merged[k][2] \in 1 .. Parts(merged[k][1])
    /\ \A k, l \in DOMAIN merged : merged[k] = merged[l] => k = l
    /\ GoesOn => \A k \in DOMAIN merged : Passed(merged[k][1], merged[k][2])

\* The loop does not run out of groups before it runs out of rows.
RowExists == GoesOn => current.n = 0 \/ \E i \in Groups : Parts(i) >= current.n

\* A loop that is done without an error merged what it was to merge.
DoneIsMerged ==
    phase = "done" /\ failure = "none" =>
        \A h \in Groups \ full : \A m \in 1 .. Parts(h) :
            IsMerged(h, m) \/ (m = Parts(h) /\ BeforeALonger(h))

OnceInv == AskedFor /\ MergedOnce /\ RowExists /\ DoneIsMerged

\* The pointers only go down: the present chunk and what came before it are
\* passed, and when they stop there is nothing left.
LEMMA NextPasses ==
    ASSUME GroupsOK(groups), SplitTypeOK, GoesOn, RowExists, NextRequest, UNCHANGED groups
    PROVE  /\ phase' = "run" =>
                /\ \A h \in Groups, m \in Nat :
                      Passed(h, m) \/ (h = current.g /\ m = current.n) => Passed(h, m)'
                /\ current'.n = 0 \/ \E i \in Groups : Parts(i) >= current'.n
           /\ phase' = "done" =>
                \A h \in Groups : \A m \in 1 .. Parts(h) :
                  Passed(h, m) \/ (h = current.g /\ m = current.n)
<1> DEFINE n     == current.n
           g     == current.g
           has   == {i \in Groups : n >= 1 /\ Parts(i) >= n}
           later == {i \in has : i > g}
           from  == IF later # {} THEN later ELSE has
           to    == NextGroup(n, g)
           row   == NextRow(n, g)
<1>1. n \in Nat /\ g \in Groups
  BY DEF SplitTypeOK
<1>2. \A h \in Groups : h \in Nat /\ Parts(h) \in Nat
  BY GroupsFacts
<1>3. to = IF from = {} THEN 0 ELSE CHOOSE i \in from : \A j \in from : i <= j
  BY DEF NextGroup
<1>4. row = IF later # {} THEN n ELSE n - 1
  BY DEF NextRow
<1>5. n = 0 \/ has # {}
  <2>1. CASE n >= 1
    BY <1>1, <2>1 DEF RowExists
  <2>2. QED
    BY <1>1, <2>1
<1>6. from # {} => to \in from
  <2>1. from \subseteq Groups /\ from \subseteq Nat
    BY <1>2
  <2> HIDE DEF from
  <2>2. SUFFICES ASSUME from # {} PROVE to \in from
    OBVIOUS
  <2>3. \E i \in from : \A j \in from : i <= j
    BY <2>1, <2>2, LeastExists
  <2>4. QED
    BY <1>3, <2>2, <2>3
<1>7. IF row > 0 /\ to > 0
      THEN phase' = "run" /\ current' = [n |-> row, g |-> to]
      ELSE phase' = "done"
  BY DEF NextRequest
<1>8. ASSUME phase' = "run"
      PROVE  /\ \A h \in Groups, m \in Nat :
                   Passed(h, m) \/ (h = g /\ m = n) => Passed(h, m)'
             /\ current'.n = 0 \/ \E i \in Groups : Parts(i) >= current'.n
  <2>1. row > 0 /\ to > 0 /\ current'.n = row /\ current'.g = to
    BY <1>7, <1>8
  <2>2. from # {} /\ to \in from
    BY <1>3, <1>6, <2>1
  <2>3. to \in Groups /\ Parts(to) >= n
    BY <2>2
  <2>4. \/ row = n /\ to > g
        \/ row = n - 1
    BY <1>4, <2>2
  <2> HIDE DEF n, g, has, later, from, to, row
  <2>5. Parts(to) >= row
    BY <1>1, <1>2, <2>3, <2>4
  <2>6. ASSUME NEW h \in Groups, NEW m \in Nat,
               (m > n \/ (m = n /\ h < g)) \/ (h = g /\ m = n)
        PROVE  m > row \/ (m = row /\ h < to)
    <3>1. h \in Nat /\ g \in Nat /\ to \in Nat
      BY <1>1, <1>2, <2>3
    <3>2. QED
      BY <1>1, <2>4, <2>6, <3>1
  <2>7. QED
    BY <2>1, <2>3, <2>5, <2>6 DEF Passed, n, g
<1>9. ASSUME phase' = "done"
      PROVE  \A h \in Groups : \A m \in 1 .. Parts(h) :
               Passed(h, m) \/ (h = g /\ m = n)
  <2>1. ~ (row > 0 /\ to > 0)
    BY <1>7, <1>9
  <2>2. CASE n = 0
    BY <1>2, <2>2 DEF Passed
  <2>3. CASE n # 0
    <3>1. has # {} /\ from # {}
      BY <1>5, <2>3
    <3>2. to \in Groups
      BY <1>6, <3>1
    <3>3. to > 0
      BY <3>2, GroupsFacts
    <3>4. n = 1 /\ later = {}
      BY <1>1, <1>4, <2>1, <2>3, <3>3
    <3>5. SUFFICES ASSUME NEW h \in Groups, NEW m \in 1 .. Parts(h)
                   PROVE  m > 1 \/ (m = 1 /\ h < g) \/ (h = g /\ m = 1)
      BY <3>4 DEF Passed
    <3>6. h \in has
      BY <1>2, <3>4, <3>5
    <3>7. ~ (h > g)
      BY <3>4, <3>6
    <3>8. QED
      BY <1>1, <1>2, <3>5, <3>7
  <2>4. QED
    BY <2>2, <2>3
<1>10. QED
  BY <1>8, <1>9

LEMMA AskedForStays ==
    ASSUME AskedFor, UNCHANGED <<range, groups>>
    PROVE  AskedFor'
BY DEF AskedFor

\* The loop stops, or goes nowhere: nothing is merged.
LEMMA StandsStill ==
    ASSUME OnceInv, UNCHANGED <<range, groups, merged>>,
           GoesOn' => GoesOn /\ UNCHANGED current,
           phase' = "done" => failure' # "none" \/ UNCHANGED <<phase, failure, full>>
    PROVE  OnceInv'
<1>1. AskedFor /\ MergedOnce /\ RowExists /\ DoneIsMerged
  BY DEF OnceInv
<1>2. /\ Groups' = Groups
      /\ \A h : Parts(h)' = Parts(h) /\ (BeforeALonger(h)' <=> BeforeALonger(h))
  BY GroupsStay
<1>3. AskedFor'
  BY <1>1, AskedForStays
<1>4. MergedOnce'
  <2>1. DOMAIN merged' = DOMAIN merged /\ \A k : merged'[k] = merged[k]
    OBVIOUS
  <2>2. GoesOn' => \A h, m : Passed(h, m) <=> Passed(h, m)'
    BY DEF Passed
  <2>3. QED
    BY <1>1, <1>2, <2>1, <2>2 DEF MergedOnce
<1>5. RowExists'
  BY <1>1, <1>2 DEF RowExists
<1>6. DoneIsMerged'
  BY <1>1, <1>2 DEF DoneIsMerged, IsMerged
<1>7. QED
  BY <1>3, <1>4, <1>5, <1>6 DEF OnceInv

LEMMA StartsOnce ==
    ASSUME GroupsOK(groups), AskedFor, UNCHANGED <<range, groups>>, merged' = <<>>,
           phase' \in {"run", "idle"},
           phase' = "run" => current' = [n |-> TotalRequests(groups), g |-> 1]
    PROVE  OnceInv'
<1>1. AskedFor'
  BY AskedForStays
<1>2. MergedOnce'
  BY DEF MergedOnce
<1>3. RowExists'
  <2>1. SUFFICES ASSUME phase' = "run"
                 PROVE  (\E i \in Groups : Parts(i) >= current.n)'
    BY DEF RowExists, GoesOn
  <2>2. PICK i \in 1 .. Len(groups) : Len(groups[i].part) = TotalRequests(groups)
    BY TotalRequestsIsLargest
  <2>3. i \in Groups' /\ Parts(i)' = TotalRequests(groups) /\ current'.n = TotalRequests(groups)
    BY <2>1, <2>2, GroupsStay, GroupsFacts DEF Parts
  <2>4. TotalRequests(groups) \in Nat
    BY TotalRequestsIsLargest
  <2>5. Parts(i)' >= current'.n
    BY <2>3, <2>4
  <2>6. QED
    BY <2>3, <2>5
<1>4. DoneIsMerged'
  BY DEF DoneIsMerged
<1>5. QED
  BY <1>1, <1>2, <1>3, <1>4 DEF OnceInv

\* The chunk that is combined was not merged before: what was merged is passed.
LEMMA CombineOnce ==
    ASSUME SplitInv, OnceInv, phase = "asking", merged' = Combine, UNCHANGED groups
    PROVE  /\ \A k \in DOMAIN merged' :
                /\ merged'[k][1] \in Groups
                /\ merged'[k][2] \in 1 .. Parts(merged'[k][1])
                /\ \/ Passed(merged'[k][1], merged'[k][2])
                   \/ merged'[k][1] = current.g /\ merged'[k][2] = current.n
           /\ \A k, l \in DOMAIN merged' : merged'[k] = merged'[l] => k = l
<1>1. SplitTypeOK /\ ~ stop /\ GoesOn /\ MergedOnce /\ GroupsOK(groups)
  BY DEF SplitInv, AskedForAReason, GoesOn, OnceInv
<1>2. merged \in Seq(Groups \X Nat) /\ current.g \in Groups /\ current.n \in Nat
  BY <1>1 DEF SplitTypeOK
<1>3. DOMAIN merged = 1 .. Len(merged) /\ Len(merged) \in Nat
      /\ \A k \in DOMAIN merged : merged[k] \in Groups \X Nat
  BY <1>2, LenProperties, ElementOfSeq
<1>4. CASE ~ HasRange
  <2>1. merged' = merged
    BY <1>4 DEF Combine
  <2>2. QED
    BY <1>1, <1>3, <2>1 DEF MergedOnce
<1>5. CASE HasRange
  <2> DEFINE c == <<current.g, current.n>>
             L == Len(merged)
  <2>1. merged' = Append(merged, c) /\ c \in Groups \X Nat
    BY <1>2, <1>5 DEF Combine
  <2>2. /\ DOMAIN merged' = 1 .. L + 1
        /\ \A k \in 1 .. L : merged'[k] = merged[k]
        /\ merged'[L + 1] = c
    <3>1. merged' \in Seq(Groups \X Nat) /\ Len(merged') = L + 1
      BY <1>2, <2>1
    <3>2. \A k \in 1 .. L : merged'[k] = merged[k]
      BY <1>2, <2>1
    <3>3. merged'[L + 1] = c
      BY <1>2, <2>1
    <3>4. QED
      BY <3>1, <3>2, <3>3, LenProperties
  <2>3. ~ Passed(current.g, current.n)
    BY <1>1, <1>2, GroupsFacts DEF Passed
  <2>4. c[1] = current.g /\ c[2] = current.n /\ current.n \in 1 .. Parts(current.g)
    BY <1>5 DEF HasRange
  <2> HIDE DEF c, L
  <2>5. \A k \in 1 .. L : merged[k] # c
    BY <1>1, <1>3, <2>3, <2>4 DEF MergedOnce, L
  <2>6. L \in Nat /\ DOMAIN merged = 1 .. L
    BY <1>3 DEF L
  <2>7. ASSUME NEW k \in 1 .. L + 1
        PROVE  /\ merged'[k][1] \in Groups
               /\ merged'[k][2] \in 1 .. Parts(merged'[k][1])
               /\ \/ Passed(merged'[k][1], merged'[k][2])
                  \/ merged'[k][1] = current.g /\ merged'[k][2] = current.n
    <3>1. CASE k \in 1 .. L
      <4>1. merged'[k] = merged[k] /\ merged[k] \in Groups \X Nat
        BY <1>3, <2>2, <2>6, <3>1
      <4>2. merged[k][1] \in Groups
        BY <4>1
      <4>3. merged[k][2] \in 1 .. Parts(merged[k][1]) /\ Passed(merged[k][1], merged[k][2])
        BY <1>1, <2>6, <3>1 DEF MergedOnce
      <4>4. QED
        BY <4>1, <4>2, <4>3
    <3>2. CASE k = L + 1
      BY <1>2, <2>2, <2>4, <3>2
    <3>3. QED
      BY <2>6, <3>1, <3>2
  <2>8. ASSUME NEW k \in 1 .. L + 1, NEW l \in 1 .. L + 1, merged'[k] = merged'[l]
        PROVE  k = l
    <3>1. CASE k \in 1 .. L /\ l \in 1 .. L
      BY <1>1, <2>2, <2>6, <2>8, <3>1 DEF MergedOnce
    <3>2. CASE k = L + 1 \/ l = L + 1
      BY <2>2, <2>5, <2>6, <2>8, <3>2
    <3>3. QED
      BY <2>6, <3>1, <3>2
  <2>9. QED
    BY <2>2, <2>7, <2>8
<1>6. QED
  BY <1>4, <1>5

LEMMA SkipKeepsOnce ==
    ASSUME SplitInv, OnceInv, Skip
    PROVE  OnceInv'
<1>1. GroupsOK(groups) /\ SplitTypeOK /\ PassedIsMerged
  BY DEF SplitInv
<1>2. AskedFor /\ MergedOnce /\ RowExists /\ DoneIsMerged
  BY DEF OnceInv
<1>3. /\ phase = "run" /\ ~ stop /\ current.g \in full /\ NextRequest
      /\ UNCHANGED <<range, groups, nested, retried, stop, full, merged, failure>>
  BY DEF Skip
<1>4. GoesOn
  BY <1>3 DEF GoesOn
<1>5. /\ Groups' = Groups
      /\ \A h : Parts(h)' = Parts(h) /\ (BeforeALonger(h)' <=> BeforeALonger(h))
  BY <1>3, GroupsStay
<1>6. /\ phase' \in {"run", "done"}
      /\ phase' = "run" =>
           /\ \A h \in Groups, m \in Nat :
                 Passed(h, m) \/ (h = current.g /\ m = current.n) => Passed(h, m)'
           /\ current'.n = 0 \/ \E i \in Groups : Parts(i) >= current'.n
      /\ phase' = "done" =>
           \A h \in Groups : \A m \in 1 .. Parts(h) :
             Passed(h, m) \/ (h = current.g /\ m = current.n)
  BY <1>1, <1>2, <1>3, <1>4, NextPasses, NextRequestType
<1>7. AskedFor'
  BY <1>2, <1>3, AskedForStays
<1>8. MergedOnce'
  <2>1. \A k \in DOMAIN merged : merged[k][1] \in Groups /\ merged[k][2] \in Nat
    <3>1. merged \in Seq(Groups \X Nat)
      BY <1>1 DEF SplitTypeOK
    <3>2. \A k \in DOMAIN merged : merged[k] \in Groups \X Nat
      BY <3>1, LenProperties, ElementOfSeq
    <3>3. QED
      BY <3>2
  <2>2. GoesOn' => phase' = "run"
    BY <1>6 DEF GoesOn
  <2>3. QED
    BY <1>2, <1>3, <1>4, <1>5, <1>6, <2>1, <2>2 DEF MergedOnce
<1>9. RowExists'
  BY <1>5, <1>6 DEF RowExists, GoesOn
<1>10. DoneIsMerged'
  <2>1. SUFFICES ASSUME phase' = "done", NEW h \in Groups \ full, NEW m \in 1 .. Parts(h)
                 PROVE  IsMerged(h, m)' \/ (m = Parts(h) /\ BeforeALonger(h))
    BY <1>3, <1>5 DEF DoneIsMerged
  <2>2. Passed(h, m)
    BY <1>3, <1>6, <2>1
  <2>3. IsMerged(h, m) \/ (m = Parts(h) /\ BeforeALonger(h))
    BY <1>1, <1>3, <2>2 DEF PassedIsMerged
  <2>4. IsMerged(h, m)' <=> IsMerged(h, m)
    BY <1>3 DEF IsMerged
  <2>5. QED
    BY <2>3, <2>4
<1>11. QED
  BY <1>7, <1>8, <1>9, <1>10 DEF OnceInv

LEMMA AnswerDataKeepsOnce ==
    ASSUME SplitInv, OnceInv, AnswerData
    PROVE  OnceInv'
<1>1. GroupsOK(groups) /\ SplitTypeOK /\ AskedForAReason /\ PassedIsMerged
  BY DEF SplitInv
<1>2. AskedFor /\ MergedOnce /\ RowExists /\ DoneIsMerged
  BY DEF OnceInv
<1>3. /\ phase = "asking" /\ merged' = Combine /\ NextRequest
      /\ UNCHANGED <<range, groups, nested, retried, stop, failure>>
      /\ full \subseteq full'
  BY DEF AnswerData
<1>4. GoesOn
  BY <1>1, <1>3 DEF GoesOn, AskedForAReason
<1>5. /\ Groups' = Groups
      /\ \A h : Parts(h)' = Parts(h) /\ (BeforeALonger(h)' <=> BeforeALonger(h))
  BY <1>3, GroupsStay
<1>6. /\ phase' \in {"run", "done"}
      /\ phase' = "run" =>
           /\ \A h \in Groups, m \in Nat :
                 Passed(h, m) \/ (h = current.g /\ m = current.n) => Passed(h, m)'
           /\ current'.n = 0 \/ \E i \in Groups : Parts(i) >= current'.n
      /\ phase' = "done" =>
           \A h \in Groups : \A m \in 1 .. Parts(h) :
             Passed(h, m) \/ (h = current.g /\ m = current.n)
  BY <1>1, <1>2, <1>3, <1>4, NextPasses, NextRequestType
<1>7. AskedFor'
  BY <1>2, <1>3, AskedForStays
<1>8. /\ \A k \in DOMAIN merged' :
           /\ merged'[k][1] \in Groups
           /\ merged'[k][2] \in 1 .. Parts(merged'[k][1])
           /\ \/ Passed(merged'[k][1], merged'[k][2])
              \/ merged'[k][1] = current.g /\ merged'[k][2] = current.n
      /\ \A k, l \in DOMAIN merged' : merged'[k] = merged'[l] => k = l
  BY <1>3, CombineOnce
<1>9. MergedOnce'
  <2>1. GoesOn' => phase' = "run"
    BY <1>6 DEF GoesOn
  <2>2. \A k \in DOMAIN merged' : merged'[k][2] \in Nat
    BY <1>8
  <2>3. QED
    BY <1>5, <1>6, <1>8, <2>1, <2>2 DEF MergedOnce
<1>10. RowExists'
  BY <1>5, <1>6 DEF RowExists, GoesOn
<1>11. DoneIsMerged'
  <2>1. SUFFICES ASSUME phase' = "done", NEW h \in Groups \ full', NEW m \in 1 .. Parts(h)
                 PROVE  IsMerged(h, m)' \/ (m = Parts(h) /\ BeforeALonger(h))
    BY <1>5 DEF DoneIsMerged
  <2>2. /\ IsMerged(h, m) => IsMerged(h, m)'
        /\ h = current.g /\ m = current.n => IsMerged(h, m)'
    BY <1>3, CombineKeeps
  <2>3. Passed(h, m) \/ (h = current.g /\ m = current.n)
    BY <1>6, <2>1
  <2>4. h \in Groups \ full
    BY <1>3
  <2>5. Passed(h, m) => IsMerged(h, m) \/ (m = Parts(h) /\ BeforeALonger(h))
    BY <1>1, <1>4, <2>4 DEF PassedIsMerged, GoesOn
  <2>6. QED
    BY <2>2, <2>3, <2>5
<1>12. QED
  BY <1>7, <1>9, <1>10, <1>11 DEF OnceInv

LEMMA AnswerErrorKeepsOnce ==
    ASSUME SplitInv, OnceInv, NEW error \in Errors, AnswerError(error)
    PROVE  OnceInv'
<1>1. phase = "asking" /\ UNCHANGED <<range, groups, nested, full>>
  BY DEF AnswerError
<1>2. CASE MayRetry(error)
  <2>1. phase' = "backoff" /\ UNCHANGED <<current, stop, merged, failure>>
    BY <1>2 DEF AnswerError
  <2>2. QED
    BY <1>1, <2>1, StandsStill DEF GoesOn
<1>3. CASE ~ MayRetry(error)
  <2>1. /\ stop' = TRUE
        /\ merged' = merged \/ merged' = Combine
        /\ failure' # "none"
    BY <1>3 DEF AnswerError, Errors
  <2>2. ~ GoesOn'
    BY <2>1 DEF GoesOn
  <2>3. CASE merged' = merged
    BY <1>1, <2>1, <2>2, <2>3, StandsStill
  <2>4. CASE merged' = Combine
    <3>1. AskedFor'
      BY <1>1, AskedForStays DEF OnceInv
    <3>2. MergedOnce'
      <4>1. /\ \A k \in DOMAIN merged' : merged'[k][2] \in 1 .. Parts(merged'[k][1])
            /\ \A k, l \in DOMAIN merged' : merged'[k] = merged'[l] => k = l
        BY <1>1, <2>4, CombineOnce
      <4>2. \A h : Parts(h)' = Parts(h)
        BY <1>1, GroupsStay
      <4>3. QED
        BY <2>2, <4>1, <4>2 DEF MergedOnce
    <3>3. RowExists' /\ DoneIsMerged'
      BY <2>1, <2>2 DEF RowExists, DoneIsMerged
    <3>4. QED
      BY <3>1, <3>2, <3>3 DEF OnceInv
  <2>5. QED
    BY <2>1, <2>3, <2>4
<1>4. QED
  BY <1>2, <1>3

LEMMA SplitStepKeepsOnce ==
    ASSUME SplitInv, OnceInv, Runs \/ Answers \/ Unsubscribe
    PROVE  OnceInv'
<1>1. CASE Cut \/ Ask \/ RetryTimer
  <2>1. /\ UNCHANGED <<range, groups, current, stop, merged, full, failure>>
        /\ phase' # "done"
        /\ phase' \in {"asking", "run"} => phase \in {"run", "backoff"}
        /\ phase' \in {"asking", "run", "cut"}
    BY <1>1 DEF Cut, Ask, RetryTimer
  <2>2. QED
    BY <2>1, StandsStill DEF GoesOn
<1>2. CASE Skip
  BY <1>2, SkipKeepsOnce
<1>3. CASE AnswerData
  BY <1>3, AnswerDataKeepsOnce
<1>4. CASE \E error \in Errors : AnswerError(error)
  BY <1>4, AnswerErrorKeepsOnce
<1>5. CASE Throw \/ Unsubscribe
  <2>1. /\ UNCHANGED <<range, groups, merged>> /\ stop' = TRUE
        /\ phase' # "done"
    BY <1>5 DEF Throw, Unsubscribe
  <2>2. QED
    BY <2>1, StandsStill DEF GoesOn
<1>6. QED
  BY <1>1, <1>2, <1>3, <1>4, <1>5 DEF Runs, Answers

LEMMA EndSplitOnce ==
    ASSUME SplitInv, OnceInv, EndSplit
    PROVE  OnceInv'
BY StartsOnce DEF EndSplit, SplitInv, OnceInv

LEMMA OnceNext ==
    ASSUME IInv, IdleBetween, OnceInv, [ShardNext]_vars
    PROVE  OnceInv'
<1>1. SplitInv
  BY DEF IInv
<1>2. CASE UNCHANGED splitVars
  BY <1>2, StandsStill DEF splitVars, GoesOn
<1>3. CASE UNCHANGED vars
  BY <1>2, <1>3 DEF vars
<1>4. CASE ShardStopped \/ ShardSkip \/ ShardRetryTimer
  BY <1>2, <1>4 DEF ShardStopped, ShardSkip, ShardRetryTimer
<1>5. CASE ShardQuery
  <2>1. Start(groups) /\ UNCHANGED <<range, groups, nested>>
    BY <1>5 DEF ShardQuery
  <2>2. QED
    BY <1>1, <2>1, StartsOnce DEF Start, SplitInv, OnceInv
<1>6. CASE ShardAnswer \/ ShardShrink \/ ShardRetry \/ ShardGiveUp \/ ShardSilent
  <2>1. EndSplit
    BY <1>6 DEF ShardAnswer, ShardShrink, ShardRetry, ShardGiveUp, ShardSilent
  <2>2. QED
    BY <1>1, <2>1, EndSplitOnce
<1>7. CASE SplitRuns \/ SplitUnsubscribe
  BY <1>1, <1>7, SplitStepKeepsOnce DEF SplitRuns, SplitUnsubscribe
<1>8. CASE ShardUnsubscribe
  <2>1. UNCHANGED <<range, groups, merged>> /\ stop' = TRUE
    BY <1>8 DEF ShardUnsubscribe
  <2>2. phase' # "done"
    BY <1>8 DEF ShardUnsubscribe, IdleBetween
  <2>3. QED
    BY <2>1, <2>2, StandsStill DEF GoesOn
<1>9. QED
  BY <1>3, <1>4, <1>5, <1>6, <1>7, <1>8 DEF ShardNext, ShardRuns

LEMMA OnceInit ==
    ASSUME ShardInit
    PROVE  OnceInv
<1>1. AskedFor
  BY ShardAssumption DEF ShardInit, InitTimeOnly, InitSharded, Init, AskedFor
<1>2. /\ merged = <<>> /\ phase \in {"run", "idle"}
      /\ phase = "run" => current = [n |-> TotalRequests(groups), g |-> 1]
  BY DEF ShardInit, InitTimeOnly, InitSharded, Init
<1>3. MergedOnce /\ DoneIsMerged
  BY <1>2 DEF MergedOnce, DoneIsMerged
<1>4. GroupsOK(groups)
  BY <1>1, GroupedType DEF AskedFor
<1>5. RowExists
  <2>1. SUFFICES ASSUME phase = "run"
                 PROVE  \E i \in Groups : Parts(i) >= current.n
    BY <1>2 DEF RowExists, GoesOn
  <2>2. PICK i \in 1 .. Len(groups) : Len(groups[i].part) = TotalRequests(groups)
    BY <1>4, TotalRequestsIsLargest
  <2>3. TotalRequests(groups) \in Nat
    BY <1>4, TotalRequestsIsLargest
  <2>4. QED
    BY <1>2, <1>4, <2>1, <2>2, <2>3, GroupsFacts DEF Parts
<1>6. QED
  BY <1>1, <1>3, <1>5 DEF OnceInv

\* What the invariants say of one instant.
LEMMA OnceMeansInvisible ==
    ASSUME SplitInv, OnceInv, NEW g \in Groups, NEW t \in Instants(g)
    PROVE  /\ TimesAsked(g, t) <= 1
           /\ phase = "done" /\ failure = "none" /\ g \notin full =>
                \/ TimesAsked(g, t) = 1
                \/ BeforeALonger(g) /\ Holds(g, LastChunk(g), t)
<1> DEFINE S == {k \in MergedRanges(g) : Holds(g, ChunkAt(k), t)}
<1>1. AskedFor /\ MergedOnce /\ DoneIsMerged
  BY DEF OnceInv
<1>2. PICK m \in 1 .. Parts(g) :
        /\ Holds(g, groups[g].part[m], t)
        /\ \A l \in 1 .. Parts(g) : Holds(g, groups[g].part[l], t) => l = m
  BY <1>1, CoveredOnce
<1>3. merged \in Seq(Groups \X Nat)
  BY DEF SplitInv, SplitTypeOK
<1>4. \A k \in DOMAIN merged : merged[k] \in Groups \X Nat
  BY <1>3, LenProperties, ElementOfSeq
<1>5. ASSUME NEW k \in S
      PROVE  k \in DOMAIN merged /\ merged[k] = <<g, m>>
  <2>1. k \in DOMAIN merged /\ merged[k][1] = g /\ Holds(g, groups[g].part[merged[k][2]], t)
    BY <1>5 DEF MergedRanges, ChunkAt
  <2>2. merged[k][2] = m
    BY <1>1, <1>2, <2>1 DEF MergedOnce
  <2>3. QED
    BY <1>4, <2>1, <2>2
<1>6. \A k, l \in S : k = l
  BY <1>1, <1>5 DEF MergedOnce
<1>7. TimesAsked(g, t) = Cardinality(S)
  BY DEF TimesAsked
<1>8. IsMerged(g, m) => S # {}
  BY <1>2 DEF IsMerged, MergedRanges, ChunkAt
<1> HIDE DEF S
<1>9. S = {} \/ \E k : S = {k}
  BY <1>6
<1>10. (Cardinality(S) = 0 /\ S = {}) \/ Cardinality(S) = 1
  BY <1>9, FS_EmptySet, FS_Singleton
<1>11. ASSUME phase = "done", failure = "none", g \notin full
       PROVE  Cardinality(S) = 1 \/ (BeforeALonger(g) /\ Holds(g, LastChunk(g), t))
  <2>1. IsMerged(g, m) \/ (m = Parts(g) /\ BeforeALonger(g))
    BY <1>1, <1>2, <1>11 DEF DoneIsMerged
  <2>2. QED
    BY <1>2, <1>8, <1>10, <2>1 DEF LastChunk
<1>12. QED
  BY <1>7, <1>10, <1>11

\* For all ranges, lengths of a chunk, steps and combinations of groups:
\* nothing that is shown was fetched twice, and a query that is done without
\* an error shows all there is, but for the last chunk of a group before a
\* longer one (partitionTimeRange and runNextRequest of querySplitting.ts).
THEOREM SplitIsInvisible == ShardSpec => []SplittingIsInvisible
<1>1. ShardInit => IInv /\ IdleBetween /\ OnceInv
  BY InitHolds, OnceInit DEF ShardInit, InitTimeOnly, InitSharded, IdleBetween
<1>2. IInv /\ IdleBetween /\ OnceInv /\ [ShardNext]_vars => (IInv /\ IdleBetween /\ OnceInv)'
  BY NextKeeps, IdleKeeps, OnceNext
<1>3. IInv /\ OnceInv => SplittingIsInvisible
  BY OnceMeansInvisible DEF IInv, SplittingIsInvisible
<1> HIDE DEF IInv, IdleBetween, OnceInv, SplittingIsInvisible
<1>4. QED
  BY <1>1, <1>2, <1>3, PTL DEF ShardSpec

=============================================================================
