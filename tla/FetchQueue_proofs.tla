-------------------------- MODULE FetchQueue_proofs --------------------------
(***************************************************************************)
(* For any requests, ids, limits and numbers of refused answers, and       *)
(* whatever consumers do while they are told of an end: at most one        *)
(* request of an id is in flight; nothing waits for nothing; and slots are *)
(* held by exactly the requests that need them, but for those SlotsAreHeld *)
(* names as lost.                                                          *)
(*                                                                         *)
(* The invariants speak of what an event has still to do: of the frames of *)
(* the stack, of the updates held back, and of the array being emitted.    *)
(***************************************************************************)
EXTENDS FetchQueue, SequenceTheorems, FiniteSetTheorems, WellFoundedInduction, TLAPS

-----------------------------------------------------------------------------
(* Frames *)

Places(t) == 1 .. Len(t)

Has(t, what) == \E k \in Places(t) : t[k].do = what

About(t, i, what) == \E k \in Places(t) : t[k].do \in what /\ i \in t[k].ids

\* What a frame is about fits what it does.
FrameOK(f) ==
    /\ f.do \in {"tell", "told", "done"} => f.end \in Ended
    /\ f.do \in {"start", "told", "done", "release", "return"} => \E i \in Ids : f.ids = {i}
    /\ f.do \in {"told", "release", "return"} => f.ids \subseteq Requests
    /\ f.do = "worker" => f.ids = {}

FramesOK(t) == \A k \in Places(t) : FrameOK(t[k])

AtMostOne(t, what) ==
    \A j, k \in Places(t) : t[j].do = what /\ t[k].do = what => j = k

OnWorker(t) == t # <<>> /\ Head(t).do = "worker"

\* What the worker has just emitted is right above the worker.
StartsNext(t) ==
    \A k \in Places(t) : t[k].do = "start" => k + 1 \in Places(t) /\ t[k + 1].do = "worker"

WorkerFrameOK(t, busy) ==
    /\ busy <=> Has(t, "worker")
    /\ Has(t, "start") => busy
    /\ AtMostOne(t, "worker") /\ AtMostOne(t, "start") /\ StartsNext(t)

Statuses == {"Absent", "Pending", "InProgress"}
Workers ==
    [busy : BOOLEAN, todo : SUBSET Ids, place : [Ids -> Nat], backlog : Seq(Nat)]

TypeInv ==
    /\ TypeOK
    /\ FramesOK(stack)
    /\ WorkerFrameOK(stack, worker.busy)
    /\ ~worker.busy => worker = Idle
    /\ \A c \in Checkers : checker[c] = NoId
    /\ \A i \in Ids : stage[i] = "auth" => attempt[i] = 0

-----------------------------------------------------------------------------
(* Nothing waits for nothing *)

\* An API request that waits will be taken; the last update held back is the
\* present one; once none is left the slots are taken or nothing waits.
Waiting ==
    /\ \A i \in PendingOf(status) \ DataQueries :
          worker.busy /\ (i \in worker.todo \/ worker.backlog # <<>>)
    /\ PendingOf(status) # {} /\ worker.backlog # <<>> =>
          worker.backlog[Len(worker.backlog)] = InProgressOf(status)
    /\ PendingOf(status) # {} /\ worker.todo = {} /\ worker.backlog = <<>> =>
          InProgressOf(status) >= MaxParallel

-----------------------------------------------------------------------------
(* One request of an id *)

SameId(x, y) == RequestId[x] = RequestId[y] /\ RequestId[x] # NoId

InFlight == {x \in Requests : Live(x)}

\* Whoever of those in flight has the id of a request that is about to start is
\* still to be told.
Warned(t, inFlight) ==
    \A k \in Places(t) : t[k].do = "start" =>
        \A e \in t[k].ids \cap Requests, x \in inFlight : SameId(x, e) =>
            x = e \/ \E j \in Places(t) : j < k /\ t[j].do = "tell" /\ x \in t[j].ids

Successors ==
    /\ \A x, y \in InFlight : SameId(x, y) => x = y
    /\ Warned(stack, InFlight)

-----------------------------------------------------------------------------
(* Slots *)

\* i has ended and its entry is still to be removed.
Owed(t, i) == About(t, i, {"told", "done"})

\* i is emitted and not yet handed to its subscriber.
Starting(t, i) == About(t, i, {"start"})

\* The subscribe() that started i has not returned.
Returns(t, i) == About(t, i, {"return"})

\* A request ends once, and the subscribe() that started it is below that.
FramesOf(t, i) ==
    \A j, k \in Places(t) : i \in t[j].ids /\ i \in t[k].ids =>
        /\ t[j].do \in {"told", "done"} /\ t[k].do \in {"told", "done"} => j = k
        /\ t[j].do \in {"told", "done", "return"} /\ t[k].do = "return" => j <= k

\* An entry is in the queue while its request needs it, and until the teardown
\* of a request that has ended.
SlotOf(i) ==
    /\ Live(i) => status[i] = "InProgress"
    /\ stage[i] = "stuck" => status[i] = "InProgress"
    /\ i \in lost => status[i] = "InProgress"
    /\ Owed(stack, i) => status[i] = "InProgress" /\ stage[i] \in Ended
    /\ Starting(stack, i) /\ stage[i] = "waiting" => status[i] = "InProgress"
    /\ status[i] = "InProgress" =>
          \/ Live(i) \/ stage[i] = "stuck" \/ i \in lost \/ Owed(stack, i)
          \/ Starting(stack, i) /\ stage[i] = "waiting"
          \/ Returns(stack, i) /\ stage[i] \in Ended
    /\ stage[i] = "waiting" /\ ~Starting(stack, i) => status[i] = "Pending"
    /\ status[i] = "Pending" =>
          /\ ~Starting(stack, i)
          /\ stage[i] = "waiting" \/ (Returns(stack, i) /\ stage[i] = "dropped")
    /\ Returns(stack, i) => status[i] # "Absent"
    /\ stage[i] = "new" => ~Starting(stack, i) /\ ~Returns(stack, i)
    /\ FramesOf(stack, i)
    /\ i \in lost => /\ stage[i] = "dropped" /\ i \in Requests /\ Reentrant # {}
                     /\ ~Owed(stack, i) /\ ~Returns(stack, i)

Slots == \A i \in Ids : SlotOf(i)

\* While the worker emits, a subscribe() that has not returned is the one below
\* it that woke it; or it has just added to the worker's updates, and returns.
WorkAbove(t) ==
    \A j, k \in Places(t) : t[j].do = "return" /\ t[k].do = "worker" => k < j

Above ==
    /\ stack # <<>> /\ Head(stack).do = "return" =>
          /\ WorkAbove(Tail(stack))
          /\ worker.busy => \A i \in Head(stack).ids : stage[i] = "waiting"
    /\ stack # <<>> /\ Head(stack).do # "return" => WorkAbove(stack)

\* What the worker is about to emit waits, or was dropped in a callback.
Todo ==
    \A i \in worker.todo :
        \/ status[i] = "Pending"
        \/ status[i] = "Absent" /\ stage[i] = "dropped" /\ i \in Requests /\ Reentrant # {}

\* Nothing but a renewal goes on.
Calm(t) ==
    \A k \in Places(t) :
        \/ t[k].do \in {"worker", "start"}
        \/ t[k].do = "tell" /\ t[k].ids = {}

\* A renewal that waits is alone and next.
Renewal ==
    \A c \in Checkers : stage[c] = "waiting" =>
        /\ Calm(stack) /\ \A e \in Ids : Starting(stack, e) => e = c
        /\ worker.todo \subseteq {c}
        /\ status[c] = "Pending" => c \in worker.todo

-----------------------------------------------------------------------------
(* The stack grows and shrinks at its head *)

\* A stack with one frame more.
Put(a, t) == <<a>> \o t

\* The places of u are those of t, each one further back, and the first.
Shifted(u, a, t) ==
    /\ 1 \in Places(u) /\ u[1] = a
    /\ \A k \in Places(t) :
          k \in Nat /\ k > 0 /\ k + 1 \in Places(u) /\ u[k + 1] = t[k]
    /\ \A k \in Places(u) :
          k \in Nat /\ (k = 1 \/ (k - 1 \in Places(t) /\ u[k] = t[k - 1]))

LEMMA Cons ==
    ASSUME NEW t \in Seq(Frames), NEW a \in Frames
    PROVE  /\ Put(a, t) \in Seq(Frames) /\ Put(a, t) # <<>>
           /\ Head(Put(a, t)) = a
           /\ Len(t) \in Nat /\ Len(Put(a, t)) = Len(t) + 1
           /\ Shifted(Put(a, t), a, t)
<1>1. <<a>> \in Seq(Frames) /\ Len(<<a>>) = 1 /\ <<a>>[1] = a /\ Len(t) \in Nat
  OBVIOUS
<1>2. /\ Put(a, t) \in Seq(Frames)
      /\ Len(Put(a, t)) = 1 + Len(t)
      /\ \A i \in 1 .. 1 + Len(t) :
            Put(a, t)[i] = IF i <= 1 THEN <<a>>[i] ELSE t[i - 1]
  BY <1>1, ConcatProperties DEF Put
<1>3. QED
  BY <1>1, <1>2 DEF Places, Shifted

\* A stack that is not empty is its head on top of its tail.
LEMMA HeadTail ==
    ASSUME NEW t \in Seq(Frames), t # <<>>
    PROVE  /\ Head(t) \in Frames /\ Tail(t) \in Seq(Frames)
           /\ t = Put(Head(t), Tail(t))
<1>1. /\ Head(t) \in Frames /\ Tail(t) \in Seq(Frames) /\ Len(t) \in Nat
      /\ Len(Tail(t)) = Len(t) - 1 /\ Head(t) = t[1]
      /\ \A i \in 1 .. Len(Tail(t)) : Tail(t)[i] = t[i + 1]
  BY HeadTailProperties
<1> DEFINE u == Put(Head(t), Tail(t))
<1>2. u \in Seq(Frames) /\ Len(u) = Len(Tail(t)) + 1 /\ Shifted(u, Head(t), Tail(t))
  BY <1>1, Cons
<1> HIDE DEF u
<1>3. Len(u) = Len(t)
  BY <1>1, <1>2
<1>4. \A k \in 1 .. Len(t) : u[k] = t[k]
  BY <1>1, <1>2 DEF Shifted, Places
<1>5. u = t
  BY <1>2, <1>3, <1>4, SeqEqual
<1>6. QED
  BY <1>1, <1>5 DEF u

\* Two frames are put on top one after the other.
LEMMA ConsTwo ==
    ASSUME NEW t \in Seq(Frames), NEW a \in Frames, NEW b \in Frames
    PROVE  <<a, b>> \o t = Put(a, Put(b, t))
<1>1. <<a>> \in Seq(Frames) /\ <<b>> \in Seq(Frames)
  OBVIOUS
<1>2. <<a>> \o (<<b>> \o t) = (<<a>> \o <<b>>) \o t
  BY <1>1, ConcatAssociative
<1>3. <<a, b>> = <<a>> \o <<b>>
  <2>1. /\ <<a>> \o <<b>> \in Seq(Frames) /\ Len(<<a>> \o <<b>>) = 2
        /\ (<<a>> \o <<b>>)[1] = a /\ (<<a>> \o <<b>>)[2] = b
    BY <1>1, ConcatProperties
  <2>2. <<a, b>> \in Seq(Frames) /\ Len(<<a, b>>) = 2 /\ <<a, b>>[1] = a /\ <<a, b>>[2] = b
    OBVIOUS
  <2> DEFINE u == <<a>> \o <<b>>   v == <<a, b>>
  <2> HIDE DEF u, v
  <2>3. \A k \in 1 .. 2 : u[k] = v[k]
    BY <2>1, <2>2 DEF u, v
  <2>4. u = v
    BY <2>1, <2>2, <2>3, SeqEqual DEF u, v
  <2>5. QED
    BY <2>4 DEF u, v
<1>4. QED
  BY <1>2, <1>3 DEF Put

LEMMA HasCons ==
    ASSUME NEW t \in Seq(Frames), NEW a \in Frames, NEW what
    PROVE  Has(Put(a, t), what) <=> a.do = what \/ Has(t, what)
<1>1. Shifted(Put(a, t), a, t)
  BY Cons
<1>2. QED
  BY <1>1 DEF Shifted, Has

LEMMA AboutCons ==
    ASSUME NEW t \in Seq(Frames), NEW a \in Frames, NEW what, NEW i
    PROVE  About(Put(a, t), i, what) <=> (a.do \in what /\ i \in a.ids) \/ About(t, i, what)
<1>1. Shifted(Put(a, t), a, t)
  BY Cons
<1>2. QED
  BY <1>1 DEF Shifted, About

LEMMA FramesCons ==
    ASSUME NEW t \in Seq(Frames), NEW a \in Frames
    PROVE  FramesOK(Put(a, t)) <=> FrameOK(a) /\ FramesOK(t)
<1>1. Shifted(Put(a, t), a, t)
  BY Cons
<1>2. QED
  BY <1>1 DEF Shifted, FramesOK

LEMMA AtMostOneCons ==
    ASSUME NEW t \in Seq(Frames), NEW a \in Frames, NEW what
    PROVE  AtMostOne(Put(a, t), what) <=> AtMostOne(t, what) /\ (a.do = what => ~Has(t, what))
<1> DEFINE u == Put(a, t)
<1>1. Shifted(u, a, t)
  BY Cons
<1> HIDE DEF u
<1>2. \A k \in Places(t) : k + 1 \in Places(u) /\ u[k + 1] = t[k] /\ k \in Nat /\ k > 0
  BY <1>1 DEF Shifted
<1>3. \A k \in Places(u) : k = 1 \/ (k - 1 \in Places(t) /\ u[k] = t[k - 1])
  BY <1>1 DEF Shifted
<1>4. 1 \in Places(u) /\ u[1] = a /\ \A k \in Places(u) : k \in Nat
  BY <1>1 DEF Shifted
<1>5. ASSUME AtMostOne(u, what) PROVE AtMostOne(t, what) /\ (a.do = what => ~Has(t, what))
  <2>1. ASSUME NEW j \in Places(t), NEW k \in Places(t), t[j].do = what, t[k].do = what
        PROVE  j = k
    <3>1. j + 1 = k + 1
      BY <1>2, <1>5, <2>1 DEF AtMostOne
    <3>2. QED
      BY <1>2, <3>1
  <2>2. ASSUME NEW k \in Places(t), a.do = what, t[k].do = what PROVE FALSE
    <3>1. k + 1 = 1
      BY <1>2, <1>4, <1>5, <2>2 DEF AtMostOne
    <3>2. QED
      BY <1>2, <3>1
  <2>3. QED
    BY <2>1, <2>2 DEF AtMostOne, Has
<1>6. ASSUME AtMostOne(t, what), a.do = what => ~Has(t, what),
             NEW j \in Places(u), NEW k \in Places(u), u[j].do = what, u[k].do = what
      PROVE  j = k
  <2>1. CASE j = 1 \/ k = 1
    BY <1>3, <1>4, <1>6, <2>1 DEF Has
  <2>2. CASE j # 1 /\ k # 1
    <3>1. j - 1 = k - 1
      BY <1>3, <1>6, <2>2 DEF AtMostOne
    <3>2. QED
      BY <1>4, <3>1
  <2>3. QED
    BY <2>1, <2>2
<1>7. QED
  BY <1>5, <1>6 DEF AtMostOne, u

LEMMA StartsNextCons ==
    ASSUME NEW t \in Seq(Frames), NEW a \in Frames
    PROVE  StartsNext(Put(a, t)) <=> StartsNext(t) /\ (a.do = "start" => OnWorker(t))
<1> DEFINE u == Put(a, t)
<1>1. Shifted(u, a, t)
  BY Cons
<1> HIDE DEF u
<1>2. \A k \in Places(t) : k + 1 \in Places(u) /\ u[k + 1] = t[k] /\ k \in Nat /\ k > 0
  BY <1>1 DEF Shifted
<1>3. \A k \in Places(u) : k = 1 \/ (k - 1 \in Places(t) /\ u[k] = t[k - 1])
  BY <1>1 DEF Shifted
<1>4. 1 \in Places(u) /\ u[1] = a /\ \A k \in Places(u) : k \in Nat
  BY <1>1 DEF Shifted
<1>5. OnWorker(t) <=> 1 \in Places(t) /\ t[1].do = "worker"
  BY EmptySeq DEF OnWorker, Places
<1>6. ASSUME StartsNext(u)
      PROVE  StartsNext(t) /\ (a.do = "start" => OnWorker(t))
  <2>1. ASSUME NEW k \in Places(t), t[k].do = "start"
        PROVE  k + 1 \in Places(t) /\ t[k + 1].do = "worker"
    <3>1. (k + 1) + 1 \in Places(u) /\ u[(k + 1) + 1].do = "worker"
      BY <1>2, <1>6, <2>1 DEF StartsNext
    <3>2. (k + 1) + 1 # 1 /\ ((k + 1) + 1) - 1 = k + 1
      BY <1>2
    <3>3. QED
      BY <1>3, <3>1, <3>2
  <2>2. ASSUME a.do = "start" PROVE 1 \in Places(t) /\ t[1].do = "worker"
    <3>1. 1 + 1 \in Places(u) /\ u[1 + 1].do = "worker"
      BY <1>4, <1>6, <2>2 DEF StartsNext
    <3>2. 1 + 1 # 1 /\ (1 + 1) - 1 = 1
      OBVIOUS
    <3>3. QED
      BY <1>3, <3>1, <3>2
  <2>3. QED
    BY <1>5, <2>1, <2>2 DEF StartsNext
<1>7. ASSUME StartsNext(t), a.do = "start" => OnWorker(t), NEW k \in Places(u), u[k].do = "start"
      PROVE  k + 1 \in Places(u) /\ u[k + 1].do = "worker"
  <2>1. CASE k = 1
    BY <1>2, <1>4, <1>5, <1>7, <2>1
  <2>2. CASE k # 1
    <3>1. (k - 1) + 1 \in Places(t) /\ t[(k - 1) + 1].do = "worker"
      BY <1>3, <1>7, <2>2 DEF StartsNext
    <3>2. (k - 1) + 1 = k
      BY <1>4
    <3>3. QED
      BY <1>2, <3>1, <3>2
  <2>3. QED
    BY <2>1, <2>2
<1>8. QED
  BY <1>6, <1>7 DEF StartsNext, u

\* Where something starts the worker is.
LEMMA StartsNextHas ==
    ASSUME NEW t, StartsNext(t), Has(t, "start")
    PROVE  Has(t, "worker")
BY DEF StartsNext, Has

\* Nobody is warned by less when something is put on top of the stack.
LEMMA WarnedPush ==
    ASSUME NEW t \in Seq(Frames), NEW a \in Frames, a.do # "start", NEW L, Warned(t, L)
    PROVE  Warned(Put(a, t), L)
<1> DEFINE u == Put(a, t)
<1>1. Shifted(u, a, t)
  BY Cons
<1> HIDE DEF u
<1>2. ASSUME NEW k \in Places(u), u[k].do = "start",
             NEW e \in u[k].ids \cap Requests, NEW x \in L, SameId(x, e), x # e
      PROVE  \E j \in Places(u) : j < k /\ u[j].do = "tell" /\ x \in u[j].ids
  <2>1. k - 1 \in Places(t) /\ u[k] = t[k - 1] /\ k \in Nat
    BY <1>1, <1>2 DEF Shifted
  <2>2. PICK j \in Places(t) : j < k - 1 /\ t[j].do = "tell" /\ x \in t[j].ids
    BY <1>2, <2>1 DEF Warned
  <2>3. j + 1 \in Places(u) /\ u[j + 1] = t[j] /\ j \in Nat
    BY <1>1, <2>2 DEF Shifted
  <2>4. j + 1 < k
    BY <2>1, <2>2, <2>3
  <2>5. QED
    BY <2>2, <2>3, <2>4
<1>3. QED
  BY <1>2 DEF Warned, u

\* The observers of a frame that have been told are not in flight any more.
LEMMA WarnedReplace ==
    ASSUME NEW t \in Seq(Frames), NEW a \in Frames, NEW b \in Frames, NEW L,
           Warned(Put(a, t), L), a.do = "tell", b.do = "tell", \A x \in L : x \in a.ids => x \in b.ids
    PROVE  Warned(Put(b, t), L)
<1> DEFINE u == Put(a, t)   v == Put(b, t)
<1>1. Shifted(u, a, t) /\ Shifted(v, b, t)
  BY Cons
<1>2. Warned(u, L)
  OBVIOUS
<1> HIDE DEF u, v
<1>3. ASSUME NEW k \in Places(v), v[k].do = "start",
             NEW e \in v[k].ids \cap Requests, NEW x \in L, SameId(x, e), x # e
      PROVE  \E j \in Places(v) : j < k /\ v[j].do = "tell" /\ x \in v[j].ids
  <2>1. k # 1 /\ k - 1 \in Places(t) /\ v[k] = t[k - 1] /\ k \in Nat
    BY <1>1, <1>3 DEF Shifted
  <2>2. k \in Places(u) /\ u[k] = v[k]
    <3>1. (k - 1) + 1 \in Places(u) /\ u[(k - 1) + 1] = t[k - 1]
      BY <1>1, <2>1 DEF Shifted
    <3>2. (k - 1) + 1 = k
      BY <2>1
    <3>3. QED
      BY <2>1, <3>1, <3>2
  <2>3. PICK j \in Places(u) : j < k /\ u[j].do = "tell" /\ x \in u[j].ids
    BY <1>2, <1>3, <2>2 DEF Warned
  <2>4. CASE j = 1
    <3>1. x \in b.ids /\ v[1] = b /\ 1 \in Places(v)
      BY <1>1, <2>3, <2>4 DEF Shifted
    <3>2. QED
      BY <2>3, <2>4, <3>1
  <2>5. CASE j # 1
    <3>1. j \in Nat /\ j - 1 \in Places(t) /\ u[j] = t[j - 1]
      BY <1>1, <2>3, <2>5 DEF Shifted
    <3>2. (j - 1) + 1 \in Places(v) /\ v[(j - 1) + 1] = t[j - 1]
      BY <1>1, <3>1 DEF Shifted
    <3>3. (j - 1) + 1 = j
      BY <3>1
    <3>4. QED
      BY <2>3, <3>1, <3>2, <3>3
  <2>6. QED
    BY <2>4, <2>5
<1>4. QED
  BY <1>3 DEF Warned, v

\* What is taken from the stack warns nobody who is in flight.
LEMMA WarnedPop ==
    ASSUME NEW t \in Seq(Frames), NEW a \in Frames, NEW L, Warned(Put(a, t), L),
           a.do = "tell" => \A x \in a.ids : x \notin L
    PROVE  Warned(t, L)
<1> DEFINE u == Put(a, t)
<1>1. Shifted(u, a, t)
  BY Cons
<1> HIDE DEF u
<1>2. \A k \in Places(t) : k + 1 \in Places(u) /\ u[k + 1] = t[k] /\ k \in Nat /\ k > 0
  BY <1>1 DEF Shifted
<1>3. \A k \in Places(u) : k = 1 \/ (k - 1 \in Places(t) /\ u[k] = t[k - 1])
  BY <1>1 DEF Shifted
<1>4. 1 \in Places(u) /\ u[1] = a /\ \A k \in Places(u) : k \in Nat
  BY <1>1 DEF Shifted
<1>5. ASSUME NEW k \in Places(t), t[k].do = "start",
             NEW e \in t[k].ids \cap Requests, NEW x \in L, SameId(x, e), x # e
      PROVE  \E j \in Places(t) : j < k /\ t[j].do = "tell" /\ x \in t[j].ids
  <2>1. PICK j \in Places(u) : j < k + 1 /\ u[j].do = "tell" /\ x \in u[j].ids
    BY <1>2, <1>5 DEF Warned, u
  <2>2. j # 1
    BY <2>1, <1>4, <1>5
  <2>3. j - 1 \in Places(t) /\ u[j] = t[j - 1] /\ j - 1 < k
    BY <2>1, <2>2, <1>2, <1>3, <1>4
  <2>4. QED
    BY <2>1, <2>3
<1>6. QED
  BY <1>5 DEF Warned

\* Fewer in flight, fewer to warn; and nobody when nothing is about to start.
LEMMA WarnedFewer ==
    ASSUME NEW t, NEW L, Warned(t, L), NEW M, M \subseteq L
    PROVE  Warned(t, M)
BY DEF Warned

LEMMA WarnedNobody ==
    ASSUME NEW t, ~Has(t, "start"), NEW L
    PROVE  Warned(t, L)
BY DEF Warned, Has

\* Only the top of the stack starts, and all who have its id are to be told first.
LEMMA WarnedStart ==
    ASSUME NEW t \in Seq(Frames), ~Has(t, "start"), NEW a \in Frames, NEW b \in Frames,
           a.do = "tell", NEW e, b.ids = {e}, NEW L,
           e \in Requests => \A x \in L : SameId(x, e) => x = e \/ x \in a.ids
    PROVE  Warned(Put(a, Put(b, t)), L)
<1> DEFINE u == Put(b, t)   v == Put(a, u)
<1>1. u \in Seq(Frames) /\ Shifted(u, b, t)
  BY Cons
<1> HIDE DEF u
<1>2. Shifted(v, a, u)
  BY <1>1, Cons
<1> HIDE DEF v
<1>3. ASSUME NEW k \in Places(v), v[k].do = "start",
             NEW d \in v[k].ids \cap Requests, NEW x \in L, SameId(x, d), x # d
      PROVE  \E j \in Places(v) : j < k /\ v[j].do = "tell" /\ x \in v[j].ids
  <2>1. k \in Nat /\ k # 1 /\ k - 1 \in Places(u) /\ v[k] = u[k - 1] /\ k > 0
    BY <1>2, <1>3 DEF Shifted
  <2>2. k - 1 = 1
    BY <1>1, <1>3, <2>1 DEF Shifted, Has
  <2>3. d = e /\ x \in a.ids /\ v[1] = a /\ 1 \in Places(v)
    BY <1>1, <1>2, <1>3, <2>1, <2>2 DEF Shifted
  <2>4. 1 < k
    BY <2>1
  <2>5. QED
    BY <2>3, <2>4
<1>4. QED
  BY <1>3 DEF Warned, u, v

-----------------------------------------------------------------------------
(* Types *)

LEMMA MakeFrame ==
    ASSUME NEW what \in {"worker", "tell", "told", "start", "release", "done", "return"},
           NEW ids \in SUBSET Ids, NEW end \in {""} \cup Ended
    PROVE  /\ Frame(what, ids, end) \in Frames
           /\ Frame(what, ids, end).do = what
           /\ Frame(what, ids, end).ids = ids
           /\ Frame(what, ids, end).end = end
BY DEF Frame, Frames

LEMMA IdsAreFinite == IsFiniteSet(Ids)
<1> DEFINE pings == {Ping[r] : r \in Requests}
           f == [r \in Requests |-> Ping[r]]
<1>1. f \in Surjection(Requests, pings)
  BY DEF Surjection
<1>2. IsFiniteSet(pings)
  BY <1>1, FS_Surjection, FetchAssumption
<1>3. Ids = (pings \cup {Rotate}) \cup Requests
  BY DEF Ids, Checkers
<1> HIDE DEF pings
<1>4. IsFiniteSet(pings \cup {Rotate})
  BY <1>2, FS_AddElement
<1>5. QED
  BY <1>3, <1>4, FS_Union, FetchAssumption

LEMMA Counts ==
    ASSUME NEW S, S \subseteq Ids
    PROVE  IsFiniteSet(S) /\ Cardinality(S) \in Nat
BY IdsAreFinite, FS_Subset, FS_CardinalityType

LEMMA InProgressIsNat ==
    ASSUME NEW s
    PROVE  InProgressOf(s) \in Nat
BY Counts DEF InProgressOf

LEMMA SelectedPend ==
    ASSUME NEW s, NEW ar, NEW n
    PROVE  Selected(s, ar, n) \subseteq PendingOf(s) /\ Selected(s, ar, n) \subseteq Ids
BY DEF Selected, PendingOf

\* A stack without its head.
LEMMA Popped ==
    ASSUME TypeInv, stack # <<>>
    PROVE  /\ Head(stack) \in Frames /\ Tail(stack) \in Seq(Frames)
           /\ stack = Put(Head(stack), Tail(stack))
           /\ FrameOK(Head(stack)) /\ FramesOK(Tail(stack))
           /\ Head(stack).do # "worker" => WorkerFrameOK(Tail(stack), worker.busy)
           /\ Head(stack).do = "worker" =>
                 worker.busy /\ WorkerFrameOK(Tail(stack), FALSE)
<1>1. /\ Head(stack) \in Frames /\ Tail(stack) \in Seq(Frames)
      /\ stack = Put(Head(stack), Tail(stack))
  BY HeadTail DEF TypeInv, TypeOK
<1>2. FrameOK(Head(stack)) /\ FramesOK(Tail(stack))
  BY <1>1, FramesCons DEF TypeInv
<1> DEFINE h == Head(stack)   t == Tail(stack)
<1>3. WorkerFrameOK(Put(h, t), worker.busy) /\ h \in Frames /\ t \in Seq(Frames)
  BY <1>1 DEF TypeInv
<1> HIDE DEF h, t
<1>4. /\ h.do # "worker" => WorkerFrameOK(t, worker.busy)
      /\ h.do = "worker" => worker.busy /\ WorkerFrameOK(t, FALSE)
  <2>1. /\ \A what : Has(Put(h, t), what) <=> h.do = what \/ Has(t, what)
        /\ \A what : AtMostOne(Put(h, t), what) <=> AtMostOne(t, what) /\ (h.do = what => ~Has(t, what))
        /\ StartsNext(Put(h, t)) <=> StartsNext(t) /\ (h.do = "start" => OnWorker(t))
        /\ StartsNext(t) /\ Has(t, "start") => Has(t, "worker")
    BY <1>3, HasCons, AtMostOneCons, StartsNextCons, StartsNextHas
  <2>2. worker.busy \in BOOLEAN
    BY DEF TypeInv, TypeOK
  <2>3. QED
    BY <1>3, <2>1, <2>2 DEF WorkerFrameOK
<1>5. QED
  BY <1>1, <1>2, <1>4 DEF h, t

\* A frame that is neither the worker's nor a start leaves these as they are.
LEMMA PlainPush ==
    ASSUME NEW t \in Seq(Frames), NEW a \in Frames, NEW busy \in BOOLEAN,
           FrameOK(a), a.do \notin {"worker", "start"},
           FramesOK(t), WorkerFrameOK(t, busy)
    PROVE  Put(a, t) \in Seq(Frames) /\ FramesOK(Put(a, t)) /\ WorkerFrameOK(Put(a, t), busy)
<1>1. Put(a, t) \in Seq(Frames) /\ FramesOK(Put(a, t))
  BY Cons, FramesCons
<1>2. /\ \A what : Has(Put(a, t), what) <=> a.do = what \/ Has(t, what)
      /\ \A what : AtMostOne(Put(a, t), what) <=> AtMostOne(t, what) /\ (a.do = what => ~Has(t, what))
      /\ StartsNext(Put(a, t)) <=> StartsNext(t) /\ (a.do = "start" => OnWorker(t))
  BY HasCons, AtMostOneCons, StartsNextCons
<1>3. WorkerFrameOK(Put(a, t), busy)
  BY <1>2 DEF WorkerFrameOK
<1>4. QED
  BY <1>1, <1>3

\* The worker's frame is put on top when the worker takes an update.
WorkerFrame == Frame("worker", {}, "")

LEMMA WorkerPush ==
    ASSUME NEW t \in Seq(Frames), FramesOK(t), WorkerFrameOK(t, FALSE)
    PROVE  /\ WorkerFrame \in Frames
           /\ Put(WorkerFrame, t) \in Seq(Frames)
           /\ FramesOK(Put(WorkerFrame, t)) /\ WorkerFrameOK(Put(WorkerFrame, t), TRUE)
<1>1. WorkerFrame \in Frames /\ WorkerFrame.do = "worker" /\ WorkerFrame.ids = {}
  BY DEF WorkerFrame, Frame, Frames
<1>2. FrameOK(WorkerFrame)
  BY <1>1 DEF FrameOK
<1> DEFINE a == WorkerFrame
<1> HIDE DEF a
<1>3. /\ \A what : Has(Put(a, t), what) <=> a.do = what \/ Has(t, what)
      /\ \A what : AtMostOne(Put(a, t), what) <=> AtMostOne(t, what) /\ (a.do = what => ~Has(t, what))
      /\ StartsNext(Put(a, t)) <=> StartsNext(t) /\ (a.do = "start" => OnWorker(t))
  BY <1>1, HasCons, AtMostOneCons, StartsNextCons DEF a
<1>4. WorkerFrameOK(Put(a, t), TRUE)
  BY <1>1, <1>3 DEF WorkerFrameOK, a
<1>5. QED
  BY <1>1, <1>2, <1>4, Cons, FramesCons DEF a

\* What Publish makes of the worker and the stack.
Taken(s, ar) ==
    [busy |-> TRUE, todo |-> Selected(s, ar, InProgressOf(s)), place |-> ar, backlog |-> <<>>]

LEMMA PublishCases ==
    ASSUME NEW s, NEW ar, NEW wk, NEW stk, Publish(s, ar, wk, stk)
    PROVE  /\ status' = s /\ arrival' = ar
           /\ \/ PendingOf(s) = {} /\ worker' = wk /\ stack' = stk
              \/ /\ PendingOf(s) # {} /\ wk.busy /\ stack' = stk
                 /\ worker' = [wk EXCEPT !.backlog = Append(@, InProgressOf(s))]
              \/ /\ PendingOf(s) # {} /\ ~wk.busy /\ stack' = Put(WorkerFrame, stk)
                 /\ worker' = Taken(s, ar)
BY DEF Publish, Put, WorkerFrame, Idle, Taken

\* Publish keeps the types.
LEMMA PublishTypes ==
    ASSUME NEW s \in [Ids -> Statuses], NEW ar \in [Ids -> Nat], NEW wk \in Workers,
           NEW stk \in Seq(Frames), Publish(s, ar, wk, stk), FramesOK(stk),
           WorkerFrameOK(stk, wk.busy), ~wk.busy => wk = Idle
    PROVE  /\ status' \in [Ids -> Statuses] /\ arrival' \in [Ids -> Nat]
           /\ worker' \in Workers /\ stack' \in Seq(Frames)
           /\ FramesOK(stack') /\ WorkerFrameOK(stack', worker'.busy)
           /\ ~worker'.busy => worker' = Idle
<1>1. status' \in [Ids -> Statuses] /\ arrival' \in [Ids -> Nat]
  BY PublishCases
<1>2. CASE PendingOf(s) = {} /\ worker' = wk /\ stack' = stk
  BY <1>1, <1>2
<1>3. CASE /\ wk.busy /\ stack' = stk
           /\ worker' = [wk EXCEPT !.backlog = Append(@, InProgressOf(s))]
  <2>1. worker' \in Workers /\ worker'.busy = wk.busy
    BY <1>3, InProgressIsNat, AppendProperties DEF Workers
  <2>2. WorkerFrameOK(stack', worker'.busy) /\ FramesOK(stack')
    BY <1>3, <2>1
  <2>3. QED
    BY <1>1, <1>3, <2>1, <2>2
<1>4. CASE /\ ~wk.busy /\ stack' = Put(WorkerFrame, stk)
           /\ worker' = Taken(s, ar)
  <2>1. worker' \in Workers /\ worker'.busy = TRUE
    BY <1>4, SelectedPend DEF Workers, Taken
  <2>2. wk.busy = FALSE
    BY <1>4 DEF Workers
  <2>3. WorkerFrameOK(Put(WorkerFrame, stk), TRUE) /\ FramesOK(Put(WorkerFrame, stk))
        /\ Put(WorkerFrame, stk) \in Seq(Frames)
    BY <2>2, WorkerPush
  <2>4. QED
    BY <1>1, <1>4, <2>1, <2>3
<1>5. QED
  BY <1>2, <1>3, <1>4, PublishCases

\* The frames of an end are put on top one by one.
LEMMA EndsArePut ==
    ASSUME NEW i \in Ids, NEW end \in Ended, NEW t \in Seq(Frames)
    PROVE  /\ Frame("told", {i}, end) \in Frames /\ Frame("done", {i}, end) \in Frames
           /\ Frame("tell", Waiters(i), "failed") \in Frames
           /\ EndFrames(i, end) \o t =
                 IF i \in Requests THEN Put(Frame("told", {i}, end), t)
                 ELSE Put(Frame("tell", Waiters(i), "failed"), Put(Frame("done", {i}, end), t))
<1>1. {i} \in SUBSET Ids /\ Waiters(i) \in SUBSET Ids /\ "failed" \in Ended
  BY DEF Waiters, Ids, Ended
<1>2. /\ Frame("told", {i}, end) \in Frames /\ Frame("done", {i}, end) \in Frames
      /\ Frame("tell", Waiters(i), "failed") \in Frames
  BY <1>1, MakeFrame
<1>3. CASE i \in Requests
  BY <1>2, <1>3 DEF EndFrames, Put
<1>4. CASE i \notin Requests
  <2>1. EndFrames(i, end) = <<Frame("tell", Waiters(i), "failed"), Frame("done", {i}, end)>>
    BY <1>4 DEF EndFrames
  <2>2. QED
    BY <1>2, <1>4, <2>1, ConsTwo
<1>5. QED
  BY <1>2, <1>3, <1>4

\* They change nothing of the worker's frames.
LEMMA EndTypes ==
    ASSUME NEW i \in Ids, NEW end \in Ended, NEW t \in Seq(Frames), NEW busy \in BOOLEAN,
           FramesOK(t), WorkerFrameOK(t, busy)
    PROVE  /\ EndFrames(i, end) \o t \in Seq(Frames)
           /\ FramesOK(EndFrames(i, end) \o t) /\ WorkerFrameOK(EndFrames(i, end) \o t, busy)
<1> DEFINE told == Frame("told", {i}, end)
           done == Frame("done", {i}, end)
           tell == Frame("tell", Waiters(i), "failed")
<1>1. told \in Frames /\ done \in Frames /\ tell \in Frames
  BY EndsArePut
<1>2. FrameOK(done) /\ FrameOK(tell) /\ (i \in Requests => FrameOK(told))
  BY DEF FrameOK, Frame, Ended
<1>3. told.do = "told" /\ done.do = "done" /\ tell.do = "tell"
  BY DEF Frame
<1>4. EndFrames(i, end) \o t = IF i \in Requests THEN Put(told, t) ELSE Put(tell, Put(done, t))
  BY EndsArePut
<1> HIDE DEF told, done, tell
<1>5. CASE i \in Requests
  BY <1>1, <1>2, <1>3, <1>4, <1>5, PlainPush
<1>6. CASE i \notin Requests
  <2>1. /\ Put(done, t) \in Seq(Frames) /\ FramesOK(Put(done, t))
        /\ WorkerFrameOK(Put(done, t), busy)
    BY <1>1, <1>2, <1>3, PlainPush
  <2> DEFINE u == Put(done, t)
  <2> HIDE DEF u
  <2>2. Put(tell, u) \in Seq(Frames) /\ FramesOK(Put(tell, u)) /\ WorkerFrameOK(Put(tell, u), busy)
    BY <1>1, <1>2, <1>3, <2>1, PlainPush DEF u
  <2>3. QED
    BY <1>4, <1>6, <2>2 DEF u
<1>7. QED
  BY <1>5, <1>6

LEMMA EmptyStack ==
    /\ <<>> \in Seq(Frames) /\ FramesOK(<<>>) /\ WorkerFrameOK(<<>>, FALSE)
    /\ \A what : ~Has(<<>>, what)
<1>1. Places(<<>>) = {}
  BY EmptySeq DEF Places
<1>2. QED
  BY <1>1, EmptySeq DEF FramesOK, WorkerFrameOK, Has, AtMostOne, StartsNext

\* The same when nothing else is left to do.
LEMMA EndAlone ==
    ASSUME NEW i \in Ids, NEW end \in Ended
    PROVE  EndFrames(i, end) = EndFrames(i, end) \o <<>>
<1> DEFINE told == Frame("told", {i}, end)
           done == Frame("done", {i}, end)
           tell == Frame("tell", Waiters(i), "failed")
<1>1. told \in Frames /\ done \in Frames /\ tell \in Frames
  BY EndsArePut, EmptyStack
<1>2. EndFrames(i, end) = IF i \in Requests THEN <<told>> ELSE <<tell, done>>
  BY DEF EndFrames
<1> HIDE DEF told, done, tell
<1>3. EndFrames(i, end) \in Seq(Frames)
  BY <1>1, <1>2
<1>4. QED
  BY <1>3, ConcatEmptySeq

\* Between events the worker is idle.
LEMMA QuietIsIdle ==
    ASSUME TypeInv, stack = <<>>
    PROVE  ~worker.busy /\ worker = Idle /\ WorkerFrameOK(stack, worker.busy)
BY EmptyStack DEF TypeInv, WorkerFrameOK

LEMMA InitTypes == Init => TypeInv
<1>1. ASSUME Init PROVE TypeInv
  <2>1. TypeOK
    <3>1. worker \in Workers /\ stack \in Seq(Frames)
      BY <1>1, EmptyStack, EmptySeq DEF Init, Workers, Idle
    <3>2. status \in [Ids -> Statuses] /\ arrival \in [Ids -> Nat] /\ stage \in [Ids -> Stages]
      BY <1>1 DEF Init, Statuses, Stages
    <3>3. failures \in 0 .. AuthFailures
      BY <1>1, FetchAssumption DEF Init
    <3>4. QED
      BY <1>1, <3>1, <3>2, <3>3 DEF Init, TypeOK, Workers, Statuses
  <2>2. QED
    BY <1>1, <2>1, EmptyStack DEF Init, TypeInv, Idle, Checkers, Ids
<1>2. QED
  BY <1>1

\* The parts of TypeInv, as the steps below need them.
LEMMA Parts ==
    TypeInv <=>
      /\ status \in [Ids -> Statuses] /\ arrival \in [Ids -> Nat]
      /\ worker \in Workers /\ stack \in Seq(Frames)
      /\ FramesOK(stack) /\ WorkerFrameOK(stack, worker.busy) /\ (~worker.busy => worker = Idle)
      /\ stage \in [Ids -> Stages] /\ attempt \in [Ids -> {0, 1}]
      /\ checker \in [Ids -> Checkers \cup {NoId}] /\ (\A c \in Checkers : checker[c] = NoId)
      /\ (\A i \in Ids : stage[i] = "auth" => attempt[i] = 0)
      /\ failures \in 0 .. AuthFailures /\ lost \subseteq Ids
BY DEF TypeInv, TypeOK, Statuses, Workers

\* The stack of an event, and what the worker is emitting.
LEMMA Stacked ==
    ASSUME TypeInv
    PROVE  /\ stack \in Seq(Frames) /\ FramesOK(stack) /\ WorkerFrameOK(stack, worker.busy)
           /\ worker.busy \in BOOLEAN /\ worker.todo \subseteq Ids
<1>1. worker \in Workers
  BY Parts
<1>2. worker.busy \in BOOLEAN /\ worker.todo \subseteq Ids
  BY <1>1 DEF Workers
<1>3. QED
  BY <1>2, Parts

LEMMA PartsAfter ==
    ASSUME status' \in [Ids -> Statuses], arrival' \in [Ids -> Nat],
           worker' \in Workers, stack' \in Seq(Frames),
           FramesOK(stack'), WorkerFrameOK(stack', worker'.busy), ~worker'.busy => worker' = Idle,
           stage' \in [Ids -> Stages], attempt' \in [Ids -> {0, 1}],
           checker' \in [Ids -> Checkers \cup {NoId}], \A c \in Checkers : checker'[c] = NoId,
           \A i \in Ids : stage'[i] = "auth" => attempt'[i] = 0,
           failures' \in 0 .. AuthFailures, lost' \subseteq Ids
    PROVE  TypeInv'
BY DEF TypeInv, TypeOK, Statuses, Workers

\* A request that does not begin to wait for a renewal.
LEMMA StageAfter ==
    ASSUME TypeInv, NEW i \in Ids, NEW end \in Stages \ {"auth"},
           stage' = [stage EXCEPT ![i] = end], attempt' = attempt
    PROVE  /\ stage' \in [Ids -> Stages]
           /\ \A j \in Ids : stage'[j] = "auth" => attempt'[j] = 0
BY Parts

LEMMA StagesAre ==
    /\ Ended \subseteq Stages \ {"auth"}
    /\ {"waiting", "sent", "stuck", "ok", "failed", "cancelled", "dropped"} = Stages \ {"auth", "new"}
BY DEF Stages, Ended

LEMMA PlacesOfKeys ==
    ASSUME TypeInv
    PROVE  /\ \A i \in Ids : ArrivalWithout(i) \in [Ids -> Nat]
           /\ \A i \in Ids : [arrival EXCEPT ![i] = NextArrival] \in [Ids -> Nat]
<1>1. NextArrival \in Nat
  BY Counts DEF NextArrival
<1>2. arrival \in [Ids -> Nat]
  BY DEF TypeInv, TypeOK
<1>3. ASSUME NEW x \in Ids PROVE ArrivalWithout(x) \in [Ids -> Nat]
  <2>1. \A i \in Ids : arrival[i] \in Nat
    BY <1>2
  <2>2. \A i \in Ids : arrival[i] > arrival[x] => arrival[i] - 1 \in Nat
    BY <2>1
  <2>3. QED
    BY <2>1, <2>2 DEF ArrivalWithout
<1>4. QED
  BY <1>1, <1>2, <1>3

\* What an entry that is added or removed does to the types.
LEMMA AddTypes ==
    ASSUME TypeInv, NEW i \in Ids, NEW stk \in Seq(Frames), Add(i, stk), FramesOK(stk),
           WorkerFrameOK(stk, worker.busy)
    PROVE  /\ status' \in [Ids -> Statuses] /\ arrival' \in [Ids -> Nat]
           /\ worker' \in Workers /\ stack' \in Seq(Frames)
           /\ FramesOK(stack') /\ WorkerFrameOK(stack', worker'.busy)
           /\ ~worker'.busy => worker' = Idle
<1>1. /\ [status EXCEPT ![i] = "Pending"] \in [Ids -> Statuses]
      /\ [arrival EXCEPT ![i] = NextArrival] \in [Ids -> Nat] /\ worker \in Workers
      /\ ~worker.busy => worker = Idle
  BY Parts, PlacesOfKeys DEF Statuses
<1>2. QED
  BY <1>1, PublishTypes DEF Add

LEMMA SetDoneTypes ==
    ASSUME TypeInv, NEW i \in Ids, NEW stk \in Seq(Frames), SetDone(i, stk), FramesOK(stk),
           WorkerFrameOK(stk, worker.busy)
    PROVE  /\ status' \in [Ids -> Statuses] /\ arrival' \in [Ids -> Nat]
           /\ worker' \in Workers /\ stack' \in Seq(Frames)
           /\ FramesOK(stack') /\ WorkerFrameOK(stack', worker'.busy)
           /\ ~worker'.busy => worker' = Idle
<1>1. /\ [status EXCEPT ![i] = "Absent"] \in [Ids -> Statuses]
      /\ ArrivalWithout(i) \in [Ids -> Nat] /\ worker \in Workers
      /\ ~worker.busy => worker = Idle
  BY Parts, PlacesOfKeys DEF Statuses
<1>2. QED
  BY <1>1, PublishTypes DEF SetDone

\* The stack below an emission: its predecessors are told, then it starts.
EmitTell(e) ==
    Frame("tell", IF e \in Requests /\ RequestId[e] # NoId THEN CancelledBy(e) ELSE {},
          "cancelled")
EmitStart(e) == Frame("start", {e}, "")
EmitStack(e) == Put(EmitTell(e), Put(EmitStart(e), stack))

LEMMA EmitFrames ==
    ASSUME NEW e \in Ids, stack \in Seq(Frames)
    PROVE  /\ EmitTell(e) \in Frames /\ EmitStart(e) \in Frames
           /\ FrameOK(EmitTell(e)) /\ FrameOK(EmitStart(e))
           /\ EmitTell(e).do = "tell" /\ EmitStart(e).do = "start" /\ EmitStart(e).ids = {e}
           /\ EmitTell(e).ids = IF e \in Requests /\ RequestId[e] # NoId
                                THEN CancelledBy(e) ELSE {}
           /\ Put(EmitStart(e), stack) \in Seq(Frames)
           /\ EmitStack(e) = <<EmitTell(e), EmitStart(e)>> \o stack
<1>1. CancelledBy(e) \in SUBSET Ids /\ {e} \in SUBSET Ids /\ "cancelled" \in Ended
  BY DEF CancelledBy, Ids, Ended
<1>2. EmitTell(e) \in Frames /\ EmitStart(e) \in Frames
  BY <1>1, MakeFrame DEF EmitTell, EmitStart
<1>3. FrameOK(EmitTell(e)) /\ FrameOK(EmitStart(e))
  BY <1>1 DEF FrameOK, EmitTell, EmitStart, Frame
<1>4. /\ EmitTell(e).do = "tell" /\ EmitStart(e).do = "start" /\ EmitStart(e).ids = {e}
      /\ EmitTell(e).ids = IF e \in Requests /\ RequestId[e] # NoId THEN CancelledBy(e) ELSE {}
  BY DEF EmitTell, EmitStart, Frame
<1>5. Put(EmitStart(e), stack) \in Seq(Frames)
  BY <1>2, Cons
<1>6. EmitStack(e) = <<EmitTell(e), EmitStart(e)>> \o stack
  BY <1>2, ConsTwo DEF EmitStack
<1>7. QED
  BY <1>2, <1>3, <1>4, <1>5, <1>6

LEMMA EmitStackTypes ==
    ASSUME TypeInv, NEW e \in Ids, stack # <<>>, Head(stack).do = "worker"
    PROVE  /\ EmitStack(e) \in Seq(Frames)
           /\ FramesOK(EmitStack(e)) /\ WorkerFrameOK(EmitStack(e), TRUE)
           /\ worker.busy /\ ~Has(stack, "start")
<1>1. /\ stack \in Seq(Frames) /\ FramesOK(stack) /\ WorkerFrameOK(stack, TRUE) /\ worker.busy
      /\ Head(stack) \in Frames /\ Tail(stack) \in Seq(Frames)
      /\ stack = Put(Head(stack), Tail(stack)) /\ WorkerFrameOK(Tail(stack), FALSE)
  BY Popped, Parts DEF WorkerFrameOK, Workers
<1>2. ~Has(stack, "start")
  <2> DEFINE h == Head(stack)   t == Tail(stack)
  <2>1. h \in Frames /\ t \in Seq(Frames) /\ h.do = "worker" /\ stack = Put(h, t)
        /\ WorkerFrameOK(t, FALSE)
    BY <1>1
  <2> HIDE DEF h, t
  <2>2. Has(Put(h, t), "start") <=> h.do = "start" \/ Has(t, "start")
    BY <2>1, HasCons
  <2>3. QED
    BY <2>1, <2>2 DEF WorkerFrameOK
<1> DEFINE a == EmitTell(e)   b == EmitStart(e)   u == Put(b, stack)
<1>3. /\ a \in Frames /\ b \in Frames /\ FrameOK(a) /\ FrameOK(b)
      /\ a.do = "tell" /\ b.do = "start" /\ u \in Seq(Frames)
  BY <1>1, EmitFrames
<1>4. FramesOK(u) /\ WorkerFrameOK(u, TRUE)
  <2> HIDE DEF a, b
  <2>1. /\ \A what : Has(Put(b, stack), what) <=> b.do = what \/ Has(stack, what)
        /\ \A what : AtMostOne(Put(b, stack), what) <=>
                        AtMostOne(stack, what) /\ (b.do = what => ~Has(stack, what))
        /\ StartsNext(Put(b, stack)) <=> StartsNext(stack) /\ (b.do = "start" => OnWorker(stack))
    BY <1>1, <1>3, HasCons, AtMostOneCons, StartsNextCons
  <2>2. FramesOK(Put(b, stack))
    BY <1>1, <1>3, FramesCons
  <2>3. QED
    BY <1>1, <1>2, <1>3, <2>1, <2>2 DEF WorkerFrameOK, OnWorker
<1> HIDE DEF a, b, u
<1>5. Put(a, u) \in Seq(Frames) /\ FramesOK(Put(a, u)) /\ WorkerFrameOK(Put(a, u), TRUE)
  BY <1>3, <1>4, PlainPush
<1>6. EmitStack(e) = Put(a, u)
  BY DEF EmitStack, a, b, u
<1>7. QED
  BY <1>1, <1>2, <1>5, <1>6

\* The state an emission publishes.
Emitted(e) == [status EXCEPT ![e] = "InProgress"]
EmittedArrival(e) ==
    IF status[e] = "Absent" THEN [arrival EXCEPT ![e] = NextArrival] ELSE arrival
EmitWorker(e) == [worker EXCEPT !.todo = @ \ {e}]

LEMMA EmitShape ==
    ASSUME TypeInv, NEW e \in Ids, EmitEntry(e)
    PROVE  /\ stack # <<>> /\ Head(stack).do = "worker" /\ e \in worker.todo /\ IsNext(e)
           /\ Publish(Emitted(e), EmittedArrival(e), EmitWorker(e), EmitStack(e))
           /\ Emitted(e) \in [Ids -> Statuses] /\ EmittedArrival(e) \in [Ids -> Nat]
           /\ EmitWorker(e) \in Workers /\ EmitWorker(e).busy
           /\ EmitWorker(e).todo = worker.todo \ {e}
           /\ EmitWorker(e).backlog = worker.backlog
           /\ UNCHANGED <<stage, attempt, checker, failures>>
           /\ lost' = IF status[e] = "Absent" THEN lost \cup {e} ELSE lost
<1>1. EmitStack(e) = <<EmitTell(e), EmitStart(e)>> \o stack
  BY EmitFrames, Parts
<1>2. /\ stack # <<>> /\ Head(stack).do = "worker" /\ e \in worker.todo /\ IsNext(e)
      /\ Publish(Emitted(e), EmittedArrival(e), EmitWorker(e), EmitStack(e))
      /\ UNCHANGED <<stage, attempt, checker, failures>>
      /\ lost' = IF status[e] = "Absent" THEN lost \cup {e} ELSE lost
  BY <1>1 DEF EmitEntry, Emitted, EmittedArrival, EmitWorker, EmitTell, EmitStart
<1>3. Emitted(e) \in [Ids -> Statuses] /\ EmittedArrival(e) \in [Ids -> Nat]
  BY Parts, PlacesOfKeys DEF Emitted, EmittedArrival, Statuses
<1>4. /\ EmitWorker(e) \in Workers /\ EmitWorker(e).busy = worker.busy
      /\ EmitWorker(e).todo = worker.todo \ {e} /\ EmitWorker(e).backlog = worker.backlog
  BY Parts DEF EmitWorker, Workers
<1>5. worker.busy
  BY <1>2, EmitStackTypes
<1>6. QED
  BY <1>2, <1>3, <1>4, <1>5

LEMMA EmitEntryTypes ==
    ASSUME TypeInv, NEW e \in Ids, EmitEntry(e)
    PROVE  TypeInv'
<1>1. /\ EmitStack(e) \in Seq(Frames)
      /\ FramesOK(EmitStack(e)) /\ WorkerFrameOK(EmitStack(e), TRUE)
  BY EmitStackTypes, EmitShape
<1>2. EmitWorker(e).busy = TRUE
  BY EmitShape DEF Workers
<1>3. /\ status' \in [Ids -> Statuses] /\ arrival' \in [Ids -> Nat]
      /\ worker' \in Workers /\ stack' \in Seq(Frames)
      /\ FramesOK(stack') /\ WorkerFrameOK(stack', worker'.busy)
      /\ ~worker'.busy => worker' = Idle
  BY <1>1, <1>2, EmitShape, PublishTypes
<1>4. UNCHANGED <<stage, attempt, checker, failures>> /\ lost' \subseteq lost \cup {e}
  BY EmitShape
<1>5. QED
  BY <1>3, <1>4, Parts, PartsAfter

LEMMA NextUpdateTypes == ASSUME TypeInv, NextUpdate PROVE TypeInv'
<1>1. stack # <<>> /\ Head(stack).do = "worker" /\ worker.busy /\ WorkerFrameOK(Tail(stack), FALSE)
      /\ FramesOK(Tail(stack)) /\ Tail(stack) \in Seq(Frames)
  BY Popped DEF NextUpdate
<1>2. UNCHANGED <<status, arrival, stage, attempt, checker, failures, lost>>
  BY DEF NextUpdate
<1>3. CASE worker.backlog = <<>>
  <2>1. worker' = Idle /\ stack' = Tail(stack)
    BY <1>3 DEF NextUpdate
  <2>2. worker' \in Workers /\ worker'.busy = FALSE
    BY <2>1, EmptySeq DEF Idle, Workers
  <2>3. QED
    BY <1>1, <1>2, <2>1, <2>2, Parts, PartsAfter
<1>4. CASE worker.backlog # <<>>
  <2>1. stack' = stack
        /\ worker' = [worker EXCEPT !.todo = Selected(status, arrival, Head(worker.backlog)),
                                    !.place = arrival, !.backlog = Tail(@)]
    BY <1>4 DEF NextUpdate
  <2>2. worker.backlog \in Seq(Nat) /\ Tail(worker.backlog) \in Seq(Nat)
    BY <1>4, Parts, HeadTailProperties DEF Workers
  <2>3. worker' \in Workers /\ worker'.busy = worker.busy
    BY <2>1, <2>2, Parts, SelectedPend DEF Workers
  <2>4. QED
    BY <1>1, <1>2, <2>1, <2>3, Parts, PartsAfter
<1>5. QED
  BY <1>3, <1>4

\* Who is emitted is handed on, fails at once, or is stuck.
LEMMA StartFetchShape ==
    ASSUME TypeInv, NEW i \in Ids, NEW outcome, StartFetch(i, outcome)
    PROVE  /\ stack # <<>> /\ Head(stack).do = "start" /\ Head(stack).ids = {i}
           /\ outcome \in {"sent", "failed", "stuck"}
           /\ Tail(stack) \in Seq(Frames) /\ FramesOK(Tail(stack))
           /\ WorkerFrameOK(Tail(stack), worker.busy)
           /\ stage[i] = "waiting" =>
                 /\ stage' = [stage EXCEPT ![i] = outcome]
                 /\ outcome = "failed" => stack' = EndFrames(i, "failed") \o Tail(stack)
                 /\ outcome # "failed" => stack' = Tail(stack)
           /\ stage[i] # "waiting" => stack' = Tail(stack) /\ stage' = stage
           /\ UNCHANGED <<status, arrival, worker, attempt, checker, failures, lost>>
<1>1. stack # <<>> /\ Head(stack).do = "start" /\ i \in Head(stack).ids
  BY DEF StartFetch
<1>2. /\ FrameOK(Head(stack)) /\ Tail(stack) \in Seq(Frames) /\ FramesOK(Tail(stack))
      /\ WorkerFrameOK(Tail(stack), worker.busy)
  BY <1>1, Popped
<1>3. Head(stack).ids = {i}
  BY <1>1, <1>2 DEF FrameOK
<1>4. /\ outcome \in {"sent", "failed", "stuck"}
      /\ stage[i] = "waiting" =>
            /\ stage' = [stage EXCEPT ![i] = outcome]
            /\ outcome = "failed" => stack' = EndFrames(i, "failed") \o Tail(stack)
            /\ outcome # "failed" => stack' = Tail(stack)
      /\ stage[i] # "waiting" => stack' = Tail(stack) /\ stage' = stage
      /\ UNCHANGED <<status, arrival, worker, attempt, checker, failures, lost>>
  BY DEF StartFetch
<1>5. QED
  BY <1>1, <1>2, <1>3, <1>4

LEMMA StartFetchTypes ==
    ASSUME TypeInv, NEW i \in Ids, NEW outcome, StartFetch(i, outcome)
    PROVE  TypeInv'
<1>1. "failed" \in Ended /\ worker.busy \in BOOLEAN
  BY Parts DEF Ended, Workers
<1>2. stack' \in Seq(Frames) /\ FramesOK(stack') /\ WorkerFrameOK(stack', worker.busy)
  <2>1. stack' = Tail(stack) \/ stack' = EndFrames(i, "failed") \o Tail(stack)
    BY StartFetchShape
  <2>2. /\ EndFrames(i, "failed") \o Tail(stack) \in Seq(Frames)
        /\ FramesOK(EndFrames(i, "failed") \o Tail(stack))
        /\ WorkerFrameOK(EndFrames(i, "failed") \o Tail(stack), worker.busy)
    <3>1. /\ Tail(stack) \in Seq(Frames) /\ FramesOK(Tail(stack))
          /\ WorkerFrameOK(Tail(stack), worker.busy)
      BY StartFetchShape
    <3>2. QED
      BY <1>1, <3>1, EndTypes
  <2>3. QED
    BY <2>1, <2>2, StartFetchShape
<1>3. UNCHANGED <<status, arrival, worker, attempt, checker, failures, lost>>
  BY StartFetchShape
<1>4. /\ stage' \in [Ids -> Stages]
      /\ \A j \in Ids : stage'[j] = "auth" => attempt'[j] = 0
  <2>1. outcome \in Stages \ {"auth"}
    BY StartFetchShape, StagesAre
  <2>2. CASE stage[i] = "waiting"
    BY <1>3, <2>1, <2>2, StartFetchShape, StageAfter
  <2>3. CASE stage[i] # "waiting"
    BY <1>3, <2>3, StartFetchShape, Parts
  <2>4. QED
    BY <2>2, <2>3
<1>5. QED
  BY <1>2, <1>4, <1>3, Parts, PartsAfter

\* What is left of a frame of observers when one of them has been told.
ToldOne(i) == [Head(stack) EXCEPT !.ids = @ \ {i}]

LEMMA TellShape ==
    ASSUME TypeInv, NEW i \in Ids, Tell(i)
    PROVE  /\ stack # <<>> /\ Head(stack).do = "tell" /\ i \in Head(stack).ids
           /\ Head(stack).end \in Ended
           /\ ToldOne(i) \in Frames /\ ToldOne(i).do = "tell"
           /\ ToldOne(i).ids = Head(stack).ids \ {i} /\ ToldOne(i).end = Head(stack).end
           /\ Put(ToldOne(i), Tail(stack)) \in Seq(Frames)
           /\ FramesOK(Put(ToldOne(i), Tail(stack)))
           /\ WorkerFrameOK(Put(ToldOne(i), Tail(stack)), worker.busy)
           /\ IF Live(i)
              THEN /\ stage' = [stage EXCEPT ![i] = Head(stack).end]
                   /\ stack' = EndFrames(i, Head(stack).end) \o Put(ToldOne(i), Tail(stack))
              ELSE stack' = Put(ToldOne(i), Tail(stack)) /\ stage' = stage
           /\ UNCHANGED <<status, arrival, worker, attempt, checker, failures, lost>>
<1>1. stack # <<>> /\ Head(stack).do = "tell" /\ i \in Head(stack).ids
  BY DEF Tell
<1>2. /\ IF Live(i)
         THEN /\ stage' = [stage EXCEPT ![i] = Head(stack).end]
              /\ stack' = EndFrames(i, Head(stack).end) \o Put(ToldOne(i), Tail(stack))
         ELSE stack' = Put(ToldOne(i), Tail(stack)) /\ stage' = stage
      /\ UNCHANGED <<status, arrival, worker, attempt, checker, failures, lost>>
  BY DEF Tell, Put, ToldOne
<1>3. /\ Head(stack) \in Frames /\ FrameOK(Head(stack))
      /\ Tail(stack) \in Seq(Frames) /\ FramesOK(Tail(stack)) /\ worker.busy \in BOOLEAN
      /\ WorkerFrameOK(Tail(stack), worker.busy)
  BY <1>1, Popped, Parts DEF Workers
<1>4. /\ ToldOne(i) \in Frames /\ ToldOne(i).do = "tell"
      /\ ToldOne(i).ids = Head(stack).ids \ {i} /\ ToldOne(i).end = Head(stack).end
  BY <1>1, <1>3 DEF ToldOne, Frames
<1>5. Head(stack).end \in Ended /\ FrameOK(ToldOne(i))
  BY <1>1, <1>3, <1>4 DEF FrameOK
<1>6. /\ Put(ToldOne(i), Tail(stack)) \in Seq(Frames)
      /\ FramesOK(Put(ToldOne(i), Tail(stack)))
      /\ WorkerFrameOK(Put(ToldOne(i), Tail(stack)), worker.busy)
  BY <1>3, <1>4, <1>5, PlainPush
<1>7. QED
  BY <1>1, <1>2, <1>4, <1>5, <1>6

LEMMA TellTypes == ASSUME TypeInv, NEW i \in Ids, Tell(i) PROVE TypeInv'
<1> DEFINE t == Put(ToldOne(i), Tail(stack))
<1>1. /\ t \in Seq(Frames) /\ FramesOK(t) /\ WorkerFrameOK(t, worker.busy)
      /\ worker.busy \in BOOLEAN /\ Head(stack).end \in Ended
      /\ UNCHANGED <<status, arrival, worker, attempt, checker, failures, lost>>
      /\ IF Live(i)
         THEN /\ stage' = [stage EXCEPT ![i] = Head(stack).end]
              /\ stack' = EndFrames(i, Head(stack).end) \o t
         ELSE stack' = t /\ stage' = stage
  BY TellShape, Parts DEF Workers
<1> HIDE DEF t
<1>2. CASE Live(i)
  <2>1. stack' \in Seq(Frames) /\ FramesOK(stack') /\ WorkerFrameOK(stack', worker'.busy)
    BY <1>1, <1>2, EndTypes
  <2>2. /\ stage' \in [Ids -> Stages]
        /\ \A j \in Ids : stage'[j] = "auth" => attempt'[j] = 0
    BY <1>1, <1>2, StagesAre, StageAfter
  <2>3. QED
    BY <1>1, <2>1, <2>2, Parts, PartsAfter
<1>3. CASE ~Live(i)
  BY <1>1, <1>3, Parts, PartsAfter
<1>4. QED
  BY <1>2, <1>3

LEMMA AllToldTypes == ASSUME TypeInv, AllTold PROVE TypeInv'
<1>1. stack # <<>> /\ Head(stack).do = "tell" /\ stack' = Tail(stack)
      /\ UNCHANGED <<status, arrival, worker, stage, attempt, checker, failures, lost>>
  BY DEF AllTold
<1>2. stack' \in Seq(Frames) /\ FramesOK(stack') /\ WorkerFrameOK(stack', worker'.busy)
  BY <1>1, Popped
<1>3. QED
  BY <1>1, <1>2, Parts, PartsAfter

\* The stack of an end: the request leaves what it waits for.
ReleaseOf(i) == Frame("release", {i}, "")
Leaving(i, t) == IF checker[i] = NoId THEN t ELSE Put(ReleaseOf(i), t)

LEMMA LeavingTypes ==
    ASSUME TypeInv, NEW i \in Ids, NEW t \in Seq(Frames), FramesOK(t),
           WorkerFrameOK(t, worker.busy)
    PROVE  /\ Leaving(i, t) \in Seq(Frames) /\ FramesOK(Leaving(i, t))
           /\ WorkerFrameOK(Leaving(i, t), worker.busy)
           /\ ReleaseOf(i) \in Frames /\ ReleaseOf(i).do = "release" /\ ReleaseOf(i).ids = {i}
           /\ checker[i] # NoId => i \in Requests
<1>1. /\ ReleaseOf(i) \in Frames /\ ReleaseOf(i).do = "release"
      /\ ReleaseOf(i).ids = {i}
  <2>1. ReleaseOf(i) \in Frames
    BY DEF ReleaseOf, Frame, Frames
  <2>2. QED
    BY <2>1 DEF ReleaseOf, Frame
<1>2. checker[i] # NoId => i \in Requests
  BY Parts DEF Ids
<1>3. i \in Requests => FrameOK(ReleaseOf(i))
  BY <1>1 DEF FrameOK
<1>4. worker.busy \in BOOLEAN
  BY Parts DEF Workers
<1>5. CASE checker[i] = NoId
  BY <1>1, <1>5 DEF Leaving
<1>6. CASE checker[i] # NoId
  BY <1>1, <1>2, <1>3, <1>4, <1>6, PlainPush DEF Leaving
<1>7. QED
  BY <1>1, <1>2, <1>5, <1>6

\* The teardown does nothing as long as subscribe() has not returned.
LEMMA FinalizeShape ==
    ASSUME TypeInv, NEW i \in Ids, NEW t \in Seq(Frames), FramesOK(t),
           WorkerFrameOK(t, worker.busy), Finalize(i, t)
    PROVE  /\ Returning(i) => stack' = t /\ UNCHANGED <<status, arrival, worker>>
           /\ ~Returning(i) => SetDone(i, Leaving(i, t))
           /\ Leaving(i, t) \in Seq(Frames) /\ FramesOK(Leaving(i, t))
           /\ WorkerFrameOK(Leaving(i, t), worker.busy)
<1>1. /\ Returning(i) => stack' = t /\ UNCHANGED <<status, arrival, worker>>
      /\ ~Returning(i) => SetDone(i, Leaving(i, t))
  BY DEF Finalize, Leaving, Put, ReleaseOf
<1>2. QED
  BY <1>1, LeavingTypes

LEMMA FinalizeTypes ==
    ASSUME TypeInv, NEW i \in Ids, NEW t \in Seq(Frames), FramesOK(t),
           WorkerFrameOK(t, worker.busy), Finalize(i, t)
    PROVE  /\ status' \in [Ids -> Statuses] /\ arrival' \in [Ids -> Nat]
           /\ worker' \in Workers /\ stack' \in Seq(Frames)
           /\ FramesOK(stack') /\ WorkerFrameOK(stack', worker'.busy)
           /\ ~worker'.busy => worker' = Idle
<1>1. CASE Returning(i)
  BY <1>1, FinalizeShape, Parts
<1>2. CASE ~Returning(i)
  BY <1>2, FinalizeShape, SetDoneTypes
<1>3. QED
  BY <1>1, <1>2

LEMMA TeardownShape ==
    ASSUME TypeInv, NEW i \in Ids, Teardown(i)
    PROVE  /\ stack # <<>> /\ Head(stack).do \in {"told", "done"} /\ Head(stack).ids = {i}
           /\ Finalize(i, Tail(stack))
           /\ Tail(stack) \in Seq(Frames) /\ FramesOK(Tail(stack))
           /\ WorkerFrameOK(Tail(stack), worker.busy)
           /\ UNCHANGED <<stage, attempt, checker, failures, lost>>
<1>1. stack # <<>> /\ Head(stack).do \in {"told", "done"} /\ i \in Head(stack).ids
  BY DEF Teardown
<1>2. /\ FrameOK(Head(stack)) /\ Tail(stack) \in Seq(Frames) /\ FramesOK(Tail(stack))
      /\ WorkerFrameOK(Tail(stack), worker.busy)
  BY <1>1, Popped
<1>3. Head(stack).ids = {i}
  BY <1>1, <1>2 DEF FrameOK
<1>4. Finalize(i, Tail(stack)) /\ UNCHANGED <<stage, attempt, checker, failures, lost>>
  BY DEF Teardown
<1>5. QED
  BY <1>1, <1>2, <1>3, <1>4

LEMMA TeardownTypes == ASSUME TypeInv, NEW i \in Ids, Teardown(i) PROVE TypeInv'
<1>1. /\ status' \in [Ids -> Statuses] /\ arrival' \in [Ids -> Nat]
      /\ worker' \in Workers /\ stack' \in Seq(Frames)
      /\ FramesOK(stack') /\ WorkerFrameOK(stack', worker'.busy)
      /\ ~worker'.busy => worker' = Idle
  BY TeardownShape, FinalizeTypes
<1>2. UNCHANGED <<stage, attempt, checker, failures, lost>>
  BY TeardownShape
<1>3. QED
  BY <1>1, <1>2, Parts, PartsAfter

LEMMA ReturnedShape ==
    ASSUME TypeInv, NEW i \in Ids, Returned(i)
    PROVE  /\ stack # <<>> /\ Head(stack).do = "return" /\ Head(stack).ids = {i} /\ i \in Requests
           /\ Tail(stack) \in Seq(Frames) /\ FramesOK(Tail(stack))
           /\ WorkerFrameOK(Tail(stack), worker.busy)
           /\ stage[i] \in Ended => SetDone(i, Tail(stack))
           /\ stage[i] \notin Ended => stack' = Tail(stack) /\ UNCHANGED <<status, arrival, worker>>
           /\ UNCHANGED <<stage, attempt, checker, failures, lost>>
<1>1. stack # <<>> /\ Head(stack).do = "return" /\ i \in Head(stack).ids
  BY DEF Returned
<1>2. /\ FrameOK(Head(stack)) /\ Tail(stack) \in Seq(Frames) /\ FramesOK(Tail(stack))
      /\ WorkerFrameOK(Tail(stack), worker.busy)
  BY <1>1, Popped
<1>3. Head(stack).ids = {i} /\ i \in Requests
  BY <1>1, <1>2 DEF FrameOK
<1>4. /\ stage[i] \in Ended => SetDone(i, Tail(stack))
      /\ stage[i] \notin Ended => stack' = Tail(stack) /\ UNCHANGED <<status, arrival, worker>>
      /\ UNCHANGED <<stage, attempt, checker, failures, lost>>
  BY DEF Returned
<1>5. QED
  BY <1>1, <1>2, <1>3, <1>4

LEMMA ReturnedTypes == ASSUME TypeInv, NEW i \in Ids, Returned(i) PROVE TypeInv'
<1>1. /\ status' \in [Ids -> Statuses] /\ arrival' \in [Ids -> Nat]
      /\ worker' \in Workers /\ stack' \in Seq(Frames)
      /\ FramesOK(stack') /\ WorkerFrameOK(stack', worker'.busy)
      /\ ~worker'.busy => worker' = Idle
  <2>1. CASE stage[i] \in Ended
    BY <2>1, ReturnedShape, SetDoneTypes
  <2>2. CASE stage[i] \notin Ended
    BY <2>2, ReturnedShape, Parts
  <2>3. QED
    BY <2>1, <2>2
<1>2. UNCHANGED <<stage, attempt, checker, failures, lost>>
  BY ReturnedShape
<1>3. QED
  BY <1>1, <1>2, Parts, PartsAfter

\* Nobody but i waits any more for what i waits for.
Abandoned(i) ==
    /\ checker[i] # NoId /\ stage[checker[i]] \in {"waiting", "sent"}
    /\ \A r \in Requests \ {i} : checker[r] # checker[i]

LEMMA ReleaseShape ==
    ASSUME TypeInv, NEW i \in Ids, Release(i)
    PROVE  /\ stack # <<>> /\ Head(stack).do = "release" /\ Head(stack).ids = {i} /\ i \in Requests
           /\ Tail(stack) \in Seq(Frames) /\ FramesOK(Tail(stack))
           /\ WorkerFrameOK(Tail(stack), worker.busy)
           /\ checker' = [checker EXCEPT ![i] = NoId]
           /\ Abandoned(i) => /\ checker[i] \in Checkers /\ checker[i] \in Ids
                              /\ stage' = [stage EXCEPT ![checker[i]] = "dropped"]
                              /\ SetDone(checker[i], Tail(stack))
           /\ ~Abandoned(i) => stack' = Tail(stack) /\ UNCHANGED <<status, arrival, worker, stage>>
           /\ UNCHANGED <<attempt, failures, lost>>
<1>1. stack # <<>> /\ Head(stack).do = "release" /\ i \in Head(stack).ids
  BY DEF Release
<1>2. /\ FrameOK(Head(stack)) /\ Tail(stack) \in Seq(Frames) /\ FramesOK(Tail(stack))
      /\ WorkerFrameOK(Tail(stack), worker.busy)
  BY <1>1, Popped
<1>3. Head(stack).ids = {i} /\ i \in Requests
  BY <1>1, <1>2 DEF FrameOK
<1>4. Abandoned(i) => checker[i] \in Checkers /\ checker[i] \in Ids
  BY Parts DEF Abandoned, Ids
<1>5. /\ checker' = [checker EXCEPT ![i] = NoId]
      /\ UNCHANGED <<attempt, failures, lost>>
  BY DEF Release, Abandoned
<1>6. /\ Abandoned(i) => /\ stage' = [stage EXCEPT ![checker[i]] = "dropped"]
                         /\ SetDone(checker[i], Tail(stack))
      /\ ~Abandoned(i) => stack' = Tail(stack) /\ UNCHANGED <<status, arrival, worker, stage>>
  BY DEF Release, Abandoned
<1>7. QED
  BY <1>1, <1>2, <1>3, <1>4, <1>5, <1>6

LEMMA ReleaseTypes == ASSUME TypeInv, NEW i \in Ids, Release(i) PROVE TypeInv'
<1>1. /\ checker' \in [Ids -> Checkers \cup {NoId}] /\ (\A c \in Checkers : checker'[c] = NoId)
      /\ UNCHANGED <<attempt, failures, lost>>
  <2>1. /\ checker \in [Ids -> Checkers \cup {NoId}] /\ (\A c \in Checkers : checker[c] = NoId)
        /\ Checkers \subseteq Ids
    BY Parts DEF Ids
  <2>2. QED
    BY <2>1, ReleaseShape
<1>2. CASE Abandoned(i)
  <2>1. /\ status' \in [Ids -> Statuses] /\ arrival' \in [Ids -> Nat]
        /\ worker' \in Workers /\ stack' \in Seq(Frames)
        /\ FramesOK(stack') /\ WorkerFrameOK(stack', worker'.busy)
        /\ ~worker'.busy => worker' = Idle
    BY <1>2, ReleaseShape, SetDoneTypes
  <2>2. /\ stage' \in [Ids -> Stages]
        /\ \A j \in Ids : stage'[j] = "auth" => attempt'[j] = 0
    BY <1>2, ReleaseShape, StagesAre, StageAfter
  <2>3. QED
    BY <1>1, <2>1, <2>2, Parts, PartsAfter
<1>3. CASE ~Abandoned(i)
  BY <1>1, <1>3, ReleaseShape, Parts, PartsAfter
<1>4. QED
  BY <1>2, <1>3

\* The stack when a subscription begins.
ReturnOf(r) == Frame("return", {r}, "")

LEMMA ReturnIs ==
    ASSUME NEW r \in Requests
    PROVE  /\ ReturnOf(r) \in Frames /\ ReturnOf(r).do = "return" /\ ReturnOf(r).ids = {r}
           /\ FrameOK(ReturnOf(r)) /\ r \in Ids
<1>1. {r} \in SUBSET Ids /\ r \in Ids
  BY DEF Ids
<1>2. ReturnOf(r) \in Frames /\ ReturnOf(r).do = "return" /\ ReturnOf(r).ids = {r}
  <2>1. ReturnOf(r) \in Frames
    BY <1>1 DEF ReturnOf, Frame, Frames
  <2>2. QED
    BY <2>1 DEF ReturnOf, Frame
<1>3. QED
  BY <1>1, <1>2 DEF FrameOK

LEMMA SubscribeTypes == ASSUME TypeInv, NEW r \in Requests, Subscribe(r) PROVE TypeInv'
<1>1. r \in Ids
  BY DEF Ids
<1>2. /\ Add(r, Put(ReturnOf(r), stack)) /\ stage' = [stage EXCEPT ![r] = "waiting"]
      /\ UNCHANGED <<attempt, checker, failures, lost>>
  BY DEF Subscribe, Put, ReturnOf
<1>3. /\ Put(ReturnOf(r), stack) \in Seq(Frames) /\ FramesOK(Put(ReturnOf(r), stack))
      /\ WorkerFrameOK(Put(ReturnOf(r), stack), worker.busy)
  <2>1. worker.busy \in BOOLEAN /\ stack \in Seq(Frames) /\ FramesOK(stack)
        /\ WorkerFrameOK(stack, worker.busy)
    BY Stacked
  <2>2. QED
    BY <2>1, ReturnIs, PlainPush
<1>4. /\ status' \in [Ids -> Statuses] /\ arrival' \in [Ids -> Nat]
      /\ worker' \in Workers /\ stack' \in Seq(Frames)
      /\ FramesOK(stack') /\ WorkerFrameOK(stack', worker'.busy)
      /\ ~worker'.busy => worker' = Idle
  BY <1>1, <1>2, <1>3, AddTypes
<1>5. stage' \in [Ids -> Stages] /\ \A j \in Ids : stage'[j] = "auth" => attempt'[j] = 0
  BY <1>1, <1>2, StagesAre, StageAfter
<1>6. QED
  BY <1>2, <1>4, <1>5, Parts, PartsAfter

LEMMA UnsubscribeTypes == ASSUME TypeInv, NEW r \in Requests, Unsubscribe(r) PROVE TypeInv'
<1>1. r \in Ids
  BY DEF Ids
<1>2. /\ Finalize(r, stack) /\ stage' = [stage EXCEPT ![r] = "dropped"]
      /\ UNCHANGED <<attempt, checker, failures, lost>>
  BY DEF Unsubscribe
<1>3. /\ status' \in [Ids -> Statuses] /\ arrival' \in [Ids -> Nat]
      /\ worker' \in Workers /\ stack' \in Seq(Frames)
      /\ FramesOK(stack') /\ WorkerFrameOK(stack', worker'.busy)
      /\ ~worker'.busy => worker' = Idle
  BY <1>1, <1>2, FinalizeTypes, Parts
<1>4. stage' \in [Ids -> Stages] /\ \A j \in Ids : stage'[j] = "auth" => attempt'[j] = 0
  BY <1>1, <1>2, StagesAre, StageAfter
<1>5. QED
  BY <1>2, <1>3, <1>4, Parts, PartsAfter

\* A cancellation: those who are in flight are told, and nothing else changes.
LEMMA CancelTypes ==
    ASSUME TypeInv, NEW ids \in SUBSET Ids,
           stack' = <<Frame("tell", ids, "cancelled")>> \o stack,
           UNCHANGED <<status, arrival, worker, stage, attempt, checker, failures, lost>>
    PROVE  TypeInv'
<1> DEFINE a == Frame("tell", ids, "cancelled")
<1>1. a \in Frames /\ a.do = "tell" /\ FrameOK(a)
  <2>1. "cancelled" \in Ended
    BY DEF Ended
  <2>2. a \in Frames
    BY <2>1, MakeFrame
  <2>3. a.do = "tell" /\ a.end = "cancelled"
    BY DEF Frame
  <2> HIDE DEF a
  <2>4. QED
    BY <2>1, <2>2, <2>3 DEF FrameOK
<1>2. stack' = Put(a, stack)
  BY DEF Put
<1> HIDE DEF a
<1>3. stack' \in Seq(Frames) /\ FramesOK(stack') /\ WorkerFrameOK(stack', worker.busy)
  BY <1>1, <1>2, PlainPush, Stacked
<1>4. QED
  BY <1>3, Parts, PartsAfter

LEMMA RespondTypes ==
    ASSUME TypeInv, NEW i \in Ids, NEW end, Respond(i, end) PROVE TypeInv'
<1>1. end \in Ended /\ stack = <<>>
  BY DEF Respond, Ended
<1>2. stack' \in Seq(Frames) /\ FramesOK(stack') /\ WorkerFrameOK(stack', worker.busy)
  <2>1. stack' = EndFrames(i, end) \o stack
    BY <1>1, EndAlone DEF Respond
  <2>2. QED
    BY <1>1, <2>1, EndTypes, Stacked
<1>3. /\ stage' = [stage EXCEPT ![i] = end]
      /\ UNCHANGED <<status, arrival, worker, attempt, checker, failures, lost>>
  BY DEF Respond
<1>4. stage' \in [Ids -> Stages] /\ \A j \in Ids : stage'[j] = "auth" => attempt'[j] = 0
  BY <1>1, <1>3, StagesAre, StageAfter
<1>5. QED
  BY <1>2, <1>3, <1>4, Parts, PartsAfter

LEMMA NotRenewedTypes ==
    ASSUME TypeInv, NEW i \in Ids, NotRenewed(i) PROVE TypeInv'
<1>1. "failed" \in Ended /\ stack = <<>>
  BY DEF NotRenewed, Ended
<1>2. stack' \in Seq(Frames) /\ FramesOK(stack') /\ WorkerFrameOK(stack', worker.busy)
  <2>1. stack' = EndFrames(i, "failed") \o stack
    BY <1>1, EndAlone DEF NotRenewed
  <2>2. QED
    BY <1>1, <2>1, EndTypes, Stacked
<1>3. /\ stage' = [stage EXCEPT ![i] = "failed"]
      /\ UNCHANGED <<status, arrival, worker, attempt, checker, failures, lost>>
  BY DEF NotRenewed
<1>4. stage' \in [Ids -> Stages] /\ \A j \in Ids : stage'[j] = "auth" => attempt'[j] = 0
  BY <1>1, <1>3, StagesAre, StageAfter
<1>5. QED
  BY <1>2, <1>3, <1>4, Parts, PartsAfter

LEMMA RenewedTypes ==
    ASSUME TypeInv, NEW i \in Ids, Renewed(i) PROVE TypeInv'
<1> DEFINE a == Frame("done", {i}, "ok")
<1>1. a \in Frames /\ a.do = "done" /\ FrameOK(a)
  <2>1. {i} \in SUBSET Ids /\ "ok" \in Ended
    BY DEF Ended
  <2>2. a \in Frames
    BY <2>1, MakeFrame
  <2>3. QED
    BY <2>1, <2>2 DEF FrameOK, Frame
<1>2. stack = <<>> /\ stack' = Put(a, stack)
  <2>1. <<a>> \o <<>> = <<a>>
    <3> HIDE DEF a
    <3>1. <<a>> \in Seq(Frames)
      BY <1>1
    <3>2. QED
      BY <3>1, ConcatEmptySeq
  <2>2. QED
    BY <2>1 DEF Renewed, Put
<1> HIDE DEF a
<1>3. stack' \in Seq(Frames) /\ FramesOK(stack') /\ WorkerFrameOK(stack', worker.busy)
  BY <1>1, <1>2, PlainPush, Stacked
<1>4. /\ stage \in [Ids -> Stages] /\ attempt \in [Ids -> {0, 1}]
      /\ checker \in [Ids -> Checkers \cup {NoId}] /\ (\A c \in Checkers : checker[c] = NoId)
      /\ (\A j \in Ids : stage[j] = "auth" => attempt[j] = 0)
      /\ \A j \in Waiters(i) : stage[j] = "auth" /\ checker[j] = i
      /\ i \in Checkers /\ Checkers \subseteq Ids
  <2>1. i \in Checkers
    BY DEF Renewed
  <2>2. \A j \in Waiters(i) : stage[j] = "auth" /\ checker[j] = i
    BY DEF Waiters
  <2>3. Checkers \subseteq Ids
    BY DEF Ids
  <2>4. QED
    BY <2>1, <2>2, <2>3, Parts
<1>5. attempt' \in [Ids -> {0, 1}] /\ \A j \in Ids : stage'[j] = "auth" => attempt'[j] = 0
  <2>1. \A j \in Waiters(i) : j \in Ids => attempt[j] + 1 = 1
    BY <1>4
  <2>2. \A j \in Ids : attempt[j] \in {0, 1}
    BY <1>4
  <2>3. attempt' \in [Ids -> {0, 1}]
    BY <2>1, <2>2 DEF Renewed
  <2>4. \A j \in Ids : stage'[j] = "auth" => stage[j] = "auth" /\ attempt'[j] = attempt[j]
    BY DEF Renewed
  <2>5. QED
    BY <1>4, <2>3, <2>4
<1>6. /\ stage' \in [Ids -> Stages]
      /\ checker' \in [Ids -> Checkers \cup {NoId}] /\ \A c \in Checkers : checker'[c] = NoId
      /\ UNCHANGED <<status, arrival, worker, failures, lost>>
  <2>1. "sent" \in Stages /\ "ok" \in Stages
    BY DEF Stages, Ended
  <2>2. QED
    BY <1>4, <2>1 DEF Renewed
<1>7. QED
  BY <1>3, <1>6, <1>5, Parts, PartsAfter

LEMMA UnauthorizedTypes ==
    ASSUME TypeInv, NEW i \in Ids, NEW c \in Checkers, Unauthorized(i, c) PROVE TypeInv'
<1>1. c \in Ids /\ c \notin Requests /\ i \in Requests
  BY FetchAssumption DEF Ids, Unauthorized
<1>2. /\ checker' \in [Ids -> Checkers \cup {NoId}] /\ \A d \in Checkers : checker'[d] = NoId
      /\ failures' \in 0 .. AuthFailures /\ attempt' = attempt /\ lost' = lost
  <2>1. failures' \in 0 .. AuthFailures
    BY Parts, FetchAssumption DEF Unauthorized
  <2>2. i \notin Checkers
    BY <1>1, FetchAssumption
  <2>3. QED
    BY <2>1, <2>2, Parts DEF Unauthorized, Ids
<1>3. \A j \in Ids : stage'[j] = "auth" => attempt'[j] = 0
  <2>1. \A j \in Ids : j # i => (stage'[j] = "auth" => stage[j] = "auth")
    BY Parts DEF Unauthorized
  <2>2. attempt[i] = 0 /\ attempt' = attempt
    BY DEF Unauthorized
  <2>3. QED
    BY <2>1, <2>2, Parts
<1>4. CASE stage[c] \in {"waiting", "sent"}
  <2>1. stage' = [stage EXCEPT ![i] = "auth"] /\ UNCHANGED <<status, arrival, worker, stack>>
    BY <1>4 DEF Unauthorized
  <2>2. stage' \in [Ids -> Stages]
    BY <2>1, Parts DEF Stages
  <2>3. QED
    BY <1>2, <1>3, <2>1, <2>2, Parts, PartsAfter
<1>5. CASE stage[c] \notin {"waiting", "sent"}
  <2>1. stage' = [stage EXCEPT ![i] = "auth", ![c] = "waiting"] /\ Add(c, stack)
    BY <1>5 DEF Unauthorized
  <2>2. stage' \in [Ids -> Stages]
    BY <2>1, Parts DEF Stages
  <2>3. /\ status' \in [Ids -> Statuses] /\ arrival' \in [Ids -> Nat]
        /\ worker' \in Workers /\ stack' \in Seq(Frames)
        /\ FramesOK(stack') /\ WorkerFrameOK(stack', worker'.busy)
        /\ ~worker'.busy => worker' = Idle
    BY <1>1, <2>1, AddTypes, Parts
  <2>4. QED
    BY <1>2, <1>3, <2>2, <2>3, Parts, PartsAfter
<1>6. QED
  BY <1>4, <1>5

LEMMA NextTypes == ASSUME TypeInv, [Next]_vars PROVE TypeInv'
<1>1. ASSUME EventStep PROVE TypeInv'
  BY <1>1, EmitEntryTypes, TellTypes, TeardownTypes, ReturnedTypes, ReleaseTypes,
     NextUpdateTypes, StartFetchTypes, AllToldTypes DEF EventStep
<1>2. ASSUME Application PROVE TypeInv'
  <2>1. ASSUME CancelAllInFlightRequests PROVE TypeInv'
    BY <2>1, CancelTypes DEF CancelAllInFlightRequests
  <2>2. ASSUME NEW r \in Requests, ResolveCanceler(r) PROVE TypeInv'
    <3>1. {x \in Requests : Live(x) /\ RequestId[x] = RequestId[r]} \in SUBSET Ids
      BY DEF Ids
    <3>2. QED
      BY <2>2, <3>1, CancelTypes DEF ResolveCanceler
  <2>3. QED
    BY <1>2, <2>1, <2>2, SubscribeTypes, UnsubscribeTypes DEF Application
<1>3. ASSUME NEW i \in Ids, Answer(i) PROVE TypeInv'
  BY <1>3, RespondTypes, UnauthorizedTypes, RenewedTypes, NotRenewedTypes DEF Answer
<1>4. ASSUME UNCHANGED vars PROVE TypeInv'
  BY <1>4, Parts, PartsAfter DEF vars
<1>5. QED
  BY <1>1, <1>2, <1>3, <1>4 DEF Next

LEMMA AlwaysTypes == Spec => []TypeInv
<1>1. Init => TypeInv
  BY InitTypes
<1>2. TypeInv /\ [Next]_vars => TypeInv'
  BY NextTypes
<1>3. QED
  BY <1>1, <1>2, PTL DEF Spec

\* Every variable of the request queue, of its worker and of the requests in
\* BackendSrv.fetch stays within its type, whatever consumers do when told.
THEOREM TypeCorrect == Spec => []TypeOK
<1>1. TypeInv => TypeOK
  BY DEF TypeInv
<1>2. QED
  BY <1>1, AlwaysTypes, PTL

-----------------------------------------------------------------------------
(* One request of an id: an invariant of every step *)

LEMMA WorkerFrameIs ==
    WorkerFrame \in Frames /\ WorkerFrame.do = "worker" /\ WorkerFrame.ids = {}
BY DEF WorkerFrame, Frame, Frames

LEMMA WarnedPublish ==
    ASSUME NEW s, NEW ar, NEW wk, NEW stk \in Seq(Frames), Publish(s, ar, wk, stk),
           NEW L, Warned(stk, L)
    PROVE  Warned(stack', L)
<1>1. stack' = stk \/ stack' = Put(WorkerFrame, stk)
  BY PublishCases
<1>2. Warned(Put(WorkerFrame, stk), L)
  BY WorkerFrameIs, WarnedPush
<1>3. QED
  BY <1>1, <1>2

\* Who has ended is not in flight, nor is a checker ever one of them.
LEMMA NotInFlight ==
    /\ InFlight' = {x \in Requests : stage'[x] \in {"sent", "auth"}}
    /\ InFlight = {x \in Requests : stage[x] \in {"sent", "auth"}}
    /\ \A end \in Ended : end \notin {"sent", "auth"}
    /\ \A i \in Ids : Live(i) <=> stage[i] \in {"sent", "auth"}
BY DEF InFlight, Live, Ended

LEMMA FewerInFlight ==
    ASSUME Successors, InFlight' \subseteq InFlight, Warned(stack', InFlight')
    PROVE  Successors'
BY DEF Successors, SameId

LEMMA EndWarned ==
    ASSUME NEW i \in Ids, NEW end \in Ended, NEW t \in Seq(Frames), NEW L, Warned(t, L)
    PROVE  Warned(EndFrames(i, end) \o t, L)
<1> DEFINE told == Frame("told", {i}, end)
           done == Frame("done", {i}, end)
           tell == Frame("tell", Waiters(i), "failed")
<1>1. told \in Frames /\ done \in Frames /\ tell \in Frames
  BY EndsArePut
<1>2. told.do = "told" /\ done.do = "done" /\ tell.do = "tell"
  BY DEF Frame
<1>3. EndFrames(i, end) \o t = IF i \in Requests THEN Put(told, t) ELSE Put(tell, Put(done, t))
  BY EndsArePut
<1> HIDE DEF told, done, tell
<1>4. Warned(Put(told, t), L) /\ Warned(Put(done, t), L) /\ Put(done, t) \in Seq(Frames)
  BY <1>1, <1>2, WarnedPush, Cons
<1> DEFINE u == Put(done, t)
<1> HIDE DEF u
<1>5. Warned(Put(tell, u), L)
  BY <1>1, <1>2, <1>4, WarnedPush DEF u
<1>6. QED
  BY <1>3, <1>4, <1>5 DEF u

LEMMA LeavingWarned ==
    ASSUME TypeInv, NEW i \in Ids, NEW t \in Seq(Frames), NEW L, Warned(t, L)
    PROVE  Warned(Leaving(i, t), L)
<1>1. ReleaseOf(i) \in Frames /\ ReleaseOf(i).do = "release"
  BY DEF ReleaseOf, Frame, Frames
<1>2. Warned(Put(ReleaseOf(i), t), L)
  BY <1>1, WarnedPush
<1>3. QED
  BY <1>2 DEF Leaving

\* The predecessors of what is emitted are all to be told.
LEMMA EmitEntrySuccessors ==
    ASSUME TypeInv, Successors, NEW e \in Ids, EmitEntry(e)
    PROVE  Successors'
<1>1. /\ ~Has(stack, "start") /\ stack \in Seq(Frames)
      /\ EmitTell(e) \in Frames /\ EmitStart(e) \in Frames
      /\ EmitTell(e).do = "tell" /\ EmitStart(e).ids = {e}
      /\ EmitTell(e).ids = IF e \in Requests /\ RequestId[e] # NoId THEN CancelledBy(e) ELSE {}
  BY EmitShape, EmitStackTypes, EmitFrames, Parts
<1>2. e \in Requests => \A x \in InFlight : SameId(x, e) => x = e \/ x \in EmitTell(e).ids
  BY <1>1 DEF InFlight, SameId, CancelledBy
<1>3. Warned(EmitStack(e), InFlight) /\ EmitStack(e) \in Seq(Frames)
  <2> DEFINE a == EmitTell(e)   b == EmitStart(e)
  <2>1. /\ ~Has(stack, "start") /\ stack \in Seq(Frames)
        /\ a \in Frames /\ b \in Frames /\ a.do = "tell" /\ b.ids = {e}
        /\ e \in Requests => \A x \in InFlight : SameId(x, e) => x = e \/ x \in a.ids
    BY <1>1, <1>2
  <2> HIDE DEF a, b
  <2>2. Warned(Put(a, Put(b, stack)), InFlight)
    BY <2>1, WarnedStart
  <2>3. QED
    BY <2>2, EmitShape, EmitStackTypes DEF EmitStack, a, b
<1>4. Publish(Emitted(e), EmittedArrival(e), EmitWorker(e), EmitStack(e)) /\ stage' = stage
  BY EmitShape
<1>5. Warned(stack', InFlight)
  BY <1>3, <1>4, WarnedPublish
<1>6. InFlight' = InFlight
  BY <1>4, NotInFlight
<1>7. QED
  BY <1>5, <1>6, FewerInFlight

LEMMA NextUpdateSuccessors ==
    ASSUME TypeInv, Successors, NextUpdate
    PROVE  Successors'
<1>1. stack # <<>> /\ Head(stack).do = "worker" /\ (stack' = stack \/ stack' = Tail(stack))
      /\ stage' = stage
  BY DEF NextUpdate
<1>2. Head(stack) \in Frames /\ Tail(stack) \in Seq(Frames) /\ stack = Put(Head(stack), Tail(stack))
  BY <1>1, Popped
<1>3. Warned(Tail(stack), InFlight) /\ Warned(stack, InFlight)
  <2>1. Warned(Put(Head(stack), Tail(stack)), InFlight)
    BY <1>2 DEF Successors
  <2>2. QED
    BY <1>1, <1>2, <2>1, WarnedPop DEF Successors
<1>4. InFlight' = InFlight
  BY <1>1, NotInFlight
<1>5. QED
  BY <1>1, <1>3, <1>4, FewerInFlight

\* Who had the id has been told by now.
LEMMA StartFetchSuccessors ==
    ASSUME TypeInv, Successors, NEW e \in Ids, NEW outcome, StartFetch(e, outcome)
    PROVE  Successors'
<1>1. /\ stack # <<>> /\ Head(stack).do = "start"
      /\ stack' = Tail(stack) \/ stack' = EndFrames(e, "failed") \o Tail(stack)
  BY StartFetchShape
<1>2. /\ Head(stack) \in Frames /\ Tail(stack) \in Seq(Frames)
      /\ stack = Put(Head(stack), Tail(stack)) /\ WorkerFrameOK(stack, worker.busy)
  BY <1>1, Popped, Parts
<1>3. Head(stack).ids = {e}
  BY StartFetchShape
<1> DEFINE h == Head(stack)   t == Tail(stack)   u == Put(h, t)
<1>4. Shifted(u, h, t) /\ u = stack
  BY <1>2, Cons
<1>5. ~Has(t, "start")
  <2>1. h \in Frames /\ t \in Seq(Frames) /\ h.do = "start" /\ AtMostOne(u, "start")
    BY <1>1, <1>2 DEF WorkerFrameOK
  <2> HIDE DEF h, t
  <2>2. QED
    BY <2>1, AtMostOneCons
<1>6. \A x \in InFlight : SameId(x, e) /\ e \in Requests => x = e
  <2>1. Warned(u, InFlight) /\ u[1] = h /\ 1 \in Places(u) /\ h.do = "start" /\ h.ids = {e}
        /\ \A k \in Places(u) : k \in Nat /\ k > 0
    <3>1. \A k \in Places(u) : k \in Nat /\ k > 0
      BY <1>4 DEF Shifted, Places
    <3>2. QED
      BY <1>1, <1>3, <1>4, <3>1 DEF Shifted, Successors
  <2> HIDE DEF u, h, t
  <2>2. \A k \in Places(u) : ~(k < 1)
    BY <2>1
  <2>3. QED
    BY <2>1, <2>2 DEF Warned
<1>7. Warned(stack', InFlight')
  <2>1. Warned(Tail(stack), InFlight')
    BY <1>5, WarnedNobody
  <2>2. "failed" \in Ended
    BY DEF Ended
  <2>3. Warned(EndFrames(e, "failed") \o Tail(stack), InFlight')
    BY <1>2, <2>1, <2>2, EndWarned
  <2>4. QED
    BY <1>1, <2>1, <2>3
<1>8. InFlight' \subseteq InFlight \cup {e}
  <2>1. \A x \in Ids \ {e} : stage'[x] = stage[x]
    BY StartFetchShape, Parts
  <2>2. Requests \subseteq Ids
    BY DEF Ids
  <2>3. QED
    BY <2>1, <2>2, NotInFlight
<1>9. \A x, y \in InFlight' : SameId(x, y) => x = y
  BY <1>6, <1>8 DEF Successors, SameId, InFlight
<1>10. QED
  BY <1>7, <1>9 DEF Successors, SameId

LEMMA TellSuccessors ==
    ASSUME TypeInv, Successors, NEW i \in Ids, Tell(i)
    PROVE  Successors'
<1> DEFINE h == Head(stack)   t == Tail(stack)   b == ToldOne(i)
<1>1. /\ stack # <<>> /\ h.do = "tell" /\ b \in Frames /\ b.do = "tell" /\ b.ids = h.ids \ {i}
      /\ h.end \in Ended /\ Put(b, t) \in Seq(Frames)
      /\ IF Live(i) THEN stage' = [stage EXCEPT ![i] = h.end] /\ stack' = EndFrames(i, h.end) \o Put(b, t)
                    ELSE stack' = Put(b, t) /\ stage' = stage
  BY TellShape
<1>2. h \in Frames /\ t \in Seq(Frames) /\ stack = Put(h, t) /\ stage \in [Ids -> Stages]
  BY <1>1, Popped, Parts
<1> HIDE DEF h, t, b
<1>3. InFlight' \subseteq InFlight /\ i \notin InFlight'
  BY <1>1, <1>2, NotInFlight DEF Ids
<1>4. Warned(Put(h, t), InFlight')
  BY <1>2, <1>3, WarnedFewer DEF Successors
<1>5. \A x \in InFlight' : x \in h.ids => x \in b.ids
  BY <1>1, <1>3
<1>6. Warned(Put(b, t), InFlight')
  BY <1>1, <1>2, <1>4, <1>5, WarnedReplace
<1>7. Warned(stack', InFlight')
  BY <1>1, <1>6, EndWarned
<1>8. QED
  BY <1>3, <1>7, FewerInFlight

\* A step that takes a frame other than an observer's from the stack.
LEMMA PopWarned ==
    ASSUME TypeInv, Successors, stack # <<>>,
           Head(stack).do = "tell" => Head(stack).ids = {}
    PROVE  Warned(Tail(stack), InFlight)
<1>1. Head(stack) \in Frames /\ Tail(stack) \in Seq(Frames)
      /\ Warned(Put(Head(stack), Tail(stack)), InFlight)
  BY Popped DEF Successors
<1>2. QED
  BY <1>1, WarnedPop

LEMMA FinalizeWarned ==
    ASSUME TypeInv, NEW i \in Ids, NEW t \in Seq(Frames), NEW L, Warned(t, L),
           FramesOK(t), WorkerFrameOK(t, worker.busy), Finalize(i, t)
    PROVE  Warned(stack', L)
<1>1. Warned(Leaving(i, t), L)
  BY LeavingWarned
<1>2. CASE Returning(i)
  BY <1>2, FinalizeShape
<1>3. CASE ~Returning(i)
  BY <1>1, <1>3, FinalizeShape, WarnedPublish DEF SetDone
<1>4. QED
  BY <1>2, <1>3

LEMMA TeardownSuccessors ==
    ASSUME TypeInv, Successors, NEW i \in Ids, Teardown(i)
    PROVE  Successors'
<1>1. /\ stack # <<>> /\ Head(stack).do \in {"told", "done"} /\ stage' = stage
      /\ Finalize(i, Tail(stack)) /\ Tail(stack) \in Seq(Frames) /\ FramesOK(Tail(stack))
      /\ WorkerFrameOK(Tail(stack), worker.busy)
  BY TeardownShape
<1>2. Warned(stack', InFlight)
  BY <1>1, PopWarned, FinalizeWarned
<1>3. InFlight' = InFlight
  BY <1>1, NotInFlight
<1>4. QED
  BY <1>2, <1>3, FewerInFlight

LEMMA ReturnedSuccessors ==
    ASSUME TypeInv, Successors, NEW i \in Ids, Returned(i)
    PROVE  Successors'
<1>1. /\ stack # <<>> /\ Head(stack).do = "return" /\ stage' = stage
      /\ Tail(stack) \in Seq(Frames)
      /\ stack' = Tail(stack) \/ SetDone(i, Tail(stack))
  BY ReturnedShape
<1>2. Warned(Tail(stack), InFlight)
  BY <1>1, PopWarned
<1>3. Warned(stack', InFlight)
  BY <1>1, <1>2, WarnedPublish DEF SetDone
<1>4. InFlight' = InFlight
  BY <1>1, NotInFlight
<1>5. QED
  BY <1>3, <1>4, FewerInFlight

LEMMA ReleaseSuccessors ==
    ASSUME TypeInv, Successors, NEW i \in Ids, Release(i)
    PROVE  Successors'
<1>1. /\ stack # <<>> /\ Head(stack).do = "release" /\ Tail(stack) \in Seq(Frames)
      /\ Abandoned(i) => /\ checker[i] \in Checkers /\ checker[i] \in Ids
                         /\ stage' = [stage EXCEPT ![checker[i]] = "dropped"]
                         /\ SetDone(checker[i], Tail(stack))
      /\ ~Abandoned(i) => stack' = Tail(stack) /\ stage' = stage
  BY ReleaseShape
<1>2. Warned(Tail(stack), InFlight)
  BY <1>1, PopWarned
<1>3. Warned(stack', InFlight)
  BY <1>1, <1>2, WarnedPublish DEF SetDone
<1>4. InFlight' \subseteq InFlight
  BY <1>1, NotInFlight, FetchAssumption, Parts DEF Ids
<1>5. Warned(stack', InFlight')
  BY <1>3, <1>4, WarnedFewer
<1>6. QED
  BY <1>4, <1>5, FewerInFlight

LEMMA ApplicationSuccessors ==
    ASSUME TypeInv, Successors, Application
    PROVE  Successors'
<1>1. Warned(stack, InFlight) /\ stack \in Seq(Frames) /\ stage \in [Ids -> Stages] /\ Requests \subseteq Ids
  BY Parts DEF Successors, Ids
<1>2. ASSUME NEW r \in Requests, Subscribe(r) PROVE Successors'
  <2>0. Add(r, Put(ReturnOf(r), stack)) /\ Put(ReturnOf(r), stack) \in Seq(Frames)
        /\ Warned(Put(ReturnOf(r), stack), InFlight)
    <3>1. Add(r, Put(ReturnOf(r), stack))
      BY <1>2 DEF Subscribe, Put, ReturnOf
    <3>2. QED
      BY <1>1, <3>1, ReturnIs, Cons, WarnedPush
  <2>1. Warned(stack', InFlight)
    BY <2>0, WarnedPublish DEF Add
  <2>2. InFlight' \subseteq InFlight
    BY <1>1, <1>2, NotInFlight DEF Subscribe
  <2>3. QED
    BY <2>1, <2>2, FewerInFlight, WarnedFewer
<1>3. ASSUME NEW r \in Requests, Unsubscribe(r) PROVE Successors'
  <2>1. Finalize(r, stack) /\ stage' = [stage EXCEPT ![r] = "dropped"] /\ r \in Ids
    BY <1>1, <1>3 DEF Unsubscribe
  <2>3. Warned(stack', InFlight)
    BY <1>1, <2>1, FinalizeWarned, Parts
  <2>4. InFlight' \subseteq InFlight
    BY <1>1, <2>1, NotInFlight
  <2>5. QED
    BY <2>3, <2>4, FewerInFlight, WarnedFewer
<1>4. ASSUME NEW ids \in SUBSET Ids, stack' = <<Frame("tell", ids, "cancelled")>> \o stack, stage' = stage
      PROVE  Successors'
  <2> DEFINE a == Frame("tell", ids, "cancelled")
  <2>1. a \in Frames /\ a.do = "tell" /\ stack' = Put(a, stack)
    <3>1. "cancelled" \in Ended
      BY DEF Ended
    <3>2. a \in Frames
      BY <3>1, MakeFrame
    <3>3. QED
      BY <1>4, <3>2 DEF Frame, Put
  <2> HIDE DEF a
  <2>2. Warned(stack', InFlight)
    BY <1>1, <2>1, WarnedPush
  <2>3. InFlight' = InFlight
    BY <1>4, NotInFlight
  <2>4. QED
    BY <2>2, <2>3, FewerInFlight
<1>5. ASSUME NEW r \in Requests, ResolveCanceler(r) PROVE Successors'
  <2>1. {x \in Requests : Live(x) /\ RequestId[x] = RequestId[r]} \in SUBSET Ids
    BY <1>1
  <2>2. QED
    BY <1>4, <1>5, <2>1 DEF ResolveCanceler
<1>6. ASSUME CancelAllInFlightRequests PROVE Successors'
  BY <1>4, <1>6 DEF CancelAllInFlightRequests
<1>7. QED
  BY <1>2, <1>3, <1>5, <1>6 DEF Application

LEMMA AnswerSuccessors ==
    ASSUME TypeInv, Successors, NEW i \in Ids, Answer(i)
    PROVE  Successors'
<1>1. Warned(stack, InFlight) /\ stack \in Seq(Frames) /\ stage \in [Ids -> Stages] /\ Requests \subseteq Ids
  BY Parts DEF Successors, Ids
<1>2. ASSUME NEW end \in Ended, stack = <<>>, stack' = EndFrames(i, end),
             stage' = [stage EXCEPT ![i] = end]
      PROVE  Successors'
  <2>1. stack' = EndFrames(i, end) \o stack
    BY <1>2, EndAlone
  <2>2. Warned(stack', InFlight)
    BY <1>1, <2>1, EndWarned
  <2>3. InFlight' \subseteq InFlight
    BY <1>1, <1>2, NotInFlight
  <2>4. QED
    BY <2>2, <2>3, FewerInFlight, WarnedFewer
<1>3. ASSUME NEW end \in {"ok", "failed"}, Respond(i, end) PROVE Successors'
  BY <1>2, <1>3 DEF Respond, Ended
<1>4. ASSUME NotRenewed(i) PROVE Successors'
  BY <1>2, <1>4 DEF NotRenewed, Ended
<1>5. ASSUME Renewed(i) PROVE Successors'
  <2>1. stack' = <<Frame("done", {i}, "ok")>> /\ i \in Checkers
    BY <1>5 DEF Renewed
  <2>2. ~Has(stack', "start")
    <3>1. Len(stack') = 1 /\ stack'[1].do = "done"
      BY <2>1 DEF Frame
    <3>2. QED
      BY <3>1 DEF Has, Places
  <2>3. InFlight' \subseteq InFlight
    <3>1. \A x \in Requests : stage'[x] \in {"sent", "auth"} => stage[x] \in {"sent", "auth"}
      BY <1>1, <1>5 DEF Renewed, Waiters
    <3>2. QED
      BY <3>1, NotInFlight
  <2>4. QED
    BY <2>2, <2>3, FewerInFlight, WarnedNobody
<1>6. ASSUME NEW c \in Checkers, Unauthorized(i, c) PROVE Successors'
  <2>1. c \notin Requests /\ c \in Ids /\ i \in Requests /\ stage[i] = "sent"
    BY <1>6, FetchAssumption DEF Unauthorized, Ids
  <2>2. Warned(stack', InFlight)
    BY <1>1, <1>6, WarnedPublish DEF Unauthorized, Add
  <2>3. \A x \in Requests \ {i} : stage'[x] = stage[x]
    BY <1>1, <1>6, <2>1 DEF Unauthorized
  <2>4. InFlight' \subseteq InFlight
    BY <2>1, <2>3, NotInFlight
  <2>5. QED
    BY <2>2, <2>4, FewerInFlight, WarnedFewer
<1>7. QED
  BY <1>3, <1>4, <1>5, <1>6 DEF Answer

LEMMA NextSuccessors == ASSUME TypeInv, Successors, [Next]_vars PROVE Successors'
<1>1. ASSUME EventStep PROVE Successors'
  <2>1. ASSUME AllTold PROVE Successors'
    <3>1. Warned(Tail(stack), InFlight) /\ stack' = Tail(stack) /\ InFlight' = InFlight
      BY <2>1, PopWarned, NotInFlight DEF AllTold
    <3>2. QED
      BY <3>1, FewerInFlight
  <2>2. QED
    BY <1>1, <2>1, EmitEntrySuccessors, TellSuccessors, TeardownSuccessors,
       ReturnedSuccessors, ReleaseSuccessors, NextUpdateSuccessors, StartFetchSuccessors DEF EventStep
<1>2. ASSUME UNCHANGED vars PROVE Successors'
  <2>1. InFlight' = InFlight /\ stack' = stack
    BY <1>2, NotInFlight DEF vars
  <2>2. QED
    BY <2>1, FewerInFlight DEF Successors
<1>3. QED
  BY <1>1, <1>2, ApplicationSuccessors, AnswerSuccessors DEF Next

LEMMA AlwaysSuccessors == Spec => [](TypeInv /\ Successors)
<1>1. Init => Successors
  <2>1. ASSUME Init PROVE InFlight = {}
    BY <2>1, NotInFlight DEF Init, Ids
  <2>2. Init => Warned(stack, InFlight)
    BY EmptyStack, WarnedNobody DEF Init
  <2>3. QED
    BY <2>1, <2>2 DEF Successors
<1>2. TypeInv /\ Successors /\ [Next]_vars => Successors'
  BY NextSuccessors
<1>3. QED
  BY <1>1, <1>2, AlwaysTypes, PTL DEF Spec

\* Between events at most one request of a requestId is in flight, whatever
\* consumers do when they are told of an end.
THEOREM OneInFlightPerRequestId == Spec => []OnePerRequestId
<1>1. Successors => OnePerRequestId
  BY DEF Successors, OnePerRequestId, SameId, InFlight
<1>2. QED
  BY <1>1, AlwaysSuccessors, PTL

-----------------------------------------------------------------------------
(* Nothing waits for nothing *)

\* One of the entries is the first.
LEMMA FirstOf ==
    ASSUME NEW S, S \subseteq Ids, S # {}, NEW ar \in [Ids -> Nat]
    PROVE  \E d \in S : \A f \in S : ar[d] <= ar[f]
<1> DEFINE T == {ar[d] : d \in S}
<1>1. T \subseteq Nat /\ T # {}
  OBVIOUS
<1> HIDE DEF T
<1>2. \E x \in T : \A y \in T : ~(<<y, x>> \in OpToRel(<, Nat))
  BY <1>1, WFMin, NatLessThanWellFounded
<1>3. PICK x \in T : \A y \in T : ~(y < x)
  BY <1>1, <1>2 DEF OpToRel
<1>4. PICK d \in S : x = ar[d]
  BY <1>3 DEF T
<1>5. \A f \in S : ar[d] <= ar[f]
  <2>1. \A f \in S : ar[f] \in T /\ ar[f] \in Nat /\ ar[d] \in Nat
    BY <1>4 DEF T
  <2>2. QED
    BY <1>3, <1>4, <2>1
<1>6. QED
  BY <1>5

\* An update that gives the worker nothing found the slots taken.
LEMMA SelectedNothing ==
    ASSUME NEW s, NEW ar \in [Ids -> Nat], NEW n \in Nat, PendingOf(s) # {},
           Selected(s, ar, n) = {}
    PROVE  n >= MaxParallel
<1> DEFINE api == PendingOf(s) \ DataQueries
           data == PendingOf(s) \cap DataQueries
           ahead(d) == {f \in data : ar[f] < ar[d]}
<1>1. Selected(s, ar, n) =
         api \cup {d \in data : Cardinality(ahead(d)) < MaxParallel - n - Cardinality(api)}
  BY DEF Selected
<1>2. api = {} /\ data # {} /\ data \subseteq Ids
  BY <1>1 DEF PendingOf
<1>3. PICK d \in data : \A f \in data : ar[d] <= ar[f]
  BY <1>2, FirstOf
<1>4. ahead(d) = {}
  <2>1. \A f \in data : ar[f] \in Nat /\ ar[d] \in Nat
    BY <1>2
  <2>2. QED
    BY <1>3, <2>1
<1>5. Cardinality(ahead(d)) = 0 /\ Cardinality(api) = 0
  BY <1>2, <1>4, FS_EmptySet
<1>6. ~(0 < MaxParallel - n - 0)
  BY <1>1, <1>3, <1>5
<1>7. QED
  BY <1>6, FetchAssumption

\* Whoever publishes an update leaves nothing to wait for nothing.
LEMMA PublishWaiting ==
    ASSUME NEW s \in [Ids -> Statuses], NEW ar \in [Ids -> Nat], NEW wk \in Workers, NEW stk,
           Publish(s, ar, wk, stk)
    PROVE  Waiting'
<1>1. status' = s /\ InProgressOf(s) \in Nat
  BY PublishCases, InProgressIsNat
<1>2. CASE PendingOf(s) = {}
  BY <1>1, <1>2 DEF Waiting
<1>3. CASE /\ wk.busy
           /\ worker' = [wk EXCEPT !.backlog = Append(@, InProgressOf(s))]
  <2> DEFINE b == wk.backlog   n == InProgressOf(s)
  <2>1. worker'.busy /\ worker'.backlog = Append(b, n) /\ b \in Seq(Nat)
    BY <1>3 DEF Workers
  <2>2. /\ Append(b, n) # <<>> /\ Append(b, n)[Len(Append(b, n))] = n
    <3>1. n \in Nat /\ b \in Seq(Nat)
      BY <1>1, <2>1
    <3> HIDE DEF b, n
    <3>2. Len(Append(b, n)) = Len(b) + 1 /\ Append(b, n)[Len(b) + 1] = n /\ Len(b) \in Nat
      BY <3>1, AppendProperties
    <3>3. Len(<<>>) = 0
      BY EmptySeq
    <3>4. QED
      BY <3>2, <3>3
  <2>3. QED
    BY <1>1, <2>1, <2>2 DEF Waiting
<1>4. CASE worker' = Taken(s, ar)
  <2>0. /\ worker'.busy /\ worker'.todo = Selected(s, ar, InProgressOf(s))
        /\ worker'.backlog = <<>>
    BY <1>4 DEF Taken
  <2>1. \A i \in PendingOf(s) \ DataQueries : i \in worker'.todo
    BY <2>0 DEF Selected
  <2>2. PendingOf(s) # {} /\ worker'.todo = {} => InProgressOf(s) >= MaxParallel
    BY <1>1, <2>0, SelectedNothing
  <2>3. QED
    BY <1>1, <2>0, <2>1, <2>2 DEF Waiting
<1>5. QED
  BY <1>2, <1>3, <1>4, PublishCases

LEMMA NextUpdateWaiting ==
    ASSUME TypeInv, Waiting, NextUpdate
    PROVE  Waiting'
<1>1. /\ worker.todo = {} /\ status' = status /\ worker \in Workers
      /\ worker.busy /\ arrival \in [Ids -> Nat] /\ worker.backlog \in Seq(Nat)
  BY Popped, Parts DEF NextUpdate, Workers
<1>2. CASE worker.backlog = <<>>
  <2>1. worker' = Idle
    BY <1>2 DEF NextUpdate
  <2>2. PendingOf(status) \ DataQueries = {}
    BY <1>1, <1>2 DEF Waiting
  <2>3. PendingOf(status) # {} => InProgressOf(status) >= MaxParallel
    BY <1>1, <1>2 DEF Waiting
  <2>4. QED
    BY <1>1, <2>1, <2>2, <2>3 DEF Waiting, Idle
<1>3. CASE worker.backlog # <<>>
  <2> DEFINE b == worker.backlog
  <2>1. /\ worker'.busy /\ worker'.todo = Selected(status, arrival, Head(b))
        /\ worker'.backlog = Tail(b)
    BY <1>1, <1>3 DEF NextUpdate, Workers
  <2>2. \A i \in PendingOf(status) \ DataQueries : i \in worker'.todo
    BY <2>1 DEF Selected
  <2>3. PendingOf(status) # {} => b[Len(b)] = InProgressOf(status)
    BY <1>3 DEF Waiting
  <2>4. /\ Head(b) \in Nat /\ Len(b) \in Nat \ {0} /\ Len(Tail(b)) = Len(b) - 1
        /\ Tail(b) # <<>> => Tail(b)[Len(Tail(b))] = b[Len(b)]
        /\ Tail(b) = <<>> => Head(b) = b[Len(b)]
    <3>1. b \in Seq(Nat) /\ b # <<>>
      BY <1>1, <1>3
    <3> HIDE DEF b
    <3>2. /\ Head(b) \in Nat /\ Tail(b) \in Seq(Nat) /\ Len(Tail(b)) = Len(b) - 1
          /\ \A k \in 1 .. Len(Tail(b)) : Tail(b)[k] = b[k + 1]
          /\ Len(b) \in Nat \ {0} /\ Head(b) = b[1]
      BY <3>1, HeadTailProperties, EmptySeq
    <3>3. Tail(b) # <<>> => Len(Tail(b)) \in 1 .. Len(Tail(b))
      BY <3>2, EmptySeq
    <3>4. Tail(b) = <<>> => Len(b) = 1
      BY <3>2, EmptySeq
    <3>5. QED
      BY <3>2, <3>3, <3>4
  <2>5. PendingOf(status) # {} /\ worker'.todo = {} /\ Tail(b) = <<>> =>
           InProgressOf(status) >= MaxParallel
    BY <1>1, <2>1, <2>3, <2>4, SelectedNothing
  <2>6. QED
    BY <1>1, <2>1, <2>2, <2>3, <2>4, <2>5 DEF Waiting
<1>4. QED
  BY <1>2, <1>3

LEMMA NextWaiting == ASSUME TypeInv, Waiting, [Next]_vars PROVE Waiting'
<1>1. ASSUME UNCHANGED <<status, worker>> PROVE Waiting'
  BY <1>1 DEF Waiting
<1>2. ASSUME NEW i \in Ids, NEW stk, Add(i, stk) PROVE Waiting'
  <2>1. /\ [status EXCEPT ![i] = "Pending"] \in [Ids -> Statuses]
        /\ [arrival EXCEPT ![i] = NextArrival] \in [Ids -> Nat] /\ worker \in Workers
    BY Parts, PlacesOfKeys DEF Statuses
  <2>2. QED
    BY <1>2, <2>1, PublishWaiting DEF Add
<1>3. ASSUME NEW i \in Ids, NEW stk, SetDone(i, stk) PROVE Waiting'
  <2>1. /\ [status EXCEPT ![i] = "Absent"] \in [Ids -> Statuses]
        /\ ArrivalWithout(i) \in [Ids -> Nat] /\ worker \in Workers
    BY Parts, PlacesOfKeys DEF Statuses
  <2>2. QED
    BY <1>3, <2>1, PublishWaiting DEF SetDone
<1>4. Requests \subseteq Ids /\ Checkers \subseteq Ids
  BY DEF Ids
<1>5. ASSUME EventStep PROVE Waiting'
  <2>1. ASSUME NEW e \in Ids, EmitEntry(e) PROVE Waiting'
    BY <2>1, EmitShape, PublishWaiting
  <2>2. ASSUME NEW e \in Ids, Tell(e) PROVE Waiting'
    BY <1>1, <2>2 DEF Tell
  <2>3. ASSUME NEW e \in Ids, Teardown(e) \/ Returned(e) PROVE Waiting'
    BY <1>1, <1>3, <2>3 DEF Teardown, Returned, Finalize
  <2>4. ASSUME NEW e \in Ids, Release(e) PROVE Waiting'
    BY <1>1, <1>3, <2>4, ReleaseShape
  <2>5. ASSUME AllTold PROVE Waiting'
    BY <1>1, <2>5 DEF AllTold
  <2>6. ASSUME NEW e \in Ids, NEW outcome, StartFetch(e, outcome) PROVE Waiting'
    BY <1>1, <2>6 DEF StartFetch
  <2>7. QED
    BY <1>5, <2>1, <2>2, <2>3, <2>4, <2>5, <2>6, NextUpdateWaiting DEF EventStep
<1>6. ASSUME Application PROVE Waiting'
  <2>1. ASSUME NEW r \in Requests, Subscribe(r) \/ Unsubscribe(r) PROVE Waiting'
    BY <1>1, <1>2, <1>3, <1>4, <2>1 DEF Subscribe, Unsubscribe, Finalize
  <2>2. ASSUME NEW r \in Requests, ResolveCanceler(r) PROVE Waiting'
    BY <1>1, <2>2 DEF ResolveCanceler
  <2>3. ASSUME CancelAllInFlightRequests PROVE Waiting'
    BY <1>1, <2>3 DEF CancelAllInFlightRequests
  <2>4. QED
    BY <1>6, <2>1, <2>2, <2>3 DEF Application
<1>7. ASSUME NEW i \in Ids, Answer(i) PROVE Waiting'
  <2>1. ASSUME NEW c \in Checkers, Unauthorized(i, c) PROVE Waiting'
    BY <1>1, <1>2, <1>4, <2>1 DEF Unauthorized
  <2>2. ASSUME NEW end \in {"ok", "failed"}, Respond(i, end) PROVE Waiting'
    BY <1>1, <2>2 DEF Respond
  <2>3. ASSUME Renewed(i) \/ NotRenewed(i) PROVE Waiting'
    BY <1>1, <2>3 DEF Renewed, NotRenewed
  <2>4. QED
    BY <1>7, <2>1, <2>2, <2>3 DEF Answer
<1>8. QED
  BY <1>1, <1>5, <1>6, <1>7 DEF Next, vars

LEMMA AlwaysWaiting == Spec => [](TypeInv /\ Waiting)
<1>1. Init => Waiting
  BY DEF Init, Waiting, PendingOf, Idle
<1>2. TypeInv /\ Waiting /\ [Next]_vars => Waiting'
  BY NextWaiting
<1>3. QED
  BY <1>1, <1>2, AlwaysTypes, PTL DEF Spec

\* Between events no API request waits, and a data request waits only while
\* every slot is taken, whatever consumers do when they are told of an end.
THEOREM NothingWaits == Spec => []NothingWaitsForNothing
<1>1. TypeInv /\ Waiting => NothingWaitsForNothing
  <2>1. ASSUME TypeInv, Waiting, Quiet PROVE worker = Idle
    BY <2>1, QuietIsIdle DEF Quiet
  <2>2. QED
    BY <2>1 DEF Waiting, NothingWaitsForNothing, Idle
<1>2. QED
  BY <1>1, AlwaysWaiting, PTL

-----------------------------------------------------------------------------
(* Slots are held by exactly those who need them *)

LEMMA FramesOfCons ==
    ASSUME NEW t \in Seq(Frames), NEW a \in Frames, NEW i
    PROVE  FramesOf(Put(a, t), i) <=>
              /\ FramesOf(t, i)
              /\ i \in a.ids /\ a.do \in {"told", "done"} => ~Owed(t, i)
              /\ i \in a.ids /\ a.do = "return" => ~Owed(t, i) /\ ~Returns(t, i)
<1> DEFINE u == Put(a, t)
<1>1. Shifted(u, a, t)
  BY Cons
<1> HIDE DEF u
<1>2. \A k \in Places(t) : k + 1 \in Places(u) /\ u[k + 1] = t[k] /\ k \in Nat /\ k > 0
  BY <1>1 DEF Shifted
<1>3. \A k \in Places(u) : k = 1 \/ (k - 1 \in Places(t) /\ u[k] = t[k - 1])
  BY <1>1 DEF Shifted
<1>4. 1 \in Places(u) /\ u[1] = a /\ \A k \in Places(u) : k \in Nat /\ k > 0
  BY <1>1 DEF Shifted, Places
<1> DEFINE Is(f) == f.do \in {"told", "done"} /\ i \in f.ids
           Ret(f) == f.do = "return" /\ i \in f.ids
           All(w) == \A j, k \in Places(w) : /\ Is(w[j]) /\ Is(w[k]) => j = k
                                             /\ (Is(w[j]) \/ Ret(w[j])) /\ Ret(w[k]) => j <= k
<1>5. \A w : FramesOf(w, i) <=> All(w)
  BY DEF FramesOf
<1>6. /\ Owed(t, i) <=> \E k \in Places(t) : Is(t[k])
      /\ Returns(t, i) <=> \E k \in Places(t) : Ret(t[k])
  BY DEF Owed, Returns, About
<1> HIDE DEF Is, Ret
<1>7. ASSUME All(u)
      PROVE  /\ All(t) /\ (Is(a) => ~Owed(t, i))
             /\ Ret(a) => ~Owed(t, i) /\ ~Returns(t, i)
  <2>1. All(t)
    <3> SUFFICES ASSUME NEW j \in Places(t), NEW k \in Places(t)
                 PROVE  /\ Is(t[j]) /\ Is(t[k]) => j = k
                        /\ (Is(t[j]) \/ Ret(t[j])) /\ Ret(t[k]) => j <= k
      OBVIOUS
    <3>1. /\ Is(t[j]) /\ Is(t[k]) => j + 1 = k + 1
          /\ (Is(t[j]) \/ Ret(t[j])) /\ Ret(t[k]) => j + 1 <= k + 1
      BY <1>2, <1>7
    <3>2. QED
      BY <1>2, <3>1
  <2>2. ASSUME NEW k \in Places(t), Is(a), Is(t[k]) PROVE FALSE
    <3>1. k + 1 = 1
      BY <1>2, <1>4, <1>7, <2>2
    <3>2. QED
      BY <3>1, <1>2
  <2>3. ASSUME NEW k \in Places(t), Ret(a), Is(t[k]) \/ Ret(t[k]) PROVE FALSE
    <3>1. k + 1 <= 1
      BY <1>2, <1>4, <1>7, <2>3
    <3>2. QED
      BY <3>1, <1>2
  <2>4. QED
    BY <1>6, <2>1, <2>2, <2>3
<1>8. ASSUME All(t), Is(a) => ~Owed(t, i), Ret(a) => ~Owed(t, i) /\ ~Returns(t, i),
             NEW j \in Places(u), NEW k \in Places(u)
      PROVE  /\ Is(u[j]) /\ Is(u[k]) => j = k
             /\ (Is(u[j]) \/ Ret(u[j])) /\ Ret(u[k]) => j <= k
  <2>1. CASE j = 1 /\ k = 1
    BY <2>1
  <2>2. CASE j = 1 /\ k # 1
    <3>1. k - 1 \in Places(t) /\ u[k] = t[k - 1] /\ u[j] = a /\ k > 0 /\ k \in Nat
      BY <1>3, <1>4, <2>2
    <3>2. Is(a) => ~Is(t[k - 1])
      BY <1>6, <1>8, <3>1
    <3>3. QED
      BY <2>2, <3>1, <3>2
  <2>3. CASE j # 1 /\ k = 1
    <3>1. j - 1 \in Places(t) /\ u[j] = t[j - 1] /\ u[k] = a
      BY <1>3, <1>4, <2>3
    <3>2. (Is(a) => ~Is(t[j - 1])) /\ (Ret(a) => ~Is(t[j - 1]) /\ ~Ret(t[j - 1]))
      BY <1>6, <1>8, <3>1
    <3>3. QED
      BY <3>1, <3>2
  <2>4. CASE j # 1 /\ k # 1
    <3>1. /\ j - 1 \in Places(t) /\ u[j] = t[j - 1] /\ k - 1 \in Places(t) /\ u[k] = t[k - 1]
          /\ j \in Nat /\ k \in Nat
      BY <1>3, <1>4, <2>4
    <3>2. /\ Is(t[j - 1]) /\ Is(t[k - 1]) => j - 1 = k - 1
          /\ (Is(t[j - 1]) \/ Ret(t[j - 1])) /\ Ret(t[k - 1]) => j - 1 <= k - 1
      BY <1>8, <3>1
    <3>3. QED
      BY <3>1, <3>2
  <2>5. QED
    BY <2>1, <2>2, <2>3, <2>4
<1>9. All(u) <=> All(t) /\ (Is(a) => ~Owed(t, i)) /\ (Ret(a) => ~Owed(t, i) /\ ~Returns(t, i))
  BY <1>7, <1>8
<1>10. QED
  BY <1>5, <1>9 DEF Is, Ret, u

LEMMA CalmCons ==
    ASSUME NEW t \in Seq(Frames), NEW a \in Frames
    PROVE  Calm(Put(a, t)) <=>
              /\ a.do \in {"worker", "start"} \/ (a.do = "tell" /\ a.ids = {})
              /\ Calm(t)
<1>1. Shifted(Put(a, t), a, t)
  BY Cons
<1>2. QED
  BY <1>1 DEF Shifted, Calm

LEMMA WorkAboveCons ==
    ASSUME NEW t \in Seq(Frames), NEW a \in Frames
    PROVE  WorkAbove(Put(a, t)) <=> WorkAbove(t) /\ (a.do = "return" => ~Has(t, "worker"))
<1> DEFINE u == Put(a, t)
<1>1. Shifted(u, a, t)
  BY Cons
<1> HIDE DEF u
<1>2. \A k \in Places(t) : k + 1 \in Places(u) /\ u[k + 1] = t[k] /\ k \in Nat /\ k > 0
  BY <1>1 DEF Shifted
<1>3. \A k \in Places(u) : k = 1 \/ (k - 1 \in Places(t) /\ u[k] = t[k - 1])
  BY <1>1 DEF Shifted
<1>4. 1 \in Places(u) /\ u[1] = a /\ \A k \in Places(u) : k \in Nat /\ k > 0
  BY <1>1 DEF Shifted, Places
<1>5. ASSUME WorkAbove(u) PROVE WorkAbove(t) /\ (a.do = "return" => ~Has(t, "worker"))
  <2>1. ASSUME NEW j \in Places(t), NEW k \in Places(t), t[j].do = "return", t[k].do = "worker"
        PROVE  k < j
    <3>1. k + 1 < j + 1
      BY <1>2, <1>5, <2>1 DEF WorkAbove
    <3>2. QED
      BY <1>2, <3>1
  <2>2. ASSUME NEW k \in Places(t), a.do = "return", t[k].do = "worker" PROVE FALSE
    <3>1. k + 1 < 1
      BY <1>2, <1>4, <1>5, <2>2 DEF WorkAbove
    <3>2. QED
      BY <1>2, <3>1
  <2>3. QED
    BY <2>1, <2>2 DEF WorkAbove, Has
<1>6. ASSUME WorkAbove(t), a.do = "return" => ~Has(t, "worker"),
             NEW j \in Places(u), NEW k \in Places(u), u[j].do = "return", u[k].do = "worker"
      PROVE  k < j
  <2>1. CASE j = 1
    <3>1. k # 1
      BY <1>4, <1>6, <2>1
    <3>2. QED
      BY <1>3, <1>4, <1>6, <2>1, <3>1 DEF Has
  <2>2. CASE j # 1 /\ k = 1
    BY <1>4, <2>2
  <2>3. CASE j # 1 /\ k # 1
    <3>1. /\ j - 1 \in Places(t) /\ u[j] = t[j - 1] /\ k - 1 \in Places(t) /\ u[k] = t[k - 1]
          /\ j \in Nat /\ k \in Nat
      BY <1>3, <1>4, <2>3
    <3>2. k - 1 < j - 1
      BY <1>6, <3>1 DEF WorkAbove
    <3>3. QED
      BY <3>1, <3>2
  <2>4. QED
    BY <2>1, <2>2, <2>3
<1>7. QED
  BY <1>5, <1>6 DEF WorkAbove, u

\* The two stacks say the same of every request.
SameAbout(u, t) ==
    \A i \in Ids : /\ Owed(u, i) <=> Owed(t, i)
                   /\ Starting(u, i) <=> Starting(t, i)
                   /\ Returns(u, i) <=> Returns(t, i)
                   /\ FramesOf(u, i) <=> FramesOf(t, i)

\* What a frame more says.
LEMMA PutAbout ==
    ASSUME NEW t \in Seq(Frames), NEW a \in Frames, NEW i
    PROVE  /\ Owed(Put(a, t), i) <=> (a.do \in {"told", "done"} /\ i \in a.ids) \/ Owed(t, i)
           /\ Starting(Put(a, t), i) <=> (a.do = "start" /\ i \in a.ids) \/ Starting(t, i)
           /\ Returns(Put(a, t), i) <=> (a.do = "return" /\ i \in a.ids) \/ Returns(t, i)
           /\ FramesOf(Put(a, t), i) <=>
                 /\ FramesOf(t, i)
                 /\ i \in a.ids /\ a.do \in {"told", "done"} => ~Owed(t, i)
                 /\ i \in a.ids /\ a.do = "return" => ~Owed(t, i) /\ ~Returns(t, i)
<1>1. /\ About(Put(a, t), i, {"told", "done"}) <=>
            (a.do \in {"told", "done"} /\ i \in a.ids) \/ About(t, i, {"told", "done"})
      /\ About(Put(a, t), i, {"start"}) <=> (a.do \in {"start"} /\ i \in a.ids) \/ About(t, i, {"start"})
      /\ About(Put(a, t), i, {"return"}) <=> (a.do \in {"return"} /\ i \in a.ids) \/ About(t, i, {"return"})
  BY AboutCons
<1>2. a.do \in {"start"} <=> a.do = "start"
  OBVIOUS
<1>3. a.do \in {"return"} <=> a.do = "return"
  OBVIOUS
<1>4. QED
  BY <1>1, <1>2, <1>3, FramesOfCons DEF Owed, Starting, Returns

LEMMA PlainAbout ==
    ASSUME NEW t \in Seq(Frames), NEW a \in Frames, a.do \in {"worker", "tell", "release"}
    PROVE  SameAbout(Put(a, t), t)
<1>1. a.do \notin {"told", "done"} /\ a.do # "start" /\ a.do # "return"
  OBVIOUS
<1>2. QED
  BY <1>1, PutAbout DEF SameAbout

LEMMA SameTwice ==
    ASSUME NEW t, NEW u, NEW v, SameAbout(u, t), SameAbout(v, u)
    PROVE  SameAbout(v, t) /\ SameAbout(t, u) /\ SameAbout(t, t)
BY DEF SameAbout

LEMMA PublishAbout ==
    ASSUME NEW s, NEW ar, NEW wk, NEW stk \in Seq(Frames), Publish(s, ar, wk, stk)
    PROVE  SameAbout(stack', stk)
<1>1. stack' = stk \/ stack' = Put(WorkerFrame, stk)
  BY PublishCases
<1>2. SameAbout(Put(WorkerFrame, stk), stk) /\ SameAbout(stk, stk)
  BY WorkerFrameIs, PlainAbout DEF SameAbout
<1>3. QED
  BY <1>1, <1>2

LEMMA LeavingAbout ==
    ASSUME NEW i \in Ids, NEW t \in Seq(Frames)
    PROVE  SameAbout(Leaving(i, t), t)
<1>1. ReleaseOf(i) \in Frames /\ ReleaseOf(i).do = "release"
  BY DEF ReleaseOf, Frame, Frames
<1>2. SameAbout(Put(ReleaseOf(i), t), t) /\ SameAbout(t, t)
  BY <1>1, PlainAbout DEF SameAbout
<1>3. QED
  BY <1>2 DEF Leaving

\* Of who ends it is owed that its entry goes, once.
LEMMA EndAbout ==
    ASSUME NEW i \in Ids, NEW end \in Ended, NEW t \in Seq(Frames), ~Owed(t, i)
    PROVE  \A j \in Ids :
              /\ Owed(EndFrames(i, end) \o t, j) <=> j = i \/ Owed(t, j)
              /\ Starting(EndFrames(i, end) \o t, j) <=> Starting(t, j)
              /\ Returns(EndFrames(i, end) \o t, j) <=> Returns(t, j)
              /\ FramesOf(EndFrames(i, end) \o t, j) <=> FramesOf(t, j)
<1> DEFINE told == Frame("told", {i}, end)
           done == Frame("done", {i}, end)
           tell == Frame("tell", Waiters(i), "failed")
<1>1. told \in Frames /\ done \in Frames /\ tell \in Frames
  BY EndsArePut
<1>2. /\ told.do = "told" /\ done.do = "done" /\ tell.do = "tell"
      /\ told.ids = {i} /\ done.ids = {i}
  BY DEF Frame
<1>3. EndFrames(i, end) \o t = IF i \in Requests THEN Put(told, t) ELSE Put(tell, Put(done, t))
  BY EndsArePut
<1> HIDE DEF told, done, tell
<1>4. ASSUME NEW a \in Frames, a.do \in {"told", "done"}, a.ids = {i}, NEW j \in Ids
      PROVE  /\ Owed(Put(a, t), j) <=> j = i \/ Owed(t, j)
             /\ Starting(Put(a, t), j) <=> Starting(t, j)
             /\ Returns(Put(a, t), j) <=> Returns(t, j)
             /\ FramesOf(Put(a, t), j) <=> FramesOf(t, j)
  <2>1. a.do # "start" /\ a.do # "return" /\ (j \in a.ids <=> j = i)
    BY <1>4
  <2>2. QED
    BY <1>4, <2>1, PutAbout
<1>5. CASE i \in Requests
  BY <1>1, <1>2, <1>3, <1>4, <1>5
<1>6. CASE i \notin Requests
  <2> DEFINE u == Put(done, t)
  <2>1. u \in Seq(Frames)
    BY <1>1, Cons
  <2>2. \A j \in Ids : /\ Owed(u, j) <=> j = i \/ Owed(t, j)
                       /\ Starting(u, j) <=> Starting(t, j)
                       /\ Returns(u, j) <=> Returns(t, j)
                       /\ FramesOf(u, j) <=> FramesOf(t, j)
    BY <1>1, <1>2, <1>4
  <2> HIDE DEF u
  <2>3. SameAbout(Put(tell, u), u)
    BY <1>1, <1>2, <2>1, PlainAbout
  <2>4. EndFrames(i, end) \o t = Put(tell, u)
    BY <1>3, <1>6 DEF u
  <2>5. QED
    BY <2>2, <2>3, <2>4 DEF SameAbout
<1>7. QED
  BY <1>5, <1>6

LEMMA EmptyAbout ==
    /\ \A i : /\ ~Owed(<<>>, i) /\ ~Starting(<<>>, i) /\ ~Returns(<<>>, i)
              /\ FramesOf(<<>>, i)
    /\ Calm(<<>>) /\ WorkAbove(<<>>)
<1>1. Places(<<>>) = {}
  BY EmptySeq DEF Places
<1>2. QED
  BY <1>1 DEF Owed, Starting, Returns, FramesOf, About, Calm, WorkAbove

\* Nothing is about to start when the stack holds no such frame.
LEMMA StartingHas ==
    ASSUME NEW t, ~Has(t, "start")
    PROVE  \A i : ~Starting(t, i)
BY DEF Starting, About, Has

LEMMA ReturningIs == \A i : Returning(i) <=> Returns(stack, i)
BY DEF Returning, Returns, About, Places

\* Who called subscribe() is a request.
LEMMA ReturnsRequests ==
    ASSUME NEW t, FramesOK(t), NEW i, Returns(t, i)
    PROVE  i \in Requests
BY DEF FramesOK, FrameOK, Returns, About

-----------------------------------------------------------------------------
(* The worker is above the calls of subscribe() *)

LEMMA TailPut ==
    ASSUME NEW t \in Seq(Frames), NEW a \in Frames
    PROVE  Tail(Put(a, t)) = t
<1> DEFINE u == Put(a, t)
<1>1. u \in Seq(Frames) /\ u # <<>> /\ Len(u) = Len(t) + 1 /\ Len(t) \in Nat /\ Shifted(u, a, t)
  BY Cons
<1> HIDE DEF u
<1>2. /\ Tail(u) \in Seq(Frames) /\ Len(Tail(u)) = Len(u) - 1
      /\ \A i \in 1 .. Len(Tail(u)) : Tail(u)[i] = u[i + 1]
  BY <1>1, HeadTailProperties
<1>3. Len(Tail(u)) = Len(t)
  BY <1>1, <1>2
<1>4. \A i \in 1 .. Len(t) : Tail(u)[i] = t[i]
  BY <1>1, <1>2, <1>3 DEF Shifted, Places
<1>5. Tail(u) = t
  BY <1>2, <1>3, <1>4, SeqEqual
<1>6. QED
  BY <1>5 DEF u

LEMMA TailAbove ==
    ASSUME TypeInv, Above, stack # <<>>
    PROVE  WorkAbove(Tail(stack)) /\ (Head(stack).do # "return" => WorkAbove(stack))
<1> DEFINE h == Head(stack)   t == Tail(stack)
<1>1. h \in Frames /\ t \in Seq(Frames) /\ stack = Put(h, t)
  BY Popped
<1>2. CASE h.do = "return"
  BY <1>2 DEF Above
<1>3. CASE h.do # "return"
  <2>1. WorkAbove(stack)
    BY <1>3 DEF Above
  <2> HIDE DEF h, t
  <2>2. WorkAbove(t)
    BY <1>1, <2>1, WorkAboveCons
  <2>3. QED
    BY <2>1, <2>2 DEF h, t
<1>4. QED
  BY <1>2, <1>3

\* With the worker above all calls of subscribe(), none is on top of it.
LEMMA AboveAfter ==
    ASSUME TypeInv', WorkAbove(stack')
    PROVE  Above'
<1> DEFINE u == stack'   h == Head(stack')   t == Tail(stack')
<1>1. u \in Seq(Frames) /\ (worker'.busy <=> Has(u, "worker"))
  BY DEF TypeInv, TypeOK, WorkerFrameOK
<1>2. ASSUME u # <<>>, h.do = "return" PROVE WorkAbove(t) /\ ~worker'.busy
  <2>1. h \in Frames /\ t \in Seq(Frames) /\ u = Put(h, t)
    BY <1>1, <1>2, HeadTail
  <2>2. WorkAbove(u)
    OBVIOUS
  <2> HIDE DEF u, h, t
  <2>3. WorkAbove(t) /\ ~Has(t, "worker")
    BY <1>2, <2>1, <2>2, WorkAboveCons
  <2>4. ~Has(u, "worker")
    BY <1>2, <2>1, <2>3, HasCons
  <2>5. QED
    BY <1>1, <2>3, <2>4
<1>3. QED
  BY <1>2 DEF Above

LEMMA WorkAbovePush ==
    ASSUME NEW t \in Seq(Frames), NEW a \in Frames, a.do # "return", WorkAbove(t)
    PROVE  WorkAbove(Put(a, t))
BY WorkAboveCons

LEMMA PublishAbove ==
    ASSUME NEW s, NEW ar, NEW wk, NEW stk \in Seq(Frames), Publish(s, ar, wk, stk), WorkAbove(stk)
    PROVE  WorkAbove(stack')
<1>1. stack' = stk \/ stack' = Put(WorkerFrame, stk)
  BY PublishCases
<1>2. WorkAbove(Put(WorkerFrame, stk))
  BY WorkerFrameIs, WorkAbovePush
<1>3. QED
  BY <1>1, <1>2

LEMMA EndAbove ==
    ASSUME NEW i \in Ids, NEW end \in Ended, NEW t \in Seq(Frames), WorkAbove(t)
    PROVE  WorkAbove(EndFrames(i, end) \o t)
<1> DEFINE told == Frame("told", {i}, end)
           done == Frame("done", {i}, end)
           tell == Frame("tell", Waiters(i), "failed")
<1>1. told \in Frames /\ done \in Frames /\ tell \in Frames
  BY EndsArePut
<1>2. told.do = "told" /\ done.do = "done" /\ tell.do = "tell"
  BY DEF Frame
<1>3. EndFrames(i, end) \o t = IF i \in Requests THEN Put(told, t) ELSE Put(tell, Put(done, t))
  BY EndsArePut
<1> HIDE DEF told, done, tell
<1>4. WorkAbove(Put(told, t)) /\ WorkAbove(Put(done, t)) /\ Put(done, t) \in Seq(Frames)
  BY <1>1, <1>2, WorkAbovePush, Cons
<1> DEFINE u == Put(done, t)
<1> HIDE DEF u
<1>5. WorkAbove(Put(tell, u))
  BY <1>1, <1>2, <1>4, WorkAbovePush DEF u
<1>6. QED
  BY <1>3, <1>4, <1>5 DEF u

LEMMA FinalizeAbove ==
    ASSUME TypeInv, NEW i \in Ids, NEW t \in Seq(Frames), FramesOK(t),
           WorkerFrameOK(t, worker.busy), Finalize(i, t), WorkAbove(t)
    PROVE  WorkAbove(stack')
<1>1. ReleaseOf(i) \in Frames /\ ReleaseOf(i).do # "return"
  BY DEF ReleaseOf, Frame, Frames
<1>2. WorkAbove(Leaving(i, t))
  BY <1>1, WorkAbovePush DEF Leaving
<1>3. QED
  BY <1>2, FinalizeShape, PublishAbove DEF SetDone

LEMMA EventAbove == ASSUME TypeInv, TypeInv', Above, EventStep PROVE Above'
<1>1. ASSUME NEW e \in Ids, EmitEntry(e) PROVE Above'
  <2>1. /\ WorkAbove(stack) /\ stack \in Seq(Frames)
        /\ Publish(Emitted(e), EmittedArrival(e), EmitWorker(e), EmitStack(e))
    BY <1>1, EmitShape, TailAbove, Parts
  <2> DEFINE a == EmitTell(e)   b == EmitStart(e)   u == Put(b, stack)
  <2>2. /\ a \in Frames /\ b \in Frames /\ a.do = "tell" /\ b.do = "start"
        /\ u \in Seq(Frames) /\ EmitStack(e) = Put(a, u)
    BY <2>1, EmitFrames DEF EmitStack
  <2> HIDE DEF a, b
  <2>3. WorkAbove(u)
    BY <2>1, <2>2, WorkAbovePush
  <2> HIDE DEF u
  <2>4. WorkAbove(Put(a, u)) /\ Put(a, u) \in Seq(Frames)
    BY <2>2, <2>3, WorkAbovePush, Cons
  <2>5. QED
    BY <2>1, <2>2, <2>4, PublishAbove, AboveAfter
<1>2. ASSUME NEW e \in Ids, Tell(e) PROVE Above'
  <2> DEFINE b == ToldOne(e)   t == Tail(stack)
  <2>1. /\ stack # <<>> /\ b \in Frames /\ b.do = "tell" /\ Put(b, t) \in Seq(Frames)
        /\ Head(stack).end \in Ended
        /\ stack' = Put(b, t) \/ stack' = EndFrames(e, Head(stack).end) \o Put(b, t)
    BY <1>2, TellShape
  <2>2. WorkAbove(t) /\ t \in Seq(Frames)
    BY <2>1, TailAbove, Popped
  <2> HIDE DEF b, t
  <2>3. WorkAbove(Put(b, t))
    BY <2>1, <2>2, WorkAbovePush
  <2>4. QED
    BY <2>1, <2>3, EndAbove, AboveAfter
<1>3. ASSUME NEW e \in Ids, Teardown(e) PROVE Above'
  BY <1>3, TeardownShape, TailAbove, FinalizeAbove, AboveAfter
<1>4. ASSUME NEW e \in Ids, Returned(e) PROVE Above'
  BY <1>4, ReturnedShape, TailAbove, PublishAbove, AboveAfter DEF SetDone
<1>5. ASSUME NEW e \in Ids, Release(e) PROVE Above'
  BY <1>5, ReleaseShape, TailAbove, PublishAbove, AboveAfter DEF SetDone
<1>6. ASSUME NEW e \in Ids, NEW outcome, StartFetch(e, outcome) PROVE Above'
  <2>1. /\ stack # <<>> /\ Tail(stack) \in Seq(Frames) /\ "failed" \in Ended
        /\ stack' = Tail(stack) \/ stack' = EndFrames(e, "failed") \o Tail(stack)
    BY <1>6, StartFetchShape DEF Ended
  <2>2. QED
    BY <2>1, TailAbove, EndAbove, AboveAfter
<1>7. ASSUME NextUpdate \/ AllTold PROVE Above'
  <2>1. stack # <<>> /\ (stack' = stack \/ stack' = Tail(stack)) /\ Head(stack).do # "return"
    BY <1>7 DEF NextUpdate, AllTold
  <2>2. QED
    BY <2>1, TailAbove, AboveAfter
<1>8. QED
  BY <1>1, <1>2, <1>3, <1>4, <1>5, <1>6, <1>7 DEF EventStep

\* No call of subscribe() is about to return when the application acts.
LEMMA MayActAbove ==
    ASSUME TypeInv, Above, MayAct
    PROVE  /\ stack \in Seq(Frames) /\ WorkAbove(stack) /\ FramesOK(stack)
           /\ WorkerFrameOK(stack, worker.busy)
<1>1. stack # <<>> => Head(stack).do # "return"
  BY DEF MayAct
<1>2. stack = <<>> => WorkAbove(stack)
  BY EmptyAbout
<1>3. QED
  BY <1>1, <1>2, TailAbove, Parts

LEMMA ApplicationAbove == ASSUME TypeInv, TypeInv', Above, Application PROVE Above'
<1>1. /\ stack \in Seq(Frames) /\ WorkAbove(stack) /\ FramesOK(stack)
      /\ WorkerFrameOK(stack, worker.busy) /\ Requests \subseteq Ids
  <2>1. MayAct
    BY DEF Application, Subscribe, Unsubscribe, ResolveCanceler, CancelAllInFlightRequests
  <2>2. QED
    BY <2>1, MayActAbove DEF Ids
<1>2. ASSUME NEW r \in Requests, Subscribe(r) PROVE Above'
  <2> DEFINE a == ReturnOf(r)
  <2>1. /\ a \in Frames /\ a.do = "return" /\ a.ids = {r} /\ r \in Ids /\ stage'[r] = "waiting"
        /\ Add(r, Put(a, stack)) /\ Put(a, stack) \in Seq(Frames)
    <3>1. Add(r, Put(ReturnOf(r), stack)) /\ stage' = [stage EXCEPT ![r] = "waiting"]
      BY <1>2 DEF Subscribe, Put, ReturnOf
    <3>2. stage'[r] = "waiting"
      BY <1>1, <3>1, Parts
    <3>3. QED
      BY <1>1, <3>1, <3>2, ReturnIs, Cons
  <2>2. stack' = Put(a, stack) \/ (stack' = Put(WorkerFrame, Put(a, stack)) /\ ~worker.busy)
    BY <2>1, PublishCases DEF Add
  <2> HIDE DEF a
  <2>3. CASE worker.busy
    <3>1. stack' = Put(a, stack) /\ Head(stack') = a
      BY <1>1, <2>1, <2>2, <2>3, Cons
    <3>2. Tail(stack') = stack
      BY <1>1, <2>1, <3>1, TailPut
    <3>3. QED
      BY <1>1, <2>1, <3>1, <3>2 DEF Above
  <2>4. CASE ~worker.busy
    <3>1. ~Has(stack, "worker")
      BY <1>1, <2>4 DEF WorkerFrameOK
    <3>2. WorkAbove(Put(a, stack))
      BY <1>1, <2>1, <3>1, WorkAboveCons
    <3>3. QED
      BY <2>1, <3>2, PublishAbove, AboveAfter DEF Add
  <2>5. QED
    BY <2>3, <2>4
<1>3. ASSUME NEW r \in Requests, Unsubscribe(r) PROVE Above'
  <2>1. Finalize(r, stack) /\ r \in Ids
    BY <1>1, <1>3 DEF Unsubscribe
  <2>2. QED
    BY <1>1, <2>1, FinalizeAbove, AboveAfter
<1>4. ASSUME NEW ids \in SUBSET Ids, stack' = <<Frame("tell", ids, "cancelled")>> \o stack
      PROVE  Above'
  <2> DEFINE a == Frame("tell", ids, "cancelled")
  <2>1. a \in Frames /\ a.do # "return" /\ stack' = Put(a, stack)
    BY <1>4 DEF Frame, Frames, Ended, Put
  <2> HIDE DEF a
  <2>2. QED
    BY <1>1, <2>1, WorkAbovePush, AboveAfter
<1>5. ASSUME NEW r \in Requests, ResolveCanceler(r) PROVE Above'
  <2>1. {x \in Requests : Live(x) /\ RequestId[x] = RequestId[r]} \in SUBSET Ids
    BY <1>1
  <2>2. QED
    BY <1>4, <1>5, <2>1 DEF ResolveCanceler
<1>6. ASSUME CancelAllInFlightRequests PROVE Above'
  BY <1>4, <1>6 DEF CancelAllInFlightRequests
<1>7. QED
  BY <1>2, <1>3, <1>5, <1>6 DEF Application

LEMMA AnswerAbove == ASSUME TypeInv, TypeInv', NEW i \in Ids, Answer(i) PROVE Above'
<1>1. stack = <<>> /\ WorkAbove(stack) /\ stack \in Seq(Frames)
  BY EmptyAbout, Parts DEF Answer, Respond, Unauthorized, Renewed, NotRenewed
<1>2. ASSUME NEW end \in Ended, stack' = EndFrames(i, end) PROVE Above'
  <2>1. stack' = EndFrames(i, end) \o stack
    BY <1>1, <1>2, EndAlone
  <2>2. QED
    BY <1>1, <2>1, EndAbove, AboveAfter
<1>3. ASSUME Renewed(i) PROVE Above'
  <2>1. Len(stack') = 1 /\ stack'[1].do = "done"
    BY <1>3 DEF Renewed, Frame
  <2>2. WorkAbove(stack')
    BY <2>1 DEF WorkAbove, Places
  <2>3. QED
    BY <2>2, AboveAfter
<1>4. ASSUME NEW c \in Checkers, Unauthorized(i, c) PROVE Above'
  <2>1. stack' = stack \/ Add(c, stack)
    BY <1>4 DEF Unauthorized
  <2>2. WorkAbove(stack')
    BY <1>1, <2>1, PublishAbove DEF Add
  <2>3. QED
    BY <2>2, AboveAfter
<1>5. ASSUME NEW end \in {"ok", "failed"}, Respond(i, end) PROVE Above'
  BY <1>2, <1>5 DEF Respond, Ended
<1>6. ASSUME NotRenewed(i) PROVE Above'
  BY <1>2, <1>6 DEF NotRenewed, Ended
<1>7. QED
  BY <1>3, <1>4, <1>5, <1>6 DEF Answer

-----------------------------------------------------------------------------
(* The slots, the worker's array and renewals *)

\* A request that a step does not concern.
LEMMA SameSlot ==
    ASSUME NEW i \in Ids, SlotOf(i), status'[i] = status[i], stage'[i] = stage[i],
           i \in lost' <=> i \in lost, Owed(stack', i) <=> Owed(stack, i),
           Starting(stack', i) <=> Starting(stack, i), Returns(stack', i) <=> Returns(stack, i),
           FramesOf(stack', i)
    PROVE  SlotOf(i)'
BY DEF SlotOf, Live

\* What a request is about to be, as far as its slot goes.
LEMMA StagesDiffer ==
    /\ Ended = {"ok", "failed", "cancelled", "dropped"}
    /\ \A i : Live(i) <=> stage[i] \in {"sent", "auth"}
    /\ \A i : Live(i)' <=> stage'[i] \in {"sent", "auth"}
BY DEF Ended, Live

LEMMA PublishTodo ==
    ASSUME NEW s, NEW ar, NEW wk \in Workers, NEW stk, Publish(s, ar, wk, stk)
    PROVE  /\ status' = s
           /\ \A i \in worker'.todo : i \in wk.todo \/ s[i] = "Pending"
           /\ wk.busy => worker'.todo = wk.todo
<1>1. status' = s
  BY PublishCases
<1>2. CASE PendingOf(s) = {} /\ worker' = wk
  BY <1>1, <1>2
<1>3. CASE wk.busy /\ worker' = [wk EXCEPT !.backlog = Append(@, InProgressOf(s))]
  <2>1. worker'.todo = wk.todo
    BY <1>3 DEF Workers
  <2>2. QED
    BY <1>1, <2>1
<1>4. CASE ~wk.busy /\ worker' = Taken(s, ar)
  <2>1. worker'.todo = Selected(s, ar, InProgressOf(s))
    BY <1>4 DEF Taken
  <2>2. \A i \in Selected(s, ar, InProgressOf(s)) : s[i] = "Pending"
    BY SelectedPend DEF PendingOf
  <2>3. QED
    BY <1>1, <1>4, <2>1, <2>2
<1>5. QED
  BY <1>2, <1>3, <1>4, PublishCases

Renewing == \E c \in Checkers : stage[c] = "waiting"

LEMMA NotRenewing ==
    ASSUME TypeInv, Slots, Renewal,
           \/ stack = <<>>
           \/ Head(stack).do \in {"told", "done", "release", "return"}
           \/ Head(stack).do = "tell" /\ Head(stack).ids # {}
    PROVE  ~Renewing
<1> SUFFICES ASSUME NEW c \in Checkers, stage[c] = "waiting" PROVE FALSE
  BY DEF Renewing
<1>1. c \in Ids
  BY DEF Ids
<1>2. Calm(stack) /\ (status[c] = "Pending" => c \in worker.todo)
  BY DEF Renewal
<1>3. CASE stack = <<>>
  <2>1. ~Starting(stack, c) /\ worker = Idle
    BY <1>3, EmptyAbout, QuietIsIdle
  <2>2. status[c] = "Pending"
    BY <1>1, <2>1 DEF Slots, SlotOf
  <2>3. QED
    BY <1>2, <2>1, <2>2 DEF Idle
<1>4. CASE stack # <<>>
  <2> DEFINE h == Head(stack)   t == Tail(stack)
  <2>1. h \in Frames /\ t \in Seq(Frames) /\ stack = Put(h, t)
    BY <1>4, Popped
  <2>2. h.do \in {"told", "done", "release", "return"} \/ (h.do = "tell" /\ h.ids # {})
    BY <1>4
  <2> HIDE DEF h, t
  <2>3. h.do \in {"worker", "start"} \/ (h.do = "tell" /\ h.ids = {})
    BY <1>2, <2>1, CalmCons
  <2>4. QED
    BY <2>2, <2>3
<1>5. QED
  BY <1>3, <1>4

LEMMA StillNotRenewing ==
    ASSUME ~Renewing, \A c \in Checkers : stage'[c] = "waiting" => stage[c] = "waiting"
    PROVE  Renewal'
BY DEF Renewing, Renewal

\* The worker's array after a step that leaves it alone, or that publishes.
LEMMA TodoAfter ==
    ASSUME Todo, \A i \in worker'.todo : i \in worker.todo \/ status'[i] = "Pending",
           \A i \in worker.todo : status'[i] = status[i] /\ stage'[i] = stage[i]
    PROVE  Todo'
BY DEF Todo

\* While the worker's array is emitted; who was dropped meanwhile comes back.
LEMMA EmitEntrySlots ==
    ASSUME TypeInv, Slots, Todo, Renewal, NEW e \in Ids, EmitEntry(e)
    PROVE  Slots' /\ Todo' /\ Renewal'
<1>1. /\ stack # <<>> /\ Head(stack).do = "worker" /\ e \in worker.todo
      /\ Publish(Emitted(e), EmittedArrival(e), EmitWorker(e), EmitStack(e))
      /\ EmitWorker(e) \in Workers /\ EmitWorker(e).busy
      /\ EmitWorker(e).todo = worker.todo \ {e}
      /\ stage' = stage /\ status \in [Ids -> Statuses] /\ worker.todo \subseteq Ids
      /\ lost' = IF status[e] = "Absent" THEN lost \cup {e} ELSE lost
  BY EmitShape, Parts, Stacked
<1>2. /\ EmitStack(e) \in Seq(Frames) /\ ~Has(stack, "start") /\ stack \in Seq(Frames)
      /\ EmitTell(e) \in Frames /\ EmitStart(e) \in Frames
      /\ EmitTell(e).do = "tell" /\ EmitStart(e).do = "start" /\ EmitStart(e).ids = {e}
      /\ EmitTell(e).ids = IF e \in Requests /\ RequestId[e] # NoId THEN CancelledBy(e) ELSE {}
      /\ Put(EmitStart(e), stack) \in Seq(Frames)
  BY <1>1, EmitStackTypes, EmitFrames, Parts
<1>3. /\ stack' = EmitStack(e) /\ worker'.todo = worker.todo \ {e}
      /\ \A j \in Ids : status'[j] = IF j = e THEN "InProgress" ELSE status[j]
  <2>1. stack' = EmitStack(e) \/ ~EmitWorker(e).busy
    BY <1>1, PublishCases
  <2>2. status' = Emitted(e) /\ worker'.todo = worker.todo \ {e}
    BY <1>1, PublishTodo
  <2>3. QED
    BY <1>1, <2>1, <2>2 DEF Emitted
<1> DEFINE a == EmitTell(e)   b == EmitStart(e)   u == Put(b, stack)
<1>4. \A j \in Ids : /\ Owed(stack', j) <=> Owed(stack, j)
                     /\ Starting(stack', j) <=> j = e
                     /\ Returns(stack', j) <=> Returns(stack, j)
                     /\ FramesOf(stack', j) <=> FramesOf(stack, j)
  <2>1. /\ a \in Frames /\ b \in Frames /\ a.do = "tell" /\ b.do = "start" /\ b.ids = {e}
        /\ u \in Seq(Frames) /\ stack' = Put(a, u) /\ stack \in Seq(Frames)
    BY <1>2, <1>3 DEF EmitStack
  <2> HIDE DEF a, b
  <2>2. ASSUME NEW j \in Ids
        PROVE  /\ Owed(u, j) <=> Owed(stack, j)
               /\ Starting(u, j) <=> j = e
               /\ Returns(u, j) <=> Returns(stack, j)
               /\ FramesOf(u, j) <=> FramesOf(stack, j)
    <3>1. ~Starting(stack, j)
      BY <1>2, StartingHas
    <3>2. /\ b.do \notin {"told", "done"} /\ b.do # "return" /\ (j \in b.ids <=> j = e)
      BY <2>1
    <3>3. QED
      BY <2>1, <3>1, <3>2, PutAbout
  <2> HIDE DEF u
  <2>3. SameAbout(Put(a, u), u)
    BY <2>1, PlainAbout
  <2>4. QED
    BY <2>1, <2>2, <2>3 DEF SameAbout
<1>5. \A j \in Ids : ~Starting(stack, j)
  BY <1>2, StartingHas
<1>6. SlotOf(e) /\ (status[e] = "Pending" \/ (status[e] = "Absent" /\ stage[e] = "dropped"
                                              /\ e \in Requests /\ Reentrant # {}))
  BY <1>1 DEF Slots, Todo
<1>7. SlotOf(e)'
  <2>1. /\ Owed(stack', e) <=> Owed(stack, e)
        /\ Starting(stack', e)
        /\ Returns(stack', e) <=> Returns(stack, e)
        /\ FramesOf(stack', e) <=> FramesOf(stack, e)
        /\ status'[e] = "InProgress" /\ stage'[e] = stage[e]
        /\ e \in lost' <=> e \in lost \/ status[e] = "Absent"
    BY <1>1, <1>3, <1>4
  <2>2. CASE status[e] = "Pending"
    BY <1>6, <2>1, <2>2, StagesDiffer DEF SlotOf
  <2>3. CASE status[e] = "Absent"
    BY <1>6, <2>1, <2>3, StagesDiffer DEF SlotOf
  <2>4. QED
    BY <1>6, <2>2, <2>3
<1>8. ASSUME NEW j \in Ids, j # e PROVE SlotOf(j)'
  <2>1. j \in lost' <=> j \in lost
    BY <1>1, <1>8
  <2>2. SlotOf(j) /\ FramesOf(stack', j)
    BY <1>4 DEF Slots, SlotOf
  <2>3. QED
    BY <1>1, <1>3, <1>4, <1>5, <1>8, <2>1, <2>2, SameSlot
<1>9. Slots'
  BY <1>7, <1>8 DEF Slots
<1>10. Todo'
  BY <1>1, <1>3 DEF Todo
<1>11. Renewal'
  <2> SUFFICES ASSUME NEW c \in Checkers, stage[c] = "waiting"
               PROVE  /\ Calm(stack') /\ \A j \in Ids : Starting(stack', j) => j = c
                      /\ worker'.todo \subseteq {c}
                      /\ status'[c] = "Pending" => c \in worker'.todo
    BY <1>1 DEF Renewal
  <2>1. c \in Ids /\ c \notin Requests
    BY FetchAssumption DEF Ids
  <2>2. Calm(stack) /\ e = c
    BY <1>1 DEF Renewal
  <2>3. EmitTell(e).ids = {}
    BY <1>2, <2>1, <2>2
  <2>4. Calm(u)
    BY <1>2, <2>2, CalmCons
  <2>5. Calm(Put(a, u))
    <3>1. a \in Frames /\ u \in Seq(Frames) /\ a.do = "tell" /\ a.ids = {}
      BY <1>2, <2>3
    <3> HIDE DEF a, u
    <3>2. QED
      BY <2>4, <3>1, CalmCons
  <2>6. Calm(stack')
    BY <1>3, <2>5 DEF EmitStack
  <2>7. worker.todo \subseteq {c} /\ status'[c] = "InProgress"
    BY <1>3, <2>1, <2>2 DEF Renewal
  <2>8. QED
    BY <1>3, <1>4, <2>2, <2>6, <2>7
<1>12. QED
  BY <1>9, <1>10, <1>11

\* A frame of the worker's, of observers or of who leaves goes: nothing else changes.
LEMMA PopSlots ==
    ASSUME TypeInv, Slots, Renewal, stack # <<>>, Head(stack).do \in {"worker", "tell", "release"},
           stack' = Tail(stack), status' = status, stage' = stage, lost' = lost
    PROVE  /\ Slots' /\ (Calm(stack) => Calm(stack'))
           /\ \A j \in Ids : Starting(stack', j) <=> Starting(stack, j)
<1> DEFINE h == Head(stack)   t == Tail(stack)
<1>1. /\ h \in Frames /\ t \in Seq(Frames) /\ stack = Put(h, t) /\ stack' = t
      /\ h.do \in {"worker", "tell", "release"}
  BY Popped
<1> HIDE DEF h, t
<1>2. SameAbout(stack, stack')
  <2>1. SameAbout(Put(h, t), t)
    BY <1>1, PlainAbout
  <2>2. QED
    BY <1>1, <2>1
<1>3. ASSUME NEW j \in Ids PROVE SlotOf(j)'
  <2>1. SlotOf(j) /\ FramesOf(stack', j)
    BY <1>2 DEF Slots, SlotOf, SameAbout
  <2>2. QED
    BY <1>2, <2>1, SameSlot DEF SameAbout
<1>4. Calm(Put(h, t)) => Calm(t)
  BY <1>1, CalmCons
<1>5. QED
  BY <1>1, <1>2, <1>3, <1>4 DEF Slots, SameAbout

LEMMA NextUpdateSlots ==
    ASSUME TypeInv, Slots, Todo, Renewal, NextUpdate
    PROVE  Slots' /\ Todo' /\ Renewal'
<1>1. /\ stack # <<>> /\ Head(stack).do = "worker" /\ worker.todo = {}
      /\ status' = status /\ stage' = stage /\ lost' = lost /\ worker \in Workers
      /\ ~Has(stack, "start")
  <2>1. /\ stack # <<>> /\ Head(stack).do = "worker" /\ worker.todo = {}
        /\ status' = status /\ stage' = stage /\ lost' = lost
    BY DEF NextUpdate
  <2>2. Rotate \in Ids
    BY DEF Ids, Checkers
  <2>3. ~Has(stack, "start")
    BY <2>1, <2>2, EmitStackTypes
  <2>4. QED
    BY <2>1, <2>3, Parts
<1>2. ~Renewing
  <2> SUFFICES ASSUME NEW c \in Checkers, stage[c] = "waiting" PROVE FALSE
    BY DEF Renewing
  <2>1. c \in Ids /\ ~Starting(stack, c)
    BY <1>1, StartingHas DEF Ids
  <2>2. status[c] = "Pending"
    BY <2>1 DEF Slots, SlotOf
  <2>3. QED
    BY <1>1, <2>2 DEF Renewal
<1>3. Renewal'
  BY <1>1, <1>2, StillNotRenewing
<1>4. CASE worker.backlog = <<>>
  <2>1. worker' = Idle /\ stack' = Tail(stack)
    BY <1>4 DEF NextUpdate
  <2>2. Slots'
    BY <1>1, <2>1, PopSlots
  <2>3. Todo'
    BY <2>1 DEF Todo, Idle
  <2>4. QED
    BY <1>3, <2>2, <2>3
<1>5. CASE worker.backlog # <<>>
  <2>1. stack' = stack /\ worker'.todo = Selected(status, arrival, Head(worker.backlog))
    BY <1>1, <1>5 DEF NextUpdate, Workers
  <2>2. \A i \in worker'.todo : status'[i] = "Pending"
    BY <1>1, <2>1, SelectedPend DEF PendingOf
  <2>3. ASSUME NEW j \in Ids PROVE SlotOf(j)'
    BY <1>1, <2>1, SameSlot DEF Slots, SlotOf
  <2>4. QED
    BY <1>3, <2>2, <2>3 DEF Todo, Slots
<1>6. QED
  BY <1>4, <1>5

LEMMA AllToldSlots ==
    ASSUME TypeInv, Slots, Todo, Renewal, AllTold
    PROVE  Slots' /\ Todo' /\ Renewal'
<1>1. /\ stack # <<>> /\ Head(stack).do = "tell" /\ stack' = Tail(stack)
      /\ UNCHANGED <<status, worker, stage, lost>>
  BY DEF AllTold
<1>2. /\ Slots' /\ (Calm(stack) => Calm(stack'))
      /\ \A j \in Ids : Starting(stack', j) <=> Starting(stack, j)
  BY <1>1, PopSlots
<1>3. Todo'
  BY <1>1 DEF Todo
<1>4. Renewal'
  BY <1>1, <1>2 DEF Renewal
<1>5. QED
  BY <1>2, <1>3, <1>4

\* Who starts is in flight, has failed or is stuck; who was dropped keeps nothing.
LEMMA StartFetchSlots ==
    ASSUME TypeInv, Slots, Todo, Renewal, NEW i \in Ids, NEW outcome, StartFetch(i, outcome)
    PROVE  Slots' /\ Todo' /\ Renewal'
<1> DEFINE h == Head(stack)   t == Tail(stack)   w == EndFrames(i, "failed") \o t
<1>1. /\ stack # <<>> /\ h.do = "start" /\ h.ids = {i} /\ t \in Seq(Frames)
      /\ outcome \in {"sent", "failed", "stuck"}
      /\ stage[i] = "waiting" =>
            /\ stage' = [stage EXCEPT ![i] = outcome]
            /\ outcome = "failed" => stack' = w
            /\ outcome # "failed" => stack' = t
      /\ stage[i] # "waiting" => stack' = t /\ stage' = stage
      /\ status' = status /\ worker' = worker /\ lost' = lost
  BY StartFetchShape
<1>2. h \in Frames /\ stack = Put(h, t) /\ AtMostOne(Put(h, t), "start") /\ stage \in [Ids -> Stages]
  BY <1>1, Popped, Parts DEF WorkerFrameOK
<1> HIDE DEF h, t
<1>3. \A j \in Ids : /\ Owed(stack, j) <=> Owed(t, j)
                     /\ Starting(stack, j) <=> j = i
                     /\ ~Starting(t, j)
                     /\ Returns(stack, j) <=> Returns(t, j)
                     /\ FramesOf(stack, j) => FramesOf(t, j)
  <2>1. ~Has(t, "start")
    BY <1>1, <1>2, AtMostOneCons
  <2>2. \A j : ~Starting(t, j)
    BY <2>1, StartingHas
  <2>3. ASSUME NEW j \in Ids
        PROVE  /\ Owed(Put(h, t), j) <=> Owed(t, j)
               /\ Starting(Put(h, t), j) <=> j = i
               /\ Returns(Put(h, t), j) <=> Returns(t, j)
               /\ FramesOf(Put(h, t), j) => FramesOf(t, j)
    <3>1. h.do \notin {"told", "done"} /\ h.do # "return" /\ (j \in h.ids <=> j = i)
      BY <1>1
    <3>2. QED
      BY <1>1, <1>2, <2>2, <3>1, PutAbout
  <2>4. QED
    BY <1>2, <2>2, <2>3
<1>4. SlotOf(i)
  BY DEF Slots
<1>5. Renewal'
  <2>1. \A c \in Checkers : stage'[c] # "waiting"
    <3> SUFFICES ASSUME NEW c \in Checkers, stage'[c] = "waiting" PROVE FALSE
      OBVIOUS
    <3>1. stage[c] = "waiting" /\ c \in Ids
      BY <1>1, <1>2 DEF Ids
    <3>2. i = c
      BY <1>3, <3>1 DEF Renewal
    <3>3. stage'[c] = outcome
      BY <1>1, <1>2, <3>1, <3>2
    <3>4. QED
      BY <1>1, <3>3
  <2>2. QED
    BY <2>1 DEF Renewal
<1>6. Todo'
  <2>1. stage[i] = "waiting" => i \notin worker.todo
    BY <1>3, <1>4 DEF SlotOf, Todo
  <2>2. \A j \in worker.todo : stage'[j] = stage[j]
    BY <1>1, <1>2, <2>1, Stacked
  <2>3. QED
    BY <1>1, <2>2, TodoAfter
<1>7. CASE stage[i] # "waiting"
  <2>1. stack' = t /\ stage' = stage
    BY <1>1, <1>7
  <2>2. SlotOf(i)'
    BY <1>1, <1>3, <1>4, <1>7, <2>1, StagesDiffer DEF SlotOf
  <2>3. ASSUME NEW j \in Ids, j # i PROVE SlotOf(j)'
    <3>1. SlotOf(j) /\ FramesOf(stack', j)
      BY <1>3, <2>1 DEF Slots, SlotOf
    <3>2. QED
      BY <1>1, <1>3, <2>1, <2>3, <3>1, SameSlot
  <2>4. QED
    BY <1>5, <1>6, <2>2, <2>3 DEF Slots
<1>8. CASE stage[i] = "waiting"
  <2>1. /\ stage'[i] = outcome /\ \A j \in Ids \ {i} : stage'[j] = stage[j]
        /\ outcome = "failed" => stack' = w
        /\ outcome # "failed" => stack' = t
    BY <1>1, <1>2, <1>8
  <2>2. status[i] = "InProgress" /\ ~Owed(stack, i) /\ i \notin lost /\ FramesOf(stack, i)
    BY <1>3, <1>4, <1>8, StagesDiffer DEF SlotOf
  <2>3. \A j \in Ids : /\ Owed(w, j) <=> j = i \/ Owed(t, j)
                       /\ Starting(w, j) <=> Starting(t, j)
                       /\ Returns(w, j) <=> Returns(t, j)
                       /\ FramesOf(w, j) <=> FramesOf(t, j)
    <3>1. ~Owed(t, i) /\ "failed" \in Ended
      BY <1>3, <2>2 DEF Ended
    <3>2. QED
      BY <1>1, <3>1, EndAbout
  <2> HIDE DEF w
  <2>4. \A j \in Ids : /\ Owed(stack', j) <=> (j = i /\ outcome = "failed") \/ Owed(t, j)
                       /\ ~Starting(stack', j)
                       /\ Returns(stack', j) <=> Returns(t, j)
                       /\ FramesOf(stack', j) <=> FramesOf(t, j)
    BY <1>3, <2>1, <2>3
  <2>5. SlotOf(i)'
    <3>1. /\ Owed(stack', i) <=> outcome = "failed"
          /\ ~Starting(stack', i) /\ FramesOf(stack', i)
          /\ Returns(stack', i) <=> Returns(stack, i)
      BY <1>3, <2>2, <2>4
    <3>2. status'[i] = "InProgress" /\ i \notin lost' /\ stage'[i] = outcome
      BY <1>1, <2>1, <2>2
    <3>3. QED
      BY <1>1, <3>1, <3>2, StagesDiffer DEF SlotOf
  <2>6. ASSUME NEW j \in Ids, j # i PROVE SlotOf(j)'
    <3>1. SlotOf(j) /\ FramesOf(stack', j)
      BY <1>3, <2>4 DEF Slots, SlotOf
    <3>2. QED
      BY <1>1, <1>3, <2>1, <2>4, <2>6, <3>1, SameSlot
  <2>7. QED
    BY <1>5, <1>6, <2>5, <2>6 DEF Slots
<1>9. QED
  BY <1>7, <1>8

-----------------------------------------------------------------------------
(* The slots of a request that ends, leaves or comes *)

\* An entry goes, and the worker is given what waits.
LEMMA DoneGives ==
    ASSUME TypeInv, NEW i \in Ids, NEW stk \in Seq(Frames), SetDone(i, stk)
    PROVE  /\ status'[i] = "Absent" /\ \A j \in Ids \ {i} : status'[j] = status[j]
           /\ SameAbout(stack', stk)
           /\ \A j \in worker'.todo : j \in worker.todo \/ status'[j] = "Pending"
<1> DEFINE s == [status EXCEPT ![i] = "Absent"]
<1>1. Publish(s, ArrivalWithout(i), worker, stk) /\ worker \in Workers /\ status \in [Ids -> Statuses]
  BY Parts DEF SetDone
<1>2. s[i] = "Absent" /\ \A j \in Ids \ {i} : s[j] = status[j]
  BY <1>1
<1> HIDE DEF s
<1>3. SameAbout(stack', stk)
  BY <1>1, PublishAbout
<1>4. status' = s /\ \A j \in worker'.todo : j \in worker.todo \/ s[j] = "Pending"
  BY <1>1, PublishTodo
<1>5. QED
  BY <1>2, <1>3, <1>4

\* An entry comes.
LEMMA AddGives ==
    ASSUME TypeInv, NEW i \in Ids, NEW stk \in Seq(Frames), Add(i, stk)
    PROVE  /\ status'[i] = "Pending" /\ \A j \in Ids \ {i} : status'[j] = status[j]
           /\ SameAbout(stack', stk)
           /\ \A j \in worker'.todo : j \in worker.todo \/ status'[j] = "Pending"
<1> DEFINE s == [status EXCEPT ![i] = "Pending"]
           ar == [arrival EXCEPT ![i] = NextArrival]
<1>1. Publish(s, ar, worker, stk) /\ worker \in Workers /\ status \in [Ids -> Statuses]
  BY Parts DEF Add
<1>2. s[i] = "Pending" /\ \A j \in Ids \ {i} : s[j] = status[j]
  BY <1>1
<1> HIDE DEF s, ar
<1>3. SameAbout(stack', stk)
  BY <1>1, PublishAbout
<1>4. status' = s /\ \A j \in worker'.todo : j \in worker.todo \/ s[j] = "Pending"
  BY <1>1, PublishTodo
<1>5. QED
  BY <1>2, <1>3, <1>4

\* A request that is in flight ends: its entry stays until the teardown.
LEMMA EndSlots ==
    ASSUME TypeInv, Slots, Todo, ~Renewing, NEW i \in Ids, Live(i), NEW end \in Ended,
           NEW t \in Seq(Frames), SameAbout(t, stack),
           stage' = [stage EXCEPT ![i] = end], stack' = EndFrames(i, end) \o t,
           UNCHANGED <<status, worker, lost>>
    PROVE  Slots' /\ Todo' /\ Renewal'
<1>1. /\ SlotOf(i) /\ stage \in [Ids -> Stages] /\ stage'[i] = end
      /\ \A j \in Ids \ {i} : stage'[j] = stage[j]
  BY Parts DEF Slots
<1>2. status[i] = "InProgress" /\ i \notin lost /\ ~Owed(stack, i)
  BY <1>1, StagesDiffer DEF SlotOf
<1>3. \A j \in Ids : /\ Owed(stack', j) <=> j = i \/ Owed(stack, j)
                     /\ Starting(stack', j) <=> Starting(stack, j)
                     /\ Returns(stack', j) <=> Returns(stack, j)
                     /\ FramesOf(stack', j) <=> FramesOf(stack, j)
  <2>1. ~Owed(t, i)
    BY <1>2 DEF SameAbout
  <2>2. \A j \in Ids :
           /\ Owed(EndFrames(i, end) \o t, j) <=> j = i \/ Owed(t, j)
           /\ Starting(EndFrames(i, end) \o t, j) <=> Starting(t, j)
           /\ Returns(EndFrames(i, end) \o t, j) <=> Returns(t, j)
           /\ FramesOf(EndFrames(i, end) \o t, j) <=> FramesOf(t, j)
    BY <2>1, EndAbout
  <2>3. QED
    BY <2>2 DEF SameAbout
<1>4. SlotOf(i)'
  BY <1>1, <1>2, <1>3, StagesDiffer DEF SlotOf
<1>5. ASSUME NEW j \in Ids, j # i PROVE SlotOf(j)'
  <2>1. SlotOf(j) /\ FramesOf(stack', j)
    BY <1>3 DEF Slots, SlotOf
  <2>2. QED
    BY <1>1, <1>3, <1>5, <2>1, SameSlot
<1>6. Todo'
  <2>1. i \notin worker.todo
    BY <1>1, <1>2, StagesDiffer DEF Todo
  <2>2. \A j \in worker.todo : stage'[j] = stage[j]
    BY <1>1, <2>1, Stacked
  <2>3. QED
    BY <2>2, TodoAfter
<1>7. Renewal'
  <2>1. \A c \in Checkers : stage'[c] = "waiting" => stage[c] = "waiting"
    BY <1>1, StagesDiffer DEF Ids
  <2>2. QED
    BY <2>1, StillNotRenewing
<1>8. QED
  BY <1>4, <1>5, <1>6, <1>7 DEF Slots

LEMMA TellSlots ==
    ASSUME TypeInv, Slots, Todo, Renewal, NEW i \in Ids, Tell(i)
    PROVE  Slots' /\ Todo' /\ Renewal'
<1> DEFINE h == Head(stack)   t == Tail(stack)   b == ToldOne(i)
<1>1. /\ stack # <<>> /\ h.do = "tell" /\ i \in h.ids /\ h.end \in Ended
      /\ b \in Frames /\ b.do = "tell" /\ Put(b, t) \in Seq(Frames)
      /\ IF Live(i)
         THEN stage' = [stage EXCEPT ![i] = h.end] /\ stack' = EndFrames(i, h.end) \o Put(b, t)
         ELSE stack' = Put(b, t) /\ stage' = stage
      /\ UNCHANGED <<status, worker, lost>>
  BY TellShape
<1>2. ~Renewing
  BY <1>1, NotRenewing
<1>3. h \in Frames /\ t \in Seq(Frames) /\ stack = Put(h, t)
  BY <1>1, Popped
<1> HIDE DEF h, t, b
<1>4. SameAbout(Put(b, t), stack)
  <2>1. SameAbout(Put(b, t), t) /\ SameAbout(Put(h, t), t)
    BY <1>1, <1>3, PlainAbout
  <2>2. QED
    BY <1>3, <2>1 DEF SameAbout
<1>5. CASE Live(i)
  BY <1>1, <1>2, <1>4, <1>5, EndSlots
<1>6. CASE ~Live(i)
  <2>1. stack' = Put(b, t) /\ stage' = stage
    BY <1>1, <1>6
  <2>2. ASSUME NEW j \in Ids PROVE SlotOf(j)'
    <3>1. SlotOf(j) /\ FramesOf(stack', j)
      BY <1>4, <2>1 DEF Slots, SlotOf, SameAbout
    <3>2. QED
      BY <1>1, <1>4, <2>1, <3>1, SameSlot DEF SameAbout
  <2>3. Todo' /\ Renewal'
    BY <1>1, <1>2, <2>1, StillNotRenewing, TodoAfter
  <2>4. QED
    BY <2>2, <2>3 DEF Slots
<1>7. QED
  BY <1>5, <1>6

\* The teardown removes the entry, unless subscribe() has still to return.
LEMMA TeardownSlots ==
    ASSUME TypeInv, Slots, Todo, Renewal, NEW i \in Ids, Teardown(i)
    PROVE  Slots' /\ Todo' /\ Renewal'
<1> DEFINE h == Head(stack)   t == Tail(stack)
<1>1. /\ stack # <<>> /\ h.do \in {"told", "done"} /\ h.ids = {i} /\ Finalize(i, t)
      /\ t \in Seq(Frames) /\ FramesOK(t) /\ WorkerFrameOK(t, worker.busy)
      /\ stage' = stage /\ lost' = lost
  BY TeardownShape
<1>2. h \in Frames /\ stack = Put(h, t)
  BY <1>1, Popped
<1>3. ~Renewing
  BY <1>1, NotRenewing
<1>4. /\ Returning(i) => stack' = t /\ UNCHANGED <<status, worker>>
      /\ ~Returning(i) => SetDone(i, Leaving(i, t)) /\ Leaving(i, t) \in Seq(Frames)
  BY <1>1, FinalizeShape
<1> HIDE DEF h, t
<1>5. /\ Owed(stack, i) /\ ~Owed(t, i)
      /\ \A j \in Ids \ {i} : Owed(stack, j) <=> Owed(t, j)
      /\ \A j \in Ids : /\ Starting(stack, j) <=> Starting(t, j)
                        /\ Returns(stack, j) <=> Returns(t, j)
                        /\ FramesOf(t, j)
  <2>1. \A j \in Ids : FramesOf(stack, j)
    BY DEF Slots, SlotOf
  <2>2. h.do # "start" /\ h.do # "return"
    BY <1>1
  <2>3. \A j \in Ids :
           /\ Owed(Put(h, t), j) <=> j = i \/ Owed(t, j)
           /\ Starting(Put(h, t), j) <=> Starting(t, j)
           /\ Returns(Put(h, t), j) <=> Returns(t, j)
           /\ FramesOf(Put(h, t), j) <=> FramesOf(t, j) /\ (j = i => ~Owed(t, j))
    <3>1. \A j : j \in h.ids <=> j = i
      BY <1>1
    <3>2. QED
      BY <1>1, <1>2, <2>2, <3>1, PutAbout
  <2>4. QED
    BY <1>2, <2>1, <2>3
<1>6. /\ SlotOf(i) /\ status[i] = "InProgress" /\ stage[i] \in Ended /\ i \notin lost
      /\ i \notin worker.todo
  <2>1. SlotOf(i)
    BY DEF Slots
  <2>2. status[i] = "InProgress" /\ stage[i] \in Ended /\ i \notin lost
    BY <1>5, <2>1 DEF SlotOf
  <2>3. QED
    BY <2>1, <2>2 DEF Todo
<1>7. Renewal'
  BY <1>1, <1>3, StillNotRenewing
<1>8. CASE Returning(i)
  <2>1. stack' = t /\ UNCHANGED <<status, worker>> /\ Returns(t, i)
    BY <1>4, <1>5, <1>8, ReturningIs
  <2>2. SlotOf(i)'
    BY <1>1, <1>5, <1>6, <2>1, StagesDiffer DEF SlotOf
  <2>3. ASSUME NEW j \in Ids, j # i PROVE SlotOf(j)'
    BY <1>1, <1>5, <2>1, <2>3, SameSlot DEF Slots
  <2>4. QED
    BY <1>1, <1>7, <2>1, <2>2, <2>3, TodoAfter DEF Slots
<1>9. CASE ~Returning(i)
  <2>1. /\ status'[i] = "Absent" /\ \A j \in Ids \ {i} : status'[j] = status[j]
        /\ SameAbout(stack', Leaving(i, t))
        /\ \A j \in worker'.todo : j \in worker.todo \/ status'[j] = "Pending"
    BY <1>4, <1>9, DoneGives
  <2>2. SameAbout(Leaving(i, t), t) /\ ~Returns(t, i)
    BY <1>1, <1>5, <1>9, LeavingAbout, ReturningIs
  <2>3. SlotOf(i)'
    BY <1>1, <1>5, <1>6, <2>1, <2>2, StagesDiffer DEF SlotOf, SameAbout
  <2>4. ASSUME NEW j \in Ids, j # i PROVE SlotOf(j)'
    <3>1. SlotOf(j)
      BY DEF Slots
    <3>2. QED
      BY <1>1, <1>5, <2>1, <2>2, <2>4, <3>1, SameSlot DEF SameAbout
  <2>5. Todo'
    <3>1. \A j \in worker.todo : status'[j] = status[j]
      BY <1>6, <2>1, Stacked
    <3>2. QED
      BY <1>1, <2>1, <3>1, TodoAfter
  <2>6. QED
    BY <1>7, <2>3, <2>4, <2>5 DEF Slots
<1>10. QED
  BY <1>8, <1>9

\* subscribe() returns: an entry kept for that is removed now.
LEMMA ReturnedSlots ==
    ASSUME TypeInv, Slots, Todo, Renewal, Above, NEW i \in Ids, Returned(i)
    PROVE  Slots' /\ Todo' /\ Renewal'
<1> DEFINE h == Head(stack)   t == Tail(stack)
<1>1. /\ stack # <<>> /\ h.do = "return" /\ h.ids = {i} /\ t \in Seq(Frames)
      /\ stage[i] \in Ended => SetDone(i, t)
      /\ stage[i] \notin Ended => stack' = t /\ UNCHANGED <<status, worker>>
      /\ stage' = stage /\ lost' = lost
  BY ReturnedShape
<1>2. h \in Frames /\ stack = Put(h, t)
  BY <1>1, Popped
<1>3. ~Renewing
  BY <1>1, NotRenewing
<1>4. worker.busy => stage[i] = "waiting"
  BY <1>1 DEF Above
<1> HIDE DEF h, t
<1>5. /\ Returns(stack, i) /\ ~Returns(t, i) /\ ~Owed(t, i)
      /\ \A j \in Ids \ {i} : Returns(stack, j) <=> Returns(t, j)
      /\ \A j \in Ids : /\ Starting(stack, j) <=> Starting(t, j)
                        /\ Owed(stack, j) <=> Owed(t, j)
                        /\ FramesOf(t, j)
  <2>1. \A j \in Ids : FramesOf(stack, j)
    BY DEF Slots, SlotOf
  <2>2. h.do # "start" /\ h.do \notin {"told", "done"}
    BY <1>1
  <2>3. \A j \in Ids :
           /\ Owed(Put(h, t), j) <=> Owed(t, j)
           /\ Starting(Put(h, t), j) <=> Starting(t, j)
           /\ Returns(Put(h, t), j) <=> j = i \/ Returns(t, j)
           /\ FramesOf(Put(h, t), j) <=>
                 FramesOf(t, j) /\ (j = i => ~Owed(t, j) /\ ~Returns(t, j))
    <3>1. \A j : j \in h.ids <=> j = i
      BY <1>1
    <3>2. QED
      BY <1>1, <1>2, <2>2, <3>1, PutAbout
  <2>4. QED
    BY <1>2, <2>1, <2>3
<1>6. SlotOf(i) /\ i \notin lost
  BY <1>5 DEF Slots, SlotOf
<1>7. Renewal'
  BY <1>1, <1>3, StillNotRenewing
<1>8. CASE stage[i] \notin Ended
  <2>1. stack' = t /\ UNCHANGED <<status, worker>>
    BY <1>1, <1>8
  <2>2. SlotOf(i)'
    BY <1>1, <1>5, <1>6, <1>8, <2>1, StagesDiffer DEF SlotOf
  <2>3. ASSUME NEW j \in Ids, j # i PROVE SlotOf(j)'
    BY <1>1, <1>5, <2>1, <2>3, SameSlot DEF Slots
  <2>4. QED
    BY <1>1, <1>7, <2>1, <2>2, <2>3, TodoAfter DEF Slots
<1>9. CASE stage[i] \in Ended
  <2>1. worker = Idle /\ ~Starting(stack, i)
    <3>1. ~worker.busy
      BY <1>4, <1>9, StagesDiffer
    <3>2. ~Has(stack, "start")
      BY <3>1, Parts DEF WorkerFrameOK
    <3>3. QED
      BY <3>1, <3>2, Parts, StartingHas
  <2>2. /\ status'[i] = "Absent" /\ \A j \in Ids \ {i} : status'[j] = status[j]
        /\ SameAbout(stack', t)
        /\ \A j \in worker'.todo : j \in worker.todo \/ status'[j] = "Pending"
    BY <1>1, <1>9, DoneGives
  <2>3. SlotOf(i)'
    BY <1>1, <1>5, <1>6, <1>9, <2>1, <2>2, StagesDiffer DEF SlotOf, SameAbout
  <2>4. ASSUME NEW j \in Ids, j # i PROVE SlotOf(j)'
    <3>1. SlotOf(j)
      BY DEF Slots
    <3>2. QED
      BY <1>1, <1>5, <2>2, <2>4, <3>1, SameSlot DEF SameAbout
  <2>5. Todo'
    BY <2>1, <2>2 DEF Todo, Idle
  <2>6. QED
    BY <1>7, <2>3, <2>4, <2>5 DEF Slots
<1>10. QED
  BY <1>8, <1>9

\* An authChecker nobody waits for any more gives up its slot.
LEMMA ReleaseSlots ==
    ASSUME TypeInv, Slots, Todo, Renewal, NEW i \in Ids, Release(i)
    PROVE  Slots' /\ Todo' /\ Renewal'
<1> DEFINE h == Head(stack)   t == Tail(stack)
<1>1. /\ stack # <<>> /\ h.do = "release" /\ t \in Seq(Frames)
      /\ Abandoned(i) => /\ checker[i] \in Checkers /\ checker[i] \in Ids
                         /\ stage' = [stage EXCEPT ![checker[i]] = "dropped"]
                         /\ SetDone(checker[i], t)
      /\ ~Abandoned(i) => stack' = t /\ UNCHANGED <<status, worker, stage>>
      /\ lost' = lost
  BY ReleaseShape
<1>2. ~Renewing
  BY <1>1, NotRenewing
<1>3. CASE ~Abandoned(i)
  <2>1. stack' = t /\ UNCHANGED <<status, worker, stage>>
    BY <1>1, <1>3
  <2>2. Slots'
    BY <1>1, <2>1, PopSlots
  <2>3. QED
    BY <1>1, <1>2, <2>1, <2>2, StillNotRenewing, TodoAfter
<1>4. CASE Abandoned(i)
  <2>1. h \in Frames /\ stack = Put(h, t)
    BY <1>1, Popped
  <2>2. PICK c \in Checkers : c = checker[i]
    BY <1>1, <1>4
  <2>3. /\ c \in Ids /\ c \notin Requests /\ stage[c] = "sent"
        /\ stage' = [stage EXCEPT ![c] = "dropped"] /\ SetDone(c, t)
    <3>1. stage[c] \in {"waiting", "sent"}
      BY <1>4, <2>2 DEF Abandoned
    <3>2. stage[c] # "waiting" /\ c \notin Requests
      BY <1>2, FetchAssumption DEF Renewing
    <3>3. QED
      BY <1>1, <1>4, <2>2, <3>1, <3>2
  <2>4. stage'[c] = "dropped" /\ \A j \in Ids \ {c} : stage'[j] = stage[j]
    BY <2>3, Parts
  <2> HIDE DEF h, t
  <2>5. /\ status'[c] = "Absent" /\ \A j \in Ids \ {c} : status'[j] = status[j]
        /\ SameAbout(stack', t)
        /\ \A j \in worker'.todo : j \in worker.todo \/ status'[j] = "Pending"
    BY <1>1, <2>3, DoneGives
  <2>6. SameAbout(stack, t)
    BY <1>1, <2>1, PlainAbout
  <2>7. /\ SlotOf(c) /\ status[c] = "InProgress" /\ ~Owed(stack, c) /\ c \notin lost
        /\ ~Returns(stack, c)
    <3>1. SlotOf(c)
      BY <2>3 DEF Slots
    <3>2. ~Returns(stack, c)
      BY <2>3, Parts, ReturnsRequests
    <3>3. QED
      BY <2>3, <3>1, <3>2, StagesDiffer DEF SlotOf
  <2>8. SlotOf(c)'
    <3>1. ~Owed(stack', c) /\ ~Returns(stack', c) /\ FramesOf(stack', c)
      BY <2>3, <2>5, <2>6, <2>7 DEF SlotOf, SameAbout
    <3>2. c \notin lost' /\ status'[c] = "Absent" /\ stage'[c] = "dropped"
      BY <1>1, <2>4, <2>5, <2>7
    <3>3. QED
      BY <3>1, <3>2, StagesDiffer DEF SlotOf
  <2>9. ASSUME NEW j \in Ids, j # c PROVE SlotOf(j)'
    <3>1. SlotOf(j) /\ FramesOf(stack', j)
      BY <2>5, <2>6 DEF Slots, SlotOf, SameAbout
    <3>2. QED
      BY <1>1, <2>4, <2>5, <2>6, <2>9, <3>1, SameSlot DEF SameAbout
  <2>10. Todo'
    <3>1. c \notin worker.todo
      BY <2>4, <2>3, <2>7 DEF Todo
    <3>2. \A j \in worker.todo : status'[j] = status[j] /\ stage'[j] = stage[j]
      BY <2>4, <2>5, <3>1, Stacked
    <3>3. QED
      BY <2>5, <3>2, TodoAfter
  <2>11. Renewal'
    <3>1. \A d \in Checkers : stage'[d] = "waiting" => stage[d] = "waiting"
      BY <2>4, StagesDiffer DEF Ids
    <3>2. QED
      BY <1>2, <3>1, StillNotRenewing
  <2>12. QED
    BY <2>8, <2>9, <2>10, <2>11 DEF Slots
<1>5. QED
  BY <1>3, <1>4

\* When the application acts no renewal waits; and when it does so during an
\* emission, in the callback of a consumer that may.
LEMMA MayActSlots ==
    ASSUME TypeInv, Slots, Renewal, MayAct
    PROVE  ~Renewing /\ (worker.todo # {} => Reentrant # {})
<1>1. stack = <<>> \/ Head(stack).do \in {"told", "done", "release", "return"}
  BY DEF MayAct
<1>2. ~Renewing
  BY <1>1, NotRenewing
<1>3. ASSUME worker.todo # {} PROVE Reentrant # {}
  <2>1. worker # Idle
    BY <1>3 DEF Idle
  <2>2. stack # <<>>
    BY <2>1, QuietIsIdle
  <2>3. Head(stack).do = "told" /\ Head(stack).ids \subseteq Reentrant /\ FrameOK(Head(stack))
    BY <2>2, Popped DEF MayAct
  <2>4. QED
    BY <2>3 DEF FrameOK
<1>4. QED
  BY <1>2, <1>3

LEMMA SubscribeSlots ==
    ASSUME TypeInv, Slots, Todo, Renewal, NEW r \in Requests, Subscribe(r)
    PROVE  Slots' /\ Todo' /\ Renewal'
<1> DEFINE a == ReturnOf(r)   u == Put(a, stack)
<1>1. /\ MayAct /\ r \in Ids /\ stage[r] = "new" /\ stage' = [stage EXCEPT ![r] = "waiting"]
      /\ a \in Frames /\ a.do = "return" /\ a.ids = {r}
      /\ stack \in Seq(Frames) /\ u \in Seq(Frames) /\ Add(r, u) /\ lost' = lost
  <2>1. Add(r, Put(ReturnOf(r), stack)) /\ stack \in Seq(Frames)
    BY Parts DEF Subscribe, Put, ReturnOf
  <2>2. QED
    BY <2>1, ReturnIs, Cons DEF Subscribe
<1>2. stage'[r] = "waiting" /\ \A j \in Ids \ {r} : stage'[j] = stage[j]
  BY <1>1, Parts
<1>3. ~Renewing
  BY <1>1, MayActSlots
<1>4. SlotOf(r) /\ ~Starting(stack, r) /\ ~Returns(stack, r) /\ ~Owed(stack, r) /\ r \notin lost
  <2>1. SlotOf(r)
    BY <1>1 DEF Slots
  <2>2. QED
    BY <1>1, <2>1, StagesDiffer DEF SlotOf
<1> HIDE DEF a
<1>5. \A j \in Ids : /\ Owed(u, j) <=> Owed(stack, j)
                     /\ Starting(u, j) <=> Starting(stack, j)
                     /\ Returns(u, j) <=> j = r \/ Returns(stack, j)
                     /\ FramesOf(u, j)
  <2>1. \A j \in Ids : FramesOf(stack, j)
    BY DEF Slots, SlotOf
  <2>2. a.do # "start" /\ a.do \notin {"told", "done"}
    BY <1>1
  <2>3. \A j : j \in a.ids <=> j = r
    BY <1>1
  <2>4. QED
    BY <1>1, <1>4, <2>1, <2>2, <2>3, PutAbout
<1> HIDE DEF u
<1>6. /\ status'[r] = "Pending" /\ \A j \in Ids \ {r} : status'[j] = status[j]
      /\ SameAbout(stack', u)
      /\ \A j \in worker'.todo : j \in worker.todo \/ status'[j] = "Pending"
  BY <1>1, AddGives
<1>7. SlotOf(r)'
  BY <1>1, <1>2, <1>4, <1>5, <1>6, StagesDiffer DEF SlotOf, SameAbout
<1>8. ASSUME NEW j \in Ids, j # r PROVE SlotOf(j)'
  <2>1. SlotOf(j) /\ FramesOf(stack', j)
    BY <1>5, <1>6 DEF Slots, SameAbout
  <2>2. QED
    BY <1>1, <1>2, <1>5, <1>6, <1>8, <2>1, SameSlot DEF SameAbout
<1>9. Todo'
  <2>1. \A j \in worker.todo : j = r \/ (status'[j] = status[j] /\ stage'[j] = stage[j])
    BY <1>2, <1>6, Stacked
  <2>2. QED
    BY <1>6, <2>1 DEF Todo
<1>10. Renewal'
  <2>1. r \notin Checkers
    BY FetchAssumption
  <2>2. \A c \in Checkers : stage'[c] = stage[c]
    BY <1>2, <2>1 DEF Ids
  <2>3. QED
    BY <1>3, <2>2, StillNotRenewing
<1>11. QED
  BY <1>7, <1>8, <1>9, <1>10 DEF Slots

\* Who is dropped in a callback may be in the array that is being emitted.
LEMMA UnsubscribeSlots ==
    ASSUME TypeInv, Slots, Todo, Renewal, NEW r \in Requests, Unsubscribe(r)
    PROVE  Slots' /\ Todo' /\ Renewal'
<1>1. /\ MayAct /\ r \in Ids /\ stage[r] \in {"waiting", "sent", "auth", "stuck"}
      /\ stage' = [stage EXCEPT ![r] = "dropped"] /\ Finalize(r, stack) /\ lost' = lost
      /\ stack \in Seq(Frames) /\ FramesOK(stack) /\ WorkerFrameOK(stack, worker.busy)
  BY Parts DEF Unsubscribe, Ids
<1>2. stage'[r] = "dropped" /\ \A j \in Ids \ {r} : stage'[j] = stage[j]
  BY <1>1, Parts
<1>3. ~Renewing /\ (worker.todo # {} => Reentrant # {})
  BY <1>1, MayActSlots
<1>4. /\ Returning(r) => stack' = stack /\ UNCHANGED <<status, worker>>
      /\ ~Returning(r) => SetDone(r, Leaving(r, stack)) /\ Leaving(r, stack) \in Seq(Frames)
  BY <1>1, FinalizeShape
<1>5. SlotOf(r) /\ ~Owed(stack, r) /\ r \notin lost
  <2>1. SlotOf(r)
    BY <1>1 DEF Slots
  <2>2. QED
    BY <1>1, <2>1, StagesDiffer DEF SlotOf
<1>6. Renewal'
  <2>1. r \notin Checkers
    BY FetchAssumption
  <2>2. \A c \in Checkers : stage'[c] = stage[c]
    BY <1>2, <2>1 DEF Ids
  <2>3. QED
    BY <1>3, <2>2, StillNotRenewing
<1>7. CASE Returning(r)
  <2>1. stack' = stack /\ UNCHANGED <<status, worker>> /\ Returns(stack, r)
    BY <1>4, <1>7, ReturningIs
  <2>2. SlotOf(r)'
    BY <1>1, <1>2, <1>5, <2>1, StagesDiffer DEF SlotOf
  <2>3. ASSUME NEW j \in Ids, j # r PROVE SlotOf(j)'
    <3>1. SlotOf(j) /\ FramesOf(stack', j)
      BY <2>1 DEF Slots, SlotOf
    <3>2. QED
      BY <1>1, <1>2, <2>1, <2>3, <3>1, SameSlot
  <2>4. Todo'
    <3>1. r \in worker.todo => status[r] = "Pending"
      BY <1>1 DEF Todo
    <3>2. \A j \in worker.todo : j = r \/ stage'[j] = stage[j]
      BY <1>2, Stacked
    <3>3. QED
      BY <2>1, <3>1, <3>2 DEF Todo
  <2>5. QED
    BY <1>6, <2>2, <2>3, <2>4 DEF Slots
<1>8. CASE ~Returning(r)
  <2>1. /\ status'[r] = "Absent" /\ \A j \in Ids \ {r} : status'[j] = status[j]
        /\ SameAbout(stack', Leaving(r, stack))
        /\ \A j \in worker'.todo : j \in worker.todo \/ status'[j] = "Pending"
    BY <1>1, <1>4, <1>8, DoneGives
  <2>2. SameAbout(stack', stack) /\ ~Returns(stack, r)
    <3>1. SameAbout(Leaving(r, stack), stack)
      BY <1>1, LeavingAbout
    <3>2. QED
      BY <1>8, <2>1, <3>1, ReturningIs DEF SameAbout
  <2>3. SlotOf(r)'
    BY <1>1, <1>2, <1>5, <2>1, <2>2, StagesDiffer DEF SlotOf, SameAbout
  <2>4. ASSUME NEW j \in Ids, j # r PROVE SlotOf(j)'
    <3>1. SlotOf(j) /\ FramesOf(stack', j)
      BY <2>2 DEF Slots, SlotOf, SameAbout
    <3>2. QED
      BY <1>1, <1>2, <2>1, <2>2, <2>4, <3>1, SameSlot DEF SameAbout
  <2>5. Todo'
    <3>1. \A j \in worker.todo : j = r \/ (status'[j] = status[j] /\ stage'[j] = stage[j])
      BY <1>2, <2>1, Stacked
    <3>2. QED
      BY <1>2, <1>3, <2>1, <3>1 DEF Todo
  <2>6. QED
    BY <1>6, <2>3, <2>4, <2>5 DEF Slots
<1>9. QED
  BY <1>7, <1>8

LEMMA ApplicationSlots ==
    ASSUME TypeInv, Slots, Todo, Renewal, Application
    PROVE  Slots' /\ Todo' /\ Renewal'
<1>1. ASSUME NEW ids \in SUBSET Ids, MayAct, stack' = <<Frame("tell", ids, "cancelled")>> \o stack,
             UNCHANGED <<status, worker, stage, lost>>
      PROVE  Slots' /\ Todo' /\ Renewal'
  <2> DEFINE a == Frame("tell", ids, "cancelled")
  <2>1. a \in Frames /\ a.do = "tell" /\ stack' = Put(a, stack) /\ stack \in Seq(Frames)
    BY <1>1, Parts DEF Frame, Frames, Ended, Put
  <2> HIDE DEF a
  <2>2. SameAbout(stack', stack)
    BY <2>1, PlainAbout
  <2>3. ASSUME NEW j \in Ids PROVE SlotOf(j)'
    <3>1. SlotOf(j) /\ FramesOf(stack', j)
      BY <2>2 DEF Slots, SlotOf, SameAbout
    <3>2. QED
      BY <1>1, <2>2, <3>1, SameSlot DEF SameAbout
  <2>4. Todo' /\ Renewal'
    BY <1>1, MayActSlots, StillNotRenewing, TodoAfter
  <2>5. QED
    BY <2>3, <2>4 DEF Slots
<1>2. ASSUME NEW r \in Requests, ResolveCanceler(r) PROVE Slots' /\ Todo' /\ Renewal'
  <2>1. {x \in Requests : Live(x) /\ RequestId[x] = RequestId[r]} \in SUBSET Ids
    BY DEF Ids
  <2>2. QED
    BY <1>1, <1>2, <2>1 DEF ResolveCanceler
<1>3. ASSUME CancelAllInFlightRequests PROVE Slots' /\ Todo' /\ Renewal'
  BY <1>1, <1>3 DEF CancelAllInFlightRequests
<1>4. QED
  BY <1>2, <1>3, SubscribeSlots, UnsubscribeSlots DEF Application

-----------------------------------------------------------------------------
(* The slots and the network *)

\* Only requests wait for a renewal, and only they may not do.
Renewals == \A c \in Checkers : stage[c] \notin {"auth", "stuck"}

LEMMA NextRenewals == ASSUME TypeInv, Renewals, [Next]_vars PROVE Renewals'
<1>1. /\ stage \in [Ids -> Stages] /\ Requests \subseteq Ids /\ Checkers \subseteq Ids
      /\ \A c \in Checkers : c \notin Requests /\ c \notin Malformed
  BY Parts, FetchAssumption DEF Ids
<1>2. \A end \in Ended : end \notin {"auth", "stuck"}
  BY DEF Ended
<1>3. ASSUME UNCHANGED stage PROVE Renewals'
  BY <1>3 DEF Renewals
<1>4. ASSUME NEW i \in Ids, NEW end, stage' = [stage EXCEPT ![i] = end],
             i \in Requests \/ end \notin {"auth", "stuck"}
      PROVE  Renewals'
  BY <1>1, <1>4 DEF Renewals
<1>5. ASSUME EventStep PROVE Renewals'
  <2>1. ASSUME NEW i \in Ids, Tell(i) PROVE Renewals'
    BY <1>2, <1>3, <1>4, <2>1, TellShape
  <2>2. ASSUME NEW i \in Ids, Release(i) PROVE Renewals'
    BY <1>3, <1>4, <2>2, ReleaseShape
  <2>3. ASSUME NEW i \in Ids, NEW outcome, StartFetch(i, outcome) PROVE Renewals'
    <3>1. outcome = "sent" \/ i \in Requests \/ stage' = stage
      BY <2>3, FetchAssumption DEF StartFetch
    <3>2. stage' = stage \/ stage' = [stage EXCEPT ![i] = outcome]
      BY <2>3, StartFetchShape
    <3>3. QED
      BY <1>3, <1>4, <3>1, <3>2
  <2>4. ASSUME NEW i \in Ids, EmitEntry(i) \/ Teardown(i) \/ Returned(i) PROVE Renewals'
    BY <1>3, <2>4 DEF EmitEntry, Teardown, Returned
  <2>5. ASSUME NextUpdate \/ AllTold PROVE Renewals'
    BY <1>3, <2>5 DEF NextUpdate, AllTold
  <2>6. QED
    BY <1>5, <2>1, <2>2, <2>3, <2>4, <2>5 DEF EventStep
<1>6. ASSUME Application PROVE Renewals'
  BY <1>1, <1>3, <1>4, <1>6
     DEF Application, Subscribe, Unsubscribe, ResolveCanceler, CancelAllInFlightRequests
<1>7. ASSUME NEW i \in Ids, Answer(i) PROVE Renewals'
  <2>1. ASSUME NEW end \in {"ok", "failed"}, Respond(i, end) PROVE Renewals'
    BY <1>4, <2>1 DEF Respond
  <2>2. ASSUME NotRenewed(i) PROVE Renewals'
    BY <1>4, <2>2 DEF NotRenewed
  <2>3. ASSUME Renewed(i) PROVE Renewals'
    BY <1>1, <2>3 DEF Renewed, Renewals
  <2>4. ASSUME NEW c \in Checkers, Unauthorized(i, c) PROVE Renewals'
    BY <1>1, <2>4 DEF Unauthorized, Renewals
  <2>5. QED
    BY <1>7, <2>1, <2>2, <2>3, <2>4 DEF Answer
<1>8. QED
  BY <1>3, <1>5, <1>6, <1>7 DEF Next, vars

LEMMA RespondSlots ==
    ASSUME TypeInv, Slots, Todo, Renewal, NEW i \in Ids, NEW end \in Ended, stack = <<>>,
           stage[i] = "sent", stage' = [stage EXCEPT ![i] = end], stack' = EndFrames(i, end),
           UNCHANGED <<status, worker, lost>>
    PROVE  Slots' /\ Todo' /\ Renewal'
<1>1. stack' = EndFrames(i, end) \o <<>> /\ <<>> \in Seq(Frames)
  BY EndAlone, EmptyStack
<1>2. ~Renewing /\ Live(i) /\ SameAbout(<<>>, stack)
  BY NotRenewing, StagesDiffer DEF SameAbout
<1>3. QED
  BY <1>1, <1>2, EndSlots

\* The requests that waited for a renewal keep their slots.
LEMMA RenewedSlots ==
    ASSUME TypeInv, Slots, Todo, Renewal, NEW c \in Ids, Renewed(c)
    PROVE  Slots' /\ Todo' /\ Renewal'
<1> DEFINE a == Frame("done", {c}, "ok")
<1>1. a \in Frames /\ a.do = "done" /\ a.ids = {c}
  <2>1. {c} \in SUBSET Ids /\ "ok" \in Ended
    BY DEF Ended
  <2>2. a \in Frames
    BY <2>1, MakeFrame
  <2>3. QED
    BY <2>2 DEF Frame
<1>2. stack = <<>> /\ stack' = Put(a, <<>>) /\ <<>> \in Seq(Frames)
  <2>1. <<a>> \o <<>> = <<a>>
    <3> HIDE DEF a
    <3>1. <<a>> \in Seq(Frames)
      BY <1>1
    <3>2. QED
      BY <3>1, ConcatEmptySeq
  <2>2. QED
    BY <2>1, EmptyStack DEF Renewed, Put
<1> HIDE DEF a
<1>3. /\ stage[c] = "sent" /\ stage'[c] = "ok" /\ c \notin Requests
      /\ \A j \in Ids \ {c} : stage'[j] = stage[j] \/ (stage[j] = "auth" /\ stage'[j] = "sent")
      /\ UNCHANGED <<status, worker, lost>>
  <2>1. c \notin Requests
    BY FetchAssumption DEF Renewed
  <2>2. QED
    BY <2>1 DEF Renewed, Waiters
<1>4. \A j \in Ids : /\ Owed(stack', j) <=> j = c
                     /\ ~Starting(stack', j) /\ ~Returns(stack', j) /\ FramesOf(stack', j)
  <2>1. a.do # "start" /\ a.do # "return" /\ \A j : j \in a.ids <=> j = c
    BY <1>1
  <2>2. QED
    BY <1>1, <1>2, <2>1, PutAbout, EmptyAbout
<1>5. \A j \in Ids : ~Owed(stack, j) /\ ~Starting(stack, j) /\ ~Returns(stack, j)
  BY <1>2, EmptyAbout
<1>6. ASSUME NEW j \in Ids PROVE SlotOf(j)'
  <2>1. SlotOf(j)
    BY DEF Slots
  <2>2. CASE j = c
    <3>1. status'[j] = "InProgress" /\ stage'[j] = "ok" /\ j \notin lost'
      BY <1>3, <2>1, <2>2, StagesDiffer DEF SlotOf
    <3>2. QED
      BY <1>4, <2>2, <3>1, StagesDiffer DEF SlotOf
  <2>3. CASE j # c /\ stage'[j] = stage[j]
    BY <1>3, <1>4, <1>5, <2>1, <2>3, SameSlot
  <2>4. CASE j # c /\ stage[j] = "auth" /\ stage'[j] = "sent"
    <3>1. status'[j] = "InProgress" /\ j \notin lost'
      BY <1>3, <2>1, <2>4, StagesDiffer DEF SlotOf
    <3>2. QED
      BY <1>4, <2>4, <3>1, StagesDiffer DEF SlotOf
  <2>5. QED
    BY <1>3, <2>2, <2>3, <2>4
<1>7. Todo'
  BY <1>2, <1>3, QuietIsIdle DEF Todo, Idle
<1>8. Renewal'
  <2>1. ~Renewing
    BY <1>2, NotRenewing
  <2>2. \A d \in Checkers : stage'[d] = "waiting" => stage[d] = "waiting"
    BY <1>3 DEF Ids
  <2>3. QED
    BY <2>1, <2>2, StillNotRenewing
<1>9. QED
  BY <1>6, <1>7, <1>8 DEF Slots

\* With every slot taken an update gives the worker the API requests only.
LEMMA SelectedAlone ==
    ASSUME NEW s, NEW ar, NEW n \in Nat, NEW c, PendingOf(s) \ DataQueries = {c},
           PendingOf(s) # {c} => n >= MaxParallel
    PROVE  Selected(s, ar, n) = {c}
<1> DEFINE api == PendingOf(s) \ DataQueries
           data == PendingOf(s) \cap DataQueries
           ahead(d) == {f \in data : ar[f] < ar[d]}
<1>1. Selected(s, ar, n) =
         api \cup {d \in data : Cardinality(ahead(d)) < MaxParallel - n - Cardinality(api)}
  BY DEF Selected
<1>2. ASSUME NEW d \in data PROVE ~(Cardinality(ahead(d)) < MaxParallel - n - Cardinality(api))
  <2>1. n >= MaxParallel /\ MaxParallel \in Nat
    BY FetchAssumption
  <2>2. ahead(d) \subseteq Ids /\ api \subseteq Ids
    BY DEF PendingOf
  <2>3. Cardinality(ahead(d)) \in Nat /\ Cardinality(api) \in Nat
    BY <2>2, Counts
  <2> DEFINE x == Cardinality(ahead(d))   y == Cardinality(api)
  <2> HIDE DEF x, y
  <2>4. ~(x < MaxParallel - n - y)
    BY <2>1, <2>3 DEF x, y
  <2>5. QED
    BY <2>4 DEF x, y
<1>3. QED
  BY <1>1, <1>2

\* A renewal starts between events: it is all that the worker takes.
LEMMA UnauthorizedSlots ==
    ASSUME TypeInv, Waiting, Slots, Todo, Renewal, Renewals,
           NEW r \in Ids, NEW c \in Checkers, Unauthorized(r, c)
    PROVE  Slots' /\ Todo' /\ Renewal'
<1>1. /\ stack = <<>> /\ r \in Requests /\ stage[r] = "sent" /\ c \in Ids /\ c \notin Requests
      /\ c # r /\ lost' = lost /\ stage \in [Ids -> Stages]
  BY Parts, FetchAssumption DEF Unauthorized, Ids
<1>2. ~Renewing /\ worker = Idle /\ worker.todo = {}
  BY <1>1, NotRenewing, QuietIsIdle DEF Idle
<1>3. \A j \in Ids : /\ ~Owed(stack, j) /\ ~Starting(stack, j) /\ ~Returns(stack, j)
                     /\ FramesOf(stack, j)
  BY <1>1, EmptyAbout
<1>4. SlotOf(r) /\ SlotOf(c) /\ status[r] = "InProgress" /\ r \notin lost /\ c \notin lost
  <2>1. SlotOf(r) /\ SlotOf(c)
    BY <1>1 DEF Slots
  <2>2. QED
    BY <1>1, <2>1, StagesDiffer DEF SlotOf
<1>5. CASE stage[c] \in {"waiting", "sent"}
  <2>1. stage' = [stage EXCEPT ![r] = "auth"] /\ UNCHANGED <<status, worker, stack>>
    BY <1>5 DEF Unauthorized
  <2>2. stage'[r] = "auth" /\ \A j \in Ids \ {r} : stage'[j] = stage[j]
    BY <1>1, <2>1
  <2>3. SlotOf(r)'
    <3>1. status'[r] = "InProgress" /\ r \notin lost' /\ stack' = stack
      BY <1>1, <1>4, <2>1
    <3>2. QED
      BY <1>3, <2>2, <3>1, StagesDiffer DEF SlotOf
  <2>4. ASSUME NEW j \in Ids, j # r PROVE SlotOf(j)'
    BY <1>1, <1>3, <2>1, <2>2, <2>4, SameSlot DEF Slots
  <2>5. Todo'
    BY <1>2, <2>1 DEF Todo
  <2>6. Renewal'
    <3>1. \A d \in Checkers : stage'[d] = "waiting" => stage[d] = "waiting"
      BY <2>2 DEF Ids
    <3>2. QED
      BY <1>2, <3>1, StillNotRenewing
  <2>7. QED
    BY <2>3, <2>4, <2>5, <2>6 DEF Slots
<1>6. CASE stage[c] \notin {"waiting", "sent"}
  <2>1. stage' = [stage EXCEPT ![r] = "auth", ![c] = "waiting"] /\ Add(c, stack)
    BY <1>6 DEF Unauthorized
  <2>2. /\ stage'[r] = "auth" /\ stage'[c] = "waiting"
        /\ \A j \in Ids \ {r, c} : stage'[j] = stage[j]
    BY <1>1, <2>1
  <2>3. /\ status'[c] = "Pending" /\ \A j \in Ids \ {c} : status'[j] = status[j]
        /\ SameAbout(stack', stack)
        /\ \A j \in worker'.todo : j \in worker.todo \/ status'[j] = "Pending"
    BY <1>1, <2>1, Parts, AddGives
  <2>4. \A j \in Ids : /\ ~Owed(stack', j) /\ ~Starting(stack', j) /\ ~Returns(stack', j)
                       /\ FramesOf(stack', j)
    BY <1>3, <2>3 DEF SameAbout
  <2>5. SlotOf(c)'
    <3>1. status'[c] = "Pending" /\ stage'[c] = "waiting" /\ c \notin lost'
      BY <1>1, <1>4, <2>2, <2>3
    <3>2. QED
      BY <1>1, <2>4, <3>1, StagesDiffer DEF SlotOf
  <2>6. SlotOf(r)'
    <3>1. status'[r] = "InProgress" /\ stage'[r] = "auth" /\ r \notin lost'
      BY <1>1, <1>4, <2>2, <2>3
    <3>2. QED
      BY <1>1, <2>4, <3>1, StagesDiffer DEF SlotOf
  <2>7. ASSUME NEW j \in Ids, j # r, j # c PROVE SlotOf(j)'
    <3>1. SlotOf(j)
      BY DEF Slots
    <3>2. QED
      BY <1>1, <1>3, <2>2, <2>3, <2>4, <2>7, <3>1, SameSlot
  <2>8. Todo'
    BY <1>2, <2>3 DEF Todo
  <2>9. Renewal'
    <3> DEFINE s == [status EXCEPT ![c] = "Pending"]
               ar == [arrival EXCEPT ![c] = NextArrival]
    <3>1. Publish(s, ar, worker, stack) /\ status \in [Ids -> Statuses]
      BY <2>1, Parts DEF Add
    <3>2. status[c] = "Absent"
      <4>1. stage[c] \notin {"waiting", "sent", "auth", "stuck"}
        BY <1>6 DEF Renewals
      <4>2. status[c] \in Statuses
        BY <1>1, <3>1
      <4>3. QED
        BY <1>1, <1>3, <1>4, <4>1, <4>2, StagesDiffer DEF SlotOf, Statuses
    <3>3. /\ PendingOf(s) = PendingOf(status) \cup {c}
          /\ InProgressOf(s) = InProgressOf(status)
      <4>1. s[c] = "Pending" /\ \A j \in Ids \ {c} : s[j] = status[j]
        BY <1>1, <3>1
      <4> HIDE DEF s
      <4>2. {j \in Ids : s[j] = "InProgress"} = {j \in Ids : status[j] = "InProgress"}
        BY <3>2, <4>1
      <4>3. QED
        BY <1>1, <4>1, <4>2 DEF PendingOf, InProgressOf
    <3> HIDE DEF s, ar
    <3>4. /\ PendingOf(status) \subseteq DataQueries
          /\ PendingOf(status) # {} => InProgressOf(status) >= MaxParallel
      BY <1>2 DEF Waiting, Idle
    <3>5. PendingOf(s) \ DataQueries = {c} /\ InProgressOf(s) \in Nat
      BY <1>1, <3>3, <3>4, FetchAssumption, InProgressIsNat
    <3>6. Selected(s, ar, InProgressOf(s)) = {c}
      BY <3>3, <3>4, <3>5, SelectedAlone
    <3>7. stack' = Put(WorkerFrame, stack) /\ worker' = Taken(s, ar)
      BY <1>2, <3>1, <3>5, PublishCases DEF Idle
    <3>8. worker'.todo = {c}
      BY <3>6, <3>7 DEF Taken
    <3>9. Calm(stack')
      BY <1>1, <3>7, WorkerFrameIs, EmptyStack, EmptyAbout, CalmCons
    <3>10. \A d \in Checkers : stage'[d] = "waiting" => d = c
      BY <1>1, <1>2, <2>2, FetchAssumption DEF Renewing, Ids
    <3>11. QED
      BY <2>4, <3>8, <3>9, <3>10 DEF Renewal
  <2>10. QED
    BY <2>5, <2>6, <2>7, <2>8, <2>9 DEF Slots
<1>7. QED
  BY <1>5, <1>6

LEMMA AnswerSlots ==
    ASSUME TypeInv, Waiting, Slots, Todo, Renewal, Renewals, NEW i \in Ids, Answer(i)
    PROVE  Slots' /\ Todo' /\ Renewal'
<1>1. ASSUME NEW end \in {"ok", "failed"}, Respond(i, end) PROVE Slots' /\ Todo' /\ Renewal'
  BY <1>1, RespondSlots DEF Respond, Ended
<1>2. ASSUME NotRenewed(i) PROVE Slots' /\ Todo' /\ Renewal'
  BY <1>2, RespondSlots DEF NotRenewed, Ended
<1>3. QED
  BY <1>1, <1>2, RenewedSlots, UnauthorizedSlots DEF Answer

-----------------------------------------------------------------------------
(* Slots are held *)

SlotInv == Waiting /\ Slots /\ Above /\ Todo /\ Renewal /\ Renewals

LEMMA InitSlots == Init => SlotInv
<1> SUFFICES ASSUME Init PROVE SlotInv
  OBVIOUS
<1>1. /\ stack = <<>> /\ worker = Idle /\ lost = {}
      /\ \A i \in Ids : status[i] = "Absent" /\ stage[i] = "new"
  BY DEF Init
<1>2. Waiting /\ Todo
  BY <1>1 DEF Waiting, Todo, PendingOf, Idle
<1>3. Slots
  BY <1>1, EmptyAbout, StagesDiffer DEF Slots, SlotOf
<1>4. Above
  BY <1>1 DEF Above
<1>5. Renewal /\ Renewals
  BY <1>1 DEF Renewal, Renewals, Ids
<1>6. QED
  BY <1>2, <1>3, <1>4, <1>5 DEF SlotInv

LEMMA NextSlots == ASSUME TypeInv, TypeInv', SlotInv, [Next]_vars PROVE SlotInv'
<1>1. Waiting /\ Slots /\ Above /\ Todo /\ Renewal /\ Renewals
  BY DEF SlotInv
<1>2. Waiting' /\ Renewals'
  BY <1>1, NextWaiting, NextRenewals
<1>3. ASSUME EventStep PROVE Slots' /\ Todo' /\ Renewal' /\ Above'
  <2>1. Above'
    BY <1>1, <1>3, EventAbove
  <2>2. QED
    BY <1>1, <1>3, <2>1, EmitEntrySlots, TellSlots, TeardownSlots, ReturnedSlots, ReleaseSlots,
       StartFetchSlots, NextUpdateSlots, AllToldSlots DEF EventStep
<1>4. ASSUME Application PROVE Slots' /\ Todo' /\ Renewal' /\ Above'
  BY <1>1, <1>4, ApplicationSlots, ApplicationAbove
<1>5. ASSUME NEW i \in Ids, Answer(i) PROVE Slots' /\ Todo' /\ Renewal' /\ Above'
  BY <1>1, <1>5, AnswerSlots, AnswerAbove
<1>6. ASSUME UNCHANGED vars PROVE Slots' /\ Todo' /\ Renewal' /\ Above'
  <2>1. UNCHANGED <<status, worker, stack, stage, lost>>
    BY <1>6 DEF vars
  <2>2. ASSUME NEW j \in Ids PROVE SlotOf(j)'
    <3>1. SlotOf(j) /\ FramesOf(stack', j)
      BY <1>1, <2>1 DEF Slots, SlotOf
    <3>2. QED
      BY <2>1, <3>1, SameSlot
  <2>3. Todo' /\ Renewal'
    BY <1>1, <2>1 DEF Todo, Renewal
  <2>4. Above'
    BY <1>1, <2>1 DEF Above
  <2>5. QED
    BY <2>2, <2>3, <2>4 DEF Slots
<1>7. QED
  BY <1>2, <1>3, <1>4, <1>5, <1>6 DEF Next, SlotInv

LEMMA AlwaysSlots == Spec => [](TypeInv /\ SlotInv)
<1>1. Init => SlotInv
  BY InitSlots
<1>2. TypeInv /\ TypeInv' /\ SlotInv /\ [Next]_vars => SlotInv'
  BY NextSlots
<1> HIDE DEF SlotInv, TypeInv
<1>3. QED
  BY <1>1, <1>2, AlwaysTypes, PTL DEF Spec

\* Between events a slot is held by exactly the requests that are in flight,
\* whatever consumers do when they are told of an end, except those of requests
\* that could not be built or that were dropped when they had been selected.
THEOREM SlotsAreHeldByThoseInFlight == Spec => []SlotsAreHeld
<1>1. TypeInv /\ SlotInv => SlotsAreHeld
  <2> SUFFICES ASSUME SlotInv, Quiet, NEW i \in Ids
               PROVE  /\ status[i] = "InProgress" <=> Live(i) \/ stage[i] = "stuck" \/ i \in lost
                      /\ status[i] = "Pending" <=> stage[i] = "waiting"
                      /\ i \in lost => Reentrant # {} /\ stage[i] = "dropped"
    BY DEF SlotsAreHeld
  <2>1. SlotOf(i)
    BY DEF SlotInv, Slots
  <2>2. ~Owed(stack, i) /\ ~Starting(stack, i) /\ ~Returns(stack, i)
    BY EmptyAbout DEF Quiet
  <2>3. QED
    BY <2>1, <2>2 DEF SlotOf
<1>2. QED
  BY <1>1, AlwaysSlots, PTL
=============================================================================
