------------------------- MODULE TenantQueue_proofs -------------------------
(***************************************************************************)
(* For any tenants, workers, requests and limits: the round-robin list is  *)
(* exact and no tenant is served twice while another waits.  The latter is *)
(* not inductive: a tenant that was served goes behind those that wait, so *)
(* what is kept is that nobody in front of a waiting tenant has been       *)
(* served since it began to wait (ServedIsBehind).                         *)
(***************************************************************************)
EXTENDS TenantQueue, SequenceTheorems, TLAPS

\* A tenant that is in front of t has not been served while t waits.
ServedIsBehind ==
    \A i, j \in 1..Len(activeTenants) :
        i < j => turns[activeTenants[j]][activeTenants[i]] = 0

\* A caller in Enqueue has a try left, so its count stays within MaxRetries.
SendersHaveTries == \A r \in Requests : caller[r] = "sending" => retries[r] < MaxRetries

IInv ==
    /\ TypeOK
    /\ SendersHaveTries
    /\ ActiveTenantsAgree
    /\ FairTurns
    /\ ServedIsBehind

\* What the round-robin part of the invariant is about.
roundRobinVars == <<queue, isActive, activeTenants, turns>>

RoundRobin == ActiveTenantsAgree /\ FairTurns /\ ServedIsBehind

LEMMA InitIInv == Init => IInv
<1> SUFFICES ASSUME Init PROVE IInv
  OBVIOUS
<1>1. TypeOK
  <2>1. /\ \A S : <<>> \in Seq(S)
        /\ 0 \in 0..MaxRetries /\ 0 <= MaxSize /\ Len(<<>>) = 0
    BY QueueAssumption, EmptySeq
  <2>2. /\ queue \in [Tenants -> Seq(Requests)]
        /\ accepted \in [Tenants -> Seq(Requests)]
        /\ activeTenants \in Seq(Tenants)
        /\ pending \in Seq(Workers)
    BY <2>1 DEF Init
  <2>3. /\ turns \in [Tenants -> [Tenants -> Nat]]
        /\ retries \in [Requests -> 0..MaxRetries]
    BY <2>1 DEF Init
  <2>4. \A t \in Tenants : Len(queue[t]) <= MaxSize
    BY <2>1 DEF Init
  <2>5. QED
    BY <2>2, <2>3, <2>4 DEF Init, TypeOK
<1>2. SendersHaveTries
  BY DEF Init, SendersHaveTries
<1>3. ActiveTenantsAgree /\ FairTurns /\ ServedIsBehind
  BY DEF Init, ActiveTenantsAgree, FairTurns, ServedIsBehind, In
<1>4. QED
  BY <1>1, <1>2, <1>3 DEF IInv

\* Steps that leave the round-robin alone.
LEMMA RoundRobinUnchanged ==
    ASSUME RoundRobin, UNCHANGED roundRobinVars
    PROVE  RoundRobin'
BY DEF RoundRobin, roundRobinVars, ActiveTenantsAgree, FairTurns, ServedIsBehind, In

\* A delivery takes the front tenant out of the list or moves it to the end.
LEMMA DeliverKeepsRoundRobin ==
    ASSUME IInv, Deliver
    PROVE  RoundRobin'
<1> DEFINE t == Head(activeTenants)
           rest == Tail(activeTenants)
           left == Tail(queue[t])
           n == Len(activeTenants)
<1>1. TypeOK /\ ActiveTenantsAgree /\ FairTurns /\ ServedIsBehind
  BY DEF IInv
<1>2. /\ activeTenants \in Seq(Tenants) /\ activeTenants # <<>>
      /\ n \in Nat /\ n > 0 /\ t \in Tenants /\ t = activeTenants[1]
  BY <1>1, HeadTailProperties, EmptySeq DEF Deliver, TypeOK
<1>3. /\ rest \in Seq(Tenants) /\ Len(rest) = n - 1
      /\ \A i \in 1..(n - 1) : rest[i] = activeTenants[i + 1]
  BY <1>2, HeadTailProperties
<1>4. /\ queue' = [queue EXCEPT ![t] = left]
      /\ isActive' = [isActive EXCEPT ![t] = left # <<>>]
      /\ activeTenants' = IF left = <<>> THEN rest ELSE Append(rest, t)
  BY DEF Deliver, NextTenants, Rest
<1>5. \A i \in 1..(n - 1) : rest[i] \in Tenants /\ rest[i] # t
  BY <1>1, <1>2, <1>3 DEF ActiveTenantsAgree
<1>6. \A i, j \in 1..(n - 1) : rest[i] = rest[j] => i = j
  BY <1>1, <1>2, <1>3 DEF ActiveTenantsAgree
<1>7. \A u \in Tenants : u # t => (In(u, activeTenants) <=> In(u, rest))
  <2> SUFFICES ASSUME NEW u \in Tenants, u # t
               PROVE  In(u, activeTenants) <=> In(u, rest)
    OBVIOUS
  <2>1. ASSUME NEW i \in 1..n, activeTenants[i] = u PROVE In(u, rest)
    <3>1. i - 1 \in 1..(n - 1) /\ rest[i - 1] = u
      BY <1>2, <1>3, <2>1
    <3>2. QED
      BY <1>3, <3>1 DEF In
  <2>2. ASSUME NEW i \in 1..(n - 1), rest[i] = u PROVE In(u, activeTenants)
    BY <1>2, <1>3, <2>2 DEF In
  <2>3. QED
    BY <2>1, <2>2, <1>3 DEF In
<1>8. /\ \A v \in Tenants : isActive[v] /\ v # t => turns[v][t] = 0
      /\ turns \in [Tenants -> [Tenants -> Nat]]
  <2>1. ASSUME NEW v \in Tenants, isActive[v], v # t PROVE turns[v][t] = 0
    <3>1. PICK j \in 1..n : activeTenants[j] = v
      BY <1>1, <2>1 DEF ActiveTenantsAgree, In
    <3>2. QED
      BY <1>1, <1>2, <2>1, <3>1 DEF ServedIsBehind
  <2>2. QED
    BY <2>1, <1>1 DEF TypeOK
<1>9. \A v, u \in Tenants :
         turns'[v][u] = IF v # t /\ u = t /\ isActive[v] THEN turns[v][u] + 1
                        ELSE IF v = t THEN 0 ELSE turns[v][u]
  BY DEF Deliver
<1>10. \A u \in Tenants : u # t => (isActive'[u] = isActive[u] /\ queue'[u] = queue[u])
  BY <1>4, <1>1 DEF TypeOK
<1>11. isActive'[t] = (left # <<>>) /\ queue'[t] = left
  BY <1>4, <1>2, <1>1 DEF TypeOK
<1>12. FairTurns'
  <2> SUFFICES ASSUME NEW v \in Tenants, NEW u \in Tenants, isActive'[v]
               PROVE  turns'[v][u] <= 1
    BY DEF FairTurns
  <2>1. CASE v = t
    BY <2>1, <1>9
  <2>2. CASE v # t /\ u = t
    BY <2>2, <1>8, <1>9, <1>10
  <2>3. CASE v # t /\ u # t
    BY <2>3, <1>1, <1>9, <1>10 DEF FairTurns
  <2>4. QED
    BY <2>1, <2>2, <2>3
<1>13. CASE left = <<>>
  <2>1. activeTenants' = rest /\ ~In(t, rest)
    BY <1>13, <1>4, <1>3, <1>5 DEF In
  <2>2. ActiveTenantsAgree'
    <3>1. \A u \in Tenants : isActive'[u] <=> queue'[u] # <<>>
      BY <1>1, <1>10, <1>11, <1>13 DEF ActiveTenantsAgree
    <3>2. \A u \in Tenants : isActive'[u] <=> In(u, activeTenants')
      BY <1>1, <1>7, <1>10, <1>11, <1>13, <2>1 DEF ActiveTenantsAgree
    <3>3. QED
      BY <3>1, <3>2, <2>1, <1>3, <1>6 DEF ActiveTenantsAgree, In
  <2>3. ServedIsBehind'
    <3> SUFFICES ASSUME NEW i \in 1..(n - 1), NEW j \in 1..(n - 1), i < j
                 PROVE  turns'[rest[j]][rest[i]] = 0
      BY <2>1, <1>3 DEF ServedIsBehind
    <3>1. turns[rest[j]][rest[i]] = 0
      BY <1>1, <1>2, <1>3 DEF ServedIsBehind
    <3>2. QED
      BY <3>1, <1>5, <1>9
  <2>4. QED
    BY <1>12, <2>2, <2>3 DEF RoundRobin
<1>14. CASE left # <<>>
  <2>1. /\ activeTenants' = Append(rest, t) /\ Len(activeTenants') = n
        /\ \A i \in 1..(n - 1) : activeTenants'[i] = rest[i]
        /\ activeTenants'[n] = t
    BY <1>14, <1>4, <1>3, <1>2, AppendProperties
  <2>2. ActiveTenantsAgree'
    <3>1. \A u \in Tenants : isActive'[u] <=> queue'[u] # <<>>
      BY <1>1, <1>10, <1>11, <1>14 DEF ActiveTenantsAgree
    <3>2. \A u \in Tenants : u # t => (In(u, activeTenants') <=> In(u, rest))
      <4> SUFFICES ASSUME NEW u \in Tenants, u # t
                   PROVE  In(u, activeTenants') <=> In(u, rest)
        OBVIOUS
      <4>1. ASSUME NEW i \in 1..n, activeTenants'[i] = u
            PROVE  i \in 1..(n - 1) /\ rest[i] = u
        BY <4>1, <2>1, <1>2
      <4>2. ASSUME NEW i \in 1..(n - 1), rest[i] = u
            PROVE  i \in 1..n /\ activeTenants'[i] = u
        BY <4>2, <2>1, <1>2
      <4>3. In(u, activeTenants') <=> \E i \in 1..n : activeTenants'[i] = u
        BY <2>1 DEF In
      <4>4. In(u, rest) <=> \E i \in 1..(n - 1) : rest[i] = u
        BY <1>3 DEF In
      <4>5. QED
        BY <4>1, <4>2, <4>3, <4>4
    <3>3. In(t, activeTenants')
      BY <2>1, <1>2 DEF In
    <3>4. \A u \in Tenants : isActive'[u] <=> In(u, activeTenants')
      BY <1>1, <1>7, <1>10, <1>11, <1>14, <3>2, <3>3 DEF ActiveTenantsAgree
    <3>5. \A i, j \in 1..n : activeTenants'[i] = activeTenants'[j] => i = j
      BY <2>1, <1>2, <1>5, <1>6
    <3>6. QED
      BY <3>1, <3>4, <3>5, <2>1 DEF ActiveTenantsAgree, In
  <2>3. ServedIsBehind'
    <3> SUFFICES ASSUME NEW i \in 1..n, NEW j \in 1..n, i < j
                 PROVE  turns'[activeTenants'[j]][activeTenants'[i]] = 0
      BY <2>1 DEF ServedIsBehind
    <3>1. i \in 1..(n - 1) /\ activeTenants'[i] = rest[i] /\ rest[i] \in Tenants
      BY <2>1, <1>2, <1>5
    <3>2. CASE j = n
      BY <3>1, <3>2, <2>1, <1>2, <1>9
    <3>3. CASE j # n
      <4>1. j \in 1..(n - 1) /\ activeTenants'[j] = rest[j]
        BY <3>3, <2>1, <1>2
      <4>2. turns[rest[j]][rest[i]] = 0
        BY <4>1, <3>1, <1>1, <1>2, <1>3 DEF ServedIsBehind
      <4>3. QED
        BY <4>1, <4>2, <3>1, <1>5, <1>9
    <3>4. QED
      BY <3>2, <3>3
  <2>4. QED
    BY <1>12, <2>2, <2>3 DEF RoundRobin
<1>15. QED
  BY <1>13, <1>14

\* An accepted item makes its tenant wait at the end of the list, or joins those
\* of a tenant that is in it.
LEMMA AcceptKeepsRoundRobin ==
    ASSUME IInv, NEW r \in Requests, AcceptItem(r)
    PROVE  RoundRobin'
<1> DEFINE t == TenantOf[r]
           n == Len(activeTenants)
           items == Append(queue[t], r)
<1>1. TypeOK /\ ActiveTenantsAgree /\ FairTurns /\ ServedIsBehind /\ t \in Tenants
  BY QueueAssumption DEF IInv
<1>2. /\ queue' = [queue EXCEPT ![t] = items]
      /\ isActive' = [isActive EXCEPT ![t] = TRUE]
      /\ activeTenants' = IF isActive[t] THEN activeTenants ELSE Append(activeTenants, t)
      /\ turns' = IF isActive[t] THEN turns ELSE [turns EXCEPT ![t] = [u \in Tenants |-> 0]]
  BY DEF AcceptItem
<1>3. /\ n \in Nat /\ activeTenants \in Seq(Tenants)
      /\ items # <<>>
      /\ turns \in [Tenants -> [Tenants -> Nat]]
  <2>1. queue[t] \in Seq(Requests) /\ activeTenants \in Seq(Tenants)
    BY <1>1 DEF TypeOK
  <2>2. items # <<>>
    BY <2>1, AppendProperties
  <2>3. QED
    BY <1>1, <2>1, <2>2, LenProperties DEF TypeOK
<1>4. /\ isActive'[t] /\ queue'[t] # <<>>
      /\ \A u \in Tenants : u # t => (isActive'[u] = isActive[u] /\ queue'[u] = queue[u])
  BY <1>1, <1>2, <1>3 DEF TypeOK
<1>5. \A u \in Tenants : isActive'[u] <=> queue'[u] # <<>>
  BY <1>1, <1>4 DEF ActiveTenantsAgree
<1>6. CASE isActive[t]
  <2>1. activeTenants' = activeTenants /\ turns' = turns
    BY <1>2, <1>6
  <2>2. \A u \in Tenants : isActive'[u] = isActive[u]
    BY <1>2, <1>6, <1>1 DEF TypeOK
  <2>3. ActiveTenantsAgree'
    BY <1>1, <1>5, <2>1, <2>2 DEF ActiveTenantsAgree, In
  <2>4. FairTurns' /\ ServedIsBehind'
    BY <1>1, <2>1, <2>2 DEF FairTurns, ServedIsBehind
  <2>5. QED
    BY <2>3, <2>4 DEF RoundRobin
<1>7. CASE ~isActive[t]
  <2>1. /\ activeTenants' = Append(activeTenants, t) /\ Len(activeTenants') = n + 1
        /\ \A i \in 1..n : activeTenants'[i] = activeTenants[i]
        /\ activeTenants'[n + 1] = t
    BY <1>7, <1>1, <1>2, <1>3, AppendProperties
  <2>2. \A i \in 1..n : activeTenants[i] \in Tenants /\ activeTenants[i] # t
    <3> SUFFICES ASSUME NEW i \in 1..n
                 PROVE  activeTenants[i] \in Tenants /\ activeTenants[i] # t
      OBVIOUS
    <3>1. activeTenants[i] \in Tenants
      BY <1>3, ElementOfSeq
    <3>2. ~In(t, activeTenants)
      BY <1>1, <1>7 DEF ActiveTenantsAgree
    <3>3. QED
      BY <3>1, <3>2 DEF In
  <2>3. \A v, u \in Tenants : turns'[v][u] = IF v = t THEN 0 ELSE turns[v][u]
    BY <1>7, <1>1, <1>2, <1>3
  <2>4. \A u \in Tenants : u # t => (In(u, activeTenants') <=> In(u, activeTenants))
    <3> SUFFICES ASSUME NEW u \in Tenants, u # t
                 PROVE  In(u, activeTenants') <=> In(u, activeTenants)
      OBVIOUS
    <3>1. ASSUME NEW i \in 1..(n + 1), activeTenants'[i] = u
          PROVE  i \in 1..n /\ activeTenants[i] = u
      BY <3>1, <2>1, <1>3
    <3>2. ASSUME NEW i \in 1..n, activeTenants[i] = u
          PROVE  i \in 1..(n + 1) /\ activeTenants'[i] = u
      BY <3>2, <2>1, <1>3
    <3>3. In(u, activeTenants') <=> \E i \in 1..(n + 1) : activeTenants'[i] = u
      BY <2>1 DEF In
    <3>4. QED
      BY <3>1, <3>2, <3>3 DEF In
  <2>5. In(t, activeTenants')
    <3>1. n + 1 \in 1..(n + 1)
      BY <1>3
    <3>2. n + 1 \in 1..Len(activeTenants')
      BY <3>1, <2>1
    <3>3. QED
      BY <3>2, <2>1 DEF In
  <2>6. \A u \in Tenants : isActive'[u] <=> In(u, activeTenants')
    BY <1>1, <1>4, <2>4, <2>5 DEF ActiveTenantsAgree
  <2>7. \A i, j \in 1..(n + 1) : activeTenants'[i] = activeTenants'[j] => i = j
    BY <1>1, <1>3, <2>1, <2>2 DEF ActiveTenantsAgree
  <2>8. ActiveTenantsAgree'
    BY <1>5, <2>6, <2>7, <2>1 DEF ActiveTenantsAgree, In
  <2>9. FairTurns'
    BY <1>1, <1>4, <2>3 DEF FairTurns
  <2>10. ServedIsBehind'
    <3> SUFFICES ASSUME NEW i \in 1..(n + 1), NEW j \in 1..(n + 1), i < j
                 PROVE  turns'[activeTenants'[j]][activeTenants'[i]] = 0
      BY <2>1 DEF ServedIsBehind
    <3>1. i \in 1..n /\ activeTenants'[i] = activeTenants[i]
      BY <1>3, <2>1
    <3>2. CASE j = n + 1
      BY <3>1, <3>2, <1>1, <2>1, <2>2, <2>3
    <3>3. CASE j # n + 1
      <4>1. j \in 1..n
        <5>1. n \in Int /\ j \in Int /\ 1 <= j /\ j <= n + 1 /\ j # n + 1
          BY <3>3, <1>3
        <5>2. QED
          BY ONLY <5>1
      <4>a. activeTenants'[j] = activeTenants[j]
        BY <4>1, <2>1
      <4>2. turns[activeTenants[j]][activeTenants[i]] = 0
        BY <4>1, <3>1, <1>1 DEF ServedIsBehind
      <4>3. QED
        BY <4>1, <4>a, <4>2, <3>1, <2>2, <2>3
    <3>4. QED
      BY <3>2, <3>3
  <2>11. QED
    BY <2>8, <2>9, <2>10 DEF RoundRobin
<1>8. QED
  BY <1>6, <1>7

\* The actions that only move callers, workers or contexts.
OtherSteps ==
    \/ ScheduleDone \/ LoopEnds \/ StopQueue \/ StopScheduler
    \/ \E r \in Requests : RefuseItem(r) \/ Caller(r) \/ CancelCaller(r)
    \/ \E w \in Workers : TakeDequeue(w) \/ Worker(w)

LEMMA OtherStepsKeepRoundRobin == OtherSteps => UNCHANGED roundRobinVars
BY DEF OtherSteps, roundRobinVars, queueVars, ScheduleDone, LoopEnds, StopQueue, StopScheduler,
       RefuseItem, Caller, StartEnqueue, EnqueueFails, GiveUp, WaitForNothing, CancelCaller,
       TakeDequeue, Worker, StartDequeue, WorkerExits, StartItem, FinishItem

LEMMA NextKinds ==
    ASSUME Next
    PROVE  \/ Deliver \/ Stopping \/ OtherSteps
           \/ \E r \in Requests : AcceptItem(r)
BY DEF Next, Dispatcher, OtherSteps

LEMMA NextRoundRobin == IInv /\ [Next]_vars => RoundRobin'
<1> SUFFICES ASSUME IInv, [Next]_vars PROVE RoundRobin'
  OBVIOUS
<1>0. RoundRobin
  BY DEF IInv, RoundRobin
<1>1. CASE Deliver
  BY <1>1, DeliverKeepsRoundRobin
<1>2. CASE \E r \in Requests : AcceptItem(r)
  BY <1>2, AcceptKeepsRoundRobin
<1>3. CASE Stopping
  <2>1. /\ activeTenants' = <<>>
        /\ \A t \in Tenants : queue'[t] = <<>> /\ isActive'[t] = FALSE
    BY <1>3 DEF Stopping
  <2>2. Len(activeTenants') = 0
    BY <2>1, EmptySeq
  <2>3. QED
    BY <2>1, <2>2 DEF RoundRobin, ActiveTenantsAgree, FairTurns, ServedIsBehind, In
<1>4. CASE OtherSteps
  BY <1>4, <1>0, OtherStepsKeepRoundRobin, RoundRobinUnchanged
<1>5. CASE UNCHANGED vars
  BY <1>5, <1>0, RoundRobinUnchanged DEF vars, roundRobinVars
<1>6. QED
  BY <1>1, <1>2, <1>3, <1>4, <1>5, NextKinds

LEMMA NextTypes == IInv /\ [Next]_vars => TypeOK' /\ SendersHaveTries'
<1> SUFFICES ASSUME IInv, [Next]_vars PROVE TypeOK' /\ SendersHaveTries'
  OBVIOUS
<1>0. TypeOK /\ SendersHaveTries /\ ActiveTenantsAgree
  BY DEF IInv
<1>1. CASE Deliver
  <2> DEFINE w == Head(pending)
             t == Head(activeTenants)
             left == Tail(queue[t])
  <2>1. w \in Workers /\ Tail(pending) \in Seq(Workers)
    BY <1>0, <1>1, HeadTailProperties DEF TypeOK, Deliver
  <2>2. t \in Tenants /\ t = activeTenants[1] /\ Tail(activeTenants) \in Seq(Tenants)
        /\ 1 \in 1..Len(activeTenants)
    BY <1>0, <1>1, HeadTailProperties, EmptySeq, LenProperties DEF TypeOK, Deliver
  <2>3. queue[t] # <<>> /\ queue[t] \in Seq(Requests)
    BY <1>0, <2>2 DEF ActiveTenantsAgree, In, TypeOK
  <2>4. Head(queue[t]) \in Requests /\ left \in Seq(Requests) /\ Len(left) <= MaxSize
    BY <2>3, <2>2, <1>0, HeadTailProperties, LenProperties, QueueAssumption DEF TypeOK
  <2>5. hand' \in [Workers -> Requests \cup {None}]
    BY <1>0, <1>1, <2>1, <2>4 DEF TypeOK, Deliver
  <2>6. queue' = [queue EXCEPT ![t] = left]
    BY <1>1 DEF Deliver, Rest
  <2>7. queue' \in [Tenants -> Seq(Requests)]
        /\ \A u \in Tenants : Len(queue'[u]) <= MaxSize
    BY <1>0, <2>2, <2>4, <2>6 DEF TypeOK
  <2>8. isActive' \in [Tenants -> BOOLEAN]
    BY <1>0, <1>1, <2>2 DEF TypeOK, Deliver
  <2>9. activeTenants' \in Seq(Tenants)
    BY <1>1, <2>2, AppendProperties DEF Deliver, NextTenants
  <2>10. turns' \in [Tenants -> [Tenants -> Nat]]
    <3> DEFINE row(v) == [u \in Tenants |-> IF v # t /\ u = t /\ isActive[v] THEN turns[v][u] + 1
                                            ELSE IF v = t THEN 0 ELSE turns[v][u]]
    <3>1. turns' = [v \in Tenants |-> row(v)]
      BY <1>1 DEF Deliver
    <3>2. \A v \in Tenants : row(v) \in [Tenants -> Nat]
      BY <1>0 DEF TypeOK
    <3> HIDE DEF row
    <3>3. QED
      BY <3>1, <3>2
  <2>11. QED
    BY <1>0, <1>1, <2>1, <2>5, <2>7, <2>8, <2>9, <2>10
       DEF TypeOK, SendersHaveTries, Deliver, callerVars
<1>2. ASSUME NEW r \in Requests, AcceptItem(r) PROVE TypeOK' /\ SendersHaveTries'
  <2> DEFINE t == TenantOf[r]
  <2>1. t \in Tenants
    BY QueueAssumption
  <2>2. /\ queue[t] \in Seq(Requests) /\ accepted[t] \in Seq(Requests)
        /\ Len(queue[t]) < MaxSize
    BY <1>0, <1>2, <2>1, LenProperties, QueueAssumption DEF TypeOK, AcceptItem, IsFull
  <2>3. /\ Append(queue[t], r) \in Seq(Requests)
        /\ Append(accepted[t], r) \in Seq(Requests)
        /\ Len(Append(queue[t], r)) <= MaxSize
    BY <2>2, AppendProperties, LenProperties, QueueAssumption
  <2>4. /\ queue' \in [Tenants -> Seq(Requests)]
        /\ \A u \in Tenants : Len(queue'[u]) <= MaxSize
        /\ accepted' \in [Tenants -> Seq(Requests)]
    BY <1>0, <1>2, <2>1, <2>3 DEF TypeOK, AcceptItem
  <2>5. activeTenants' \in Seq(Tenants)
    BY <1>0, <1>2, <2>1, AppendProperties DEF TypeOK, AcceptItem
  <2>6. turns' \in [Tenants -> [Tenants -> Nat]]
    BY <1>0, <1>2, <2>1 DEF TypeOK, AcceptItem
  <2>7. QED
    BY <1>0, <1>2, <2>4, <2>5, <2>6
       DEF TypeOK, SendersHaveTries, AcceptItem, workerVars
<1>3. ASSUME NEW r \in Requests, RefuseItem(r) \/ EnqueueFails(r)
      PROVE  TypeOK' /\ SendersHaveTries'
  <2>1. retries[r] \in 0..MaxRetries /\ retries[r] < MaxRetries
    BY <1>0, <1>3 DEF TypeOK, SendersHaveTries, RefuseItem, EnqueueFails, Ongoing
  <2>2. retries[r] + 1 \in 0..MaxRetries
    BY <2>1, QueueAssumption
  <2>3. /\ retries' = [retries EXCEPT ![r] = @ + 1]
        /\ caller' = [caller EXCEPT ![r] = "retrying"]
        /\ dispatcher' \in {dispatcher, "scheduling"}
        /\ UNCHANGED <<queueDone, queueVars, pending, workerVars, schedulerDone, callerDone, turns>>
    BY <1>3 DEF RefuseItem, EnqueueFails
  <2>4. QED
    BY <1>0, <2>2, <2>3 DEF TypeOK, SendersHaveTries, queueVars, workerVars
<1>4. ASSUME NEW w \in Workers, TakeDequeue(w) PROVE TypeOK' /\ SendersHaveTries'
  <2>1. Append(pending, w) \in Seq(Workers)
    BY <1>0, AppendProperties DEF TypeOK
  <2>2. QED
    BY <1>0, <1>4, <2>1 DEF TypeOK, SendersHaveTries, TakeDequeue, queueVars, callerVars
<1>5. CASE ScheduleDone \/ LoopEnds \/ StopQueue \/ StopScheduler
  BY <1>0, <1>5 DEF TypeOK, SendersHaveTries, ScheduleDone, LoopEnds, StopQueue, StopScheduler,
                    queueVars, workerVars, callerVars
<1>6. CASE Stopping
  <2>1. \A S : <<>> \in Seq(S) /\ Len(<<>>) <= MaxSize
    BY EmptySeq, QueueAssumption
  <2>2. /\ queue' \in [Tenants -> Seq(Requests)]
        /\ \A u \in Tenants : Len(queue'[u]) <= MaxSize
    BY <1>6, <2>1 DEF Stopping
  <2>3. activeTenants' \in Seq(Tenants) /\ pending' \in Seq(Workers)
    BY <1>6, <2>1 DEF Stopping
  <2>4. QED
    BY <1>0, <1>6, <2>2, <2>3 DEF TypeOK, SendersHaveTries, Stopping, workerVars, callerVars
<1>7. ASSUME NEW r \in Requests,
             StartEnqueue(r) \/ GiveUp(r) \/ WaitForNothing(r) \/ CancelCaller(r)
      PROVE  TypeOK' /\ SendersHaveTries'
  BY <1>0, <1>7 DEF TypeOK, SendersHaveTries, StartEnqueue, GiveUp, WaitForNothing, CancelCaller,
                    Ongoing, queueVars, workerVars, callerVars
<1>8. ASSUME NEW w \in Workers, StartDequeue(w) \/ WorkerExits(w) \/ StartItem(w)
      PROVE  TypeOK' /\ SendersHaveTries'
  BY <1>0, <1>8 DEF TypeOK, SendersHaveTries, StartDequeue, WorkerExits, StartItem, queueVars, callerVars
<1>9. ASSUME NEW w \in Workers, FinishItem(w) PROVE TypeOK' /\ SendersHaveTries'
  BY <1>0, <1>9 DEF TypeOK, SendersHaveTries, FinishItem, queueVars
<1>10. CASE UNCHANGED vars
  BY <1>0, <1>10 DEF TypeOK, SendersHaveTries, vars
<1>11. QED
  BY <1>1, <1>2, <1>3, <1>4, <1>5, <1>6, <1>7, <1>8, <1>9, <1>10
     DEF Next, Dispatcher, Caller, Worker

\* The inductive invariant holds for ever: the steps of dispatcher, callers, workers and shutdown
\* preserve it.
THEOREM Invariance == Spec => []IInv
<1>1. IInv /\ [Next]_vars => IInv'
  BY NextRoundRobin, NextTypes DEF IInv, RoundRobin
<1>2. QED
  BY InitIInv, <1>1, PTL DEF Spec

\* The model stays within its types and no tenant's queue exceeds the limit, for
\* every number of tenants, workers and requests.
THEOREM TypeCorrect == Spec => []TypeOK
<1>1. IInv => TypeOK
  BY DEF IInv
<1>2. QED
  BY Invariance, <1>1, PTL

\* scheduleRoundRobin never finds an empty queue at the front of its list, and no
\* tenant with items is missing from it.
THEOREM ListIsExact == Spec => []ActiveTenantsAgree
<1>1. IInv => ActiveTenantsAgree
  BY DEF IInv
<1>2. QED
  BY Invariance, <1>1, PTL

\* Round-robin fairness of the dispatcher: nobody is served twice while another
\* tenant waits, however the requests, cancellations and shutdowns interleave.
THEOREM NobodyIsPassedTwice == Spec => []FairTurns
<1>1. IInv => FairTurns
  BY DEF IInv
<1>2. QED
  BY Invariance, <1>1, PTL

-----------------------------------------------------------------------------
(***************************************************************************)
(* For any tenants, workers, requests and limits: an item is in one place, *)
(* none is lost without a named cause, and dispatcher, workers, callers    *)
(* and their channels implement the bounded queues of TenantFifo.          *)
(*                                                                         *)
(* The invariant follows an item from queue to hand: as long as its caller *)
(* waits it is in the queue of its tenant, once, or in one hand, or its    *)
(* worker has left or the queue was cleared, which takes a shutdown.       *)
(***************************************************************************)


Accepted(r) == In(r, accepted[TenantOf[r]])
InHand(r) == \E w \in Workers : Held(w, r)
Closing == queueDone \/ schedulerDone

NoRepetition(s) == \A i, j \in 1..Len(s) : s[i] = s[j] => i = j

\* Items are queued under their own tenant, once, for a caller that waits.
QueueOK ==
    /\ \A t \in Tenants : NoRepetition(queue[t])
    /\ \A t \in Tenants : \A i \in 1..Len(queue[t]) : TenantOf[queue[t][i]] = t
    /\ \A r \in Requests : Queued(r) =>
          /\ caller[r] = "waiting"
          /\ Accepted(r)
          /\ \A w \in Workers : hand[w] # r

\* An item that was delivered has a caller that waits, also after its worker left.
HandsOK ==
    /\ \A w \in Workers : \A r \in Requests : hand[w] = r => caller[r] = "waiting" /\ Accepted(r)
    /\ \A v, w \in Workers : hand[v] # None /\ hand[v] = hand[w] => v = w
    /\ \A w \in Workers : worker[w] \in {"idle", "sending"} => hand[w] = None
    /\ \A w \in Workers : worker[w] = "running" => hand[w] # None

\* A pending request is that of a worker that waits for it, or has left.
PendingOK ==
    /\ NoRepetition(pending)
    /\ \A i \in 1..Len(pending) :
          /\ hand[pending[i]] = None
          /\ worker[pending[i]] \in {"awaiting", "exited"}

ShutdownOK ==
    /\ \A w \in Workers : worker[w] = "exited" => Closing
    /\ dispatcher \in {"stopped", "terminated"} => queueDone

CallersOK ==
    \A r \in Requests :
        /\ caller[r] \in {"new", "sending", "retrying", "failed"} => ~Accepted(r)
        /\ caller[r] = "new" => retries[r] = 0
        /\ caller[r] = "waiting" /\ ~Accepted(r) => callerDone[r]

LostOK ==
    \A r \in Requests :
        caller[r] = "waiting" /\ Accepted(r) /\ ~Queued(r) /\ ~InHand(r) => Closing

Places == QueueOK /\ HandsOK /\ PendingOK /\ ShutdownOK /\ CallersOK /\ LostOK

-----------------------------------------------------------------------------
(* Sequences without repetition *)

LEMMA InAppend ==
    ASSUME NEW S, NEW s \in Seq(S), NEW e \in S, NEW x
    PROVE  In(x, Append(s, e)) <=> In(x, s) \/ x = e
<1>1. /\ Len(s) \in Nat /\ Len(Append(s, e)) = Len(s) + 1
      /\ \A i \in 1..Len(s) : Append(s, e)[i] = s[i]
      /\ Append(s, e)[Len(s) + 1] = e
  BY AppendProperties, LenProperties
<1>2. ASSUME NEW i \in 1..(Len(s) + 1), Append(s, e)[i] = x PROVE In(x, s) \/ x = e
  BY <1>1, <1>2 DEF In
<1>3. ASSUME NEW i \in 1..Len(s), s[i] = x PROVE In(x, Append(s, e))
  BY <1>1, <1>3 DEF In
<1>4. In(e, Append(s, e))
  BY <1>1 DEF In
<1>5. QED
  BY <1>1, <1>2, <1>3, <1>4 DEF In

LEMMA AppendIsNew ==
    ASSUME NEW S, NEW s \in Seq(S), NEW e \in S, NoRepetition(s), ~In(e, s)
    PROVE  NoRepetition(Append(s, e))
<1>1. /\ Len(s) \in Nat /\ Len(Append(s, e)) = Len(s) + 1
      /\ \A i \in 1..Len(s) : Append(s, e)[i] = s[i]
      /\ Append(s, e)[Len(s) + 1] = e
  BY AppendProperties, LenProperties
<1>2. \A i \in 1..Len(s) : s[i] # e
  BY DEF In
<1>3. \A i, j \in 1..Len(s) : s[i] = s[j] => i = j
  BY DEF NoRepetition
<1>4. QED
  BY <1>1, <1>2, <1>3 DEF NoRepetition

\* The tail of a sequence without repetition is what comes after the head.
LEMMA InTail ==
    ASSUME NEW S, NEW s \in Seq(S), s # <<>>, NoRepetition(s)
    PROVE  /\ Tail(s) \in Seq(S) /\ NoRepetition(Tail(s))
           /\ Head(s) \in S /\ In(Head(s), s) /\ Head(s) = s[1] /\ 1 \in 1..Len(s)
           /\ \A x : In(x, Tail(s)) <=> In(x, s) /\ x # Head(s)
<1>1. /\ Len(s) \in Nat /\ Len(s) > 0 /\ Head(s) = s[1] /\ Head(s) \in S
      /\ Tail(s) \in Seq(S) /\ Len(Tail(s)) = Len(s) - 1
      /\ \A i \in 1..(Len(s) - 1) : Tail(s)[i] = s[i + 1]
  BY HeadTailProperties, EmptySeq, LenProperties
<1>2. NoRepetition(Tail(s))
  BY <1>1 DEF NoRepetition
<1>3. ASSUME NEW x PROVE In(x, Tail(s)) <=> In(x, s) /\ x # Head(s)
  <2>1. ASSUME NEW i \in 1..(Len(s) - 1), Tail(s)[i] = x PROVE In(x, s) /\ x # Head(s)
    <3>1. i + 1 \in 1..Len(s) /\ s[i + 1] = x /\ 1 \in 1..Len(s) /\ i + 1 # 1
      BY <1>1, <2>1
    <3>2. QED
      BY <3>1, <1>1 DEF In, NoRepetition
  <2>2. ASSUME NEW i \in 1..Len(s), s[i] = x, x # Head(s) PROVE In(x, Tail(s))
    <3>1. i - 1 \in 1..(Len(s) - 1) /\ Tail(s)[i - 1] = x
      BY <1>1, <2>2
    <3>2. QED
      BY <3>1, <1>1 DEF In
  <2>3. QED
    BY <1>1, <2>1, <2>2 DEF In
<1>4. In(Head(s), s) /\ 1 \in 1..Len(s)
  BY <1>1 DEF In
<1>5. QED
  BY <1>1, <1>2, <1>3, <1>4

LEMMA InEmpty == \A x : ~In(x, <<>>)
<1>1. Len(<<>>) = 0
  BY EmptySeq
<1>2. QED
  BY <1>1 DEF In

-----------------------------------------------------------------------------
(* What the steps do to the items *)

LEMMA InitPlaces == Init => Places
<1> SUFFICES ASSUME Init PROVE Places
  OBVIOUS
<1>1. Len(<<>>) = 0
  BY EmptySeq
<1>2. \A r \in Requests : TenantOf[r] \in Tenants
  BY QueueAssumption
<1>3. \A r \in Requests : ~Queued(r) /\ ~Accepted(r)
  BY <1>2, InEmpty DEF Init, Queued, Accepted
<1>4. QueueOK /\ PendingOK
  BY <1>1, <1>3 DEF Init, QueueOK, PendingOK, NoRepetition
<1>5. HandsOK /\ ShutdownOK
  BY QueueAssumption DEF Init, HandsOK, ShutdownOK
<1>6. CallersOK /\ LostOK
  BY <1>3 DEF Init, CallersOK, LostOK
<1>7. QED
  BY <1>4, <1>5, <1>6 DEF Places

\* A delivery takes item x of tenant t from its queue to the hand of worker w.
Delivers(w, t, x) ==
    /\ hand[w] = None /\ worker[w] \in {"awaiting", "exited"}
    /\ TenantOf[x] = t /\ Queued(x) /\ x = Head(queue[t]) /\ queue[t] # <<>>
    /\ \A r \in Requests : Queued(r)' <=> Queued(r) /\ r # x
    /\ hand' = [hand EXCEPT ![w] = x]
    /\ queue' = [queue EXCEPT ![t] = Tail(queue[t])]
    /\ \A i \in 1..Len(pending') : pending'[i] \in Workers /\ pending'[i] # w
                                   /\ In(pending'[i], pending)
    /\ NoRepetition(pending')
    /\ UNCHANGED <<dispatcher, queueDone, worker, schedulerDone, caller, retries,
                   callerDone, accepted>>

LEMMA DeliverStep ==
    ASSUME IInv, Places, Deliver
    PROVE  \E w \in Workers, t \in Tenants, x \in Requests : Delivers(w, t, x)
<1> DEFINE w == Head(pending)
           t == Head(activeTenants)
           x == Head(queue[t])
<1>0. TypeOK /\ ActiveTenantsAgree /\ QueueOK /\ PendingOK
  BY DEF IInv, Places
<1>1. /\ pending \in Seq(Workers) /\ pending # <<>> /\ NoRepetition(pending)
      /\ activeTenants \in Seq(Tenants) /\ activeTenants # <<>> /\ NoRepetition(activeTenants)
  BY <1>0 DEF Deliver, TypeOK, PendingOK, ActiveTenantsAgree, NoRepetition
<1>2. /\ w \in Workers /\ w = pending[1] /\ 1 \in 1..Len(pending)
      /\ Tail(pending) \in Seq(Workers) /\ NoRepetition(Tail(pending))
      /\ \A v : In(v, Tail(pending)) <=> In(v, pending) /\ v # w
  BY <1>1, InTail
<1>3. t \in Tenants /\ In(t, activeTenants)
  BY <1>1, InTail
<1>4. queue[t] \in Seq(Requests) /\ queue[t] # <<>> /\ NoRepetition(queue[t])
  BY <1>0, <1>3 DEF TypeOK, ActiveTenantsAgree, QueueOK
<1>5. /\ x \in Requests /\ x = queue[t][1] /\ 1 \in 1..Len(queue[t])
      /\ In(x, queue[t])
      /\ \A y : In(y, Tail(queue[t])) <=> In(y, queue[t]) /\ y # x
  BY <1>4, InTail
<1>6. TenantOf[x] = t /\ Queued(x)
  BY <1>0, <1>3, <1>5 DEF QueueOK, Queued
<1>7. hand[w] = None /\ worker[w] \in {"awaiting", "exited"}
  BY <1>0, <1>2 DEF PendingOK
<1>8. /\ queue' = [queue EXCEPT ![t] = Tail(queue[t])]
      /\ queue'[t] = Tail(queue[t])
      /\ \A u \in Tenants : u # t => queue'[u] = queue[u]
  BY <1>0, <1>3 DEF Deliver, Rest, TypeOK
<1>9. ASSUME NEW r \in Requests PROVE Queued(r)' <=> Queued(r) /\ r # x
  <2>1. TenantOf[r] \in Tenants
    BY QueueAssumption
  <2>2. CASE TenantOf[r] = t
    BY <2>2, <1>5, <1>8 DEF Queued
  <2>3. CASE TenantOf[r] # t
    BY <2>1, <2>3, <1>6, <1>8 DEF Queued
  <2>4. QED
    BY <2>2, <2>3
<1>10. pending' = Tail(pending)
  BY DEF Deliver
<1>11. ASSUME NEW i \in 1..Len(pending')
       PROVE  pending'[i] \in Workers /\ pending'[i] # w /\ In(pending'[i], pending)
  <2>1. Tail(pending)[i] \in Workers
    BY <1>2, <1>10, <1>11, ElementOfSeq
  <2>2. In(Tail(pending)[i], Tail(pending))
    BY <1>10, <1>11 DEF In
  <2>3. QED
    BY <2>1, <2>2, <1>2, <1>10
<1>12. NoRepetition(pending')
  BY <1>2, <1>10
<1>13. hand' = [hand EXCEPT ![w] = x]
  BY DEF Deliver
<1>14. UNCHANGED <<dispatcher, queueDone, worker, schedulerDone, caller, retries,
                   callerDone, accepted>>
  BY DEF Deliver, callerVars
<1>15. Delivers(w, t, x)
  BY <1>4, <1>6, <1>7, <1>8, <1>9, <1>11, <1>12, <1>13, <1>14 DEF Delivers
<1>16. QED
  BY <1>15, <1>2, <1>3, <1>5

\* Item r joins the queue of its tenant.
Accepts(r) ==
    /\ caller[r] = "sending" /\ ~Queued(r) /\ ~Accepted(r)
    /\ Len(queue[TenantOf[r]]) < MaxSize
    /\ queue' = [queue EXCEPT ![TenantOf[r]] = Append(queue[TenantOf[r]], r)]
    /\ \A y \in Requests : Queued(y)' <=> Queued(y) \/ y = r
    /\ \A y \in Requests : Accepted(y)' <=> Accepted(y) \/ y = r
    /\ caller' = [caller EXCEPT ![r] = "waiting"]
    /\ dispatcher' = "scheduling"
    /\ UNCHANGED <<queueDone, pending, worker, hand, schedulerDone, retries, callerDone>>

LEMMA AcceptStep ==
    ASSUME IInv, Places, NEW r \in Requests, AcceptItem(r)
    PROVE  Accepts(r)
<1> DEFINE t == TenantOf[r]
<1>0. TypeOK /\ QueueOK /\ CallersOK /\ t \in Tenants
  BY QueueAssumption DEF IInv, Places
<1>1. caller[r] = "sending" /\ ~Queued(r) /\ ~Accepted(r)
  BY <1>0 DEF AcceptItem, QueueOK, CallersOK
<1>2. queue[t] \in Seq(Requests) /\ accepted[t] \in Seq(Requests) /\ Len(queue[t]) \in Nat
  BY <1>0, LenProperties DEF TypeOK
<1>3. Len(queue[t]) < MaxSize
  BY <1>2, QueueAssumption DEF AcceptItem, IsFull
<1>4. /\ queue' = [queue EXCEPT ![t] = Append(queue[t], r)]
      /\ accepted' = [accepted EXCEPT ![t] = Append(accepted[t], r)]
  BY DEF AcceptItem
<1>5. /\ queue'[t] = Append(queue[t], r) /\ accepted'[t] = Append(accepted[t], r)
      /\ \A u \in Tenants : u # t => queue'[u] = queue[u] /\ accepted'[u] = accepted[u]
  BY <1>0, <1>4 DEF TypeOK
<1>6. ASSUME NEW y \in Requests
      PROVE  (Queued(y)' <=> Queued(y) \/ y = r) /\ (Accepted(y)' <=> Accepted(y) \/ y = r)
  <2>1. TenantOf[y] \in Tenants
    BY QueueAssumption
  <2>2. CASE TenantOf[y] = t
    BY <2>2, <1>2, <1>5, InAppend DEF Queued, Accepted
  <2>3. CASE TenantOf[y] # t
    BY <2>1, <2>3, <1>5 DEF Queued, Accepted
  <2>4. QED
    BY <2>2, <2>3
<1>7. /\ caller' = [caller EXCEPT ![r] = "waiting"]
      /\ dispatcher' = "scheduling"
      /\ UNCHANGED <<queueDone, pending, worker, hand, schedulerDone, retries, callerDone>>
  BY DEF AcceptItem, workerVars
<1>8. QED
  BY <1>1, <1>3, <1>4, <1>6, <1>7 DEF Accepts

-----------------------------------------------------------------------------
(* Every step keeps the places *)

\* Queue, acceptance and pending requests stay as they are.
queueSide == <<queue, accepted, pending>>

LEMMA SameQueue ==
    ASSUME UNCHANGED queueSide
    PROVE  \A r \in Requests : (Queued(r)' <=> Queued(r)) /\ (Accepted(r)' <=> Accepted(r))
BY DEF queueSide, Queued, Accepted

LEMMA DeliverKeepsPlaces ==
    ASSUME IInv, Places, Deliver
    PROVE  Places'
<1>0. /\ TypeOK /\ QueueOK /\ HandsOK /\ PendingOK /\ ShutdownOK /\ CallersOK /\ LostOK
      /\ None \notin Requests
  BY QueueAssumption DEF IInv, Places
<1>1. PICK w \in Workers, t \in Tenants, x \in Requests : Delivers(w, t, x)
  BY DeliverStep
<1>2. /\ \A v \in Workers : hand'[v] = IF v = w THEN x ELSE hand[v]
      /\ \A r \in Requests : Queued(r)' <=> Queued(r) /\ r # x
      /\ \A r \in Requests : Accepted(r)' <=> Accepted(r)
      /\ UNCHANGED <<caller, worker, queueDone, schedulerDone, dispatcher, retries, callerDone>>
  BY <1>0, <1>1 DEF Delivers, TypeOK, Accepted
<1>3. Queued(x) /\ caller[x] = "waiting" /\ Accepted(x) /\ \A v \in Workers : hand[v] # x
  BY <1>0, <1>1 DEF Delivers, QueueOK
<1>4. \A u \in Tenants : queue'[u] = IF u = t THEN Tail(queue[u]) ELSE queue[u]
  BY <1>0, <1>1 DEF Delivers, TypeOK
<1>5. ASSUME NEW u \in Tenants
      PROVE  NoRepetition(queue'[u]) /\ \A i \in 1..Len(queue'[u]) : TenantOf[queue'[u][i]] = u
  <2>1. NoRepetition(queue[u]) /\ queue[u] \in Seq(Requests)
        /\ \A i \in 1..Len(queue[u]) : TenantOf[queue[u][i]] = u
    BY <1>0 DEF QueueOK, TypeOK
  <2>2. CASE u = t
    <3>1. queue[u] # <<>>
      BY <1>1, <2>2 DEF Delivers
    <3>2. /\ NoRepetition(Tail(queue[u]))
          /\ \A y : In(y, Tail(queue[u])) => In(y, queue[u])
      BY <2>1, <3>1, InTail
    <3>3. \A i \in 1..Len(Tail(queue[u])) : TenantOf[Tail(queue[u])[i]] = u
      BY <2>1, <3>2 DEF In
    <3>4. QED
      BY <3>2, <3>3, <1>4, <2>2
  <2>3. CASE u # t
    BY <2>1, <2>3, <1>4
  <2>4. QED
    BY <2>2, <2>3
<1>6. QueueOK'
  <2>1. ASSUME NEW r \in Requests, Queued(r)'
        PROVE  caller'[r] = "waiting" /\ Accepted(r)' /\ \A v \in Workers : hand'[v] # r
    BY <2>1, <1>0, <1>2 DEF QueueOK
  <2>2. QED
    BY <2>1, <1>5 DEF QueueOK
<1>7. HandsOK'
  <2>2. \A v \in Workers : \A r \in Requests :
           hand'[v] = r => caller'[r] = "waiting" /\ Accepted(r)'
    BY <1>0, <1>1, <1>2, <1>3 DEF HandsOK
  <2>3. \A u, v \in Workers : hand'[u] # None /\ hand'[u] = hand'[v] => u = v
    BY <1>0, <1>2, <1>3 DEF HandsOK
  <2>4. /\ \A v \in Workers : worker'[v] \in {"idle", "sending"} => hand'[v] = None
        /\ \A v \in Workers : worker'[v] = "running" => hand'[v] # None
    BY <1>0, <1>1, <1>2 DEF HandsOK, Delivers
  <2>5. QED
    BY <2>2, <2>3, <2>4 DEF HandsOK
<1>8. PendingOK'
  <2>1. ASSUME NEW i \in 1..Len(pending')
        PROVE  hand'[pending'[i]] = None /\ worker'[pending'[i]] \in {"awaiting", "exited"}
    <3>1. pending'[i] \in Workers /\ pending'[i] # w /\ In(pending'[i], pending)
      BY <1>1 DEF Delivers
    <3>2. hand[pending'[i]] = None /\ worker[pending'[i]] \in {"awaiting", "exited"}
      BY <3>1, <1>0 DEF PendingOK, In
    <3>3. QED
      BY <3>1, <3>2, <1>2
  <2>2. QED
    BY <2>1, <1>1 DEF PendingOK, Delivers
<1>9. ShutdownOK' /\ CallersOK'
  BY <1>0, <1>2 DEF ShutdownOK, CallersOK, Closing
<1>10. LostOK'
  <2>2. ASSUME NEW r \in Requests, caller'[r] = "waiting", Accepted(r)', ~Queued(r)', ~InHand(r)'
        PROVE  Closing'
    <3>1. CASE r = x
      <4>1. ~Held(w, x)'
        BY <2>2, <3>1 DEF InHand
      <4>2. worker[w] = "exited"
        BY <4>1, <1>1, <1>2 DEF Held, Delivers
      <4>3. QED
        BY <4>2, <1>0, <1>2 DEF ShutdownOK, Closing
    <3>2. CASE r # x
      <4>1. ~Queued(r) /\ Accepted(r) /\ caller[r] = "waiting"
        BY <2>2, <3>2, <1>2
      <4>2. ASSUME NEW v \in Workers, Held(v, r) PROVE FALSE
        <5>1. hand[v] = r /\ hand[w] = None
          BY <4>2, <1>1 DEF Held, Delivers
        <5>2. v # w
          BY <5>1, <1>0
        <5>3. Held(v, r)'
          BY <4>2, <5>2, <1>2 DEF Held
        <5>4. QED
          BY <5>3, <2>2 DEF InHand
      <4>3. QED
        BY <4>1, <4>2, <1>0, <1>2 DEF LostOK, InHand, Closing
    <3>3. QED
      BY <3>1, <3>2
  <2>3. QED
    BY <2>2 DEF LostOK
<1>11. QED
  BY <1>6, <1>7, <1>8, <1>9, <1>10 DEF Places

LEMMA AcceptKeepsPlaces ==
    ASSUME IInv, Places, NEW r \in Requests, AcceptItem(r)
    PROVE  Places'
<1>0. /\ TypeOK /\ QueueOK /\ HandsOK /\ PendingOK /\ ShutdownOK /\ CallersOK /\ LostOK
      /\ TenantOf[r] \in Tenants /\ None \notin Requests
  BY QueueAssumption DEF IInv, Places
<1>1. Accepts(r)
  BY AcceptStep
<1>2. /\ \A y \in Requests : caller'[y] = IF y = r THEN "waiting" ELSE caller[y]
      /\ \A u \in Tenants :
            queue'[u] = IF u = TenantOf[r] THEN Append(queue[u], r) ELSE queue[u]
      /\ \A y \in Requests : Queued(y)' <=> Queued(y) \/ y = r
      /\ \A y \in Requests : Accepted(y)' <=> Accepted(y) \/ y = r
      /\ UNCHANGED <<queueDone, pending, worker, hand, schedulerDone, retries, callerDone>>
  BY <1>0, <1>1 DEF Accepts, TypeOK
<1>3. caller[r] = "sending" /\ ~Queued(r) /\ ~Accepted(r) /\ dispatcher' = "scheduling"
  BY <1>1 DEF Accepts
<1>4. \A w \in Workers : hand[w] # r
  BY <1>0, <1>3 DEF HandsOK
<1>5. ASSUME NEW u \in Tenants
      PROVE  NoRepetition(queue'[u]) /\ \A i \in 1..Len(queue'[u]) : TenantOf[queue'[u][i]] = u
  <2>1. NoRepetition(queue[u]) /\ queue[u] \in Seq(Requests)
        /\ \A i \in 1..Len(queue[u]) : TenantOf[queue[u][i]] = u
    BY <1>0 DEF QueueOK, TypeOK
  <2>2. CASE u = TenantOf[r]
    <3>1. ~In(r, queue[u])
      BY <1>3, <2>2 DEF Queued
    <3>2. /\ NoRepetition(Append(queue[u], r))
          /\ \A y : In(y, Append(queue[u], r)) => In(y, queue[u]) \/ y = r
      BY <2>1, <3>1, AppendIsNew, InAppend
    <3>3. \A i \in 1..Len(Append(queue[u], r)) : TenantOf[Append(queue[u], r)[i]] = u
      BY <2>1, <2>2, <3>2 DEF In
    <3>4. QED
      BY <3>2, <3>3, <1>2, <2>2
  <2>3. CASE u # TenantOf[r]
    BY <2>1, <2>3, <1>2
  <2>4. QED
    BY <2>2, <2>3
<1>6. QueueOK'
  <2>1. ASSUME NEW y \in Requests, Queued(y)'
        PROVE  caller'[y] = "waiting" /\ Accepted(y)' /\ \A v \in Workers : hand'[v] # y
    BY <2>1, <1>0, <1>2, <1>4 DEF QueueOK
  <2>2. QED
    BY <2>1, <1>5 DEF QueueOK
<1>7. HandsOK'
  BY <1>0, <1>2, <1>4 DEF HandsOK
<1>8. PendingOK'
  BY <1>0, <1>2 DEF PendingOK
<1>9. ShutdownOK'
  BY <1>0, <1>2, <1>3 DEF ShutdownOK, Closing
<1>10. CallersOK'
  BY <1>0, <1>2 DEF CallersOK
<1>11. LostOK'
  BY <1>0, <1>2 DEF LostOK, InHand, Held, Closing
<1>12. QED
  BY <1>6, <1>7, <1>8, <1>9, <1>10, <1>11 DEF Places

\* The steps of a caller before wg.Wait, and the refusal of its item.
LEMMA CallerKeepsPlaces ==
    ASSUME IInv, Places, NEW r \in Requests, Caller(r) \/ RefuseItem(r)
    PROVE  Places'
<1>0. /\ TypeOK /\ QueueOK /\ HandsOK /\ PendingOK /\ ShutdownOK /\ CallersOK /\ LostOK
  BY DEF IInv, Places
<1>1. /\ UNCHANGED <<queue, accepted, pending, worker, hand, queueDone, schedulerDone, callerDone>>
      /\ caller[r] \in {"new", "sending", "retrying"}
      /\ \E c \in {"sending", "retrying", "failed", "waiting"} :
            /\ caller' = [caller EXCEPT ![r] = c]
            /\ c = "waiting" => caller[r] = "new" /\ ~Ongoing(r)
      /\ retries' = retries \/ (retries' = [retries EXCEPT ![r] = @ + 1])
      /\ dispatcher' = dispatcher \/ dispatcher' = "scheduling"
  BY DEF Caller, RefuseItem, StartEnqueue, EnqueueFails, GiveUp, WaitForNothing, queueVars,
         workerVars
<1>2. PICK c \in {"sending", "retrying", "failed", "waiting"} :
            /\ \A y \in Requests : caller'[y] = IF y = r THEN c ELSE caller[y]
            /\ c = "waiting" => caller[r] = "new" /\ ~Ongoing(r)
  BY <1>0, <1>1 DEF TypeOK
<1>3. \A y \in Requests : (Queued(y)' <=> Queued(y)) /\ (Accepted(y)' <=> Accepted(y))
  BY <1>1, SameQueue DEF queueSide
<1>4. ~Accepted(r) /\ ~Queued(r) /\ \A w \in Workers : hand[w] # r
  BY <1>0, <1>1 DEF CallersOK, QueueOK, HandsOK
<1>5. c = "waiting" => callerDone[r]
  BY <1>0, <1>2, QueueAssumption DEF CallersOK, Ongoing
<1>6. QueueOK'
  BY <1>0, <1>1, <1>2, <1>3, <1>4 DEF QueueOK
<1>7. HandsOK' /\ PendingOK' /\ ShutdownOK'
  BY <1>0, <1>1, <1>2, <1>3, <1>4 DEF HandsOK, PendingOK, ShutdownOK, Closing
<1>8. CallersOK'
  <2>1. \A y \in Requests : y # r => retries'[y] = retries[y]
    BY <1>0, <1>1 DEF TypeOK
  <2>2. QED
    BY <2>1, <1>0, <1>1, <1>2, <1>3, <1>4, <1>5 DEF CallersOK
<1>9. LostOK'
  BY <1>0, <1>1, <1>2, <1>3, <1>4 DEF LostOK, InHand, Held, Closing
<1>10. QED
  BY <1>6, <1>7, <1>8, <1>9 DEF Places

\* A worker's request joins the pending ones.
LEMMA TakeDequeueKeepsPlaces ==
    ASSUME IInv, Places, NEW w \in Workers, TakeDequeue(w)
    PROVE  Places'
<1>0. /\ TypeOK /\ QueueOK /\ HandsOK /\ PendingOK /\ ShutdownOK /\ CallersOK /\ LostOK
  BY DEF IInv, Places
<1>1. /\ UNCHANGED <<queue, accepted, hand, queueDone, schedulerDone, callerDone, caller, retries>>
      /\ worker[w] = "sending" /\ dispatcher' = "scheduling"
      /\ pending' = Append(pending, w)
      /\ \A v \in Workers : worker'[v] = IF v = w THEN "awaiting" ELSE worker[v]
  BY <1>0 DEF TakeDequeue, TypeOK, queueVars, callerVars
<1>2. \A y \in Requests : (Queued(y)' <=> Queued(y)) /\ (Accepted(y)' <=> Accepted(y))
  BY <1>1 DEF Queued, Accepted
<1>3. hand[w] = None
  BY <1>0, <1>1 DEF HandsOK
<1>4. PendingOK'
  <2>1. ~In(w, pending) /\ pending \in Seq(Workers)
    BY <1>0, <1>1 DEF PendingOK, In, TypeOK
  <2>2. /\ NoRepetition(pending')
        /\ \A v : In(v, pending') <=> In(v, pending) \/ v = w
        /\ \A v : In(v, pending) => v \in Workers
    <3>1. NoRepetition(pending)
      BY <1>0 DEF PendingOK
    <3>2. NoRepetition(pending') /\ \A v : In(v, pending') <=> In(v, pending) \/ v = w
      BY <2>1, <3>1, <1>1, AppendIsNew, InAppend
    <3>3. \A i \in 1..Len(pending) : pending[i] \in Workers
      BY <2>1, ElementOfSeq
    <3>4. QED
      BY <3>2, <3>3 DEF In
  <2>3. ASSUME NEW i \in 1..Len(pending')
        PROVE  hand'[pending'[i]] = None /\ worker'[pending'[i]] \in {"awaiting", "exited"}
    <3>1. In(pending'[i], pending) \/ pending'[i] = w
      BY <2>2 DEF In
    <3>2. CASE pending'[i] = w
      BY <3>2, <1>1, <1>3
    <3>3. CASE In(pending'[i], pending)
      <4>1. hand[pending'[i]] = None /\ worker[pending'[i]] \in {"awaiting", "exited"}
        BY <3>3, <1>0 DEF In, PendingOK
      <4>2. pending'[i] \in Workers
        BY <3>3, <2>2
      <4>3. QED
        BY <4>1, <4>2, <1>1
    <3>4. QED
      BY <3>1, <3>2, <3>3
  <2>4. QED
    BY <2>2, <2>3 DEF PendingOK
<1>5. QueueOK' /\ HandsOK' /\ ShutdownOK' /\ CallersOK'
  BY <1>0, <1>1, <1>2, <1>3 DEF QueueOK, HandsOK, ShutdownOK, CallersOK, Closing
<1>6. LostOK'
  BY <1>0, <1>1, <1>2 DEF LostOK, InHand, Held, Closing
<1>7. QED
  BY <1>4, <1>5, <1>6 DEF Places

LEMMA WorkerKeepsPlaces ==
    ASSUME IInv, Places, NEW w \in Workers, StartDequeue(w) \/ WorkerExits(w) \/ StartItem(w)
    PROVE  Places'
<1>0. /\ TypeOK /\ QueueOK /\ HandsOK /\ PendingOK /\ ShutdownOK /\ CallersOK /\ LostOK
  BY DEF IInv, Places
<1>1. PICK c \in {"sending", "exited", "running"} :
      /\ UNCHANGED <<queue, accepted, pending, hand, queueDone, schedulerDone, callerDone, caller,
                     retries, dispatcher>>
      /\ worker' = [worker EXCEPT ![w] = c]
      /\ c = "sending" => worker[w] = "idle"
      /\ c = "exited" => Closing /\ worker[w] \in {"idle", "sending", "awaiting"}
      /\ c = "running" => worker[w] = "awaiting" /\ hand[w] # None
  BY <1>0 DEF StartDequeue, WorkerExits, StartItem, DequeueCancelled, QueueRunning, ShutdownOK,
              Closing, queueVars, callerVars
<1>2. \A v \in Workers : worker'[v] = IF v = w THEN c ELSE worker[v]
  BY <1>0, <1>1 DEF TypeOK
<1>3. \A y \in Requests : (Queued(y)' <=> Queued(y)) /\ (Accepted(y)' <=> Accepted(y))
  BY <1>1, SameQueue DEF queueSide
<1>4. QueueOK' /\ HandsOK' /\ ShutdownOK' /\ CallersOK'
  BY <1>0, <1>1, <1>2, <1>3 DEF QueueOK, HandsOK, ShutdownOK, CallersOK, Closing
<1>5. PendingOK'
  <2>1. \A i \in 1..Len(pending) : pending[i] \in Workers
    BY <1>0, ElementOfSeq DEF TypeOK
  <2>2. QED
    BY <2>1, <1>0, <1>1, <1>2 DEF PendingOK, HandsOK
<1>6. LostOK'
  <2>1. CASE Closing
    BY <2>1, <1>1 DEF LostOK, Closing
  <2>2. CASE ~Closing
    <3>1. \A y \in Requests : InHand(y) => InHand(y)'
      BY <2>2, <1>0, <1>1, <1>2 DEF InHand, Held
    <3>2. QED
      BY <3>1, <1>0, <1>1, <1>3 DEF LostOK, Closing
  <2>3. QED
    BY <2>1, <2>2
<1>7. QED
  BY <1>4, <1>5, <1>6 DEF Places

\* A worker that is done has an empty hand, and its item's caller has an answer.
LEMMA FinishKeepsPlaces ==
    ASSUME IInv, Places, NEW w \in Workers, FinishItem(w)
    PROVE  Places'
<1>0. /\ TypeOK /\ QueueOK /\ HandsOK /\ PendingOK /\ ShutdownOK /\ CallersOK /\ LostOK
  BY DEF IInv, Places
<1>1. PICK x \in Requests : x = hand[w]
  BY <1>0 DEF FinishItem, HandsOK, TypeOK
<1>2. /\ UNCHANGED <<queue, accepted, pending, queueDone, schedulerDone, callerDone, retries, dispatcher>>
      /\ worker[w] = "running"
      /\ \A v \in Workers : worker'[v] = IF v = w THEN "idle" ELSE worker[v]
      /\ \A v \in Workers : hand'[v] = IF v = w THEN None ELSE hand[v]
      /\ \A y \in Requests : caller'[y] = IF y = x THEN "returned" ELSE caller[y]
  BY <1>0, <1>1 DEF FinishItem, TypeOK, queueVars
<1>3. \A y \in Requests : (Queued(y)' <=> Queued(y)) /\ (Accepted(y)' <=> Accepted(y))
  BY <1>2, SameQueue DEF queueSide
<1>4. x # None /\ ~Queued(x) /\ \A v \in Workers : v # w => hand[v] # x
  BY <1>0, <1>1, <1>2 DEF HandsOK, QueueOK
<1>5. QueueOK' /\ HandsOK' /\ ShutdownOK' /\ CallersOK'
  <2>1. QueueOK' /\ ShutdownOK' /\ CallersOK'
    BY <1>0, <1>2, <1>3, <1>4, QueueAssumption DEF QueueOK, ShutdownOK, CallersOK, Closing
  <2>2. HandsOK'
    BY <1>0, <1>2, <1>3, <1>4, QueueAssumption DEF HandsOK
  <2>3. QED
    BY <2>1, <2>2
<1>6. PendingOK'
  <2>1. \A i \in 1..Len(pending) : pending[i] \in Workers
    BY <1>0, ElementOfSeq DEF TypeOK
  <2>2. QED
    BY <2>1, <1>0, <1>2 DEF PendingOK
<1>7. LostOK'
  <2>1. \A y \in Requests : y # x /\ InHand(y) => InHand(y)'
    BY <1>0, <1>1, <1>2 DEF InHand, Held
  <2>2. QED
    BY <2>1, <1>0, <1>2, <1>3 DEF LostOK, Closing
<1>8. QED
  BY <1>5, <1>6, <1>7 DEF Places

\* The queue service forgets what waits.
LEMMA StoppingKeepsPlaces ==
    ASSUME IInv, Places, Stopping
    PROVE  Places'
<1>0. /\ TypeOK /\ QueueOK /\ HandsOK /\ PendingOK /\ ShutdownOK /\ CallersOK /\ LostOK
      /\ Len(<<>>) = 0
  BY EmptySeq DEF IInv, Places
<1>1. /\ UNCHANGED <<accepted, worker, hand, queueDone, schedulerDone, callerDone, caller, retries>>
      /\ pending' = <<>> /\ \A t \in Tenants : queue'[t] = <<>>
      /\ queueDone
  BY <1>0 DEF Stopping, workerVars, callerVars, ShutdownOK
<1>2. \A y \in Requests : ~Queued(y)' /\ (Accepted(y)' <=> Accepted(y))
  BY <1>1, InEmpty, QueueAssumption DEF Queued, Accepted
<1>3. QueueOK' /\ PendingOK'
  BY <1>0, <1>1, <1>2 DEF QueueOK, PendingOK, NoRepetition
<1>4. HandsOK' /\ ShutdownOK' /\ CallersOK' /\ LostOK'
  BY <1>0, <1>1, <1>2 DEF HandsOK, ShutdownOK, CallersOK, LostOK, Closing
<1>5. QED
  BY <1>3, <1>4 DEF Places

LEMMA EnvironmentKeepsPlaces ==
    ASSUME IInv, Places,
           \/ ScheduleDone \/ LoopEnds \/ StopQueue \/ StopScheduler
           \/ \E r \in Requests : CancelCaller(r)
           \/ UNCHANGED vars
    PROVE  Places'
<1>0. /\ TypeOK /\ QueueOK /\ HandsOK /\ PendingOK /\ ShutdownOK /\ CallersOK /\ LostOK
  BY DEF IInv, Places
<1>1. /\ UNCHANGED <<queue, accepted, pending, worker, hand, caller, retries>>
      /\ queueDone => queueDone'
      /\ schedulerDone => schedulerDone'
      /\ dispatcher' \in {"stopped", "terminated"} => queueDone'
      /\ \A r \in Requests : callerDone[r] => callerDone'[r]
  BY <1>0 DEF ScheduleDone, LoopEnds, StopQueue, StopScheduler, CancelCaller, vars, queueVars,
              workerVars, callerVars, TypeOK, ShutdownOK
<1>2. \A y \in Requests : (Queued(y)' <=> Queued(y)) /\ (Accepted(y)' <=> Accepted(y))
  BY <1>1, SameQueue DEF queueSide
<1>3. QueueOK' /\ HandsOK' /\ PendingOK'
  BY <1>0, <1>1, <1>2 DEF QueueOK, HandsOK, PendingOK
<1>4. ShutdownOK' /\ CallersOK' /\ LostOK'
  BY <1>0, <1>1, <1>2 DEF ShutdownOK, CallersOK, LostOK, InHand, Held, Closing
<1>5. QED
  BY <1>3, <1>4 DEF Places

LEMMA NextKeepsPlaces == IInv /\ Places /\ [Next]_vars => Places'
BY DeliverKeepsPlaces, AcceptKeepsPlaces, CallerKeepsPlaces, TakeDequeueKeepsPlaces,
   WorkerKeepsPlaces, FinishKeepsPlaces, StoppingKeepsPlaces, EnvironmentKeepsPlaces
   DEF Next, Dispatcher, Worker

LEMMA PlacesInvariance == Spec => []Places
<1>1. QED
  BY InitPlaces, NextKeepsPlaces, Invariance, PTL DEF Spec

-----------------------------------------------------------------------------
(* The theorems *)

\* An item is queued once, or in one hand, and nothing of a call that has
\* returned can still run (runInQueue, dispatcherLoop, Worker.run), for any
\* number of tenants, requests and workers.
THEOREM ItemsAreInOnePlace == Spec => []ItemInOnePlace
<1>1. Places => ItemInOnePlace
  BY DEF Places, QueueOK, HandsOK, ItemInOnePlace, Held
<1>2. QED
  BY <1>1, PlacesInvariance, PTL

\* A call that nothing will ever answer was hit by a shutdown, or had a context
\* that was done before its first try (the wg.Wait of runInQueue).
THEOREM LossIsExplained == Spec => []LostItemIsExplained
<1>1. Places => LostItemIsExplained
  BY DEF Places, CallersOK, LostOK, LostItemIsExplained, Accepted, InHand, Closing
<1>2. QED
  BY <1>1, PlacesInvariance, PTL

-----------------------------------------------------------------------------
(* The refinement *)

Statuses == [r \in Requests |-> Status(r)]

LEMMA StatusValue ==
    ASSUME NEW r \in Requests
    PROVE  /\ caller[r] \in {"new", "sending", "retrying"} => Status(r) = "new"
           /\ caller[r] = "returned" => Status(r) = "done"
           /\ caller[r] = "failed" => Status(r) = "refused"
           /\ caller[r] = "waiting" /\ Queued(r) => Status(r) = "accepted"
           /\ caller[r] = "waiting" /\ ~Queued(r) /\ InHand(r) => Status(r) = "handed"
           /\ caller[r] = "waiting" /\ ~Queued(r) /\ ~InHand(r) /\ Accepted(r) => Status(r) = "lost"
           /\ caller[r] = "waiting" /\ ~Queued(r) /\ ~InHand(r) /\ ~Accepted(r) => Status(r) = "new"
<1>1. caller[r] \in {"new", "sending", "retrying"} => Status(r) = "new"
  BY DEF Status, InHand, Accepted
<1>2. caller[r] = "returned" => Status(r) = "done"
  BY DEF Status, InHand, Accepted
<1>3. caller[r] = "failed" => Status(r) = "refused"
  BY DEF Status, InHand, Accepted
<1>4. caller[r] = "waiting" /\ Queued(r) => Status(r) = "accepted"
  BY DEF Status, InHand, Accepted
<1>5. caller[r] = "waiting" /\ ~Queued(r) /\ InHand(r) => Status(r) = "handed"
  BY DEF Status, InHand, Accepted
<1>6. caller[r] = "waiting" /\ ~Queued(r) /\ ~InHand(r) /\ Accepted(r) => Status(r) = "lost"
  BY DEF Status, InHand, Accepted
<1>7. caller[r] = "waiting" /\ ~Queued(r) /\ ~InHand(r) /\ ~Accepted(r) => Status(r) = "new"
  BY DEF Status, InHand, Accepted
<1>8. QED
  BY <1>1, <1>2, <1>3, <1>4, <1>5, <1>6, <1>7

LEMMA StatusValueNext ==
    ASSUME NEW r \in Requests
    PROVE  /\ caller'[r] \in {"new", "sending", "retrying"} => Status(r)' = "new"
           /\ caller'[r] = "returned" => Status(r)' = "done"
           /\ caller'[r] = "failed" => Status(r)' = "refused"
           /\ caller'[r] = "waiting" /\ Queued(r)' => Status(r)' = "accepted"
           /\ caller'[r] = "waiting" /\ ~Queued(r)' /\ InHand(r)' => Status(r)' = "handed"
           /\ caller'[r] = "waiting" /\ ~Queued(r)' /\ ~InHand(r)' /\ Accepted(r)' => Status(r)' = "lost"
           /\ caller'[r] = "waiting" /\ ~Queued(r)' /\ ~InHand(r)' /\ ~Accepted(r)' => Status(r)' = "new"
<1>1. caller'[r] \in {"new", "sending", "retrying"} => Status(r)' = "new"
  BY DEF Status, InHand, Accepted
<1>2. caller'[r] = "returned" => Status(r)' = "done"
  BY DEF Status, InHand, Accepted
<1>3. caller'[r] = "failed" => Status(r)' = "refused"
  BY DEF Status, InHand, Accepted
<1>4. caller'[r] = "waiting" /\ Queued(r)' => Status(r)' = "accepted"
  BY DEF Status, InHand, Accepted
<1>5. caller'[r] = "waiting" /\ ~Queued(r)' /\ InHand(r)' => Status(r)' = "handed"
  BY DEF Status, InHand, Accepted
<1>6. caller'[r] = "waiting" /\ ~Queued(r)' /\ ~InHand(r)' /\ Accepted(r)' => Status(r)' = "lost"
  BY DEF Status, InHand, Accepted
<1>7. caller'[r] = "waiting" /\ ~Queued(r)' /\ ~InHand(r)' /\ ~Accepted(r)' => Status(r)' = "new"
  BY DEF Status, InHand, Accepted
<1>8. QED
  BY <1>1, <1>2, <1>3, <1>4, <1>5, <1>6, <1>7

\* What a step leaves alone, of a request.
Same(r) ==
    /\ caller'[r] = caller[r]
    /\ Queued(r)' <=> Queued(r)
    /\ InHand(r)' <=> InHand(r)
    /\ Accepted(r)' <=> Accepted(r)

LEMMA SameStatus == ASSUME NEW r \in Requests, Same(r) PROVE Status(r)' = Status(r)
BY DEF Same, Status, InHand, Accepted

\* A step that only touches request x.
LEMMA OnlyOne ==
    ASSUME NEW x \in Requests, \A r \in Requests \ {x} : Same(r)
    PROVE  Statuses' = [Statuses EXCEPT ![x] = Status(x)']
BY SameStatus DEF Statuses

LEMMA NoStatusChanges ==
    ASSUME \A r \in Requests : Same(r)
    PROVE  Statuses' = Statuses
BY SameStatus DEF Statuses

LEMMA DeliverRefines ==
    ASSUME IInv, Places, Deliver
    PROVE  \E t \in Tenants : Fifo!HandOut(t) \/ Fifo!LoseNext(t)
<1>0. /\ TypeOK /\ QueueOK /\ HandsOK /\ PendingOK /\ ShutdownOK
      /\ None \notin Requests
  BY QueueAssumption DEF IInv, Places
<1>1. PICK w \in Workers, t \in Tenants, x \in Requests : Delivers(w, t, x)
  BY DeliverStep
<1>2. /\ \A v \in Workers : hand'[v] = IF v = w THEN x ELSE hand[v]
      /\ \A r \in Requests : Queued(r)' <=> Queued(r) /\ r # x
      /\ \A r \in Requests : Accepted(r)' <=> Accepted(r)
      /\ UNCHANGED <<caller, worker, queueDone, schedulerDone>>
      /\ hand[w] = None /\ worker[w] \in {"awaiting", "exited"}
      /\ x = Head(queue[t]) /\ queue[t] # <<>>
      /\ queue' = [queue EXCEPT ![t] = Tail(queue[t])]
  BY <1>0, <1>1 DEF Delivers, TypeOK, Accepted
<1>3. Queued(x) /\ caller[x] = "waiting" /\ Accepted(x) /\ \A v \in Workers : hand[v] # x
  BY <1>0, <1>1 DEF Delivers, QueueOK
<1>4. Status(x) = "accepted"
  BY <1>3, StatusValue
<1>5. \A r \in Requests \ {x} : Same(r)
  BY <1>0, <1>2 DEF Same, InHand, Held
<1>6. Statuses' = [Statuses EXCEPT ![x] = Status(x)']
  BY <1>5, OnlyOne
<1>7. CASE worker[w] = "awaiting"
  <2>1. InHand(x)'
    BY <1>2, <1>7 DEF InHand, Held
  <2>2. Status(x)' = "handed"
    BY <2>1, <1>2, <1>3, StatusValueNext
  <2>3. Fifo!HandOut(t)
    BY <2>2, <1>2, <1>4, <1>6 DEF Fifo!HandOut, Fifo!Becomes, Statuses
  <2>4. QED
    BY <2>3
<1>8. CASE worker[w] = "exited"
  <2>1. ~InHand(x)'
    BY <1>2, <1>3, <1>8 DEF InHand, Held
  <2>2. Status(x)' = "lost"
    BY <2>1, <1>2, <1>3, StatusValueNext
  <2>3. Closing
    BY <1>0, <1>8 DEF ShutdownOK
  <2>4. Fifo!LoseNext(t)
    BY <2>2, <2>3, <1>2, <1>4, <1>6 DEF Fifo!LoseNext, Fifo!Becomes, Statuses, Closing
  <2>5. QED
    BY <2>4
<1>9. QED
  BY <1>2, <1>7, <1>8

LEMMA AcceptRefines ==
    ASSUME IInv, Places, NEW r \in Requests, AcceptItem(r)
    PROVE  Fifo!Accept(r)
<1>1. Accepts(r)
  BY AcceptStep
<1>2. /\ caller[r] = "sending" /\ caller'[r] = "waiting" /\ Queued(r)'
      /\ UNCHANGED <<worker, hand, queueDone, schedulerDone>>
      /\ \A y \in Requests \ {r} : caller'[y] = caller[y]
  BY <1>1 DEF Accepts, IInv, TypeOK
<1>3. \A y \in Requests \ {r} : Same(y)
  BY <1>1, <1>2 DEF Accepts, Same, InHand, Held
<1>4. Statuses' = [Statuses EXCEPT ![r] = "accepted"] /\ Status(r) = "new"
  BY <1>2, <1>3, OnlyOne, StatusValue, StatusValueNext
<1>5. QED
  BY <1>1, <1>2, <1>4 DEF Accepts, Fifo!Accept, Fifo!Becomes, Statuses

LEMMA CallerRefines ==
    ASSUME IInv, Places, NEW r \in Requests, Caller(r) \/ RefuseItem(r)
    PROVE  Fifo!Refuse(r) \/ UNCHANGED Fifo!fifoVars
<1>0. TypeOK /\ QueueOK /\ HandsOK /\ CallersOK /\ None \notin Requests
  BY QueueAssumption DEF IInv, Places
<1>1. /\ UNCHANGED <<queue, accepted, pending, worker, hand, queueDone, schedulerDone>>
      /\ caller[r] \in {"new", "sending", "retrying"}
      /\ caller'[r] \in {"sending", "retrying", "failed", "waiting"}
      /\ \A y \in Requests \ {r} : caller'[y] = caller[y]
  BY <1>0 DEF Caller, RefuseItem, StartEnqueue, EnqueueFails, GiveUp, WaitForNothing, queueVars,
              workerVars, TypeOK
<1>2. \A y \in Requests : /\ Queued(y)' <=> Queued(y)
                          /\ Accepted(y)' <=> Accepted(y)
                          /\ InHand(y)' <=> InHand(y)
  BY <1>1, SameQueue DEF queueSide, InHand, Held
<1>3. ~Accepted(r) /\ ~Queued(r) /\ ~InHand(r)
  BY <1>0, <1>1 DEF CallersOK, QueueOK, HandsOK, InHand, Held
<1>4. Statuses' = [Statuses EXCEPT ![r] = Status(r)'] /\ Status(r) = "new"
  BY <1>1, <1>2, OnlyOne, StatusValue DEF Same
<1>5. Status(r)' \in {"new", "refused"}
  BY <1>1, <1>2, <1>3, StatusValueNext
<1>6. CASE Status(r)' = "refused"
  BY <1>1, <1>4, <1>6 DEF Fifo!Refuse, Fifo!Becomes, Statuses
<1>7. CASE Status(r)' = "new"
  <2>1. Statuses' = Statuses
    BY <1>4, <1>7 DEF Statuses
  <2>2. QED
    BY <2>1, <1>1 DEF Fifo!fifoVars, Statuses
<1>8. QED
  BY <1>5, <1>6, <1>7

LEMMA WorkerRefines ==
    ASSUME IInv, Places, NEW w \in Workers, Worker(w) \/ TakeDequeue(w)
    PROVE  \/ \E r \in Requests : Fifo!Finish(r) \/ Fifo!LoseHanded(r)
           \/ UNCHANGED Fifo!fifoVars
<1>0. TypeOK /\ QueueOK /\ HandsOK /\ None \notin Requests
  BY QueueAssumption DEF IInv, Places
<1>1. /\ UNCHANGED <<queue, accepted, queueDone, schedulerDone>>
      /\ \A y \in Requests : (Queued(y)' <=> Queued(y)) /\ (Accepted(y)' <=> Accepted(y))
  BY DEF Worker, StartDequeue, WorkerExits, StartItem, FinishItem, TakeDequeue, queueVars, Queued,
         Accepted
<1>2. CASE FinishItem(w)
  <2>1. PICK x \in Requests : x = hand[w]
    BY <1>0, <1>2 DEF FinishItem, HandsOK, TypeOK
  <2>2. /\ \A v \in Workers : worker'[v] = IF v = w THEN "idle" ELSE worker[v]
        /\ \A v \in Workers : hand'[v] = IF v = w THEN None ELSE hand[v]
        /\ \A y \in Requests : caller'[y] = IF y = x THEN "returned" ELSE caller[y]
        /\ worker[w] = "running"
    BY <1>0, <1>2, <2>1 DEF FinishItem, TypeOK
  <2>3. caller[x] = "waiting" /\ ~Queued(x) /\ InHand(x)
    BY <1>0, <2>1, <2>2 DEF HandsOK, QueueOK, InHand, Held
  <2>4. \A y \in Requests \ {x} : Same(y)
    BY <1>0, <1>1, <2>1, <2>2 DEF Same, InHand, Held
  <2>5. Statuses' = [Statuses EXCEPT ![x] = "done"] /\ Status(x) = "handed"
    BY <2>2, <2>3, <2>4, OnlyOne, StatusValue, StatusValueNext
  <2>6. Fifo!Finish(x)
    BY <1>1, <2>5 DEF Fifo!Finish, Fifo!Becomes, Statuses
  <2>7. QED
    BY <2>6
<1>3. CASE WorkerExits(w) /\ worker[w] = "awaiting" /\ hand[w] # None
  <2>1. PICK x \in Requests : x = hand[w]
    BY <1>0, <1>3 DEF TypeOK
  <2>2. /\ \A v \in Workers : worker'[v] = IF v = w THEN "exited" ELSE worker[v]
        /\ hand' = hand /\ caller' = caller /\ schedulerDone
    BY <1>0, <1>3 DEF WorkerExits, DequeueCancelled, TypeOK, callerVars
  <2>3. /\ caller[x] = "waiting" /\ Accepted(x) /\ ~Queued(x) /\ InHand(x)
        /\ \A v \in Workers : v # w => hand[v] # x
    BY <1>0, <1>3, <2>1 DEF HandsOK, QueueOK, InHand, Held
  <2>4. ~InHand(x)'
    BY <2>2, <2>3 DEF InHand, Held
  <2>5. \A y \in Requests \ {x} : Same(y)
    BY <1>0, <1>1, <2>1, <2>2 DEF Same, InHand, Held
  <2>6. Statuses' = [Statuses EXCEPT ![x] = "lost"] /\ Status(x) = "handed"
    BY <1>1, <2>2, <2>3, <2>4, <2>5, OnlyOne, StatusValue, StatusValueNext
  <2>7. Fifo!LoseHanded(x)
    BY <1>1, <2>2, <2>6 DEF Fifo!LoseHanded, Fifo!Becomes, Statuses
  <2>8. QED
    BY <2>7
<1>4. CASE \/ StartDequeue(w) \/ StartItem(w) \/ TakeDequeue(w)
           \/ WorkerExits(w) /\ ~(worker[w] = "awaiting" /\ hand[w] # None)
  <2>1. /\ hand' = hand /\ caller' = caller
        /\ \A v \in Workers : v # w => worker'[v] = worker[v]
        /\ \/ worker[w] = "awaiting" /\ worker'[w] = "running"
           \/ hand[w] = None
    BY <1>0, <1>4 DEF StartDequeue, StartItem, TakeDequeue, WorkerExits, DequeueCancelled, TypeOK,
                      HandsOK, callerVars
  <2>2. \A y \in Requests : Same(y)
    BY <1>0, <1>1, <2>1 DEF Same, InHand, Held
  <2>3. Statuses' = Statuses
    BY <2>2, NoStatusChanges
  <2>4. QED
    BY <1>1, <2>3 DEF Fifo!fifoVars, Statuses
<1>5. QED
  BY <1>2, <1>3, <1>4 DEF Worker

LEMMA StoppingRefines ==
    ASSUME IInv, Places, Stopping
    PROVE  Fifo!Clear
<1>0. TypeOK /\ QueueOK /\ ShutdownOK
  BY DEF IInv, Places
<1>1. /\ UNCHANGED <<accepted, worker, hand, queueDone, schedulerDone, caller>>
      /\ queue' = [t \in Tenants |-> <<>>]
      /\ queueDone
  BY <1>0 DEF Stopping, workerVars, callerVars, ShutdownOK
<1>2. \A y \in Requests : ~Queued(y)' /\ (Accepted(y)' <=> Accepted(y)) /\ (InHand(y)' <=> InHand(y))
  BY <1>1, InEmpty, QueueAssumption DEF Queued, Accepted, InHand, Held
<1>3. ASSUME NEW r \in Requests
      PROVE  Status(r)' = IF Status(r) = "accepted" THEN "lost" ELSE Status(r)
  <2>1. CASE Queued(r)
    <3>1. caller[r] = "waiting" /\ Accepted(r) /\ ~InHand(r)
      BY <1>0, <2>1 DEF QueueOK, InHand, Held
    <3>2. QED
      BY <3>1, <2>1, <1>1, <1>2, StatusValue, StatusValueNext
  <2>2. CASE ~Queued(r)
    <3>1. Same(r)
      BY <2>2, <1>1, <1>2 DEF Same
    <3>2. Status(r) # "accepted"
      BY <2>2 DEF Status
    <3>3. QED
      BY <3>1, <3>2, SameStatus
  <2>3. QED
    BY <2>1, <2>2
<1>4. QED
  BY <1>1, <1>3 DEF Fifo!Clear

LEMMA EnvironmentRefines ==
    ASSUME \/ ScheduleDone \/ LoopEnds \/ StopQueue \/ StopScheduler
           \/ \E r \in Requests : CancelCaller(r)
           \/ UNCHANGED vars,
           IInv
    PROVE  Fifo!BeginClosing \/ UNCHANGED Fifo!fifoVars
<1>1. /\ UNCHANGED <<queue, accepted, worker, hand, caller>>
      /\ Closing => Closing'
  BY DEF ScheduleDone, LoopEnds, StopQueue, StopScheduler, CancelCaller, vars, queueVars,
         workerVars, callerVars, Closing
<1>2. \A y \in Requests : Same(y)
  BY <1>1 DEF Same, Queued, Accepted, InHand, Held
<1>3. Statuses' = Statuses
  BY <1>2, NoStatusChanges
<1>4. CASE Closing' /\ ~Closing
  BY <1>1, <1>3, <1>4 DEF Fifo!BeginClosing, Statuses, Closing
<1>5. CASE ~(Closing' /\ ~Closing)
  <2>1. (queueDone \/ schedulerDone)' = (queueDone \/ schedulerDone)
    BY <1>1, <1>5 DEF Closing
  <2>2. QED
    BY <2>1, <1>1, <1>3 DEF Fifo!fifoVars, Statuses
<1>6. QED
  BY <1>4, <1>5

\* Whatever dispatcher, workers, callers and shutdowns do, it is what the bounded
\* FIFO queues of TenantFifo may do: items are handed out in the order in which
\* Enqueue accepted them, once, and none is lost before a shutdown; for any number
\* of tenants, requests and workers.
THEOREM QueueImplementsFifo == Spec => ImplementsTenantFifo
<1>1. Init => Fifo!Init
  <2>1. SUFFICES ASSUME Init PROVE Fifo!Init
    OBVIOUS
  <2>2. \A r \in Requests : Status(r) = "new"
    BY <2>1, StatusValue DEF Init
  <2>3. QED
    BY <2>1, <2>2 DEF Init, Fifo!Init
<1>2. IInv /\ Places /\ [Next]_vars => [Fifo!Next]_(Fifo!fifoVars)
  <2>1. SUFFICES ASSUME IInv, Places, [Next]_vars PROVE Fifo!Next \/ UNCHANGED Fifo!fifoVars
    OBVIOUS
  <2>2. CASE Deliver
    BY <2>1, <2>2, DeliverRefines DEF Fifo!Next
  <2>3. CASE \E r \in Requests : AcceptItem(r)
    BY <2>1, <2>3, AcceptRefines DEF Fifo!Next
  <2>4. CASE \E r \in Requests : Caller(r) \/ RefuseItem(r)
    BY <2>1, <2>4, CallerRefines DEF Fifo!Next
  <2>5. CASE \E w \in Workers : Worker(w) \/ TakeDequeue(w)
    BY <2>1, <2>5, WorkerRefines DEF Fifo!Next
  <2>6. CASE Stopping
    BY <2>1, <2>6, StoppingRefines DEF Fifo!Next
  <2>7. CASE \/ ScheduleDone \/ LoopEnds \/ StopQueue \/ StopScheduler
             \/ \E r \in Requests : CancelCaller(r)
             \/ UNCHANGED vars
    BY <2>1, <2>7, EnvironmentRefines DEF Fifo!Next
  <2>8. QED
    BY <2>1, <2>2, <2>3, <2>4, <2>5, <2>6, <2>7 DEF Next, Dispatcher
<1>3. QED
  BY <1>1, <1>2, Invariance, PlacesInvariance, PTL DEF Spec, ImplementsTenantFifo, Fifo!Spec
=============================================================================
