--------------------- MODULE ServerLockInterval_proofs ---------------------
(***************************************************************************)
(* For any set of servers and any interval, two executions under           *)
(* LockAndExecute start at least MaxInterval - ClockError - MaxDelay apart.*)
(* A server that has read the row's present version holds the age the row  *)
(* really has (SnapshotIsExact), so one that found it old and still has    *)
(* the version overwrites an old stamp (StampIsOld); and the row is never  *)
(* much older than the last start (StampIsFresh).                          *)
(***************************************************************************)
EXTENDS ServerLockInterval, TLAPS

SnapshotIsExact ==
    \A s \in Servers : pc[s] = "read" /\ s \in current => age[s] = rowAge

StampIsOld ==
    \A s \in Servers :
       pc[s] = "updating" /\ s \in current => rowAge >= MaxInterval - ClockError

UpdatesAreQuick == \A s \in Servers : pc[s] = "updating" => age[s] <= MaxDelay

StampIsFresh == rowAge <= since + MaxDelay

IInv ==
    /\ TypeOK
    /\ SnapshotIsExact
    /\ StampIsOld
    /\ UpdatesAreQuick
    /\ StampIsFresh

LEMMA InitIInv == Init => IInv
<1> SUFFICES ASSUME Init PROVE IInv
  OBVIOUS
<1>1. AgeCap \in 0..AgeCap /\ 0 \in 0..AgeCap /\ 0 \in 0..MaxFaults /\ AgeCap <= AgeCap + MaxDelay
  BY IntervalAssumption DEF AgeCap
<1>2. TypeOK
  BY <1>1 DEF Init, Never, TypeOK, States
<1>3. SnapshotIsExact /\ StampIsOld /\ UpdatesAreQuick
  BY DEF Init, SnapshotIsExact, StampIsOld, UpdatesAreQuick
<1>4. StampIsFresh
  BY <1>1 DEF Init, Never, StampIsFresh
<1>5. QED
  BY <1>2, <1>3, <1>4 DEF IInv

\* A server that ends its call, or goes down or comes back, disturbs nothing.
LEMMA IdleStep ==
    ASSUME IInv, NEW s \in Servers, NEW p \in {"idle", "creating", "executing", "down"},
           pc' = [pc EXCEPT ![s] = p], UNCHANGED <<rowAge, current, age, since>>, row' \in BOOLEAN,
           faults' \in 0..MaxFaults
    PROVE  IInv'
BY DEF IInv, TypeOK, States, SnapshotIsExact, StampIsOld, UpdatesAreQuick, StampIsFresh

\* A server that has read or created the row knows how old it is.
LEMMA HasRowStep ==
    ASSUME IInv, NEW s \in Servers, HasRow(s), row' \in BOOLEAN
    PROVE  IInv'
BY IntervalAssumption
   DEF HasRow, IInv, TypeOK, States, AgeCap, SnapshotIsExact, StampIsOld, UpdatesAreQuick, StampIsFresh

\* An UPDATE that goes through leaves no server with the present version.
LEMMA UpdateStep ==
    ASSUME IInv, NEW s \in Servers, pc[s] = "updating",
           NEW p \in {"idle", "executing"}, pc' = [pc EXCEPT ![s] = p],
           rowAge' = age[s], current' = {}, since' \in {0, since},
           UNCHANGED <<row, age>>, faults' \in 0..MaxFaults
    PROVE  IInv'
<1> USE IntervalAssumption
<1>1. TypeOK'
  BY DEF IInv, TypeOK, States, AgeCap
<1>2. rowAge' <= since' + MaxDelay
  BY DEF IInv, TypeOK, AgeCap, UpdatesAreQuick
<1>3. UpdatesAreQuick'
  BY DEF IInv, TypeOK, UpdatesAreQuick
<1>4. QED
  BY <1>1, <1>2, <1>3 DEF IInv, SnapshotIsExact, StampIsOld, StampIsFresh

LEMMA NextIInv == IInv /\ [Next]_vars => IInv'
<1> SUFFICES ASSUME IInv, [Next]_vars PROVE IInv'
  OBVIOUS
<1> USE IntervalAssumption
<1>a. TypeOK
  BY DEF IInv
<1>1. ASSUME NEW s \in Servers, Get(s) \/ CreateLock(s) PROVE IInv'
  BY <1>1, <1>a, HasRowStep DEF Get, CreateLock, TypeOK
<1>13. ASSUME NEW s \in Servers, GetNone(s) \/ CreateLockLost(s) PROVE IInv'
  BY <1>13, <1>a, IdleStep DEF GetNone, CreateLockLost, TypeOK
<1>2. ASSUME NEW s \in Servers, WithinInterval(s) PROVE IInv'
  BY <1>2, <1>a, IdleStep DEF WithinInterval, TypeOK
<1>3. ASSUME NEW s \in Servers, Stamp(s) PROVE IInv'
  <2>1. s \in current => rowAge >= MaxInterval - ClockError
    BY <1>3 DEF Stamp, IInv, TypeOK, AgeCap, SnapshotIsExact
  <2>2. TypeOK'
    BY <1>3 DEF Stamp, IInv, TypeOK, States, AgeCap
  <2>3. SnapshotIsExact' /\ UpdatesAreQuick' /\ StampIsFresh'
    BY <1>3 DEF Stamp, IInv, TypeOK, AgeCap, SnapshotIsExact, UpdatesAreQuick, StampIsFresh
  <2>4. StampIsOld'
    BY <1>3, <2>1 DEF Stamp, IInv, TypeOK, StampIsOld
  <2>5. QED
    BY <2>2, <2>3, <2>4 DEF IInv
<1>4. ASSUME NEW s \in Servers, Claim(s) PROVE IInv'
  BY <1>4, <1>a, UpdateStep DEF Claim, TypeOK
<1>5. ASSUME NEW s \in Servers, ClaimLost(s) PROVE IInv'
  BY <1>5, <1>a, IdleStep DEF ClaimLost, TypeOK
<1>6. ASSUME NEW s \in Servers, ExecuteFuncEnds(s) PROVE IInv'
  BY <1>6, <1>a, IdleStep DEF ExecuteFuncEnds, TypeOK
<1>7. ASSUME NEW s \in Servers, DatabaseError(s) PROVE IInv'
  <2>1. faults' \in 0..MaxFaults
    BY <1>7, <1>a DEF DatabaseError, TypeOK
  <2>2. QED
    BY <1>7, <1>a, <2>1, IdleStep DEF DatabaseError, TypeOK
<1>14. ASSUME NEW s \in Servers, AnswerLost(s) PROVE IInv'
  <2>1. faults' \in 0..MaxFaults
    BY <1>14, <1>a DEF AnswerLost, TypeOK
  <2>2. CASE pc[s] = "creating" /\ row' = TRUE /\ UNCHANGED <<rowAge, current>>
    BY <1>14, <2>1, <2>2, IdleStep DEF AnswerLost
  <2>3. CASE pc[s] = "updating" /\ rowAge' = age[s] /\ current' = {} /\ UNCHANGED row
    BY <1>14, <2>1, <2>3, UpdateStep DEF AnswerLost
  <2>4. QED
    BY <1>14, <2>2, <2>3 DEF AnswerLost
<1>8. ASSUME NEW s \in Servers, Crash(s) PROVE IInv'
  <2>1. faults' \in 0..MaxFaults
    BY <1>8, <1>a DEF Crash, TypeOK
  <2>2. QED
    BY <1>8, <1>a, <2>1, IdleStep DEF Crash, TypeOK
<1>9. ASSUME NEW s \in Servers, Restart(s) PROVE IInv'
  BY <1>9, <1>a, IdleStep DEF Restart, TypeOK
<1>10. CASE Tick
  <2>1. TypeOK'
    BY <1>10, <1>a DEF Tick, TypeOK, Older, AgeCap
  <2>2. SnapshotIsExact' /\ StampIsOld'
    BY <1>10, <1>a DEF Tick, IInv, TypeOK, SnapshotIsExact, StampIsOld, Older, AgeCap
  <2>3. UpdatesAreQuick'
    BY <1>10, <1>a DEF Tick, IInv, TypeOK, UpdatesAreQuick, Older, AgeCap
  <2>4. StampIsFresh'
    BY <1>10, <1>a DEF Tick, IInv, TypeOK, StampIsFresh, Older, AgeCap
  <2>5. QED
    BY <2>1, <2>2, <2>3, <2>4 DEF IInv
<1>11. CASE UNCHANGED vars
  BY <1>11 DEF vars, IInv, TypeOK, SnapshotIsExact, StampIsOld, UpdatesAreQuick, StampIsFresh
<1>12. QED
  BY <1>1, <1>2, <1>3, <1>4, <1>5, <1>6, <1>7, <1>8, <1>9, <1>10, <1>11, <1>13, <1>14
     DEF Next, LockAndExecute

\* The inductive invariant holds for ever: reading, claiming and losing the row
\* preserve it.
THEOREM Invariance == Spec => []IInv
BY InitIInv, NextIInv, PTL DEF Spec

\* Type correctness of the model of LockAndExecute.
THEOREM TypeCorrect == Spec => []TypeOK
<1>1. IInv => TypeOK
  BY DEF IInv
<1>2. QED
  BY <1>1, Invariance, PTL

\* Two servers that run fn under one action name (the successful UPDATE of
\* acquireLock) start MaxInterval apart, less the error of the clocks and the
\* delay of the UPDATE, whatever crashes, fails or loses a race.
THEOREM ExecutionsStartApart == Spec => StartsApart
<1>1. IInv /\ [Next]_vars
        => [\A s \in Servers : Claim(s) => since >= MaxInterval - ClockError - MaxDelay]_vars
  <2> SUFFICES ASSUME IInv, NEW s \in Servers, Claim(s)
               PROVE  since >= MaxInterval - ClockError - MaxDelay
    OBVIOUS
  <2>1. rowAge >= MaxInterval - ClockError /\ rowAge <= since + MaxDelay
    BY DEF Claim, IInv, StampIsOld, StampIsFresh
  <2>2. QED
    BY <2>1, IntervalAssumption DEF IInv, TypeOK, AgeCap
<1>2. QED
  BY <1>1, Invariance, PTL DEF Spec, StartsApart
=============================================================================
