-------------------------- MODULE ServerLock_proofs --------------------------
(***************************************************************************)
(* For any set of servers and any intervals that satisfy CallersAreQuick,  *)
(* no two servers execute the function at once.  Mutual exclusion is not   *)
(* inductive by itself: it needs that a holder's row is still there with   *)
(* the holder's own age (so it is neither missing nor old enough to be     *)
(* taken over), and that no holder is past MaxHold.                        *)
(***************************************************************************)
EXTENDS ServerLock, TLAPS

HoldersAreQuick == \A s \in Servers : Holds(s) => held[s] <= MaxHold

IInv ==
    /\ TypeOK
    /\ MutualExclusion
    /\ HolderOwnsRow
    /\ HoldersAreQuick

\* As long as a server holds the lock, acquireForRelease neither finds the row
\* missing nor timed out.
LEMMA HeldRowIsNotAcquired ==
    ASSUME IInv, NEW s \in Servers, Holds(s)
    PROVE  row /\ ~MayBeTimedOut
<1>1. rowAge <= MaxHold /\ row
  BY DEF IInv, HolderOwnsRow, HoldersAreQuick
<1>2. \A e \in -ClockError..ClockError : rowAge + e < MaxInterval
  BY <1>1, LockAssumption, CallersAreQuick DEF IInv, TypeOK, AgeCap
<1>3. QED
  BY <1>1, <1>2, LockAssumption DEF MayBeTimedOut, IInv, TypeOK, AgeCap

LEMMA InitIInv == Init => IInv
<1> SUFFICES ASSUME Init PROVE IInv
  OBVIOUS
<1>1. 0 \in 0..AgeCap /\ 0 \in 0..MaxFaults
  BY LockAssumption DEF AgeCap
<1>2. TypeOK
  BY <1>1 DEF Init, TypeOK, States
<1>3. \A s \in Servers : ~Holds(s)
  BY DEF Init, Holds
<1>4. QED
  BY <1>2, <1>3 DEF IInv, MutualExclusion, HolderOwnsRow, HoldersAreQuick

\* A server that acquires is the only holder, of a row stamped at that instant.
LEMMA AcquiredKeepsIInv ==
    ASSUME IInv, NEW s \in Servers, Acquired(s), ~\E t \in Servers : Holds(t)
    PROVE  IInv'
<1>1. PICK delay \in 0..MaxHold : rowAge' = delay /\ held' = [held EXCEPT ![s] = delay]
  BY DEF Acquired
<1>2. row' = TRUE /\ pc' = [pc EXCEPT ![s] = "executing"] /\ UNCHANGED <<retries, faults>>
  BY DEF Acquired
<1>3. delay \in 0..AgeCap
  BY LockAssumption, CallersAreQuick DEF AgeCap
<1>4. TypeOK'
  BY <1>1, <1>2, <1>3 DEF IInv, TypeOK, States
<1>5. \A t \in Servers : Holds(t)' <=> t = s
  BY <1>2 DEF IInv, TypeOK, Holds
<1>6. held'[s] = delay
  BY <1>1 DEF IInv, TypeOK
<1>7. MutualExclusion' /\ HolderOwnsRow'
  BY <1>1, <1>2, <1>5, <1>6 DEF MutualExclusion, HolderOwnsRow
<1>8. HoldersAreQuick'
  BY <1>1, <1>5, <1>6 DEF HoldersAreQuick
<1>9. QED
  BY <1>4, <1>7, <1>8 DEF IInv

\* An action that moves one server out of the critical section, or between two
\* states outside it, and leaves the row alone.
LEMMA NonHolderStep ==
    ASSUME IInv, NEW s \in Servers, NEW p \in States \ {"executing", "releasing"},
           pc' = [pc EXCEPT ![s] = p], UNCHANGED <<row, rowAge, held>>,
           retries' \in [Servers -> BOOLEAN], faults' \in 0..MaxFaults
    PROVE  IInv'
BY DEF IInv, TypeOK, States, AgeCap, MutualExclusion, HolderOwnsRow, HoldersAreQuick, Holds

LEMMA NextIInv == IInv /\ [Next]_vars => IInv'
<1> SUFFICES ASSUME IInv, [Next]_vars PROVE IInv'
  OBVIOUS
<1> USE LockAssumption
<1>a. TypeOK
  BY DEF IInv
<1>1. ASSUME NEW s \in Servers, Call(s) PROVE IInv'
  <2>1. retries' \in [Servers -> BOOLEAN]
    BY <1>1, <1>a DEF Call, TypeOK
  <2>2. QED
    BY <1>1, <1>a, <2>1, NonHolderStep DEF Call, TypeOK, States
<1>2. ASSUME NEW s \in Servers, AcquireByInsert(s) PROVE IInv'
  <2>1. Acquired(s) /\ ~row
    BY <1>2 DEF AcquireByInsert
  <2>2. ~\E t \in Servers : Holds(t)
    BY <2>1, HeldRowIsNotAcquired
  <2>3. QED
    BY <2>1, <2>2, AcquiredKeepsIInv
<1>3. ASSUME NEW s \in Servers, AcquireByTimeout(s) PROVE IInv'
  <2>1. Acquired(s) /\ MayBeTimedOut
    BY <1>3 DEF AcquireByTimeout
  <2>2. ~\E t \in Servers : Holds(t)
    BY <2>1, HeldRowIsNotAcquired
  <2>3. QED
    BY <2>1, <2>2, AcquiredKeepsIInv
<1>4. ASSUME NEW s \in Servers, AcquireRefused(s) PROVE IInv'
  BY <1>4, <1>a, NonHolderStep DEF AcquireRefused, TypeOK, States
<1>5. ASSUME NEW s \in Servers, RetryOptGivesUp(s) PROVE IInv'
  BY <1>5, <1>a, NonHolderStep DEF RetryOptGivesUp, TypeOK, States
<1>6. ASSUME NEW s \in Servers, AcquireError(s) PROVE IInv'
  <2>1. faults' \in 0..MaxFaults
    BY <1>6, <1>a DEF AcquireError, TypeOK
  <2>2. PICK p \in {"sleeping", "idle"} : pc' = [pc EXCEPT ![s] = p]
    BY <1>6 DEF AcquireError
  <2>3. UNCHANGED <<row, rowAge, retries, held>>
    BY <1>6 DEF AcquireError
  <2>4. QED
    BY <1>a, <2>1, <2>2, <2>3, NonHolderStep DEF TypeOK, States
<1>7. ASSUME NEW s \in Servers, Retry(s) PROVE IInv'
  BY <1>7, <1>a, NonHolderStep DEF Retry, TypeOK, States
<1>8. ASSUME NEW s \in Servers, ExecuteFunc(s) PROVE IInv'
  BY <1>8 DEF ExecuteFunc, IInv, TypeOK, States, AgeCap, MutualExclusion,
              HolderOwnsRow, HoldersAreQuick, Holds
<1>9. ASSUME NEW s \in Servers, ReleaseLock(s) PROVE IInv'
  \* s held the lock, so nobody else does: there is no holder left.
  <2>1. \A t \in Servers : ~Holds(t)'
    BY <1>9, <1>a DEF ReleaseLock, IInv, MutualExclusion, Holds, TypeOK, States
  <2>2. TypeOK'
    BY <1>9, <1>a DEF ReleaseLock, TypeOK, States, AgeCap
  <2>3. QED
    BY <2>1, <2>2 DEF IInv, MutualExclusion, HolderOwnsRow, HoldersAreQuick
<1>10. ASSUME NEW s \in Servers, ReleaseError(s) PROVE IInv'
  <2>1. faults' \in 0..MaxFaults
    BY <1>10, <1>a DEF ReleaseError, TypeOK
  <2>2. QED
    BY <1>10, <1>a, <2>1, NonHolderStep DEF ReleaseError, TypeOK, States
<1>11. ASSUME NEW s \in Servers, Crash(s) PROVE IInv'
  <2>1. faults' \in 0..MaxFaults
    BY <1>11, <1>a DEF Crash, TypeOK
  <2>2. QED
    BY <1>11, <1>a, <2>1, NonHolderStep DEF Crash, TypeOK, States
<1>12. ASSUME NEW s \in Servers, Restart(s) PROVE IInv'
  BY <1>12, <1>a, NonHolderStep DEF Restart, TypeOK, States
<1>13. CASE Tick
  <2>1. TypeOK'
    BY <1>13, <1>a DEF Tick, TypeOK, Older, AgeCap
  <2>2. \A s \in Servers : Holds(s)' <=> Holds(s)
    BY <1>13 DEF Tick, Holds
  <2>3. HolderOwnsRow'
    BY <1>13, <1>a, <2>2 DEF Tick, IInv, HolderOwnsRow, Older, TypeOK, AgeCap
  <2>4. HoldersAreQuick'
    BY <1>13, <1>a, <2>2 DEF Tick, IInv, HoldersAreQuick, Older, TypeOK, AgeCap
  <2>5. MutualExclusion'
    BY <2>2 DEF IInv, MutualExclusion
  <2>6. QED
    BY <2>1, <2>3, <2>4, <2>5 DEF IInv
<1>14. ASSUME NEW s \in Servers, AcquireAnswerLost(s) PROVE IInv'
  <2>1. \A t \in Servers : ~Holds(t)
    BY <1>14, HeldRowIsNotAcquired DEF AcquireAnswerLost
  <2>2. \A t \in Servers : ~Holds(t)'
    BY <1>14, <1>a, <2>1 DEF AcquireAnswerLost, Holds, TypeOK
  <2>3. TypeOK'
    <3>1. rowAge' \in 0..AgeCap
      BY <1>14, CallersAreQuick DEF AcquireAnswerLost, AgeCap
    <3>2. QED
      BY <1>14, <1>a, <3>1 DEF AcquireAnswerLost, TypeOK, States
  <2>4. QED
    BY <2>2, <2>3 DEF IInv, MutualExclusion, HolderOwnsRow, HoldersAreQuick
<1>15. CASE UNCHANGED vars
  BY <1>15 DEF vars, IInv, TypeOK, MutualExclusion, HolderOwnsRow, HoldersAreQuick, Holds
<1>16. QED
  BY <1>1, <1>2, <1>3, <1>4, <1>5, <1>6, <1>7, <1>8, <1>9, <1>10, <1>11, <1>12, <1>13, <1>14, <1>15
     DEF Next

\* The inductive invariant holds for ever: acquire, take-over, crash and release
\* preserve it.
THEOREM Invariance == Spec => []IInv
BY InitIInv, NextIInv, PTL DEF Spec

\* Type correctness of the model of LockExecuteAndRelease.
THEOREM TypeCorrect == Spec => []TypeOK
<1>1. IInv => TypeOK
  BY DEF IInv
<1>2. QED
  BY <1>1, Invariance, PTL

\* No two servers execute the function of one action name at the same time,
\* whatever crashes, fails or times out (executeFunc between acquireForRelease
\* and releaseLock).
THEOREM LockIsExclusive == Spec => []MutualExclusion
<1>1. IInv => MutualExclusion
  BY DEF IInv
<1>2. QED
  BY <1>1, Invariance, PTL

\* The row a server deletes in releaseLock is the row it stamped itself.
THEOREM HolderKeepsItsRow == Spec => []HolderOwnsRow
<1>1. IInv => HolderOwnsRow
  BY DEF IInv
<1>2. QED
  BY <1>1, Invariance, PTL
=============================================================================
