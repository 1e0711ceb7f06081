----------------------------- MODULE ServerLock -----------------------------
(***************************************************************************)
(* LockExecuteAndRelease and LockExecuteAndReleaseWithRetries of           *)
(* pkg/infra/serverlock/serverlock.go, for one action name: the servers of *)
(* an HA deployment insert a row to take the lock, run the function and    *)
(* delete the row; a row older than maxInterval is taken over.             *)
(*                                                                         *)
(* Time is kept as ages, so it is unbounded: rowAge is the time since the  *)
(* row's last_execution was stamped, held[s] the time since server s took  *)
(* the stamp it acquired with.  Both saturate at AgeCap.  A server compares *)
(* the row's stamp, written by another server's clock and truncated to a   *)
(* second, with its own clock: what it computes is off by at most          *)
(* ClockError.                                                             *)
(***************************************************************************)
EXTENDS Integers

CONSTANTS
    Servers,      \* the Grafana servers that share the database
    MaxInterval,  \* the timeout after which a lock is taken for dead
    MaxHold,      \* the longest from a caller's stamp to the end of its release
    ClockError,   \* skew between two servers plus the truncation to seconds
    MaxFaults     \* bound: how many database errors and crashes a behaviour has

ASSUME LockAssumption ==
    /\ MaxInterval \in Nat \ {0}
    /\ MaxHold \in Nat
    /\ ClockError \in Nat
    /\ MaxFaults \in Nat

\* "maxInterval should be so long that is impossible for 2 processes to run at
\* the same time": what the callers owe, with the error of the clocks counted.
ASSUME CallersAreQuick == MaxHold + ClockError < MaxInterval

VARIABLES
    row,      \* is there a row for the action name
    rowAge,   \* age of its last_execution
    pc,       \* where each server is in LockExecuteAndRelease
    retries,  \* did the server call the ...WithRetries form
    held,     \* age of the stamp the server acquired with
    faults    \* database errors and crashes so far (at most MaxFaults)

vars == <<row, rowAge, pc, retries, held, faults>>

AgeCap == MaxInterval + ClockError

States == {"idle", "acquiring", "sleeping", "executing", "releasing", "down"}

\* s is between a successful acquireForRelease and the end of releaseLock.
Holds(s) == pc[s] \in {"executing", "releasing"}

Older(age) == IF age < AgeCap THEN age + 1 ELSE age

\* Every variable stays within its type; a negative age would be a stamp that
\* lies in the future, which acquireForRelease must never write.
TypeOK ==
    /\ row \in BOOLEAN
    /\ rowAge \in 0..AgeCap
    /\ pc \in [Servers -> States]
    /\ retries \in [Servers -> BOOLEAN]
    /\ held \in [Servers -> 0..AgeCap]
    /\ faults \in 0..MaxFaults

Init ==
    /\ row = FALSE
    /\ rowAge = 0
    /\ pc = [s \in Servers |-> "idle"]
    /\ retries = [s \in Servers |-> FALSE]
    /\ held = [s \in Servers |-> 0]
    /\ faults = 0

-----------------------------------------------------------------------------
(* isLockWithinInterval, as it may come out on a clock that is off by e.   *)

MayBeWithinInterval == \E e \in -ClockError..ClockError : rowAge + e < MaxInterval

\* Mutant: a row that is there is always refused.
MutTimesOutNever == FALSE

MayBeTimedOut == \E e \in -ClockError..ClockError : rowAge + e >= MaxInterval

Call(s) ==
    /\ pc[s] = "idle"
    /\ pc' = [pc EXCEPT ![s] = "acquiring"]
    /\ \E r \in BOOLEAN : retries' = [retries EXCEPT ![s] = r]
    /\ UNCHANGED <<row, rowAge, held, faults>>

\* Mutant: the stamp is written in milliseconds and read as seconds.
MutAcquiredInMillis(s) ==
    /\ row' = TRUE
    /\ rowAge' = -MaxInterval
    /\ held' = [held EXCEPT ![s] = 0]
    /\ pc' = [pc EXCEPT ![s] = "executing"]
    /\ UNCHANGED <<retries, faults>>

\* The transaction of acquireForRelease commits, delay after it took the time it
\* stamps the row with, and s goes on to fn.
Acquired(s) ==
    /\ row' = TRUE
    /\ \E delay \in 0..MaxHold :
          rowAge' = delay /\ held' = [held EXCEPT ![s] = delay]
    /\ pc' = [pc EXCEPT ![s] = "executing"]
    /\ UNCHANGED <<retries, faults>>

AcquireByInsert(s) ==
    /\ pc[s] = "acquiring"
    /\ ~row
    /\ Acquired(s)

\* Mutant: the age of the row is not looked at.
MutAcquireAnyRow(s) ==
    /\ pc[s] = "acquiring"
    /\ row
    /\ Acquired(s)

AcquireByTimeout(s) ==
    /\ pc[s] = "acquiring"
    /\ row
    /\ MayBeTimedOut
    /\ Acquired(s)

\* ServerLockExistsError: the plain form returns it, the retrying form sleeps
\* unless one of its retryOpts gives up.
AcquireRefused(s) ==
    /\ pc[s] = "acquiring"
    /\ row
    /\ MayBeWithinInterval
    /\ pc' = [pc EXCEPT ![s] = IF retries[s] THEN "sleeping" ELSE "idle"]
    /\ UNCHANGED <<row, rowAge, retries, held, faults>>

RetryOptGivesUp(s) ==
    /\ pc[s] = "sleeping"
    /\ pc' = [pc EXCEPT ![s] = "idle"]
    /\ UNCHANGED <<row, rowAge, retries, held, faults>>

\* Mutant: a caller that fails to acquire runs the deferred release.
MutAcquireErrorReleases(s) ==
    /\ pc[s] = "acquiring"
    /\ faults < MaxFaults
    /\ faults' = faults + 1
    /\ row' = FALSE
    /\ pc' = [pc EXCEPT ![s] = "idle"]
    /\ UNCHANGED <<rowAge, retries, held>>

\* The transaction is rolled back: a MySQL deadlock (1213) counts as a lock
\* that is taken, every other error is returned.
AcquireError(s) ==
    /\ pc[s] = "acquiring"
    /\ faults < MaxFaults
    /\ faults' = faults + 1
    /\ \E isDeadlock \in BOOLEAN :
         pc' = [pc EXCEPT ![s] = IF isDeadlock /\ retries[s] THEN "sleeping" ELSE "idle"]
    /\ UNCHANGED <<row, rowAge, retries, held>>

\* The commit went through but its answer was lost: the row is stamped for a
\* caller that only sees an error.
AcquireAnswerLost(s) ==
    /\ pc[s] = "acquiring"
    /\ ~row \/ MayBeTimedOut
    /\ faults < MaxFaults
    /\ faults' = faults + 1
    /\ row' = TRUE
    /\ rowAge' \in 0..MaxHold
    /\ pc' = [pc EXCEPT ![s] = "idle"]
    /\ UNCHANGED <<retries, held>>

Retry(s) ==
    /\ pc[s] = "sleeping"
    /\ pc' = [pc EXCEPT ![s] = "acquiring"]
    /\ UNCHANGED <<row, rowAge, retries, held, faults>>

ExecuteFunc(s) ==
    /\ pc[s] = "executing"
    /\ pc' = [pc EXCEPT ![s] = "releasing"]
    /\ UNCHANGED <<row, rowAge, retries, held, faults>>

\* DELETE ... WHERE operation_uid=?: whoever stamped the row, it is deleted.
ReleaseLock(s) ==
    /\ pc[s] = "releasing"
    /\ row' = FALSE
    /\ pc' = [pc EXCEPT ![s] = "idle"]
    /\ UNCHANGED <<rowAge, retries, held, faults>>

\* The error of releaseLock is logged: the row stays until it times out.
ReleaseError(s) ==
    /\ pc[s] = "releasing"
    /\ faults < MaxFaults
    /\ faults' = faults + 1
    /\ pc' = [pc EXCEPT ![s] = "idle"]
    /\ UNCHANGED <<row, rowAge, retries, held>>

-----------------------------------------------------------------------------
(* The environment: crashes, and time.                                      *)

Crash(s) ==
    /\ pc[s] # "down"
    /\ faults < MaxFaults
    /\ faults' = faults + 1
    /\ pc' = [pc EXCEPT ![s] = "down"]
    /\ UNCHANGED <<row, rowAge, retries, held>>

Restart(s) ==
    /\ pc[s] = "down"
    /\ pc' = [pc EXCEPT ![s] = "idle"]
    /\ UNCHANGED <<row, rowAge, retries, held, faults>>

\* A caller is done within MaxHold of its stamp.
Tick ==
    /\ \A s \in Servers : Holds(s) => held[s] < MaxHold
    /\ rowAge' = IF row THEN Older(rowAge) ELSE rowAge
    /\ held' = [s \in Servers |-> IF Holds(s) THEN Older(held[s]) ELSE held[s]]
    /\ UNCHANGED <<row, pc, retries, faults>>

Acquire(s) == AcquireByInsert(s) \/ AcquireByTimeout(s) \/ AcquireRefused(s)

Next ==
    \/ \E s \in Servers :
         \/ Call(s) \/ AcquireByInsert(s) \/ AcquireByTimeout(s) \/ AcquireRefused(s)
         \/ RetryOptGivesUp(s) \/ AcquireError(s) \/ AcquireAnswerLost(s) \/ Retry(s)
         \/ ExecuteFunc(s) \/ ReleaseLock(s) \/ ReleaseError(s)
         \/ Crash(s) \/ Restart(s)
    \/ Tick

Spec == Init /\ [][Next]_vars

\* A server that runs goes on: its transactions end, its sleeps (MinWait to
\* MaxWait) end, its fn returns, and the clocks advance.
Fairness ==
    /\ WF_vars(Tick)
    /\ \A s \in Servers :
         /\ WF_vars(Acquire(s))
         /\ WF_vars(Retry(s))
         /\ WF_vars(ExecuteFunc(s))
         /\ WF_vars(ReleaseLock(s) \/ ReleaseError(s))

FairSpec == Spec /\ Fairness

-----------------------------------------------------------------------------
(* Properties.                                                              *)

\* No two servers run the function of an action name at once, which is what
\* "claim a lock and execute a function if the server was granted the lock"
\* asks, as long as every caller is done before the row can be taken for dead:
\* neither a takeover nor the DELETE without an owner check breaks it then.
MutualExclusion ==
    \A s, t \in Servers : Holds(s) /\ Holds(t) => s = t

\* A holder's row is in the table and carries the holder's own stamp: nobody
\* else deletes or restamps it, so the next acquireForRelease is refused.
HolderOwnsRow ==
    \A s \in Servers : Holds(s) => row /\ rowAge = held[s]

\* A row that no live server owns (its server crashed, or its release failed)
\* does not lock the action out for ever: if some server keeps retrying, some
\* server runs the function again or every retrying server gave up.
OrphanedLockIsTakenOver ==
    (row /\ ~\E s \in Servers : Holds(s))
        ~> (\/ ~row
            \/ \E s \in Servers : Holds(s)
            \/ \A s \in Servers : pc[s] \in {"idle", "down"})
=============================================================================
