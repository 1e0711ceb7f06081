------------------------- MODULE ServerLockInterval -------------------------
(***************************************************************************)
(* LockAndExecute of pkg/infra/serverlock/serverlock.go, for one action    *)
(* name: the row stays in the table, and a server that finds it older than *)
(* maxInterval claims it with an UPDATE that is conditional on the version *)
(* it read, then runs the function.                                        *)
(*                                                                         *)
(* The version only grows, so all that matters of it is who has read the   *)
(* current one.  Time is kept as ages that saturate at AgeCap; a row that  *)
(* was never claimed (last_execution = 0) is AgeCap old.  As in            *)
(* ServerLock, an age computed on another clock is off by ClockError.      *)
(***************************************************************************)
EXTENDS Integers

CONSTANTS
    Servers,      \* the Grafana servers that share the database
    MaxInterval,  \* how often the function should run at most
    MaxDelay,     \* the longest the UPDATE takes, from time.Now() to its commit
    ClockError,   \* skew between two servers plus the truncation to seconds
    MaxFaults     \* bound: how many database errors and crashes a behaviour has

ASSUME IntervalAssumption ==
    /\ MaxInterval \in Nat \ {0}
    /\ MaxDelay \in Nat
    /\ ClockError \in Nat
    /\ MaxFaults \in Nat

VARIABLES
    row,      \* is there a row for the action name
    rowAge,   \* age of its last_execution
    current,  \* the servers that have read the row's present version
    pc,       \* where each server is in LockAndExecute
    age,      \* age of the time a server has in hand: in "read" that of the
              \* row it read, in "updating" that of its own time.Now()
    since,    \* time since the function was last started (history)
    faults    \* database errors and crashes so far (at most MaxFaults)

vars == <<row, rowAge, current, pc, age, since, faults>>

AgeCap == MaxInterval + ClockError
Never == AgeCap

States == {"idle", "creating", "read", "updating", "executing", "down"}

Older(a) == IF a < AgeCap THEN a + 1 ELSE a

\* Every variable stays within its type; a negative age would be a stamp that
\* lies in the future, which acquireLock must never write.
TypeOK ==
    /\ row \in BOOLEAN
    /\ rowAge \in 0..AgeCap
    /\ current \subseteq Servers
    /\ pc \in [Servers -> States]
    /\ age \in [Servers -> 0..AgeCap]
    /\ since \in 0..AgeCap
    /\ faults \in 0..MaxFaults

Init ==
    /\ row = FALSE
    /\ rowAge = Never
    /\ current = {}
    /\ pc = [s \in Servers |-> "idle"]
    /\ age = [s \in Servers |-> 0]
    /\ since = Never
    /\ faults = 0

\* getOrCreate has a row, whose stamp and version s holds from now on.
HasRow(s) ==
    /\ current' = current \cup {s}
    /\ age' = [age EXCEPT ![s] = rowAge]
    /\ pc' = [pc EXCEPT ![s] = "read"]
    /\ UNCHANGED <<rowAge, since, faults>>

\* The SELECT of getOrCreate.
Get(s) ==
    /\ pc[s] = "idle"
    /\ row
    /\ HasRow(s)
    /\ UNCHANGED row

GetNone(s) ==
    /\ pc[s] = "idle"
    /\ ~row
    /\ pc' = [pc EXCEPT ![s] = "creating"]
    /\ UNCHANGED <<row, rowAge, current, age, since, faults>>

\* Its INSERT, of a row with last_execution 0 and version 0.
CreateLock(s) ==
    /\ pc[s] = "creating"
    /\ ~row
    /\ row' = TRUE
    /\ HasRow(s)

\* Another server inserted the row first: an error ends the call.
CreateLockLost(s) ==
    /\ pc[s] = "creating"
    /\ row
    /\ pc' = [pc EXCEPT ![s] = "idle"]
    /\ UNCHANGED <<row, rowAge, current, age, since, faults>>

\* isLockWithinInterval of the row that was read.
WithinInterval(s) ==
    /\ pc[s] = "read"
    /\ \E e \in -ClockError..ClockError : age[s] + e < MaxInterval
    /\ pc' = [pc EXCEPT ![s] = "idle"]
    /\ UNCHANGED <<row, rowAge, current, age, since, faults>>

\* It is not, and acquireLock takes the time it is going to write.
Stamp(s) ==
    /\ pc[s] = "read"
    /\ \E e \in -ClockError..ClockError : age[s] + e >= MaxInterval
    /\ age' = [age EXCEPT ![s] = 0]
    /\ pc' = [pc EXCEPT ![s] = "updating"]
    /\ UNCHANGED <<row, rowAge, current, since, faults>>

\* Mutant: the UPDATE is not conditional on the version.
MutClaimAnyVersion(s) ==
    /\ pc[s] = "updating"
    /\ rowAge' = age[s]
    /\ current' = {}
    /\ since' = 0
    /\ pc' = [pc EXCEPT ![s] = "executing"]
    /\ UNCHANGED <<row, age, faults>>

\* Mutant: the stamp is written in milliseconds and read as seconds.
MutClaimInMillis(s) ==
    /\ pc[s] = "updating"
    /\ s \in current
    /\ rowAge' = age[s] - MaxInterval
    /\ current' = {}
    /\ since' = 0
    /\ pc' = [pc EXCEPT ![s] = "executing"]
    /\ UNCHANGED <<row, age, faults>>

\* UPDATE ... WHERE version = ? affects the row, whose version is now another.
Claim(s) ==
    /\ pc[s] = "updating"
    /\ s \in current
    /\ rowAge' = age[s]
    /\ current' = {}
    /\ since' = 0
    /\ pc' = [pc EXCEPT ![s] = "executing"]
    /\ UNCHANGED <<row, age, faults>>

\* Mutant: a server that lost the race tries again and again.
MutClaimLostRetries(s) ==
    /\ pc[s] = "updating"
    /\ s \notin current
    /\ UNCHANGED vars

\* It affects no row: another server was faster.
ClaimLost(s) ==
    /\ pc[s] = "updating"
    /\ s \notin current
    /\ pc' = [pc EXCEPT ![s] = "idle"]
    /\ UNCHANGED <<row, rowAge, current, age, since, faults>>

ExecuteFuncEnds(s) ==
    /\ pc[s] = "executing"
    /\ pc' = [pc EXCEPT ![s] = "idle"]
    /\ UNCHANGED <<row, rowAge, current, age, since, faults>>

\* An error of any statement ends the call.
DatabaseError(s) ==
    /\ pc[s] \in {"idle", "creating", "updating"}
    /\ faults < MaxFaults
    /\ faults' = faults + 1
    /\ pc' = [pc EXCEPT ![s] = "idle"]
    /\ UNCHANGED <<row, rowAge, current, age, since>>

\* The INSERT or the UPDATE was committed but its answer is lost: the row is
\* there, or claimed, and nobody runs the function.
AnswerLost(s) ==
    /\ faults < MaxFaults
    /\ faults' = faults + 1
    /\ \/ /\ pc[s] = "creating" /\ ~row
          /\ row' = TRUE
          /\ UNCHANGED <<rowAge, current>>
       \/ /\ pc[s] = "updating" /\ s \in current
          /\ rowAge' = age[s] /\ current' = {}
          /\ UNCHANGED row
    /\ pc' = [pc EXCEPT ![s] = "idle"]
    /\ UNCHANGED <<age, since>>

Crash(s) ==
    /\ pc[s] # "down"
    /\ faults < MaxFaults
    /\ faults' = faults + 1
    /\ pc' = [pc EXCEPT ![s] = "down"]
    /\ UNCHANGED <<row, rowAge, current, age, since>>

Restart(s) ==
    /\ pc[s] = "down"
    /\ pc' = [pc EXCEPT ![s] = "idle"]
    /\ UNCHANGED <<row, rowAge, current, age, since, faults>>

\* An UPDATE ends within MaxDelay.
Tick ==
    /\ \A s \in Servers : pc[s] = "updating" => age[s] < MaxDelay
    /\ rowAge' = Older(rowAge)
    /\ age' = [s \in Servers |->
                 IF pc[s] \in {"read", "updating"} THEN Older(age[s]) ELSE age[s]]
    /\ since' = Older(since)
    /\ UNCHANGED <<row, current, pc, faults>>

LockAndExecute(s) ==
    \/ Get(s) \/ GetNone(s) \/ CreateLock(s) \/ CreateLockLost(s)
    \/ WithinInterval(s) \/ Stamp(s)
    \/ Claim(s) \/ ClaimLost(s) \/ ExecuteFuncEnds(s)

Next ==
    \/ \E s \in Servers :
         \/ LockAndExecute(s) \/ DatabaseError(s) \/ AnswerLost(s) \/ Crash(s) \/ Restart(s)
    \/ Tick

Spec == Init /\ [][Next]_vars

\* The callers are periodic jobs, a running server goes on, clocks advance.
Fairness ==
    /\ WF_vars(Tick)
    /\ \A s \in Servers : WF_vars(LockAndExecute(s))

FairSpec == Spec /\ Fairness

-----------------------------------------------------------------------------
(* Properties.                                                              *)

\* Two executions, on whatever servers, start at least maxInterval apart, less
\* what the clocks disagree and what the UPDATE was under way ("avoid execution
\* if last lock happened less than maxInterval ago").
StartsApart ==
    [][\A s \in Servers : Claim(s) => since >= MaxInterval - ClockError - MaxDelay]_vars

\* The servers do not hold each other up: as long as one of them keeps calling,
\* the function is run again and again.
KeepsExecuting ==
    \/ <>[](\A s \in Servers : pc[s] = "down")
    \/ []<>(\E s \in Servers : pc[s] = "executing")
=============================================================================
