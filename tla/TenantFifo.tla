----------------------------- MODULE TenantFifo -----------------------------
(***************************************************************************)
(* What the QoS queue of pkg/util/scheduler promises to runInQueue, with   *)
(* no dispatcher, worker or channel in it: each tenant has a bounded queue *)
(* of accepted items; an item is refused or accepted, and an accepted one  *)
(* is run once, after those of its tenant that were accepted before it, or *)
(* not at all after a shutdown.                                            *)
(***************************************************************************)
EXTENDS Naturals, Sequences

CONSTANTS
    Tenants,
    Requests,
    TenantOf,  \* the namespace of each request
    MaxSize    \* maxSizePerTenant

VARIABLES
    queue,     \* the items each tenant waits for, first come first
    status,    \* what has become of each request
    closing    \* a shutdown has begun: items may be lost from here on

fifoVars == <<queue, status, closing>>

Init ==
    /\ queue = [t \in Tenants |-> <<>>]
    /\ status = [r \in Requests |-> "new"]
    /\ closing = FALSE

Becomes(r, from, to) ==
    /\ status[r] = from
    /\ status' = [status EXCEPT ![r] = to]

Accept(r) ==
    LET t == TenantOf[r]
    IN /\ Len(queue[t]) < MaxSize
       /\ queue' = [queue EXCEPT ![t] = Append(@, r)]
       /\ Becomes(r, "new", "accepted")
       /\ UNCHANGED closing

\* runInQueue returns an error: the item will never run.
Refuse(r) ==
    /\ UNCHANGED <<queue, closing>>
    /\ Becomes(r, "new", "refused")

\* A worker gets the item that its tenant has waited for the longest.
HandOut(t) ==
    /\ queue[t] # <<>>
    /\ queue' = [queue EXCEPT ![t] = Tail(@)]
    /\ Becomes(Head(queue[t]), "accepted", "handed")
    /\ UNCHANGED closing

\* The item has run, and the call returns.
Finish(r) ==
    /\ UNCHANGED <<queue, closing>>
    /\ Becomes(r, "handed", "done")

BeginClosing ==
    /\ ~closing
    /\ closing' = TRUE
    /\ UNCHANGED <<queue, status>>

\* A worker ends without running what it was handed, or is never told of it.
LoseHanded(r) ==
    /\ closing
    /\ UNCHANGED <<queue, closing>>
    /\ Becomes(r, "handed", "lost")

\* A late worker's request is still pending when it gets an item.
LoseNext(t) ==
    /\ closing
    /\ queue[t] # <<>>
    /\ queue' = [queue EXCEPT ![t] = Tail(@)]
    /\ Becomes(Head(queue[t]), "accepted", "lost")
    /\ UNCHANGED closing

\* The queue forgets everything at once.
Clear ==
    /\ closing
    /\ queue' = [t \in Tenants |-> <<>>]
    /\ status' = [r \in Requests |-> IF status[r] = "accepted" THEN "lost" ELSE status[r]]
    /\ UNCHANGED closing

Next ==
    \/ \E r \in Requests : Accept(r) \/ Refuse(r) \/ Finish(r) \/ LoseHanded(r)
    \/ \E t \in Tenants : HandOut(t) \/ LoseNext(t)
    \/ BeginClosing \/ Clear

Spec == Init /\ [][Next]_fifoVars
=============================================================================
