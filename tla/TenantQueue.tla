----------------------------- MODULE TenantQueue -----------------------------
(***************************************************************************)
(* The QoS queue of pkg/util/scheduler with its two clients: the workers   *)
(* of scheduler.go and runInQueue of pkg/storage/unified/resource/server.go*)
(* through which the resource server runs a tenant's writes.               *)
(*                                                                         *)
(* A request is one call of runInQueue, and its item the function it hands *)
(* over.  The dispatcher goroutine owns the tenants' queues; callers and   *)
(* workers meet it on unbuffered channels (one action: the sender's select *)
(* and the handler), each request carries a response channel of capacity 1.*)
(* The queue is Running at the start, the scheduler has started its        *)
(* workers.  Len and ActiveTenantsLen only read and are left out.          *)
(***************************************************************************)
EXTENDS Integers, Sequences

CONSTANTS
    Tenants,
    Workers,
    Requests,     \* the calls of runInQueue (each is made once)
    TenantOf,     \* the namespace of each request
    MaxSize,      \* maxSizePerTenant
    MaxRetries,   \* DefaultMaxRetries of runInQueue
    Impatient,    \* bound: the requests whose context may be cancelled
    None          \* no item

ASSUME QueueAssumption ==
    /\ TenantOf \in [Requests -> Tenants]
    /\ MaxSize \in Nat \ {0}
    /\ MaxRetries \in Nat \ {0}
    /\ None \notin Requests

VARIABLES
    dispatcher,      \* where dispatcherLoop is; "stopped": its channel is closed
    queueDone,       \* the queue service's context is cancelled
    queue,           \* tenantQueue.items of each tenant
    isActive,        \* tenantQueue.isActive
    activeTenants,   \* the round-robin list
    pending,         \* pendingDequeueRequests, by their worker
    worker,          \* where each worker is
    hand,            \* a worker's response channel, then the item it runs
    schedulerDone,   \* the scheduler service's context is cancelled
    caller,          \* where each call of runInQueue is
    retries,         \* its backoff's count
    callerDone,      \* its context is cancelled
    accepted,        \* history: each tenant's items in the order of acceptance
    turns            \* history: turns[t][u], items handed out for tenant u since
                     \* tenant t has been waiting for its turn

queueVars == <<queue, isActive, activeTenants, accepted>>
workerVars == <<worker, hand>>
callerVars == <<caller, retries>>
vars == <<dispatcher, queueDone, queue, isActive, activeTenants, pending, worker,
          hand, schedulerDone, caller, retries, callerDone, accepted, turns>>

In(x, seq) == \E i \in 1..Len(seq) : seq[i] = x

\* q.State() == services.Running: stopping has not begun.
QueueRunning == dispatcher # "terminated"

\* boff.Ongoing() of runInQueue.
Ongoing(r) == ~callerDone[r] /\ retries[r] < MaxRetries

TypeOK ==
    /\ dispatcher \in {"scheduling", "selecting", "stopped", "terminated"}
    /\ queueDone \in BOOLEAN
    /\ queue \in [Tenants -> Seq(Requests)]
    /\ isActive \in [Tenants -> BOOLEAN]
    /\ activeTenants \in Seq(Tenants)
    /\ pending \in Seq(Workers)
    /\ worker \in [Workers -> {"idle", "sending", "awaiting", "running", "exited"}]
    /\ hand \in [Workers -> Requests \cup {None}]
    /\ schedulerDone \in BOOLEAN
    /\ caller \in [Requests -> {"new", "sending", "retrying", "waiting",
                                "returned", "failed"}]
    /\ retries \in [Requests -> 0..MaxRetries]
    /\ callerDone \in [Requests -> BOOLEAN]
    /\ accepted \in [Tenants -> Seq(Requests)]
    /\ turns \in [Tenants -> [Tenants -> Nat]]
    /\ \A t \in Tenants : Len(queue[t]) <= MaxSize

Init ==
    /\ dispatcher = "scheduling"
    /\ queueDone = FALSE
    /\ queue = [t \in Tenants |-> <<>>]
    /\ isActive = [t \in Tenants |-> FALSE]
    /\ activeTenants = <<>>
    /\ pending = <<>>
    /\ worker = [w \in Workers |-> "idle"]
    /\ hand = [w \in Workers |-> None]
    /\ schedulerDone = FALSE
    /\ caller = [r \in Requests |-> "new"]
    /\ retries = [r \in Requests |-> 0]
    /\ callerDone = [r \in Requests |-> FALSE]
    /\ accepted = [t \in Tenants |-> <<>>]
    /\ turns = [t \in Tenants |-> [u \in Tenants |-> 0]]

-----------------------------------------------------------------------------
(* The dispatcher *)

\* Mutant: the tenant stays at the front until its queue is empty.
MutNextTenantsDrains(rest, t, left) == IF left = <<>> THEN rest ELSE <<t>> \o rest

\* Mutant: a tenant whose queue is empty stays in the list.
MutNextTenantsKeepsEmpty(rest, t, left) == Append(rest, t)

\* Where the tenant at the front goes once an item of its is delivered.
NextTenants(rest, t, left) == IF left = <<>> THEN rest ELSE Append(rest, t)

\* Mutant: the last item goes, the first is delivered.
MutRestDropsLast(items) == SubSeq(items, 1, Len(items) - 1)

\* Mutant: the whole queue is cleared after a delivery.
MutRestClears(items) == <<>>

\* What is left of a tenant's queue once its first item is delivered.
Rest(items) == Tail(items)

\* One turn of the loop of scheduleRoundRobin.
Deliver ==
    /\ dispatcher = "scheduling"
    /\ pending # <<>>
    /\ activeTenants # <<>>
    /\ LET w == Head(pending)
           t == Head(activeTenants)
           left == Rest(queue[t])
       IN /\ hand' = [hand EXCEPT ![w] = Head(queue[t])]
          /\ pending' = Tail(pending)
          /\ queue' = [queue EXCEPT ![t] = left]
          /\ isActive' = [isActive EXCEPT ![t] = left # <<>>]
          /\ activeTenants' = NextTenants(Tail(activeTenants), t, left)
          /\ turns' = [v \in Tenants |->
                          [u \in Tenants |->
                              IF v # t /\ u = t /\ isActive[v]
                              THEN turns[v][u] + 1
                              ELSE IF v = t THEN 0 ELSE turns[v][u]]]
    /\ UNCHANGED <<dispatcher, queueDone, worker, schedulerDone, callerVars,
                   callerDone, accepted>>

\* scheduleRoundRobin has no request or no tenant left; on to the select.
ScheduleDone ==
    /\ dispatcher = "scheduling"
    /\ pending = <<>> \/ activeTenants = <<>>
    /\ dispatcher' = "selecting"
    /\ UNCHANGED <<queueDone, queueVars, pending, workerVars, schedulerDone,
                   callerVars, callerDone, turns>>

\* Mutant: the limit is off by one.
MutIsFull(t) == Len(queue[t]) > MaxSize

IsFull(t) == Len(queue[t]) >= MaxSize

\* handleEnqueueRequest adds the item; the caller goes on to wg.Wait.
AcceptItem(r) ==
    LET t == TenantOf[r]
    IN /\ dispatcher = "selecting"
       /\ caller[r] = "sending"
       /\ ~IsFull(t)
       /\ queue' = [queue EXCEPT ![t] = Append(@, r)]
       /\ isActive' = [isActive EXCEPT ![t] = TRUE]
       /\ activeTenants' = IF isActive[t] THEN activeTenants
                           ELSE Append(activeTenants, t)
       /\ turns' = IF isActive[t] THEN turns
                   ELSE [turns EXCEPT ![t] = [u \in Tenants |-> 0]]
       /\ accepted' = [accepted EXCEPT ![t] = Append(@, r)]
       /\ caller' = [caller EXCEPT ![r] = "waiting"]
       /\ dispatcher' = "scheduling"
       /\ UNCHANGED <<queueDone, pending, workerVars, schedulerDone, retries,
                      callerDone>>

\* handleEnqueueRequest answers ErrTenantQueueFull; the caller backs off.
RefuseItem(r) ==
    /\ dispatcher = "selecting"
    /\ caller[r] = "sending"
    /\ IsFull(TenantOf[r])
    /\ caller' = [caller EXCEPT ![r] = "retrying"]
    /\ retries' = [retries EXCEPT ![r] = @ + 1]
    /\ dispatcher' = "scheduling"
    /\ UNCHANGED <<queueDone, queueVars, pending, workerVars, schedulerDone,
                   callerDone, turns>>

\* handleDequeueRequest
TakeDequeue(w) ==
    /\ dispatcher = "selecting"
    /\ worker[w] = "sending"
    /\ pending' = Append(pending, w)
    /\ worker' = [worker EXCEPT ![w] = "awaiting"]
    /\ dispatcher' = "scheduling"
    /\ UNCHANGED <<queueDone, queueVars, hand, schedulerDone, callerVars,
                   callerDone, turns>>

\* The select sees ctx.Done: the loop returns and closes dispatcherStoppedChan.
LoopEnds ==
    /\ dispatcher = "selecting"
    /\ queueDone
    /\ dispatcher' = "stopped"
    /\ UNCHANGED <<queueDone, queueVars, pending, workerVars, schedulerDone,
                   callerVars, callerDone, turns>>

\* The service leaves Running and clears the queue, answering nobody.
Stopping ==
    /\ dispatcher = "stopped"
    /\ dispatcher' = "terminated"
    /\ queue' = [t \in Tenants |-> <<>>]
    /\ isActive' = [t \in Tenants |-> FALSE]
    /\ activeTenants' = <<>>
    /\ pending' = <<>>
    /\ UNCHANGED <<queueDone, workerVars, schedulerDone, callerVars, callerDone,
                   accepted, turns>>

Dispatcher ==
    \/ Deliver \/ ScheduleDone \/ LoopEnds \/ Stopping
    \/ \E r \in Requests : AcceptItem(r) \/ RefuseItem(r)
    \/ \E w \in Workers : TakeDequeue(w)

-----------------------------------------------------------------------------
(* The callers: runInQueue and Enqueue *)

\* The backoff is ongoing and the queue is running: on to Enqueue's select.
StartEnqueue(r) ==
    /\ caller[r] \in {"new", "retrying"}
    /\ Ongoing(r)
    /\ QueueRunning
    /\ caller' = [caller EXCEPT ![r] = "sending"]
    /\ UNCHANGED <<dispatcher, queueDone, queueVars, pending, workerVars,
                   schedulerDone, retries, callerDone, turns>>

\* Mutant: Enqueue also stops waiting for the answer of the dispatcher.
MutEnqueueFails(r) ==
    /\ caller[r] \in {"sending", "waiting"} /\ callerDone[r]
    /\ caller' = [caller EXCEPT ![r] = "retrying"]
    /\ retries' = [retries EXCEPT ![r] = @ + 1]
    /\ UNCHANGED <<dispatcher, queueDone, queueVars, pending, workerVars,
                   schedulerDone, callerDone, turns>>

\* Enqueue returns an error: ErrQueueClosed before or in its select, or the
\* context's error; boff.Wait follows.
EnqueueFails(r) ==
    /\ \/ caller[r] \in {"new", "retrying"} /\ Ongoing(r) /\ ~QueueRunning
       \/ caller[r] = "sending" /\ dispatcher \in {"stopped", "terminated"}
       \/ caller[r] = "sending" /\ callerDone[r]
    /\ caller' = [caller EXCEPT ![r] = "retrying"]
    /\ retries' = [retries EXCEPT ![r] = @ + 1]
    /\ UNCHANGED <<dispatcher, queueDone, queueVars, pending, workerVars,
                   schedulerDone, callerDone, turns>>

\* The retries are used up or the context is done: the last error is returned.
GiveUp(r) ==
    /\ caller[r] = "retrying"
    /\ ~Ongoing(r)
    /\ caller' = [caller EXCEPT ![r] = "failed"]
    /\ UNCHANGED <<dispatcher, queueDone, queueVars, pending, workerVars,
                   schedulerDone, retries, callerDone, turns>>

\* The context was done before the first try: there is no error to return, and
\* the caller waits for an item it never enqueued.
WaitForNothing(r) ==
    /\ caller[r] = "new"
    /\ ~Ongoing(r)
    /\ caller' = [caller EXCEPT ![r] = "waiting"]
    /\ UNCHANGED <<dispatcher, queueDone, queueVars, pending, workerVars,
                   schedulerDone, retries, callerDone, turns>>

Caller(r) ==
    \/ StartEnqueue(r) \/ EnqueueFails(r) \/ GiveUp(r) \/ WaitForNothing(r)

-----------------------------------------------------------------------------
(* The workers: run, dequeueWithRetries and Dequeue *)

\* The worker's context is alive and the queue running: on to Dequeue's select.
StartDequeue(w) ==
    /\ worker[w] = "idle"
    /\ ~schedulerDone
    /\ QueueRunning
    /\ worker' = [worker EXCEPT ![w] = "sending"]
    /\ UNCHANGED <<dispatcher, queueDone, queueVars, pending, hand, schedulerDone,
                   callerVars, callerDone, turns>>

\* Mutant: Dequeue does not look at its context while it waits for an answer.
MutDequeueCancelled(w) == worker[w] = "sending" /\ schedulerDone

\* Mutant: Dequeue gives up by itself.
MutDequeueTimesOut(w) == worker[w] \in {"sending", "awaiting"}

\* May w's Dequeue return the error of its context?
DequeueCancelled(w) == worker[w] \in {"sending", "awaiting"} /\ schedulerDone

\* The worker's context is done, before or in Dequeue, or the queue is closed.  A
\* worker whose request is pending leaves it there, with an item if one came.
WorkerExits(w) ==
    /\ \/ worker[w] = "idle" /\ schedulerDone
       \/ worker[w] = "idle" /\ ~QueueRunning
       \/ worker[w] = "sending" /\ dispatcher \in {"stopped", "terminated"}
       \/ DequeueCancelled(w)
    /\ worker' = [worker EXCEPT ![w] = "exited"]
    /\ UNCHANGED <<dispatcher, queueDone, queueVars, pending, hand, schedulerDone,
                   callerVars, callerDone, turns>>

\* The answer is there: Dequeue returns the item and the worker runs it.
StartItem(w) ==
    /\ worker[w] = "awaiting"
    /\ hand[w] # None
    /\ worker' = [worker EXCEPT ![w] = "running"]
    /\ UNCHANGED <<dispatcher, queueDone, queueVars, pending, hand, schedulerDone,
                   callerVars, callerDone, turns>>

\* The item ends with wg.Done, and the caller's wg.Wait returns.
FinishItem(w) ==
    /\ worker[w] = "running"
    /\ worker' = [worker EXCEPT ![w] = "idle"]
    /\ hand' = [hand EXCEPT ![w] = None]
    /\ caller' = [caller EXCEPT ![hand[w]] = "returned"]
    /\ UNCHANGED <<dispatcher, queueDone, queueVars, pending, schedulerDone,
                   retries, callerDone, turns>>

Worker(w) == StartDequeue(w) \/ WorkerExits(w) \/ StartItem(w) \/ FinishItem(w)

-----------------------------------------------------------------------------
(* The environment: contexts are cancelled at any time *)

\* Only what comes before wg.Wait looks at a caller's context.
CancelCaller(r) ==
    /\ r \in Impatient
    /\ ~callerDone[r]
    /\ caller[r] \in {"new", "sending", "retrying"}
    /\ callerDone' = [callerDone EXCEPT ![r] = TRUE]
    /\ UNCHANGED <<dispatcher, queueDone, queueVars, pending, workerVars,
                   schedulerDone, callerVars, turns>>

StopQueue ==
    /\ ~queueDone
    /\ queueDone' = TRUE
    /\ UNCHANGED <<dispatcher, queueVars, pending, workerVars, schedulerDone,
                   callerVars, callerDone, turns>>

StopScheduler ==
    /\ ~schedulerDone
    /\ schedulerDone' = TRUE
    /\ UNCHANGED <<dispatcher, queueDone, queueVars, pending, workerVars,
                   callerVars, callerDone, turns>>

Next ==
    \/ Dispatcher
    \/ \E r \in Requests : Caller(r) \/ CancelCaller(r)
    \/ \E w \in Workers : Worker(w)
    \/ StopQueue
    \/ StopScheduler

Spec == Init /\ [][Next]_vars

\* Every goroutine runs on, and an item's function returns.  Nothing makes a
\* caller, its cancellation or a shutdown happen.
Fairness ==
    /\ WF_vars(Dispatcher)
    /\ \A w \in Workers : WF_vars(Worker(w))
    /\ \A r \in Requests : WF_vars(caller[r] # "new" /\ Caller(r))

FairSpec == Spec /\ Fairness

-----------------------------------------------------------------------------
(* Properties *)

\* The round-robin list holds exactly the tenants that have items, each once, and
\* isActive says which: an item of a tenant outside the list would never leave,
\* and an empty queue in it is read at items[0] by scheduleRoundRobin.
ActiveTenantsAgree ==
    /\ \A t \in Tenants : isActive[t] <=> queue[t] # <<>>
    /\ \A t \in Tenants : isActive[t] <=> In(t, activeTenants)
    /\ \A i, j \in 1..Len(activeTenants) :
          activeTenants[i] = activeTenants[j] => i = j

\* While a tenant waits for its turn, no other tenant is served twice, however
\* many items it has and however often it becomes active anew.
FairTurns ==
    \A t, u \in Tenants : isActive[t] => turns[t][u] <= 1

Queued(r) == In(r, queue[TenantOf[r]])

\* w will run r, or is running it.
Held(w, r) == hand[w] = r /\ worker[w] \in {"awaiting", "running"}

\* An item is in one place: one worker has it, or it is queued once and nobody
\* does; and a caller that runInQueue has answered has no item left that could
\* still run (for a caller that was told its write failed it would be applied
\* all the same).
ItemInOnePlace ==
    /\ \A v, w \in Workers : hand[v] # None /\ hand[v] = hand[w] => v = w
    /\ \A r \in Requests :
          /\ Queued(r) => \A w \in Workers : hand[w] # r
          /\ caller[r] # "waiting" =>
                ~Queued(r) /\ \A w \in Workers : ~Held(w, r)

\* The callers that nothing will ever answer: their item is nowhere.  It takes a
\* shutdown of the queue or of the workers, or a context that was done before the
\* first try (then nothing was accepted), for runInQueue to be stuck like that.
LostItemIsExplained ==
    \A r \in Requests :
        caller[r] = "waiting" /\ ~Queued(r) /\ (\A w \in Workers : ~Held(w, r)) =>
            \/ queueDone
            \/ schedulerDone
            \/ callerDone[r] /\ ~In(r, accepted[TenantOf[r]])

\* What TenantFifo sees of a request.
Status(r) ==
    IF caller[r] = "returned" THEN "done"
    ELSE IF caller[r] = "failed" THEN "refused"
    ELSE IF caller[r] # "waiting" THEN "new"
    ELSE IF Queued(r) THEN "accepted"
    ELSE IF \E w \in Workers : Held(w, r) THEN "handed"
    ELSE IF In(r, accepted[TenantOf[r]]) THEN "lost"
    ELSE "new"

Fifo == INSTANCE TenantFifo WITH
            status <- [r \in Requests |-> Status(r)],
            closing <- queueDone \/ schedulerDone

\* Dispatcher, workers, backoffs and cancelled contexts together are no more than
\* a bounded queue per tenant: items are run in the order in which Enqueue
\* accepted them, once, never after runInQueue has returned an error for them,
\* and none is lost before a shutdown.
ImplementsTenantFifo == Fifo!Spec

\* Short of a shutdown, a call of runInQueue that got as far as Enqueue returns:
\* the item is run, or the last error is given back.
CallReturns ==
    \A r \in Requests :
        caller[r] \in {"sending", "retrying"} ~>
            caller[r] \in {"returned", "failed"} \/ queueDone \/ schedulerDone

\* Scheduler.stopping waits for the workers: once the context is cancelled each
\* of them ends, whatever the queue does.
SchedulerStops ==
    schedulerDone ~> \A w \in Workers : worker[w] = "exited"

=============================================================================
