------------------------------ MODULE FetchQueue ------------------------------
(***************************************************************************)
(* The request queue of the frontend: FetchQueue, FetchQueueWorker and     *)
(* ResponseQueue of public/app/core/services, and the life of a request in *)
(* BackendSrv.fetch from its subscription to its end: start, cancellation  *)
(* by request id, and the retry after a 401 that first renews the session. *)
(*                                                                         *)
(* JavaScript runs one event to its end before the next, but inside an     *)
(* event subjects call their subscribers at once and these may call back.  *)
(* "stack" is what such an event has still to do, innermost first; the     *)
(* world acts while it is empty.  The callbacks of a request's consumer    *)
(* are the one place where foreign code runs inside an event: those of     *)
(* Reentrant start and drop requests there.                                *)
(***************************************************************************)
EXTENDS Integers, FiniteSets, Sequences

CONSTANTS
    Requests,      \* the calls of fetch() by the application
    DataQueries,   \* those for which isDataQuery(url)
    RequestId,     \* [Requests -> the requestId given, or NoId]
    NoId,
    Rotate,        \* the request that rotates the token, shared by all
    Ping,          \* [Requests -> the loginPing request it would make]
    Malformed,     \* those whose URL, headers or body may not do
    MaxParallel,   \* maxParallelRequests
    Reentrant,     \* those whose consumers act while they are being notified
    AuthFailures   \* how many answers may be a 401

Checkers == {Rotate} \cup {Ping[r] : r \in Requests}
Ids == Requests \cup Checkers

ASSUME FetchAssumption ==
    /\ IsFiniteSet(Requests)
    /\ DataQueries \subseteq Requests
    /\ Malformed \subseteq Requests
    /\ Checkers \cap Requests = {}
    /\ NoId \notin Ids
    /\ MaxParallel \in Nat \ {0}
    /\ Reentrant \subseteq Requests
    /\ AuthFailures \in Nat

VARIABLES
    status,    \* FetchQueue.state: Absent, Pending or InProgress
    arrival,   \* the place of an entry among the keys of FetchQueue.state
    worker,    \* the concatMap: array being emitted and updates held back
    stack,     \* what the current event has still to do
    stage,     \* where the observable returned by fetch() is
    attempt,   \* attempts made before this one (index of retryWhen)
    checker,   \* the authChecker a request waits for, or NoId
    failures,  \* 401s so far
    lost       \* history: entries put back after their request had gone

vars == <<status, arrival, worker, stack, stage, attempt, checker, failures, lost>>

Ended == {"ok", "failed", "cancelled", "dropped"}
Stages == {"new", "waiting", "sent", "auth", "stuck"} \cup Ended
Frame(what, ids, end) == [do |-> what, ids |-> ids, end |-> end]

\* Subscribed to the response, and to inFlightRequests with it.
Live(i) == stage[i] \in {"sent", "auth"}

Idle == [busy |-> FALSE, todo |-> {}, place |-> [i \in Ids |-> 0], backlog |-> <<>>]

Init ==
    /\ status = [i \in Ids |-> "Absent"]
    /\ arrival = [i \in Ids |-> 0]
    /\ worker = Idle
    /\ stack = <<>>
    /\ stage = [i \in Ids |-> "new"]
    /\ attempt = [i \in Ids |-> 0]
    /\ checker = [i \in Ids |-> NoId]
    /\ failures = 0
    /\ lost = {}

-----------------------------------------------------------------------------
(* FetchQueue and FetchQueueWorker *)

PendingOf(s) == {i \in Ids : s[i] = "Pending"}
InProgressOf(s) == Cardinality({i \in Ids : s[i] = "InProgress"})

\* The place of a key that is set now: behind every other.
NextArrival == 1 + Cardinality({i \in Ids : status[i] # "Absent"})

\* Deleting a key moves those behind it up.
ArrivalWithout(x) ==
    [i \in Ids |-> IF i = x THEN 0
                   ELSE IF status[x] # "Absent" /\ arrival[i] > arrival[x]
                        THEN arrival[i] - 1 ELSE arrival[i]]

\* Mutant: API requests wait for a slot like the others.
MutSelectedLimitsAll(s, ar, inProgress) ==
    {d \in PendingOf(s) :
        Cardinality({f \in PendingOf(s) : ar[f] < ar[d]}) < MaxParallel - inProgress}

\* The array concatMap is given for an update: all API requests, and data
\* requests in order while the number in progress at the update allows.
Selected(s, ar, inProgress) ==
    LET api     == PendingOf(s) \ DataQueries
        data    == PendingOf(s) \cap DataQueries
        allowed == MaxParallel - inProgress - Cardinality(api)
        ahead(d) == {f \in data : ar[f] < ar[d]}
    IN  api \cup {d \in data : Cardinality(ahead(d)) < allowed}

\* publishUpdate: the worker takes the update now or, when it is emitting,
\* after what it holds back already.
Publish(s, ar, wk, stk) ==
    /\ status' = s
    /\ arrival' = ar
    /\ IF PendingOf(s) = {}
       THEN worker' = wk /\ stack' = stk
       ELSE IF wk.busy
       THEN /\ worker' = [wk EXCEPT !.backlog = Append(@, InProgressOf(s))]
            /\ stack' = stk
       ELSE /\ worker' = [Idle EXCEPT !.busy = TRUE, !.place = ar,
                              !.todo = Selected(s, ar, InProgressOf(s))]
            /\ stack' = <<Frame("worker", {}, "")>> \o stk

Add(i, stk) ==
    Publish([status EXCEPT ![i] = "Pending"],
            [arrival EXCEPT ![i] = NextArrival], worker, stk)

SetDone(i, stk) ==
    Publish([status EXCEPT ![i] = "Absent"], ArrivalWithout(i), worker, stk)

\* Mutant: a request does not cancel its predecessor.
MutCancelledByNone(e) == {}

\* The requests that publishing requestId on inFlightRequests cancels.
CancelledBy(e) ==
    {x \in Requests : x # e /\ Live(x) /\ RequestId[x] # NoId
                            /\ RequestId[x] = RequestId[e]}

\* The array is emitted in order, API requests first; it keeps an entry that is
\* deleted meanwhile.
IsNext(e) ==
    \A f \in worker.todo \ {e} :
        \/ e \notin DataQueries /\ f \in DataQueries
        \/ (e \in DataQueries <=> f \in DataQueries) /\ worker.place[e] < worker.place[f]

\* ResponseQueue.add: the entry is in progress, internalFetch cancels its
\* predecessors, and then whoever waits for the response subscribes to it.
\* setInProgress creates the entry when there is none any more.
EmitEntry(e) ==
    /\ stack # <<>> /\ Head(stack).do = "worker"
    /\ e \in worker.todo /\ IsNext(e)
    /\ LET cancels == IF e \in Requests /\ RequestId[e] # NoId
                      THEN CancelledBy(e) ELSE {}
       IN  Publish([status EXCEPT ![e] = "InProgress"],
                   IF status[e] = "Absent"
                   THEN [arrival EXCEPT ![e] = NextArrival] ELSE arrival,
                   [worker EXCEPT !.todo = @ \ {e}],
                   <<Frame("tell", cancels, "cancelled"),
                     Frame("start", {e}, "")>> \o stack)
    /\ lost' = IF status[e] = "Absent" THEN lost \cup {e} ELSE lost
    /\ UNCHANGED <<stage, attempt, checker, failures>>

\* concatMap goes on with the updates it held back: the state is the present
\* one, the number in progress that of the update.
NextUpdate ==
    /\ stack # <<>> /\ Head(stack).do = "worker"
    /\ worker.todo = {}
    /\ IF worker.backlog = <<>>
       THEN worker' = Idle /\ stack' = Tail(stack)
       ELSE /\ worker' = [worker EXCEPT
                   !.todo = Selected(status, arrival, Head(worker.backlog)),
                   !.place = arrival,
                   !.backlog = Tail(@)]
            /\ stack' = stack
    /\ UNCHANGED <<status, arrival, stage, attempt, checker, failures, lost>>

-----------------------------------------------------------------------------
(* How a request ends *)

Waiters(c) == {r \in Requests : stage[r] = "auth" /\ checker[r] = c}

\* Mutant: an authChecker that fails is not reported to those who wait for it.
MutEndFramesSilent(i, end) ==
    IF i \in Requests THEN <<Frame("told", {i}, end)>> ELSE <<Frame("done", {i}, end)>>

\* The consumer is told, then the teardown of fetch() runs.  The consumers of
\* an authChecker are the requests that wait for it.
EndFrames(i, end) ==
    IF i \in Requests THEN <<Frame("told", {i}, end)>>
    ELSE <<Frame("tell", Waiters(i), "failed"), Frame("done", {i}, end)>>

\* The response observable is handed to the subscriber, if it is still there,
\* and the request is sent.  A URL that is not accepted makes it fail at once; a
\* request that cannot be built makes internalFetch throw, so that there is no
\* response to hand on: rxjs reports the error, the worker goes on and the
\* subscriber is stuck.
StartFetch(i, outcome) ==
    /\ stack # <<>> /\ Head(stack).do = "start"
    /\ i \in Head(stack).ids
    /\ outcome = "sent" \/ (i \in Malformed /\ outcome \in {"failed", "stuck"})
    /\ IF stage[i] = "waiting"
       THEN /\ stage' = [stage EXCEPT ![i] = outcome]
            /\ stack' = IF outcome = "failed" THEN EndFrames(i, outcome) \o Tail(stack)
                        ELSE Tail(stack)
       ELSE stack' = Tail(stack) /\ UNCHANGED stage
    /\ UNCHANGED <<status, arrival, worker, attempt, checker, failures, lost>>

\* One of the observers that an error or a cancellation is delivered to.
Tell(i) ==
    /\ stack # <<>> /\ Head(stack).do = "tell"
    /\ i \in Head(stack).ids
    /\ LET rest == <<[Head(stack) EXCEPT !.ids = @ \ {i}]>> \o Tail(stack)
       IN  IF Live(i)
           THEN /\ stage' = [stage EXCEPT ![i] = Head(stack).end]
                /\ stack' = EndFrames(i, Head(stack).end) \o rest
           ELSE stack' = rest /\ UNCHANGED stage
    /\ UNCHANGED <<status, arrival, worker, attempt, checker, failures, lost>>

AllTold ==
    /\ stack # <<>> /\ Head(stack).do = "tell" /\ Head(stack).ids = {}
    /\ stack' = Tail(stack)
    /\ UNCHANGED <<status, arrival, worker, stage, attempt, checker, failures, lost>>

\* Mutant: a request whose consumer is told of its end is not set to done.
MutTeardownLeaks(i) ==
    /\ stack # <<>> /\ Head(stack).do \in {"told", "done"}
    /\ i \in Head(stack).ids
    /\ stack' = Tail(stack)
    /\ UNCHANGED <<status, arrival, worker, stage, attempt, checker, failures, lost>>

\* The call of subscribe() that started i has not returned: unsubscribe() of
\* fetch is not registered yet.
Returning(i) == \E k \in 1 .. Len(stack) : stack[k].do = "return" /\ i \in stack[k].ids

\* unsubscribe() in fetch: the entry is done, then the inner subscriptions go.
Finalize(i, stk) ==
    IF Returning(i) THEN stack' = stk /\ UNCHANGED <<status, arrival, worker>>
    ELSE SetDone(i, IF checker[i] = NoId THEN stk
                    ELSE <<Frame("release", {i}, "")>> \o stk)

Teardown(i) ==
    /\ stack # <<>> /\ Head(stack).do \in {"told", "done"}
    /\ i \in Head(stack).ids
    /\ Finalize(i, Tail(stack))
    /\ UNCHANGED <<stage, attempt, checker, failures, lost>>

\* subscribe() returns: a request that has ended already is torn down now.
Returned(i) ==
    /\ stack # <<>> /\ Head(stack).do = "return"
    /\ i \in Head(stack).ids
    /\ IF stage[i] \in Ended THEN SetDone(i, Tail(stack))
       ELSE stack' = Tail(stack) /\ UNCHANGED <<status, arrival, worker>>
    /\ UNCHANGED <<stage, attempt, checker, failures, lost>>

\* A request leaves the authChecker it waited for; nobody waits any more for
\* one that was shared: it is unsubscribed as well.
Release(i) ==
    /\ stack # <<>> /\ Head(stack).do = "release"
    /\ i \in Head(stack).ids
    /\ checker' = [checker EXCEPT ![i] = NoId]
    /\ LET c == checker[i]
           abandoned == /\ c # NoId
                        /\ stage[c] \in {"waiting", "sent"}
                        /\ \A r \in Requests \ {i} : checker[r] # c
       IN  IF abandoned
           THEN /\ stage' = [stage EXCEPT ![c] = "dropped"]
                /\ SetDone(c, Tail(stack))
           ELSE /\ stack' = Tail(stack)
                /\ UNCHANGED <<status, arrival, worker, stage>>
    /\ UNCHANGED <<attempt, failures, lost>>

-----------------------------------------------------------------------------
(* The application *)

\* Application code runs as an event of its own, or in a consumer's callback.
MayAct == stack # <<>> => Head(stack).do = "told" /\ Head(stack).ids \subseteq Reentrant

Subscribe(r) ==
    /\ MayAct
    /\ stage[r] = "new"
    /\ stage' = [stage EXCEPT ![r] = "waiting"]
    /\ Add(r, <<Frame("return", {r}, "")>> \o stack)
    /\ UNCHANGED <<attempt, checker, failures, lost>>

Unsubscribe(r) ==
    /\ MayAct
    /\ stage[r] \in {"waiting", "sent", "auth", "stuck"}
    /\ stage' = [stage EXCEPT ![r] = "dropped"]
    /\ Finalize(r, stack)
    /\ UNCHANGED <<attempt, checker, failures, lost>>

CancelAllInFlightRequests ==
    /\ MayAct
    /\ \E i \in Ids : Live(i)
    /\ stack' = <<Frame("tell", {i \in Ids : Live(i)}, "cancelled")>> \o stack
    /\ UNCHANGED <<status, arrival, worker, stage, attempt, checker, failures, lost>>

ResolveCanceler(r) ==
    /\ MayAct
    /\ Live(r) /\ RequestId[r] # NoId
    /\ stack' = <<Frame("tell", {x \in Requests : Live(x) /\ RequestId[x] = RequestId[r]},
                        "cancelled")>> \o stack
    /\ UNCHANGED <<status, arrival, worker, stage, attempt, checker, failures, lost>>

-----------------------------------------------------------------------------
(* The network *)

Respond(r, end) ==
    /\ stack = <<>>
    /\ r \in Requests
    /\ stage[r] = "sent"
    /\ end \in {"ok", "failed"}
    /\ stage' = [stage EXCEPT ![r] = end]
    /\ stack' = EndFrames(r, end)
    /\ UNCHANGED <<status, arrival, worker, attempt, checker, failures, lost>>

\* Mutant: every attempt that gets a 401 is followed by another.
MutUnauthorizedAlways(r, c) ==
    /\ stack = <<>>
    /\ r \in Requests /\ c \in {Rotate, Ping[r]}
    /\ stage[r] = "sent"
    /\ failures < AuthFailures
    /\ failures' = failures + 1
    /\ checker' = [checker EXCEPT ![r] = c]
    /\ IF stage[c] \in {"waiting", "sent"}
       THEN /\ stage' = [stage EXCEPT ![r] = "auth"]
            /\ UNCHANGED <<status, arrival, worker, stack>>
       ELSE /\ stage' = [stage EXCEPT ![r] = "auth", ![c] = "waiting"]
            /\ Add(c, stack)
    /\ UNCHANGED <<attempt, lost>>

\* A 401 on the first attempt: the request waits for the authChecker, a
\* rotation it shares or a ping of its own.
Unauthorized(r, c) ==
    /\ stack = <<>>
    /\ r \in Requests /\ c \in {Rotate, Ping[r]}
    /\ stage[r] = "sent" /\ attempt[r] = 0
    /\ failures < AuthFailures
    /\ failures' = failures + 1
    /\ checker' = [checker EXCEPT ![r] = c]
    /\ IF stage[c] \in {"waiting", "sent"}
       THEN /\ stage' = [stage EXCEPT ![r] = "auth"]
            /\ UNCHANGED <<status, arrival, worker, stack>>
       ELSE /\ stage' = [stage EXCEPT ![r] = "auth", ![c] = "waiting"]
            /\ Add(c, stack)
    /\ UNCHANGED <<attempt, lost>>

\* The session is renewed: all who wait send their request once more.
Renewed(c) ==
    /\ stack = <<>>
    /\ c \in Checkers /\ stage[c] = "sent"
    /\ stage' = [i \in Ids |-> IF i \in Waiters(c) THEN "sent"
                               ELSE IF i = c THEN "ok" ELSE stage[i]]
    /\ attempt' = [i \in Ids |-> IF i \in Waiters(c) THEN attempt[i] + 1 ELSE attempt[i]]
    /\ checker' = [i \in Ids |-> IF i \in Waiters(c) THEN NoId ELSE checker[i]]
    /\ stack' = <<Frame("done", {c}, "ok")>>
    /\ UNCHANGED <<status, arrival, worker, failures, lost>>

\* The renewal fails (a 401 here also logs the user out and reloads the page,
\* which ends the system).
NotRenewed(c) ==
    /\ stack = <<>>
    /\ c \in Checkers /\ stage[c] = "sent"
    /\ stage' = [stage EXCEPT ![c] = "failed"]
    /\ stack' = EndFrames(c, "failed")
    /\ UNCHANGED <<status, arrival, worker, attempt, checker, failures, lost>>

-----------------------------------------------------------------------------

\* What the current event does next.
EventStep ==
    \/ \E i \in Ids : EmitEntry(i) \/ Tell(i) \/ Teardown(i) \/ Returned(i) \/ Release(i)
    \/ \E i \in Ids, outcome \in {"sent", "failed", "stuck"} : StartFetch(i, outcome)
    \/ NextUpdate \/ AllTold

Answer(i) ==
    \/ \E end \in {"ok", "failed"} : Respond(i, end)
    \/ \E c \in Checkers : Unauthorized(i, c)
    \/ Renewed(i) \/ NotRenewed(i)

Application ==
    \/ \E r \in Requests : Subscribe(r) \/ Unsubscribe(r) \/ ResolveCanceler(r)
    \/ CancelAllInFlightRequests

Next == EventStep \/ Application \/ \E i \in Ids : Answer(i)

Spec == Init /\ [][Next]_vars

\* An event runs to its end, and every request on the network is answered.
FairSpec == Spec /\ WF_vars(EventStep) /\ \A i \in Ids : WF_vars(Answer(i))

-----------------------------------------------------------------------------
(* Properties *)

Frames ==
    [do : {"worker", "tell", "told", "start", "release", "done", "return"},
     ids : SUBSET Ids, end : {""} \cup Ended]

\* Every variable of the queue, of its worker and of the requests in
\* BackendSrv stays within its type.
TypeOK ==
    /\ status \in [Ids -> {"Absent", "Pending", "InProgress"}]
    /\ arrival \in [Ids -> Nat]
    /\ worker \in [busy : BOOLEAN, todo : SUBSET Ids,
                  place : [Ids -> Nat], backlog : Seq(Nat)]
    /\ stack \in Seq(Frames)
    /\ stage \in [Ids -> Stages]
    /\ attempt \in [Ids -> {0, 1}]
    /\ checker \in [Ids -> Checkers \cup {NoId}]
    /\ failures \in 0 .. AuthFailures
    /\ lost \subseteq Ids

Quiet == stack = <<>>

\* Between events a slot is held exactly by the requests that are in flight
\* and a place in the queue by those that wait.  Two slots are never given back:
\* that of a request that could not be built, while its consumer listens, and
\* that of one that was dropped in a consumer's callback when the worker had
\* selected it already.
SlotsAreHeld ==
    Quiet => \A i \in Ids :
        /\ status[i] = "InProgress" <=> Live(i) \/ stage[i] = "stuck" \/ i \in lost
        /\ status[i] = "Pending" <=> stage[i] = "waiting"
        /\ i \in lost => Reentrant # {} /\ stage[i] = "dropped"

DataInProgress == Cardinality({d \in DataQueries : status[d] = "InProgress"})

\* Data requests that run never exceed maxParallelRequests.
ParallelLimit == DataInProgress <= MaxParallel

\* Between events no API request waits, however full the queue is: the
\* renewal of the session, which requests that hold slots wait for, is one.
\* And a data request waits only while every slot is taken.
NothingWaitsForNothing ==
    Quiet => /\ PendingOf(status) \subseteq DataQueries
             /\ PendingOf(status) # {} => InProgressOf(status) >= MaxParallel

\* Between events at most one request of a requestId is in flight.
OnePerRequestId ==
    Quiet => \A x, y \in Requests :
                Live(x) /\ Live(y) /\ RequestId[x] = RequestId[y] /\ RequestId[x] # NoId
                    => x = y

\* Every call of fetch() ends, and so does what it waits for, unless it could not
\* be built or all slots are lost.
SlotsLost == Cardinality({i \in Ids : i \in lost \/ stage[i] = "stuck"}) >= MaxParallel

RequestsEnd ==
    \A i \in Ids : stage[i] \in {"waiting", "sent", "auth"}
                      ~> stage[i] \in Ended \cup {"stuck"} \/ SlotsLost
=============================================================================
