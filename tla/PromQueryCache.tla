---------------------------- MODULE PromQueryCache ----------------------------
(***************************************************************************)
(* The incremental queries of the Prometheus data source (QueryCache.ts):  *)
(* a panel that is refreshed with a range ending now asks only for what is *)
(* new and for an overlap, in which samples may still have changed, and    *)
(* merges the answer into the frames it has cached for each target.        *)
(*                                                                         *)
(* A target has one series; series are told apart by nothing but what the  *)
(* cache knows of them, so that frames of two expressions are merged if    *)
(* the cache lets them.  The server answers all targets from the same      *)
(* state of the database.                                                  *)
(***************************************************************************)
EXTENDS TimeSeriesTable, FiniteSets

CONSTANTS
    Targets,        \* the targets of the panel, in order: a sequence
    Series,         \* the expressions a target can have
    Regular,        \* those whose samples are stored as soon as they are taken
    Windows,        \* the lengths of the ranges asked for
    Overlap,        \* overlapWindowMs
    Step,           \* intervalMs
    DatapointStep,  \* findDatapointStep: Step, or 0 unless the type is prometheus
    LateSamples,    \* whether samples come out of order
    MaxTime, MaxRevisions      \* bounds

Idents == {Targets[i] : i \in DOMAIN Targets}

ASSUME CacheAssumption ==
    /\ Targets \in Seq(Idents) \ {<<>>}
    /\ Regular \subseteq Series
    /\ Windows \subseteq Nat \ {0} /\ Overlap \in Nat /\ Step \in Nat \ {0} /\ DatapointStep \in Nat
    /\ LateSamples \in BOOLEAN
    /\ MaxTime \in Nat /\ MaxRevisions \in Nat

VARIABLES
    now,
    db,         \* the value of each series at each step: 0 is no sample
    revisions,
    expr,       \* the expression of each target
    cache,      \* the cached [sig, prevTo, frame] of a target, or NoEntry
    request,    \* the request in flight
    seen,       \* the database when the server answered, once it did
    good,       \* ghost: the end of the last request of a target that got data,
                \* or 0 when its entry was deleted since
    stale       \* ghost: the times no answer with data has covered in time

dbVars == <<now, db, revisions>>
vars == <<now, db, revisions, expr, cache, request, seen, good, stale>>

Steps == {t \in 0 .. MaxTime : t % Step = 0}
RoundDown(t) == (t \div Step) * Step
NoEntry == [sig |-> <<>>, prevTo |-> 0, frame |-> <<>>]
NoRequest == [window |-> 0, from |-> 0, to |-> 0, start |-> 0,
              relative |-> FALSE, partial |-> FALSE, sigs |-> <<>>]
NotSeen == <<>>

Init ==
    /\ now = MaxTime \div 2
    /\ db = [s \in Series |-> [t \in Steps |->
                IF t < now - Overlap \/ (s \in Regular /\ t <= now) THEN 1 ELSE 0]]
    /\ revisions = 0
    /\ expr \in [Idents -> Series]
    /\ cache = [i \in Idents |-> NoEntry]
    /\ request = NoRequest
    /\ seen = NotSeen
    /\ good = [i \in Idents |-> 0]
    /\ stale = [i \in Idents |-> {}]

-----------------------------------------------------------------------------
(* The database *)

Tick ==
    /\ now < MaxTime
    /\ now' = now + 1
    /\ db' = [s \in Series |-> IF s \in Regular /\ now + 1 \in Steps
                               THEN [db[s] EXCEPT ![now + 1] = 1] ELSE db[s]]
    /\ UNCHANGED <<revisions, expr, cache, request, seen, good, stale>>

\* A sample of a series is stored, later than its time by at most the overlap.
Arrive(s, t) ==
    /\ now - Overlap <= t /\ t <= now
    /\ db[s][t] = 0
    /\ LateSamples \/ \A u \in Steps : u > t => db[s][u] = 0
    /\ db' = [db EXCEPT ![s][t] = 1]
    /\ UNCHANGED <<now, revisions, expr, cache, request, seen, good, stale>>

\* A value that is computed from several samples changes as they come.
Revise(s, t) ==
    /\ revisions < MaxRevisions
    /\ now - Overlap <= t /\ t <= now
    /\ s \notin Regular /\ db[s][t] = 1
    /\ db' = [db EXCEPT ![s][t] = 2]
    /\ revisions' = revisions + 1
    /\ UNCHANGED <<now, expr, cache, request, seen, good, stale>>

\* The answer to a range query, in the order of time: the start and the end are
\* rounded down.
RangeQuery(data, from, to) ==
    LET times == {t \in DOMAIN data :
                    RoundDown(from) <= t /\ t <= RoundDown(to) /\ data[t] # 0}
        at(k) == CHOOSE t \in times : Cardinality({u \in times : u < t}) = k - 1
    IN  [k \in 1 .. Cardinality(times) |-> [time |-> at(k), value |-> data[at(k)]]]

-----------------------------------------------------------------------------
(* Requests *)

\* Mutant: the expression is not part of the signature.
MutSignature(e, window, relative) == <<"", window, relative>>

\* getPrometheusTargetSignature: the expression and the raw range.
Signature(e, window, relative) == <<e, window, relative>>

\* The new range follows the one before it, possibly with an overlap.
Follows(prevTo, from, to) == to > prevTo /\ from <= prevTo

\* Mutant: only what is new is asked for.
MutPartialStart(prevTo, from) == RoundDown(Greatest(prevTo, from))

PartialStart(prevTo, from) == RoundDown(Greatest(prevTo - Overlap, from))

\* query() and requestInfo(): the panel asks for the last "window" of its
\* targets, one of which the user may have edited, or for an absolute range,
\* and gives up the request in flight.  The end of the last target's entry
\* stands for those of all.
Refresh(window, relative, exprs) ==
    LET from == now - window
        sigs == [i \in Idents |-> Signature(exprs[i], window, relative)]
        partial == relative /\ \A i \in Idents :
            /\ cache[i].sig = sigs[i]
            /\ Follows(cache[i].prevTo, from, now)
        prevTo == cache[Targets[Len(Targets)]].prevTo
    IN  /\ from >= 0
        /\ expr' = exprs
        /\ request' = [window |-> window, from |-> from, to |-> now, relative |-> relative,
                       partial |-> partial, sigs |-> sigs,
                       start |-> IF partial THEN PartialStart(prevTo, from) ELSE from]
        /\ cache' = IF partial THEN cache ELSE [i \in Idents |-> NoEntry]
        /\ seen' = NotSeen
        /\ good' = IF partial THEN good ELSE [i \in Idents |-> 0]
        /\ UNCHANGED <<now, db, revisions, stale>>

\* The data source evaluates the queries of the request in flight.
Evaluate ==
    /\ request # NoRequest /\ seen = NotSeen
    /\ seen' = db
    /\ UNCHANGED <<now, db, revisions, expr, cache, request, good, stale>>

-----------------------------------------------------------------------------
(* Answers *)

\* Targets are answered one by one: with frames, with an error beside an empty
\* frame (a status the server does not know), or with an error alone.
Outcomes == {"data", "error", "absent"}

RespFrame(i, outcome) ==
    IF outcome = "data" THEN RangeQuery(seen[expr[i]], request.start, request.to) ELSE <<>>

\* An empty frame is skipped.
Amended(cached, frame) == IF frame = <<>> THEN cached ELSE AmendTable(cached, frame)

Trimmed(frame) == TrimTable(frame, request.from - DatapointStep, request.to)

Entry(i, outcome) ==
    [sig |-> request.sigs[i],
     prevTo |-> request.to,
     frame |-> Trimmed(Amended(cache[i].frame, RespFrame(i, outcome)))]

\* The times that are stale once target i is answered with data: a partial
\* request covers those from an overlap before the end of the last target's
\* entry, and an overlap before the end of the target's own data may be earlier.
StaleAfterData(i) ==
    LET covered == RoundDown(cache[Targets[Len(Targets)]].prevTo - Overlap)
        since   == {t \in Steps : t >= good[i] - Overlap}
    IN  IF request.partial THEN {t \in stale[i] \cup since : t < covered} ELSE {}

\* procFrames: the frames of each target that has some are merged into its
\* entry; the panel is given the frames of the entry.
Answer(outcome) ==
    /\ request # NoRequest /\ seen # NotSeen
    /\ cache' = IF ~request.relative THEN cache
                ELSE [i \in Idents |-> IF outcome[i] = "absent" THEN cache[i]
                                       ELSE Entry(i, outcome[i])]
    /\ good' = [i \in Idents |-> IF outcome[i] = "data" THEN request.to ELSE good[i]]
    /\ stale' = [i \in Idents |-> IF outcome[i] = "data" THEN StaleAfterData(i) ELSE stale[i]]
    /\ request' = NoRequest
    /\ seen' = NotSeen
    /\ UNCHANGED <<now, db, revisions, expr>>

Edited == {e \in [Idents -> Series] : \E i \in Idents : \A j \in Idents \ {i} : e[j] = expr[j]}

Next ==
    \/ Tick
    \/ \E s \in Series, t \in Steps : Arrive(s, t) \/ Revise(s, t)
    \/ \E window \in Windows, relative \in BOOLEAN, exprs \in Edited :
            Refresh(window, relative, exprs)
    \/ Evaluate
    \/ \E outcome \in [Idents -> Outcomes] : Answer(outcome)

Spec == Init /\ [][Next]_vars

-----------------------------------------------------------------------------
(* Properties *)

Samples == [time : Steps, value : 1 .. 2]

IsSorted(frame) == \A k \in 1 .. Len(frame) - 1 : frame[k].time < frame[k + 1].time

InView(entry) ==
    \A k \in DOMAIN entry.frame :
        /\ entry.frame[k].time >= entry.prevTo - entry.sig[2] - DatapointStep
        /\ entry.frame[k].time <= entry.prevTo

\* Every variable stays within its type, the cached frames with their samples
\* in order and no more of them than the range and a DatapointStep before it.
TypeOK ==
    /\ now \in 0 .. MaxTime /\ revisions \in 0 .. MaxRevisions
    /\ db \in [Series -> [Steps -> 0 .. 2]]
    /\ seen = NotSeen \/ seen \in [Series -> [Steps -> 0 .. 2]]
    /\ \A i \in Idents :
        /\ expr[i] \in Series
        /\ cache[i].prevTo \in 0 .. now
        /\ cache[i].frame \in Seq(Samples) /\ IsSorted(cache[i].frame)
        /\ InView(cache[i])
        /\ good[i] \in 0 .. now /\ stale[i] \subseteq Steps
    /\ request.start <= request.to /\ request.to <= now

HasSample(frame, t, value) == \E k \in DOMAIN frame : frame[k] = [time |-> t, value |-> value]
HasTime(frame, t) == \E k \in DOMAIN frame : frame[k].time = t

\* The times a panel shows: the server starts at the step before the range, and
\* what is more than a DatapointStep before the range is cut off.
Shown == {t \in Steps : /\ RoundDown(request.from) <= t /\ t <= request.to
                        /\ request.from - DatapointStep <= t}

\* What a panel shows of a target that was answered with data is what a query
\* of the whole range would have returned, whatever was asked, cancelled and
\* failed before; except at the times that have not been covered since an
\* answer failed.
RefreshIsTransparent ==
    [][\A i \in Idents :
        request # NoRequest /\ request' = NoRequest /\ request.relative
        /\ good'[i] = request.to /\ cache'[i].prevTo = request.to /\ good'[i] # good[i] =>
            \A t \in Shown \ stale'[i] :
                LET value == seen[expr[i]][t]
                IN  IF value = 0 THEN ~HasTime(cache'[i].frame, t)
                                 ELSE HasSample(cache'[i].frame, t, value)]_vars

\* amendTable's example: what comes before the new frame is kept.
OlderPointsAreKept ==
    [][\A i \in Idents : request.relative /\ request' = NoRequest /\ request # NoRequest =>
            \A k \in DOMAIN cache[i].frame :
                LET sample == cache[i].frame[k]
                IN  sample.time >= request.from /\ sample.time < RoundDown(request.start)
                        => HasSample(cache'[i].frame, sample.time, sample.value)]_vars
=============================================================================
