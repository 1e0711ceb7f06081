-------------------------- MODULE LokiQuerySplitting --------------------------
(***************************************************************************)
(* Time splitting of Loki queries (querySplitting.ts): the queries of one  *)
(* request are put into groups, the time range is cut into chunks for each *)
(* group, and the chunks are asked for one at a time, newest first and     *)
(* round robin over the groups, with one retry for a chunk that timed out. *)
(*                                                                         *)
(* Callbacks of a subquery run to their end at once: "run" is the moment   *)
(* between two subqueries, "idle" that nobody has subscribed.  Times are   *)
(* integers; a chunk is <<from, to>>.                                      *)
(***************************************************************************)
EXTENDS Integers, Sequences, FiniteSets

CONSTANTS
    Day,        \* idealRangeDuration
    Ranges,     \* the time ranges asked for: pairs <<from, to>>
    Queries     \* the groups asked for: sequences of [kind, step]

Kinds == {"backward", "forward", "metric", "instant"}

ASSUME SplittingAssumption ==
    /\ Day \in Nat \ {0}
    /\ \A r \in Ranges : r[1] \in Nat /\ r[2] \in Nat /\ r[1] <= r[2]
    /\ Queries \subseteq Seq([kind : Kinds, step : Nat \ {0}]) \ {<<>>}

VARIABLES
    range,     \* the range of the request
    groups,    \* the grouped requests: [kind, step, part]
    nested,    \* called for a group of shards: no partial updates, no retry
    phase,     \* where runNextRequest is
    current,   \* [n, g]: requestN and requestGroup
    retried,   \* the keys of retriesMap
    stop,      \* shouldStop
    full,      \* logs groups whose targets all have their maxLines
    merged,    \* chunks combined into mergedResponse, in the order they came
    failure    \* the error of mergedResponse, or "none"

splitVars == <<range, groups, nested, phase, current, retried, stop, full,
               merged, failure>>

-----------------------------------------------------------------------------
(* partitionTimeRange *)

CeilDiv(a, b) == (a + b - 1) \div b
Least(a, b) == IF a < b THEN a ELSE b
Greatest(a, b) == IF a > b THEN a ELSE b

\* Mutant: the oldest chunk is counted from the start of the range.
MutLogsPartition(r) ==
    [k \in 1 .. Greatest(CeilDiv(r[2] - r[1], Day), 1) |->
        <<r[1] + (k - 1) * Day, Least(r[1] + k * Day, r[2] - 1)>>]

\* Chunks of a day, counted from the end; the one that may be shorter is the
\* oldest.
LogsPartition(r) ==
    LET n == Greatest(CeilDiv(r[2] - r[1], Day), 1)
    IN  [k \in 1 .. n |-> <<Greatest(r[2] - (n - k + 1) * Day, r[1]), r[2] - (n - k) * Day>>]

\* Chunks of whole steps, from the start aligned to a step: each ends a step
\* before the next one begins, since both ends are inclusive.
MetricPartition(r, step) ==
    IF Day < step THEN <<r>>
    ELSE LET aligned == (Day \div step) * step
             start   == r[1] - (r[1] % step)
         IN  [k \in 1 .. CeilDiv(r[2] - start, aligned) |->
                 <<start + (k - 1) * aligned,
                   Least(start + k * aligned - step, r[2])>>]

Reversed(s) == [k \in 1 .. Len(s) |-> s[Len(s) + 1 - k]]

Partition(q, r) ==
    CASE q.kind = "backward" -> LogsPartition(r)
      [] q.kind = "forward"  -> Reversed(LogsPartition(r))
      [] q.kind = "metric"   -> MetricPartition(r, q.step)
      [] q.kind = "instant"  -> <<r>>

Grouped(qs, r) ==
    [i \in 1 .. Len(qs) |->
        [kind |-> qs[i].kind, step |-> qs[i].step, part |-> Partition(qs[i], r)]]

-----------------------------------------------------------------------------
(* runSplitGroupedQueries *)

Groups == 1 .. Len(groups)
Parts(g) == Len(groups[g].part)
TotalRequests(gs) ==
    CHOOSE n \in {Len(gs[i].part) : i \in DOMAIN gs} :
        \A i \in DOMAIN gs : Len(gs[i].part) <= n
IsLogs(g) == groups[g].kind \in {"backward", "forward"}

\* The request is subscribed to, with the first of its groups.
Start(gs) ==
    /\ phase' = "run"
    /\ current' = [n |-> TotalRequests(gs), g |-> 1]
    /\ retried' = {}
    /\ stop' = FALSE
    /\ full' = {}
    /\ merged' = <<>>
    /\ failure' = "none"

Init ==
    /\ nested = FALSE
    /\ range \in Ranges
    /\ \E q \in Queries : groups = Grouped(q, range)
    /\ phase = "run"
    /\ current = [n |-> TotalRequests(groups), g |-> 1]
    /\ retried = {}
    /\ stop = FALSE
    /\ full = {}
    /\ merged = <<>>
    /\ failure = "none"

\* The group asked after group g in row n, or the first group of the row that
\* follows it: the first which has a chunk in row n.  0 stands for none.
NextGroup(n, g) ==
    LET has   == {i \in Groups : n >= 1 /\ Parts(i) >= n}
        later == {i \in has : i > g}
        from  == IF later # {} THEN later ELSE has
    IN  IF from = {} THEN 0 ELSE CHOOSE i \in from : \A j \in from : i <= j

\* getNextRequestPointers: the row number is that of the chunk, counted from
\* the oldest.
NextRow(n, g) ==
    IF \E i \in Groups : i > g /\ n >= 1 /\ Parts(i) >= n THEN n ELSE n - 1

\* nextRequest: go on, or be done with the merged response.
NextRequest ==
    LET n == NextRow(current.n, current.g)
        g == NextGroup(current.n, current.g)
    IN  IF n > 0 /\ g > 0
        THEN phase' = "run" /\ current' = [n |-> n, g |-> g]
        ELSE phase' = "done" /\ UNCHANGED current

\* runNextRequest after an error: the observable completes, and nothing is
\* said of what was merged since the last partial update.
Cut ==
    /\ phase = "run" /\ stop
    /\ phase' = "cut"
    /\ UNCHANGED <<range, groups, nested, current, retried, stop, full, merged, failure>>

\* adjustTargetsFromResponseState leaves no target.
Skip ==
    /\ phase = "run" /\ ~stop
    /\ current.g \in full
    /\ NextRequest
    /\ UNCHANGED <<range, groups, nested, retried, stop, full, merged, failure>>

Ask ==
    /\ phase = "run" /\ ~stop
    /\ current.g \notin full
    /\ phase' = "asking"
    /\ UNCHANGED <<range, groups, nested, current, retried, stop, full, merged, failure>>

\* The range of the subquery, when the group has a chunk in this row.
HasRange == current.n \in 1 .. Parts(current.g)

Combine == IF HasRange THEN Append(merged, <<current.g, current.n>>) ELSE merged

\* Data for the chunk; the logs of a group may have reached their maxLines.
\* Whatever the answer to a subquery without a range is, it is not a chunk's.
AnswerData ==
    /\ phase = "asking"
    /\ merged' = Combine
    /\ \E more \in SUBSET {current.g} :
         /\ more # {} => IsLogs(current.g)
         /\ full' = full \cup more
    /\ NextRequest
    /\ UNCHANGED <<range, groups, nested, retried, stop, failure>>

\* Mutant: a chunk is retried without end.
MutMayRetry(error) == error = "timeout" /\ ~nested

\* retry(): only a time-out, and once for each chunk.
MayRetry(error) ==
    /\ error = "timeout"
    /\ ~nested
    /\ current \notin retried

\* An error, alone or beside data ("partial").
Errors == {"timeout", "partial", "error"}

AnswerError(error) ==
    /\ phase = "asking"
    /\ error \in Errors
    /\ IF MayRetry(error)
       THEN /\ phase' = "backoff"
            /\ retried' = retried \cup {current}
            /\ UNCHANGED <<current, stop, merged, failure>>
       ELSE /\ stop' = TRUE
            /\ merged' = IF error = "partial" THEN Combine ELSE merged
            /\ failure' = IF error = "error" /\ merged # <<>> THEN "partial" ELSE error
            /\ NextRequest
            /\ UNCHANGED retried
    /\ UNCHANGED <<range, groups, nested, full>>

\* Mutant: a retry goes on with the next chunk.
MutRetryTimer ==
    /\ phase = "backoff"
    /\ NextRequest
    /\ UNCHANGED <<range, groups, nested, retried, stop, full, merged, failure>>

RetryTimer ==
    /\ phase = "backoff"
    /\ phase' = "run"
    /\ UNCHANGED <<range, groups, nested, current, retried, stop, full, merged, failure>>

\* runQuery itself throws: the subscriber is told, and its teardown runs.
Throw ==
    /\ phase = "asking"
    /\ phase' = "failed"
    /\ stop' = TRUE
    /\ UNCHANGED <<range, groups, nested, current, retried, full, merged, failure>>

Unsubscribe ==
    /\ phase \in {"asking", "backoff"}
    /\ phase' = "dropped"
    /\ stop' = TRUE
    /\ UNCHANGED <<range, groups, nested, current, retried, full, merged, failure>>

Runs == Cut \/ Skip \/ Ask \/ RetryTimer
Answers == AnswerData \/ (\E error \in Errors : AnswerError(error)) \/ Throw

-----------------------------------------------------------------------------
(* Properties *)

Phases == {"idle", "run", "asking", "backoff", "done", "cut", "failed", "dropped"}

\* Every variable of the loop stays within its type.
SplitTypeOK ==
    /\ phase \in Phases
    /\ current \in [n : Nat, g : Groups]
    /\ retried \subseteq [n : Nat, g : Groups]
    /\ stop \in BOOLEAN /\ nested \in BOOLEAN
    /\ full \subseteq Groups
    /\ merged \in Seq(Groups \X Nat)
    /\ failure \in Errors \cup {"none"}

MergedRanges(g) ==
    {k \in DOMAIN merged : merged[k][1] = g}

ChunkAt(k) == groups[merged[k][1]].part[merged[k][2]]

\* Whether the answer to a chunk holds what was logged, or is evaluated, at t.
Holds(g, chunk, t) ==
    IF IsLogs(g) THEN chunk[1] <= t /\ t < chunk[2]
                 ELSE chunk[1] <= t /\ t <= chunk[2]

\* The instants a group asks for: every one for logs, the steps for a metric,
\* which are aligned if a chunk can be.  (Whether the very end of the range is
\* one of them depends on the alignment.)
Instants(g) ==
    LET step  == groups[g].step
        first == IF Day < step THEN range[1] ELSE range[1] - (range[1] % step)
    IN  CASE IsLogs(g) -> range[1] .. range[2] - 1
          [] groups[g].kind = "metric" ->
                {t \in first .. range[2] - 1 : (t - first) % step = 0}
          [] groups[g].kind = "instant" -> {range[2]}

TimesAsked(g, t) == Cardinality({k \in MergedRanges(g) : Holds(g, ChunkAt(k), t)})

\* A group that is followed by one with more chunks, and not preceded by one:
\* the row of its own last chunk starts behind it.
BeforeALonger(g) ==
    /\ \E i \in Groups : i > g /\ Parts(i) > Parts(g)
    /\ \A i \in Groups : i < g => Parts(i) <= Parts(g)

LastChunk(g) == groups[g].part[Parts(g)]

\* Splitting a query by time is invisible: nothing is fetched twice, and once
\* the loop is done without an error, nothing is missing, for logs until their
\* maxLines are reached.  The one exception is the last chunk of a group
\* before a longer one.
SplittingIsInvisible ==
    \A g \in Groups : \A t \in Instants(g) :
        /\ TimesAsked(g, t) <= 1
        /\ phase = "done" /\ failure = "none" /\ g \notin full =>
                \/ TimesAsked(g, t) = 1
                \/ BeforeALonger(g) /\ Holds(g, LastChunk(g), t)

\* What is shown of a group is at any moment a contiguous piece of the range
\* that starts where the user looks first: no chunk is merged before the one
\* next to it, retried or not.
NoHoles ==
    \A k \in DOMAIN merged :
        LET g == merged[k][1]  n == merged[k][2]
        IN  n < Parts(g) - 1 \/ (n = Parts(g) - 1 /\ ~BeforeALonger(g))
                => \E j \in 1 .. k - 1 : merged[j] = <<g, n + 1>>
=============================================================================
