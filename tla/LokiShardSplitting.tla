-------------------------- MODULE LokiShardSplitting --------------------------
(***************************************************************************)
(* Shard splitting of Loki queries (shardQuerySplitting.ts): the queries   *)
(* of one stream selector are a group, and a group is asked for shard by   *)
(* shard, several at once, as many as the answers before took lightly.     *)
(* Each subrequest is itself split by time: the loop of LokiQuerySplitting *)
(* runs inside this one, without retries and without partial updates.      *)
(* A request that is not sharded runs the inner loop alone.                *)
(*                                                                         *)
(* A shard is its place in the sorted list of shards, from 1; 0 stands for *)
(* the streams without a shard, which are asked for last.                  *)
(***************************************************************************)
EXTENDS LokiQuerySplitting

CONSTANTS
    ShardCounts,     \* the shards of the groups: sequences of counts, 0 for a
                     \* group that is not sharded
    ShardedRanges,   \* the ranges and
    ShardedQueries   \* the time groups of the requests that are sharded

ASSUME ShardAssumption ==
    /\ ShardCounts \subseteq Seq(Nat) \ {<<>>}
    /\ ShardedRanges \subseteq Ranges
    /\ ShardedQueries \subseteq Queries

VARIABLES
    shardGroups,  \* [shards, size, cycle] for each group
    group,        \* the group of the present subrequest
    outer,        \* where the outer runNextRequest is, "off" when not sharded
    attempts,     \* retriesMap: [g, cycle] -> retries
    shardStop,    \* shouldStop
    filled,       \* logs groups that have their maxLines
    asked,        \* how often a shard's answer was combined into the response
    silent        \* the shards whose subrequest completed without an answer

shardVars == <<shardGroups, group, outer, attempts, shardStop, filled, asked, silent>>
vars == <<splitVars, shardVars>>

-----------------------------------------------------------------------------
(* The size of the next group of shards *)

Root(n) == CHOOSE r \in 0 .. n : r * r <= n /\ n < (r + 1) * (r + 1)

\* updateGroupSizeFromResponse: an empty answer; one within a second, within
\* six; a slow one for a single shard; one within twenty, or slower; one that
\* does not tell.
NewSizes(size) ==
    {size, size + 1, (3 * size) \div 2, CeilDiv(11 * size, 10)}
    \cup IF size = 1 THEN {} ELSE {CeilDiv(9 * size, 10), size \div 2}

\* Mutant: the size is not constrained from below.
MutConstrained(cycle, size, shards) == Least(size, ((shards - cycle) * 7) \div 10)

\* constrainGroupSize: never more than 70% of the pending shards.
Constrained(cycle, size, shards) ==
    Least(size, Greatest(((shards - cycle) * 7) \div 10, 1))

SizesAfter(g) ==
    LET x == shardGroups[g]
    IN  IF x.shards = 0 THEN {x.size}
        ELSE {Constrained(x.cycle + x.size, size, x.shards) : size \in NewSizes(x.size)}

-----------------------------------------------------------------------------
(* The loop *)

ShardGroups == DOMAIN shardGroups

\* groupShardRequests
ShardsToQuery(g) ==
    LET x == shardGroups[g]
    IN  IF x.cycle = x.shards THEN {0}
        ELSE x.cycle + 1 .. Least(x.cycle + x.size, x.shards)

HasPending(g) == shardGroups[g].shards > 0 /\ shardGroups[g].cycle < shardGroups[g].shards

\* Mutant: the cycle advances by the size of the group to come.
MutAdvanced(x, size) == [x EXCEPT !.cycle = Least(x.cycle + size, x.shards), !.size = size]

\* A group that goes on after its own subrequest.
Advanced(x, size) == [x EXCEPT !.cycle = Least(x.cycle + x.size, x.shards), !.size = size]

\* nextRequest: the next group if it has pending shards, or else the first one
\* that has; asking whether it has moves its cycle on.
NextShards(size, stopped) ==
    LET pending == {h \in ShardGroups : HasPending(h)}
        next    == IF group + 1 \in pending THEN group + 1
                   ELSE IF pending = {} THEN 0
                   ELSE CHOOSE h \in pending : \A i \in pending : h <= i
    IN  IF next = 0
        THEN /\ outer' = IF stopped THEN "error" ELSE "done"
             /\ UNCHANGED <<shardGroups, group>>
        ELSE /\ outer' = "run"
             /\ group' = next
             /\ shardGroups' =
                  IF next = group
                  THEN [shardGroups EXCEPT ![group] = Advanced(@, size)]
                  ELSE [shardGroups EXCEPT
                           ![next].cycle = Least(@ + shardGroups[next].size,
                                                 shardGroups[next].shards),
                           ![group].size = size]

InitShards ==
    /\ group = 1
    /\ attempts = [k \in {} |-> 0]
    /\ shardStop = FALSE
    /\ filled = {}
    /\ silent = {}

InitTimeOnly ==
    /\ Init /\ InitShards
    /\ shardGroups = <<>>
    /\ outer = "off"
    /\ asked = <<>>

\* The labels were fetched: groupTargetsByQueryType.
InitSharded ==
    /\ InitShards
    /\ \E c \in ShardCounts :
         /\ shardGroups = [g \in DOMAIN c |->
                [shards |-> c[g], size |-> Root(c[g]), cycle |-> 0]]
         /\ asked = [g \in DOMAIN c |-> [i \in 0 .. c[g] |-> 0]]
    /\ outer = "run"
    /\ nested = TRUE
    /\ range \in ShardedRanges
    /\ \E q \in ShardedQueries : groups = Grouped(q, range)
    /\ phase = "idle"
    /\ current = [n |-> 1, g |-> 1]
    /\ retried = {} /\ stop = FALSE /\ full = {} /\ merged = <<>> /\ failure = "none"

\* The inner loop has ended, and its state with it.
EndSplit ==
    /\ phase' = "idle"
    /\ current' = [n |-> 1, g |-> 1]
    /\ retried' = {} /\ stop' = FALSE /\ full' = {} /\ merged' = <<>>
    /\ failure' = "none"
    /\ UNCHANGED <<range, groups, nested>>

ShardStopped ==
    /\ outer = "run" /\ shardStop
    /\ outer' = "error"
    /\ UNCHANGED <<splitVars, shardGroups, group, attempts, shardStop, filled,
                   asked, silent>>

ShardSkip ==
    /\ outer = "run" /\ ~shardStop
    /\ group \in filled
    /\ NextShards(shardGroups[group].size, FALSE)
    /\ UNCHANGED <<splitVars, attempts, shardStop, filled, asked, silent>>

ShardQuery ==
    /\ outer = "run" /\ ~shardStop
    /\ group \notin filled
    /\ outer' = "query"
    /\ Start(groups)
    /\ UNCHANGED <<range, groups, nested>>
    /\ UNCHANGED <<shardGroups, group, attempts, shardStop, filled, asked, silent>>

Answered == outer = "query" /\ phase = "done" /\ failure \in {"none", "partial"}
TimedOut == outer = "query" /\ \/ phase = "done" /\ failure = "timeout"
                               \/ phase = "failed"
Refused == outer = "query" /\ phase = "done" /\ failure = "error"

Combined(g) ==
    [asked EXCEPT ![g] = [i \in DOMAIN @ |->
        IF i \in ShardsToQuery(g) THEN @[i] + 1 ELSE @[i]]]

ShardAnswer ==
    /\ Answered
    /\ asked' = Combined(group)
    /\ filled' = IF full = Groups THEN filled \cup {group} ELSE filled
    /\ \E size \in SizesAfter(group) : NextShards(size, FALSE)
    /\ EndSplit
    /\ UNCHANGED <<attempts, shardStop, silent>>

Shrunk(x) == [x EXCEPT !.size = Root(@)]

\* retry(): fewer shards, at once.
ShardShrink ==
    /\ TimedOut
    /\ shardGroups[group].size > 1
    /\ shardGroups' = [shardGroups EXCEPT ![group] = Shrunk(@)]
    /\ outer' = "run"
    /\ EndSplit
    /\ UNCHANGED <<group, attempts, shardStop, filled, asked, silent>>

Key == <<group, shardGroups[group].cycle>>
Retries == IF Key \in DOMAIN attempts THEN attempts[Key] ELSE 0

RetriesAfter(key, n) ==
    [k \in DOMAIN attempts \cup {key} |-> IF k = key THEN n ELSE attempts[k]]

\* retry(): the same again, after a while, twice.
ShardRetry ==
    /\ TimedOut
    /\ shardGroups[group].size <= 1
    /\ Retries <= 1
    /\ attempts' = RetriesAfter(Key, Retries + 1)
    /\ outer' = "backoff"
    /\ EndSplit
    /\ UNCHANGED <<shardGroups, group, shardStop, filled, asked, silent>>

ShardRetryTimer ==
    /\ outer = "backoff"
    /\ outer' = "run"
    /\ UNCHANGED <<splitVars, shardGroups, group, attempts, shardStop, filled,
                   asked, silent>>

\* retry() gives up, or isRetriableError throws: the loop is to stop.
ShardGiveUp ==
    /\ \/ Refused
       \/ TimedOut /\ shardGroups[group].size <= 1 /\ Retries > 1
    /\ shardStop' = TRUE
    /\ \E size \in SizesAfter(group) : NextShards(size, TRUE)
    /\ EndSplit
    /\ UNCHANGED <<attempts, filled, asked, silent>>

\* The inner loop was cut: it completes, and said nothing.
ShardSilent ==
    /\ outer = "query" /\ phase = "cut"
    /\ silent' = silent \cup ({group} \X ShardsToQuery(group))
    /\ NextShards(shardGroups[group].size, FALSE)
    /\ EndSplit
    /\ UNCHANGED <<attempts, shardStop, filled, asked>>

ShardUnsubscribe ==
    /\ outer \in {"query", "backoff"}
    /\ outer' = "dropped"
    /\ shardStop' = TRUE
    /\ stop' = TRUE
    /\ phase' = IF outer = "query" THEN "dropped" ELSE phase
    /\ UNCHANGED <<range, groups, nested, current, retried, full, merged, failure>>
    /\ UNCHANGED <<shardGroups, group, attempts, filled, asked, silent>>

ShardRuns ==
    \/ ShardStopped \/ ShardSkip \/ ShardQuery \/ ShardAnswer \/ ShardShrink
    \/ ShardRetry \/ ShardRetryTimer \/ ShardGiveUp \/ ShardSilent

SplitRuns ==
    /\ outer \in {"off", "query"}
    /\ Runs \/ Answers
    /\ UNCHANGED shardVars

SplitUnsubscribe == outer = "off" /\ Unsubscribe /\ UNCHANGED shardVars

ShardNext == ShardRuns \/ SplitRuns \/ SplitUnsubscribe \/ ShardUnsubscribe

ShardInit == InitTimeOnly \/ InitSharded

\* The loops go on by themselves and every subquery is answered in the end.
ShardSpec == ShardInit /\ [][ShardNext]_vars /\ WF_vars(ShardRuns) /\ WF_vars(SplitRuns)

-----------------------------------------------------------------------------
(* Properties *)

Outers == {"off", "run", "query", "backoff", "done", "error", "dropped"}

\* Every variable of both loops stays within its type; a group of shards is
\* never empty.
TypeOK ==
    /\ SplitTypeOK
    /\ \A g \in ShardGroups : LET x == shardGroups[g] IN
         /\ x.shards \in Nat /\ x.cycle \in 0 .. x.shards
         /\ IF x.shards = 0 THEN x.size = 0 ELSE x.size \in 1 .. x.shards + 1
    /\ outer \in Outers
    /\ outer # "off" => group \in ShardGroups
    /\ \A k \in DOMAIN attempts : attempts[k] \in 1 .. 2
    /\ shardStop \in BOOLEAN
    /\ filled \subseteq ShardGroups
    /\ silent \subseteq ShardGroups \X Nat

\* Splitting the query of one selector by shards is invisible: whatever the
\* sizes of the groups became, shrinking for a retry included, no shard is
\* combined twice, and when the loop is done every shard, and the streams
\* without one, were; the exception are subrequests that ended without a word.
ShardingIsInvisible ==
    Len(shardGroups) = 1 =>
        \A i \in 0 .. shardGroups[1].shards :
            /\ asked[1][i] <= 1
            /\ asked[1][i] = 1 => <<1, i>> \notin silent
            /\ outer = "done" /\ 1 \notin filled =>
                   asked[1][i] = 1 \/ <<1, i>> \in silent

\* A query ends, split in time or in shards: done, with an error, or dropped.
QueryEnds ==
    <>(\/ outer = "off" /\ phase \in {"done", "cut", "failed", "dropped"}
       \/ outer \in {"done", "error", "dropped"})

\* What the header of shardQuerySplitting.ts says: it is done once all request
\* groups have been executed, so every shard of every group was asked for.
AllRequestGroupsExecuted ==
    outer = "done" => \A g \in ShardGroups \ filled : \A i \in DOMAIN asked[g] :
                          asked[g][i] > 0 \/ <<g, i>> \in silent
=============================================================================
