------------------------- MODULE MCLoki -------------------------
(* Groups in the order runSplitQuery makes them: logs, metrics by step, the
   queries that are not split. *)
EXTENDS LokiShardSplitting

Logs(kind) == [kind |-> kind, step |-> 1]
Metric(step) == [kind |-> "metric", step |-> step]
Instant == [kind |-> "instant", step |-> 1]

MCQueries == {
    <<Logs("backward")>>,
    <<Logs("backward"), Logs("forward")>>,
    <<Logs("backward"), Metric(2), Instant>>,
    <<Metric(2), Metric(3)>>,
    <<Metric(1), Metric(4), Metric(5)>>,
    <<Instant>>}

MCRanges == {<<0, 9>>, <<1, 9>>, <<3, 12>>, <<5, 8>>, <<4, 4>>}

\* The targets of one stream selector, over one chunk and over several.
MCShardedQueries == {<<Logs("backward")>>}
MCShardedRanges == {<<5, 8>>, <<1, 9>>}
MCShardCounts == {<<0>>, <<1>>, <<5>>}

\* Two stream selectors with a shard each.
MCTwoSelectors == {<<1, 1>>}
=============================================================================
