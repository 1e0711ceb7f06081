SPECIFICATION ShardSpec
CONSTANTS
    Day = 4
    Ranges <- MCShardedRanges
    Queries <- MCShardedQueries
    ShardCounts <- MCTwoSelectors
    ShardedRanges <- MCShardedRanges
    ShardedQueries <- MCShardedQueries
INVARIANTS AllRequestGroupsExecuted
CHECK_DEADLOCK FALSE
