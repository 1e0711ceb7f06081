SPECIFICATION ShardSpec
CONSTANTS
    Day = 4
    Ranges <- MCRanges
    Queries <- MCQueries
    ShardCounts <- MCShardCounts
    ShardedRanges <- MCShardedRanges
    ShardedQueries <- MCShardedQueries
INVARIANTS TypeOK SplittingIsInvisible NoHoles ShardingIsInvisible
PROPERTIES QueryEnds
CHECK_DEADLOCK FALSE
