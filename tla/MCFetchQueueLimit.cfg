SPECIFICATION Spec
CONSTANTS
    d1 = d1
    d2 = d2
    d3 = d3
    Panel = Panel
    NoId = NoId
    Rotate = Rotate
    Requests = {d1, d2, d3, d4, d5, d6}
    DataQueries = {d1, d2, d3, d4, d5, d6}
    RequestId <- MCRequestId
    Ping <- MCPing
    Malformed = {d3}
    MaxParallel = 2
    Reentrant = {}
    AuthFailures = 0
INVARIANTS ParallelLimit
CHECK_DEADLOCK FALSE
