SPECIFICATION FairSpec
CONSTANTS
    d1 = d1
    d2 = d2
    d3 = d3
    Panel = Panel
    NoId = NoId
    Rotate = Rotate
    Requests = {d1, d2, d3}
    DataQueries = {d1, d2}
    RequestId <- MCRequestId
    Ping <- MCPing
    Malformed = {d1, d3}
    MaxParallel = 3
    Reentrant = {d1, d3}
    AuthFailures = 2
INVARIANTS TypeOK SlotsAreHeld NothingWaitsForNothing OnePerRequestId
PROPERTIES RequestsEnd
CHECK_DEADLOCK FALSE
