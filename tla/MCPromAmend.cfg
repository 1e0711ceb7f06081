SPECIFICATION Spec
CONSTANTS
    A = A
    B = B
    up = up
    load = load
    Targets <- MCOneTarget
    Series = {up}
    Regular = {}
    Windows = {4}
    Overlap = 2
    Step = 1
    DatapointStep = 1
    LateSamples = TRUE
    MaxTime = 6
    MaxRevisions = 0
PROPERTIES OlderPointsAreKept
CHECK_DEADLOCK FALSE
