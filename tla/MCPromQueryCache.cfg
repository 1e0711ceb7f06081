SPECIFICATION Spec
CONSTANTS
    A = A
    B = B
    up = up
    load = load
    Targets <- MCTargets
    Series = {up, load}
    Regular = {load}
    Windows = {5}
    Overlap = 3
    Step = 2
    DatapointStep = 2
    LateSamples = FALSE
    MaxTime = 8
    MaxRevisions = 1
INVARIANTS TypeOK
PROPERTIES RefreshIsTransparent
CHECK_DEADLOCK FALSE
