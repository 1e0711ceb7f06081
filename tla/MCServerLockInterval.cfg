SPECIFICATION FairSpec
CONSTANTS
    Servers = {s1, s2, s3}
    MaxInterval = 4
    MaxDelay = 1
    ClockError = 1
    MaxFaults = 2
INVARIANTS
    TypeOK
PROPERTIES
    StartsApart
    KeepsExecuting
