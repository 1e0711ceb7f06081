SPECIFICATION FairSpec
CONSTANTS
    Servers = {s1, s2, s3}
    MaxInterval = 4
    MaxHold = 2
    ClockError = 1
    MaxFaults = 2
INVARIANTS
    TypeOK
    MutualExclusion
    HolderOwnsRow
PROPERTIES
    OrphanedLockIsTakenOver
