SPECIFICATION FairSpec
CONSTANTS
    Rules = {r1}
    Fingerprints = {2, 3}
    Recording = {}
    Paused = {3}
    InvalidInterval = {}
    Frequency <- EveryOtherTick
    Offset <- JitteredSecond
    Period = 2
    RecordingEnabled = TRUE
    StopReasons = {"deleted"}
    MaxAttempts = 1
    MaxVersion = 2
    MaxCreates = 0
    MaxRoutines = 1
    MaxPending = 2
INVARIANTS TypeOK StateIsOfCurrentDefinition AlertmanagerAgrees
PROPERTIES
    StoppedRoutineExits
    DefinitionIsApplied
CHECK_DEADLOCK FALSE
