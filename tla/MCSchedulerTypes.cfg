SPECIFICATION Spec
CONSTANTS
    Rules = {r1}
    Fingerprints = {1, 3}
    Recording = {3}
    Paused = {}
    InvalidInterval = {}
    Frequency <- EveryOtherTick
    Offset <- JitteredSecond
    Period = 1
    RecordingEnabled = TRUE
    StopReasons = {"deleted"}
    MaxAttempts = 2
    MaxVersion = 2
    MaxCreates = 1
    MaxRoutines = 2
    MaxPending = 1
INVARIANTS
    DeletedRuleIsResolved
CHECK_DEADLOCK FALSE
