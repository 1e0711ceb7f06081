SPECIFICATION Spec
CONSTANTS
    Rules = {r1}
    Fingerprints = {1}
    Recording = {}
    Paused = {}
    InvalidInterval = {}
    Frequency <- EveryOtherTick
    Offset <- JitteredSecond
    Period = 2
    RecordingEnabled = TRUE
    StopReasons = {"deleted"}
    MaxAttempts = 1
    MaxVersion = 1
    MaxCreates = 1
    MaxRoutines = 2
    MaxPending = 1
INVARIANTS
    EveryDeletionIsResolved
CHECK_DEADLOCK FALSE
