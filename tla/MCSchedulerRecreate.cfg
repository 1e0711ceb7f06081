SPECIFICATION Spec
CONSTANTS
    Rules = {r1}
    Fingerprints = {1, 2}
    Recording = {}
    Paused = {}
    InvalidInterval = {}
    Frequency <- EveryOtherTick
    Offset <- JitteredSecond
    Period = 2
    RecordingEnabled = TRUE
    StopReasons = {"deleted"}
    MaxAttempts = 1
    MaxVersion = 1
    MaxCreates = 1
    MaxRoutines = 1
    MaxPending = 1
PROPERTIES
    FetchIsComplete
CHECK_DEADLOCK FALSE
