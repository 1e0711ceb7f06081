SPECIFICATION Spec
CONSTANTS
    Rules <- PatientRules
    ResendDelay = 2
    ResolvedRetention = 3
    MaxGap = 3
    MaxTime = 10
    MaxFaults = 0
INVARIANTS
    FiringIsKnown
CHECK_DEADLOCK FALSE
