SPECIFICATION Spec
CONSTANTS
    Rules <- DefaultRules
    ResendDelay = 1
    ResolvedRetention = 3
    MaxGap = 2
    MaxTime = 4
    MaxFaults = 0
PROPERTIES
    ResolvedAtIsSet
CHECK_DEADLOCK FALSE
