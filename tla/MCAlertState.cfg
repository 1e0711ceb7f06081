SPECIFICATION Spec
CONSTANTS
    Rules <- AllRules
    ResendDelay = 2
    ResolvedRetention = 3
    MaxGap = 3
    MaxTime = 7
    MaxFaults = 1
INVARIANTS
    TypeOK
    FiringIsKnown
    ResolvedIsKnown
    LostMessageIsMadeUp
PROPERTIES
    NotFiredEarly
    NotResolvedEarly
CHECK_DEADLOCK FALSE
