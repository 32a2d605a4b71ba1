\* The data is rewritten while rust-vs-jvm runs.
CONSTANTS
    Plans <- ScanPlans
    Spaces <- MCSpaces
    Parts <- MCParts
    Writers <- MCWriters
    Stride = 1
    WarmupBase = 1
    Warmups = 1
    MaxSends = 2
    MaxOthers = 1
    MaxRows = 2
SPECIFICATION Spec
INVARIANT EnginesMatch
CHECK_DEADLOCK FALSE
