\* Two files or writers, two rows, one write of another process.
CONSTANTS
    Plans <- MCPlans
    Spaces <- MCSpaces
    Parts <- MCParts
    Writers <- MCWriters
    Stride = 1
    WarmupBase = 1
    Warmups = 1
    MaxSends = 2
    MaxOthers = 1
    MaxRows = 2
SPECIFICATION Spec
INVARIANT FirstRunMeasuresCommits
INVARIANT CountsAreComplete
INVARIANT RecordedFileExists
INVARIANT CacheAddsNothing
CHECK_DEADLOCK FALSE
