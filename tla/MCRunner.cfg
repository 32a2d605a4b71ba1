SPECIFICATION Spec
CONSTANTS
    Registry <- MCRegistry
    Suite <- MCSuite
    Category <- MCCategory
    CaseGates <- MCCaseGates
    CategoryGates <- MCCategoryGates
    References <- MCReferences
    Processes <- MCProcesses
    Selections <- MCSelections
    Priority <- MCPriority
    MaxInvocations = 1
INVARIANTS
    PassIsEarned
    CreditIsOwn
    ExitIsTrue
    DocumentIsSound
CHECK_DEADLOCK FALSE
