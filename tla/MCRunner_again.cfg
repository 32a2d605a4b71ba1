SPECIFICATION Spec
CONSTANTS
    Registry <- MCRegistry
    Suite <- MCSuite
    Category <- MCCategory
    CaseGates <- MCCaseGates
    CategoryGates <- MCCategoryGates
    References <- FewReferences
    Processes <- FewProcesses
    Selections <- FewSelections
    Priority <- MCPriority
    MaxInvocations = 2
INVARIANTS
    PassIsEarned
    CreditIsOwn
    ExitIsTrue
    DocumentIsSound
CHECK_DEADLOCK FALSE
