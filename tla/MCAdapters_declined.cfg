SPECIFICATION AdaptersSpec
CONSTANTS
    Adapters = {"mem0", "graphiti", "cognee-rs"}
    Seeds <- MCSeeds
    Scenarios <- MCScenarios
    Replacement <- MCReplacement
    MaxResets = 2
    MaxProcesses = 2
INVARIANTS
    ClaimedIsMeasured
CHECK_DEADLOCK FALSE
