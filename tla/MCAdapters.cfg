SPECIFICATION AdaptersSpec
CONSTANTS
    Adapters = {"mem0", "graphiti", "letta", "cognee", "cognee-rs", "akka-fluree"}
    Seeds <- MCSeeds
    Scenarios <- MCScenarios
    Replacement <- MCReplacement
    MaxResets = 2
    MaxProcesses = 2
INVARIANTS
    DisclosesFresh
    BoundaryHolds
    ForgetIsHonest
    LedgerGuards
    StaysWithinReach
CHECK_DEADLOCK FALSE
