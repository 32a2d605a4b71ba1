SPECIFICATION Spec
CONSTANTS
    search = search
    r1 = r1
    r2 = r2
    Subjects = {"operator"}
    Resources = {r1}
    Operations = {"job"}
    Tools = {search}
    Levels = {0, 1}
    Leases = {1, 2}
    Policies <- FullPolicies
    MaxIds = 2
    MaxTime = 2
    MaxEpoch = 1
    NoCapability = NoCapability
    SameLease = SameLease
INVARIANTS
    EveryDecisionAudited
