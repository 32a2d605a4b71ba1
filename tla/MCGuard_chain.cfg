SPECIFICATION Spec
CONSTANTS
    search = search
    r1 = r1
    r2 = r2
    Subjects = {"operator"}
    Resources = {r1, r2}
    Operations = {"job"}
    Tools = {search}
    Levels = {0, 1}
    Leases = {1}
    Policies <- ReadPolicies
    MaxIds = 3
    MaxTime = 0
    MaxEpoch = 0
    NoCapability = NoCapability
    SameLease = SameLease
INVARIANTS
    UniqueIds
    WithinOrigin
    IssueIsLogged
    UseIsLicensed
