SPECIFICATION Spec
CONSTANTS
    search = search
    r1 = r1
    r2 = r2
    Subjects = {"operator"}
    Resources = {r1, r2}
    Operations = {"job"}
    Tools = {search}
    Levels = {0, 1}
    Leases = {2}
    Policies <- FullPolicies
    MaxIds = 2
    MaxTime = 2
    MaxEpoch = 1
    NoCapability = NoCapability
    SameLease = SameLease
SYMMETRY ResourceSymmetry
INVARIANTS
    WithinOrigin
    DescendantFallsWithMint
    UseIsLicensed
PROPERTIES
    DeadStaysDead
