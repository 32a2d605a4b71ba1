SPECIFICATION Spec
CONSTANTS
    operator = operator
    other = other
    n1 = n1
    n2 = n2
    n3 = n3
    n4 = n4
    n5 = n5
    price = price
    soil = soil
    MemoryIds <- MCIds
    Dids = {operator, other}
    Nonces = {n1, n2, n3, n4}
    Keys = {"k1"}
    Digests = {"d1", "d2"}
    Words = {price, soil}
    Scopes = {"coffee", "rival"}
    Purposes = {"research", "ads"}
    MaxChars = 1
    NoEnd = NoEnd
    NoMemory = NoMemory
    NoDecision = NoDecision
    Actors <- LifecycleActors
    Drafts <- LifecycleDrafts
    Queries <- LifecycleQueries
    Times = {0, 1}
    Seed <- MCSeed
    SeedClaims <- MCSeedClaims
SYMMETRY NonceSymmetry
INVARIANTS
    RetiredNeverRecalled
    SupersessionIsOnRecord
PROPERTIES
    CurrentEndsForAReason
    OnceSpec
