SPECIFICATION Spec
CONSTANTS
    operator = operator
    other = other
    n1 = n1
    n2 = n2
    n3 = n3
    n4 = n4
    n5 = n5
    price = price
    soil = soil
    MemoryIds <- MCIds
    Dids = {operator, other}
    Nonces = {n1, n2, n3}
    Keys = {"k1"}
    Digests = {"d1"}
    Words = {price, soil}
    Scopes = {"coffee", "rival"}
    Purposes = {"research", "ads"}
    MaxChars = 1
    NoEnd = NoEnd
    NoMemory = NoMemory
    NoDecision = NoDecision
    Actors <- BoundaryActors
    Drafts <- BoundaryDrafts
    Queries <- BoundaryQueries
    Times = {0, 1}
    Seed <- MCSeed
    SeedClaims <- MCSeedClaims
SYMMETRY NonceSymmetry
INVARIANTS
    HandoverIsExact
PROPERTIES
    RefusalChangesNothing
