SPECIFICATION AuthSpec
CONSTANTS
    operator = operator
    analyst = analyst
    ghost = ghost
    n1 = n1
    n2 = n2
    price = price
    MemoryIds <- MCIds
    Dids = {operator, analyst, ghost}
    Nonces = {n1, n2}
    Keys = {"k1"}
    Digests = {"d1"}
    Words = {price}
    Scopes = {"coffee"}
    Purposes = {"research"}
    MaxChars = 1
    NoEnd = NoEnd
    NoMemory = NoMemory
    NoDecision = NoDecision
    Actors <- MCRecords
    Drafts <- MCDrafts
    Queries <- MCQueries
    Times = {0}
    Seed <- MCSeed
    SeedClaims <- MCClaims
    Records <- MCRecords
    Principals <- MCPrincipals
    NoRecord = NoRecord
    Forged = Forged
SYMMETRY NonceSymmetry
PROPERTIES
    RegistryBounds
    CoreSpec
