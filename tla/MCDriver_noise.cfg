SPECIFICATION FairSpec
CONSTANTS
    Systems <- MCSystems
    Suites <- MCSuites
    SeedIds <- MCSeedIds
    Attempts = 3
    MaxIds = 2
    MaxAnswer = 3
    NoNonce = NoNonce
CHECK_DEADLOCK FALSE
INVARIANTS
    NoiseIsNotAResult
