\* Two catalogs, six cases, two faults for each catalog.
CONSTANTS
    Order <- MCOrder
    Claims <- MCClaims
    Cases <- MCCases
    Behaviours <- MCBehaviours
    MaxFaults = 2
SPECIFICATION Spec
INVARIANT HonestCatalogIsClean
INVARIANT NoCreditForLostUpdate
INVARIANT RetryCreditIsEarned
PROPERTY RunEnds
CHECK_DEADLOCK FALSE
