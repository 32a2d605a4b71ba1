\* The track: two cases of a request, three turns, two calls in a response.
CONSTANTS
    Backends <- MCBackends
    Suites <- MCSuites
    Corpus <- MCCorpus
    SeedOrder <- MCSeedOrder
    Expected <- MCExpected
    Queries <- MCQueries
    Responses <- MCResponses
    Contents <- MCContents
    MaxTurns = 3
    MaxTranscript = 3
    MaxIds = 2
    MaxRead = 2
SPECIFICATION Spec
INVARIANT ForgetCreditIsReal
INVARIANT VoidedNeverCredited
INVARIANT FreshStart
INVARIANT NeverReplayed
CHECK_DEADLOCK FALSE
