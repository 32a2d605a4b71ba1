SPECIFICATION Spec
CONSTANTS
    ada = ada
    bob = bob
    t1 = t1
    t2 = t2
    u1 = u1
    u2 = u2
    k1 = k1
    Tables = {t1, t2}
    Updates = {u1, u2}
    Oversized = {u2, "lengthy"}
    Callers = {ada, bob}
    Policies = {"analytics", "lengthy"}
    Keys = {k1}
    NoKey = NoKey
    MaxCreates = 2
    MaxEvents = 3
    NoTable = NoTable
SYMMETRY Exchangeable
INVARIANTS
    HeadProvesTable
    NoLostUpdate
    KeyedOnce
PROPERTIES
    HistorySpec
    EvidenceIsDurable
