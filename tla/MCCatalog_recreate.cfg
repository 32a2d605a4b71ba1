SPECIFICATION Spec
CONSTANTS
    ada = ada
    bob = bob
    t1 = t1
    t2 = t2
    u1 = u1
    u2 = u2
    k1 = k1
    Tables = {t1, t2}
    Updates = {u1, u2}
    Oversized = {}
    Callers = {ada}
    Policies = {"analytics"}
    Keys = {k1}
    NoKey = NoKey
    MaxCreates = 2
    MaxEvents = 2
    NoTable = NoTable
INVARIANTS
    ReplacedIsStale
