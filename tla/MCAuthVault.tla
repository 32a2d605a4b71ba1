---------------------------- MODULE MCAuthVault ----------------------------
(***************************************************************************)
(* Two principals of one scope: an operator cleared for the private memory *)
(* and an analyst who is not, either of whom may be registered again.      *)
(***************************************************************************)
EXTENDS AuthVault, TLC

CONSTANTS operator, analyst, ghost, n1, n2, price

Record(did, clearance, canMutate) ==
    [did |-> did, scope |-> "coffee", purpose |-> "research",
     clearance |-> clearance, canMutate |-> canMutate]

OperatorRecord == Record(operator, 3, TRUE)
AnalystRecord  == Record(analyst, 1, TRUE)
MCRecords == {OperatorRecord, AnalystRecord, Record(operator, 1, FALSE)}
MCPrincipals == [d \in Dids |-> CASE d = operator -> OperatorRecord
                                  [] d = analyst  -> AnalystRecord
                                  [] OTHER        -> NoRecord]

Draft(i, sensitivity, derived) ==
    [id |-> i, words |-> {price}, size |-> 1, digest |-> "d1",
     scope |-> "coffee", purpose |-> "research", sensitivity |-> sensitivity,
     from |-> 0, until |-> NoEnd, state |-> "current", derived |-> derived]

Private  == Draft(1, 3, {})
Public   == Draft(2, 1, {})
MCDrafts == {Public}
MCIds    == {1, 2}
MCSeed   == [i \in MCIds |-> IF i = 1 THEN Private ELSE Public]
MCClaims == {}
MCQueries == {[words |-> {price}, size |-> 1]}

NonceSymmetry == Permutations({n1, n2})
============================================================================
