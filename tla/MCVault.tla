------------------------------ MODULE MCVault ------------------------------
(***************************************************************************)
(* Small instances of Vault.  Identifiers: 1 the old price, 2 the current  *)
(* price, 3 a summary derived from 2, 4 a digest of that summary or the    *)
(* improved price.  Day 1 is where the old price ends and the new begins.  *)
(***************************************************************************)
EXTENDS Vault, TLC

CONSTANTS operator, other, n1, n2, n3, n4, n5, price, soil

Draft(i, ws, derived) ==
    [id |-> i, words |-> ws, size |-> 1, digest |-> "d1",
     scope |-> "coffee", purpose |-> "research", sensitivity |-> 1,
     from |-> 1, until |-> NoEnd, state |-> "current", derived |-> derived]

OldPrice     == [Draft(1, {price}, {}) EXCEPT !.from = 0, !.until = 1]
CurrentPrice == Draft(2, {price}, {})
Corrected    == [CurrentPrice EXCEPT !.digest = "d2"]
Summary      == Draft(3, {price, soil}, {2})
SecondHand   == Draft(4, {price}, {3})
Improved     == [Draft(4, {price}, {}) EXCEPT !.digest = "d2"]
LongImproved == [Improved EXCEPT !.size = 2, !.digest = "d1"]
PrivateFarm  == [Draft(3, {soil}, {}) EXCEPT !.sensitivity = 3]
RivalPrice   == [Draft(2, {price}, {}) EXCEPT !.scope = "rival"]

Operator == [did |-> operator, scope |-> "coffee", purpose |-> "research",
             clearance |-> 1, canMutate |-> TRUE]
Cleared    == [Operator EXCEPT !.clearance = 3]
Reader     == [Operator EXCEPT !.did = other, !.canMutate = FALSE]
Rival      == [Operator EXCEPT !.did = other, !.scope = "rival"]
Advertiser == [Operator EXCEPT !.did = other, !.purpose = "ads"]

MCIds == 1..4
AsSeed(S) == [i \in MCIds |-> IF \E m \in S : m.id = i
                              THEN CHOOSE m \in S : m.id = i ELSE NoMemory]
MCSeed       == AsSeed({OldPrice, CurrentPrice})
MCSeedClaims == {<<operator, n1>>}

ShortQuery == [words |-> {price}, size |-> 1]
LongQuery  == [words |-> {price, soil}, size |-> 2]

\* Lifecycle: a correction, a derived memory, an improvement that is too long and
\* a forget, in every order, by a caller who may and one of another scope.
LifecycleDrafts  == {Corrected, Summary, LongImproved}
LifecycleActors  == {Operator, Rival}
LifecycleQueries == {ShortQuery, LongQuery}

\* Boundary: callers of every kind, and the size limits from both sides.
BoundaryDrafts  == {CurrentPrice, PrivateFarm, RivalPrice, LongImproved}
BoundaryActors  == {Operator, Cleared, Reader, Rival, Advertiser}
BoundaryQueries == {ShortQuery, LongQuery, [ShortQuery EXCEPT !.words = {soil}]}

\* Lineage: a summary of a summary.
LineageDrafts == {Summary, SecondHand}

NonceSymmetry == Permutations(Nonces \ {n1})
============================================================================
