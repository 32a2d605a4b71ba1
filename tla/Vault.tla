------------------------------- MODULE Vault -------------------------------
(***************************************************************************)
(* The reference memory vault, AdversarialBackend of                       *)
(* adversarial_cognition/backend.py: a dictionary of memories, the set of  *)
(* spent (did, nonce) pairs and the table of idempotent decisions, with    *)
(* the four operations remember, recall, improve and forget, and restart.  *)
(*                                                                         *)
(* Data.  A tenant and a space are always compared together, so the pair   *)
(* is one value, the scope.  A text is the set of its words and its        *)
(* length; a digest and a receipt are injective, so a receipt is the tuple *)
(* it digests.  Memory identifiers are numbers because results are ranked  *)
(* by identifier when their scores tie.                                    *)
(***************************************************************************)
EXTENDS Naturals, Sequences, FiniteSets

CONSTANTS
    MemoryIds, Dids, Nonces, Keys, Digests, Words, Scopes, Purposes,
    MaxChars,       \* MAX_TEXT_CHARS = MAX_QUERY_CHARS
    NoEnd,          \* valid_until is None
    NoMemory,       \* memories.get(id) is None
    NoDecision,     \* idempotency_key not in self.idempotency
    Actors,         \* the callers: a did may come with several clearances
    Drafts,         \* the memories callers submit
    Queries, Times, \* the queries and as-of dates callers submit
    Seed,           \* the memories seed() stores before the first request
    SeedClaims      \* the (did, nonce) pairs seed() spends

Actor == [did: Dids, scope: Scopes, purpose: Purposes, clearance: Nat,
          canMutate: BOOLEAN]

States == {"current", "superseded", "forgotten"}

Memory == [id: MemoryIds, words: SUBSET Words, size: Nat, digest: Digests,
           scope: Scopes, purpose: Purposes, sensitivity: Nat,
           from: Nat, until: Nat \cup {NoEnd}, state: States,
           derived: SUBSET MemoryIds]

Query == [words: SUBSET Words, size: Nat]

Errors == {"", "replay", "replay-or-mutation-denied", "oversized-memory",
           "oversized-query", "scope-denied", "clearance-denied",
           "stale-source", "authorization-denied"}

Receipts == {<<>>}
    \cup ({"remember"} \X MemoryIds \X Digests)
    \cup ({"improve"} \X MemoryIds \X MemoryIds)
    \cup ({"forget"} \X MemoryIds)
    \cup ({"recall"} \X Seq(Nat \X MemoryIds))

Decision == [allowed: BOOLEAN, ids: Seq(MemoryIds), error: Errors,
             receipt: Receipts]

ASSUME VaultAssumption ==
    /\ MemoryIds \subseteq Nat /\ IsFiniteSet(MemoryIds)
    /\ IsFiniteSet(Words)
    /\ MaxChars \in Nat
    /\ NoEnd \notin Nat
    /\ NoMemory \notin Memory
    /\ NoDecision \notin Decision
    /\ Actors \subseteq Actor
    /\ Drafts \subseteq Memory
    /\ Queries \subseteq Query
    /\ Times \subseteq Nat
    /\ Seed \in [MemoryIds -> Memory \cup {NoMemory}]
    /\ SeedClaims \subseteq Dids \X Nonces

\* Memory.state has the default "current", which no caller overrides.
ASSUME DraftsAreFresh ==
    /\ \A m \in Drafts : m.state = "current"
    /\ \A i \in MemoryIds : Seed[i] # NoMemory => Seed[i].state = "current"

VARIABLES
    memories,       \* self.memories
    nonces,         \* self.nonces
    idempotency,    \* self.idempotency
    answer,         \* the request last served and the Decision it returned
    served,         \* history: how often each (did, nonce) was let through
    commits,        \* history: how often each idempotency key changed memory
    retired         \* history: superseded or forgotten, not written since

store == <<memories, nonces, idempotency>>
history == <<served, commits, retired>>
vars == <<store, answer, history>>

----------------------------------------------------------------------------
(* The pieces the operations share.                                        *)

Denied(err) == [allowed |-> FALSE, ids |-> <<>>, error |-> err,
                receipt |-> <<>>]
Allowed(ids, receipt) == [allowed |-> TRUE, ids |-> ids, error |-> "",
                          receipt |-> receipt]

Stored(i) == memories[i] # NoMemory

Replayed(a, n) == <<a.did, n>> \in nonces

\* The nonce is spent before any other check, also when the request is then
\* refused; a replay leaves the set as it is.
Claim(a, n) ==
    /\ nonces' = nonces \cup {<<a.did, n>>}
    /\ served' = IF Replayed(a, n) THEN served
                 ELSE [served EXCEPT ![<<a.did, n>>] = @ + 1]

InScope(m, a) == m.scope = a.scope

Authorized(m, a) ==
    /\ InScope(m, a)
    /\ m.sensitivity <= a.clearance
    /\ m.purpose = a.purpose

Respond(op, a, decision) ==
    answer' = [op |-> op, actor |-> a, decision |-> decision]

\* Mutant: remember stores the memory and then finds that it is too long.
Refuse_StoresFirst(op, a, n, err) ==
    /\ Claim(a, n)
    /\ Respond(op, a, Denied(err))
    /\ IF err = "oversized-memory"
       THEN \E m \in Drafts : memories' = [memories EXCEPT ![m.id] = m]
       ELSE UNCHANGED memories
    /\ UNCHANGED <<idempotency, commits, retired>>

Refuse(op, a, n, err) ==
    /\ Claim(a, n)
    /\ Respond(op, a, Denied(err))
    /\ UNCHANGED <<memories, idempotency, commits, retired>>

----------------------------------------------------------------------------
(* remember                                                                *)

RememberError(m, a, n) ==
    IF Replayed(a, n) \/ ~a.canMutate THEN "replay-or-mutation-denied"
    ELSE IF m.size > MaxChars         THEN "oversized-memory"
    ELSE IF ~InScope(m, a)            THEN "scope-denied"
    ELSE IF m.sensitivity > a.clearance THEN "clearance-denied"
    ELSE ""

\* Whatever the identifier held before, of any owner and state, is replaced.
Remember(m, a, n) ==
    \/ /\ RememberError(m, a, n) # ""
       /\ Refuse("remember", a, n, RememberError(m, a, n))
    \/ /\ RememberError(m, a, n) = ""
       /\ Claim(a, n)
       /\ memories' = [memories EXCEPT ![m.id] = m]
       /\ retired' = retired \ {m.id}
       /\ Respond("remember", a,
                  Allowed(<<m.id>>, <<"remember", m.id, m.digest>>))
       /\ UNCHANGED <<idempotency, commits>>

----------------------------------------------------------------------------
(* recall                                                                  *)

\* Mutant: the day a window ends still belongs to it.
InWindow_Inclusive(m, t) == m.from <= t /\ (m.until = NoEnd \/ t <= m.until)

InWindow(m, t) == m.from <= t /\ (m.until = NoEnd \/ t < m.until)

\* Mutant: recall does not look at the state.
Visible_AnyState(i, a, t) ==
    Stored(i) /\ Authorized(memories[i], a) /\ InWindow(memories[i], t)

Visible(i, a, t) ==
    /\ Stored(i)
    /\ memories[i].state = "current"
    /\ Authorized(memories[i], a)
    /\ InWindow(memories[i], t)

Score(q, i) == Cardinality(q.words \cap memories[i].words)

Hits(q, a, t) == {i \in MemoryIds : Visible(i, a, t) /\ Score(q, i) > 0}

\* The sort key (-score, memory_id).
Before(q, i, j) == \/ Score(q, i) > Score(q, j)
                   \/ Score(q, i) = Score(q, j) /\ i < j

\* The ranked list: the one enumeration of S that this strict order sorts.
Sorted(q, S) ==
    {ids \in [1..Cardinality(S) -> S] :
        \A p, r \in 1..Cardinality(S) : p < r => Before(q, ids[p], ids[r])}

Scored(q, ids) == [p \in DOMAIN ids |-> <<Score(q, ids[p]), ids[p]>>]

RecallError(q, a, n) ==
    IF Replayed(a, n)         THEN "replay"
    ELSE IF q.size > MaxChars THEN "oversized-query"
    ELSE ""

Recall(q, a, t, n) ==
    \/ /\ RecallError(q, a, n) # ""
       /\ Refuse("recall", a, n, RecallError(q, a, n))
    \/ /\ RecallError(q, a, n) = ""
       /\ Claim(a, n)
       /\ \E ids \in Sorted(q, Hits(q, a, t)) :
             Respond("recall", a,
                     Allowed(ids, <<"recall", Scored(q, ids)>>))
       /\ UNCHANGED <<memories, idempotency, commits, retired>>

----------------------------------------------------------------------------
(* improve                                                                 *)

\* Mutant: every improvement is taken for a first one.
Retry_Never(a, n, key) == FALSE

\* A key that already committed answers with its first decision, before the
\* source and the caller are looked at.
Retry(a, n, key) ==
    ~Replayed(a, n) /\ a.canMutate /\ idempotency[key] # NoDecision

ImproveError(i, m, a, n, dig) ==
    IF Replayed(a, n) \/ ~a.canMutate      THEN "replay-or-mutation-denied"
    ELSE IF ~Stored(i) \/ memories[i].digest # dig THEN "stale-source"
    ELSE IF ~Authorized(memories[i], a) \/ m.sensitivity > a.clearance
                                           THEN "authorization-denied"
    ELSE ""

\* Mutant: the old version gets a state nobody knows.
Superseded_Archived(m) == [m EXCEPT !.state = "archived"]

Superseded(m) == [m EXCEPT !.state = "superseded"]

Improve(i, m, a, n, dig, key) ==
    \/ /\ Retry(a, n, key)
       /\ Claim(a, n)
       /\ Respond("improve", a, idempotency[key])
       /\ UNCHANGED <<memories, idempotency, commits, retired>>
    \/ /\ ~Retry(a, n, key)
       /\ ImproveError(i, m, a, n, dig) # ""
       /\ Refuse("improve", a, n, ImproveError(i, m, a, n, dig))
    \/ LET decision == Allowed(<<i, m.id>>, <<"improve", i, m.id>>)
       IN /\ ~Retry(a, n, key)
          /\ ImproveError(i, m, a, n, dig) = ""
          /\ Claim(a, n)
          /\ memories' = [memories EXCEPT ![i] = Superseded(@), ![m.id] = m]
          /\ idempotency' = [idempotency EXCEPT ![key] = decision]
          /\ commits' = [commits EXCEPT ![key] = @ + 1]
          /\ retired' = (retired \cup {i}) \ {m.id}
          /\ Respond("improve", a, decision)

----------------------------------------------------------------------------
(* forget                                                                  *)

ForgetError(i, a, n) ==
    IF Replayed(a, n) \/ ~a.canMutate THEN "replay-or-mutation-denied"
    ELSE IF ~Stored(i) \/ ~Authorized(memories[i], a)
                                      THEN "authorization-denied"
    ELSE ""

Forgotten(m) == [m EXCEPT !.state = "forgotten"]

\* Mutant: forgetting one memory empties the vault.
Dropped_Everything(i) == {j \in MemoryIds : Stored(j)}

\* The memory itself and, one step away, every memory derived from it.
Dropped(i) == {i} \cup {j \in MemoryIds : Stored(j) /\ i \in memories[j].derived}

Forget(i, a, n) ==
    \/ /\ ForgetError(i, a, n) # ""
       /\ Refuse("forget", a, n, ForgetError(i, a, n))
    \/ /\ ForgetError(i, a, n) = ""
       /\ Claim(a, n)
       /\ memories' = [j \in MemoryIds |->
                          IF j \in Dropped(i) THEN Forgotten(memories[j])
                          ELSE memories[j]]
       /\ retired' = retired \cup Dropped(i)
       /\ Respond("forget", a, Allowed(<<i>>, <<"forget", i>>))
       /\ UNCHANGED <<idempotency, commits>>

----------------------------------------------------------------------------
(* restart                                                                 *)

\* Mutants: the new process starts without the nonces or without the decisions.
Restarted_NoNonces(old) == [old EXCEPT !.nonces = {}]
Restarted_NoDecisions(old) ==
    [old EXCEPT !.idempotency = [k \in Keys |-> NoDecision]]

\* The state the new process works on: a copy of each of the three tables.
Restarted(old) == [memories    |-> old.memories,
                   nonces      |-> old.nonces,
                   idempotency |-> old.idempotency]

Restart ==
    LET new == Restarted([memories    |-> memories,
                          nonces      |-> nonces,
                          idempotency |-> idempotency])
    IN /\ memories' = new.memories
       /\ nonces' = new.nonces
       /\ idempotency' = new.idempotency
       /\ answer' = [op |-> "restart"]
       /\ UNCHANGED history

----------------------------------------------------------------------------
Init ==
    /\ memories = Seed
    /\ nonces = SeedClaims
    /\ idempotency = [k \in Keys |-> NoDecision]
    /\ answer = [op |-> "restart"]
    /\ served = [c \in Dids \X Nonces |-> IF c \in SeedClaims THEN 1 ELSE 0]
    /\ commits = [k \in Keys |-> 0]
    /\ retired = {}

Request(a, n) ==
    \/ \E m \in Drafts : Remember(m, a, n)
    \/ \E q \in Queries, t \in Times : Recall(q, a, t, n)
    \/ \E i \in MemoryIds, m \in Drafts, dig \in Digests, key \in Keys :
          Improve(i, m, a, n, dig, key)
    \/ \E i \in MemoryIds : Forget(i, a, n)

Next == Restart \/ \E a \in Actors, n \in Nonces : Request(a, n)

Spec == Init /\ [][Next]_vars

----------------------------------------------------------------------------
(* Properties                                                              *)

Answers == [op: {"restart"}]
    \cup [op: {"remember", "recall", "improve", "forget"}, actor: Actors,
          decision: Decision]

\* Every table keeps its shape: an identifier holds a memory or nothing, an
\* idempotency key a decision or nothing.
TypeOK ==
    /\ memories \in [MemoryIds -> Memory \cup {NoMemory}]
    /\ nonces \in SUBSET (Dids \X Nonces)
    /\ idempotency \in [Keys -> Decision \cup {NoDecision}]
    /\ answer \in Answers
    /\ served \in [Dids \X Nonces -> Nat]
    /\ commits \in [Keys -> Nat]
    /\ retired \in SUBSET MemoryIds

\* Replay protection survives restarts: a caller's nonce is let through at
\* most once, whatever becomes of the request and however often the process
\* restarts in between (_claim, restart).
ServedOnce == \A c \in Dids \X Nonces : served[c] <= 1

\* An idempotency key changes memory at most once over the whole life of the
\* vault, restarts included, and the table never records a decision for a
\* change that did not happen (improve, restart).
CommittedOnce ==
    \A k \in Keys :
        commits[k] = IF idempotency[k] = NoDecision THEN 0 ELSE 1

\* A memory that was superseded, forgotten, or derived from a forgotten one
\* stays out of every answer until it is written again: no later operation or
\* restart makes it current (improve, forget, restart, recall).
RetiredNeverRecalled ==
    /\ \A i \in retired : Stored(i) /\ memories[i].state # "current"
    /\ answer.op = "recall" =>
          \A p \in DOMAIN answer.decision.ids :
              answer.decision.ids[p] \notin retired

\* The two tables account for each other: a memory that is superseded has the
\* decision of an improvement of it in the ledger, so that a retry of that
\* improvement is answered and not applied to the store a second time, whatever
\* was forgotten, written, improved or restarted since (improve, restart).
SupersessionIsOnRecord ==
    \A i \in MemoryIds : (Stored(i) /\ memories[i].state = "superseded") =>
        \E k \in Keys : /\ idempotency[k] # NoDecision
                        /\ idempotency[k].allowed /\ idempotency[k].ids[1] = i

\* A request that is refused leaves the memories and the decisions exactly as
\* they were; all it may consume is its nonce (every early return).
RefusalChangesNothing ==
    [][ answer'.op # "restart" /\ ~answer'.decision.allowed
          => UNCHANGED <<memories, idempotency>> ]_vars

\* Scoped forgetting: a current memory stops being current only because a
\* caller authorized for the named memory forgot it or something it is derived
\* from, or improved it, or because its identifier was written anew.  No
\* restart, refusal or retry drops one, and an unrelated memory stays.
CurrentEndsForAReason ==
    [][ \A i \in MemoryIds :
          (Stored(i) /\ memories[i].state = "current"
           /\ memories'[i] # memories[i]) =>
             /\ answer'.op \in {"remember", "improve", "forget"}
             /\ answer'.decision.allowed
             /\ LET ids == answer'.decision.ids
                    named == memories[ids[1]]
                IN \/ answer'.op = "remember" /\ i = ids[1]
                   \/ /\ answer'.op = "improve"
                      /\ i \in {ids[1], ids[2]}
                      /\ Authorized(named, answer'.actor)
                   \/ /\ answer'.op = "forget"
                      /\ i = ids[1] \/ ids[1] \in memories[i].derived
                      /\ Authorized(named, answer'.actor)
      ]_vars

\* Adjoining validity windows hand over exactly: of two current memories the
\* caller may see and the query matches, the second valid from the day the
\* first one ends, an answer as of any day of the two windows holds exactly
\* one (recall).
HandoverIsExact ==
    \A a \in Actors, q \in Queries, t \in Times, i, j \in MemoryIds :
        LET Plain(x) == /\ Stored(x) /\ memories[x].state = "current"
                        /\ Authorized(memories[x], a) /\ Score(q, x) > 0
        IN (/\ Plain(i) /\ Plain(j)
            /\ memories[i].until = memories[j].from
            /\ memories[j].until = NoEnd /\ t >= memories[i].from)
           => Cardinality(Hits(q, a, t) \cap {i, j}) = 1

\* The release document says that a proposal bound to superseded evidence
\* cannot commit; improve looks at the source's digest, which superseding does
\* not change, and not at its state.
StaleProposalRejected ==
    [][ commits' # commits =>
          memories[answer'.decision.ids[1]].state # "superseded" ]_vars

\* Everything a memory rests on: the least set that holds it and, with each
\* member, what that member is derived from.
Basis(j) ==
    {i \in MemoryIds :
        \A T \in SUBSET MemoryIds :
            (j \in T /\ \A k \in T : Stored(k) => memories[k].derived \subseteq T)
               => i \in T}

\* The release document says that a forgotten fact and everything derived from
\* it disappear; forget reaches what is derived from it directly.
ForgetReachesDerived ==
    [][ (answer'.op = "forget" /\ answer'.decision.allowed) =>
          \A j \in MemoryIds :
              Stored(j) /\ answer'.decision.ids[1] \in Basis(j)
                 => memories'[j].state # "current" ]_vars

----------------------------------------------------------------------------
(* What the vault promises of its requests, whatever they ask for.         *)

Once == INSTANCE OncePerToken WITH
            Tokens   <- Dids \X Nonces,
            Contents <- [MemoryIds -> Memory \cup {NoMemory}],
            Outcomes <- Decision, NoOutcome <- NoDecision,
            spent    <- nonces,
            ledger   <- idempotency,
            contents <- memories

\* Every effect of the vault is the effect of one fresh token, and a keyed
\* effect is recorded in the same step and never again (_claim, improve,
\* restart).
OnceSpec == Once!Spec
============================================================================
