------------------------------ MODULE Adapters ------------------------------
(***************************************************************************)
(* The adapters of adapters/: how mem0, graphiti, letta, cognee, cognee-rs  *)
(* and akka-fluree translate the calls of the driver, what they remember in *)
(* their own process, and what is left when a call of the system they wrap  *)
(* fails half way.                                                          *)
(*                                                                          *)
(* The driver is the one of module Driver, reduced to its obligations: a    *)
(* case starts with reset, an exception is followed by reset, a memory is   *)
(* written once in a case, and a call is made only under the capabilities   *)
(* the adapter claims.  What a system finds relevant is its own affair:     *)
(* recall stands for everything that it could disclose.                     *)
(***************************************************************************)
EXTENDS Naturals, FiniteSets, Sequences, SequencesExt

CONSTANTS
    Adapters,       \* the adapters of this instance
    Seeds,          \* the memories of SEED, in order
    Scenarios,      \* what each scenario writes
    Replacement,    \* the memory that improve writes
    MaxResets, MaxProcesses

Principals == <<"operator", "analyst", "outsider">>
Memories == Range(Seeds) \cup UNION Scenarios

\* The window of a memory that is given no dates.
Open == "open"

ASSUME AdaptersAssumption ==
    /\ Adapters \subseteq {"mem0", "graphiti", "letta", "cognee", "cognee-rs", "akka-fluree"}
    /\ MaxResets \in Nat /\ MaxProcesses \in Nat /\ Seeds \in Seq(Range(Seeds))
    /\ \A m \in Memories \cup {Replacement} : DOMAIN m =
            {"id", "owner", "private", "from", "window", "nonce", "supersedes"}
    /\ \A m, n \in Memories : m.id = n.id => m = n
    /\ \A m \in Memories : m.private => m.owner = "operator"
    /\ \A m \in Range(Seeds) : m.nonce = "none"
    /\ Replacement.supersedes # Replacement.id
    /\ \A m \in Memories : m.id # Replacement.id

VARIABLES
    adapter,    \* the adapter under test
    held,       \* external: what the system stores
    ext,        \* external: agents, grants, nonces and jobs of the system
    proc,       \* what the adapter's process remembers
    ready,      \* the last call returned, and a reset returned before it
    clock,      \* history: the numbers of this process and of its last reset
    written,    \* history: the memories written since that reset
    survived,   \* history: that reset returned and something was left
    heard,      \* history: what the last recall could disclose, and to whom
    forgotten,  \* history: memories that an answered forget promises to be gone
    accepted,   \* history: the nonces of requests answered with true
    declined    \* history: memories for which the adapter raised Unsupported

adapterVars == <<adapter, held, ext, proc, ready, clock, written, survived, heard, forgotten,
                 accepted, declined>>

Claims ==
    CASE adapter = "mem0"      -> {"isolation", "forget"}
      [] adapter = "graphiti"  -> {"isolation", "forget"}
      [] adapter = "letta"     -> {"temporal", "forget"}
      [] adapter = "cognee"    -> {"temporal", "isolation", "clearance"}
      [] adapter = "cognee-rs" -> {}
      [] adapter = "akka-fluree" -> {"temporal", "isolation", "provenance", "replay-protection",
                                     "idempotency", "forget", "derived-tracking"}
-----------------------------------------------------------------------------
(* Where an adapter writes, and what a principal reads. *)

User(p) == IF p \in {"operator", "analyst"} THEN <<"org", 0>> ELSE <<p, 0>>
\* A wrong variant: one group for all generations.
Group_OneForAll(p) == <<p, 0>>
Group(p) == <<p, proc.generation>>
Dataset(p, private) == <<p, IF private THEN "org-private" ELSE "org-shared">>
Agents(p) == {a \in proc.agents : a[1] = p}

Space(p, private) ==
    CASE adapter = "mem0"      -> User(p)
      [] adapter = "graphiti"  -> Group(p)
      [] adapter = "cognee"    -> Dataset(p, private)
      [] adapter = "cognee-rs" -> <<p, proc.root>>
      [] adapter = "akka-fluree" -> <<"ledger", proc.ledger>>
      [] adapter = "letta"     -> CHOOSE a \in Agents(p) : TRUE

\* Cognee resolves the datasets a user may read from its own grants.
Readable(p) == IF adapter = "cognee"
               THEN {Dataset(p, TRUE), Dataset(p, FALSE)} \cup {g.set : g \in {h \in ext.acl : h.to = p}}
               ELSE {Space(p, FALSE)}

\* The filter of the ledger's query.
Visibility(p, m) == p = "operator" \/ IF p = "analyst" THEN ~ m.private ELSE m.owner = p

Discloses(p) == {x \in held : /\ x.space \in Readable(p)
                              /\ adapter = "akka-fluree" => ~ x.dead /\ Visibility(p, x.m)}

Item(m, space) == [m |-> m, space |-> space, dead |-> FALSE, at |-> clock]
Here == <<"ledger", proc.ledger>>
Exists(id) == \E x \in held : x.m.id = id /\ x.space = Here /\ ~ x.dead
-----------------------------------------------------------------------------
(* The process *)

\* The adapter's constructor.
FreshProcess(n) == [ids |-> {}, generation |-> 0, agents |-> {}, granted |-> FALSE,
                    root |-> n, ledger |-> 0]
NothingHeard == [by |-> "nobody", items |-> {}]
Forgets == forgotten' = {} /\ accepted' = <<>> /\ declined' = {}
           /\ heard' = NothingHeard /\ written' = {}

AdaptersInit ==
    /\ adapter \in Adapters /\ held = {} /\ proc = FreshProcess(1) /\ ready = FALSE
    /\ ext = [agents |-> {}, made |-> 0, acl |-> {}, nonces |-> {}, jobs |-> {}]
    /\ clock = [process |-> 1, reset |-> 0]
    /\ survived = FALSE /\ heard = NothingHeard /\ written = {} /\ forgotten = {}
    /\ accepted = <<>> /\ declined = {}

\* A later run of the benchmark: what the system stores is still there, except
\* for cognee-rs, whose root is a new temporary directory.
NewProcess ==
    /\ clock.process < MaxProcesses
    /\ clock' = [clock EXCEPT !.process = @ + 1]
    /\ proc' = FreshProcess(clock'.process) /\ ready' = FALSE /\ Forgets
    /\ UNCHANGED <<adapter, held, ext, survived>>

\* The corpus is written in its order, before a scenario makes its calls.
Seeded == Cardinality(written) >= Len(Seeds)

\* An exception reaches the driver.
Raise == ready' = FALSE /\ heard' = NothingHeard /\ UNCHANGED <<written, forgotten, accepted, declined>>
-----------------------------------------------------------------------------
(* reset *)

\* A wrong variant: the process still believes in a grant that is pruned.
Cleared_Granted == [proc EXCEPT !.ids = {}, !.generation = @ + 1, !.agents = {}, !.ledger = clock'.reset]
\* The tables and processes that a reset has emptied, if it gets that far.
Cleared == [proc EXCEPT !.ids = {}, !.generation = @ + 1, !.agents = {},
                        !.granted = FALSE, !.ledger = clock'.reset]

ResetReturns(left) ==
    /\ ready' = TRUE /\ proc' = Cleared /\ survived' = (left # {}) /\ held' = left /\ Forgets

\* mem0 swallows the failure of memory.reset().
ResetMem0 == \E left \in {{}, held} : ResetReturns(left) /\ UNCHANGED ext

\* graphiti removes the files of the database and ignores errors; a failure to
\* close or to connect is raised, before or after the generation has changed.
ResetGraphiti ==
    /\ UNCHANGED ext
    /\ \/ Raise /\ UNCHANGED <<held, proc, survived>>
       \/ \E left \in {{}, held} :
            \/ ResetReturns(left)
            \/ Raise /\ held' = left /\ proc' = Cleared /\ UNCHANGED survived

\* letta deletes its agents one by one and clears its map at the end; a deletion that
\* fails, the last one too, may have taken effect.  An agent that the server no
\* longer has cannot be deleted.
ResetLetta ==
    \/ /\ proc.agents \subseteq ext.agents
       /\ ext' = [ext EXCEPT !.agents = @ \ proc.agents]
       /\ ResetReturns({x \in held : x.space \notin proc.agents})
    \/ \E gone \in SUBSET (proc.agents \cap ext.agents) :
         /\ proc.agents # {}
         /\ ext' = [ext EXCEPT !.agents = @ \ gone]
         /\ held' = {x \in held : x.space \notin gone}
         /\ Raise /\ UNCHANGED <<proc, survived>>

\* cognee prunes the data, then the grants; it logs a prune that did not complete and
\* goes on.  The schema is created again before the process forgets, and that may fail.
ResetCognee ==
    \E left \in {{}, held} :
      /\ ext' \in {ext} \cup IF left = {} THEN {[ext EXCEPT !.acl = {}]} ELSE {}
      /\ \/ ResetReturns(left)
         \/ Raise /\ held' = left /\ UNCHANGED <<proc, survived>>

\* cognee-rs: rmtree ignores errors, but mkdir fails if the root is still there.
ResetCogneeRs ==
    /\ UNCHANGED ext
    /\ \/ ResetReturns({x \in held : x.space[2] # proc.root})
       \/ Raise /\ UNCHANGED <<held, proc, survived>>

\* akka-fluree takes a new name for its ledger and creates it.
ResetAkka ==
    /\ UNCHANGED ext
    /\ \/ ResetReturns(held)
       \/ Raise /\ proc' = Cleared /\ UNCHANGED <<held, survived>>

Reset ==
    /\ clock.reset < MaxResets /\ (ready => Seeded)
    /\ clock' = [clock EXCEPT !.reset = @ + 1] /\ UNCHANGED adapter
    /\ CASE adapter = "mem0"      -> ResetMem0
         [] adapter = "graphiti"  -> ResetGraphiti
         [] adapter = "letta"     -> ResetLetta
         [] adapter = "cognee"    -> ResetCognee
         [] adapter = "cognee-rs" -> ResetCogneeRs
         [] OTHER                 -> ResetAkka
-----------------------------------------------------------------------------
(* remember *)

\* seed passes the dates to a system that claims temporal, and what a memory
\* supersedes to the others.
Given(m) == IF "temporal" \in Claims THEN [m EXCEPT !.supersedes = "none"]
            ELSE [m EXCEPT !.window = Open]

\* What an adapter cannot express: it raises Unsupported.
Inexpressible(m) ==
    \/ m.nonce # "none" /\ adapter \in {"mem0", "cognee", "cognee-rs"}
    \/ adapter = "cognee-rs" /\ (m.window # Open \/ m.from # {} \/ m.supersedes # "none")

\* letta creates the agent of a principal when it is first addressed; the server
\* numbers its agents and gives no number twice.
NewAgent(p) == <<p, ext.made>>
Knows(p) == IF Agents(p) # {} THEN proc ELSE [proc EXCEPT !.agents = @ \cup {NewAgent(p)}]
Serves(p) == IF Agents(p) # {} THEN ext
             ELSE [ext EXCEPT !.agents = @ \cup {NewAgent(p)}, !.made = @ + 1]

\* A nonce is a triple of its ledger.
Nonce(m) == <<m.nonce, proc.ledger>>
\* A wrong variant: the nonce is claimed without a condition.
Claim_Unguarded(m) == TRUE
\* The statement inserts nothing if the nonce is there already.
Claim(m) == m.nonce = "none" \/ Nonce(m) \notin ext.nonces

\* A wrong variant: all datasets of the operator.
Shared_All(p) == {Dataset(p, FALSE), Dataset(p, TRUE)}
\* The operator's shared dataset, and it alone, is granted to the analyst, after
\* the first write of the operator that finds it.
Shared(p) == {Dataset(p, FALSE)}
Grants(m, stored) == /\ m.owner = "operator" /\ ~ proc.granted
                     /\ \E x \in stored : x.space = Dataset(m.owner, FALSE)

\* What the system holds, and what else it knows, once the write took effect.
Stored(m) ==
    LET space == IF adapter = "letta" /\ Agents(m.owner) = {} THEN NewAgent(m.owner)
                 ELSE Space(m.owner, m.private)
    IN IF adapter = "akka-fluree" /\ ~ Claim(m) THEN held ELSE held \cup {Item(m, space)}
Noted(m) ==
    CASE adapter = "letta" -> Serves(m.owner)
      [] adapter = "akka-fluree" /\ m.nonce # "none" -> [ext EXCEPT !.nonces = @ \cup {Nonce(m)}]
      [] adapter = "cognee" /\ Grants(m, Stored(m)) ->
            [ext EXCEPT !.acl = @ \cup {[to |-> "analyst", set |-> s] : s \in Shared(m.owner)}]
      [] OTHER -> ext

\* A write with a nonce is answered with whether the memory is there.
Answer(m) == m.nonce = "none" \/ \E x \in Stored(m) : x.m.id = m.id /\ x.space = Space(m.owner, FALSE)

RememberReturns(m) ==
    /\ held' = Stored(m) /\ ext' = Noted(m) /\ ready' = TRUE
    /\ written' = written \cup {m} /\ heard' = NothingHeard /\ UNCHANGED <<forgotten, declined>>
    /\ accepted' = IF m.nonce # "none" /\ Answer(m) THEN Append(accepted, m.nonce) ELSE accepted
    /\ proc' = CASE adapter \in {"mem0", "graphiti"} -> [proc EXCEPT !.ids = @ \cup {m}]
                 [] adapter = "letta"  -> Knows(m.owner)
                 [] adapter = "cognee" -> [proc EXCEPT !.granted = @ \/ Grants(m, Stored(m))]
                 [] OTHER -> proc

\* It fails: before anything was stored, in between, or after it took effect.
RememberFails(m) ==
    /\ Raise
    /\ \/ UNCHANGED <<held, ext, proc>>
       \/ held' = Stored(m) /\ ext' \in {Noted(m)} \cup (IF adapter = "cognee" THEN {ext} ELSE {})
          /\ proc' = IF adapter = "letta" THEN Knows(m.owner) ELSE proc
       \/ adapter = "letta" /\ ext' = Noted(m) /\ proc' \in {proc, Knows(m.owner)} /\ UNCHANGED held

\* A scenario runs under the capabilities that its case requires.
Required(m) == /\ m.nonce # "none" => "replay-protection" \in Claims
               /\ m.from # {} => "derived-tracking" \in Claims
               /\ m.owner = "analyst" => "isolation" \in Claims
Turn(m) == IF Seeded
           THEN Required(m) /\ \E scenario \in Scenarios :
                    m \in scenario /\ written \subseteq {Given(n) : n \in Range(Seeds) \cup scenario}
           ELSE m = Seeds[Cardinality(written) + 1]

Remember(memory) ==
    LET m == Given(memory) IN
    /\ ready /\ m \notin written /\ Turn(memory) /\ UNCHANGED <<adapter, clock, survived>>
    /\ IF Inexpressible(m)
       THEN /\ ready' = FALSE /\ declined' = declined \cup {memory} /\ heard' = NothingHeard
            /\ UNCHANGED <<held, ext, proc, written, forgotten, accepted>>
       ELSE RememberReturns(m) \/ RememberFails(m)
-----------------------------------------------------------------------------
(* recall *)

\* By what path cognee reads is its own affair too.
Recall(p) ==
    /\ ready /\ Seeded /\ UNCHANGED <<adapter, held, clock, survived>>
    /\ \/ /\ heard' = [by |-> p,
                       items |-> IF adapter = "letta" /\ Agents(p) = {} THEN {} ELSE Discloses(p)]
          /\ ready' = TRUE /\ UNCHANGED <<written, forgotten, accepted, declined>>
          /\ IF adapter = "letta" THEN proc' = Knows(p) /\ ext' = Serves(p) ELSE UNCHANGED <<proc, ext>>
       \/ /\ Raise
          /\ \/ UNCHANGED <<proc, ext>>
             \/ adapter = "letta" /\ ext' = Serves(p) /\ proc' \in {proc, Knows(p)}
-----------------------------------------------------------------------------
(* forget, improve, restart *)

\* What an answer of true promises to be gone.
Promised(m, id) == m.id = id \/ ("derived-tracking" \in Claims /\ id \in m.from)
Forgotten(ok, id) == /\ forgotten' = IF ~ ok THEN forgotten
                                      ELSE forgotten \cup {m \in written : Promised(m, id)}
                     /\ ready' = TRUE /\ heard' = NothingHeard
                     /\ UNCHANGED <<written, accepted, declined>>

\* mem0 asks its table for the store's identifier, whoever calls; graphiti asks
\* for the caller's.  A failure comes before the deletion or after it.
ForgetByTable(id, p) ==
    LET known == {m \in proc.ids : m.id = id /\ (adapter = "graphiti" => m.owner = p)}
        left  == {x \in held : ~ (x.m \in known /\ x.at = clock)}
    IN /\ adapter \in {"mem0", "graphiti"} /\ UNCHANGED <<proc, ext>>
       /\ \/ /\ held' = left /\ Forgotten(known # {}, id)
          \/ /\ known # {} /\ Raise /\ held' \in {held, left}

\* Two transactions: the fact, then what is derived from it.
\* A wrong variant: the second transaction matches nothing.
Derived_Never(id) == {}
Tombstoned(ids) == {[x EXCEPT !.dead = @ \/ (x.space = Here /\ x.m.id \in ids)] : x \in held}
Derived(id) == {x.m.id : x \in {y \in held : y.space = Here /\ id \in y.m.from}}
ForgetAkka(id, p) ==
    LET first  == Tombstoned({id})
        second == Tombstoned({id} \cup Derived(id))
    IN /\ adapter = "akka-fluree" /\ UNCHANGED <<proc, ext>>
       /\ IF p # "operator"
          THEN Forgotten(FALSE, id) /\ UNCHANGED held
          ELSE \/ /\ held' = second /\ Forgotten(TRUE, id)
               \/ Raise /\ held' \in {held, first, second}

\* The agent confirms when its turn ends, whatever it did with its memory.
ForgetLetta(id, p) ==
    /\ adapter = "letta" /\ proc' = Knows(p) /\ ext' = Serves(p)
    /\ held' \in {held, {x \in held : ~ (x.m.id = id /\ x.space \in Agents(p))}}
    /\ Forgotten(TRUE, id) \/ Raise

Forget(id, p) ==
    /\ ready /\ Seeded /\ "forget" \in Claims /\ UNCHANGED <<adapter, clock, survived>>
    /\ ForgetByTable(id, p) \/ ForgetAkka(id, p) \/ ForgetLetta(id, p)


\* One guarded transaction of the ledger: what it replaces, and what it did is
\* read back.  A retry with the same key changes nothing.
Job(key) == <<key, proc.ledger>>
Replaced(m, id) == Tombstoned({id}) \cup {Item(m, Space(m.owner, FALSE))}

Improve(id, digest, key) ==
    LET runs == Exists(id) /\ digest = id /\ Job(key) \notin ext.jobs
        did  == IF runs THEN Replaced(Replacement, id) ELSE held
        jobs == IF runs THEN ext.jobs \cup {Job(key)} ELSE ext.jobs
    IN /\ ready /\ Seeded /\ "provenance" \in Claims
       /\ heard' = NothingHeard
       /\ UNCHANGED <<adapter, clock, survived, proc, written, forgotten, accepted, declined>>
       /\ \/ held' = did /\ ext' = [ext EXCEPT !.jobs = jobs] /\ ready' \in BOOLEAN
          \/ UNCHANGED <<held, ext>> /\ ready' = FALSE

\* A new client over the same store; it may fail to come back.
Restart ==
    /\ ready /\ Seeded
    /\ ready' \in IF adapter \in {"akka-fluree", "cognee-rs"} THEN {TRUE} ELSE BOOLEAN
    /\ heard' = NothingHeard
    /\ UNCHANGED <<adapter, held, ext, proc, clock, survived, written, forgotten, accepted, declined>>

AdaptersNext ==
    \/ NewProcess \/ Reset \/ Restart
    \/ \E m \in Memories : Remember(m)
    \/ \E p \in Range(Principals) : Recall(p)
    \/ \E m \in Range(Seeds), p \in {"operator", "analyst"} : Forget(m.id, p)
    \/ \E m \in Memories : Improve(Replacement.supersedes, m.id, "job")

AdaptersSpec == AdaptersInit /\ [][AdaptersNext]_adapterVars
-----------------------------------------------------------------------------
(* Properties *)

\* What recall can disclose was written since the last reset.  The exceptions
\* are exact: mem0 and cognee, whose reset returns although the system kept its
\* contents, and graphiti over files that an earlier process left, because its
\* groups are numbered from 1 again (reset).
DisclosesFresh ==
    \A x \in heard.items : x.at # clock =>
        survived /\ (adapter \in {"mem0", "cognee"}
                     \/ (adapter = "graphiti" /\ x.at.process # clock.process))

\* A system that claims isolation discloses nothing to a principal outside the
\* organization that it did not write itself; one that claims clearance, and the
\* ledger's filter, disclose no private memory to the analyst.
BoundaryHolds ==
    "isolation" \in Claims => \A x \in heard.items :
        /\ heard.by = "outsider" => x.m.owner = "outsider"
        /\ heard.by = "analyst" /\ ("clearance" \in Claims \/ adapter = "akka-fluree") =>
              ~ x.m.private

\* A memory whose forget was answered with true is not disclosed again in
\* the same case, and in the ledger nothing that was derived from it,
\* although fact and derivations go in two transactions.  letta answers true
\* whatever its agent did, and a memory that survived a reset is another one.
ForgetIsHonest ==
    adapter # "letta" => \A x \in heard.items : x.at = clock => x.m \notin forgotten

\* Within one ledger a nonce is accepted once, and a memory and its replacement
\* are never current together, whatever failed (remember, improve).
LedgerGuards ==
    /\ \A i, j \in DOMAIN accepted : accepted[i] = accepted[j] => i = j
    /\ adapter = "akka-fluree" /\ Exists(Replacement.id) => ~ Exists(Replacement.supersedes)

\* What a case wrote is within reach of those it was written for until a forget or
\* an improve takes it away: of its owner, and of the analyst where the operator
\* shares it.  The process remembers where it wrote and what it granted, the system
\* keeps the grant and the memory, and a reset that fails half way may part the two.
SharedWith(m, p) ==
    m.owner = p \/ (/\ p = "analyst" /\ m.owner = "operator" /\ ~ m.private
                    /\ adapter \in {"mem0", "cognee", "akka-fluree"})
StaysWithinReach ==
    \A m \in written \ forgotten :
        /\ heard.by # "nobody" /\ SharedWith(m, heard.by) /\ m.nonce = "none"
        /\ m.id = Replacement.supersedes => ~ Exists(Replacement.id)
        => \E x \in heard.items : x.m = m /\ x.at = clock

\* "[An adapter] claims only capabilities its system actually enforces, and
\* declares the rest unsupported" (adapters/README.md:18-19): what it claims is
\* measured, so the seeding of a case is never declined.
ClaimedIsMeasured == declined \cap Range(Seeds) = {}
=============================================================================
