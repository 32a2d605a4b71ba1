# Verification of the adversarial-cognition benchmarks

This directory holds the TLA+ development kept beside the adversarial-cognition
repository: MARCIANA-ADVERSARIAL (v1, v2 and the agent tracks), the capability
and catalog benchmarks of the book, their reference backends, and the drivers
that run cases against real systems.

## 1. Inventory

| Part | Source | State | Operations | Talks to |
|---|---|---|---|---|
| Reference vault | `adversarial_cognition/backend.py` | memories by id, spent (did, nonce) pairs, decisions by idempotency key | remember, recall, improve, forget, restart | called by the cases, by the authenticated backend |
| Identities, authenticated backend | `identity.py`, `backend_v2.py` | registry records, credentials, a vault | register, authenticate, the four operations behind a credential, restart | wraps the vault |
| Cases and scoring | `cases.py`, `cases_v2.py` | none | run_case: a scripted sequence of operations and an evaluation | vault, report |
| Report | `report.py`, `metrics.py`, `tracks.py`, `metadata.py` | none | hard gates, receipt mismatches, quality, overall status | runner |
| Runner | `run_benchmark.py`, `adapters.py` | none, child processes | execute every system, parse its rows, build the report | adapters as processes |
| Adapter driver | `adapters/protocol.py`, `protocol_v2.py` | the system under test | supported/unsupported rows, reset, seed, scenario, evaluate, three attempts per case; v2 preparation | a memory system |
| System adapters | `adapters/{akka_fluree,letta,cognee,cognee_rs,graphiti,mem0}` | bridges to live systems | remember, recall, improve, forget, reset, restart | external servers |
| Agent harness | `agent_harness/*`, `adapters/agent_backends/*` | a transcript per operation, a backend store | provision, seed, operation loop with bounded turns and transcript, scenario | a chat model, a tool backend |
| Capability Guard | `docs/book/code/capability/capability_adversarial/backend.py` | epoch, revoked ids, audit log | mint, attenuate, revoke, revoke_all, reveal, declassify, invoke, request, restart | called by its cases |
| Capability adapters | `docs/book/code/capability/adapters/*` | external policy engines | translate a request to OPA, OpenFGA, SpiceDB, Cedar, Biscuit, UCAN, typesec | external engines |
| ReferenceCatalog | `docs/book/code/catalog-provenance/catalog_provenance/backend.py` | per table metadata pointer, receipt chain, tombstones; outbox, lineage, idempotency | create, commit (compare and swap), scan, tombstone, replay, restart | called by its cases and its driver |
| Catalog driver | `docs/book/code/catalog-provenance/adapters/*`, `adapters.py`, `cases.py`, `report.py` | the system under test | preflight, cases, rows | Iceberg REST catalogs |
| catalog-bench | `docs/book/code/catalog-bench/crates/*` | counters per writer, a table in a live catalog | warm-up, sequential and concurrent commits, scans, a best-effort driver | a live catalog |
| Corpora, rendering, scripts, book | `public_loaders.py`, `corpora.py`, `corpus.py`, `render_results.py`, `assemble_comparative.py`, `scripts/`, `docs/` | files | load, hash, render | none |

`docs/book/code/cognition` is a vendored copy of the top-level packages and is
not modelled a second time.

### Interactions

- Except for the writers of the commit bench, which are concurrent tasks, everything
  is called by one thread of one process at a time. What interleaves elsewhere is
  the *order of requests* of several callers (the cases and the runner may call in
  any order), restarts between requests, and, for the drivers, the failures of an
  external system between and inside its calls.
- The cases call the backends directly; under v2 they go through
  `AuthenticatedBackend`, which looks the caller up and calls the same core.
- The runner starts an adapter as a process, writes one JSON request to it and
  reads one JSON payload; the adapter driver replays the cases call by call.
- The agent track has a model in the middle: the harness starts an operation, the
  model asks for tools, the backend answers them, the harness judges the result.
- The guard and the catalog stand alone, each with cases of its own; the catalog's
  runner starts one adapter process per real catalog, which replays the cases.
- The benches of catalog-bench are processes that a driver starts one after the
  other. They share an object store and a catalog, and with these a past.

### What is hard here

| Behaviour | Where | Properties |
|---|---|---|
| replay and retry, also across restarts | vault, ledger of akka-fluree, catalog, agent backend | OnceSpec, SupersessionIsOnRecord, LedgerGuards, KeyedOnce, NeverReplayed |
| long sequences of legal calls that meet an illegal state | vault lifecycle, chains of attenuations | RetiredNeverRecalled, CurrentEndsForAReason, WithinOrigin, UseIsLicensed |
| a stale value used later: pointers, table handles, capabilities, registrations, caches | catalog, its driver, guard, registry, cache-scan | NoLostUpdate, HonestCatalogIsClean, DeadStaysDead, DescendantFallsWithMint, RegistryBounds, CacheAddsNothing |
| several structures changed by one operation, restarts between operations | catalog, table histories | HeadProvesTable, EvidenceIsDurable, HistorySpec |
| an operation of two steps that fails between them | adapters, write-data, read-write | ForgetIsHonest, StaysWithinReach, RecordedFileExists |
| what one case leaves for the next | driver, adapters, agent track | FreshStart (twice), DisclosesFresh |
| credit that was not earned | driver, agent track, catalog driver, runner | ReplayCreditIsEarned, CreditNeedsAuthentication, ForgetCreditIsReal, VoidedNeverCredited, NoCreditForLostUpdate, RetryCreditIsEarned, CreditIsOwn, PassIsEarned |
| processes that fail, hang, or print too much, too little or twice | runner, catalog runner | ExitIsTrue, DocumentIsSound, TimeoutIsReported, RunEnds |
| systems that never work | driver | Completes |
| concurrent writers, a deadline with requests in flight | commit bench | FirstRunMeasuresCommits, CountsAreComplete |
| who may see what, in systems that were not built for it | adapters | BoundaryHolds |

PROJECT.json lists each hazard at its line, with the properties that cover it or
the reason none does.

## 2. Modules

| Module | Models | Extends or instantiates |
|---|---|---|
| `Vault` | `adversarial_cognition/backend.py` | instantiates `OncePerToken` |
| `OncePerToken` | what a vault promises of tokens and keys; implemented by `Vault` | |
| `AuthVault` | `identity.py`, `backend_v2.py` | extends `Vault`, implements it |
| `Guard` | `capability_adversarial/backend.py` | |
| `Catalog` | `catalog_provenance/backend.py` | instantiates `TableHistory` |
| `TableHistory` | append-only histories of tables; implemented by `Catalog` | |
| `Driver` | `adapters/protocol.py`, `protocol_v2.py`, expectations of `cases.py` | |
| `Adapters` | the six system adapters of `adapters/` | |
| `Runner` | `run_benchmark.py`, `adversarial_cognition/{adapters,report,metrics,tracks}.py`, `render_results.py` | |
| `AgentTrack` | `agent_harness/`, `adapters/agent_backends/` | |
| `CatalogDriver` | the catalog benchmark's `run_benchmark.py`, `adapters.py`, `report.py`, `adapters/` | |
| `CatalogBench` | the crates `driver`, `commit`, `write-data`, `cache-scan`, `rust-vs-jvm`, `read-write` | |
| `VaultProofs` | theorems about `Vault` and `AuthVault` | extends `AuthVault` |
| `RunnerProofs` | theorems about `Runner` and `Adapters` | extends both |
| `GuardProofs`, `CatalogProofs`, `DriverProofs`, `AgentTrackProofs`, `CatalogDriverProofs`, `CatalogBenchProofs` | theorems | the module they are named for |
| `MCVault`, `MCAuthVault`, `MCGuard`, `MCCatalog`, `MCDriver`, `MCAdapters`, `MCRunner`, `MCAgentTrack`, `MCCatalogDriver`, `MCCatalogBench` | small instances | the module they are named for |

Operators whose name ends in a word after an underscore (`Refuse_StoresFirst`,
`Reset_OldVault`) are wrong variants of the definition that follows them. They
are used by no specification; replacing the definition by its variant makes TLC
report the property that the variant is there to break.

### Vault

State: `memories` (the dictionary; an identifier without memory is `NoMemory`),
`nonces` (spent `(did, nonce)` pairs), `idempotency`. Actions: `Remember`,
`Recall`, `Improve`, `Forget`, each with every refusal of the method in the
order of its early returns (`RememberError`, `RecallError`, `ImproveError`,
`ForgetError` give the reason, `Refuse` the step), and `Restart`. `_claim` is
`Claim`: it spends the nonce before anything is authorized. `answer` is what the
last request returned. `served`, `commits` and `retired` are history variables
that the code does not have: they count what was let through, and remember what
was taken out of use. `seed()` is the initial state, a constant.

A tenant and a space are one value, the scope; a text is a set of words and a
length; digests and receipts are injective. Results are ranked as the code ranks
them, by score and then by identifier.

The abstract specification `OncePerToken` knows only tokens, keys and contents.
`OnceSpec` states that the vault implements it, with `nonces`, `idempotency` and
`memories` for its variables.

### AuthVault

Adds `records` (the registry) and `access`. `Register` stores a record under its
own did; `Reject` refuses a credential and changes nothing in the core; `Serve`
is any request of the vault made with the attributes of the caller's *present*
record; `AuthRestart` restarts the core and keeps the registry. `CoreSpec` is the
refinement: the authenticated vault implements the vault.

### Guard

State: `policy`, `revoked`, `minEpoch`, `now`, `audit`, `count`, one variable for
each durable field of the engine, and `sealed`, the bodies of capabilities that
carry a valid seal. A caller may present any capability it was ever given, or
none (`Presented`). Actions: `GrantPolicy`, `Tick`, `Mint`, `Attenuate`,
`Revoke`, `RevokeAll`, `Reveal`, `Declassify`, `Invoke`, `RequestUnknownFields`
and `Restart`. `origin` is history: the mint an identifier descends from, and
what policy allowed then.

### Catalog

State: `tables`, `idempotency`, `receipts` and the logs `audit`, `outbox`,
`lineage`. Actions: `Create`, `Commit` (the size of the update and of the policy
text, `BadText`; then idempotency, existence and tombstone, then the
compare-and-swap, in the code's order), `Scan`, `Tombstone`, `Restart`. A commit may assert any pointer that was ever handed out
(`Seen`), of either table: this is how slow writers are modelled. The hash of a
receipt is the place of its body in `receipts`.

The abstract specification `TableHistory` is one append-only log per table.
`HistorySpec` maps each table to the chain of receipts that ends at its head.

### Driver

State: `phase`, `posture` (capabilities in force and the probe's verdict), `rows`,
`attempt`, `k` (the next call of the case), `answers`; and of the external system
`store` and `spent`. `raised` and `refused` are history: that a call of the attempt
failed, and which writes of the corpus the system turned down. A case is the sequence
of calls `reset`, the seed, the scenario (`Plan`). A call returns (`Return`), or raises (`Raise`) before or after
it took effect; `Unsupported` declines the case, any other exception starts the
next attempt, and the scenarios' `recall` catches what is not `Unsupported`.
`Prepare` is the v2 preparation with its probe, `Crash` an exception in it, which
nothing catches. Systems differ in what they claim, what they cannot express and
whether they authenticate. A `remember` may be refused at any time: a refused
write of the corpus is ignored (protocol.py:141-147), a refused write of a scenario
ends it with `Outcome(False)` (`Needed`, protocol.py:206-207, 215-216). What `recall`,
`improve` and `forget` answer is left open, so the properties hold of the driver and
not of one system. The reset of
the modelled systems works; what a reset leaves behind is the subject of `Adapters`.

### Adapters

The other side of the driver: what each adapter remembers in its own process
(`proc`: mem0's and graphiti's table of identifiers, graphiti's generation, the
bridge's map of agents, whether cognee has made its one grant, the root of cognee-rs,
the name of the ledger), what the system stores (`held`) and what else the system
knows (`ext`: agents, grants, nonces and jobs). One action per call of the
adapter's interface, with a disjunct for each place where the system can fail:
before anything happened, in between, or after it took effect. `Reset` has a
definition for each adapter, since each goes wrong in a way of its own: the letta
bridge deletes agent by agent, and any deletion may take effect and lose its answer,
the last one too (bridge.js:103); cognee's prune may remove the grant while the
process still believes in it (`proc.granted`, a stale belief until the reset returns). The
driver is reduced to what it owes an adapter: a reset before a case and after an
exception, every memory at most once, and no call beyond the claims. `NewProcess`
is a later run of the benchmark over the same system. `ext.made` counts the agents
the letta server ever made, so that a new one is new. `recall` is modelled as all
that the system may disclose to the caller, so ranking plays no part.

### Runner

`Start` and `Usage` are the checks of `main`, `RunReference` and `RunExternal` the
entries of `execute_systems` (`Pending` is the part of its loop that is left), `Compare` the two further runs of the reference,
`Build` the report, the bound on strings and the exit status. `PinCorpus` and
`EditCorpus` move the manifest. A process ends in one of the ways of `Processes`;
`Malformed` and `Parsed` are the validation of its payload, in the order of the
code. The report on disk, `file`, survives the invocation. Rendering is a function
of the report: `Ranked`, `Cell`, `Section`, and the check for mixed tables,
`RenderRefused`. `truth` is history: what the processes really did.

### AgentTrack

`Start`, `Decline` and `Open` are the driver around a case. `Start` is the session
that `main` opens for the probe, `Open` the one of a case; both begin with a reset
(`Fresh`) and are followed by the harness's own writes, one step each (`WriteNext`): the
seed, and for a case what its scenario writes first (`Opening`). Nobody looks at what
these writes answer (driver.py:132-138), so `refused` remembers it as history. `Ready`
begins the operation, `Respond`, `Dispatch`, `Answer`, `Overrun` and `TransportFails` are
its loop. The model is external: in every turn it calls any tools, answers anything,
or cannot be reached. `Garbled` is a response without the expected shape: the loop
catches exceptions of the transport only (loop.py:99, 109-111), and the process ends.
A backend is memfs (one flat store), marciana (a vault with its nonces, reduced to
what the tools reach), or one that is not of the repository; the two of the
repository are in memory and reliable, any other may refuse a write or a delete and
raise before or after its effect (`Outcomes`). In a tool call an exception becomes an
answer, elsewhere it ends the process (`BackendRaises`). `Verified` is the look at the
store by which forget-derived is judged after the model is done.

### CatalogDriver

The runner's actions are `Reference`, `Unavailable`, `Launch`, `AdapterFails`,
`Collect` and `Report`; the adapter's are one per call (`Create`, `Point`, `Commit`,
`KeyedCommit`), `Raises` for a call that fails, `Skip`, `Decline` and `Judge` for the
end of a case. `Script` lists the calls of a scenario, `Correct` is what it returns.
`witness` is the adapter's table of kept handles, the piece of state the
compare-and-swap cases stand on. The catalog may or may not check the base of a
commit; it may honour, ignore or merely echo idempotency keys, keep the keys of each
table apart or not (`scope`), and leave the metadata-location out of its answers
(`names`). Every keyed commit of every case and run is sent under the one key job-k
(adapters/protocol.py:110, 119): `remembered` is the receipt that a catalog holds for
it, at first that of an earlier run or none. A catalog with a key for each table
forgets it with the new table of a case (`Create`). A keyed call that fails may have
left the key behind (`Keeping`). `lost` and `effects` record what the catalog really did.

### CatalogBench

The driver (`Invoke`, `Spawn`, `SpawnFails`, `Exit`) runs one bench after the other.
A bench is a sequence of steps, `step` says where it is and `n` counts within it:
`Setup`, `SerialCommit`, `Send`, `Receive`, `Deadline` and `Join` for the commit bench;
`WarmPut`, `Put` and `Record` for the benches that write; `Dataset`, `List`, `Scan` and
`Jvm` for those that read; `Roundtrip` for read-write. `Breaks` is the `?` of any await
or the end of the process, at any step. `Interfere` is another process that
rewrites a file. A file is its number of rows; `Answers` are the outcomes of a
request, with the lost answer among them.

## 3. Runs

| Run | Shows | Bounds |
|---|---|---|
| `vault_lifecycle` | correction, derivation, improvement, forgetting and restarts in every order, by a caller who may and one of another scope: effects happen once per nonce and per key, what is retired stays out of the answers, the vault implements `OncePerToken` | 4 identifiers, 2 callers, 3 fresh nonces and one the operator has spent, 1 key, 2 digests, texts and queries at and above the limit |
| `auth_registry` | good, foreign and forged credentials while callers are registered again and the vault restarts | 2 callers and an unknown did, 3 records, 2 nonces |
| `guard_authority` | leases, revocations, epochs and restarts over two resources: authority only narrows, falls with its mint and does not come back | a mint and a descendant (2 identifiers), 2 ticks of the clock, leases of 2 beside the parent's own, 1 epoch, policies with the low or the high level, declassification and a tool |
| `catalog_chains` | commits with pointers of any age, retries, drops and recreation, restarts: chains, evidence, keys, and the implementation of `TableHistory` | 2 tables, 2 callers, 2 updates and 2 policy texts (one of each oversized), 1 key, 2 creations of a table, 3 transitions |
| `driver_cases` | all 18 cases in 9 requests of 2, five systems that refuse and fail anywhere | 3 attempts, a corpus of 3, answers of up to 3 identifiers of which 2 are kept |
| `driver_noise` | finding 1 | as `driver_cases` |
| `runner_reports` | both versions, every ending of two adapter processes, twelve payloads, four answers of the reference: a pass is earned, a row is the system's own, the exit status is true, the document is sound | 3 cases (with a gate of its own, of its category, without), 2 systems for each version, 1 invocation |
| `runner_timeout` | finding 2 | as `runner_reports` |
| `adapters_cases` | six adapters over systems that fail before, between and after: what a case can disclose and to whom, what an answered forget promises, the guards of the ledger, and that what was written stays within reach of those it is shared with | 3 memories of the corpus, 3 scenarios with one or two more, 2 resets, 2 processes |
| `agent_track` | 6 requests of two cases, four backends (one of them unreliable), a model that may do anything | 3 turns, a transcript of 3 tool results, at most 2 calls in a response, 2 identifiers of an answer |
| `catalog_adapters` | a stock catalog, and LakeCat of every kind that makes a difference to a key, with and without an earlier run; configured or not, their calls fail and their adapters hang | 6 cases, 2 failed or refused calls for each catalog (`MaxFaults`) |
| `bench_suite` | 7 sequences of invocations of the five benches, with lost answers, broken processes and another writer | 2 files, 2 rows, 2 writers with 2 requests each (`MaxSends`), counters of a writer that start 1 apart (`Stride`), 1 warm-up commit from counter 1 (`Warmups`, `WarmupBase`), 1 foreign write (`MaxOthers`) |

Why the bounds are enough. A vault property relates at most an identifier, what
it is derived from, and two requests under one key with a restart between them:
three nonces leave room for a correction or a derivation, an improvement and its
retry. A derivation of a capability is compared with its parent; two identifiers
make the step, and `MCGuard_chain.cfg`, beside the runs, does two of them. Two
transitions and a stale writer are the least lost update, and a third adds the
drop or the second history. A driver property relates two attempts at one case or
one case and the next; the third attempt is the one after which the driver gives
up. The least scenario of an adapter has a failed case, a reset and a case after
it, and the same in a second process. The counters of the commit bench start close
together so that two writers do reach the same number: with the distance of the
code the case would never happen within two requests. Two files tell the last
file from the one before it.

Bounds that are guards: `MaxIds`, `MaxTime`, `MaxEpoch` of Guard; `MaxCreates` and
`MaxEvents` of Catalog; `MaxResets` and `MaxProcesses` of Adapters; `MaxInvocations` of
Runner; `MaxFaults` of CatalogDriver; `MaxSends` and `MaxOthers` of CatalogBench, whose
`MaxRows` bounds what another process writes. The vault is bounded by its nonces,
since every request spends one. `MaxTurns`, `MaxTranscript`, `MaxIds` and `MaxRead` of
AgentTrack are limits of the code, made small. Symmetry is used for fresh nonces,
for the guard's resources, and for the tables and callers of `catalog_chains`, which no
definition tells apart; the properties of these runs are invariants and action
properties (a refinement without fairness is one), and no run with a liveness
property uses it.

`CHECK_DEADLOCK FALSE` is set where the system stops: `Driver`, `AgentTrack` and
`CatalogDriver` end with the last row or the report, `CatalogBench` with the last
invocation; `Runner` and `Adapters` stop when their bound is used up.

Fairness is assumed for two modules. `Driver`: weak fairness of its next-state
relation. The driver is a sequential process, and each of its calls returns or
raises, since clients and the runner bound them by timeouts. `CatalogDriver`: weak
fairness of the runner, nothing for the adapter or the catalog. The runner waits
with `subprocess.run` and a time limit, so it goes on whatever the adapter waits
for. The other modules are called by someone else and owe no progress.

### Configurations beside the runs

Fourteen further configurations answer questions that the runs leave out. Three hold:
`MCVault_boundary.cfg` (a refusal changes nothing, adjoining windows hand over
exactly: `RefusalChangesNothing`, `HandoverIsExact`; five kinds of callers, texts and
queries at and above the limit), `MCGuard_chain.cfg` (chains of three capabilities
over two resources) and `MCRunner_again.cfg` (the properties of `runner_reports` over
two invocations, so that the report of an earlier one is on disk, with fewer systems
and payloads). The others are refuted; section 5 has them.

## 4. Proofs

All theorems hold for every value of the constants that satisfies the module's
named assumption. The assumptions say what the constants are (sets of the right
kind, distinct null values) and the facts of the code that the models take as data:

- `VaultAssumption`, `DraftsAreFresh`: drafts and the memories of the seed are current
  (`Memory.state` has that default and no caller overrides it).
- `AdaptersAssumption`: the six adapters; identifiers of the corpus are distinct, the
  private memory is the operator's, the corpus sends no nonce and the replacement has an
  identifier of its own (adapters/protocol.py:30-46, the scenarios at 186-268).
- `GuardAssumption`, `CatalogAssumption`, `DriverAssumption`: ranges of the bounds and
  distinct null values; what is oversized is an update or a policy text.
- `RunnerAssumption`: no registered system is called marciana or registered twice,
  names have distinct places in the alphabet, the receipts gate is one of the
  categories', the reference answers every case.
- `CatalogDriverAssumption`: every catalog's adapter claims `commit` and none is called
  reference (run_benchmark.py:21), what a catalog may be like is of the four kinds
  of behaviour above, no case is named like a capability of the driver
  (cases.py:24-26, 188-206).
- `AgentAssumption`: identifiers have distinct places in the alphabet, memfs does not
  track what was derived (memfs_agent.py:31; only marciana does), the two backends of
  the repository are reliable, a response has at least one call (one without calls is
  an answer), what the harness writes is within the clearance of its writer, and forget-derived forbids the fact and its
  summary, both of which match the case's query and are open to the operator
  (cases.py:167, driver.py:55-63, 205-221).
- `SuitesAssumption` (of `Driver` and of `AgentTrack`): a request names at least one case;
  the runner sends the whole suite (adversarial_cognition/adapters.py:147).
- `OrderAssumption`: no catalog is called none.
- `BenchAssumption`: counters are natural numbers, writers and files finitely many.

TLC evaluates each on the instance of the run.

- **VaultProofs.** Neither `ServedOnce` nor `RetiredNeverRecalled` is inductive
  alone. `IInv` adds that the counter of a nonce says whether it is spent
  (`ServedIsSpent`), so a nonce that is not spent was never let through. One lemma
  per operation, on shared lemmas about refusals, claims and what recall may list.
  `SupersessionIsOnRecord`, `CurrentEndsForAReason` and `RefusalChangesNothing` (the last checked
  by `MCVault_boundary.cfg`) follow from the four ways out of a request: nothing but the
  nonce and the answer moves (`Idle`), or `Wrote`, `Improved` or `Forgot`, each with the
  answer that reports it. `HandoverIsExact` is a fact about windows alone.
  `ImplementsOncePerToken` maps every step to a step or a stutter.
  The authenticated vault implements the vault: `Register` and `Reject` are stutters,
  `Serve` is a request of an actor. What the vault promises is carried over from the
  vault's theorems and not proved a second time; for `RegistryBounds` the record that the
  registry holds now is the actor of the core's request.
- **GuardProofs.** `WithinOrigin` needs that identifiers are unique (otherwise
  `origin` would be overwritten) and that the order of grants is transitive
  (`ImpliedTransitive`); `RevokeAllIsTotal` needs that no capability carries an epoch
  that has not begun (`EpochsBegun`).
- **CatalogProofs.** `NoLostUpdate` needs more than the compare-and-swap: `Fresh` says
  that the receipts of a table created once all left from an older pointer and
  another head than the present ones, and `Bounded` that a new receipt is never
  an old one. `KeyedOnce` needs that a remembered receipt still exists.
  `CatalogKeepsHistory` is the refinement: `Chain` is a recursive function, so that it
  satisfies its equation at all is shown first (`TraceExists`, a smallest length without
  such a function; receipts name earlier ones, `Backward`). What is recorded later leaves
  the chains of earlier receipts (`TracesAgree`, a smallest receipt where they differ),
  also when the body was recorded before and gets the hash it had. Then a transition
  extends the history of its table by its receipt (`ContinuesTells`), a creation starts
  one again (`CreateTells`), and refusals, retries, scans and restarts stutter.
- **DriverProofs.** `Seeded` follows the corpus call by call, from reset to the first
  call of the scenario: the system holds what it accepted of it, and an exception on
  the way cannot get past it. `Authenticated` carries the posture of the preparation to every row; it needs
  that authorization is never one of two ways to support a case (`AskedIsHeld`).
  `ReplayInv` counts the answers of an attempt against the calls made since the corpus
  was there (`Heard`): a repeated attempt starts with no answers and a reset, so the two
  that a replay is credited for are of one attempt, and a first write that is refused
  was refused by a system that had not seen its nonce. The code credits both, and
  `ReplayCreditHolds` says no more; `ReplayWasTried` (section 5) would. `WorkLeft` is the largest number of steps
  that a run can still make: requested cases times attempts times calls of the longest
  case. `EveryStepCounts` shows that each step lowers it, `FinishedIsComplete` that a
  finished run has one row for each case in the order of the request (`InOrder`).
- **RunnerProofs, the runner.** `RunnerInv` says where each entry of the report comes
  from: from this invocation's process of that system (`Own`), with the number of
  mismatches from the two comparison runs (`Compared`), while the file on disk is the
  report of its invocation (`Recorded`). Without `Counted` (an invocation that runs has
  written nothing yet) the report of an earlier invocation could pass for this one's.
  `DocumentIsSound` needs that the rows of a table can be ranked at all: `Before` compares
  shares by cross multiplication, whose transitivity is a lemma of its own
  (`CrossOrder`), and `RankingExists` is an induction over the rows.
- **RunnerProofs, the adapters.** `AdaptersInv` gives each item the numbers of the process
  and of the reset under which it was written (`Stamped`) and says where a system
  keeps it (`Placed`): in a table, group, agent, directory or ledger that a later case does
  not ask for, or marked as survived. `DisclosesFresh` is then about numbers, and
  `BoundaryHolds` about places. `Gone` says that what was forgotten is removed or buried,
  `Ledger` that what the ledger of a case holds was written in it, that an accepted nonce
  is in it, and that nothing improved stands beside what it replaces. All of it is
  proved through every half-finished call. `Runner` and `Adapters` share no variable;
  one module extends both.
- **AgentTrackProofs.** `TrackInv` serves three theorems. `SpentWasCounted` says that
  the vault has seen no nonce beyond the count of requests, which every reset has
  to restore; `Probed` and `Working` carry the verdict of the probe from `Start` to the
  row, whatever turn the model is in. `CasesStartFresh` follows the harness's writes one
  by one: an unreliable backend may turn down any of them, a reliable one turns down
  none, which for the vault needs that each is within its writer's clearance and none is
  taken for a replay. `ForgetInv` adds that the store holds one memory of
  an identifier (`Shelved`), whatever the model writes: precedence is then a strict order
  of what matches, each matching memory has a place of its own in the ranking
  (`RankedShowsAll`), and what the harness is not shown is not there. `TrackAdvances`
  shows that a model cannot keep the track going: every step leaves fewer cases, or as
  many and fewer turns, or no answer to wait for, or fewer calls of the response and
  fewer writes of the harness. This is an order and not a number, since nothing bounds
  the calls of a response. `TrackIsComplete`: a *finished* track lost no case to a
  budget, a failed request or a final answer that is not one. A response without the
  expected shape, or a backend that raises outside of a tool call, ends the process
  and with it every row (`crashed`), and neither theorem says otherwise.
- **CatalogDriverProofs.** `CasStage` follows a compare-and-swap case call by call:
  both commits are made with the handle kept at the first, so an update is lost
  only if both were let through, and neither case credits that. `RetryStage` does the
  same for a keyed commit and its retry: `KeyedOnce` says what the first answer can be
  and that the catalog knows the key from then on, `KeyedTwice` that equal receipts of a
  catalog that names what it wrote mean one effect, unless it echoes them. No effect
  at all is left to a catalog that does not keep keys apart by table and knew job-k
  before (`OwnKeys`), as `RetryCreditIsEarned` says. `RestartStage` shows that
  no adapter comes past a restart. `RowsClean` is what these make of the rows of an honest
  catalog, and `HonestCatalogIsClean` of its gates. `RunnerComesToItsEnd`: the runner owes
  two steps to each catalog and one to the report; each of its steps lowers that number
  and no adapter raises it. It needs that what is requested is a list
  at all, which is a smallest-number argument like the one for `Chain` (`ListsExist`).
- **CatalogBenchProofs.** `RecordedFileExists` needs that the file of the commit to
  come was written (`Written`), which needs that the counter stays below the number
  of files (`Counting`), through every process that breaks off. One lemma says what
  a request does to a table, one what a write does to the store.
  `MeasureInv` serves the other three. `Accounted`: a request is counted or still waited
  for, hence the sum of the tally when all writers have joined. `OwnKeys`: on a table it
  was the first to write to, the bench knows every key of the catalog; a first run
  meets none of them again because the scopes of the phases and writers differ, for any
  distance of their counters. `Cached`: what is cached of a file is what the store
  has, so every pass adds up to `Plain`. Sums are folds over sets; that equal terms have
  equal sums is proved by induction on the set.

Inductions over finite sets are made as an argument about a set of sets
(`EveryPart`), those over receipts as one about a smallest number (`FirstOf`), since the
library's induction theorems take an operator for parameter.

The type invariants, and invariants that the others rest on (`UniqueIds`,
`IssueIsLogged`, `RevokeAllIsTotal`, `ServedOnce`, `ChainLinked` and their like), are
proved in these modules and are not repeated in the runs.

Only model-checked: `Completes` and `RunEnds`, which are liveness properties under
fairness, and `StaysWithinReach` of the adapters. Of the arguments of the first two the
theorems above prove the descent and what holds at the end; that a step is enabled until
then, and that fairness makes it happen, is for TLC. The third needs an invariant of its
own, converse to that of `DisclosesFresh`: what was written and not taken away is where
its readers look, the grant included. It is checked through every half-finished reset
and write of two processes, and not proved.
Every other property of a run that passes is a theorem, the refinements of
`OncePerToken` and `TableHistory` among them. The properties that the code refutes
(section 5) have no theorem.

## 5. Findings

1. `driver_noise`. The scenarios' `recall` turns an infrastructure error into a
   denial, which is scored; the docstring of `_run_case` calls it noise and not a
   result.
2. `runner_timeout`. The handler that turns a timed-out adapter into an error raises a
   `TypeError` itself if the adapter wrote to stderr: `TimeoutExpired.stderr` is bytes.
   The rows of every system are lost, where the release document promises `error`.

### Further disagreements

Each of these is refuted by TLC with the configuration named.

| Configuration | Property | What the code does, and what is said of it |
|---|---|---|
| `MCVault_stale.cfg` | `StaleProposalRejected` | `improve` compares the digest and not the state, so a proposal against a superseded memory commits under a new key; docs/MARCIANA-ADVERSARIAL-v1.md:130: "A proposal bound to superseded evidence cannot commit" |
| `MCVault_lineage.cfg` | `ForgetReachesDerived` | `forget` reaches one step of derivation; the same document, 151-152: "the forgotten fact and everything derived from it disappear" |
| `MCGuard_audit.cfg` | `EveryDecisionAudited` | two refusals (capability backend.py:200, :244) return before the audit event; its header, line 26: "every authorization decision emits a durable audit event" |
| `MCCatalog_retry.cfg` | `RetryAnswersItsRequest` | the key is looked up alone, so other work under a used key gets the first answer and is not applied; catalog backend.py:147: "Exact idempotent retry" |
| `MCAdapters_declined.cfg` | `ClaimedIsMeasured` | cognee-rs cannot write the corpus' windows and links, so the seed of a case it claims is declined; adapters/README.md:18-19: an adapter "claims only capabilities its system actually enforces [...], and declares the rest unsupported" |
| `MCCatalogBench_engines.cfg` | `EnginesMatch` | rust-vs-jvm reports ready, and that both engines matched, without comparing their counts (main.rs:466; :370-371) |
| `MCCatalog_recreate.cfg` | `ReplacedIsStale` | a table that is dropped and created again starts from the pointer it started from before, so a writer who read it then commits over what came after; catalog backend.py:153: "a stale assertion loses" |
| `MCDriver_refused.cfg` | `ReplayWasTried` | a system that refuses the first write of a replay case is credited with refusing the replay, since `Outcome(False)` is what is expected (adapters/protocol.py:206-207, 215-216); adapters/README.md:27-28: "a claim it cannot back is a benchmark failure, not silent success" |
| `MCRunner_duplicate.cfg` | `EveryCaseOnce` | the parser compares sets of names: of a case that is reported twice the last row counts, and the system is executed; docs/MARCIANA-ADVERSARIAL-v1.md:240-243: a command that "fails to cover every case exactly once reports `error`" |
| `MCCatalogDriver_retry.cfg` | `RetryCreditIsOneEffect` | a keyed commit never moves the snapshot pointer that is compared (protocol.py:113), and the receipts alone decide: a catalog that echoes the first receipt and applies the update again is credited; so is one whose answers carry no metadata-location, since None equals None (lakecat/adapter.py:77), and one that knows the constant key job-k of an earlier case or run and applies nothing |
| `MCCatalogDriver_gate.cfg` | `GateMeansMisbehaviour` | a call that fails after the preflight is a wrong result and trips a gate (protocol.py:233); catalog_provenance/adapters.py:6-8: "a failing adapter is reported `error` — never converted into a pass or a fail" |

Smaller ones, seen while modelling and stated by no configuration: `improve` stores
a text of any length, only `remember` has the limit (backend.py:181); `seed` ignores
the answer of `remember` (protocol.py:141), so a system that refuses the private
memory cannot leak it (`FreshStart` of `Driver` holds of what was accepted); the agent
driver ignores the answers of its own writes in the same way (driver.py:132-138), and
one malformed response of the model, or a backend that raises outside of a tool call,
ends its process and loses the rows of all cases (loop.py:99, 109-111); the negative probe replaces the last character of a secret
by an x, which changes nothing if it is one (protocol_v2.py:114; `Driver` has such a
secret); the agent driver drops the loop's outcome (driver.py:159), so a failed
request may be scored as an abstention (`CreditIsAnswered` of AgentTrack says it
would not); the bridge's map keeps agents that a failed reset deleted, and every
later reset fails on them (letta/bridge.js:103); cache-scan takes an old data set by
its number of files, whatever their rows (main.rs:205); the bench driver drops the
printed report of a process that fails (main.rs:221).

## 6. Not modelled

- The scripted cases (`cases.py`, `cases_v2.py`, the capability and catalog cases):
  each is a fixed sequence of operations on an in-process backend, a single path
  that the repository runs. The operations are in the backends' modules, the
  expectations of v1 in `Driver` and `AgentTrack`.
- The capability benchmark's runner has the shape of the catalog's, which
  `CatalogDriver` models.
- The scenarios of governance surfaces in the catalog's driver, which no adapter of
  a real catalog claims.
- Capability adapters: stateless calls of token libraries and policy engines. What
  they decide is the library's.
- The token view of v2 and the attestation text; rendering of the other suites,
  corpora and loaders, scripts, containers and the book: text and files without
  state. Timings, percentiles as numbers and accuracies as texts are left out.
- The repository's backends have no concurrency inside, so no lock or memory order
  is modelled. Digests, seals and credentials are taken to be injective; guessing
  or breaking them is outside these models.
- What external systems find relevant, how engines scan, and how catalogs store:
  they are external, and their modelled behaviour is what the code in this
  repository can observe.
