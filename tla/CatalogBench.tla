---------------------------- MODULE CatalogBench ----------------------------
(***************************************************************************)
(* The catalog-bench suite: the driver runs its five benches one after the  *)
(* other, each a process of its own, against one object store and one       *)
(* Iceberg REST catalog (crates/driver, commit, write-data, cache-scan,     *)
(* rust-vs-jvm, read-write).                                                *)
(*                                                                          *)
(* The catalog, the store, the caching store and Spark are external.  A     *)
(* request may be refused, fail, or fail after it took effect; a process    *)
(* may end at every await; another process may rewrite the data.  A file is *)
(* its number of rows, timing and formatting are left out.                  *)
(***************************************************************************)
EXTENDS Naturals, Sequences, FiniteSets, FiniteSetsExt, SequencesExt

CONSTANTS
    Plans,          \* sequences of invocations of the driver, sequences of jobs
    Spaces, Parts,  \* the keys of the object store
    Writers,        \* the writers of the commit bench, numbers from 0
    Stride,         \* the counters of a writer start at w * Stride (10_000_000)
    WarmupBase,     \* the counters of the warm-up start here (1_000_000)
    Warmups, MaxSends, MaxOthers, MaxRows

\* What the driver can be asked for: at least a file, and every file has its key.
Runnable == [bench : {"commit", "write-data", "cache-scan", "rust-vs-jvm", "read-write"},
             files : {k \in Nat \ {0} : \A i \in 0 .. k - 1 : i \in Parts}, rows : Nat \ {0},
             rewrite : BOOLEAN, keyed : BOOLEAN, skip_jvm : BOOLEAN]

ASSUME BenchAssumption ==
    /\ {Stride, WarmupBase, Warmups, MaxSends, MaxOthers, MaxRows} \subseteq Nat
    /\ Writers \subseteq Nat /\ IsFiniteSet(Writers) /\ IsFiniteSet(Parts)
    /\ {"commit", "write-data", "warmup", "cache-scan", "read-write"} \subseteq Spaces
    /\ \A p \in Plans : p \in Seq(Seq(Runnable))

VARIABLES
    plan, jobs,     \* what is left of the plan and of this invocation
    results, exits, \* the outcomes of this invocation, the exit codes
    step, n,        \* where the running bench is, and its counter
    tally,          \* the answers to the commits of the bench
    pending, sent,  \* the request a writer waits for, and how many it sent
    over,           \* the deadline of the concurrent phase has passed
    listing,        \* the files the bench listed, with their sizes
    seen,           \* the rows that each pass over the data counted
    quiet,          \* no other process wrote since the bench began
    store, cache,   \* the object store, and the cache of the process
    catalog, keys,  \* the tables, and the idempotency keys the catalog keeps
    others          \* how often another process wrote

suiteVars == <<plan, jobs, results, exits>>
benchVars == <<step, n, tally, pending, sent, over, listing, seen, quiet>>
worldVars == <<store, cache, catalog, keys, others>>
vars == <<suiteVars, benchVars, worldVars>>

Job == Head(jobs)
DatasetOf(bench) == IF bench = "rust-vs-jvm" THEN "cache-scan" ELSE bench
Prefix == DatasetOf(Job.bench)
Files(prefix) == {f \in Parts : store[<<prefix, f>>] > 0}
NoFiles == [f \in Parts |-> 0]
NoTally == [ok |-> 0, conflict |-> 0, errors |-> 0, replayed |-> 0, rerun |-> FALSE]
-----------------------------------------------------------------------------
(* The driver *)

Init ==
    /\ plan \in Plans /\ jobs = <<>> /\ results = <<>> /\ exits = <<>>
    /\ step = "idle" /\ n = 0 /\ tally = NoTally /\ over = FALSE
    /\ pending = [w \in Writers |-> <<>>] /\ sent = [w \in Writers |-> 0]
    /\ listing = NoFiles /\ seen = <<>> /\ quiet = TRUE
    /\ store = [k \in Spaces \X Parts |-> 0] /\ cache = NoFiles
    /\ catalog = [t \in Spaces |-> [exists |-> FALSE, touched |-> FALSE, last |-> <<>>]]
    /\ keys = {} /\ others = 0

Invoke ==
    /\ step = "idle" /\ jobs = <<>> /\ results = <<>> /\ plan # <<>>
    /\ jobs' = Head(plan) /\ plan' = Tail(plan)
    /\ UNCHANGED <<results, exits, benchVars, worldVars>>

\* run_all fails when every bench failed; a single bench is the same with one.
\* No bench of the registry is a scaffold, so none is skipped.
Exit ==
    /\ step = "idle" /\ jobs = <<>> /\ results # <<>>
    /\ exits' = Append(exits, IF \A i \in DOMAIN results : results[i].outcome = "failed"
                              THEN "failure" ELSE "success")
    /\ results' = <<>>
    /\ UNCHANGED <<plan, jobs, benchVars, worldVars>>

Requests == MapThenSumSet(LAMBDA w : sent[w], Writers)
SparkRows == MapThenSumSet(LAMBDA f : store[<<Prefix, f>>], Files(Prefix))

\* A process that exits with an error is a failed bench, whatever it printed.
Ended(outcome, status, spark) ==
    /\ results' = Append(results,
           [bench |-> Job.bench, outcome |-> outcome, status |-> status, spark |-> spark,
            seen |-> seen', tally |-> tally', quiet |-> quiet,
            sent |-> Requests'])
    /\ step' = "idle" /\ jobs' = Tail(jobs) /\ UNCHANGED <<plan, exits>>
Failed(reason) == Ended("failed", reason, 0)
Ran(status) == Ended("ran", status, 0)
Continues(next) == step' = next /\ UNCHANGED suiteVars

First(bench) == CASE bench \in {"commit", "write-data"} -> "setup"
                  [] bench = "cache-scan"  -> "dataset"
                  [] bench = "rust-vs-jvm" -> "scan"
                  [] bench = "read-write"  -> "roundtrip"
FreshBench ==
    /\ n' = 0 /\ over' = FALSE /\ listing' = NoFiles /\ seen' = <<>> /\ quiet' = TRUE
    /\ pending' = [w \in Writers |-> <<>>] /\ sent' = [w \in Writers |-> 0]

\* A wrong variant: the cache of the bench before is used again.
Spawn_OldCache ==
    /\ step = "idle" /\ jobs # <<>> /\ Continues(First(Job.bench)) /\ FreshBench
    /\ tally' = NoTally /\ UNCHANGED worldVars
Spawn ==
    /\ step = "idle" /\ jobs # <<>> /\ Continues(First(Job.bench)) /\ FreshBench
    /\ tally' = NoTally
    /\ cache' = NoFiles /\ UNCHANGED <<store, catalog, keys, others>>
SpawnFails ==
    /\ step = "idle" /\ jobs # <<>> /\ FreshBench /\ tally' = NoTally
    /\ Failed("spawn") /\ UNCHANGED <<worldVars>>

\* The ? of an await that failed, or the end of the process.
Breaks ==
    /\ step # "idle" /\ FreshBench /\ tally' = NoTally
    /\ Failed("broken") /\ UNCHANGED worldVars
-----------------------------------------------------------------------------
(* Requests to the catalog *)

\* 409 answers a create of what exists, and both are well.
Setup ==
    /\ step = "setup" /\ catalog' = [catalog EXCEPT ![Job.bench].exists = TRUE]
    /\ tally' = [NoTally EXCEPT !.rerun = catalog[Job.bench].touched]
    /\ Continues(CASE Job.bench = "commit" -> "serial" [] Job.bench = "write-data" -> "warm" [] OTHER -> "put")
    /\ UNCHANGED <<n, pending, sent, over, listing, seen, quiet, store, cache, keys, others>>

\* A key the catalog knows is answered as before; else it commits, refuses, or the
\* answer is lost, before or after the commit.
Answers(key) ==
    {[answer |-> "error", applied |-> FALSE]} \cup
    IF key # <<>> /\ key \in keys THEN {[answer |-> "ok", applied |-> FALSE]}
    ELSE {[answer |-> "ok", applied |-> TRUE], [answer |-> "conflict", applied |-> FALSE],
          [answer |-> "error", applied |-> TRUE]}
Served(key, a, file) ==
    /\ catalog' = IF a.applied THEN [catalog EXCEPT ![Job.bench].touched = TRUE, ![Job.bench].last = file]
                  ELSE catalog
    /\ keys' = IF a.applied /\ key # <<>> THEN keys \cup {key} ELSE keys
Counted(a) ==
    [tally EXCEPT !.ok = @ + (IF a.answer = "ok" THEN 1 ELSE 0),
                  !.conflict = @ + (IF a.answer = "conflict" THEN 1 ELSE 0),
                  !.errors = @ + (IF a.answer = "error" THEN 1 ELSE 0),
                  !.replayed = @ + (IF a.answer = "ok" /\ ~ a.applied THEN 1 ELSE 0)]
-----------------------------------------------------------------------------
(* The commit bench: warm-up, sequential and concurrent phase *)

KeyOf(scope, counter) == IF Job.keyed THEN <<scope, counter>> ELSE <<>>
SerialKey(i) == IF i < Warmups THEN KeyOf(<<"warmup">>, WarmupBase + i)
                ELSE KeyOf(<<"sequential">>, i - Warmups)

\* Only the answers of the concurrent phase are counted, so the serial ones
\* leave of the tally the replays.
SerialCommit ==
    /\ step = "serial"
    /\ \E a \in Answers(SerialKey(n)) :
        /\ Served(SerialKey(n), a, <<>>)
        /\ tally' = [tally EXCEPT !.replayed = Counted(a).replayed]
        /\ UNCHANGED <<pending, sent, over, listing, seen, quiet>>
        /\ IF a.answer # "ok" THEN Failed("conflict or error") /\ n' = 0
           ELSE n' = n + 1 /\ Continues(IF n + 1 = Warmups + Job.files THEN "concurrent" ELSE "serial")
    /\ UNCHANGED <<store, cache, others>>

\* A wrong variant: the writers share a scope and rely on their counters.
Scope_Shared(w) == <<"concurrent">>
Scope(w) == <<"concurrent", w>>

\* The deadline is looked at before a request, never during one.
Send(w) ==
    /\ step = "concurrent" /\ ~ over /\ pending[w] = <<>> /\ sent[w] < MaxSends
    /\ sent' = [sent EXCEPT ![w] = @ + 1]
    /\ pending' = [pending EXCEPT ![w] = <<KeyOf(Scope(w), w * Stride + sent[w] + 1)>>]
    /\ UNCHANGED <<suiteVars, step, n, tally, over, listing, seen, quiet, worldVars>>

Receive(w) ==
    /\ step = "concurrent" /\ pending[w] # <<>>
    /\ \E a \in Answers(pending[w][1]) : Served(pending[w][1], a, <<>>) /\ tally' = Counted(a)
    /\ pending' = [pending EXCEPT ![w] = <<>>]
    /\ UNCHANGED <<suiteVars, step, n, sent, over, listing, seen, quiet, store, cache, others>>

Deadline ==
    /\ step = "concurrent" /\ ~ over /\ over' = TRUE
    /\ UNCHANGED <<suiteVars, step, n, tally, pending, sent, listing, seen, quiet, worldVars>>

\* A wrong variant: the counters are read when the time is over.
Joined_AtDeadline == over
Joined == over /\ \A w \in Writers : pending[w] = <<>>

\* The report is printed first; then an error makes the process fail.
Join ==
    /\ step = "concurrent" /\ Joined
    /\ UNCHANGED <<n, tally, pending, sent, over, listing, seen, quiet>>
    /\ IF tally.errors > 0 THEN Failed("request errors") ELSE Ran("ready")
    /\ UNCHANGED worldVars
-----------------------------------------------------------------------------
(* write-data and read-write: a file, then a commit that names it *)

\* read-write first shells out to a stock client and folds every failure in.
Roundtrip ==
    /\ step = "roundtrip" /\ Continues("setup")
    /\ UNCHANGED <<n, tally, pending, sent, over, listing, seen, quiet, worldVars>>

\* The warm-up of write-data writes files and commits none of them.
WarmPut ==
    /\ step = "warm" /\ store' = [store EXCEPT ![<<"warmup", n>>] = Job.rows]
    /\ IF n + 1 = Warmups THEN Continues("put") /\ n' = 0 ELSE Continues("warm") /\ n' = n + 1
    /\ UNCHANGED <<tally, pending, sent, over, listing, seen, quiet, cache, catalog, keys, others>>

Put ==
    /\ step = "put" /\ store' = [store EXCEPT ![<<Prefix, n>>] = Job.rows]
    /\ IF Job.bench # "cache-scan" THEN Continues("record") /\ n' = n
       ELSE n' = n + 1 /\ Continues(IF n + 1 = Job.files THEN "list" ELSE "put")
    /\ UNCHANGED <<tally, pending, sent, over, listing, seen, quiet, cache, catalog, keys, others>>

\* A wrong variant: the name of the next file.
FileUri_Next(i) == <<Prefix, i + 1>>
FileUri(i) == <<Prefix, i>>

\* A conflict is counted by read-write and dropped by write-data; neither tries
\* again and both go on with the next file.
Record ==
    /\ step = "record"
    /\ \E a \in Answers(<<>>) :
        /\ Served(<<>>, a, FileUri(n)) /\ tally' = Counted(a)
        /\ UNCHANGED <<pending, sent, over, listing, seen, quiet>>
        /\ IF a.answer = "error" THEN Failed("commit") /\ n' = 0
           ELSE /\ n' = n + 1
                /\ IF n + 1 < Job.files THEN Continues("put")
                   ELSE IF Job.bench = "write-data" THEN Ran("ready") ELSE Continues("scan")
    /\ UNCHANGED <<store, cache, others>>
-----------------------------------------------------------------------------
(* cache-scan, rust-vs-jvm and read-write: passes over the data *)

Listed == [f \in Parts |-> store[<<Prefix, f>>]]

Complete == Cardinality(Files(Prefix)) >= Job.files

\* ensure_dataset: files that are there are used again, whatever their rows.
Dataset ==
    /\ step = "dataset"
    /\ IF Complete /\ ~ Job.rewrite THEN Continues("scan") /\ listing' = Listed
       ELSE Continues("put") /\ UNCHANGED listing
    /\ UNCHANGED <<n, tally, pending, sent, over, seen, quiet, worldVars>>
List ==
    /\ step = "list" /\ Continues("scan") /\ listing' = Listed
    /\ UNCHANGED <<n, tally, pending, sent, over, seen, quiet, worldVars>>

Passes == <<"no-cache", "no-cache", "cold", "warm", "warm">>
Pass == Passes[Len(seen) + 1]

\* cache-scan reads the files it listed, the others list for each query.
ToRead == IF Job.bench = "cache-scan" THEN {f \in Parts : listing[f] > 0} ELSE Files(Prefix)
Content(f) == IF Pass # "no-cache" /\ cache[f] > 0 THEN cache[f] ELSE store[<<Prefix, f>>]
Rows == MapThenSumSet(Content, ToRead)
Readable == Job.bench = "cache-scan" => \A f \in ToRead : Content(f) = listing[f]

\* Within a phase rust-vs-jvm and read-write insist on one count, and on any.
Unstable == /\ Job.bench # "cache-scan"
            /\ \/ Rows = 0 /\ Pass = "no-cache"
               \/ Len(seen) > 0 /\ Passes[Len(seen)] = Pass /\ Last(seen) # Rows
Scan ==
    /\ step = "scan" /\ Readable
    /\ cache' = IF Pass = "no-cache" THEN cache
                ELSE [f \in Parts |-> IF f \in ToRead THEN Content(f) ELSE cache[f]]
    /\ UNCHANGED <<n, tally, pending, sent, over, listing, quiet, store, catalog, keys, others>>
    /\ seen' = Append(seen, Rows)
    /\ IF Unstable THEN Failed("not stable")
       ELSE IF Len(seen) + 1 < Len(Passes) THEN Continues("scan")
       ELSE IF Job.bench = "rust-vs-jvm" THEN Continues("jvm") ELSE Ran("ready")

\* Without a line of Spark's the report is a scaffold; with one it is ready, and
\* says that both engines matched.
Jvm ==
    /\ step = "jvm" /\ UNCHANGED <<n, tally, pending, sent, over, listing, seen, quiet, worldVars>>
    /\ \/ Ran("scaffold")
       \/ ~ Job.skip_jvm /\ Ended("ran", "ready", SparkRows)

\* Another process writes a file of the same data.
Interfere(key, rows) ==
    /\ others < MaxOthers /\ others' = others + 1
    /\ store' = [store EXCEPT ![key] = rows] /\ quiet' = FALSE
    /\ UNCHANGED <<suiteVars, step, n, tally, pending, sent, over, listing, seen, cache, catalog, keys>>

Next ==
    \/ Invoke \/ Exit \/ Spawn \/ SpawnFails \/ Breaks
    \/ Setup \/ SerialCommit \/ Deadline \/ Join
    \/ Roundtrip \/ WarmPut \/ Put \/ Record
    \/ Dataset \/ List \/ Scan \/ Jvm
    \/ \E w \in Writers : Send(w) \/ Receive(w)
    \/ \E key \in DOMAIN store, rows \in 1 .. MaxRows : key[1] # "warmup" /\ Interfere(key, rows)

Spec == Init /\ [][Next]_vars
-----------------------------------------------------------------------------
(* What the suite measures *)

\* The commit bench counts no replay on a table it is the first to write to: its
\* idempotency keys never repeat, although the writers' counters may meet.
FirstRunMeasuresCommits == ~ tally.rerun => tally.replayed = 0

\* A report of the concurrent phase accounts for every request that was sent, and
\* a run with request errors is not a success, although its report is printed.
CountsAreComplete ==
    \A i \in DOMAIN results :
        LET r == results[i]
        IN r.bench = "commit" /\ r.status \in {"ready", "request errors"} =>
               /\ r.tally.ok + r.tally.conflict + r.tally.errors = r.sent
               /\ r.tally.errors > 0 => r.outcome = "failed"

\* The file that a table's property names is in the object store, wherever a bench
\* broke off or an answer was lost.
RecordedFileExists ==
    \A t \in DOMAIN catalog :
        catalog[t].last # <<>> => catalog[t].last \in DOMAIN store /\ store[catalog[t].last] > 0

\* As long as nobody else writes, the cold and the warm pass count the rows that
\* the passes without a cache count.
CacheAddsNothing ==
    \A i \in DOMAIN results :
        LET r == results[i]
        IN r.quiet /\ r.outcome = "ran" => \A p, q \in DOMAIN r.seen : r.seen[p] = r.seen[q]

\* A ready report of rust-vs-jvm says that both engines scanned the same rows: the
\* source calls the counts "invariants checked across engines".
EnginesMatch ==
    \A i \in DOMAIN results :
        results[i].bench = "rust-vs-jvm" /\ results[i].status = "ready" =>
            results[i].spark = Last(results[i].seen)
=============================================================================
