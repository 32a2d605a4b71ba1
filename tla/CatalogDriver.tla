---------------------------- MODULE CatalogDriver ----------------------------
(***************************************************************************)
(* CATALOG-PROVENANCE-v1 on real catalogs: run_benchmark.py runs the       *)
(* reference in its own process and one adapter process per configured     *)
(* catalog; the adapter (protocol.py over iceberg_rest.py or lakecat)      *)
(* replays each case with calls to the catalog, and the runner counts the  *)
(* hard gates of what it reports.                                          *)
(*                                                                         *)
(* The catalog is external: it may or may not check the base of a commit,  *)
(* honour, ignore or merely echo an idempotency key, keep keys apart by    *)
(* table or not, leave the location out of its answer, fail a call, refuse *)
(* a commit that is not stale, and never answer.  A failed call gives up   *)
(* the table of its case, so of what it did only a remembered key lasts.   *)
(***************************************************************************)
EXTENDS Naturals, Sequences, FiniteSets, SequencesExt

CONSTANTS
    Order,          \* the external catalogs, in the order they are run
    Claims,         \* the capabilities that each of their adapters claims
    Cases,          \* the cases of the suite, in its order
    Behaviours,     \* what each catalog may be like: [enforces, keys, scope, names]
    MaxFaults       \* bounds the calls that fail or are refused, per catalog

\* The reference is a name of its own, and a capability is the name of no case.
ASSUME CatalogDriverAssumption ==
    /\ \A i \in DOMAIN Order : "commit" \in Claims[Order[i]] /\ Order[i] # "reference"
    /\ Cases \in Seq(STRING)
    /\ \A i \in DOMAIN Cases : Cases[i] \notin {"compare-and-swap", "idempotent-replay"}
    /\ \A i \in DOMAIN Order :
          Behaviours[Order[i]] \subseteq [enforces : BOOLEAN, keys : {"honours", "ignores", "echoes"},
                                        scope : {"table", "catalog"}, names : BOOLEAN]
    /\ MaxFaults \in Nat

\* "none" is the name of no catalog.
ASSUME OrderAssumption == Order \in Seq(STRING \ {"none"})

External == ToSet(Order)

VARIABLES
    selected, configured, kind,
    todo,           \* the catalogs that execute_catalogs has still to run
    entries,        \* what the report says of each catalog so far
    status,         \* the status of the report, "" before it is built
    at,             \* the catalog whose adapter runs, or "none"
    left,           \* the cases it still has to replay, the current one first
    calls,          \* the calls that the current case has still to make
    points, outs,   \* the pointers and the answers to commits it holds
    witness,        \* the base of the table handle kept for each pointer
    table,          \* the table of the case, in the catalog
    rows,           \* the outcomes of the adapter, by case
    remembered,     \* external: the receipt each catalog holds for the key job-k
    faults          \* how many calls failed or were refused, by catalog

runVars == <<selected, configured, kind, todo, entries, status>>
caseVars == <<calls, points, outs, witness, table>>
lasting == <<remembered, faults>>
vars == <<runVars, at, left, caseVars, rows, lasting>>

\* lost and effects are what the catalog did: a commit over another that its base
\* did not hold, and how often the update of the key was applied.
NewTable == [snap |-> 0, meta |-> 0, lost |-> FALSE, effects |-> 0]

\* The metadata-location of a keyed commit, of none, and of one in an earlier run.
NoReceipt == [table |-> 0, meta |-> 0]
Earlier == [table |-> 0, meta |-> 1]

CapabilityOf(c) == CASE c \in {"preflight", "commit-fresh"} -> "commit"
                     [] c \in {"cas-stale-rejected", "cas-concurrent"} -> "compare-and-swap"
                     [] c \in {"idempotent-retry", "idempotent-across-restart"} -> "idempotent-replay"
                     [] OTHER -> c
GateOf(c) == CASE CapabilityOf(c) = "compare-and-swap" -> "lost_update_accepted"
               [] CapabilityOf(c) = "idempotent-replay" -> "duplicate_commit_applied"
               [] OTHER -> "none"

\* The calls of each scenario; the first stands for reset and create.
Script(c) ==
    CASE CapabilityOf(c) = "commit"           -> <<"create", "point", "point", "commit", "point">>
      [] CapabilityOf(c) = "compare-and-swap" -> <<"create", "point", "commit", "commit">>
      [] c = "idempotent-retry"               -> <<"create", "point", "keyed", "point", "keyed", "point">>
      [] c = "idempotent-across-restart"      -> <<"create", "point", "keyed", "restart", "keyed">>
      [] OTHER                                -> <<"create">>

\* A wrong variant: the receipts of the two answers are not compared.
Correct_PointerOnly(c) ==
    CASE CapabilityOf(c) = "commit"   -> outs[1].ok /\ points[3] # points[1]
      [] c = "cas-stale-rejected"     -> outs[1].ok /\ ~ outs[2].ok
      [] c = "cas-concurrent"         -> outs[1].ok # outs[2].ok
      [] c = "idempotent-retry"       -> outs[1].ok /\ outs[2].ok /\ points[3] = points[2]
      [] OTHER                        -> FALSE
\* A wrong variant: of two writers on one head, at least one has to win.
Correct_OneWins(c) ==
    CASE CapabilityOf(c) = "commit"   -> outs[1].ok /\ points[3] # points[1]
      [] c = "cas-stale-rejected"     -> outs[1].ok /\ ~ outs[2].ok
      [] c = "cas-concurrent"         -> outs[1].ok \/ outs[2].ok
      [] c = "idempotent-retry"       -> /\ outs[1].ok /\ outs[2].ok /\ outs[1].receipt = outs[2].receipt
                                         /\ points[3] = points[2]
      [] OTHER                        -> FALSE
Correct(c) ==
    CASE CapabilityOf(c) = "commit"   -> outs[1].ok /\ points[3] # points[1]
      [] c = "cas-stale-rejected"     -> outs[1].ok /\ ~ outs[2].ok
      [] c = "cas-concurrent"         -> outs[1].ok # outs[2].ok
      [] c = "idempotent-retry"       -> /\ outs[1].ok /\ outs[2].ok /\ outs[1].receipt = outs[2].receipt
                                         /\ points[3] = points[2]
      [] OTHER                        -> FALSE
-----------------------------------------------------------------------------
(* The runner *)

\* The catalogs that were selected, the reference first (execute_catalogs).
Requested[n \in 0..Len(Order)] ==
    IF n = 0 THEN IF "reference" \in selected THEN <<"reference">> ELSE <<>>
    ELSE IF Order[n] \in selected THEN Append(Requested[n - 1], Order[n])
    ELSE Requested[n - 1]

Init ==
    /\ selected \in SUBSET ({"reference"} \cup External) /\ configured \in SUBSET External
    /\ kind \in [External -> UNION {Behaviours[c] : c \in External}]
    /\ \A c \in External : kind[c] \in Behaviours[c]
    /\ todo = Requested[Len(Order)]
    /\ entries = <<>> /\ status = "" /\ at = "none" /\ left = <<>> /\ calls = <<>>
    /\ points = <<>> /\ outs = <<>> /\ witness = <<>> /\ table = NewTable
    /\ rows = <<>> /\ faults = [c \in External |-> 0]
    /\ remembered \in [External -> {NoReceipt, Earlier}]

\* hard_gates counts the supported cases that came out wrong.
Gates(outcomes) ==
    [g \in {"lost_update_accepted", "duplicate_commit_applied"} |->
        Cardinality({c \in DOMAIN outcomes : GateOf(c) = g /\ outcomes[c].supported /\ ~ outcomes[c].correct})]
Entry(c, result) == entries' = [x \in DOMAIN entries \cup {c} |-> IF x = c THEN result ELSE entries[x]]
Error == [status |-> "error"]

\* The reference claims every capability; which case fails, if one does, is what
\* its own module is about.
Reference ==
    /\ todo # <<>> /\ Head(todo) = "reference" /\ todo' = Tail(todo)
    /\ \E wrong \in {{}, {"cas-concurrent"}} :
        Entry("reference", [status |-> "executed",
                            gates |-> Gates([c \in ToSet(Cases) |-> [supported |-> TRUE, correct |-> c \notin wrong]])])
    /\ UNCHANGED <<selected, configured, kind, status, at, left, caseVars, rows, lasting>>

Unavailable ==
    /\ at = "none" /\ todo # <<>> /\ Head(todo) \in External \ configured
    /\ Entry(Head(todo), [status |-> "unavailable"]) /\ todo' = Tail(todo)
    /\ UNCHANGED <<selected, configured, kind, status, at, left, caseVars, rows, lasting>>

Begin(cs) ==
    /\ left' = cs /\ points' = <<>> /\ outs' = <<>> /\ witness' = <<>> /\ table' = NewTable
    /\ calls' = IF cs = <<>> THEN <<>> ELSE Script(Head(cs))

Launch ==
    /\ at = "none" /\ todo # <<>> /\ Head(todo) \in configured /\ at' = Head(todo)
    /\ Begin(<<"preflight">> \o Cases) /\ rows' = <<>> /\ UNCHANGED <<runVars, lasting>>

Ends(result) ==
    /\ Entry(at, result) /\ todo' = Tail(todo) /\ at' = "none" /\ Begin(<<>>) /\ rows' = <<>>
    /\ UNCHANGED <<selected, configured, kind, status, lasting>>

\* A wrong variant: the time limit begins after the preflight.
AdapterFails_AfterPreflight == at # "none" /\ (left # <<>> => Head(left) # "preflight") /\ Ends(Error)
\* The time limit of subprocess.run, and a process that dies or prints no answer.
AdapterFails == at # "none" /\ Ends(Error)

\* _parse: a case counts as supported only where its capability was claimed.
Collect ==
    /\ at # "none" /\ left = <<>>
    /\ LET supported(c) == rows[c].supported /\ CapabilityOf(c) \in Claims[at]
       IN Ends([status |-> "executed",
                gates |-> Gates([c \in DOMAIN rows |->
                    [supported |-> supported(c), correct |-> supported(c) /\ rows[c].correct]])])

\* The report passes, and the process exits with 0, when the reference ran clean.
Report ==
    /\ todo = <<>> /\ status = ""
    /\ status' = IF "reference" \notin DOMAIN entries THEN "incomplete"
                 ELSE IF \E g \in DOMAIN entries["reference"].gates : entries["reference"].gates[g] > 0
                 THEN "fail" ELSE "pass"
    /\ UNCHANGED <<selected, configured, kind, todo, entries, at, left, caseVars, rows, lasting>>
-----------------------------------------------------------------------------
(* The adapter process *)

Case == Head(left)
Running == at # "none" /\ left # <<>>
Claimed == CapabilityOf(Case) \in Claims[at]
Row(supported, correct) ==
    rows' = [c \in DOMAIN rows \cup {Case} |->
                IF c = Case THEN [supported |-> supported, correct |-> correct,
                                  lost |-> table.lost, effects |-> table.effects]
                ELSE rows[c]]

Skip ==
    /\ Running /\ ~ Claimed /\ Row(FALSE, FALSE) /\ Begin(Tail(left))
    /\ UNCHANGED <<runVars, at, lasting>>

\* The outcome of the preflight is dropped: only an exception ends the adapter.
Judge ==
    /\ Running /\ Claimed /\ calls = <<>>
    /\ IF Case = "preflight" THEN UNCHANGED rows ELSE Row(TRUE, Correct(Case))
    /\ Begin(Tail(left)) /\ UNCHANGED <<runVars, at, lasting>>

\* No adapter can restart its catalog, so the scenario raises Unsupported.
Decline ==
    /\ Running /\ Claimed /\ calls # <<>> /\ Head(calls) = "restart"
    /\ Row(FALSE, FALSE) /\ Begin(Tail(left)) /\ UNCHANGED <<runVars, at, lasting>>

\* Every keyed commit of every case and run carries the key job-k.
Written == [table |-> Len(left), meta |-> table.meta + 1]
Keeping == IF remembered[at] = NoReceipt THEN [remembered EXCEPT ![at] = Written] ELSE remembered

\* A call fails.  In the preflight the process exits, and the entry is an error;
\* in a case it is an incorrect result of the catalog.
Raises ==
    /\ Running /\ Claimed /\ calls # <<>> /\ Head(calls) # "restart" /\ faults[at] < MaxFaults
    /\ IF Case = "preflight"
       THEN /\ Entry(at, Error) /\ todo' = Tail(todo) /\ at' = "none" /\ Begin(<<>>) /\ rows' = <<>>
            /\ UNCHANGED <<selected, configured, kind, status>>
       ELSE Row(TRUE, FALSE) /\ Begin(Tail(left)) /\ UNCHANGED <<runVars, at>>
    /\ faults' = [faults EXCEPT ![at] = @ + 1]
    /\ remembered' = remembered \/ (Head(calls) = "keyed" /\ remembered' = Keeping)

Serves(call) ==
    /\ Running /\ Claimed /\ calls # <<>> /\ Head(calls) = call /\ calls' = Tail(calls)
    /\ UNCHANGED <<runVars, at, left, rows>>

\* reset and create: a table of a name nobody used, and no handle kept.  A catalog
\* that keeps the keys of each table apart knows none for it.
Create ==
    /\ Serves("create") /\ UNCHANGED <<points, outs, witness, table, faults>>
    /\ remembered' = IF kind[at].scope = "catalog" THEN remembered
                     ELSE [remembered EXCEPT ![at] = NoReceipt]

\* The pointer is the current snapshot.
Point ==
    /\ Serves("point") /\ points' = Append(points, table.snap)
    /\ UNCHANGED <<outs, witness, table, lasting>>

\* A wrong variant: the table is loaded again for each commit.
Base_Reloaded(expected) == table.snap
\* The handle that was kept when `expected` was first seen, and never refreshed.
Base(expected) == IF expected \in DOMAIN witness THEN witness[expected] ELSE table.snap

\* An append on a copy of the handle, which asserts the snapshot of the handle.
Commit ==
    LET expected == Last(points)
        base == Base(expected)
    IN /\ Serves("commit") /\ UNCHANGED <<points, remembered>>
       /\ witness' = [p \in DOMAIN witness \cup {expected} |-> IF p = expected THEN base ELSE witness[p]]
       /\ \/ /\ base = table.snap \/ ~ kind[at].enforces
             /\ table' = [table EXCEPT !.snap = @ + 1, !.meta = @ + 1, !.lost = @ \/ base # table.snap]
             /\ outs' = Append(outs, [ok |-> TRUE, receipt |-> NoReceipt]) /\ UNCHANGED faults
          \/ /\ base # table.snap /\ kind[at].enforces
             /\ outs' = Append(outs, [ok |-> FALSE, receipt |-> NoReceipt]) /\ UNCHANGED <<table, faults>>
          \/ /\ base = table.snap /\ faults[at] < MaxFaults
             /\ outs' = Append(outs, [ok |-> FALSE, receipt |-> NoReceipt]) /\ UNCHANGED table
             /\ faults' = [faults EXCEPT ![at] = @ + 1]

\* A property is set under a key: it moves the metadata and not the snapshot, and
\* asserts nothing but the identity of the table.  An answer without a location
\* gives the receipt of none, the same each time.
KeyedCommit ==
    LET known == remembered[at] # NoReceipt /\ kind[at].keys # "ignores"
    IN /\ Serves("keyed") /\ UNCHANGED <<points, witness, faults>>
       /\ table' = IF known /\ kind[at].keys = "honours" THEN table
                   ELSE [table EXCEPT !.meta = @ + 1, !.effects = @ + 1]
       /\ remembered' = Keeping
       /\ outs' = Append(outs, [ok |-> TRUE,
                                receipt |-> IF ~ kind[at].names THEN NoReceipt
                                            ELSE IF known THEN remembered[at] ELSE Written])

Runner == Reference \/ Unavailable \/ Launch \/ AdapterFails \/ Collect \/ Report
Adapter == Skip \/ Judge \/ Decline \/ Raises \/ Create \/ Point \/ Commit \/ KeyedCommit
Next == Runner \/ Adapter

\* The runner goes on, and its time limit passes whatever the adapter waits for;
\* nothing is assumed of the adapter or of the catalog.
Spec == Init /\ [][Next]_vars /\ WF_vars(Runner)
-----------------------------------------------------------------------------
(* What the comparison claims *)

\* "Never as false safety-gate violations": a catalog that keeps its promises and
\* answers every call trips no gate, so a stale handle is really stale.
HonestCatalogIsClean ==
    \A c \in DOMAIN entries \cap External :
        /\ entries[c].status = "executed" /\ faults[c] = 0
        /\ kind[c].enforces /\ kind[c].keys = "honours"
        => \A g \in DOMAIN entries[c].gates : entries[c].gates[g] = 0

\* A case of the compare-and-swap is credited only if no update was lost in it,
\* also when the catalog refuses a commit for another reason.
NoCreditForLostUpdate ==
    \A c \in DOMAIN rows : GateOf(c) = "lost_update_accepted" /\ rows[c].correct => ~ rows[c].lost

\* A retry is credited only if its commit was not applied a second time, by a
\* catalog that names what it wrote and does not merely echo receipts; and it was
\* applied at all unless a catalog without tables in its keys knew job-k before.
RetryCreditIsEarned ==
    \A c \in DOMAIN rows :
        /\ GateOf(c) = "duplicate_commit_applied" /\ rows[c].correct
        /\ kind[at].names /\ kind[at].keys # "echoes"
        => rows[c].effects = 1 \/ (rows[c].effects = 0 /\ kind[at].scope = "catalog")

\* The docs say that a retried commit is credited when it had no second effect.
RetryCreditIsOneEffect ==
    \A c \in DOMAIN rows :
        GateOf(c) = "duplicate_commit_applied" /\ rows[c].correct => rows[c].effects = 1

\* "A failing adapter is reported error, never converted into a pass or a fail."
GateMeansMisbehaviour ==
    \A c \in DOMAIN entries \cap External :
        entries[c].status = "executed" /\ kind[c].enforces /\ kind[c].keys = "honours"
        => \A g \in DOMAIN entries[c].gates : entries[c].gates[g] = 0

\* The run ends with a report, whatever catalog never answers.
RunEnds == <>(status # "")
=============================================================================
