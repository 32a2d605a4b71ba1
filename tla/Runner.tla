------------------------------- MODULE Runner -------------------------------
(***************************************************************************)
(* The runner of the cognition benchmark: run_benchmark.py, which executes *)
(* the reference and every selected external system, adversarial_cognition/ *)
(* adapters.py and report.py, which turn what adapter processes leave       *)
(* behind into rows, gates and a status, and render_results.py, which turns *)
(* a written report into tables, one track to a table.                      *)
(*                                                                          *)
(* An adapter is a process: it cannot be started, ends with a failure, runs *)
(* into the timeout, or prints something.  What it prints is a payload whose *)
(* rows may be missing, foreign, repeated or incomplete.  Timings and texts  *)
(* are left out, except that a text may be too long for a report.            *)
(***************************************************************************)
EXTENDS Naturals, Sequences, FiniteSets, SequencesExt

CONSTANTS
    Registry,       \* EXTERNAL_SYSTEMS and EXTERNAL_SYSTEMS_V2
    Suite,          \* the case identifiers, in order
    Category,       \* the category of a case
    CaseGates,      \* CASE_GATES
    CategoryGates,  \* CATEGORY_GATES
    References,     \* what the reference may answer: [Case -> correct, receipt]
    Processes,      \* what an adapter process may do
    Selections,     \* the values of --systems
    Priority,       \* the alphabetical order of names, as numbers
    MaxInvocations  \* bound on the invocations of the runner

Marciana == "marciana"
Versions == {1, 2}
Cases    == Range(Suite)
Receipts == "non_deterministic_receipts"
Externals == UNION {Range(Registry[v]) : v \in Versions}

ASSUME RunnerAssumption ==
    /\ Registry \in [Versions -> Seq(STRING)] /\ Suite \in Seq(STRING) /\ Suite # <<>>
    /\ \A v \in Versions : Marciana \notin Range(Registry[v]) /\ IsInjective(Registry[v])
    /\ Receipts \in Range(CategoryGates)
    /\ \A ref \in References : DOMAIN ref = Cases
    /\ \A what \in Processes : what.ended = "printed" =>
            what.payload.rows \in Seq(Range(what.payload.rows))
    /\ \A s \in {Marciana} \cup Externals : Priority[s] \in Nat
    /\ \A s, t \in {Marciana} \cup Externals : Priority[s] = Priority[t] => s = t
    /\ MaxInvocations \in Nat

VARIABLES
    args,       \* the command line of this invocation
    phase,      \* idle, execute, compare or build
    reports,    \* the SystemReports of this invocation, in order
    mismatches, \* receipts that differ between two runs of the reference
    file,       \* the report on disk, of each benchmark version
    pinned,     \* whether the manifest on disk is that of the corpus
    exit,       \* how the last invocation ended
    count,      \* the number of invocations
    truth       \* history: what the processes of this invocation really did

vars == <<args, phase, reports, mismatches, file, pinned, exit, count, truth>>
-----------------------------------------------------------------------------
(* The payload of an adapter process. *)

Declared(p) == IF p.interface = "absent" THEN "direct-api" ELSE p.interface

\* A wrong variant: the row is looked up by its place.
RowOf_ByPlace(rows, c) == rows[CHOOSE i \in DOMAIN rows : Suite[i] = c]
\* The row of a case: rows are gathered in a dictionary, the last one stays.
RowOf(rows, c) == rows[CHOOSE i \in DOMAIN rows :
                         /\ rows[i].case = c
                         /\ \A j \in DOMAIN rows : rows[j].case = c => j <= i]

CoversSuite(rows) == {rows[i].case : i \in DOMAIN rows} = Cases

\* The attestation an agent-loop payload must carry under v2.
HarnessRefused(p, v) == /\ v = 2 /\ Declared(p) = "agent-loop"
                        /\ p.harness \in {"absent", "partial"}

\* _parse_external_outcomes raises.
Malformed(p, v) ==
    \/ ~ p.json
    \/ v = 2 /\ p.interface = "absent"
    \/ HarnessRefused(p, v)
    \/ ~ CoversSuite(p.rows)
    \/ \E c \in Cases : RowOf(p.rows, c).text = "missing"

Parsed(p, v) ==
    [version |-> p.version,
     interface |-> Declared(p),
     harness |-> IF v = 2 /\ Declared(p) = "agent-loop" THEN p.harness ELSE "absent",
     rows |-> [c \in Cases |-> LET row == RowOf(p.rows, c)
                               IN [correct |-> row.correct, supported |-> row.supported,
                                   text |-> row.text]]]
-----------------------------------------------------------------------------
(* One entry of the report for each selected system. *)

Entry(s, status, detail) == [system |-> s, status |-> status, parsed |-> detail]
Nothing == [rows |-> <<>>]

\* execute_external; what happened to the process is one of Processes.
ExecuteExternal(s, v, what) ==
    CASE what.ended = "unconfigured" -> Entry(s, "unavailable", Nothing)
      [] what.ended = "printed" /\ ~ Malformed(what.payload, v) ->
            Entry(s, "executed", Parsed(what.payload, v))
      [] OTHER -> Entry(s, "error", Nothing)

\* The handler of the failure raises itself: what a process wrote to stderr
\* before the timeout is bytes, and replace("\n", " ") of bytes is a TypeError.
HandlerRaises(what) == what.ended = "timeout" /\ what.stderr

\* execute_marciana: the outcomes of the last of the repeats.
ExecuteMarciana(ref) ==
    Entry(Marciana, "executed",
          [version |-> "v", interface |-> "direct-api", harness |-> "absent",
           rows |-> [c \in Cases |-> [correct |-> ref[c].correct,
                                      supported |-> TRUE, text |-> "bounded"]]])

ReceiptMismatches(one, two) ==
    Cardinality({c \in Cases : one[c].receipt # two[c].receipt})
-----------------------------------------------------------------------------
(* The report. *)

Entries(reps) == [s \in {reps[i].system : i \in DOMAIN reps} |->
                    reps[CHOOSE i \in DOMAIN reps : reps[i].system = s]]
Executed(systems) == {s \in DOMAIN systems : systems[s].status = "executed"}

ReferenceRows(systems) == IF Marciana \in Executed(systems)
                          THEN systems[Marciana].parsed.rows ELSE <<>>

GateOf(c) == IF c \in DOMAIN CaseGates THEN CaseGates[c]
             ELSE IF Category[c] \in DOMAIN CategoryGates THEN CategoryGates[Category[c]]
             ELSE "none"
GateNames == Range(CaseGates) \cup Range(CategoryGates)

HardGates_ReceiptsForgotten(rows, differing) ==
    [g \in GateNames |-> Cardinality({c \in DOMAIN rows : GateOf(c) = g /\ ~ rows[c].correct})]
HardGates(rows, differing) ==
    [g \in GateNames |->
        Cardinality({c \in DOMAIN rows : GateOf(c) = g /\ ~ rows[c].correct})
        + IF g = Receipts THEN differing ELSE 0]

OverallStatus(gates, systems) ==
    IF \E g \in GateNames : gates[g] # 0 THEN "fail"
    ELSE IF Marciana \notin Executed(systems) THEN "incomplete"
    ELSE "pass"

\* percentile() sorts the latencies and takes the value at this index: the
\* rounding is to the nearest, a half to the even one.
PercentileIndex(n, p) ==
    LET q == (p * (n - 1)) \div 100
        r == (p * (n - 1)) % 100
        nearest == IF r > 50 \/ (r = 50 /\ q % 2 = 1) THEN q + 1 ELSE q
    IN IF nearest < n - 1 THEN nearest ELSE n - 1

\* The numbers of quality(): correct among supported; 0 of 0 counts as 0.
Accuracy(rows) ==
    LET supported == {c \in DOMAIN rows : rows[c].supported}
    IN [right |-> Cardinality({c \in supported : rows[c].correct}),
        of |-> Cardinality(supported)]

TrackOf_Unknown(interface) == IF interface = "direct-api" THEN "memory-store" ELSE "agent-memory"
TrackOf(interface) == IF interface = "agent-loop" THEN "agent-memory" ELSE "memory-store"

\* assert_bounded walks every string of the report.
Bounded(systems) == \A s \in Executed(systems) :
    \A c \in Cases : systems[s].parsed.rows[c].text # "unbounded"

BuildReport ==
    LET systems == Entries(reports)
        rows    == ReferenceRows(systems)
        gates   == HardGates(rows, mismatches)
    IN [benchmark |-> args.version, run |-> count, systems |-> systems,
        gates |-> gates, status |-> OverallStatus(gates, systems),
        quality |-> Accuracy(rows),
        performance |-> IF rows = <<>> THEN <<>>
                        ELSE <<PercentileIndex(Cardinality(Cases), 50),
                               PercentileIndex(Cardinality(Cases), 95),
                               PercentileIndex(Cardinality(Cases), 99)>>]
-----------------------------------------------------------------------------
(* Rendering: render_results.py reads a report that was written. *)

\* The order of the rows of a table: executed systems first, references before
\* the others, then by accuracy, coverage and name.
IsReference(v, s) == s = Marciana \/ (v = 2 /\ s = "marciana-agent")
Before(report, s, t) ==
    LET Done(u) == u \in Executed(report.systems)
        Ref(u)  == IsReference(report.benchmark, u)
        Acc(u)  == Accuracy(report.systems[u].parsed.rows)
        Den(u)  == IF Acc(u).of = 0 THEN 1 ELSE Acc(u).of
        left    == Acc(s).right * Den(t)
        right   == Acc(t).right * Den(s)
    IN \/ Done(s) /\ ~ Done(t)
       \/ ~ Done(s) /\ ~ Done(t) /\ Priority[s] < Priority[t]
       \/ /\ Done(s) /\ Done(t)
          /\ \/ Ref(s) /\ ~ Ref(t)
             \/ /\ Ref(s) <=> Ref(t)
                /\ \/ left > right
                   \/ left = right /\ Acc(s).of > Acc(t).of
                   \/ left = right /\ Acc(s).of = Acc(t).of /\ Priority[s] < Priority[t]
Ranked(report, S) == CHOOSE ranking \in SetToSeqs(S) :
    \A i, j \in DOMAIN ranking : i < j => Before(report, ranking[i], ranking[j])

Cell(row) == IF ~ row.supported THEN "unsupported"
             ELSE IF row.correct THEN "correct" ELSE "failed"
Matrix(report, S) == [c \in Cases |-> [s \in S |-> Cell(report.systems[s].parsed.rows[c])]]

\* render_v1: one table of all systems, one matrix of those that executed.
RenderV1(report) ==
    [ranking |-> Ranked(report, DOMAIN report.systems),
     matrix |-> Matrix(report, Executed(report.systems))]

\* render_v2: a section for each track that has a system.
Track(report, s) == TrackOf(report.systems[s].parsed.interface)
Section(report, track) ==
    LET S == {s \in Executed(report.systems) : Track(report, s) = track}
    IN [track |-> track, members |-> Ranked(report, S), matrix |-> Matrix(report, S),
        harness |-> {report.systems[s].parsed.harness : s \in S} \ {"absent"}]
Sections(report) ==
    {sec \in {Section(report, t) : t \in {"memory-store", "agent-memory"}} : sec.members # <<>>}

\* assert_no_cross_track_table: a cell that names a system counts as that
\* system, whatever the column: an adapter may call its version by a name.
Named(report, sec) == Range(sec.members)
                      \cup {report.systems[s].parsed.version : s \in Range(sec.members)}
RenderRefused(report) == \E sec \in Sections(report) :
    \E s, t \in Named(report, sec) \cap Executed(report.systems) : Track(report, s) # Track(report, t)
-----------------------------------------------------------------------------
(* The runner. *)

NoFile == [run |-> 0]
NoTruth == [what |-> <<>>, ref |-> <<>>, one |-> <<>>, two |-> <<>>]

Init ==
    /\ args = [version |-> 1, selected |-> {}] /\ phase = "idle" /\ exit = "none"
    /\ reports = <<>> /\ mismatches = 0 /\ count = 0 /\ truth = NoTruth
    /\ file = [v \in Versions |-> NoFile] /\ pinned = [v \in Versions |-> TRUE]

End(how) == phase' = "idle" /\ exit' = how

\* A change of the cases or of the manifest's text in the source.
EditCorpus(v) ==
    /\ phase = "idle" /\ pinned[v] /\ pinned' = [pinned EXCEPT ![v] = FALSE]
    /\ UNCHANGED <<args, phase, reports, mismatches, file, exit, count, truth>>

Started(v, selected) ==
    /\ phase = "idle" /\ count < MaxInvocations
    /\ count' = count + 1 /\ args' = [version |-> v, selected |-> selected]
    /\ reports' = <<>> /\ mismatches' = 0 /\ truth' = NoTruth /\ UNCHANGED file

\* --pin-corpus
PinCorpus(v) ==
    /\ phase = "idle" /\ ~ pinned[v] /\ pinned' = [pinned EXCEPT ![v] = TRUE] /\ End("pinned")
    /\ UNCHANGED <<args, reports, mismatches, file, count, truth>>

\* --repeats 0, invalid metadata, a manifest that does not match, or an unknown
\* system: nothing is executed.
Known(v) == {Marciana} \cup Range(Registry[v])
Usage(v, selected, invalid) ==
    /\ Started(v, selected) /\ UNCHANGED pinned
    /\ invalid \/ ~ pinned[v] \/ ~ (selected \subseteq Known(v))
    /\ End("usage")

Start(v, selected) ==
    /\ Started(v, selected) /\ UNCHANGED pinned
    /\ pinned[v] /\ selected \subseteq Known(v)
    /\ phase' = "execute" /\ exit' = "none"

\* The systems that were selected, the reference first, then the registry's order:
\* the places of those that have no entry yet, of which the first is executed.
Order == <<Marciana>> \o Registry[args.version]
Pending == {n \in DOMAIN Order : /\ Order[n] \in args.selected
                                /\ \A i \in DOMAIN reports : reports[i].system # Order[n]}
Executing(s) == /\ phase = "execute"
                /\ \E n \in Pending : s = Order[n] /\ \A k \in Pending : n <= k
                /\ UNCHANGED <<args, mismatches, file, pinned, count>>

RunReference(ref) ==
    /\ Executing(Marciana)
    /\ reports' = Append(reports, ExecuteMarciana(ref))
    /\ truth' = [truth EXCEPT !.ref = ref] /\ UNCHANGED <<phase, exit>>

RunExternal(s, what) ==
    /\ s # Marciana /\ Executing(s)
    /\ truth' = [truth EXCEPT !.what = [t \in DOMAIN @ \cup {s} |-> IF t = s THEN what ELSE @[t]]]
    /\ IF HandlerRaises(what)
       THEN End("raised") /\ UNCHANGED reports
       ELSE /\ reports' = Append(reports, ExecuteExternal(s, args.version, what))
            /\ UNCHANGED <<phase, exit>>

\* Two further runs of the reference must agree in receipts and answers.
Compare(one, two) ==
    /\ phase = "execute" /\ Pending = {}
    /\ IF Marciana \in args.selected
       THEN /\ mismatches' = ReceiptMismatches(one, two)
            /\ truth' = [truth EXCEPT !.one = one, !.two = two]
       ELSE UNCHANGED <<mismatches, truth>>
    /\ phase' = "build"
    /\ UNCHANGED <<args, reports, file, pinned, exit, count>>

Build_WrittenFirst ==
    /\ phase = "build"
    /\ file' = [file EXCEPT ![args.version] = BuildReport]
    /\ End(IF ~ Bounded(Entries(reports)) THEN "raised"
           ELSE IF BuildReport.status = "pass" THEN "ok" ELSE "failed")
    /\ UNCHANGED <<args, reports, mismatches, pinned, count, truth>>
\* build_report raises on an unbounded text, or the report is written; the
\* process ends with 0 if its status is pass.
Build ==
    /\ phase = "build"
    /\ IF Bounded(Entries(reports))
       THEN /\ file' = [file EXCEPT ![args.version] = BuildReport]
            /\ End(IF BuildReport.status = "pass" THEN "ok" ELSE "failed")
       ELSE End("raised") /\ UNCHANGED file
    /\ UNCHANGED <<args, reports, mismatches, pinned, count, truth>>

Next ==
    \/ \E v \in Versions : EditCorpus(v) \/ PinCorpus(v)
    \/ \E v \in Versions, sel \in Selections :
         Start(v, sel) \/ \E invalid \in BOOLEAN : Usage(v, sel, invalid)
    \/ \E ref \in References : RunReference(ref)
    \/ \E s \in Externals, what \in Processes : RunExternal(s, what)
    \/ \E one, two \in References : Compare(one, two)
    \/ Build

Spec == Init /\ [][Next]_vars
-----------------------------------------------------------------------------
(* Properties. *)

\* The report that the last invocation wrote, if it wrote one.
Written == phase = "idle" /\ count > 0 /\ file[args.version].run = count
Report  == file[args.version]

TypeOK ==
    /\ phase \in {"idle", "execute", "compare", "build"} /\ count \in 0 .. MaxInvocations
    /\ exit \in {"none", "ok", "failed", "usage", "raised", "pinned"}
    /\ args.version \in Versions /\ pinned \in [Versions -> BOOLEAN]
    /\ mismatches \in 0 .. Cardinality(Cases)
    /\ \A i \in DOMAIN reports : reports[i].status \in {"executed", "unavailable", "error"}
    /\ \A v \in Versions : file[v].run \in 0 .. count

\* A report that says pass was earned: in this invocation the reference ran,
\* answered every case that has a gate correctly, and gave the same receipts
\* twice (build_report, overall_status).
PassIsEarned ==
    Written /\ Report.status = "pass" =>
        /\ truth.ref # <<>>
        /\ \A c \in Cases : GateOf(c) # "none" => truth.ref[c].correct
        /\ \A c \in Cases : truth.one[c].receipt = truth.two[c].receipt

ReportedOnce(rows, c) == \E i \in DOMAIN rows : \A j \in DOMAIN rows : rows[j].case = c <=> j = i

\* No system is credited with a case unless its own process printed, in this
\* invocation, a payload whose one row for this case says so; no other system, no
\* other row and no earlier invocation stands in for it ("no adapter is ever
\* silently substituted for another", adapters.py).  Of a case that was reported
\* twice this says nothing: see EveryCaseOnce.
CreditIsOwn ==
    Written => \A s \in Executed(Report.systems) \ {Marciana} :
        LET what == truth.what[s]
            rows == what.payload.rows
        IN /\ what.ended = "printed"
           /\ \A c \in Cases :
                (Cell(Report.systems[s].parsed.rows[c]) = "correct" /\ ReportedOnce(rows, c)) =>
                    \E i \in DOMAIN rows : rows[i].case = c /\ rows[i].correct /\ rows[i].supported

\* The exit status tells what is on disk: 0 after a run means that this
\* invocation wrote a report that says pass; an invocation that was refused or
\* raised leaves the report of an earlier one in place, never its own.
ExitIsTrue ==
    phase = "idle" =>
        /\ exit = "ok" => Written /\ Report.status = "pass"
        /\ exit = "failed" => Written /\ Report.status # "pass"
        /\ exit \in {"raised", "usage"} => ~ Written

\* In the document of a v2 report every executed system stands in exactly one
\* section, every row of the agent-memory section carries the attestation of the
\* shared harness, and a case that was declared unsupported is never marked
\* correct or failed, whatever else its row says.  Rendering refuses a report
\* only when a system calls its version by the name of another.  A v1 document
\* ranks every system once, those that did not execute last.
DocumentIsSound ==
    Written =>
      LET systems  == Report.systems
          sections == Sections(Report)
          v1       == RenderV1(Report).ranking
      IN IF Report.benchmark = 2
         THEN /\ \A s \in Executed(systems) :
                    Cardinality({sec \in sections : s \in Range(sec.members)}) = 1
              /\ \A sec \in sections : \A s \in Range(sec.members) :
                    /\ sec.track = "agent-memory" =>
                            systems[s].parsed.harness \notin {"absent", "partial"}
                    /\ \A c \in Cases : ~ systems[s].parsed.rows[c].supported =>
                            sec.matrix[c][s] = "unsupported"
              /\ RenderRefused(Report) =>
                    \E s \in Executed(systems) : systems[s].parsed.version \in DOMAIN systems
         ELSE /\ Len(v1) = Cardinality(DOMAIN systems) /\ Range(v1) = DOMAIN systems
              /\ \A i, j \in DOMAIN v1 :
                    v1[i] \notin Executed(systems) /\ v1[j] \in Executed(systems) => j < i

\* "A configured command that [...] fails to cover every case exactly once reports
\* `error`" (docs/MARCIANA-ADVERSARIAL-v1.md:240-243).  The parser compares sets
\* of names: of a case reported twice the last row is kept, and the system executed.
EveryCaseOnce ==
    \A i \in DOMAIN reports : LET s == reports[i].system IN
        (reports[i].status = "executed" /\ s # Marciana) =>
            \A c \in Cases : ReportedOnce(truth.what[s].payload.rows, c)

\* "A configured command that fails, times out, returns malformed output [...]
\* reports error" (docs/MARCIANA-ADVERSARIAL-v1.md:240-242).
TimeoutIsReported ==
    \A s \in DOMAIN truth.what : truth.what[s].ended = "timeout" =>
        \E i \in DOMAIN reports : reports[i].system = s /\ reports[i].status = "error"
=============================================================================
