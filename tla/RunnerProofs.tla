---------------------------- MODULE RunnerProofs ----------------------------
(***************************************************************************)
(* Proofs about the runner and about the adapters whose processes it runs. *)
(*                                                                         *)
(* The runner.  RunnerInv says what an entry of the report is made from:   *)
(* an entry of this invocation is the outcome of the system's own process  *)
(* (Own), the two comparison runs decide the number of mismatches          *)
(* (Compared), and what an invocation wrote is the report of its entries   *)
(* (Recorded); while an invocation runs it has written nothing (Counted).  *)
(* What a report credits, what its status is worth and what its document   *)
(* shows then follow from how the report is built.  That the rows of a     *)
(* table can be ranked at all needs that their order is total and          *)
(* transitive, the ratios of correct to supported cases included.          *)
(*                                                                         *)
(* The adapters.  AdaptersInv says where a system keeps what was written   *)
(* through its adapter (Placed), under which numbers (Stamped), that what  *)
(* was forgotten is gone or buried (Gone), and what the ledger of a case   *)
(* holds (Ledger).  The two systems share no variable.                      *)
(***************************************************************************)
EXTENDS Runner, Adapters, FiniteSetTheorems, WellFoundedInduction, TLAPS

-----------------------------------------------------------------------------
(***************************************************************************)
(*                               The runner                                *)
(***************************************************************************)

\* The numbers of the invocations, and what is on disk of them: while an invocation
\* runs it has written nothing.
Counted ==
    /\ RunnerAssumption
    /\ args.version \in Versions /\ count \in Nat /\ mismatches \in Nat
    /\ phase \in {"idle", "execute", "build"}
    /\ DOMAIN file = Versions
    /\ \A v \in Versions : /\ file[v].run \in Nat /\ file[v].run <= count
                           /\ phase # "idle" => file[v].run < count

\* An entry is what this invocation made of the system's own process.
Own(entry) ==
    /\ entry.system \in args.selected /\ entry.system \in {Marciana} \cup Externals
    /\ entry.system = Marciana =>
          truth.ref \in References /\ entry = ExecuteMarciana(truth.ref)
    /\ entry.system # Marciana =>
          /\ entry.system \in DOMAIN truth.what /\ truth.what[entry.system] \in Processes
          /\ entry = ExecuteExternal(entry.system, args.version, truth.what[entry.system])

\* Every entry of the report is one of them.
Reported == /\ \E S : reports \in Seq(S)
            /\ DOMAIN truth = {"what", "ref", "one", "two"}
            /\ \A i \in DOMAIN reports : Own(reports[i])

\* The two comparison runs decide the number of mismatches.
Compared == (phase = "build" \/ Written) /\ Marciana \in args.selected =>
               mismatches = ReceiptMismatches(truth.one, truth.two)

\* What this invocation wrote is the report of its entries.
Recorded == Written => Report = BuildReport

\* The inductive invariant.
RunnerInv == Counted /\ Reported /\ Compared /\ Recorded
-----------------------------------------------------------------------------
(* Finite sets. *)

\* A sequence has finitely many different members.
LEMMA RangeIsFinite ==
    ASSUME NEW s, NEW S, s \in Seq(S)
    PROVE  IsFiniteSet(Range(s))
<1>0. PICK n \in Nat : DOMAIN s = 1 .. n
  OBVIOUS
<1>1. IsFiniteSet(1 .. n)
  BY FS_Interval
<1>2. s \in Surjection(1 .. n, Range(s))
  BY <1>0 DEF Surjection, Range
<1>3. QED BY <1>1, <1>2, FS_Surjection

\* Induction over the parts of a finite set: when a set is in G as soon as all its
\* smaller parts are, every part is.
LEMMA EveryPart ==
    ASSUME NEW S, IsFiniteSet(S), NEW G,
           \A T \in SUBSET S : (\A U \in SUBSET T : U # T => U \in G) => T \in G
    PROVE  \A T \in SUBSET S : T \in G
<1> DEFINE Bad == {T \in SUBSET S : T \notin G}
<1> SUFFICES ASSUME Bad # {} PROVE FALSE
  OBVIOUS
<1>1. FiniteSubsetsOf(S) = SUBSET S
  BY FS_FiniteSubsetsOfFinite
<1>2. Bad \subseteq FiniteSubsetsOf(S)
  BY <1>1
<1>3. PICK T \in Bad : \A U \in Bad : ~ (<<U, T>> \in StrictSubsetOrdering(S))
  <2> HIDE DEF Bad
  <2> QED BY <1>2, FS_StrictSubsetOrderingWellFounded, WFMin
<1>4. ASSUME NEW U \in SUBSET T, U # T PROVE U \in G
  <2>1. U \in SUBSET S /\ T \in SUBSET S
    OBVIOUS
  <2>2. <<U, T>> \in StrictSubsetOrdering(S)
    BY <2>1, <1>4 DEF StrictSubsetOrdering
  <2>3. QED BY <2>1, <2>2, <1>3
<1>5. QED BY <1>4

-----------------------------------------------------------------------------
(* The inductive invariant. *)

\* Whatever a step leaves alone of what a report is made of, the report stays.
LEMMA ReportStays ==
    ASSUME UNCHANGED <<args, reports, mismatches, count>>
    PROVE  BuildReport' = BuildReport
BY DEF BuildReport

\* While an invocation runs, nothing it wrote is on disk.
LEMMA RunningIsUnwritten ==
    ASSUME Counted PROVE phase # "idle" => ~ Written
BY DEF Counted, Written

\* Nothing is reported or written before the first invocation.
LEMMA InitRuns == ASSUME RunnerAssumption, Init PROVE RunnerInv /\ ExitIsTrue
<1>1. Counted
  BY DEF Init, Counted, Versions, NoFile
<1>2. Reported
  <2>1. reports = <<>> /\ <<>> \in Seq({})
    BY DEF Init
  <2>2. QED BY <2>1 DEF Init, Reported, NoTruth
<1>3. ~ Written
  BY DEF Init, Written
<1>4. QED BY <1>1, <1>2, <1>3 DEF Init, RunnerInv, Compared, Recorded, ExitIsTrue

\* An invocation starts with nothing reported; one that is refused ends so.
LEMMA StartedRuns ==
    ASSUME RunnerInv, NEW v \in Versions, NEW sel, Started(v, sel),
           \/ phase' = "execute"
           \/ phase' = "idle" /\ exit' = "usage"
    PROVE  RunnerInv' /\ ExitIsTrue'
<1>1. /\ count' = count + 1 /\ args'.version = v /\ reports' = <<>> /\ mismatches' = 0
      /\ truth' = NoTruth /\ file' = file
  BY DEF Started
<1>2. /\ count \in Nat /\ DOMAIN file = Versions
      /\ \A w \in Versions : file[w].run \in Nat /\ file[w].run <= count
  BY DEF RunnerInv, Counted
<1>3. \A w \in Versions : file'[w].run \in Nat /\ file'[w].run < count'
  BY <1>1, <1>2
<1>4. Counted'
  BY <1>1, <1>2, <1>3 DEF RunnerInv, Counted
<1>5. Reported'
  <2>1. <<>> \in Seq({}) /\ DOMAIN <<>> = {}
    OBVIOUS
  <2>2. QED BY <1>1, <2>1 DEF Reported, NoTruth
<1>6. ~ Written'
  BY <1>1, <1>2, <1>3 DEF Written
<1>7. QED BY <1>4, <1>5, <1>6 DEF RunnerInv, Compared, Recorded, ExitIsTrue, Started

\* Between invocations the corpus may be edited and pinned.
LEMMA CorpusRuns ==
    ASSUME RunnerInv, ExitIsTrue, NEW v, EditCorpus(v) \/ PinCorpus(v)
    PROVE  RunnerInv' /\ ExitIsTrue'
<1>1. /\ UNCHANGED <<args, phase, reports, mismatches, file, count, truth>> /\ phase = "idle"
      /\ exit' = exit \/ exit' = "pinned"
  BY DEF EditCorpus, PinCorpus, End
<1>2. Counted' /\ Reported' /\ (Written' <=> Written) /\ Report' = Report
  BY <1>1 DEF RunnerInv, Counted, Reported, Written, Own, Report
<1>3. BuildReport' = BuildReport
  BY <1>1, ReportStays
<1>4. QED BY <1>1, <1>2, <1>3 DEF RunnerInv, Compared, Recorded, ExitIsTrue

\* One more entry in the report.
LEMMA AppendKeeps ==
    ASSUME NEW s, NEW e, \E S : s \in Seq(S)
    PROVE  /\ \E S : Append(s, e) \in Seq(S)
           /\ \A i \in DOMAIN Append(s, e) : (i \in DOMAIN s /\ Append(s, e)[i] = s[i]) \/ Append(s, e)[i] = e
<1>1. PICK S : s \in Seq(S)
  OBVIOUS
<1>2. s \in Seq(S \cup {e})
  BY <1>1
<1>3. Append(s, e) \in Seq(S \cup {e})
  BY <1>2
<1>4. QED BY <1>2, <1>3

\* A system that is executed has no entry yet, and was selected.
LEMMA ExecutingIsNew ==
    ASSUME Counted, NEW s, Executing(s)
    PROVE  /\ phase = "execute" /\ UNCHANGED <<args, mismatches, file, pinned, count>>
           /\ s \in args.selected /\ s \in {Marciana} \cup Externals
           /\ \A i \in DOMAIN reports : reports[i].system # s
<1>1. PICK n \in Pending : s = Order[n]
  BY DEF Executing
<1>2. /\ n \in DOMAIN Order /\ s \in args.selected
      /\ \A i \in DOMAIN reports : reports[i].system # s
  BY <1>1 DEF Pending
<1>3. Registry[args.version] \in Seq(STRING)
  BY DEF Counted, RunnerAssumption
<1>4. s = Marciana \/ s \in Range(Registry[args.version])
  BY <1>1, <1>2, <1>3 DEF Order, Range
<1>5. s \in {Marciana} \cup Externals
  BY <1>4 DEF Externals, Counted
<1>6. QED BY <1>2, <1>5 DEF Executing

\* The reference runs: its entry holds the answers of this run.
LEMMA RunReferenceRuns ==
    ASSUME RunnerInv, NEW ref \in References, RunReference(ref)
    PROVE  RunnerInv' /\ ExitIsTrue'
<1>0. /\ phase = "execute" /\ UNCHANGED <<args, mismatches, file, pinned, count, phase, exit>>
      /\ Marciana \in args.selected /\ \A i \in DOMAIN reports : reports[i].system # Marciana
  BY ExecutingIsNew DEF RunnerInv, RunReference
<1>1. /\ reports' = Append(reports, ExecuteMarciana(ref)) /\ truth' = [truth EXCEPT !.ref = ref]
  BY DEF RunReference
<1>2. Counted'
  BY <1>0 DEF RunnerInv, Counted
<1>3. DOMAIN truth' = DOMAIN truth /\ truth'.ref = ref /\ truth'.what = truth.what
  BY <1>1 DEF RunnerInv, Reported
<1>4. ExecuteMarciana(ref).system = Marciana
  BY DEF ExecuteMarciana, Entry
<1>5. Reported'
  <2>1. /\ \E S : reports' \in Seq(S)
        /\ \A i \in DOMAIN reports' : (i \in DOMAIN reports /\ reports'[i] = reports[i])
                                      \/ reports'[i] = ExecuteMarciana(ref)
    BY <1>1, AppendKeeps DEF RunnerInv, Reported
  <2>2. ASSUME NEW i \in DOMAIN reports PROVE Own(reports[i]) /\ reports[i].system # Marciana
    BY <1>0 DEF RunnerInv, Reported
  <2>3. \A e : Own(e) /\ e.system # Marciana => Own(e)'
    BY <1>0, <1>3 DEF Own
  <2>4. \A e : e = ExecuteMarciana(ref) => Own(e)'
    BY <1>0, <1>3, <1>4 DEF Own
  <2>5. ASSUME NEW i \in DOMAIN reports', NEW e, e = reports'[i] PROVE Own(e)'
    <3>1. CASE i \in DOMAIN reports /\ reports'[i] = reports[i]
      BY <2>2, <2>3, <2>5, <3>1
    <3>2. CASE reports'[i] = ExecuteMarciana(ref)
      BY <2>4, <2>5, <3>2
    <3>3. QED BY <2>1, <3>1, <3>2
  <2>6. QED BY <1>3, <2>1, <2>5 DEF RunnerInv, Reported, Own
<1>6. ~ Written'
  BY <1>0, <1>2, RunningIsUnwritten DEF Written
<1>7. QED BY <1>0, <1>2, <1>5, <1>6 DEF RunnerInv, Compared, Recorded, ExitIsTrue

\* A process of an external system runs: its entry is what this process left, or the
\* handler of the failure raises and the invocation ends.
LEMMA RunExternalRuns ==
    ASSUME RunnerInv, NEW s, NEW what \in Processes, RunExternal(s, what)
    PROVE  RunnerInv' /\ ExitIsTrue'
<1>0. /\ phase = "execute" /\ UNCHANGED <<args, mismatches, file, pinned, count>> /\ s # Marciana
      /\ s \in args.selected /\ s \in {Marciana} \cup Externals
      /\ \A i \in DOMAIN reports : reports[i].system # s
  BY ExecutingIsNew DEF RunnerInv, RunExternal
<1>1. /\ truth' = [truth EXCEPT !.what = [t \in DOMAIN @ \cup {s} |-> IF t = s THEN what ELSE @[t]]]
      /\ \/ phase' = "idle" /\ exit' = "raised" /\ reports' = reports
         \/ /\ phase' = phase /\ exit' = exit
            /\ reports' = Append(reports, ExecuteExternal(s, args.version, what))
  BY DEF RunExternal, End
<1>2. Counted'
  BY <1>0, <1>1 DEF RunnerInv, Counted
<1>3. /\ DOMAIN truth' = DOMAIN truth /\ truth'.ref = truth.ref
      /\ DOMAIN truth'.what = DOMAIN truth.what \cup {s} /\ truth'.what[s] = what
      /\ \A t \in DOMAIN truth.what : t # s => truth'.what[t] = truth.what[t]
  BY <1>1 DEF RunnerInv, Reported
<1>4. ExecuteExternal(s, args.version, what).system = s
  BY DEF ExecuteExternal, Entry
<1>5. Reported'
  <2>1. \A e : Own(e) /\ e.system # s => Own(e)'
    BY <1>0, <1>3 DEF Own
  <2>2. \A e : e = ExecuteExternal(s, args.version, what) => Own(e)'
    BY <1>0, <1>3, <1>4 DEF Own
  <2>3. \A i \in DOMAIN reports : Own(reports[i]) /\ reports[i].system # s
    BY <1>0 DEF RunnerInv, Reported
  <2>4. CASE reports' = reports
    <3>1. ASSUME NEW i \in DOMAIN reports', NEW e, e = reports'[i] PROVE Own(e)'
      BY <2>1, <2>3, <2>4, <3>1
    <3>2. QED BY <1>3, <2>4, <3>1 DEF RunnerInv, Reported, Own
  <2>5. CASE reports' = Append(reports, ExecuteExternal(s, args.version, what))
    <3>1. /\ \E S : reports' \in Seq(S)
          /\ \A i \in DOMAIN reports' : (i \in DOMAIN reports /\ reports'[i] = reports[i])
                                        \/ reports'[i] = ExecuteExternal(s, args.version, what)
      BY <2>5, AppendKeeps DEF RunnerInv, Reported
    <3>2. ASSUME NEW i \in DOMAIN reports', NEW e, e = reports'[i] PROVE Own(e)'
      <4>1. CASE i \in DOMAIN reports /\ reports'[i] = reports[i]
        BY <2>1, <2>3, <3>2, <4>1
      <4>2. CASE reports'[i] = ExecuteExternal(s, args.version, what)
        BY <2>2, <3>2, <4>2
      <4>3. QED BY <3>1, <4>1, <4>2
    <3>3. QED BY <1>3, <3>1, <3>2 DEF RunnerInv, Reported, Own
  <2>6. QED BY <1>1, <2>4, <2>5
<1>6. ~ Written'
  <2>1. \A v \in Versions : file[v].run < count /\ file[v].run \in Nat /\ count \in Nat
    BY <1>0 DEF RunnerInv, Counted
  <2>2. file'[args'.version].run < count'
    BY <1>0, <2>1 DEF RunnerInv, Counted
  <2>3. QED BY <1>0, <2>1, <2>2 DEF Written, RunnerInv, Counted
<1>7. phase' # "build"
  BY <1>0, <1>1
<1>8. QED BY <1>0, <1>1, <1>2, <1>5, <1>6, <1>7 DEF RunnerInv, Compared, Recorded, ExitIsTrue

\* There are finitely many cases, and at least one.
LEMMA CasesAreFinite == ASSUME RunnerAssumption PROVE IsFiniteSet(Cases) /\ Cases # {}
<1>1. Suite \in Seq(STRING) /\ Suite # <<>> /\ Len(Suite) \in Nat /\ DOMAIN Suite = 1 .. Len(Suite)
  BY DEF RunnerAssumption
<1>2. IsFiniteSet(Cases)
  BY <1>1, RangeIsFinite DEF Cases
<1>3. 1 \in DOMAIN Suite
  BY <1>1
<1>4. QED BY <1>2, <1>3 DEF Cases, Range

\* The receipts of two further runs of the reference are compared.
LEMMA CompareRuns ==
    ASSUME RunnerInv, NEW one \in References, NEW two \in References, Compare(one, two)
    PROVE  RunnerInv' /\ ExitIsTrue'
<1>0. /\ phase' = "build" /\ UNCHANGED <<args, reports, file, pinned, exit, count>> /\ phase = "execute"
      /\ \/ /\ Marciana \in args.selected /\ mismatches' = ReceiptMismatches(one, two)
            /\ truth' = [truth EXCEPT !.one = one, !.two = two]
         \/ Marciana \notin args.selected /\ UNCHANGED <<mismatches, truth>>
  BY DEF Compare
<1>1. IsFiniteSet(Cases) /\ ReceiptMismatches(one, two) \in Nat
  <2>1. Suite \in Seq(STRING) /\ Len(Suite) \in Nat /\ DOMAIN Suite = 1 .. Len(Suite)
    BY DEF RunnerInv, Counted, RunnerAssumption
  <2>2. IsFiniteSet(Cases)
    BY CasesAreFinite DEF RunnerInv, Counted
  <2>3. IsFiniteSet({c \in Cases : one[c].receipt # two[c].receipt})
    BY <2>2, FS_Subset
  <2>4. QED BY <2>2, <2>3, FS_CardinalityType DEF ReceiptMismatches
<1>2. Counted'
  BY <1>0, <1>1 DEF RunnerInv, Counted
<1>3. /\ DOMAIN truth' = DOMAIN truth /\ truth'.ref = truth.ref /\ truth'.what = truth.what
      /\ Marciana \in args.selected => truth'.one = one /\ truth'.two = two
  BY <1>0 DEF RunnerInv, Reported
<1>4. Reported'
  BY <1>0, <1>3 DEF RunnerInv, Reported, Own
<1>5. Compared'
  BY <1>0, <1>3 DEF Compared
<1>6. ~ Written'
  BY <1>0 DEF Written
<1>7. QED BY <1>0, <1>2, <1>4, <1>5, <1>6 DEF RunnerInv, Recorded, ExitIsTrue

\* The report is written, or the invocation raises and nothing is.
LEMMA BuildRuns == ASSUME RunnerInv, Build PROVE RunnerInv' /\ ExitIsTrue'
<1>0. /\ phase = "build" /\ phase' = "idle" /\ UNCHANGED <<args, reports, mismatches, pinned, count, truth>>
      /\ \/ /\ file' = [file EXCEPT ![args.version] = BuildReport]
            /\ exit' = IF BuildReport.status = "pass" THEN "ok" ELSE "failed"
         \/ exit' = "raised" /\ file' = file
  BY DEF Build, End
<1>1. BuildReport' = BuildReport /\ BuildReport.run = count
  BY <1>0, ReportStays DEF BuildReport
<1>2. /\ args.version \in Versions /\ DOMAIN file = Versions /\ count \in Nat
      /\ \A v \in Versions : file[v].run \in Nat /\ file[v].run <= count /\ file[v].run < count
  BY <1>0 DEF RunnerInv, Counted
<1>3. Reported' /\ (Marciana \in args'.selected => mismatches' = ReceiptMismatches(truth'.one, truth'.two))
  BY <1>0 DEF RunnerInv, Reported, Own, Compared
<1>4. CASE file' = [file EXCEPT ![args.version] = BuildReport]
           /\ exit' = IF BuildReport.status = "pass" THEN "ok" ELSE "failed"
  <2>1. file'[args.version] = BuildReport /\ \A v \in Versions : v # args.version => file'[v] = file[v]
    BY <1>2, <1>4
  <2>2. Counted'
    BY <1>0, <1>1, <1>2, <1>4, <2>1 DEF RunnerInv, Counted
  <2>3. Report' = BuildReport'
    BY <1>0, <1>1, <2>1 DEF Report
  <2>4. Written' => exit' = IF Report'.status = "pass" THEN "ok" ELSE "failed"
    BY <1>1, <1>4, <2>3
  <2>5. count > 0
    BY <1>2
  <2>6. Written'
    BY <1>0, <1>1, <2>1, <2>5 DEF Written
  <2>7. QED BY <1>0, <1>3, <2>2, <2>3, <2>4, <2>6 DEF RunnerInv, Compared, Recorded, ExitIsTrue
<1>5. CASE exit' = "raised" /\ file' = file
  <2>1. Counted'
    BY <1>0, <1>2, <1>5 DEF RunnerInv, Counted
  <2>2. ~ Written'
    BY <1>0, <1>2, <1>5 DEF Written
  <2>3. QED BY <1>0, <1>3, <1>5, <2>1, <2>2 DEF RunnerInv, Compared, Recorded, ExitIsTrue
<1>6. QED BY <1>0, <1>4, <1>5

\* Every step keeps the invariant, and the exit status true.
LEMMA StepRuns ==
    ASSUME RunnerInv, ExitIsTrue, [Next]_vars PROVE RunnerInv' /\ ExitIsTrue'
<1>1. CASE UNCHANGED vars
  <2>1. BuildReport' = BuildReport
    BY <1>1, ReportStays DEF vars
  <2>2. QED BY <1>1, <2>1 DEF vars, RunnerInv, Counted, Reported, Own, Compared, Recorded, Written,
                              Report, ExitIsTrue
<1>2. CASE \E v \in Versions : EditCorpus(v) \/ PinCorpus(v)
  BY <1>2, CorpusRuns
<1>3. CASE \E v \in Versions, sel \in Selections :
             Start(v, sel) \/ \E invalid \in BOOLEAN : Usage(v, sel, invalid)
  BY <1>3, StartedRuns DEF Start, Usage, End
<1>4. CASE \E ref \in References : RunReference(ref)
  BY <1>4, RunReferenceRuns
<1>5. CASE \E s \in Externals, what \in Processes : RunExternal(s, what)
  BY <1>5, RunExternalRuns
<1>6. CASE \E one, two \in References : Compare(one, two)
  BY <1>6, CompareRuns
<1>7. CASE Build
  BY <1>7, BuildRuns
<1>8. QED BY <1>1, <1>2, <1>3, <1>4, <1>5, <1>6, <1>7 DEF Next

\* Throughout every sequence of invocations an entry is made from its own system's
\* process, and what is on disk is the report of its invocation (run_benchmark.py main).
THEOREM RunnerStays == Spec => [](RunnerInv /\ ExitIsTrue)
BY InitRuns, StepRuns, RunnerAssumption, PTL DEF Spec

\* The exit status of the runner tells what is on disk: 0 only when this invocation
\* wrote a report that says pass, and a refused or raised invocation leaves none of
\* its own (run_benchmark.py main).
THEOREM ExitStatusIsTrue == Spec => []ExitIsTrue
BY RunnerStays, PTL
-----------------------------------------------------------------------------
(* What a report credits. *)

\* The entry of a system in the report is one the runner made for this system.
LEMMA EntryIsOwn ==
    ASSUME Reported, NEW s \in DOMAIN Entries(reports)
    PROVE  Own(Entries(reports)[s]) /\ Entries(reports)[s].system = s
<1> DEFINE k == CHOOSE i \in DOMAIN reports : reports[i].system = s
<1>1. DOMAIN Entries(reports) = {reports[i].system : i \in DOMAIN reports}
  BY DEF Entries
<1>2. \E i \in DOMAIN reports : reports[i].system = s
  BY <1>1
<1>3. k \in DOMAIN reports /\ reports[k].system = s
  BY <1>2
<1>4. Entries(reports)[s] = reports[k]
  BY DEF Entries
<1>5. Own(reports[k])
  BY <1>3 DEF Reported
<1>6. QED BY <1>3, <1>4, <1>5

\* An empty count of cases means that there is no such case.
LEMMA NoneCounted ==
    ASSUME IsFiniteSet(Cases), NEW P \in SUBSET Cases, NEW n \in Nat, Cardinality(P) + n = 0
    PROVE  P = {} /\ n = 0
<1>1. IsFiniteSet(P)
  BY FS_Subset
<1>2. Cardinality(P) \in Nat
  BY <1>1, FS_CardinalityType
<1>3. Cardinality(P) = 0 /\ n = 0
  BY <1>2
<1>4. QED BY <1>1, <1>3, FS_EmptySet

\* A reference that executed is in the report with the answers of this invocation.
LEMMA ReferenceEntry ==
    ASSUME Reported, Marciana \in Executed(Entries(reports))
    PROVE  /\ Marciana \in args.selected /\ truth.ref \in References
           /\ ReferenceRows(Entries(reports)) = [c \in Cases |->
                [correct |-> truth.ref[c].correct, supported |-> TRUE, text |-> "bounded"]]
<1>1. Marciana \in DOMAIN Entries(reports)
  BY DEF Executed
<1>2. PICK e : e = Entries(reports)[Marciana]
  OBVIOUS
<1>3. Own(e) /\ e.system = Marciana
  BY <1>1, <1>2, EntryIsOwn
<1>4. Marciana \in args.selected /\ truth.ref \in References /\ e = ExecuteMarciana(truth.ref)
  BY <1>3 DEF Own
<1>5. e.parsed.rows = [c \in Cases |->
         [correct |-> truth.ref[c].correct, supported |-> TRUE, text |-> "bounded"]]
  BY <1>4 DEF ExecuteMarciana, Entry
<1>6. ReferenceRows(Entries(reports)) = e.parsed.rows
  BY <1>2 DEF ReferenceRows
<1>7. QED BY <1>4, <1>5, <1>6

\* A status of pass leaves no gate broken and no receipt different.
LEMMA InvEarnsPass == RunnerInv => PassIsEarned
<1> SUFFICES ASSUME RunnerInv, Written, Report.status = "pass"
             PROVE  /\ truth.ref # <<>>
                    /\ \A c \in Cases : GateOf(c) # "none" => truth.ref[c].correct
                    /\ \A c \in Cases : truth.one[c].receipt = truth.two[c].receipt
  BY DEF PassIsEarned
<1> DEFINE systems == Entries(reports)
           rows    == ReferenceRows(systems)
           Wrong(g) == {c \in DOMAIN rows : GateOf(c) = g /\ ~ rows[c].correct}
<1>0. RunnerAssumption /\ IsFiniteSet(Cases) /\ Cases # {} /\ mismatches \in Nat
  BY CasesAreFinite DEF RunnerInv, Counted
<1>1. OverallStatus(HardGates(rows, mismatches), systems) = "pass"
  BY DEF RunnerInv, Recorded, BuildReport
<1>2. /\ Marciana \in Executed(systems)
      /\ \A g \in GateNames : HardGates(rows, mismatches)[g] = 0
  BY <1>1 DEF OverallStatus
<1>3. /\ Marciana \in args.selected /\ truth.ref \in References
      /\ rows = [c \in Cases |-> [correct |-> truth.ref[c].correct, supported |-> TRUE, text |-> "bounded"]]
  BY <1>2, ReferenceEntry DEF RunnerInv
<1>4. DOMAIN rows = Cases
  BY <1>3
<1>5. ASSUME NEW g \in GateNames
      PROVE  Wrong(g) = {} /\ (g = Receipts => mismatches = 0)
  <2> DEFINE more == IF g = Receipts THEN mismatches ELSE 0
  <2>1. HardGates(rows, mismatches)[g] = Cardinality(Wrong(g)) + more
    BY DEF HardGates
  <2>2. Cardinality(Wrong(g)) + more = 0
    BY <1>2, <2>1
  <2>3. more \in Nat
    BY <1>0
  <2>4. Wrong(g) \in SUBSET Cases
    BY <1>4
  <2> HIDE DEF Wrong, more, rows
  <2>5. Wrong(g) = {} /\ more = 0
    BY <1>0, <2>2, <2>3, <2>4, NoneCounted
  <2>6. QED BY <2>5 DEF more
<1>6. truth.ref # <<>>
  BY <1>0, <1>3 DEF RunnerAssumption
<1>7. ASSUME NEW c \in Cases, GateOf(c) # "none" PROVE truth.ref[c].correct
  <2>1. GateOf(c) \in GateNames
    BY <1>7 DEF GateOf, GateNames, Range
  <2>2. c \notin Wrong(GateOf(c))
    BY <1>5, <2>1
  <2>3. rows[c].correct
    BY <1>4, <2>2
  <2>4. rows[c].correct = truth.ref[c].correct
    BY <1>3
  <2>5. QED BY <2>3, <2>4
<1>8. ASSUME NEW c \in Cases PROVE truth.one[c].receipt = truth.two[c].receipt
  <2> DEFINE D == {x \in Cases : truth.one[x].receipt # truth.two[x].receipt}
  <2>1. Receipts \in GateNames
    BY <1>0 DEF RunnerAssumption, GateNames
  <2>2. mismatches = 0
    BY <1>5, <2>1
  <2>3. Cardinality(D) = 0
    BY <1>3, <2>2 DEF RunnerInv, Compared, ReceiptMismatches
  <2>4. D = {}
    <3>1. D \in SUBSET Cases
      OBVIOUS
    <3> HIDE DEF D
    <3>2. Cardinality(D) + 0 = 0
      BY <2>3
    <3>3. QED BY <1>0, <3>1, <3>2, NoneCounted
  <2>5. QED BY <2>4
<1>9. QED BY <1>6, <1>7, <1>8

\* A report says pass only when the reference ran in this invocation, answered every
\* gated case correctly and gave the same receipts twice (report.py build_report,
\* overall_status).
THEOREM PassHolds == Spec => []PassIsEarned
BY RunnerStays, InvEarnsPass, PTL

\* A nonempty set of places in a sequence has a last one.
LEMMA LastPlace ==
    ASSUME NEW n \in Nat, NEW I \in SUBSET (1 .. n), I # {}
    PROVE  \E i \in I : \A j \in I : j <= i
<1> DEFINE G == {T \in SUBSET (1 .. n) : T # {} => \E i \in T : \A j \in T : j <= i}
<1>1. IsFiniteSet(1 .. n)
  BY FS_Interval
<1>2. ASSUME NEW T \in SUBSET (1 .. n), \A U \in SUBSET T : U # T => U \in G PROVE T \in G
  <2>1. CASE T = {}
    BY <2>1
  <2>2. CASE T # {}
    <3>1. PICK x \in T : TRUE
      BY <2>2
    <3>2. T \ {x} \in G
      BY <1>2, <3>1
    <3>3. CASE T \ {x} = {}
      <4>1. \A j \in T : j = x
        BY <3>3
      <4>2. x \in Int
        OBVIOUS
      <4>3. QED BY <4>1, <4>2
    <3>4. CASE T \ {x} # {}
      <4>1. PICK m \in T \ {x} : \A j \in T \ {x} : j <= m
        BY <3>2, <3>4
      <4>2. x \in Int /\ m \in Int /\ \A j \in T : j \in Int
        OBVIOUS
      <4>3. CASE x <= m
        BY <4>1, <4>2, <4>3
      <4>4. CASE m <= x
        <5>1. \A j \in T : j <= x
          BY <4>1, <4>2, <4>4
        <5>2. QED BY <5>1
      <4>5. QED BY <4>2, <4>3, <4>4
    <3>5. QED BY <3>3, <3>4
  <2>3. QED BY <2>1, <2>2
<1>3. I \in G
  <2> HIDE DEF G
  <2>1. \A T \in SUBSET (1 .. n) : (\A U \in SUBSET T : U # T => U \in G) => T \in G
    BY ONLY <1>2
  <2>2. \A T \in SUBSET (1 .. n) : T \in G
    BY ONLY <1>1, <2>1, EveryPart
  <2>3. QED BY ONLY <2>2, I \in SUBSET (1 .. n)
<1>4. QED BY <1>3

\* The row of a case in a payload that covers the suite is the last one with it.
LEMMA RowIsLast ==
    ASSUME NEW rows, rows \in Seq(Range(rows)), CoversSuite(rows), NEW c \in Cases
    PROVE  \E i \in DOMAIN rows : /\ rows[i].case = c /\ RowOf(rows, c) = rows[i]
                                  /\ \A j \in DOMAIN rows : rows[j].case = c => j <= i
<1> DEFINE I == {i \in DOMAIN rows : rows[i].case = c}
<1>1. DOMAIN rows = 1 .. Len(rows) /\ Len(rows) \in Nat
  OBVIOUS
<1>2. I \in SUBSET (1 .. Len(rows)) /\ I # {}
  BY <1>1 DEF CoversSuite
<1>3. PICK i \in I : \A j \in I : j <= i
  <2> HIDE DEF I
  <2>1. QED BY <1>1, <1>2, LastPlace
<1>4. \E k \in DOMAIN rows : rows[k].case = c /\ \A j \in DOMAIN rows : rows[j].case = c => j <= k
  BY <1>3
<1>5. QED BY <1>4 DEF RowOf

\* An external system that executed: its own process printed a payload that parses.
LEMMA ExternalEntry ==
    ASSUME Counted, Reported, NEW s \in Executed(Entries(reports)) \ {Marciana}
    PROVE  LET what == truth.what[s] IN
           /\ what \in Processes /\ what.ended = "printed" /\ ~ Malformed(what.payload, args.version)
           /\ Entries(reports)[s] = Entry(s, "executed", Parsed(what.payload, args.version))
<1>1. s \in DOMAIN Entries(reports) /\ Entries(reports)[s].status = "executed"
  BY DEF Executed
<1>2. PICK e : e = Entries(reports)[s]
  OBVIOUS
<1>3. Own(e) /\ e.system = s /\ s # Marciana /\ e.status = "executed"
  BY <1>1, <1>2, EntryIsOwn
<1>4. truth.what[s] \in Processes /\ e = ExecuteExternal(s, args.version, truth.what[s])
  BY <1>3 DEF Own
<1>5. PICK what : what = truth.what[s]
  OBVIOUS
<1>6. ExecuteExternal(s, args.version, what).status = "executed"
  BY <1>3, <1>4, <1>5
<1>7. /\ what.ended = "printed" /\ ~ Malformed(what.payload, args.version)
      /\ e = Entry(s, "executed", Parsed(what.payload, args.version))
  <2>1. /\ Entry(s, "unavailable", Nothing).status # "executed"
        /\ Entry(s, "error", Nothing).status # "executed"
    BY DEF Entry
  <2>2. CASE what.ended = "unconfigured"
    BY <1>6, <2>1, <2>2 DEF ExecuteExternal
  <2>3. CASE what.ended = "printed" /\ ~ Malformed(what.payload, args.version)
    BY <1>4, <1>5, <2>3 DEF ExecuteExternal
  <2>4. CASE /\ what.ended # "unconfigured"
             /\ ~ (what.ended = "printed" /\ ~ Malformed(what.payload, args.version))
    BY <1>6, <2>1, <2>4 DEF ExecuteExternal
  <2>5. QED BY <2>2, <2>3, <2>4
<1>8. QED BY <1>2, <1>4, <1>5, <1>7

\* A credited case has a row of its own that says so, the only one of a case that was
\* reported once.
LEMMA InvOwnsCredit == RunnerInv => CreditIsOwn
<1> SUFFICES ASSUME RunnerInv, Written, NEW s \in Executed(Report.systems) \ {Marciana}
             PROVE  LET what == truth.what[s]
                        rows == what.payload.rows
                    IN /\ what.ended = "printed"
                       /\ \A c \in Cases :
                            (Cell(Report.systems[s].parsed.rows[c]) = "correct" /\ ReportedOnce(rows, c)) =>
                                \E i \in DOMAIN rows : rows[i].case = c /\ rows[i].correct /\ rows[i].supported
  BY DEF CreditIsOwn
<1>0. Report.systems = Entries(reports)
  BY DEF RunnerInv, Recorded, BuildReport
<1>1. PICK what : what = truth.what[s]
  OBVIOUS
<1>2. /\ what \in Processes /\ what.ended = "printed" /\ ~ Malformed(what.payload, args.version)
      /\ Report.systems[s] = Entry(s, "executed", Parsed(what.payload, args.version))
  BY <1>0, <1>1, ExternalEntry DEF RunnerInv
<1>3. PICK rows : rows = what.payload.rows
  OBVIOUS
<1>4. rows \in Seq(Range(rows)) /\ CoversSuite(rows)
  BY <1>2, <1>3 DEF Malformed, RunnerInv, Counted, RunnerAssumption
<1>5. ASSUME NEW c \in Cases, Cell(Report.systems[s].parsed.rows[c]) = "correct"
      PROVE  \E i \in DOMAIN rows : rows[i].case = c /\ rows[i].correct /\ rows[i].supported
  <2>1. PICK row : row = RowOf(rows, c)
    OBVIOUS
  <2>2. Report.systems[s].parsed.rows[c] =
           [correct |-> row.correct, supported |-> row.supported, text |-> row.text]
    BY <1>2, <1>3, <2>1 DEF Entry, Parsed
  <2>3. row.correct /\ row.supported
    BY <1>5, <2>2 DEF Cell
  <2>4. \E i \in DOMAIN rows : /\ rows[i].case = c /\ RowOf(rows, c) = rows[i]
                                /\ \A j \in DOMAIN rows : rows[j].case = c => j <= i
    BY ONLY <1>4, c \in Cases, RowIsLast
  <2>5. QED BY ONLY <2>1, <2>3, <2>4
<1>6. QED BY <1>1, <1>2, <1>3, <1>5

\* No system is credited with a case unless its own process printed, in this
\* invocation, a payload whose one row for the case says so (adapters.py
\* execute_external, _parse_external_outcomes).
THEOREM CreditHolds == Spec => []CreditIsOwn
BY RunnerStays, InvOwnsCredit, PTL
-----------------------------------------------------------------------------
(* The document. *)

\* A finite set with a total transitive relation has a member that all the others
\* precede.
LEMMA LastMember ==
    ASSUME NEW S, IsFiniteSet(S), S # {}, NEW Q,
           \A x, y \in S : x # y => <<x, y>> \in Q \/ <<y, x>> \in Q,
           \A x, y, z \in S : x # z /\ <<x, y>> \in Q /\ <<y, z>> \in Q => <<x, z>> \in Q
    PROVE  \E m \in S : \A x \in S \ {m} : <<x, m>> \in Q
<1> DEFINE G == {T \in SUBSET S : T # {} => \E m \in T : \A x \in T \ {m} : <<x, m>> \in Q}
<1>1. ASSUME NEW T \in SUBSET S, \A U \in SUBSET T : U # T => U \in G PROVE T \in G
  <2>1. CASE T = {}
    BY <2>1
  <2>2. CASE T # {}
    <3>1. PICK x \in T : TRUE
      BY <2>2
    <3>2. T \ {x} \in G
      <4>1. T \ {x} \in SUBSET T /\ T \ {x} # T
        BY <3>1
      <4> HIDE DEF G
      <4>2. QED BY ONLY <1>1, <4>1
    <3>3. CASE T \ {x} = {}
      <4>1. \A y \in T \ {x} : <<y, x>> \in Q
        BY <3>3
      <4>2. QED BY <4>1
    <3>4. CASE T \ {x} # {}
      <4>1. PICK m \in T \ {x} : \A y \in (T \ {x}) \ {m} : <<y, m>> \in Q
        BY <3>2, <3>4
      <4>2. CASE <<x, m>> \in Q
        <5>1. \A y \in T \ {m} : <<y, m>> \in Q
          BY <4>1, <4>2
        <5>2. QED BY <4>1, <5>1
      <4>3. CASE <<m, x>> \in Q
        <5>1. \A y \in T \ {x} : <<y, x>> \in Q
          BY <4>1, <4>3
        <5>2. QED BY <5>1
      <4>4. QED BY <4>1, <4>2, <4>3
    <3>5. QED BY <3>3, <3>4
  <2>3. QED BY <2>1, <2>2
<1>2. S \in G
  <2> HIDE DEF G
  <2>1. \A T \in SUBSET S : (\A U \in SUBSET T : U # T => U \in G) => T \in G
    BY ONLY <1>1
  <2>2. \A T \in SUBSET S : T \in G
    BY ONLY IsFiniteSet(S), <2>1, EveryPart
  <2>3. QED BY ONLY <2>2
<1>3. QED BY <1>2

\* A ranking of a set: every member once, in the order of the relation.
Ranking(f, S, Q) == /\ f \in [1 .. Cardinality(S) -> S] /\ IsInjective(f)
                    /\ \A i, j \in 1 .. Cardinality(S) : i < j => <<f[i], f[j]>> \in Q

\* A finite set with a total transitive relation can be ranked: the last member is put
\* behind a ranking of the others.
LEMMA RankingExists ==
    ASSUME NEW S, IsFiniteSet(S), NEW Q,
           \A x, y \in S : x # y => <<x, y>> \in Q \/ <<y, x>> \in Q,
           \A x, y, z \in S : x # z /\ <<x, y>> \in Q /\ <<y, z>> \in Q => <<x, z>> \in Q
    PROVE  \E f : Ranking(f, S, Q)
<1> DEFINE G == {T \in SUBSET S : \E f : Ranking(f, T, Q)}
<1>1. ASSUME NEW T \in SUBSET S, \A U \in SUBSET T : U # T => U \in G PROVE T \in G
  <2>0. IsFiniteSet(T)
    BY FS_Subset
  <2>1. CASE T = {}
    <3>1. Cardinality(T) = 0
      BY <2>1, FS_EmptySet
    <3>2. Ranking([i \in 1 .. 0 |-> i], T, Q)
      BY <3>1 DEF Ranking, IsInjective
    <3>3. QED BY <3>2
  <2>2. CASE T # {}
    <3>1. PICK m \in T : \A x \in T \ {m} : <<x, m>> \in Q
      <4>1. /\ \A x, y \in T : x # y => <<x, y>> \in Q \/ <<y, x>> \in Q
            /\ \A x, y, z \in T : x # z /\ <<x, y>> \in Q /\ <<y, z>> \in Q => <<x, z>> \in Q
        OBVIOUS
      <4>2. QED BY <2>0, <2>2, <4>1, LastMember
    <3>2. PICK U : U = T \ {m}
      OBVIOUS
    <3>3. PICK f : Ranking(f, U, Q)
      BY <1>1, <3>1, <3>2
    <3>4. PICK n \in Nat : n = Cardinality(U) /\ Cardinality(T) = n + 1
      <4>1. IsFiniteSet(U) /\ Cardinality(U) = Cardinality(T) - 1
        BY <2>0, <3>1, <3>2, FS_RemoveElement
      <4>2. Cardinality(U) \in Nat /\ Cardinality(T) \in Nat
        BY <2>0, <4>1, FS_CardinalityType
      <4>3. QED BY <4>1, <4>2
    <3>5. /\ f \in [1 .. n -> U] /\ \A i, j \in 1 .. n : f[i] = f[j] => i = j
          /\ \A i, j \in 1 .. n : i < j => <<f[i], f[j]>> \in Q
      BY <3>3, <3>4 DEF Ranking, IsInjective
    <3>6. PICK g : g = [i \in 1 .. n + 1 |-> IF i = n + 1 THEN m ELSE f[i]]
      OBVIOUS
    <3>7. /\ \A i \in 1 .. n + 1 : i = n + 1 \/ i \in 1 .. n
          /\ \A i \in 1 .. n : i \in 1 .. n + 1 /\ i # n + 1 /\ g[i] = f[i] /\ f[i] \in T \ {m}
          /\ n + 1 \in 1 .. n + 1 /\ g[n + 1] = m /\ m \in T
      BY <3>1, <3>2, <3>5, <3>6
    <3>8. g \in [1 .. n + 1 -> T]
      BY <3>6, <3>7
    <3>9. ASSUME NEW i \in 1 .. n + 1, NEW j \in 1 .. n + 1
          PROVE  (g[i] = g[j] => i = j) /\ (i < j => <<g[i], g[j]>> \in Q)
      <4>1. CASE i \in 1 .. n /\ j \in 1 .. n
        BY <3>5, <3>7, <4>1
      <4>2. CASE i \in 1 .. n /\ j = n + 1
        BY <3>1, <3>7, <4>2
      <4>3. CASE i = n + 1
        <5>1. ~ (i < j)
          BY <4>3
        <5>2. j \in 1 .. n \/ j = i
          BY <3>7, <4>3
        <5>3. QED BY <3>7, <4>3, <5>1, <5>2
      <4>4. QED BY <3>7, <4>1, <4>2, <4>3
    <3>10. Ranking(g, T, Q)
      BY <3>4, <3>8, <3>9 DEF Ranking, IsInjective
    <3>11. QED BY <3>10
  <2>3. QED BY <2>1, <2>2
<1>2. S \in G
  <2> HIDE DEF G
  <2>1. \A T \in SUBSET S : T \in G
    BY <1>1, EveryPart
  <2>2. QED BY <2>1
<1>3. QED BY <1>2

\* Every member of the set is ranked.
LEMMA RankingCovers ==
    ASSUME NEW S, IsFiniteSet(S), NEW Q, NEW f, Ranking(f, S, Q)
    PROVE  Len(f) = Cardinality(S) /\ Range(f) = S /\ DOMAIN f = 1 .. Cardinality(S) /\ f \in Seq(S)
<1>1. PICK n \in Nat : n = Cardinality(S)
  BY FS_CardinalityType
<1>2. f \in [1 .. n -> S] /\ f \in Injection(1 .. n, S)
  BY <1>1 DEF Ranking, Injection
<1>3. f \in Seq(S) /\ Len(f) = n /\ DOMAIN f = 1 .. n
  BY <1>2
<1>4. IsFiniteSet(1 .. n) /\ Cardinality(1 .. n) = n
  BY FS_Interval
<1>5. f \in Surjection(1 .. n, S)
  BY <1>1, <1>2, <1>4, FS_Injection
<1>6. Range(f) = S
  BY <1>2, <1>5 DEF Surjection, Range
<1>7. QED BY <1>1, <1>3, <1>6

\* Ratios are compared by cross-multiplication.
LEMMA CrossOrder ==
    ASSUME NEW a \in Nat, NEW b \in Nat, NEW c \in Nat, NEW d \in Nat, NEW e \in Nat, NEW f \in Nat,
           b > 0, d > 0, f > 0, a * d >= c * b, c * f >= e * d
    PROVE  /\ a * f >= e * b
           /\ a * d > c * b \/ c * f > e * d => a * f > e * b
<1>1. /\ a * d \in Nat /\ c * b \in Nat /\ c * f \in Nat /\ e * d \in Nat /\ a * f \in Nat /\ e * b \in Nat
  OBVIOUS
<1>2. \A x, y, z \in Nat : x >= y => x * z >= y * z
  OBVIOUS
<1>3. \A x, y, z \in Nat : x > y /\ z > 0 => x * z > y * z
  OBVIOUS
<1>4. (a * d) * f >= (c * b) * f /\ (c * f) * b >= (e * d) * b
  BY <1>1, <1>2
<1>5. /\ (a * d) * f = (a * f) * d /\ (c * b) * f = (c * f) * b /\ (e * d) * b = (e * b) * d
      /\ (a * d) * f \in Nat /\ (c * b) * f \in Nat /\ (e * d) * b \in Nat
  OBVIOUS
<1>6. (a * f) * d >= (e * b) * d
  BY <1>4, <1>5
<1>7. a * f >= e * b
  <2>1. e * b > a * f => (e * b) * d > (a * f) * d
    BY <1>1, <1>3
  <2>2. QED BY <1>1, <1>5, <1>6, <2>1
<1>8. ASSUME a * d > c * b \/ c * f > e * d PROVE a * f > e * b
  <2>1. (a * d) * f > (c * b) * f \/ (c * f) * b > (e * d) * b
    BY <1>1, <1>3, <1>8
  <2>2. (a * f) * d > (e * b) * d
    BY <1>4, <1>5, <2>1
  <2>3. e * b >= a * f => (e * b) * d >= (a * f) * d
    BY <1>1, <1>2
  <2>4. QED BY <1>1, <1>5, <2>2, <2>3
<1>9. QED BY <1>7, <1>8

\* What a report must be to be ranked.
Rankable(report) ==
    /\ RunnerAssumption /\ IsFiniteSet(DOMAIN report.systems)
    /\ DOMAIN report.systems \subseteq {Marciana} \cup Externals
    /\ \A s \in Executed(report.systems) : DOMAIN report.systems[s].parsed.rows = Cases

\* The accuracy of a system, as a fraction, and how two of them compare.
Right(report, s) == Accuracy(report.systems[s].parsed.rows).right
Supported(report, s) == Accuracy(report.systems[s].parsed.rows).of
Base(report, s)  == IF Supported(report, s) = 0 THEN 1 ELSE Supported(report, s)
Share(report, s, t) == Right(report, s) * Base(report, t)

\* The accuracy of an executed system is a fraction of natural numbers.
LEMMA SharesCompare ==
    ASSUME NEW report, Rankable(report), NEW s \in Executed(report.systems)
    PROVE  Right(report, s) \in Nat /\ Supported(report, s) \in Nat
           /\ Base(report, s) \in Nat /\ Base(report, s) > 0
<1>1. PICK rows : rows = report.systems[s].parsed.rows
  OBVIOUS
<1>2. DOMAIN rows = Cases /\ IsFiniteSet(Cases)
  BY <1>1, CasesAreFinite DEF Rankable
<1>3. PICK supported : supported = {c \in DOMAIN rows : rows[c].supported}
  OBVIOUS
<1>4. IsFiniteSet(supported) /\ IsFiniteSet({c \in supported : rows[c].correct})
  <2>1. IsFiniteSet(supported)
    BY <1>2, <1>3, FS_Subset
  <2>2. {c \in supported : rows[c].correct} \in SUBSET supported
    OBVIOUS
  <2>3. QED BY <2>1, <2>2, FS_Subset
<1>5. /\ Right(report, s) = Cardinality({c \in supported : rows[c].correct})
      /\ Supported(report, s) = Cardinality(supported)
  BY <1>1, <1>3 DEF Right, Supported, Accuracy
<1>6. Right(report, s) \in Nat /\ Supported(report, s) \in Nat
  BY <1>4, <1>5, FS_CardinalityType
<1>7. QED BY <1>6 DEF Base

\* The order of the rows of a table, spelled out.
LEMMA BeforeMeans ==
    ASSUME NEW report, NEW s, NEW t
    PROVE  LET D(u) == u \in Executed(report.systems)
               F(u) == IsReference(report.benchmark, u)
           IN Before(report, s, t) <=>
                \/ D(s) /\ ~ D(t)
                \/ ~ D(s) /\ ~ D(t) /\ Priority[s] < Priority[t]
                \/ /\ D(s) /\ D(t)
                   /\ \/ F(s) /\ ~ F(t)
                      \/ /\ F(s) <=> F(t)
                         /\ \/ Share(report, s, t) > Share(report, t, s)
                            \/ /\ Share(report, s, t) = Share(report, t, s)
                               /\ Supported(report, s) > Supported(report, t)
                            \/ /\ Share(report, s, t) = Share(report, t, s)
                               /\ Supported(report, s) = Supported(report, t) /\ Priority[s] < Priority[t]
BY DEF Before, Share, Right, Base, Supported

\* Of two systems one comes first, and the order is transitive.
LEMMA BeforeOrders ==
    ASSUME NEW report, Rankable(report)
    PROVE  /\ \A s, t \in DOMAIN report.systems : s # t => Before(report, s, t) \/ Before(report, t, s)
           /\ \A s, t, u \in DOMAIN report.systems :
                Before(report, s, t) /\ Before(report, t, u) => Before(report, s, u)
<1> DEFINE D(x) == x \in Executed(report.systems)
           F(x) == IsReference(report.benchmark, x)
<1>0. \A s, t \in DOMAIN report.systems :
        Priority[s] \in Nat /\ (Priority[s] = Priority[t] => s = t)
  BY DEF Rankable, RunnerAssumption
<1>1. ASSUME NEW s, NEW t, D(s), D(t)
      PROVE  /\ Share(report, s, t) \in Nat /\ Share(report, t, s) \in Nat
             /\ Supported(report, s) \in Nat /\ Supported(report, t) \in Nat
  BY <1>1, SharesCompare DEF Share
<1>2. ASSUME NEW s \in DOMAIN report.systems, NEW t \in DOMAIN report.systems, s # t
      PROVE  Before(report, s, t) \/ Before(report, t, s)
  <2>1. Priority[s] < Priority[t] \/ Priority[t] < Priority[s]
    BY <1>0, <1>2
  <2>2. CASE ~ (D(s) /\ D(t))
    BY <2>1, <2>2, BeforeMeans
  <2>3. CASE D(s) /\ D(t)
    <3>1. /\ \/ Share(report, s, t) > Share(report, t, s)
             \/ Share(report, t, s) > Share(report, s, t)
             \/ Share(report, s, t) = Share(report, t, s)
          /\ \/ Supported(report, s) > Supported(report, t)
             \/ Supported(report, t) > Supported(report, s)
             \/ Supported(report, s) = Supported(report, t)
      BY <1>1, <2>3
    <3>2. QED BY <2>1, <2>3, <3>1, BeforeMeans
  <2>4. QED BY <2>2, <2>3
<1>3. ASSUME NEW s \in DOMAIN report.systems, NEW t \in DOMAIN report.systems,
             NEW u \in DOMAIN report.systems, Before(report, s, t), Before(report, t, u)
      PROVE  Before(report, s, u)
  <2>1. Priority[s] < Priority[t] /\ Priority[t] < Priority[u] => Priority[s] < Priority[u]
    BY <1>0
  <2>2. CASE ~ (D(s) /\ D(t) /\ D(u))
    <3>1. CASE D(s)
      <4>1. ~ D(t) \/ ~ D(u)
        BY <2>2, <3>1
      <4>2. ~ D(u)
        BY <1>3, <4>1, BeforeMeans
      <4>3. QED BY <3>1, <4>2, BeforeMeans
    <3>2. CASE ~ D(s)
      <4>1. ~ D(t) /\ Priority[s] < Priority[t]
        BY <1>3, <3>2, BeforeMeans
      <4>2. ~ D(u) /\ Priority[t] < Priority[u]
        BY <1>3, <4>1, BeforeMeans
      <4>3. QED BY <2>1, <3>2, <4>1, <4>2, BeforeMeans
    <3>3. QED BY <3>1, <3>2
  <2>3. CASE D(s) /\ D(t) /\ D(u)
    <3>1. PICK st \in Nat, ts \in Nat, tu \in Nat, ut \in Nat, su \in Nat, us \in Nat :
            /\ st = Share(report, s, t) /\ ts = Share(report, t, s) /\ tu = Share(report, t, u)
            /\ ut = Share(report, u, t) /\ su = Share(report, s, u) /\ us = Share(report, u, s)
      BY <1>1, <2>3
    <3>2. st >= ts /\ tu >= ut => su >= us /\ (st > ts \/ tu > ut => su > us)
      <4>1. /\ Right(report, s) \in Nat /\ Base(report, s) \in Nat /\ Base(report, s) > 0
            /\ Right(report, t) \in Nat /\ Base(report, t) \in Nat /\ Base(report, t) > 0
            /\ Right(report, u) \in Nat /\ Base(report, u) \in Nat /\ Base(report, u) > 0
        BY <2>3, SharesCompare
      <4>2. QED BY <3>1, <4>1, CrossOrder DEF Share
    <3>3. PICK os \in Nat, ot \in Nat, ou \in Nat :
            os = Supported(report, s) /\ ot = Supported(report, t) /\ ou = Supported(report, u)
      BY <1>1, <2>3
    <3>4. \/ F(s) /\ ~ F(t)
          \/ (F(s) <=> F(t)) /\ (st > ts \/ (st = ts /\ (os > ot \/ (os = ot /\ Priority[s] < Priority[t]))))
      <4>1. \/ F(s) /\ ~ F(t)
            \/ /\ F(s) <=> F(t)
               /\ \/ Share(report, s, t) > Share(report, t, s)
                  \/ Share(report, s, t) = Share(report, t, s) /\ Supported(report, s) > Supported(report, t)
                  \/ /\ Share(report, s, t) = Share(report, t, s)
                     /\ Supported(report, s) = Supported(report, t) /\ Priority[s] < Priority[t]
        BY <1>3, <2>3, BeforeMeans
      <4> HIDE DEF F
      <4>2. QED BY <3>1, <3>3, <4>1
    <3>5. \/ F(t) /\ ~ F(u)
          \/ (F(t) <=> F(u)) /\ (tu > ut \/ (tu = ut /\ (ot > ou \/ (ot = ou /\ Priority[t] < Priority[u]))))
      <4>1. \/ F(t) /\ ~ F(u)
            \/ /\ F(t) <=> F(u)
               /\ \/ Share(report, t, u) > Share(report, u, t)
                  \/ Share(report, t, u) = Share(report, u, t) /\ Supported(report, t) > Supported(report, u)
                  \/ /\ Share(report, t, u) = Share(report, u, t)
                     /\ Supported(report, t) = Supported(report, u) /\ Priority[t] < Priority[u]
        BY <1>3, <2>3, BeforeMeans
      <4> HIDE DEF F
      <4>2. QED BY <3>1, <3>3, <4>1
    <3>6. CASE (F(s) /\ ~ F(t)) \/ (F(t) /\ ~ F(u))
      <4>1. F(s) /\ ~ F(u)
        BY <3>4, <3>5, <3>6
      <4>2. QED BY <2>3, <4>1, BeforeMeans
    <3>7. CASE (F(s) <=> F(t)) /\ (F(t) <=> F(u))
      <4>1. F(s) <=> F(u)
        BY <3>7
      <4>2. st >= ts /\ tu >= ut
        BY <3>4, <3>5, <3>7
      <4>3. su >= us /\ (st > ts \/ tu > ut => su > us)
        BY <3>2, <4>2
      <4>4. CASE su > us
        BY <2>3, <3>1, <4>1, <4>4, BeforeMeans
      <4>5. CASE ~ (su > us)
        <5>1. su = us /\ st = ts /\ tu = ut
          BY <4>2, <4>3, <4>5
        <5>2. /\ os > ot \/ (os = ot /\ Priority[s] < Priority[t])
              /\ ot > ou \/ (ot = ou /\ Priority[t] < Priority[u])
          BY <3>4, <3>5, <3>7, <5>1
        <5>3. os > ou \/ (os = ou /\ Priority[s] < Priority[u])
          BY <2>1, <5>2
        <5>4. QED BY <2>3, <3>1, <3>3, <4>1, <5>1, <5>3, BeforeMeans
      <4>6. QED BY <4>4, <4>5
    <3>8. QED BY <3>4, <3>5, <3>6, <3>7
  <2>4. QED BY <2>2, <2>3
<1>4. QED BY <1>2, <1>3

\* A table ranks every system it is about once, in the order of the table.
LEMMA RankedRanks ==
    ASSUME NEW report, Rankable(report), NEW S \in SUBSET DOMAIN report.systems
    PROVE  /\ Len(Ranked(report, S)) = Cardinality(S) /\ Range(Ranked(report, S)) = S
           /\ \A i, j \in DOMAIN Ranked(report, S) :
                i < j => Before(report, Ranked(report, S)[i], Ranked(report, S)[j])
           /\ \A i, j \in DOMAIN Ranked(report, S) : i \in Int /\ j \in Int
<1> DEFINE Q == {p \in S \X S : Before(report, p[1], p[2])}
<1>1. \A x, y \in S : <<x, y>> \in Q <=> Before(report, x, y)
  OBVIOUS
<1>2. IsFiniteSet(S)
  BY FS_Subset DEF Rankable
<1>3. /\ \A x, y \in S : x # y => <<x, y>> \in Q \/ <<y, x>> \in Q
      /\ \A x, y, z \in S : x # z /\ <<x, y>> \in Q /\ <<y, z>> \in Q => <<x, z>> \in Q
  <2> HIDE DEF Q
  <2> QED BY <1>1, BeforeOrders
<1>4. PICK f : Ranking(f, S, Q)
  <2> HIDE DEF Q
  <2> QED BY <1>2, <1>3, RankingExists
<1>5. /\ DOMAIN f = 1 .. Cardinality(S)
      /\ f \in SetToSeqs(S) /\ \A i, j \in DOMAIN f : i < j => Before(report, f[i], f[j])
  <2> HIDE DEF Q
  <2>1. f \in [1 .. Cardinality(S) -> S] /\ \A i, j \in 1 .. Cardinality(S) : f[i] = f[j] => i = j
    BY <1>4 DEF Ranking, IsInjective
  <2>2. f \in SetToSeqs(S)
    BY <2>1 DEF SetToSeqs
  <2>3. ASSUME NEW i \in 1 .. Cardinality(S), NEW j \in 1 .. Cardinality(S), i < j
        PROVE Before(report, f[i], f[j])
    <3>1. <<f[i], f[j]>> \in Q /\ f[i] \in S /\ f[j] \in S
      BY <1>4, <2>1, <2>3 DEF Ranking
    <3>2. QED BY <1>1, <3>1
  <2>4. QED BY <2>1, <2>2, <2>3
<1>6. PICK g : g = Ranked(report, S)
  OBVIOUS
<1>7. g \in SetToSeqs(S) /\ \A i, j \in DOMAIN g : i < j => Before(report, g[i], g[j])
  BY <1>5, <1>6 DEF Ranked
<1>8. g \in [1 .. Cardinality(S) -> S] /\ IsInjective(g)
  BY <1>7 DEF SetToSeqs, IsInjective
<1>9. Ranking(g, S, S \X S)
  BY <1>8 DEF Ranking
<1>10. Len(g) = Cardinality(S) /\ Range(g) = S /\ DOMAIN g = 1 .. Cardinality(S)
  BY <1>2, <1>9, RankingCovers
<1>11. QED BY <1>6, <1>7, <1>10

\* The report that an invocation wrote, as the document reads it.
LEMMA WrittenIsRankable ==
    ASSUME RunnerInv, Written
    PROVE  /\ Rankable(Report) /\ Report.systems = Entries(reports) /\ Report.benchmark = args.version
           /\ \A s \in Executed(Report.systems) :
                Report.systems[s].parsed.interface = "agent-loop" /\ args.version = 2 =>
                    Report.systems[s].parsed.harness \notin {"absent", "partial"}
<1>1. Report.systems = Entries(reports) /\ Report.benchmark = args.version /\ RunnerAssumption
  BY DEF RunnerInv, Recorded, BuildReport, Counted
<1>2. IsFiniteSet(DOMAIN Entries(reports))
  <2>1. PICK S : reports \in Seq(S)
    BY DEF RunnerInv, Reported
  <2>2. PICK names : names = [i \in DOMAIN reports |-> reports[i].system]
    OBVIOUS
  <2>3. names \in Seq(Range(names)) /\ Range(names) = {reports[i].system : i \in DOMAIN reports}
    BY <2>1, <2>2 DEF Range
  <2>4. QED BY <2>3, RangeIsFinite DEF Entries
<1>3. ASSUME NEW s \in DOMAIN Entries(reports)
      PROVE  s \in {Marciana} \cup Externals
  <2>1. PICK e : e = Entries(reports)[s]
    OBVIOUS
  <2>2. Own(e) /\ e.system = s
    BY <2>1, EntryIsOwn DEF RunnerInv
  <2>3. QED BY <2>2 DEF Own
<1>4. ASSUME NEW s \in Executed(Entries(reports))
      PROVE  /\ DOMAIN Entries(reports)[s].parsed.rows = Cases
             /\ Entries(reports)[s].parsed.interface = "agent-loop" /\ args.version = 2 =>
                    Entries(reports)[s].parsed.harness \notin {"absent", "partial"}
  <2>1. CASE s = Marciana
    <3>1. PICK e : e = Entries(reports)[s]
      OBVIOUS
    <3>2. Own(e) /\ e.system = s
      BY <3>1, EntryIsOwn DEF RunnerInv, Executed
    <3>3. e = ExecuteMarciana(truth.ref)
      BY <2>1, <3>2 DEF Own
    <3>4. DOMAIN e.parsed.rows = Cases /\ e.parsed.interface = "direct-api"
      BY <3>3 DEF ExecuteMarciana, Entry
    <3>5. QED BY <3>1, <3>4
  <2>2. CASE s # Marciana
    <3>1. PICK p : p = truth.what[s].payload
      OBVIOUS
    <3>2. Entries(reports)[s] = Entry(s, "executed", Parsed(p, args.version)) /\ ~ Malformed(p, args.version)
      BY <2>2, <3>1, ExternalEntry DEF RunnerInv
    <3>3. Entries(reports)[s].parsed = Parsed(p, args.version)
      BY <3>2 DEF Entry
    <3>4. DOMAIN Parsed(p, args.version).rows = Cases /\ Parsed(p, args.version).interface = Declared(p)
      BY DEF Parsed
    <3>5. args.version = 2 /\ Declared(p) = "agent-loop" =>
             Parsed(p, args.version).harness = p.harness /\ p.harness \notin {"absent", "partial"}
      BY <3>2 DEF Parsed, Malformed, HarnessRefused
    <3>6. QED BY <3>3, <3>4, <3>5
  <2>3. QED BY <2>1, <2>2
<1>5. QED BY <1>1, <1>2, <1>3, <1>4 DEF Rankable

\* The members of the section of a track are the executed systems of the track.
Members(report, track) == {s \in Executed(report.systems) : Track(report, s) = track}

\* A section holds the systems of its track and their matrix.
LEMMA SectionMembers ==
    ASSUME NEW report, Rankable(report), NEW track
    PROVE  /\ Range(Section(report, track).members) = Members(report, track)
           /\ Section(report, track).track = track
           /\ Section(report, track).matrix = Matrix(report, Members(report, track))
           /\ Section(report, track).members = <<>> => Members(report, track) = {}
<1>1. Members(report, track) \in SUBSET DOMAIN report.systems
  BY DEF Members, Executed
<1>2. PICK m : m = Ranked(report, Members(report, track)) /\ Range(m) = Members(report, track)
  BY <1>1, RankedRanks
<1>3. /\ Section(report, track).members = m /\ Section(report, track).track = track
      /\ Section(report, track).matrix = Matrix(report, Members(report, track))
  BY <1>2 DEF Section, Members
<1>4. m = <<>> => Members(report, track) = {}
  BY <1>2 DEF Range
<1>5. QED BY <1>2, <1>3, <1>4

\* A system that executed is in the section of its track and in no other.
LEMMA OneSection ==
    ASSUME NEW report, Rankable(report), NEW s \in Executed(report.systems)
    PROVE  Cardinality({sec \in Sections(report) : s \in Range(sec.members)}) = 1
<1> DEFINE here == Section(report, Track(report, s))
<1>1. Track(report, s) \in {"memory-store", "agent-memory"}
  BY DEF Track, TrackOf
<1>2. s \in Members(report, Track(report, s))
  BY DEF Members
<1>3. s \in Range(here.members) /\ here.members # <<>>
  BY <1>2, SectionMembers
<1>4. here \in Sections(report)
  <2> HIDE DEF here
  <2>1. here \in {Section(report, t) : t \in {"memory-store", "agent-memory"}}
    BY <1>1 DEF here
  <2>2. QED BY <1>3, <2>1 DEF Sections
<1>5. ASSUME NEW sec \in Sections(report), s \in Range(sec.members) PROVE sec = here
  <2>1. PICK t \in {"memory-store", "agent-memory"} : sec = Section(report, t)
    BY DEF Sections
  <2>2. s \in Members(report, t)
    BY <1>5, <2>1, SectionMembers
  <2>3. t = Track(report, s)
    BY <2>2 DEF Members
  <2>4. QED BY <2>1, <2>3
<1>6. {sec \in Sections(report) : s \in Range(sec.members)} = {here}
  <2> HIDE DEF here
  <2> QED BY <1>3, <1>4, <1>5
<1>7. QED BY <1>6, FS_Singleton

\* The document of a written report is sound.
LEMMA InvSoundDocument == RunnerInv => DocumentIsSound
<1> SUFFICES ASSUME RunnerInv, Written PROVE DocumentIsSound
  BY DEF DocumentIsSound
<1>0. PICK report : report = Report
  OBVIOUS
<1>1. /\ Rankable(report) /\ report.benchmark = args.version
      /\ \A s \in Executed(report.systems) :
            report.systems[s].parsed.interface = "agent-loop" /\ args.version = 2 =>
                report.systems[s].parsed.harness \notin {"absent", "partial"}
  BY <1>0, WrittenIsRankable
<1>2. ASSUME report.benchmark = 2
      PROVE  /\ \A s \in Executed(report.systems) :
                    Cardinality({sec \in Sections(report) : s \in Range(sec.members)}) = 1
             /\ \A sec \in Sections(report) : \A s \in Range(sec.members) :
                    /\ sec.track = "agent-memory" =>
                            report.systems[s].parsed.harness \notin {"absent", "partial"}
                    /\ \A c \in Cases : ~ report.systems[s].parsed.rows[c].supported =>
                            sec.matrix[c][s] = "unsupported"
             /\ RenderRefused(report) =>
                    \E s \in Executed(report.systems) : report.systems[s].parsed.version \in DOMAIN report.systems
  <2>1. \A s \in Executed(report.systems) :
           Cardinality({sec \in Sections(report) : s \in Range(sec.members)}) = 1
    BY <1>1, OneSection
  <2>2. ASSUME NEW sec \in Sections(report), NEW s \in Range(sec.members)
        PROVE  /\ sec.track = "agent-memory" => report.systems[s].parsed.harness \notin {"absent", "partial"}
               /\ \A c \in Cases : ~ report.systems[s].parsed.rows[c].supported => sec.matrix[c][s] = "unsupported"
    <3>1. PICK t \in {"memory-store", "agent-memory"} : sec = Section(report, t)
      BY DEF Sections
    <3>2. s \in Members(report, t) /\ sec.track = t /\ sec.matrix = Matrix(report, Members(report, t))
      BY <1>1, <2>2, <3>1, SectionMembers
    <3>3. s \in Executed(report.systems) /\ Track(report, s) = t
      BY <3>2 DEF Members
    <3>4. t = "agent-memory" => report.systems[s].parsed.interface = "agent-loop"
      BY <3>3 DEF Track, TrackOf
    <3>5. sec.track = "agent-memory" => report.systems[s].parsed.harness \notin {"absent", "partial"}
      BY <1>1, <1>2, <3>2, <3>3, <3>4
    <3>6. ASSUME NEW c \in Cases, ~ report.systems[s].parsed.rows[c].supported
          PROVE  sec.matrix[c][s] = "unsupported"
      <4>1. sec.matrix[c][s] = Cell(report.systems[s].parsed.rows[c])
        BY <3>2 DEF Matrix
      <4>2. QED BY <3>6, <4>1 DEF Cell
    <3>7. QED BY <3>5, <3>6
  <2>3. ASSUME RenderRefused(report)
        PROVE  \E s \in Executed(report.systems) : report.systems[s].parsed.version \in DOMAIN report.systems
    <3>1. PICK sec \in Sections(report) : \E s, t \in Named(report, sec) \cap Executed(report.systems) :
                                             Track(report, s) # Track(report, t)
      BY <2>3 DEF RenderRefused
    <3>2. PICK track \in {"memory-store", "agent-memory"} : sec = Section(report, track)
      BY DEF Sections
    <3>3. Range(sec.members) = Members(report, track)
      BY <1>1, <3>2, SectionMembers
    <3>4. PICK s \in Named(report, sec) \cap Executed(report.systems) : s \notin Range(sec.members)
      BY <3>1, <3>3 DEF Members
    <3>5. PICK m \in Range(sec.members) : s = report.systems[m].parsed.version
      BY <3>4 DEF Named
    <3>6. QED BY <3>3, <3>4, <3>5 DEF Members, Executed
  <2>4. QED BY <2>1, <2>2, <2>3
<1>3. PICK v1 : v1 = RenderV1(report).ranking
  OBVIOUS
<1>4. /\ Len(v1) = Cardinality(DOMAIN report.systems) /\ Range(v1) = DOMAIN report.systems
      /\ \A i, j \in DOMAIN v1 : i < j => Before(report, v1[i], v1[j])
      /\ \A i, j \in DOMAIN v1 : i \in Int /\ j \in Int
  <2>1. v1 = Ranked(report, DOMAIN report.systems)
    BY <1>3 DEF RenderV1
  <2>2. QED BY <1>1, <2>1, RankedRanks
<1>5. ASSUME NEW i \in DOMAIN v1, NEW j \in DOMAIN v1,
             v1[i] \notin Executed(report.systems), v1[j] \in Executed(report.systems)
      PROVE  j < i
  <2>1. i # j /\ i \in Int /\ j \in Int
    BY <1>4, <1>5
  <2>2. ~ Before(report, v1[i], v1[j])
    BY <1>5, BeforeMeans
  <2>3. QED BY <1>4, <2>1, <2>2
<1>6. QED BY <1>0, <1>2, <1>3, <1>4, <1>5 DEF DocumentIsSound

\* The document of a report: in v2 every executed system stands in one section, no
\* row is in the agent-memory section without the attestation, and unsupported cases
\* stay unsupported; a v1 document ranks every system once, those that did not
\* execute last (render_results.py render_v1, render_v2, ranked).
THEOREM DocumentHolds == Spec => []DocumentIsSound
BY RunnerStays, InvSoundDocument, PTL
-----------------------------------------------------------------------------
(***************************************************************************)
(*                              The adapters                               *)
(***************************************************************************)

\* The numbers under which an item is written: of the process and of the reset.
Numbers == [process : Nat, reset : Nat]

\* The parts of the state are records, and the driver writes what the corpus and
\* the scenarios hold; whatever was promised to be gone had been written.
Shapes ==
    /\ adapter \in Adapters /\ ready \in BOOLEAN /\ clock \in Numbers
    /\ DOMAIN proc = {"ids", "generation", "agents", "granted", "root", "ledger"}
    /\ proc.generation \in Nat
    /\ DOMAIN ext = {"agents", "made", "acl", "nonces", "jobs"} /\ ext.made \in Nat
    /\ \A a \in ext.agents : a[2] \in Nat /\ a[2] < ext.made
    /\ ready => proc.agents \subseteq ext.agents

\* What the driver wrote in this case, and what the adapter remembers of it.
Books ==
    /\ IsFiniteSet(written) /\ written \subseteq {Given(m) : m \in Memories}
    /\ forgotten \subseteq written /\ proc.ids \subseteq written
    /\ adapter = "cognee" => ext.acl \subseteq {[to |-> "analyst", set |-> Dataset("operator", FALSE)]}

\* Every item carries the numbers under which it was written.
Stamped(x) ==
    /\ DOMAIN x = {"m", "space", "dead", "at"}
    /\ x.at \in Numbers /\ x.at.process <= clock.process /\ x.at.reset <= clock.reset
    /\ ready => /\ x.at.reset = clock.reset => x.at = clock
                /\ x.at # clock => survived

\* Where an item lies, and why an item of an earlier case is out of reach.
Placed(x) ==
    /\ adapter = "mem0" => x.space = User(x.m.owner)
    /\ adapter = "graphiti" =>
          /\ x.space[1] = x.m.owner /\ x.space[2] \in Nat
          /\ x.at.process = clock.process =>
                /\ x.space[2] <= proc.generation
                /\ ready /\ x.space[2] = proc.generation => x.at = clock
    /\ adapter = "cognee" => /\ x.space = Dataset(x.m.owner, x.m.private)
                             /\ x.m.private => x.m.owner = "operator"
    /\ adapter = "cognee-rs" => (ready /\ x.space[2] = proc.root => x.at = clock)
    /\ adapter = "letta" => x.space \in ext.agents /\ (ready /\ x.space \in proc.agents => x.at = clock)
    /\ adapter = "akka-fluree" => x.space = <<"ledger", x.at.reset>>

\* What was forgotten in this case is gone, or buried in the ledger.
Gone(x) == adapter # "letta" /\ x.at = clock /\ x.m \in forgotten => adapter = "akka-fluree" /\ x.dead

Store == \A x \in held : Stamped(x) /\ Placed(x) /\ Gone(x)

\* What the ledger of this case holds was written in it, a nonce that was
\* accepted is in it, and nothing improved stands beside what it replaces.
Supersedes(x, y) == x.m.id = Replacement.id /\ y.m.id = Replacement.supersedes
Ledger ==
    /\ accepted \in Seq({m.nonce : m \in Memories})
    /\ \A i, j \in DOMAIN accepted : accepted[i] = accepted[j] => i = j
    /\ adapter # "akka-fluree" => accepted = <<>>
    /\ adapter = "akka-fluree" =>
          /\ \A x, y \in held : x.space = y.space /\ Supersedes(x, y) => x.dead \/ y.dead
          /\ ready => /\ proc.ledger = clock.reset
                      /\ \A i \in DOMAIN accepted : <<accepted[i], proc.ledger>> \in ext.nonces
                      /\ \A x \in held : x.space = Here =>
                            /\ x.m \in written \cup {Replacement}
                            /\ x.m.id = Replacement.id =>
                                  \E w \in written : w.id = Replacement.supersedes

\* The inductive invariant.
AdaptersInv == Shapes /\ Books /\ Store /\ Ledger
-----------------------------------------------------------------------------
\* What each adapter claims.
LEMMA ClaimsAre ==
    ASSUME Shapes
    PROVE  /\ adapter \in {"mem0", "graphiti", "letta", "cognee", "cognee-rs", "akka-fluree"}
           /\ "isolation" \in Claims => adapter \in {"mem0", "graphiti", "cognee", "akka-fluree"}
           /\ "clearance" \in Claims => adapter = "cognee"
           /\ "forget" \in Claims => adapter \in {"mem0", "graphiti", "letta", "akka-fluree"}
           /\ "provenance" \in Claims => adapter = "akka-fluree"
           /\ "replay-protection" \in Claims => adapter = "akka-fluree"
           /\ "derived-tracking" \in Claims => adapter = "akka-fluree"
<1>1. adapter \in {"mem0", "graphiti", "letta", "cognee", "cognee-rs", "akka-fluree"}
  BY AdaptersAssumption DEF Shapes
<1>2. CASE adapter = "mem0"
  BY <1>2 DEF Claims
<1>3. CASE adapter = "graphiti"
  BY <1>3 DEF Claims
<1>4. CASE adapter = "letta"
  BY <1>4 DEF Claims
<1>5. CASE adapter = "cognee"
  BY <1>5 DEF Claims
<1>6. CASE adapter = "cognee-rs"
  BY <1>6 DEF Claims
<1>7. CASE adapter = "akka-fluree"
  BY <1>7 DEF Claims
<1>8. QED BY <1>1, <1>2, <1>3, <1>4, <1>5, <1>6, <1>7

\* Passing a memory on changes neither what identifies it nor whose it is.
LEMMA GivenKeeps ==
    ASSUME NEW m \in Memories
    PROVE  /\ Given(m).id = m.id /\ Given(m).owner = m.owner /\ Given(m).private = m.private
           /\ Given(m).nonce = m.nonce /\ Given(m).from = m.from
           /\ DOMAIN Given(m) = DOMAIN m
<1>1. DOMAIN m = {"id", "owner", "private", "from", "window", "nonce", "supersedes"}
  BY AdaptersAssumption
<1>2. QED BY <1>1 DEF Given

\* An identifier belongs to one memory, and not to the replacement.
LEMMA GivenOnce ==
    ASSUME NEW S \in SUBSET {Given(m) : m \in Memories},
           NEW v \in S, NEW m \in Memories
    PROVE  /\ v.id = m.id => v = Given(m)
           /\ v.id # Replacement.id /\ v # Replacement
           /\ v.private => v.owner = "operator"
<1>1. PICK n \in Memories : v = Given(n)
  OBVIOUS
<1>2. v.id = n.id /\ v.private = n.private /\ v.owner = n.owner
  BY <1>1, GivenKeeps
<1>3. v.id = m.id => n = m
  BY <1>2, AdaptersAssumption
<1>4. v.id # Replacement.id /\ (v.private => v.owner = "operator")
  BY <1>2, AdaptersAssumption
<1>5. QED BY <1>1, <1>3, <1>4

-----------------------------------------------------------------------------
(* Steps within a case                                                      *)

\* An item that was there, with nothing changed but that it may be buried.
Traces(x, y) == /\ DOMAIN x = {"m", "space", "dead", "at"}
                /\ x.m = y.m /\ x.space = y.space /\ x.at = y.at /\ (y.dead => x.dead)

\* A call that returns or raises leaves every item at its place, and adds one
\* under the numbers of the case.
LEMMA CaseKeepsStore ==
    ASSUME Shapes, Store, ready, ready' \in BOOLEAN, UNCHANGED <<adapter, clock, survived>>,
           proc'.generation = proc.generation, proc'.root = proc.root,
           ext.agents \subseteq ext'.agents,
           \A s \in ext.agents : s \in proc'.agents => s \in proc.agents,
           \A x \in held' : \/ \E y \in held : Traces(x, y)
                            \/ /\ DOMAIN x = {"m", "space", "dead", "at"} /\ x.at = clock
                               /\ Placed(x)'
    PROVE  \A x \in held' : (Stamped(x) /\ Placed(x))'
<1> SUFFICES ASSUME NEW x \in held' PROVE (Stamped(x) /\ Placed(x))'
  OBVIOUS
<1>0. clock \in Numbers /\ clock.process \in Nat /\ clock.reset \in Nat
  BY DEF Shapes, Numbers
<1>1. CASE \E y \in held : Traces(x, y)
  <2>1. PICK y \in held : Traces(x, y)
    BY <1>1
  <2>2. Stamped(y) /\ Placed(y)
    BY <2>1 DEF Store
  <2>3. Stamped(x)'
    BY <2>1, <2>2 DEF Stamped, Traces
  <2>4. Placed(x)'
    BY <2>1, <2>2 DEF Placed, Traces, User, Dataset
  <2>5. QED BY <2>3, <2>4
<1>2. CASE DOMAIN x = {"m", "space", "dead", "at"} /\ x.at = clock /\ Placed(x)'
  <2>1. Stamped(x)'
    BY <1>0, <1>2 DEF Stamped
  <2>2. QED BY <1>2, <2>1
<1>3. QED BY <1>1, <1>2

\* While nothing more is forgotten, what was stays gone.
LEMMA CaseKeepsGone ==
    ASSUME Store, UNCHANGED <<adapter, clock, forgotten>>,
           \A x \in held' : (\E y \in held : Traces(x, y)) \/ x.m \notin forgotten
    PROVE  \A x \in held' : Gone(x)'
BY DEF Store, Gone, Traces

\* Burying items keeps them.
LEMMA Buried ==
    ASSUME Store, NEW ids
    PROVE  /\ \A x \in Tombstoned(ids) : \E y \in held :
                 /\ Traces(x, y) /\ (x.dead <=> y.dead \/ (y.space = Here /\ y.m.id \in ids))
           /\ \A y \in held : \E x \in Tombstoned(ids) : Traces(x, y)
<1>1. ASSUME NEW y \in held
      PROVE  LET x == [y EXCEPT !.dead = @ \/ (y.space = Here /\ y.m.id \in ids)]
             IN Traces(x, y) /\ (x.dead <=> y.dead \/ (y.space = Here /\ y.m.id \in ids))
  <2>1. DOMAIN y = {"m", "space", "dead", "at"}
    BY DEF Store, Stamped
  <2>2. QED BY <2>1 DEF Traces
<1>2. QED BY <1>1 DEF Tombstoned

\* An item that is only kept is traced to itself.
LEMMA Kept ==
    ASSUME Store, NEW x \in held
    PROVE  Traces(x, x)
BY DEF Store, Stamped, Traces
-----------------------------------------------------------------------------
(* Init, a new process, reset                                               *)

\* Nothing is held when the first process starts.
LEMMA InitHolds == ASSUME AdaptersInit PROVE AdaptersInv
<1>1. Shapes
  BY DEF AdaptersInit, Shapes, FreshProcess, Numbers
<1>2. Books
  BY FS_EmptySet DEF AdaptersInit, Books, FreshProcess
<1>3. Store /\ Ledger
  BY DEF AdaptersInit, Store, Ledger
<1>4. QED BY <1>1, <1>2, <1>3 DEF AdaptersInv

\* A process that starts has reset nothing yet.
LEMMA NewProcessHolds == ASSUME AdaptersInv, NewProcess PROVE AdaptersInv'
<1> USE DEF AdaptersInv
<1>0. clock.process \in Nat /\ clock.reset \in Nat /\ clock \in Numbers
  BY DEF Shapes, Numbers
<1>1. /\ clock' \in Numbers /\ clock'.process = clock.process + 1 /\ clock'.reset = clock.reset
  BY <1>0 DEF NewProcess, Numbers
<1>2. Shapes'
  BY <1>1 DEF Shapes, NewProcess, FreshProcess
<1>3. Books'
  BY FS_EmptySet DEF Books, NewProcess, FreshProcess, Forgets, Dataset
<1>4. Store'
  <2> SUFFICES ASSUME NEW x \in held' PROVE (Stamped(x) /\ Placed(x) /\ Gone(x))'
    BY DEF Store
  <2>1. Stamped(x) /\ Placed(x)
    BY DEF Store, NewProcess
  <2>2. x.at.process \in Nat /\ x.at.reset \in Nat
    BY <2>1 DEF Stamped, Numbers
  <2>3. Stamped(x)'
    BY <1>0, <1>1, <2>1, <2>2 DEF Stamped, NewProcess
  <2>4. Placed(x)'
    BY <1>0, <1>1, <2>1, <2>2 DEF Placed, Stamped, NewProcess, User, Dataset
  <2>5. Gone(x)'
    BY DEF Gone, NewProcess, Forgets
  <2>6. QED BY <2>3, <2>4, <2>5
<1>5. Ledger'
  BY DEF Ledger, NewProcess, Forgets, Supersedes
<1>6. QED BY <1>2, <1>3, <1>4, <1>5

\* What a reset does to the numbers, and what it empties.
LEMMA ResetCounts ==
    ASSUME Shapes, clock' = [clock EXCEPT !.reset = @ + 1]
    PROVE  /\ clock' \in Numbers /\ clock'.process = clock.process /\ clock'.reset = clock.reset + 1
           /\ clock.process \in Nat /\ clock.reset \in Nat
           /\ DOMAIN Cleared = DOMAIN proc
           /\ Cleared.ids = {} /\ Cleared.agents = {}
           /\ Cleared.generation = proc.generation + 1 /\ Cleared.root = proc.root
           /\ Cleared.ledger = clock'.reset
<1>1. clock.process \in Nat /\ clock.reset \in Nat /\ clock \in Numbers
  BY DEF Shapes, Numbers
<1>2. DOMAIN proc = {"ids", "generation", "agents", "granted", "root", "ledger"}
  BY DEF Shapes
<1>3. QED BY <1>1, <1>2 DEF Numbers, Cleared

\* A reset that returns: what is left is of earlier cases, and out of reach
\* where the adapter took a new name or a new root.
LEMMA ResetReturnsHolds ==
    ASSUME AdaptersInv, clock' = [clock EXCEPT !.reset = @ + 1], UNCHANGED adapter,
           NEW left \in SUBSET held, ResetReturns(left),
           DOMAIN ext' = DOMAIN ext, ext'.made = ext.made, ext'.agents \subseteq ext.agents,
           ext'.acl \subseteq ext.acl,
           adapter = "letta" => \A x \in left : x.space \in ext'.agents,
           adapter = "cognee-rs" => \A x \in left : x.space[2] # proc.root
    PROVE  AdaptersInv'
<1> USE DEF AdaptersInv
<1>0. /\ clock' \in Numbers /\ clock'.process = clock.process /\ clock'.reset = clock.reset + 1
      /\ clock.process \in Nat /\ clock.reset \in Nat
      /\ proc' = Cleared /\ DOMAIN Cleared = DOMAIN proc
      /\ Cleared.ids = {} /\ Cleared.agents = {}
      /\ Cleared.generation = proc.generation + 1 /\ Cleared.root = proc.root
      /\ Cleared.ledger = clock'.reset
  BY ResetCounts DEF ResetReturns
<1>1. /\ held' = left /\ ready' = TRUE /\ survived' = (left # {})
      /\ written' = {} /\ forgotten' = {} /\ accepted' = <<>>
  BY DEF ResetReturns, Forgets
<1>2. Shapes'
  BY <1>0, <1>1 DEF Shapes
<1>3. Books'
  BY <1>0, <1>1, FS_EmptySet DEF Books, Dataset
<1>4. Store'
  <2> SUFFICES ASSUME NEW x \in left PROVE (Stamped(x) /\ Placed(x) /\ Gone(x))'
    BY <1>1 DEF Store
  <2>1. Stamped(x) /\ Placed(x)
    BY DEF Store
  <2>2. x.at.process \in Nat /\ x.at.reset \in Nat /\ x.at.reset <= clock.reset
    BY <2>1 DEF Stamped, Numbers
  <2>3. x.at.reset # clock'.reset /\ x.at.reset <= clock'.reset
    BY <1>0, <2>2
  <2>8. x.at # clock'
    BY <2>3
  <2>4. Stamped(x)'
    BY <1>0, <1>1, <2>1, <2>2, <2>3, <2>8 DEF Stamped
  <2>5. Placed(x)'
    BY <1>0, <1>1, <2>1, <2>2, <2>3, <2>8 DEF Placed, Shapes, User, Dataset
  <2>6. Gone(x)'
    BY <1>1 DEF Gone
  <2>7. QED BY <2>4, <2>5, <2>6
<1>5. Ledger'
  <2>1. adapter = "akka-fluree" => \A x \in left : x.space = <<"ledger", x.at.reset>>
                                                    /\ x.at.reset \in Nat /\ x.at.reset <= clock.reset
    BY DEF Store, Placed, Stamped, Numbers
  <2>2. adapter = "akka-fluree" => \A x \in left : x.space # <<"ledger", clock'.reset>>
    BY <1>0, <2>1
  <2>3. adapter = "akka-fluree" => \A x \in left : x.space # Here'
    BY <1>0, <2>2 DEF Here
  <2>4. QED BY <1>0, <1>1, <2>3 DEF Ledger, Supersedes
<1>6. QED BY <1>2, <1>3, <1>4, <1>5

\* A reset that raises, with anything or nothing done.
LEMMA ResetRaisesHolds ==
    ASSUME AdaptersInv, clock' = [clock EXCEPT !.reset = @ + 1], UNCHANGED <<adapter, survived>>,
           held' \subseteq held, Raise, proc' \in {proc, Cleared},
           DOMAIN ext' = DOMAIN ext, ext'.made = ext.made, ext'.agents \subseteq ext.agents,
           ext'.acl \subseteq ext.acl,
           adapter = "letta" => \A x \in held' : x.space \in ext'.agents,
           adapter = "cognee" => proc' = proc
    PROVE  AdaptersInv'
<1> USE DEF AdaptersInv
<1>0. /\ clock' \in Numbers /\ clock'.process = clock.process /\ clock'.reset = clock.reset + 1
      /\ clock.process \in Nat /\ clock.reset \in Nat
      /\ DOMAIN Cleared = DOMAIN proc
      /\ Cleared.ids = {} /\ Cleared.agents = {}
      /\ Cleared.generation = proc.generation + 1 /\ Cleared.root = proc.root
  BY ResetCounts
<1>1. /\ ready' = FALSE
      /\ written' = written /\ forgotten' = forgotten /\ accepted' = accepted
  BY DEF Raise
<1>2. /\ DOMAIN proc' = DOMAIN proc
      /\ proc'.generation \in {proc.generation, proc.generation + 1}
      /\ proc'.ids \in {proc.ids, {}}
  BY <1>0
<1>3. Shapes'
  <2>1. proc'.generation \in Nat
    BY <1>2 DEF Shapes
  <2>2. QED BY <1>0, <1>1, <1>2, <2>1 DEF Shapes
<1>4. Books'
  BY <1>0, <1>1, <1>2 DEF Books, Dataset, Given, Claims
<1>5. Store'
  <2> SUFFICES ASSUME NEW x \in held' PROVE (Stamped(x) /\ Placed(x) /\ Gone(x))'
    BY DEF Store
  <2>1. Stamped(x) /\ Placed(x)
    BY DEF Store
  <2>2. x.at.process \in Nat /\ x.at.reset \in Nat /\ x.at.reset <= clock.reset
    BY <2>1 DEF Stamped, Numbers
  <2>8. x.at.reset # clock'.reset /\ x.at.reset <= clock'.reset
    BY <1>0, <2>2
  <2>3. x.at # clock' /\ x.at.reset <= clock'.reset
    BY <2>8
  <2>4. Stamped(x)'
    BY <1>0, <1>1, <2>1, <2>3 DEF Stamped
  <2>5. Placed(x)'
    <3>1. proc.generation \in Nat
      BY DEF Shapes
    <3>2. QED BY <1>0, <1>1, <1>2, <2>1, <2>3, <3>1 DEF Placed, User, Dataset
  <2>6. Gone(x)'
    BY <2>3 DEF Gone
  <2>7. QED BY <2>4, <2>5, <2>6
<1>6. Ledger'
  BY <1>1 DEF Ledger, Supersedes
<1>7. QED BY <1>3, <1>4, <1>5, <1>6
\* The reset of each adapter is one of the two.
LEMMA ResetHolds == ASSUME AdaptersInv, Reset PROVE AdaptersInv'
<1> USE DEF AdaptersInv
<1>0. /\ clock' = [clock EXCEPT !.reset = @ + 1] /\ UNCHANGED adapter
      /\ DOMAIN ext = {"agents", "made", "acl", "nonces", "jobs"}
      /\ {} \subseteq held /\ held \subseteq held
      /\ adapter = "letta" => \A x \in held : x.space \in ext.agents
  BY DEF Reset, Shapes, Store, Placed
<1>1. CASE adapter = "mem0" /\ ResetMem0
  <2>1. PICK left \in {{}, held} : ResetReturns(left) /\ UNCHANGED ext
    BY <1>1 DEF ResetMem0
  <2>2. QED BY <1>0, <1>1, <2>1, ResetReturnsHolds
<1>2. CASE adapter = "graphiti" /\ ResetGraphiti
  <2>1. UNCHANGED ext
    BY <1>2 DEF ResetGraphiti
  <2>2. CASE Raise /\ UNCHANGED <<held, proc, survived>>
    BY <1>0, <1>2, <2>1, <2>2, ResetRaisesHolds
  <2>3. CASE \E left \in {{}, held} : ResetReturns(left)
    <3>1. PICK left \in {{}, held} : ResetReturns(left)
      BY <2>3
    <3>2. QED BY <1>0, <1>2, <2>1, <3>1, ResetReturnsHolds
  <2>4. CASE \E left \in {{}, held} : Raise /\ held' = left /\ proc' = Cleared /\ UNCHANGED survived
    <3>1. Raise /\ held' \subseteq held /\ proc' = Cleared /\ UNCHANGED survived
      BY <2>4
    <3>2. QED BY <1>0, <1>2, <2>1, <3>1, ResetRaisesHolds
  <2>5. QED BY <1>2, <2>2, <2>3, <2>4 DEF ResetGraphiti
<1>3. CASE adapter = "letta" /\ ResetLetta
  <2>1. CASE /\ proc.agents \subseteq ext.agents
             /\ ext' = [ext EXCEPT !.agents = @ \ proc.agents]
             /\ ResetReturns({x \in held : x.space \notin proc.agents})
    <3>1. /\ DOMAIN ext' = DOMAIN ext /\ ext'.made = ext.made /\ ext'.acl = ext.acl
          /\ ext'.agents = ext.agents \ proc.agents
      BY <1>0, <2>1
    <3>2. QED BY <1>0, <1>3, <2>1, <3>1, ResetReturnsHolds
  <2>2. CASE \E gone \in SUBSET (proc.agents \cap ext.agents) :
               /\ proc.agents # {}
               /\ ext' = [ext EXCEPT !.agents = @ \ gone]
               /\ held' = {x \in held : x.space \notin gone}
               /\ Raise /\ UNCHANGED <<proc, survived>>
    <3>1. PICK gone : /\ ext' = [ext EXCEPT !.agents = @ \ gone]
                      /\ held' = {x \in held : x.space \notin gone}
                      /\ Raise /\ UNCHANGED <<proc, survived>>
      BY <2>2
    <3>2. /\ DOMAIN ext' = DOMAIN ext /\ ext'.made = ext.made /\ ext'.acl = ext.acl
          /\ ext'.agents = ext.agents \ gone
      BY <1>0, <3>1
    <3>3. QED BY <1>0, <1>3, <3>1, <3>2, ResetRaisesHolds
  <2>3. QED BY <1>3, <2>1, <2>2 DEF ResetLetta
<1>4. CASE adapter = "cognee" /\ ResetCognee
  <2>1. PICK left \in {{}, held} :
             /\ ext' \in {ext} \cup IF left = {} THEN {[ext EXCEPT !.acl = {}]} ELSE {}
             /\ \/ ResetReturns(left)
                \/ Raise /\ held' = left /\ UNCHANGED <<proc, survived>>
    BY <1>4 DEF ResetCognee
  <2>2. /\ DOMAIN ext' = DOMAIN ext /\ ext'.made = ext.made /\ ext'.agents = ext.agents
        /\ ext'.acl \subseteq ext.acl
    BY <1>0, <2>1
  <2>3. CASE ResetReturns(left)
    BY <1>0, <1>4, <2>2, <2>3, ResetReturnsHolds
  <2>4. CASE Raise /\ held' = left /\ UNCHANGED <<proc, survived>>
    BY <1>0, <1>4, <2>2, <2>4, ResetRaisesHolds
  <2>5. QED BY <2>1, <2>3, <2>4
<1>5. CASE adapter = "cognee-rs" /\ ResetCogneeRs
  <2>1. CASE ResetReturns({x \in held : x.space[2] # proc.root})
    BY <1>0, <1>5, <2>1, ResetReturnsHolds DEF ResetCogneeRs
  <2>2. CASE Raise /\ UNCHANGED <<held, proc, survived>>
    BY <1>0, <1>5, <2>2, ResetRaisesHolds DEF ResetCogneeRs
  <2>3. QED BY <1>5, <2>1, <2>2 DEF ResetCogneeRs
<1>6. CASE adapter = "akka-fluree" /\ ResetAkka
  <2>1. CASE ResetReturns(held)
    BY <1>0, <1>6, <2>1, ResetReturnsHolds DEF ResetAkka
  <2>2. CASE Raise /\ proc' = Cleared /\ UNCHANGED <<held, survived>>
    BY <1>0, <1>6, <2>2, ResetRaisesHolds DEF ResetAkka
  <2>3. QED BY <1>6, <2>1, <2>2 DEF ResetAkka
<1>7. QED BY <1>1, <1>2, <1>3, <1>4, <1>5, <1>6, ClaimsAre DEF Reset

-----------------------------------------------------------------------------
(* The calls of a case                                                      *)

\* An agent that is created is a new one, and the process gets to know no other.
LEMMA AgentsOf ==
    ASSUME Shapes, ready, NEW p
    PROVE  /\ DOMAIN Serves(p) = DOMAIN ext /\ DOMAIN Knows(p) = DOMAIN proc
           /\ Serves(p).made \in Nat /\ ext.agents \subseteq Serves(p).agents
           /\ \A a \in Serves(p).agents : a[2] \in Nat /\ a[2] < Serves(p).made
           /\ Serves(p).acl = ext.acl /\ Serves(p).nonces = ext.nonces
           /\ proc.agents \subseteq ext.agents /\ Knows(p).agents \subseteq Serves(p).agents
           /\ \A s \in ext.agents : s \in Knows(p).agents => s \in proc.agents
           /\ Knows(p).ids = proc.ids /\ Knows(p).generation = proc.generation
           /\ Knows(p).root = proc.root
           /\ Knows(p).ledger = proc.ledger
           /\ Agents(p) = {} => NewAgent(p) \in Knows(p).agents
           /\ Agents(p) # {} => Knows(p) = proc
<1>1. /\ DOMAIN proc = {"ids", "generation", "agents", "granted", "root", "ledger"}
      /\ DOMAIN ext = {"agents", "made", "acl", "nonces", "jobs"} /\ ext.made \in Nat
      /\ \A a \in ext.agents : a[2] \in Nat /\ a[2] < ext.made
      /\ proc.agents \subseteq ext.agents
  BY DEF Shapes
<1>2. CASE Agents(p) # {}
  BY <1>1, <1>2 DEF Serves, Knows
<1>3. CASE Agents(p) = {}
  <2>1. /\ Serves(p) = [ext EXCEPT !.agents = @ \cup {NewAgent(p)}, !.made = @ + 1]
        /\ Knows(p) = [proc EXCEPT !.agents = @ \cup {NewAgent(p)}]
    BY <1>3 DEF Serves, Knows
  <2>2. /\ DOMAIN Serves(p) = DOMAIN ext /\ Serves(p).agents = ext.agents \cup {NewAgent(p)}
        /\ Serves(p).made = ext.made + 1 /\ Serves(p).acl = ext.acl /\ Serves(p).nonces = ext.nonces
    BY <1>1, <2>1
  <2>3. /\ DOMAIN Knows(p) = DOMAIN proc /\ Knows(p).agents = proc.agents \cup {NewAgent(p)}
        /\ Knows(p).ids = proc.ids /\ Knows(p).generation = proc.generation
        /\ Knows(p).root = proc.root /\ Knows(p).ledger = proc.ledger
    BY <1>1, <2>1
  <2>4. NewAgent(p)[2] = ext.made
    BY DEF NewAgent
  <2>5. \A a \in Serves(p).agents : a[2] \in Nat /\ a[2] < Serves(p).made
    BY <1>1, <2>2, <2>4
  <2>6. NewAgent(p) \notin ext.agents
    BY <1>1, <2>4
  <2>7. QED BY <1>1, <1>3, <2>2, <2>3, <2>5, <2>6
<1>4. QED BY <1>2, <1>3

\* What a call changes in the process and in the system, beside the items.
Turns == \/ UNCHANGED <<proc, ext>>
         \/ UNCHANGED proc /\ \E jobs : ext' = [ext EXCEPT !.jobs = jobs]
         \/ adapter = "letta" /\ \E p : ext' = Serves(p) /\ proc' \in {proc, Knows(p)}

\* A turn of the server leaves every number of the process as it is.
LEMMA TurnsKeep ==
    ASSUME Shapes, ready, Turns
    PROVE  /\ DOMAIN ext' = DOMAIN ext /\ DOMAIN proc' = DOMAIN proc
           /\ ext'.made \in Nat /\ ext.agents \subseteq ext'.agents
           /\ \A a \in ext'.agents : a[2] \in Nat /\ a[2] < ext'.made
           /\ ext'.acl = ext.acl /\ ext'.nonces = ext.nonces
           /\ proc'.agents \subseteq ext'.agents
           /\ \A s \in ext.agents : s \in proc'.agents => s \in proc.agents
           /\ proc'.ids = proc.ids /\ proc'.generation = proc.generation
           /\ proc'.root = proc.root
           /\ proc'.ledger = proc.ledger
<1>1. CASE UNCHANGED <<proc, ext>>
  BY <1>1 DEF Shapes
<1>2. CASE UNCHANGED proc /\ \E jobs : ext' = [ext EXCEPT !.jobs = jobs]
  BY <1>2 DEF Shapes
<1>3. CASE adapter = "letta" /\ \E p : ext' = Serves(p) /\ proc' \in {proc, Knows(p)}
  <2>1. PICK p : ext' = Serves(p) /\ proc' \in {proc, Knows(p)}
    BY <1>3
  <2>2. CASE proc' = proc
    BY <2>1, <2>2, AgentsOf
  <2>3. CASE proc' = Knows(p)
    BY <2>1, <2>3, AgentsOf
  <2>4. QED BY <2>1, <2>2, <2>3
<1>4. QED BY <1>1, <1>2, <1>3 DEF Turns

\* A call that brings no memory of the driver's: it may bury or lose items, and in
\* the ledger it may put the replacement where it buried what that replaces.
Replacing(x) == /\ adapter = "akka-fluree" /\ x = Item(Replacement, Here)
                /\ \E y \in held : y.space = Here /\ y.m.id = Replacement.supersedes
                /\ \A y \in held' : y.space = Here /\ y.m.id = Replacement.supersedes => y.dead

\* Such a call keeps the invariant.
LEMMA CallHolds ==
    ASSUME AdaptersInv, ready, ready' \in BOOLEAN, Turns,
           UNCHANGED <<adapter, clock, survived, written, accepted>>, forgotten' \subseteq written,
           \A x \in held' : (\E y \in held : Traces(x, y)) \/ Replacing(x),
           \A x \in held' : Gone(x)'
    PROVE  AdaptersInv'
<1> USE DEF AdaptersInv
<1>1. /\ DOMAIN ext' = DOMAIN ext /\ DOMAIN proc' = DOMAIN proc
      /\ ext'.made \in Nat /\ ext.agents \subseteq ext'.agents
      /\ \A a \in ext'.agents : a[2] \in Nat /\ a[2] < ext'.made
      /\ ext'.acl = ext.acl /\ ext'.nonces = ext.nonces
      /\ proc'.agents \subseteq ext'.agents
      /\ \A s \in ext.agents : s \in proc'.agents => s \in proc.agents
      /\ proc'.ids = proc.ids /\ proc'.generation = proc.generation
      /\ proc'.root = proc.root
      /\ proc'.ledger = proc.ledger
  BY TurnsKeep
<1>2. Shapes'
  BY <1>1 DEF Shapes
<1>3. Books'
  BY <1>1 DEF Books, Given, Claims, Dataset
<1>4. adapter = "akka-fluree" => Here' = Here /\ Here = <<"ledger", clock.reset>>
  BY <1>1 DEF Here, Ledger
<1>9. \A x : Replacing(x) => /\ adapter = "akka-fluree" /\ DOMAIN x = {"m", "space", "dead", "at"}
                              /\ x.m = Replacement /\ x.space = Here /\ x.at = clock
  <2>1. LET x == Item(Replacement, Here)
        IN DOMAIN x = {"m", "space", "dead", "at"} /\ x.m = Replacement /\ x.space = Here /\ x.at = clock
    BY DEF Item
  <2>2. QED BY <2>1 DEF Replacing
<1>5. \A x \in held' : Replacing(x) =>
         DOMAIN x = {"m", "space", "dead", "at"} /\ x.at = clock /\ Placed(x)'
  <2> SUFFICES ASSUME NEW x \in held', Replacing(x) PROVE Placed(x)'
    BY <1>9
  <2>1. adapter' = "akka-fluree" /\ x.space = <<"ledger", x.at.reset>>
    BY <1>4, <1>9
  <2>2. QED BY <2>1 DEF Placed
<1>6. Store'
  BY <1>1, <1>5, CaseKeepsStore DEF Store
<1>7. Ledger'
  <2>0. /\ Replacement.supersedes # Replacement.id
        /\ \A v \in written : v # Replacement
    BY GivenOnce, AdaptersAssumption DEF Shapes, Books
  <2>1. ASSUME adapter = "akka-fluree", NEW x \in held', NEW y \in held',
               x.space = y.space, Supersedes(x, y)
        PROVE  x.dead \/ y.dead
    <3>1. ~ Replacing(y)
      BY <2>0, <2>1, <1>9 DEF Replacing, Supersedes
    <3>2. PICK y0 \in held : Traces(y, y0)
      BY <3>1
    <3>3. CASE Replacing(x)
      BY <2>1, <3>3, <1>9 DEF Replacing, Supersedes
    <3>4. CASE \E x0 \in held : Traces(x, x0)
      <4>1. PICK x0 \in held : Traces(x, x0)
        BY <3>4
      <4>2. x0.space = y0.space /\ Supersedes(x0, y0)
        BY <2>1, <3>2, <4>1 DEF Traces, Supersedes
      <4>3. x0.dead \/ y0.dead
        BY <2>1, <4>2 DEF Ledger
      <4>4. QED BY <3>2, <4>1, <4>3 DEF Traces
    <3>5. QED BY <3>3, <3>4
  <2>2. ASSUME adapter = "akka-fluree", NEW x \in held', x.space = Here
        PROVE  /\ x.m \in written \cup {Replacement}
               /\ x.m.id = Replacement.id => \E w \in written : w.id = Replacement.supersedes
    <3>1. CASE Replacing(x)
      <4>1. PICK y \in held : y.space = Here /\ y.m.id = Replacement.supersedes
        BY <3>1 DEF Replacing
      <4>2. y.m \in written
        BY <2>0, <2>2, <4>1 DEF Ledger
      <4>3. QED BY <3>1, <4>1, <4>2, <1>9
    <3>2. CASE \E x0 \in held : Traces(x, x0)
      BY <2>2, <3>2 DEF Traces, Ledger
    <3>3. QED BY <3>1, <3>2
  <2>3. /\ accepted' = accepted /\ written' = written /\ adapter' = adapter /\ clock' = clock
    OBVIOUS
  <2>4. \A x, y : Supersedes(x, y)' <=> Supersedes(x, y)
    BY DEF Supersedes
  <2>5. QED BY <1>1, <1>4, <2>1, <2>2, <2>3, <2>4 DEF Ledger
<1>8. QED BY <1>2, <1>3, <1>6, <1>7
\* A recall reads, and may create the agent it asks.
LEMMA RecallHolds == ASSUME AdaptersInv, NEW p, Recall(p) PROVE AdaptersInv'
<1> USE DEF AdaptersInv
<1>1. /\ ready /\ UNCHANGED <<adapter, clock, survived, held, written, forgotten, accepted>>
      /\ ready' \in BOOLEAN /\ Turns
  BY DEF Recall, Raise, Turns
<1>2. \A x \in held' : (\E y \in held : Traces(x, y)) /\ Gone(x)'
  BY <1>1, Kept DEF Store, Gone
<1>3. forgotten' \subseteq written
  BY <1>1 DEF Books
<1>4. QED BY <1>1, <1>2, <1>3, CallHolds

\* A restart keeps what the system holds.
LEMMA RestartHolds == ASSUME AdaptersInv, Restart PROVE AdaptersInv'
<1> USE DEF AdaptersInv
<1>1. /\ ready /\ UNCHANGED <<adapter, clock, survived, held, written, forgotten, accepted>>
      /\ ready' \in BOOLEAN /\ Turns
  BY DEF Restart, Turns
<1>2. \A x \in held' : (\E y \in held : Traces(x, y)) /\ Gone(x)'
  BY <1>1, Kept DEF Store, Gone
<1>3. forgotten' \subseteq written
  BY <1>1 DEF Books
<1>4. QED BY <1>1, <1>2, <1>3, CallHolds

\* By its table an adapter deletes every item of the memory in this case.
LEMMA ForgetByTableHolds ==
    ASSUME AdaptersInv, ready, UNCHANGED <<adapter, clock, survived>>,
           NEW id, NEW p, ForgetByTable(id, p)
    PROVE  AdaptersInv'
<1> USE DEF AdaptersInv
<1> DEFINE known == {m \in proc.ids : m.id = id /\ (adapter = "graphiti" => m.owner = p)}
           left  == {x \in held : ~ (x.m \in known /\ x.at = clock)}
<1>1. /\ adapter \in {"mem0", "graphiti"} /\ UNCHANGED <<proc, ext>>
      /\ \/ held' = left /\ Forgotten(known # {}, id)
         \/ known # {} /\ Raise /\ held' \in {held, left}
  BY DEF ForgetByTable
<1>2. /\ UNCHANGED <<written, accepted>> /\ ready' \in BOOLEAN /\ Turns
      /\ forgotten' \subseteq written
  BY <1>1 DEF Forgotten, Raise, Books, Turns
<1>3. \A x \in held' : \E y \in held : Traces(x, y)
  BY <1>1, Kept
<1>4. "derived-tracking" \notin Claims
  BY <1>1, ClaimsAre
<1>5. ASSUME NEW x \in held' PROVE Gone(x)'
  <2>0. x \in held /\ Gone(x)
    BY <1>1 DEF Store
  <2>1. CASE Raise
    BY <2>0, <2>1 DEF Raise, Gone
  <2>2. CASE held' = left /\ Forgotten(known # {}, id)
    <3>1. CASE known = {}
      BY <2>0, <2>2, <3>1 DEF Forgotten, Gone
    <3>2. CASE known # {}
      <4>1. PICK k \in known : TRUE
        BY <3>2
      <4>2. k.id = id /\ k \in written
        BY <4>1 DEF Books
      <4>3. PICK n \in Memories : k = Given(n)
        BY <4>2 DEF Books
      <4>4. k.id = n.id
        BY <4>3, GivenKeeps DEF Shapes
      <4>5. \A m \in written : m.id = id => m = k
        BY <4>2, <4>3, <4>4, GivenOnce DEF Books
      <4>6. forgotten' = forgotten \cup {m \in written : m.id = id}
        BY <1>4, <2>2, <3>2 DEF Forgotten, Promised
      <4>7. x.at = clock => x.m \notin known
        BY <2>2
      <4>8. x.at = clock /\ x.m \in forgotten' => x.m \in forgotten
        BY <4>1, <4>5, <4>6, <4>7
      <4>9. QED BY <2>0, <4>8 DEF Gone
    <3>3. QED BY <3>1, <3>2
  <2>3. QED BY <1>1, <2>1, <2>2
<1>6. QED BY <1>2, <1>3, <1>5, CallHolds

\* The agent may delete anything of that name, and promises nothing to the rest.
LEMMA ForgetLettaHolds ==
    ASSUME AdaptersInv, ready, UNCHANGED <<adapter, clock, survived>>,
           NEW id, NEW p, ForgetLetta(id, p)
    PROVE  AdaptersInv'
<1> USE DEF AdaptersInv
<1>1. /\ adapter = "letta" /\ UNCHANGED <<written, accepted>> /\ ready' \in BOOLEAN /\ Turns
      /\ forgotten' \subseteq written /\ held' \subseteq held
  BY DEF ForgetLetta, Forgotten, Raise, Books, Turns
<1>2. \A x \in held' : (\E y \in held : Traces(x, y)) /\ Gone(x)'
  BY <1>1, Kept DEF Gone
<1>3. QED BY <1>1, <1>2, CallHolds

\* The ledger buries the fact and what is derived from it before it answers.
LEMMA ForgetAkkaHolds ==
    ASSUME AdaptersInv, ready, UNCHANGED <<adapter, clock, survived>>,
           NEW id, NEW p, ForgetAkka(id, p)
    PROVE  AdaptersInv'
<1> USE DEF AdaptersInv
<1>1. /\ adapter = "akka-fluree" /\ UNCHANGED <<proc, ext, written, accepted>>
      /\ ready' \in BOOLEAN /\ Turns /\ forgotten' \subseteq written
  BY DEF ForgetAkka, Forgotten, Raise, Books, Turns
<1>2. \/ held' \in {held, Tombstoned({id}), Tombstoned({id} \cup Derived(id))} /\ forgotten' = forgotten
      \/ /\ held' = Tombstoned({id} \cup Derived(id))
         /\ forgotten' = forgotten \cup {m \in written : Promised(m, id)}
  BY DEF ForgetAkka, Forgotten, Raise
<1>3. \A x \in held' : \E y \in held : Traces(x, y)
  BY <1>2, Kept, Buried
<1>4. ASSUME NEW x \in held' PROVE Gone(x)'
  <2>1. CASE forgotten' = forgotten
    BY <1>1, <1>3, <2>1, CaseKeepsGone
  <2>2. CASE held' = Tombstoned({id} \cup Derived(id))
             /\ forgotten' = forgotten \cup {m \in written : Promised(m, id)}
    <3>1. PICK y \in held : /\ Traces(x, y)
                            /\ x.dead <=> y.dead \/ (y.space = Here /\ y.m.id \in {id} \cup Derived(id))
      BY <2>2, Buried
    <3>2. CASE x.m \in forgotten
      BY <1>1, <3>1, <3>2 DEF Store, Gone, Traces
    <3>3. CASE x.m \notin forgotten
      <4> SUFFICES ASSUME x.at = clock, Promised(x.m, id) PROVE x.dead
        BY <1>1, <2>2, <3>3 DEF Gone
      <4>1. y.space = Here
        BY <1>1, <3>1 DEF Store, Placed, Ledger, Here, Traces
      <4>2. y.m.id \in {id} \cup Derived(id)
        BY <3>1, <4>1 DEF Promised, Derived, Traces
      <4>3. QED BY <3>1, <4>1, <4>2
    <3>4. QED BY <3>2, <3>3
  <2>3. QED BY <1>2, <2>1, <2>2
<1>5. QED BY <1>1, <1>3, <1>4, CallHolds

\* The forget of each adapter is one of the three.
LEMMA ForgetHolds == ASSUME AdaptersInv, NEW id, NEW p, Forget(id, p) PROVE AdaptersInv'
BY ForgetByTableHolds, ForgetLettaHolds, ForgetAkkaHolds DEF Forget

\* The guarded transaction buries what it replaces.
LEMMA ImproveHolds ==
    ASSUME AdaptersInv, NEW digest, NEW key, Improve(Replacement.supersedes, digest, key)
    PROVE  AdaptersInv'
<1> USE DEF AdaptersInv
<1> DEFINE id == Replacement.supersedes
           runs == Exists(id) /\ digest = id /\ Job(key) \notin ext.jobs
<1>0. "provenance" \in Claims /\ ready
  BY DEF Improve
<1>1. /\ adapter = "akka-fluree" /\ UNCHANGED <<adapter, clock, survived, proc, written, forgotten, accepted>>
      /\ ready' \in BOOLEAN /\ Turns
  BY <1>0, ClaimsAre DEF Improve, Turns
<1>2. \/ held' = held
      \/ Exists(id) /\ held' = Replaced(Replacement, id)
  BY DEF Improve
<1>3. forgotten' \subseteq written
  BY <1>1 DEF Books
<1>4. CASE held' = held
  <2>1. \A x \in held' : (\E y \in held : Traces(x, y)) /\ Gone(x)'
    BY <1>1, <1>4, Kept DEF Store, Gone
  <2>2. QED BY <1>0, <1>1, <1>3, <2>1, CallHolds
<1>5. CASE Exists(id) /\ held' = Replaced(Replacement, id)
  <2>1. Space(Replacement.owner, FALSE) = Here
    BY <1>1 DEF Space, Here
  <2>2. held' = Tombstoned({id}) \cup {Item(Replacement, Here)}
    BY <1>5, <2>1 DEF Replaced
  <2>3. /\ Item(Replacement, Here).m = Replacement /\ Replacement.id # id
        /\ Replacement \notin forgotten
    BY GivenOnce, AdaptersAssumption DEF Item, Shapes, Books
  <2>4. \A y \in held' : y.space = Here /\ y.m.id = id => y.dead
    <3>1. \A x \in Tombstoned({id}) : \E y \in held :
             Traces(x, y) /\ (x.dead <=> y.dead \/ (y.space = Here /\ y.m.id \in {id}))
      BY Buried
    <3>2. QED BY <2>2, <2>3, <3>1 DEF Traces
  <2>5. \E y \in held : y.space = Here /\ y.m.id = id
    BY <1>5 DEF Exists
  <2>6. \A x \in held' : (\E y \in held : Traces(x, y)) \/ Replacing(x)
    BY <1>1, <2>2, <2>4, <2>5, Buried DEF Replacing
  <2>7. \A x \in held' : (\E y \in held : Traces(x, y)) \/ x.m \notin forgotten
    BY <2>2, <2>3, Buried
  <2>8. \A x \in held' : Gone(x)'
    BY <1>1, <2>7, CaseKeepsGone
  <2>9. QED BY <1>0, <1>1, <1>3, <2>6, <2>8, CallHolds
<1>6. QED BY <1>2, <1>4, <1>5
-----------------------------------------------------------------------------
(* remember                                                                 *)

\* What the adapter's process knows after a write that returned.
Learned(m) == CASE adapter \in {"mem0", "graphiti"} -> [proc EXCEPT !.ids = @ \cup {m}]
                [] adapter = "letta"  -> Knows(m.owner)
                [] adapter = "cognee" -> [proc EXCEPT !.granted = @ \/ Grants(m, Stored(m))]
                [] OTHER -> proc

\* What a write changes in the process and in the system, whether it returns or
\* raises.
LEMMA WriteTurns ==
    ASSUME Shapes, ready, NEW m,
           ext' = Noted(m) \/ (ext' = ext /\ proc' = proc), proc' \in {proc, Learned(m)}
    PROVE  /\ DOMAIN ext' = DOMAIN ext /\ DOMAIN proc' = DOMAIN proc
           /\ ext'.made \in Nat /\ ext.agents \subseteq ext'.agents
           /\ \A a \in ext'.agents : a[2] \in Nat /\ a[2] < ext'.made
           /\ proc'.agents \subseteq ext'.agents
           /\ \A s \in ext.agents : s \in proc'.agents => s \in proc.agents
           /\ proc'.generation = proc.generation /\ proc'.root = proc.root
           /\ proc'.ledger = proc.ledger
           /\ adapter = "letta" /\ ext' = Noted(m) => Knows(m.owner).agents \subseteq ext'.agents
<1>1. /\ DOMAIN proc = {"ids", "generation", "agents", "granted", "root", "ledger"}
      /\ DOMAIN ext = {"agents", "made", "acl", "nonces", "jobs"} /\ ext.made \in Nat
      /\ \A a \in ext.agents : a[2] \in Nat /\ a[2] < ext.made
      /\ proc.agents \subseteq ext.agents
  BY DEF Shapes
<1>2. CASE adapter = "letta"
  <2>1. Noted(m) = Serves(m.owner) /\ Learned(m) = Knows(m.owner)
    BY <1>2 DEF Noted, Learned
  <2>2. CASE ext' = ext /\ proc' = proc
    BY <1>1, <2>1, <2>2, AgentsOf
  <2>3. CASE ext' = Serves(m.owner) /\ proc' = proc
    BY <1>1, <2>1, <2>3, AgentsOf
  <2>4. CASE ext' = Serves(m.owner) /\ proc' = Knows(m.owner)
    BY <1>1, <2>1, <2>4, AgentsOf
  <2>5. QED BY <2>1, <2>2, <2>3, <2>4
<1>3. CASE adapter # "letta"
  <2>1. /\ DOMAIN Noted(m) = DOMAIN ext /\ Noted(m).made = ext.made /\ Noted(m).agents = ext.agents
    BY <1>1, <1>3 DEF Noted
  <2>2. /\ DOMAIN Learned(m) = DOMAIN proc /\ Learned(m).agents = proc.agents
        /\ Learned(m).generation = proc.generation /\ Learned(m).root = proc.root
        /\ Learned(m).ledger = proc.ledger
    BY <1>1, <1>3 DEF Learned
  <2>3. QED BY <1>1, <1>3, <2>1, <2>2
<1>4. QED BY <1>2, <1>3

\* A write adds at most one item, where the adapter writes for its owner.
LEMMA StoredAdds ==
    ASSUME AdaptersInv, ready, NEW m
    PROVE  \E space :
             /\ Stored(m) \in {held, held \cup {Item(m, space)}}
             /\ adapter = "mem0" => space = User(m.owner)
             /\ adapter = "graphiti" => space = Group(m.owner)
             /\ adapter = "cognee" => space = Dataset(m.owner, m.private)
             /\ adapter = "letta" => space \in Knows(m.owner).agents
             /\ adapter = "akka-fluree" => space = Here
<1> USE DEF AdaptersInv
<1> DEFINE space == IF adapter = "letta" /\ Agents(m.owner) = {} THEN NewAgent(m.owner)
                    ELSE Space(m.owner, m.private)
<1>1. Stored(m) \in {held, held \cup {Item(m, space)}}
  BY DEF Stored
<1>2. CASE adapter # "letta"
  <2>1. space = Space(m.owner, m.private)
    BY <1>2
  <2>2. /\ adapter = "mem0" => space = User(m.owner)
        /\ adapter = "graphiti" => space = Group(m.owner)
        /\ adapter = "cognee" => space = Dataset(m.owner, m.private)
        /\ adapter = "akka-fluree" => space = Here
    BY <2>1 DEF Space, Here
  <2>3. QED BY <1>1, <1>2, <2>2
<1>3. CASE adapter = "letta"
  <2>1. CASE Agents(m.owner) = {}
    <3>1. NewAgent(m.owner) \in Knows(m.owner).agents
      BY <2>1, AgentsOf
    <3>2. QED BY <1>1, <1>3, <2>1, <3>1
  <2>2. CASE Agents(m.owner) # {}
    <3>1. Space(m.owner, m.private) \in Agents(m.owner)
      BY <1>3, <2>2 DEF Space
    <3>2. Space(m.owner, m.private) \in Knows(m.owner).agents
      BY <2>2, <3>1, AgentsOf DEF Agents
    <3>3. QED BY <1>1, <1>3, <2>2, <3>2
  <2>3. QED BY <2>1, <2>2
<1>4. QED BY <1>2, <1>3

\* After a write every item is at its place, and what was forgotten is gone.
LEMMA WriteKeepsStore ==
    ASSUME AdaptersInv, ready, ready' \in BOOLEAN, NEW m, m \notin written,
           m.private => m.owner = "operator", UNCHANGED <<adapter, clock, survived, forgotten>>,
           ext' = Noted(m) \/ (ext' = ext /\ proc' = proc), proc' \in {proc, Learned(m)},
           held' = held \/ (held' = Stored(m) /\ (adapter = "letta" => ext' = Noted(m)))
    PROVE  Store'
<1> USE DEF AdaptersInv
<1>1. /\ proc'.generation = proc.generation /\ proc'.root = proc.root /\ proc'.ledger = proc.ledger
      /\ ext.agents \subseteq ext'.agents
      /\ \A s \in ext.agents : s \in proc'.agents => s \in proc.agents
      /\ adapter = "letta" /\ ext' = Noted(m) => Knows(m.owner).agents \subseteq ext'.agents
  BY WriteTurns
<1>2. CASE held' = held
  <2>1. \A x \in held' : \E y \in held : Traces(x, y)
    BY <1>2, Kept
  <2>2. \A x \in held' : (Stamped(x) /\ Placed(x))'
    BY <1>1, <2>1, CaseKeepsStore
  <2>3. \A x \in held' : Gone(x)'
    BY <2>1, CaseKeepsGone
  <2>4. QED BY <2>2, <2>3 DEF Store
<1>3. CASE held' = Stored(m) /\ held' # held
  <2>1. PICK space :
             /\ Stored(m) \in {held, held \cup {Item(m, space)}}
             /\ adapter = "mem0" => space = User(m.owner)
             /\ adapter = "graphiti" => space = Group(m.owner)
             /\ adapter = "cognee" => space = Dataset(m.owner, m.private)
             /\ adapter = "letta" => space \in Knows(m.owner).agents
             /\ adapter = "akka-fluree" => space = Here
    BY StoredAdds
  <2>0. PICK new : new = Item(m, space)
    OBVIOUS
  <2>2. held' = held \cup {new}
    BY <1>3, <2>0, <2>1
  <2>3. /\ DOMAIN new = {"m", "space", "dead", "at"} /\ new.m = m /\ new.space = space
        /\ new.at = clock
    BY <2>0 DEF Item
  <2>4. proc.generation \in Nat
    BY DEF Shapes
  <2>5. adapter = "akka-fluree" => space = <<"ledger", clock.reset>>
    BY <2>1 DEF Ledger, Here
  <2>6. adapter = "graphiti" => space[1] = m.owner /\ space[2] = proc.generation
    BY <2>1 DEF Group
  <2>7. adapter = "letta" => space \in ext'.agents
    BY <1>1, <1>3, <2>1
  <2>8. Placed(new)'
    BY <1>1, <2>1, <2>3, <2>4, <2>5, <2>6, <2>7 DEF Placed, User, Dataset
  <2>9. \A x \in held' : (Stamped(x) /\ Placed(x))'
    <3>1. \A x \in held' : \/ \E y \in held : Traces(x, y)
                           \/ /\ DOMAIN x = {"m", "space", "dead", "at"} /\ x.at = clock
                              /\ Placed(x)'
      BY <2>2, <2>3, <2>8, Kept
    <3>2. QED BY <1>1, <3>1, CaseKeepsStore
  <2>10. \A x \in held' : (\E y \in held : Traces(x, y)) \/ x.m \notin forgotten
    BY <2>2, <2>3, Kept DEF Books
  <2>11. \A x \in held' : Gone(x)'
    BY <2>10, CaseKeepsGone
  <2>12. QED BY <2>9, <2>11 DEF Store
<1>4. QED BY <1>2, <1>3
\* In the ledger of the case nothing carries the name of a memory that was not
\* written in it.
LEMMA Unwritten ==
    ASSUME AdaptersInv, ready, adapter = "akka-fluree", NEW memory \in Memories,
           Given(memory) \notin written, NEW x \in held, x.space = Here
    PROVE  /\ x.m.id # memory.id
           /\ x.m.id = Replacement.id => memory.id # Replacement.supersedes
<1> USE DEF AdaptersInv
<1>1. /\ x.m \in written \cup {Replacement}
      /\ x.m.id = Replacement.id => \E w \in written : w.id = Replacement.supersedes
  BY DEF Ledger
<1>2. \A v \in written : v.id # memory.id
  BY GivenOnce DEF Shapes, Books
<1>3. memory.id # Replacement.id
  BY <1>2, AdaptersAssumption
<1>4. QED BY <1>1, <1>2, <1>3

\* Nothing improved stands beside what it replaces, whatever a write brings.
LEMMA WriteKeepsPairs ==
    ASSUME AdaptersInv, ready, adapter = "akka-fluree", NEW memory \in Memories,
           Given(memory) \notin written, held' = held \/ held' = Stored(Given(memory))
    PROVE  /\ \A x, y \in held' : x.space = y.space /\ Supersedes(x, y) => x.dead \/ y.dead
           /\ \A x \in held' : x.space = Here =>
                 /\ x.m \in written \cup {Given(memory), Replacement}
                 /\ x.m.id = Replacement.id => \E w \in written : w.id = Replacement.supersedes
<1> USE DEF AdaptersInv
<1>1. CASE held' = held
  BY <1>1 DEF Ledger
<1>2. CASE held' = Stored(Given(memory)) /\ held' # held
  <2>1. PICK new : /\ held' = held \cup {new} /\ new.m = Given(memory) /\ new.space = Here
    <3>1. PICK space : /\ Stored(Given(memory)) \in {held, held \cup {Item(Given(memory), space)}}
                       /\ adapter = "akka-fluree" => space = Here
      BY StoredAdds
    <3>2. PICK new : new = Item(Given(memory), space)
      OBVIOUS
    <3>3. new.m = Given(memory) /\ new.space = space
      BY <3>2 DEF Item
    <3>4. held' = held \cup {new}
      BY <1>2, <3>1, <3>2
    <3>5. QED BY <3>1, <3>3, <3>4
  <2>2. new.m.id = memory.id /\ memory.id # Replacement.id
    BY <2>1, GivenKeeps, AdaptersAssumption DEF Shapes
  <2>3. ASSUME NEW x \in held', NEW y \in held', x.space = y.space, Supersedes(x, y)
        PROVE  x.dead \/ y.dead
    <3>1. x # new
      BY <2>2, <2>3 DEF Supersedes
    <3>2. CASE y = new
      <4>1. x \in held /\ x.space = Here
        BY <2>1, <2>3, <3>1, <3>2
      <4>2. memory.id # Replacement.supersedes
        BY <2>3, <4>1, Unwritten DEF Supersedes
      <4>3. QED BY <2>2, <2>3, <3>2, <4>2 DEF Supersedes
    <3>3. CASE y # new
      BY <2>1, <2>3, <3>1, <3>3 DEF Ledger
    <3>4. QED BY <3>2, <3>3
  <2>4. ASSUME NEW x \in held', x.space = Here
        PROVE  /\ x.m \in written \cup {Given(memory), Replacement}
               /\ x.m.id = Replacement.id => \E w \in written : w.id = Replacement.supersedes
    BY <2>1, <2>2, <2>4 DEF Ledger
  <2>5. QED BY <2>3, <2>4
<1>3. QED BY <1>1, <1>2

\* A write that returns: it is in the books, and its nonce is the first of its kind.
LEMMA RememberReturnsHolds ==
    ASSUME AdaptersInv, ready, UNCHANGED <<adapter, clock, survived>>, NEW memory \in Memories,
           Given(memory) \notin written, RememberReturns(Given(memory)),
           memory.nonce # "none" => adapter = "akka-fluree"
    PROVE  AdaptersInv'
<1> USE DEF AdaptersInv
<1>0. PICK m : m = Given(memory)
  OBVIOUS
<1>9. m.private => m.owner = "operator"
  BY <1>0, GivenKeeps, AdaptersAssumption DEF Shapes
<1>1. /\ held' = Stored(m) /\ ext' = Noted(m) /\ ready' = TRUE /\ written' = written \cup {m}
      /\ UNCHANGED forgotten /\ proc' = Learned(m) /\ m \notin written
      /\ accepted' = IF m.nonce # "none" /\ Answer(m) THEN Append(accepted, m.nonce) ELSE accepted
  BY <1>0 DEF RememberReturns, Learned
<1>2. /\ DOMAIN ext' = DOMAIN ext /\ DOMAIN proc' = DOMAIN proc
      /\ ext'.made \in Nat /\ ext.agents \subseteq ext'.agents
      /\ \A a \in ext'.agents : a[2] \in Nat /\ a[2] < ext'.made
      /\ proc'.agents \subseteq ext'.agents
      /\ proc'.generation = proc.generation /\ proc'.ledger = proc.ledger
  BY <1>1, WriteTurns
<1>3. Shapes'
  BY <1>1, <1>2 DEF Shapes
<1>4. Store'
  BY <1>1, <1>9, WriteKeepsStore
<1>5. Books'
  <2>1. IsFiniteSet(written')
    BY <1>1, FS_AddElement DEF Books
  <2>2. written' \subseteq {Given(v) : v \in Memories}
    BY <1>0, <1>1 DEF Books
  <2>3. \A v : Given(v)' = Given(v)
    BY DEF Given, Claims
  <2>4. DOMAIN proc = {"ids", "generation", "agents", "granted", "root", "ledger"}
        /\ DOMAIN ext = {"agents", "made", "acl", "nonces", "jobs"}
    BY DEF Shapes
  <2>5. forgotten' \subseteq written' /\ proc'.ids \subseteq written'
    <3>1. CASE adapter \in {"mem0", "graphiti"}
      BY <1>1, <2>4, <3>1 DEF Books, Learned
    <3>2. CASE adapter = "letta"
      <4>1. proc'.ids = proc.ids
        BY <1>1, <3>2, AgentsOf DEF Learned
      <4>2. QED BY <1>1, <4>1 DEF Books
    <3>3. CASE adapter = "cognee"
      BY <1>1, <2>4, <3>3 DEF Books, Learned
    <3>4. CASE adapter \notin {"mem0", "graphiti", "letta", "cognee"}
      BY <1>1, <3>4 DEF Books, Learned
    <3>5. QED BY <3>1, <3>2, <3>3, <3>4
  <2>6. adapter = "cognee" => ext'.acl \subseteq {[to |-> "analyst", set |-> Dataset("operator", FALSE)]}
    <3> SUFFICES ASSUME adapter = "cognee"
                 PROVE  ext'.acl \subseteq {[to |-> "analyst", set |-> Dataset("operator", FALSE)]}
      OBVIOUS
    <3>1. CASE Grants(m, Stored(m))
      <4>1. ext'.acl = ext.acl \cup {[to |-> "analyst", set |-> s] : s \in Shared(m.owner)}
        BY <1>1, <2>4, <3>1 DEF Noted
      <4>2. m.owner = "operator" /\ Shared(m.owner) = {Dataset(m.owner, FALSE)}
        BY <3>1 DEF Grants, Shared
      <4>3. QED BY <4>1, <4>2 DEF Books
    <3>2. CASE ~ Grants(m, Stored(m))
      BY <1>1, <3>2 DEF Noted, Books
    <3>3. QED BY <3>1, <3>2
  <2>7. QED BY <2>1, <2>2, <2>3, <2>5, <2>6 DEF Books, Dataset
<1>6. Ledger'
  <2>1. m.nonce = memory.nonce /\ m.id = memory.id /\ m.nonce \in {v.nonce : v \in Memories}
    BY <1>0, GivenKeeps DEF Shapes
  <2>2. CASE adapter # "akka-fluree"
    BY <1>1, <2>1, <2>2 DEF Ledger
  <2>3. CASE adapter = "akka-fluree"
    <3>0. /\ accepted \in Seq({v.nonce : v \in Memories})
          /\ \A i, j \in DOMAIN accepted : accepted[i] = accepted[j] => i = j
          /\ proc.ledger = clock.reset
          /\ \A i \in DOMAIN accepted : <<accepted[i], proc.ledger>> \in ext.nonces
      BY <2>3 DEF Ledger
    <3>1. /\ \A x, y \in held' : x.space = y.space /\ Supersedes(x, y) => x.dead \/ y.dead
          /\ \A x \in held' : x.space = Here =>
                /\ x.m \in written' \cup {Replacement}
                /\ x.m.id = Replacement.id => \E w \in written' : w.id = Replacement.supersedes
      BY <1>0, <1>1, <2>3, WriteKeepsPairs
    <3>2. Here' = Here /\ \A x, y : Supersedes(x, y)' <=> Supersedes(x, y)
      BY <1>2 DEF Here, Supersedes
    <3>3. CASE ~ (m.nonce # "none" /\ Answer(m))
      <4>1. accepted' = accepted
        BY <1>1, <3>3
      <4>2. ext.nonces \subseteq ext'.nonces
        BY <1>1, <2>3 DEF Noted, Shapes
      <4>3. QED BY <1>1, <1>2, <2>3, <3>0, <3>1, <3>2, <4>1, <4>2 DEF Ledger
    <3>4. CASE m.nonce # "none" /\ Answer(m)
      <4>1. accepted' = Append(accepted, m.nonce)
        BY <1>1, <3>4
      <4>2. ext'.nonces = ext.nonces \cup {<<m.nonce, proc.ledger>>}
        BY <1>1, <2>3, <3>4 DEF Noted, Shapes, Nonce
      <4>3. Claim(m)
        <5> SUFFICES ASSUME ~ Claim(m) PROVE FALSE
          OBVIOUS
        <5>1. Stored(m) = held /\ Space(m.owner, FALSE) = Here
          BY <2>3 DEF Stored, Space, Here
        <5>2. PICK x \in held : x.m.id = m.id /\ x.space = Here
          BY <3>4, <5>1 DEF Answer
        <5>3. QED BY <1>0, <1>1, <2>1, <2>3, <5>2, Unwritten
      <4>4. <<m.nonce, proc.ledger>> \notin ext.nonces
        BY <3>4, <4>3 DEF Claim, Nonce
      <4>5. \A i \in DOMAIN accepted : accepted[i] # m.nonce
        BY <3>0, <4>4
      <4>6. /\ accepted' \in Seq({v.nonce : v \in Memories})
            /\ \A i, j \in DOMAIN accepted' : accepted'[i] = accepted'[j] => i = j
        BY <2>1, <3>0, <4>1, <4>5
      <4>7. \A i \in DOMAIN accepted' : <<accepted'[i], proc.ledger>> \in ext'.nonces
        BY <2>1, <3>0, <4>1, <4>2
      <4>8. QED BY <1>1, <1>2, <2>3, <3>0, <3>1, <3>2, <4>6, <4>7 DEF Ledger
    <3>5. QED BY <3>3, <3>4
  <2>4. QED BY <2>2, <2>3
<1>7. QED BY <1>3, <1>4, <1>5, <1>6
\* A write that raises may have taken effect; nothing is written down, and no
\* call of this case follows.
LEMMA RememberFailsHolds ==
    ASSUME AdaptersInv, ready, UNCHANGED <<adapter, clock, survived>>, NEW memory \in Memories,
           Given(memory) \notin written, RememberFails(Given(memory))
    PROVE  AdaptersInv'
<1> USE DEF AdaptersInv
<1>0. PICK m : m = Given(memory)
  OBVIOUS
<1>9. m.private => m.owner = "operator"
  BY <1>0, GivenKeeps, AdaptersAssumption DEF Shapes
<1>1. /\ ready' = FALSE /\ UNCHANGED <<written, forgotten, accepted>> /\ m \notin written
      /\ ext' = Noted(m) \/ (ext' = ext /\ proc' = proc)
      /\ proc' = proc \/ (adapter = "letta" /\ proc' = Knows(m.owner))
      /\ held' = held \/ (held' = Stored(m) /\ (adapter = "letta" => ext' = Noted(m)))
  BY <1>0 DEF RememberFails, Raise
<1>2. proc' \in {proc, Learned(m)}
  BY <1>1 DEF Learned
<1>3. /\ DOMAIN ext' = DOMAIN ext /\ DOMAIN proc' = DOMAIN proc
      /\ ext'.made \in Nat
      /\ \A a \in ext'.agents : a[2] \in Nat /\ a[2] < ext'.made
      /\ proc'.generation = proc.generation
  BY <1>1, <1>2, WriteTurns
<1>4. Shapes'
  BY <1>1, <1>3 DEF Shapes
<1>5. Store'
  BY <1>1, <1>2, <1>9, WriteKeepsStore
<1>6. Books'
  <2>1. proc'.ids = proc.ids
    BY <1>1, AgentsOf
  <2>2. adapter = "cognee" => ext'.acl \subseteq {[to |-> "analyst", set |-> Dataset("operator", FALSE)]}
    <3> SUFFICES ASSUME adapter = "cognee"
                 PROVE  ext'.acl \subseteq {[to |-> "analyst", set |-> Dataset("operator", FALSE)]}
      OBVIOUS
    <3>1. CASE Grants(m, Stored(m)) /\ ext' = Noted(m)
      <4>1. ext'.acl = ext.acl \cup {[to |-> "analyst", set |-> s] : s \in Shared(m.owner)}
        BY <1>1, <3>1 DEF Noted, Shapes
      <4>2. m.owner = "operator" /\ Shared(m.owner) = {Dataset(m.owner, FALSE)}
        BY <3>1 DEF Grants, Shared
      <4>3. QED BY <4>1, <4>2 DEF Books
    <3>2. CASE ~ Grants(m, Stored(m)) \/ ext' = ext
      BY <1>1, <3>2 DEF Noted, Books
    <3>3. QED BY <1>1, <3>1, <3>2
  <2>3. \A v : Given(v)' = Given(v)
    BY DEF Given, Claims
  <2>4. QED BY <1>1, <2>1, <2>2, <2>3 DEF Books, Dataset
<1>7. Ledger'
  <2>1. CASE adapter # "akka-fluree"
    BY <1>1, <2>1 DEF Ledger
  <2>2. CASE adapter = "akka-fluree"
    <3>1. \A x, y \in held' : x.space = y.space /\ Supersedes(x, y) => x.dead \/ y.dead
      BY <1>0, <1>1, <2>2, WriteKeepsPairs
    <3>2. \A x, y : Supersedes(x, y)' <=> Supersedes(x, y)
      BY DEF Supersedes
    <3>3. QED BY <1>1, <2>2, <3>1, <3>2 DEF Ledger
  <2>3. QED BY <2>1, <2>2
<1>8. QED BY <1>4, <1>5, <1>6, <1>7

\* A nonce is sent to the ledger only: the corpus has none, and a scenario that
\* sends one runs where replay protection is claimed.
LEMMA NonceOfLedger ==
    ASSUME AdaptersInv, NEW m \in Memories, Turn(m), m.nonce # "none"
    PROVE  adapter = "akka-fluree"
<1> USE DEF AdaptersInv
<1>1. CASE Seeded
  BY <1>1, ClaimsAre DEF Turn, Required
<1>2. CASE ~ Seeded
  <2>1. Cardinality(written) \in Nat /\ Seeds \in Seq(Range(Seeds)) /\ Len(Seeds) \in Nat
    BY FS_CardinalityType, AdaptersAssumption DEF Books, Shapes
  <2>2. Cardinality(written) + 1 \in 1 .. Len(Seeds)
    BY <1>2, <2>1 DEF Seeded
  <2>3. m \in Range(Seeds)
    BY <1>2, <2>1, <2>2 DEF Turn, Range
  <2>4. QED BY <2>3, AdaptersAssumption DEF Shapes
<1>3. QED BY <1>1, <1>2

\* A write raises, returns or fails on the way, and keeps the invariant.
LEMMA RememberHolds == ASSUME AdaptersInv, NEW memory \in Memories, Remember(memory) PROVE AdaptersInv'
<1> USE DEF AdaptersInv
<1>1. /\ ready /\ UNCHANGED <<adapter, clock, survived>> /\ Given(memory) \notin written
      /\ Turn(memory)
      /\ \/ /\ ready' = FALSE /\ UNCHANGED <<held, ext, proc, written, forgotten, accepted>>
         \/ RememberReturns(Given(memory))
         \/ RememberFails(Given(memory))
  BY DEF Remember
<1>2. CASE ready' = FALSE /\ UNCHANGED <<held, ext, proc, written, forgotten, accepted>>
  <2>1. Turns /\ forgotten' \subseteq written
    BY <1>2 DEF Turns, Books
  <2>2. \A x \in held' : (\E y \in held : Traces(x, y)) /\ Gone(x)'
    BY <1>1, <1>2, Kept DEF Store, Gone
  <2>3. QED BY <1>1, <1>2, <2>1, <2>2, CallHolds
<1>3. CASE RememberReturns(Given(memory))
  BY <1>1, <1>3, NonceOfLedger, RememberReturnsHolds
<1>4. CASE RememberFails(Given(memory))
  BY <1>1, <1>4, RememberFailsHolds
<1>5. QED BY <1>1, <1>2, <1>3, <1>4

-----------------------------------------------------------------------------
(* What a recall discloses                                                  *)

\* Only a recall is heard, and it is heard as it was made.
Answered(p) ==
    /\ ready /\ UNCHANGED <<adapter, clock, survived, written, forgotten>>
    /\ heard' = [by |-> p,
                 items |-> IF adapter = "letta" /\ Agents(p) = {} THEN {} ELSE Discloses(p)]

\* What is heard is nothing, or the answer of a recall to the one who asked.
LEMMA OnlyRecallsAreHeard ==
    ASSUME AdaptersNext
    PROVE  \/ heard' = NothingHeard
           \/ \E p \in Range(Principals) : Answered(p)
<1>1. CASE NewProcess \/ Restart
  BY <1>1 DEF NewProcess, Restart, Forgets
<1>2. CASE Reset
  BY <1>2 DEF Reset, ResetMem0, ResetGraphiti, ResetLetta, ResetCognee, ResetCogneeRs, ResetAkka,
              ResetReturns, Forgets, Raise
<1>3. CASE \E m \in Memories : Remember(m)
  BY <1>3 DEF Remember, RememberReturns, RememberFails, Raise
<1>4. CASE \E p \in Range(Principals) : Recall(p)
  BY <1>4 DEF Recall, Raise, Answered
<1>5. CASE \E m \in Range(Seeds), p \in {"operator", "analyst"} : Forget(m.id, p)
  BY <1>5 DEF Forget, ForgetByTable, ForgetAkka, ForgetLetta, Forgotten, Raise
<1>6. CASE \E m \in Memories : Improve(Replacement.supersedes, m.id, "job")
  BY <1>6 DEF Improve
<1>7. QED BY <1>1, <1>2, <1>3, <1>4, <1>5, <1>6 DEF AdaptersNext

\* Every step keeps the invariant.
LEMMA StepHolds == ASSUME AdaptersInv, [AdaptersNext]_adapterVars PROVE AdaptersInv'
<1>1. CASE UNCHANGED adapterVars
  <2>1. Shapes'
    BY <1>1 DEF AdaptersInv, Shapes, adapterVars, Dataset, User, Claims
  <2>2. Books'
    BY <1>1 DEF AdaptersInv, Books, adapterVars, Given, Claims, Dataset, User, Here
  <2>3. Store' /\ Ledger'
    BY <1>1 DEF AdaptersInv, Store, Ledger, Stamped, Placed, Gone, Supersedes, adapterVars, Given,
                Claims, User, Dataset, Here
  <2>4. QED BY <2>1, <2>2, <2>3 DEF AdaptersInv
<1>2. CASE AdaptersNext
  BY <1>2, NewProcessHolds, ResetHolds, RestartHolds, RememberHolds, RecallHolds, ForgetHolds,
     ImproveHolds DEF AdaptersNext
<1>3. QED BY <1>1, <1>2

\* Whatever the driver calls, whatever fails and wherever the process is restarted, items
\* lie where their adapter put them and the ledger guards what it accepted (adapters/*/adapter.py).
THEOREM AdaptersStay == AdaptersSpec => []AdaptersInv
BY InitHolds, StepHolds, PTL DEF AdaptersSpec

\* An item that is disclosed lies where the principal reads.
LEMMA DisclosedLies ==
    ASSUME AdaptersInv, ready, NEW p, adapter = "letta" => Agents(p) # {}, NEW x \in Discloses(p)
    PROVE  /\ x \in held /\ Stamped(x) /\ Placed(x) /\ Gone(x)
           /\ adapter = "mem0" => x.space = User(p)
           /\ adapter = "graphiti" => x.space = Group(p)
           /\ adapter = "cognee-rs" => x.space[2] = proc.root
           /\ adapter = "letta" => x.space \in proc.agents
           /\ adapter = "akka-fluree" => x.space = Here /\ ~ x.dead /\ Visibility(p, x.m)
           /\ adapter = "cognee" => \/ x.space \in {Dataset(p, TRUE), Dataset(p, FALSE)}
                                    \/ p = "analyst" /\ x.space = Dataset("operator", FALSE)
<1> USE DEF AdaptersInv
<1>1. x \in held /\ x.space \in Readable(p)
  BY DEF Discloses
<1>2. Stamped(x) /\ Placed(x) /\ Gone(x)
  BY <1>1 DEF Store
<1>3. CASE adapter # "cognee"
  <2>1. x.space = Space(p, FALSE)
    BY <1>1, <1>3 DEF Readable
  <2>2. /\ adapter = "mem0" => x.space = User(p)
        /\ adapter = "graphiti" => x.space = Group(p)
        /\ adapter = "cognee-rs" => x.space = <<p, proc.root>>
        /\ adapter = "letta" => x.space \in Agents(p)
        /\ adapter = "akka-fluree" => x.space = Here
    BY <2>1 DEF Space, Here
  <2>3. adapter = "cognee-rs" => x.space[2] = proc.root
    BY <2>2
  <2>4. adapter = "letta" => x.space \in proc.agents
    BY <2>2 DEF Agents
  <2>5. adapter = "akka-fluree" => ~ x.dead /\ Visibility(p, x.m)
    BY DEF Discloses
  <2>6. QED BY <1>1, <1>2, <1>3, <2>2, <2>3, <2>4, <2>5
<1>4. CASE adapter = "cognee"
  <2>1. \A g \in ext.acl : g.to = "analyst" /\ g.set = Dataset("operator", FALSE)
    <3>1. PICK grant : grant = [to |-> "analyst", set |-> Dataset("operator", FALSE)]
      OBVIOUS
    <3>2. grant.to = "analyst" /\ grant.set = Dataset("operator", FALSE)
      BY <3>1
    <3>3. ext.acl \subseteq {grant}
      BY <1>4, <3>1 DEF Books
    <3>4. QED BY <3>2, <3>3
  <2>2. QED BY <1>1, <1>2, <1>4, <2>1 DEF Readable
<1>5. QED BY <1>3, <1>4

\* What recall can disclose was written since the last reset, apart from the exact
\* exceptions: mem0 and cognee, whose reset may return with the contents kept, and
\* graphiti over the files of an earlier process (reset of each adapter).
THEOREM FreshnessHolds == AdaptersSpec => []DisclosesFresh
<1>1. AdaptersInit => DisclosesFresh
  BY DEF AdaptersInit, DisclosesFresh, NothingHeard
<1>2. ASSUME AdaptersInv, DisclosesFresh, [AdaptersNext]_adapterVars PROVE DisclosesFresh'
  <2>1. CASE UNCHANGED adapterVars
    BY <1>2, <2>1 DEF DisclosesFresh, adapterVars
  <2>2. CASE heard' = NothingHeard
    BY <2>2 DEF DisclosesFresh, NothingHeard
  <2>3. CASE \E p : Answered(p)
    <3>1. PICK p : Answered(p)
      BY <2>3
    <3>2. ready /\ UNCHANGED <<adapter, clock, survived>>
          /\ heard'.items = IF adapter = "letta" /\ Agents(p) = {} THEN {} ELSE Discloses(p)
      BY <3>1 DEF Answered
    <3> SUFFICES ASSUME NEW x \in heard'.items, x.at # clock
                 PROVE  survived /\ (adapter \in {"mem0", "cognee"}
                                     \/ (adapter = "graphiti" /\ x.at.process # clock.process))
      BY <3>2 DEF DisclosesFresh
    <3>3. x \in Discloses(p) /\ (adapter = "letta" => Agents(p) # {})
      BY <3>2
    <3>4. /\ Stamped(x) /\ Placed(x)
          /\ adapter = "graphiti" => x.space = Group(p)
          /\ adapter = "cognee-rs" => x.space[2] = proc.root
          /\ adapter = "letta" => x.space \in proc.agents
          /\ adapter = "akka-fluree" => x.space = Here
      BY <1>2, <3>2, <3>3, DisclosedLies
    <3>5. survived
      BY <3>2, <3>4 DEF Stamped
    <3>6. adapter # "cognee-rs" /\ adapter # "letta"
      BY <3>2, <3>4 DEF Placed
    <3>7. adapter # "akka-fluree"
      BY <1>2, <3>2, <3>4 DEF Placed, Stamped, Here, AdaptersInv, Ledger
    <3>8. adapter = "graphiti" => x.at.process # clock.process
      BY <3>2, <3>4 DEF Placed, Group
    <3>9. QED BY <1>2, <3>5, <3>6, <3>7, <3>8, ClaimsAre DEF AdaptersInv
  <2>4. QED BY <1>2, <2>1, <2>2, <2>3, OnlyRecallsAreHeard
<1>3. QED BY <1>1, <1>2, AdaptersStay, PTL DEF AdaptersSpec

\* A system that claims isolation discloses nothing to the outsider that he did not write,
\* and where it claims clearance, or filters, nothing private to the analyst (recall).
THEOREM BoundaryStands == AdaptersSpec => []BoundaryHolds
<1>1. AdaptersInit => BoundaryHolds
  BY DEF AdaptersInit, BoundaryHolds, NothingHeard
<1>2. ASSUME AdaptersInv, BoundaryHolds, [AdaptersNext]_adapterVars PROVE BoundaryHolds'
  <2>1. CASE UNCHANGED adapterVars
    BY <1>2, <2>1 DEF BoundaryHolds, adapterVars, Claims
  <2>2. CASE heard' = NothingHeard
    BY <2>2 DEF BoundaryHolds, NothingHeard
  <2>3. CASE \E p : Answered(p)
    <3>1. PICK p : Answered(p)
      BY <2>3
    <3>2. /\ ready /\ UNCHANGED adapter /\ Claims' = Claims
          /\ heard'.items = IF adapter = "letta" /\ Agents(p) = {} THEN {} ELSE Discloses(p)
          /\ heard'.by = p
      BY <3>1 DEF Answered, Claims
    <3> SUFFICES ASSUME "isolation" \in Claims, NEW x \in heard'.items
                 PROVE  /\ p = "outsider" => x.m.owner = "outsider"
                        /\ p = "analyst" /\ ("clearance" \in Claims \/ adapter = "akka-fluree") =>
                              ~ x.m.private
      BY <3>2 DEF BoundaryHolds
    <3>3. x \in Discloses(p) /\ (adapter = "letta" => Agents(p) # {})
      BY <3>2
    <3>4. /\ Placed(x)
          /\ adapter = "mem0" => x.space = User(p)
          /\ adapter = "graphiti" => x.space = Group(p)
          /\ adapter = "akka-fluree" => Visibility(p, x.m)
          /\ adapter = "cognee" => \/ x.space \in {Dataset(p, TRUE), Dataset(p, FALSE)}
                                   \/ p = "analyst" /\ x.space = Dataset("operator", FALSE)
      BY <1>2, <3>2, <3>3, DisclosedLies
    <3>5. CASE adapter = "mem0"
      <4>1. p = "outsider" => x.m.owner = "outsider"
        BY <3>4, <3>5 DEF Placed, User
      <4>2. "clearance" \notin Claims
        BY <1>2, <3>5, ClaimsAre DEF AdaptersInv
      <4>3. QED BY <3>5, <4>1, <4>2
    <3>6. CASE adapter = "graphiti"
      <4>1. x.m.owner = p
        BY <3>4, <3>6 DEF Placed, Group
      <4>2. "clearance" \notin Claims
        BY <1>2, <3>6, ClaimsAre DEF AdaptersInv
      <4>3. QED BY <3>6, <4>1, <4>2
    <3>7. CASE adapter = "cognee"
      <4>1. x.space = Dataset(x.m.owner, x.m.private)
        BY <3>4, <3>7 DEF Placed
      <4>2. p = "outsider" => x.m.owner = "outsider"
        BY <3>4, <3>7, <4>1 DEF Dataset
      <4>3. x.m.private => x.space = <<"operator", "org-private">>
        BY <3>4, <3>7 DEF Placed, Dataset
      <4>4. p = "analyst" => x.space # <<"operator", "org-private">>
        BY <3>4, <3>7 DEF Dataset
      <4>5. QED BY <3>7, <4>2, <4>3, <4>4
    <3>8. CASE adapter = "akka-fluree"
      BY <3>4, <3>8 DEF Visibility
    <3>9. QED BY <1>2, <3>5, <3>6, <3>7, <3>8, ClaimsAre DEF AdaptersInv
  <2>4. QED BY <1>2, <2>1, <2>2, <2>3, OnlyRecallsAreHeard
<1>3. QED BY <1>1, <1>2, AdaptersStay, PTL DEF AdaptersSpec

\* What forget answered true for is not disclosed again in the same case, whatever failed
\* between the transactions; letta apart, which answers true in any case (forget).
THEOREM ForgettingIsHonest == AdaptersSpec => []ForgetIsHonest
<1>1. AdaptersInit => ForgetIsHonest
  BY DEF AdaptersInit, ForgetIsHonest, NothingHeard
<1>2. ASSUME AdaptersInv, ForgetIsHonest, [AdaptersNext]_adapterVars PROVE ForgetIsHonest'
  <2>1. CASE UNCHANGED adapterVars
    BY <1>2, <2>1 DEF ForgetIsHonest, adapterVars
  <2>2. CASE heard' = NothingHeard
    BY <2>2 DEF ForgetIsHonest, NothingHeard
  <2>3. CASE \E p : Answered(p)
    <3>1. PICK p : Answered(p)
      BY <2>3
    <3>2. /\ ready /\ UNCHANGED <<adapter, clock, forgotten>>
          /\ adapter # "letta" => heard'.items = Discloses(p)
      BY <3>1 DEF Answered
    <3>3. adapter # "letta" => \A x \in Discloses(p) :
             Gone(x) /\ (adapter = "akka-fluree" => ~ x.dead)
      BY <1>2, <3>2, DisclosedLies
    <3>4. QED BY <3>2, <3>3 DEF ForgetIsHonest, Gone
  <2>4. QED BY <1>2, <2>1, <2>2, <2>3, OnlyRecallsAreHeard
<1>3. QED BY <1>1, <1>2, AdaptersStay, PTL DEF AdaptersSpec

\* Within one ledger a nonce is accepted once, and a memory and its replacement are never
\* current together (akka_fluree remember, improve).
THEOREM LedgerIsGuarded == AdaptersSpec => []LedgerGuards
<1>1. AdaptersInv => LedgerGuards
  BY DEF AdaptersInv, Ledger, LedgerGuards, Exists, Supersedes
<1>2. QED BY <1>1, AdaptersStay, PTL
=============================================================================
