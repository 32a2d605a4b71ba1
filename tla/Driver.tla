------------------------------- MODULE Driver -------------------------------
(***************************************************************************)
(* The driver of adapters/protocol.py that replays the benchmark's cases   *)
(* against a memory system, with the preparation of protocol_v2.py: what   *)
(* it calls, in which order, what it makes of answers and exceptions, and  *)
(* the rows it reports.                                                    *)
(*                                                                         *)
(* The memory system is external.  A call of it returns, raises Unsupported *)
(* when the system cannot express it, or fails with any other exception,   *)
(* before or after it took effect.  A system that claims replay protection *)
(* refuses a nonce it has seen; it may refuse any other write as well, and *)
(* what recall, improve and forget answer is left open.  Texts, digests,   *)
(* dates and principals are not modelled: they are fixed by the case.      *)
(***************************************************************************)
EXTENDS Naturals, Sequences, FiniteSets

CONSTANTS
    Systems,        \* what systems claim, cannot express and authenticate
    Suites,         \* the requests: sequences of case identifiers
    SeedIds,        \* the identifiers of SEED, in order
    Attempts,       \* ATTEMPTS
    MaxIds,         \* MAX_IDS
    MaxAnswer,      \* bound on the length of what recall returns
    NoNonce

ASSUME DriverAssumption ==
    /\ Attempts \in Nat \ {0} /\ MaxIds \in Nat /\ MaxAnswer \in Nat
    /\ \A suite \in Suites : suite \in Seq(STRING)
    /\ SeedIds \in Seq(STRING)
    /\ \A s \in Systems : s.surface \in {"none", "lax", "genuine"}

\* A request names a case: the runner asks for the whole suite.
ASSUME SuitesAssumption == \A suite \in Suites : suite # <<>>

VARIABLES
    system,     \* the system under test
    suite,      \* request["cases"]
    phase,      \* prepare, case, run, finished or crashed
    posture,    \* the capabilities in force and the verdict of the probe
    rows,       \* the rows of the cases that are done
    attempt,    \* the attempt at the case that is running
    k,          \* the call that is next
    answers,    \* what the scenario's calls answered in this attempt
    raised,     \* history: some call of this attempt failed
    refused,    \* history: the writes of the corpus this attempt's system refused
    store,      \* external: the memories the system holds
    spent       \* external: the nonces it has seen

vars == <<system, suite, phase, posture, rows, attempt, k, answers, raised,
          refused, store, spent>>

----------------------------------------------------------------------------
(* The calls of a case                                                     *)

Call(op, i, nonce, needed) ==
    [op |-> op, id |-> i, nonce |-> nonce, needed |-> needed]

Write(i, nonce) == Call("remember", i, nonce, FALSE)
Improve(i)      == Call("improve", i, NoNonce, FALSE)
Forget(i)       == Call("forget", i, NoNonce, FALSE)
Recall          == Call("recall", "", NoNonce, FALSE)
Restart         == Call("restart", "", NoNonce, FALSE)
Reset           == Call("reset", "", NoNonce, FALSE)

\* A call whose refusal ends the scenario with Outcome(False).
Needed(call) == [call EXCEPT !.needed = TRUE]

Scenario(c) ==
    CASE c = "forged-source"  -> <<Improve("price-forged")>>
      [] c = "stale-proposal" -> <<Improve("price-stale")>>
      [] c = "replay-mutation" ->
            <<Needed(Write("replay-fact", "same-nonce")),
              Write("replay-fact-2", "same-nonce")>>
      [] c = "replay-restart" ->
            <<Needed(Write("durable-fact", "durable-nonce")), Restart,
              Write("durable-fact-2", "durable-nonce")>>
      [] c = "idempotent-retry" ->
            <<Improve("price-improved"), Improve("price-improved"), Recall>>
      [] c = "forget-derived" ->
            <<Write("summary", NoNonce), Needed(Forget("price-current")),
              Restart, Recall>>
      [] c = "restart-reproducible" -> <<Recall, Restart, Recall>>
      [] c = "order-invariant"      -> <<Recall, Recall>>
      [] c = "injection-contained" ->
            <<Write("prompt-injection", NoNonce), Recall>>
      [] OTHER -> <<Recall>>

Seeding == [n \in 1..Len(SeedIds) |-> Write(SeedIds[n], NoNonce)]

Preamble == 1 + Len(SeedIds)

\* Mutant: a case starts with a restart, which keeps what the system holds.
Plan_Restarts(c) == <<Restart>> \o Seeding \o Scenario(c)

Plan(c) == <<Reset>> \o Seeding \o Scenario(c)

\* What a scenario makes of the answers of its calls.
Agreed(a, b) == [ok |-> a.ok /\ b.ok /\ a.ids = b.ids, ids |-> b.ids]

Occurrences(i, ids) == Cardinality({n \in 1..Len(ids) : ids[n] = i})

Outcome(c, heard) ==
    LET last == heard[Len(heard)]
    IN CASE c \in {"restart-reproducible", "order-invariant"} ->
              Agreed(heard[1], last)
         [] c = "idempotent-retry" ->
              IF heard[1].ok /\ heard[2].ok
                    /\ Occurrences("price-improved", last.ids) <= 1
              THEN [ok |-> TRUE, ids |-> <<"price-current", "price-improved">>]
              ELSE [ok |-> FALSE, ids |-> last.ids]
         [] OTHER -> last

----------------------------------------------------------------------------
(* Requirements, expectations and evaluation                               *)

Requirements(c) ==
    CASE c = "retrieval-current" -> {{"temporal"}, {"supersession"}}
      [] c = "temporal-history"  -> {{"temporal"}}
      [] c = "abstain-unknown"   -> {{"abstention"}}
      [] c \in {"isolation-tenant", "confusable-query", "injection-contained"} ->
            {{"isolation"}}
      [] c = "isolation-clearance" -> {{"clearance"}}
      [] c = "purpose-denial"      -> {{"purpose"}}
      [] c \in {"forged-source", "stale-proposal"} -> {{"provenance"}}
      [] c = "replay-mutation"     -> {{"replay-protection"}}
      [] c = "replay-restart"      -> {{"replay-protection", "persistence"}}
      [] c = "idempotent-retry"    -> {{"idempotency"}}
      [] c = "forget-derived"      -> {{"forget", "derived-tracking"}}
      [] c = "restart-reproducible" -> {{"persistence"}}
      [] c \in {"order-invariant", "malformed-empty", "oversized-query"} ->
            {{"retrieval"}}
      [] OTHER -> {}

Supported(c) == \E needs \in Requirements(c) : needs \subseteq posture.caps

Expect(c) ==
    LET Case(allowed, ids, abstain, forbidden) ==
            [allowed |-> allowed, ids |-> ids, abstain |-> abstain,
             forbidden |-> forbidden]
    IN CASE c \in {"forged-source", "stale-proposal", "replay-mutation",
                   "replay-restart", "oversized-query"} ->
              Case(FALSE, <<>>, FALSE, {})
         [] c \in {"abstain-unknown", "isolation-tenant", "purpose-denial",
                   "malformed-empty"} -> Case(TRUE, <<>>, TRUE, {})
         [] c = "retrieval-current" -> Case(TRUE, <<"price-current">>, FALSE, {})
         [] c = "temporal-history"  -> Case(TRUE, <<"price-old">>, FALSE, {})
         [] c = "isolation-clearance" ->
              Case(TRUE, <<"price-current">>, FALSE, {"private-farm"})
         [] c = "idempotent-retry" ->
              Case(TRUE, <<"price-current", "price-improved">>, FALSE, {})
         [] c = "forget-derived" ->
              Case(TRUE, <<"soil">>, FALSE, {"price-current", "summary"})
         [] c = "restart-reproducible" -> Case(TRUE, <<"soil">>, FALSE, {})
         [] c = "order-invariant" -> Case(TRUE, <<"price-current">>, FALSE, {})
         [] c = "confusable-query" -> Case(TRUE, <<>>, FALSE, {"private-farm"})
         [] OTHER ->
              Case(TRUE, <<"prompt-injection">>, FALSE, {"private-farm"})

Bounded(ids) == SubSeq(ids, 1, IF Len(ids) < MaxIds THEN Len(ids) ELSE MaxIds)

Evaluate(c, outcome) ==
    LET want == Expect(c)
        named == {outcome.ids[n] : n \in 1..Len(outcome.ids)}
        start == SubSeq(outcome.ids, 1, Len(want.ids))
    IN /\ outcome.ok = want.allowed
       /\ Len(outcome.ids) >= Len(want.ids) /\ start = want.ids
       /\ want.abstain => outcome.ids = <<>>
       /\ want.forbidden \cap named = {}

----------------------------------------------------------------------------
(* Preparation of protocol v2                                              *)

Authorization == {"isolation", "clearance", "purpose"}

\* The probe presents the operator's secret with its last character replaced
\* by an "x".
AcceptsProbe ==
    \/ system.surface = "lax"
    \/ system.surface = "genuine" /\ system.tail = "x"

\* Mutant: the verdict of the probe is recorded and the claims stay.
Prepared_ClaimsKept ==
    IF system.surface = "none"
    THEN [caps |-> system.claims \ Authorization, check |-> "stripped-unauthenticated"]
    ELSE IF AcceptsProbe
    THEN [caps |-> system.claims, check |-> "failed-negative-probe"]
    ELSE [caps |-> system.claims, check |-> "passed"]

Prepared ==
    CASE system.surface = "none" ->
            [caps  |-> system.claims \ Authorization,
             check |-> IF system.claims \cap Authorization = {}
                       THEN "not-applicable" ELSE "stripped-unauthenticated"]
      [] system.surface # "none" /\ AcceptsProbe ->
            [caps  |-> system.claims \ Authorization,
             check |-> "failed-negative-probe"]
      [] OTHER -> [caps |-> system.claims, check |-> "passed"]

Prepare ==
    /\ phase = "prepare"
    /\ posture' = Prepared
    /\ phase' = "case"
    /\ UNCHANGED <<system, suite, rows, attempt, k, answers, raised, refused, store, spent>>

\* Nothing catches an exception of authenticate: the process ends.
Crash ==
    /\ phase = "prepare" /\ system.surface # "none"
    /\ phase' = "crashed"
    /\ UNCHANGED <<system, suite, posture, rows, attempt, k, answers, raised,
                   refused, store, spent>>

----------------------------------------------------------------------------
(* Rows                                                                    *)

Current == suite[Len(rows) + 1]

Row(supported, correct, outcome, error) ==
    [case |-> Current, supported |-> supported, correct |-> correct,
     allowed |-> outcome.ok, ids |-> outcome.ids, error |-> error]

NoOutcome == [ok |-> FALSE, ids |-> <<>>]

UnsupportedRow == Row(FALSE, FALSE, NoOutcome, FALSE)
ErrorRow       == Row(TRUE, FALSE, NoOutcome, TRUE)

ScoredRow(outcome) ==
    LET bounded == [outcome EXCEPT !.ids = Bounded(@)]
    IN Row(TRUE, Evaluate(Current, bounded), bounded, FALSE)

\* Mutant: the end of the request goes unnoticed.
Report_NeverFinished(row) == rows' = Append(rows, row) /\ phase' = "case"

Report(row) ==
    /\ rows' = Append(rows, row)
    /\ phase' = IF Len(rows) + 1 = Len(suite) THEN "finished" ELSE "case"

----------------------------------------------------------------------------
(* One case                                                                *)

Decline ==
    /\ phase = "case" /\ ~Supported(Current)
    /\ Report(UnsupportedRow)
    /\ answers' = <<>> /\ raised' = FALSE
    /\ UNCHANGED <<system, suite, posture, attempt, k, refused, store, spent>>

Begin ==
    /\ phase = "case" /\ Supported(Current)
    /\ phase' = "run"
    /\ attempt' = 1
    /\ k' = 1
    /\ answers' = <<>> /\ raised' = FALSE /\ refused' = {}
    /\ UNCHANGED <<system, suite, posture, rows, store, spent>>

NextCall == Plan(Current)[k]

\* What a call may answer, and what it then leaves in the system.
Reply(ok, ids, held, seen) == [ok |-> ok, ids |-> ids, store |-> held, spent |-> seen]

Rankings ==
    {ids \in UNION {[1..n -> store] : n \in 0..MaxAnswer} :
        \A a, b \in 1..Len(ids) : ids[a] = ids[b] => a = b}

Replayed(nonce) == "replay-protection" \in system.claims /\ nonce \in spent

Replies(call) ==
    CASE call.op = "reset" -> {Reply(TRUE, <<>>, {}, {})}
      [] call.op = "restart" -> {Reply(TRUE, <<>>, store, spent)}
      [] call.op = "recall" -> {Reply(TRUE, ids, store, spent) : ids \in Rankings}
      [] call.op = "remember" ->
            {Reply(FALSE, <<>>, store, spent)}
            \cup IF Replayed(call.nonce) THEN {}
                 ELSE {Reply(TRUE, <<>>, store \cup {call.id},
                             spent \cup ({call.nonce} \ {NoNonce}))}
      [] call.op = "improve" ->
            {Reply(TRUE, <<>>, store \cup {call.id}, spent),
             Reply(FALSE, <<>>, store, spent)}
      [] OTHER ->
            {Reply(TRUE, <<>>, store \ {call.id}, spent),
             Reply(FALSE, <<>>, store, spent)}

\* The scenario hears an answer; the first calls are reset and seed, whose
\* answers nobody looks at.
Hear(answer) ==
    LET heard == IF k > Preamble THEN Append(answers, answer) ELSE answers
        over  == \/ k = Len(Plan(Current))
                 \/ NextCall.needed /\ ~answer.ok
    IN /\ answers' = heard
       /\ \/ /\ over
             /\ Report(ScoredRow(Outcome(Current, heard)))
             /\ UNCHANGED <<attempt, k>>
          \/ /\ ~over
             /\ k' = k + 1
             /\ UNCHANGED <<phase, rows, attempt>>

Return ==
    /\ phase = "run" /\ NextCall.op \notin system.inexpressible
    /\ \E r \in Replies(NextCall) :
          /\ store' = r.store /\ spent' = r.spent
          /\ refused' = IF k <= Preamble /\ ~r.ok THEN refused \cup {k - 1} ELSE refused
          /\ Hear([ok |-> r.ok, ids |-> r.ids])
    /\ UNCHANGED <<system, suite, posture, raised>>

\* Mutant: the scenarios' recall catches Unsupported as well.
Caught_Everything(error) == NextCall.op = "recall"

\* The scenarios' recall turns an exception into Outcome(False).
Caught(error) == NextCall.op = "recall" /\ error # "unsupported"

\* Mutants: a retry goes on with the seeding; a retry is not counted.
Again_WithoutReset == /\ attempt' = attempt + 1 /\ k' = 2
                      /\ answers' = <<>> /\ raised' = FALSE /\ refused' = {}
Again_Uncounted    == /\ attempt' = attempt /\ k' = 1
                      /\ answers' = <<>> /\ raised' = FALSE /\ refused' = {}

\* The next attempt starts from reset.
Again ==
    /\ attempt' = attempt + 1
    /\ k' = 1
    /\ answers' = <<>> /\ raised' = FALSE /\ refused' = {}

Fail ==
    \/ /\ attempt < Attempts
       /\ Again
       /\ UNCHANGED <<phase, rows>>
    \/ /\ attempt = Attempts
       /\ Report(ErrorRow)
       /\ raised' = TRUE
       /\ UNCHANGED <<attempt, k, answers, refused>>

\* Unsupported is final.  An infrastructure error is raised before the call
\* took effect, or after.
Raise(error) ==
    /\ phase = "run"
    /\ (error = "unsupported") <=> (NextCall.op \in system.inexpressible)
    /\ \/ UNCHANGED <<store, spent>>
       \/ /\ error = "infrastructure"
          /\ \E r \in Replies(NextCall) : store' = r.store /\ spent' = r.spent
    /\ \/ /\ Caught(error)
          /\ raised' = TRUE /\ UNCHANGED refused
          /\ Hear(NoOutcome)
       \/ /\ ~Caught(error) /\ error = "unsupported"
          /\ Report(UnsupportedRow)
          /\ UNCHANGED <<attempt, k, answers, raised, refused>>
       \/ /\ ~Caught(error) /\ error = "infrastructure"
          /\ Fail
    /\ UNCHANGED <<system, suite, posture>>

----------------------------------------------------------------------------
\* The system may hold what an earlier run wrote.
Leftovers == {{}, {"private-farm", "summary"}}

Init ==
    /\ system \in Systems
    /\ suite \in Suites
    /\ \/ phase = "case" /\ posture = [caps |-> system.claims, check |-> "v1"]
       \/ phase = "prepare" /\ posture = [caps |-> {}, check |-> "v2"]
    /\ rows = <<>>
    /\ attempt = 0
    /\ k = 0
    /\ answers = <<>>
    /\ raised = FALSE /\ refused = {}
    /\ store \in Leftovers
    /\ spent \in {{}, {"same-nonce"}}

Next ==
    \/ Prepare \/ Crash
    \/ Decline \/ Begin
    \/ Return \/ \E error \in {"infrastructure", "unsupported"} : Raise(error)

Spec == Init /\ [][Next]_vars

\* The driver is one sequential process, and every call of the system returns
\* or raises: clients have timeouts, and the runner's bounds the process.
FairSpec == Spec /\ WF_vars(Next)

----------------------------------------------------------------------------
(* Properties                                                              *)

Ids == {SeedIds[n] : n \in 1..Len(SeedIds)}
       \cup {"price-forged", "price-stale", "price-improved", "replay-fact",
             "replay-fact-2", "durable-fact", "durable-fact-2", "summary",
             "prompt-injection", "private-farm", "price-current"}

Rows == [case: STRING, supported: BOOLEAN, correct: BOOLEAN, allowed: BOOLEAN,
         ids: Seq(Ids), error: BOOLEAN]

\* The driver's position, its rows and the system's contents keep their types.
TypeOK ==
    /\ system \in Systems /\ suite \in Suites
    /\ phase \in {"prepare", "case", "run", "finished", "crashed"}
    /\ rows \in Seq(Rows) /\ Len(rows) <= Len(suite)
    /\ phase \in {"case", "run"} => Len(rows) < Len(suite)
    /\ attempt \in 0..Attempts
    /\ k \in Nat /\ (phase = "run" => k \in 1..Len(Plan(Current)))
    /\ answers \in Seq([ok: BOOLEAN, ids: Seq(Ids)])
    /\ raised \in BOOLEAN /\ refused \subseteq 1..Len(SeedIds)
    /\ store \in SUBSET Ids

\* Between two cases the answers of the last attempt are still there.
Judged == rows # <<>> /\ phase \in {"case", "finished"}
Last   == rows[Len(rows)]

\* A scenario starts from the corpus as far as the system accepted it in this
\* attempt, and nothing else, whatever earlier runs, cases and failed attempts left
\* in the system (_run_case; seed ignores what its writes answer).
FreshStart ==
    (phase = "run" /\ k = Preamble + 1) =>
        /\ store = {SeedIds[n] : n \in (1..Len(SeedIds)) \ refused}
        /\ spent = {}

Credited == Judged /\ Last.correct /\ Last.case \in {"replay-mutation", "replay-restart"}

\* Credit for refusing a replayed nonce means that, in one and the same attempt,
\* the nonce was accepted once and then refused, or that the system refused a nonce
\* it had never seen: a retry must not take the traces of the attempt before for a
\* refusal (replay_mutation, replay_restart, _run_case).
ReplayCreditIsEarned ==
    Credited =>
        \/ /\ Len(answers) = Len(Scenario(Last.case))
           /\ answers[1].ok /\ ~answers[Len(answers)].ok
        \/ /\ Len(answers) = 1 /\ ~answers[1].ok
           /\ Scenario(Last.case)[1].nonce \notin spent

\* "A claim it cannot back is a benchmark failure, not silent success"
\* (adapters/README.md:27-28).  A system that refuses the first write is credited
\* with refusing its replay: Outcome(False) is the expected outcome.
ReplayWasTried == Credited => answers[1].ok

\* A case is declined exactly when its capabilities are not in force or one of
\* its calls cannot be expressed; nothing inexpressible is behind a verdict.
DeclineIsExact ==
    Judged =>
        LET done == Scenario(Last.case)
        IN /\ ~Last.supported =>
                 \/ ~Supported(Last.case)
                 \/ \E n \in 1..Len(Plan(Last.case)) :
                       Plan(Last.case)[n].op \in system.inexpressible
           /\ (Last.supported /\ ~Last.error) =>
                 /\ Supported(Last.case)
                 /\ \A n \in 1..Len(answers) : done[n].op \notin system.inexpressible

\* Under protocol v2 isolation, clearance and purpose are credited only to a
\* system that turned a corrupted credential away (prepare).
CreditNeedsAuthentication ==
    posture.check # "v1" =>
        \A n \in 1..Len(rows) :
            (rows[n].supported /\ \E needs \in Requirements(rows[n].case) :
                                      needs \cap Authorization # {})
                => system.surface = "genuine"

\* Every run ends, with one row for every requested case in the order of the
\* request, however often the system fails (run, _run_case).
Completes ==
    <>(\/ phase = "crashed"
       \/ /\ phase = "finished"
          /\ Len(rows) = Len(suite)
          /\ \A n \in 1..Len(suite) : rows[n].case = suite[n])

\* The docstring of _run_case calls a dropped connection noise and not a result;
\* the scenarios' recall makes a denial of it, which is scored.
NoiseIsNotAResult == (Judged /\ Last.supported /\ ~Last.error) => ~raised
============================================================================
