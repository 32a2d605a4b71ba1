---------------------------- MODULE DriverProofs ----------------------------
(***************************************************************************)
(* Proofs about the adapter driver: a scenario starts from the seeded      *)
(* corpus, credit for refusing a replay is earned within one attempt, and  *)
(* under protocol v2 authorization is credited only to a system that       *)
(* authenticates; every step of a run lowers the number of steps that may  *)
(* be left, and a finished run has answered the request.  They hold for    *)
(* every set of systems and of requests, every corpus and every number of  *)
(* attempts.                                                               *)
(***************************************************************************)
EXTENDS Driver, TLAPS

----------------------------------------------------------------------------
(* The calls of a case                                                     *)

\* Every scenario is a sequence, whatever the case.
LEMMA ScenarioTyped == ASSUME NEW c PROVE \E S : Scenario(c) \in Seq(S)
<1>1. \A x : <<x>> \in Seq({x})
  OBVIOUS
<1>2. \A x, y : <<x, y>> \in Seq({x, y})
  OBVIOUS
<1>3. \A x, y, z : <<x, y, z>> \in Seq({x, y, z})
  OBVIOUS
<1>4. \A x, y, z, w : <<x, y, z, w>> \in Seq({x, y, z, w})
  OBVIOUS
<1>5. \/ \E x : Scenario(c) = <<x>>
      \/ \E x, y : Scenario(c) = <<x, y>>
      \/ \E x, y, z : Scenario(c) = <<x, y, z>>
      \/ \E x, y, z, w : Scenario(c) = <<x, y, z, w>>
  BY DEF Scenario
<1>6. CASE \E x : Scenario(c) = <<x>>
  <2>1. PICK x : Scenario(c) = <<x>>
    BY <1>6
  <2>2. Scenario(c) \in Seq({x})
    BY <1>1, <2>1
  <2>3. QED BY <2>2
<1>7. CASE \E x, y : Scenario(c) = <<x, y>>
  <2>1. PICK x, y : Scenario(c) = <<x, y>>
    BY <1>7
  <2>2. Scenario(c) \in Seq({x, y})
    BY <1>2, <2>1
  <2>3. QED BY <2>2
<1>8. CASE \E x, y, z : Scenario(c) = <<x, y, z>>
  <2>1. PICK x, y, z : Scenario(c) = <<x, y, z>>
    BY <1>8
  <2>2. Scenario(c) \in Seq({x, y, z})
    BY <1>3, <2>1
  <2>3. QED BY <2>2
<1>9. CASE \E x, y, z, w : Scenario(c) = <<x, y, z, w>>
  <2>1. PICK x, y, z, w : Scenario(c) = <<x, y, z, w>>
    BY <1>9
  <2>2. Scenario(c) \in Seq({x, y, z, w})
    BY <1>4, <2>1
  <2>3. QED BY <2>2
<1>10. QED BY <1>5, <1>6, <1>7, <1>8, <1>9

\* Every case starts with reset and goes on with the corpus in order (seed).
LEMMA PlanStarts ==
    ASSUME DriverAssumption, NEW c
    PROVE  /\ Plan(c)[1] = Reset
           /\ \A n \in 1..Len(SeedIds) : Plan(c)[n + 1] = Write(SeedIds[n], NoNonce)
<1>1. SeedIds \in Seq(STRING) /\ Len(SeedIds) \in Nat
  BY DEF DriverAssumption
<1>2. \A n \in 1..Len(SeedIds) : SeedIds[n] \in STRING
  BY <1>1
<1> DEFINE corpus == {Write(SeedIds[n], NoNonce) : n \in 1..Len(SeedIds)}
<1>3. Seeding \in Seq(corpus) /\ Len(Seeding) = Len(SeedIds)
      /\ \A n \in 1..Len(SeedIds) : Seeding[n] = Write(SeedIds[n], NoNonce)
  BY <1>1 DEF Seeding
<1> HIDE DEF corpus
<1>4. PICK S : Scenario(c) \in Seq(S)
  BY ScenarioTyped
<1> DEFINE T == corpus \cup S \cup {Reset}
           front == <<Reset>> \o Seeding
<1>5. Seeding \in Seq(T) /\ Scenario(c) \in Seq(T)
      /\ <<Reset>> \in Seq(T) /\ Len(<<Reset>>) = 1 /\ <<Reset>>[1] = Reset
  BY <1>3, <1>4
<1> HIDE DEF T
<1>6. /\ front \in Seq(T) /\ Len(front) = 1 + Len(SeedIds)
      /\ front[1] = Reset
      /\ \A n \in 1..Len(SeedIds) : front[n + 1] = Seeding[n]
  BY <1>1, <1>3, <1>5
<1>7. Plan(c) = front \o Scenario(c)
  BY DEF Plan
<1> HIDE DEF front
<1>8. \A n \in 1..(1 + Len(SeedIds)) : Plan(c)[n] = front[n]
  BY <1>1, <1>5, <1>6, <1>7
<1>9. QED BY <1>1, <1>3, <1>6, <1>8

----------------------------------------------------------------------------
(* The seeded corpus                                                       *)

\* What the system holds while the corpus is written: the memories of the
\* calls made since reset, as far as they were not refused, and no nonce.
Seeded ==
    phase = "run" =>
        /\ k \in Nat \ {0}
        /\ k = 1 => refused = {}
        /\ (k > 1 /\ k <= Preamble + 1) =>
              /\ store = {SeedIds[n] : n \in (1..(k - 2)) \ refused} /\ spent = {}
              /\ refused \subseteq 1..(k - 2)

\* A call that returns is followed by the next call or ends the case.
LEMMA HearMoves ==
    ASSUME NEW answer, phase = "run", Hear(answer)
    PROVE  phase' # "run" \/ (phase' = "run" /\ k' = k + 1)
BY DEF Hear, Report

\* What a reset leaves behind.
LEMMA ResetEmpties ==
    ASSUME NEW r \in Replies(Reset)
    PROVE  r.store = {} /\ r.spent = {} /\ r.ok = TRUE
BY DEF Replies, Reset, Call, Reply

\* What a write of the corpus leaves behind.
LEMMA WriteAdds ==
    ASSUME NEW i, spent = {}, NEW r \in Replies(Write(i, NoNonce))
    PROVE  /\ r.spent = {} /\ r.ok \in BOOLEAN
           /\ r.store = IF r.ok THEN store \cup {i} ELSE store
<1> DEFINE no == Reply(FALSE, <<>>, store, spent)
           yes == Reply(TRUE, <<>>, store \cup {i}, spent \cup ({NoNonce} \ {NoNonce}))
<1>1. Write(i, NoNonce).op = "remember" /\ Write(i, NoNonce).id = i
      /\ Write(i, NoNonce).nonce = NoNonce /\ ~Replayed(NoNonce)
  BY DEF Write, Call, Replayed
<1>2. r = no \/ r = yes
  BY <1>1 DEF Replies
<1>3. no.ok = FALSE /\ no.store = store /\ no.spent = spent
  BY DEF Reply
<1>4. yes.ok = TRUE /\ yes.store = store \cup {i} /\ yes.spent = spent \cup ({NoNonce} \ {NoNonce})
  BY DEF Reply
<1>5. QED BY <1>2, <1>3, <1>4

\* Return keeps the correspondence between the position and the contents.
LEMMA ReturnSeeds ==
    ASSUME DriverAssumption, Seeded, Return PROVE Seeded'
<1>1. phase = "run"
  BY DEF Return
<1>2. PICK r \in Replies(NextCall) :
          /\ store' = r.store /\ spent' = r.spent
          /\ refused' = IF k <= Preamble /\ ~r.ok THEN refused \cup {k - 1} ELSE refused
          /\ Hear([ok |-> r.ok, ids |-> r.ids])
  BY DEF Return
<1>3. phase' # "run" \/ (phase' = "run" /\ k' = k + 1)
  BY <1>1, <1>2, HearMoves
<1>4. CASE phase' # "run"
  BY <1>4 DEF Seeded
<1>5. CASE phase' = "run" /\ k' = k + 1
  <2>1. k \in Nat \ {0} /\ Len(SeedIds) \in Nat
    BY <1>1 DEF Seeded, DriverAssumption
  <2>2. CASE k = 1
    <3>1. NextCall = Reset
      BY <2>2, PlanStarts DEF NextCall
    <3>2. store' = {} /\ spent' = {} /\ refused' = {}
      BY <1>1, <1>2, <2>2, <3>1, ResetEmpties DEF Seeded
    <3>3. {SeedIds[n] : n \in (1..(k' - 2)) \ refused'} = {}
      BY <1>5, <2>2
    <3>4. QED BY <1>5, <2>2, <3>2, <3>3 DEF Seeded
  <2>3. CASE k > 1 /\ k <= Preamble
    <3>1. k - 1 \in 1..Len(SeedIds) /\ (k - 1) + 1 = k
      BY <2>1, <2>3 DEF Preamble
    <3>2. NextCall = Write(SeedIds[k - 1], NoNonce)
      BY <3>1, PlanStarts DEF NextCall
    <3>3. /\ store = {SeedIds[n] : n \in (1..(k - 2)) \ refused} /\ spent = {}
          /\ refused \subseteq 1..(k - 2)
      BY <1>1, <2>1, <2>3 DEF Seeded, Preamble
    <3>4. /\ spent' = {} /\ r.ok \in BOOLEAN
          /\ store' = IF r.ok THEN store \cup {SeedIds[k - 1]} ELSE store
      BY <1>2, <3>2, <3>3, WriteAdds
    <3>5. 1..(k' - 2) = 1..(k - 2) \cup {k - 1} /\ k - 1 \notin 1..(k - 2)
      BY <1>5, <2>1, <2>3
    <3>6. CASE r.ok
      <4>1. refused' = refused
        BY <1>2, <3>6
      <4>2. (1..(k' - 2)) \ refused' = ((1..(k - 2)) \ refused) \cup {k - 1}
        BY <3>3, <3>5, <4>1
      <4>3. store' = {SeedIds[n] : n \in (1..(k' - 2)) \ refused'}
        BY <3>3, <3>4, <3>6, <4>2
      <4>4. refused' \subseteq 1..(k' - 2)
        BY <3>3, <3>5, <4>1
      <4>5. k' \in Nat \ {0} /\ k' # 1
        BY <1>5, <2>1, <2>3
      <4>6. QED BY <3>4, <4>3, <4>4, <4>5 DEF Seeded
    <3>7. CASE ~r.ok
      <4>1. refused' = refused \cup {k - 1}
        BY <1>2, <2>3, <3>7
      <4>2. (1..(k' - 2)) \ refused' = (1..(k - 2)) \ refused
        BY <3>3, <3>5, <4>1
      <4>3. store' = {SeedIds[n] : n \in (1..(k' - 2)) \ refused'}
        BY <3>3, <3>4, <3>7, <4>2
      <4>4. refused' \subseteq 1..(k' - 2)
        BY <3>3, <3>5, <4>1
      <4>5. k' \in Nat \ {0} /\ k' # 1
        BY <1>5, <2>1, <2>3
      <4>6. QED BY <3>4, <4>3, <4>4, <4>5 DEF Seeded
    <3>8. QED BY <3>4, <3>6, <3>7
  <2>4. CASE k > Preamble
    BY <1>5, <2>1, <2>4 DEF Seeded, Preamble
  <2>5. QED BY <2>1, <2>2, <2>3, <2>4 DEF Preamble
<1>6. QED BY <1>3, <1>4, <1>5

\* Nothing of the preamble is caught: an exception there starts over or ends
\* the case.
LEMMA RaiseSeeds ==
    ASSUME DriverAssumption, Seeded, NEW error, Raise(error) PROVE Seeded'
<1>1. phase = "run" /\ k \in Nat \ {0} /\ Len(SeedIds) \in Nat
  BY DEF Raise, Seeded, DriverAssumption
<1>2. CASE Caught(error) /\ Hear(NoOutcome)
  <2>1. NextCall.op = "recall"
    BY <1>2 DEF Caught
  <2>2. k > Preamble
    <3>1. SUFFICES ASSUME k <= Preamble PROVE FALSE
      BY <1>1 DEF Preamble
    <3>2. CASE k = 1
      <4>1. NextCall = Reset
        BY <3>2, PlanStarts DEF NextCall
      <4>2. QED BY <2>1, <4>1 DEF Reset, Call
    <3>3. CASE k > 1
      <4>1. k - 1 \in 1..Len(SeedIds) /\ (k - 1) + 1 = k
        BY <1>1, <3>1, <3>3 DEF Preamble
      <4>2. NextCall = Write(SeedIds[k - 1], NoNonce)
        BY <4>1, PlanStarts DEF NextCall
      <4>3. QED BY <2>1, <4>2 DEF Write, Call
    <3>4. QED BY <1>1, <3>2, <3>3
  <2>3. phase' # "run" \/ (phase' = "run" /\ k' = k + 1)
    BY <1>1, <1>2, HearMoves
  <2>4. QED BY <1>1, <2>2, <2>3 DEF Seeded, Preamble
<1>3. CASE ~Caught(error) /\ error = "unsupported" /\ Report(UnsupportedRow)
  BY <1>3 DEF Seeded, Report
<1>4. CASE Fail
  BY <1>1, <1>4 DEF Seeded, Fail, Again, Report
<1>5. QED BY <1>2, <1>3, <1>4 DEF Raise

\* Every step keeps the position and the contents of the system in agreement.
THEOREM SeededHolds == ASSUME DriverAssumption PROVE Spec => []Seeded
<1>1. Init => Seeded
  BY DEF Init, Seeded
<1>2. Seeded /\ [Next]_vars => Seeded'
  <2> SUFFICES ASSUME Seeded, [Next]_vars PROVE Seeded'
    OBVIOUS
  <2>1. CASE Prepare \/ Crash
    BY <2>1 DEF Prepare, Crash, Seeded
  <2>2. CASE Decline
    BY <2>2 DEF Decline, Report, Seeded
  <2>3. CASE Begin
    BY <2>3 DEF Begin, Seeded
  <2>4. CASE Return
    BY <2>4, ReturnSeeds
  <2>5. ASSUME NEW error, Raise(error) PROVE Seeded'
    BY <2>5, RaiseSeeds
  <2>6. CASE UNCHANGED vars
    BY <2>6 DEF vars, Seeded, Preamble
  <2>7. QED BY <2>1, <2>2, <2>3, <2>4, <2>5, <2>6 DEF Next
<1>3. QED BY <1>1, <1>2, PTL DEF Spec

\* A scenario starts from the corpus as far as it was accepted and no spent nonce,
\* whatever earlier runs, cases and failed attempts left in the system (_run_case).
THEOREM FreshStartHolds == ASSUME DriverAssumption PROVE Spec => []FreshStart
<1>1. Seeded => FreshStart
  <2> SUFFICES ASSUME Seeded, phase = "run", k = Preamble + 1
               PROVE  store = {SeedIds[n] : n \in (1..Len(SeedIds)) \ refused} /\ spent = {}
    BY DEF FreshStart
  <2>1. Len(SeedIds) \in Nat /\ k - 2 = Len(SeedIds) /\ k > 1
    BY DEF DriverAssumption, Preamble
  <2>2. QED BY <2>1 DEF Seeded, Preamble
<1>2. QED BY <1>1, SeededHolds, PTL

----------------------------------------------------------------------------
(* Credit for authorization                                                *)

Asks(c) == \E needs \in Requirements(c) : needs \cap Authorization # {}

\* Authorization is never one of two ways to support a case.
LEMMA AskedIsHeld ==
    ASSUME NEW c, Asks(c), Supported(c)
    PROVE  posture.caps \cap Authorization # {}
<1>1. \E needs : Requirements(c) = {needs}
  <2>1. {"temporal"} \cap Authorization = {} /\ {"supersession"} \cap Authorization = {}
    BY DEF Authorization
  <2>2. c # "retrieval-current"
    <3>1. SUFFICES ASSUME c = "retrieval-current" PROVE FALSE
      OBVIOUS
    <3>2. Requirements(c) = {{"temporal"}, {"supersession"}}
      BY <3>1 DEF Requirements
    <3>3. QED BY <2>1, <3>2 DEF Asks
  <2>3. Requirements(c) # {}
    BY DEF Asks
  <2>4. QED BY <2>2, <2>3 DEF Requirements
<1>2. PICK needs : Requirements(c) = {needs}
  BY <1>1
<1>3. needs \cap Authorization # {} /\ needs \subseteq posture.caps
  BY <1>2 DEF Asks, Supported
<1>4. QED BY <1>3

\* After the preparation an authorization claim is in force only if a corrupted
\* credential was turned away, a case runs only if it is supported, and no row
\* has been credited for authorization otherwise.
Authenticated ==
    /\ system \in Systems
    /\ \E S : rows \in Seq(S)
    /\ phase = "run" => Supported(Current)
    /\ phase \in {"prepare", "case", "run", "finished", "crashed"}
    /\ phase = "prepare" => posture.check # "v1" /\ posture.caps = {}
    /\ posture.check # "v1" =>
          /\ (phase # "prepare" /\ posture.caps \cap Authorization # {})
                => system.surface = "genuine"
          /\ \A n \in 1..Len(rows) :
                (rows[n].supported /\ Asks(rows[n].case)) => system.surface = "genuine"

\* A row that was earned keeps the report as it should be.
LEMMA ReportKeeps ==
    ASSUME Authenticated, NEW row, Report(row), phase \in {"case", "run"},
           UNCHANGED <<system, posture>>,
           (posture.check # "v1" /\ row.supported /\ Asks(row.case))
                => system.surface = "genuine"
    PROVE  Authenticated'
<1>1. PICK S : rows \in Seq(S)
  BY DEF Authenticated
<1> DEFINE T == S \cup {row}
<1>2. rows \in Seq(T) /\ row \in T
  BY <1>1
<1> HIDE DEF T
<1>3. rows' \in Seq(T) /\ Len(rows') = Len(rows) + 1 /\ Len(rows) \in Nat
      /\ rows'[Len(rows) + 1] = row
      /\ \A n \in 1..Len(rows) : rows'[n] = rows[n]
  BY <1>2 DEF Report
<1>4. phase' \in {"case", "finished"}
  BY DEF Report
<1>5. ASSUME posture.check # "v1", NEW n \in 1..Len(rows'), rows'[n].supported,
             Asks(rows'[n].case)
      PROVE  system.surface = "genuine"
  <2>1. CASE n = Len(rows) + 1
    BY <1>3, <1>5, <2>1
  <2>2. CASE n \in 1..Len(rows)
    BY <1>3, <1>5, <2>2 DEF Authenticated
  <2>3. QED BY <1>3, <2>1, <2>2
<1>6. \E R : rows' \in Seq(R)
  BY <1>3
<1>7. posture' = posture /\ system' = system
  OBVIOUS
<1>8. QED BY <1>4, <1>5, <1>6, <1>7 DEF Authenticated, Asks, Requirements

\* A row of the case that is running is credited only as its claims allow.
LEMMA CurrentIsEarned ==
    ASSUME Authenticated, phase = "run", posture.check # "v1", Asks(Current)
    PROVE  system.surface = "genuine"
<1>1. Supported(Current)
  BY DEF Authenticated
<1>2. posture.caps \cap Authorization # {}
  BY <1>1, AskedIsHeld
<1>3. QED BY <1>2 DEF Authenticated

\* A step that reports nothing keeps the report as it should be.
LEMMA QuietKeeps ==
    ASSUME Authenticated, UNCHANGED <<system, posture, rows>>,
           phase' = "prepare" => phase = "prepare",
           phase # "prepare" \/ phase' = phase
              \/ posture.caps \cap Authorization = {},
           phase' \in {"prepare", "case", "run", "finished", "crashed"},
           phase' = "run" => Supported(Current)'
    PROVE  Authenticated'
<1>1. system' = system /\ posture' = posture /\ rows' = rows
  OBVIOUS
<1>2. (\E S : rows \in Seq(S))'
  <2>1. PICK S : rows \in Seq(S)
    BY DEF Authenticated
  <2>2. rows' \in Seq(S)
    BY <1>1, <2>1
  <2>3. QED BY <2>2
<1>3. posture.check # "v1" =>
          \A n \in 1..Len(rows') :
             (rows'[n].supported /\ Asks(rows'[n].case)) => system.surface = "genuine"
  BY <1>1 DEF Authenticated
<1>4. (phase' # "prepare" /\ posture.check # "v1" /\ posture.caps \cap Authorization # {})
          => system.surface = "genuine"
  BY DEF Authenticated
<1>5. phase' = "prepare" => posture.check # "v1" /\ posture.caps = {}
  BY DEF Authenticated
<1>6. (system \in Systems)'
  BY <1>1 DEF Authenticated
<1>7. QED BY <1>1, <1>2, <1>3, <1>4, <1>5, <1>6 DEF Authenticated

\* What a call's end leaves of the report.
LEMMA HearKeeps ==
    ASSUME Authenticated, NEW answer, phase = "run", Hear(answer),
           UNCHANGED <<system, suite, posture>>
    PROVE  Authenticated'
<1>1. CASE \E outcome : Report(ScoredRow(outcome))
  <2>1. PICK outcome : Report(ScoredRow(outcome))
    BY <1>1
  <2>2. ScoredRow(outcome).case = Current
    BY DEF ScoredRow, Row
  <2>3. QED BY <2>1, <2>2, CurrentIsEarned, ReportKeeps
<1>2. CASE UNCHANGED <<phase, rows>>
  <2>1. Supported(Current) /\ Supported(Current)' = Supported(Current)
    BY <1>2 DEF Authenticated, Supported, Current
  <2>2. QED BY <1>2, <2>1, QuietKeeps
<1>3. QED BY <1>1, <1>2 DEF Hear

\* Only the row of an error is reported by a failure.
LEMMA FailKeeps ==
    ASSUME Authenticated, phase = "run", Fail, UNCHANGED <<system, suite, posture>>
    PROVE  Authenticated'
<1>1. CASE Report(ErrorRow)
  <2>1. ErrorRow.case = Current
    BY DEF ErrorRow, Row
  <2>2. QED BY <1>1, <2>1, CurrentIsEarned, ReportKeeps
<1>2. CASE UNCHANGED <<phase, rows>>
  <2>1. Supported(Current) /\ Supported(Current)' = Supported(Current)
    BY <1>2 DEF Authenticated, Supported, Current
  <2>2. QED BY <1>2, <2>1, QuietKeeps
<1>3. QED BY <1>1, <1>2 DEF Fail

\* The preparation strips the claims of whoever does not authenticate.
LEMMA PrepareKeeps == ASSUME DriverAssumption, Authenticated, Prepare PROVE Authenticated'
<1>1. phase' = "case" /\ posture' = Prepared /\ rows' = rows /\ system' = system
      /\ phase = "prepare"
  BY DEF Prepare
<1>2. system.surface \in {"none", "lax", "genuine"}
  BY DEF Authenticated, DriverAssumption
<1>3. Prepared.caps \cap Authorization # {} => system.surface = "genuine"
  <2>1. (system.claims \ Authorization) \cap Authorization = {}
    OBVIOUS
  <2>2. CASE system.surface = "none"
    BY <2>1, <2>2 DEF Prepared
  <2>3. CASE system.surface = "lax"
    BY <2>1, <2>3 DEF Prepared, AcceptsProbe
  <2>4. QED BY <1>2, <2>2, <2>3
<1>4. \A n \in 1..Len(rows) : (rows[n].supported /\ Asks(rows[n].case))
                                => posture.check = "v1" \/ system.surface = "genuine"
  BY DEF Authenticated
<1>5. /\ system' \in Systems /\ \E S : rows' \in Seq(S)
      /\ phase' = "case"
  BY <1>1 DEF Authenticated
<1>6. /\ posture.check # "v1"
      /\ \A n \in 1..Len(rows) : (rows[n].supported /\ Asks(rows[n].case)) => system.surface = "genuine"
  BY <1>1, <1>4 DEF Authenticated
<1>7. \A n \in 1..Len(rows)' : (rows[n].supported' /\ Asks(rows[n].case)') => system'.surface = "genuine"
  BY <1>1, <1>6 DEF Asks, Requirements
<1>8. posture'.caps \cap Authorization # {} => system'.surface = "genuine"
  BY <1>1, <1>3
<1>9. QED BY <1>5, <1>7, <1>8 DEF Authenticated

\* Every step keeps the report within what was authenticated.
THEOREM AuthenticatedHolds == ASSUME DriverAssumption PROVE Spec => []Authenticated
<1>1. Init => Authenticated
  <2> SUFFICES ASSUME Init PROVE Authenticated
    OBVIOUS
  <2>1. rows \in Seq({}) /\ Len(rows) = 0
    BY DEF Init
  <2>2. \/ phase = "case" /\ posture.check = "v1"
        \/ phase = "prepare" /\ posture.check = "v2" /\ posture.caps = {}
    BY DEF Init
  <2>3. system \in Systems
    BY DEF Init
  <2>4. QED BY <2>1, <2>2, <2>3 DEF Authenticated
<1>2. Authenticated /\ [Next]_vars => Authenticated'
  <2> SUFFICES ASSUME Authenticated, [Next]_vars PROVE Authenticated'
    OBVIOUS
  <2>1. CASE Prepare
    BY <2>1, PrepareKeeps
  <2>2. CASE Crash
    <3>1. posture.caps \cap Authorization = {}
      BY <2>2 DEF Crash, Authenticated
    <3>2. QED BY <2>2, <3>1, QuietKeeps DEF Crash
  <2>3. CASE Decline
    <3>1. UnsupportedRow.supported = FALSE
      BY DEF UnsupportedRow, Row
    <3>2. QED BY <2>3, <3>1, ReportKeeps DEF Decline
  <2>4. CASE Begin
    <3>1. Supported(Current)'
      BY <2>4 DEF Begin, Supported, Current
    <3>2. QED BY <2>4, <3>1, QuietKeeps DEF Begin
  <2>5. CASE Return
    <3>1. PICK answer : Hear(answer)
      BY <2>5 DEF Return
    <3>2. QED BY <2>5, <3>1, HearKeeps DEF Return
  <2>6. ASSUME NEW error, Raise(error) PROVE Authenticated'
    <3>1. phase = "run" /\ UNCHANGED <<system, suite, posture>>
      BY <2>6 DEF Raise
    <3>2. CASE Hear(NoOutcome)
      BY <3>1, <3>2, HearKeeps
    <3>3. CASE Report(UnsupportedRow)
      <4>1. UnsupportedRow.supported = FALSE
        BY DEF UnsupportedRow, Row
      <4>2. QED BY <3>1, <3>3, <4>1, ReportKeeps
    <3>4. CASE Fail
      BY <3>1, <3>4, FailKeeps
    <3>5. QED BY <2>6, <3>2, <3>3, <3>4 DEF Raise
  <2>7. CASE UNCHANGED vars
    <3>1. phase' = "run" => Supported(Current)'
      BY <2>7 DEF vars, Authenticated, Supported, Current
    <3>2. phase' \in {"prepare", "case", "run", "finished", "crashed"} /\ phase' = phase
      BY <2>7 DEF vars, Authenticated
    <3>3. QED BY <2>7, <3>1, <3>2, QuietKeeps DEF vars
  <2>8. QED BY <2>1, <2>2, <2>3, <2>4, <2>5, <2>6, <2>7 DEF Next
<1>3. QED BY <1>1, <1>2, PTL DEF Spec

\* Under protocol v2 isolation, clearance and purpose are credited only to a
\* system that turned a corrupted credential away (prepare).
THEOREM CreditNeedsAuthenticationHolds ==
    ASSUME DriverAssumption PROVE Spec => []CreditNeedsAuthentication
<1>1. Authenticated => CreditNeedsAuthentication
  BY DEF Authenticated, CreditNeedsAuthentication, Asks
<1>2. QED BY <1>1, AuthenticatedHolds, PTL
----------------------------------------------------------------------------
(* Credit for refusing a replay                                            *)

ReplayCases == {"replay-mutation", "replay-restart"}

LEMMA Concatenated ==
    ASSUME NEW T, NEW f \in Seq(T), NEW s \in Seq(T), NEW p, p = f \o s
    PROVE  Len(p) = Len(f) + Len(s) /\ \A n \in 1..Len(s) : p[Len(f) + n] = s[n]
OBVIOUS

\* The calls of a scenario come after reset and the corpus.
LEMMA PlanEnds ==
    ASSUME DriverAssumption, NEW c
    PROVE  /\ Len(Scenario(c)) \in Nat /\ Preamble \in Nat
           /\ Len(Plan(c)) = Preamble + Len(Scenario(c))
           /\ \A n \in 1..Len(Scenario(c)) : Plan(c)[Preamble + n] = Scenario(c)[n]
<1>1. SeedIds \in Seq(STRING) /\ Len(SeedIds) \in Nat
  BY DEF DriverAssumption
<1>2. \A n \in 1..Len(SeedIds) : SeedIds[n] \in STRING
  BY <1>1
<1> DEFINE corpus == {Write(SeedIds[n], NoNonce) : n \in 1..Len(SeedIds)}
<1>3. Seeding \in Seq(corpus) /\ Len(Seeding) = Len(SeedIds)
  BY <1>1 DEF Seeding
<1> HIDE DEF corpus
<1>4. PICK S : Scenario(c) \in Seq(S)
  BY ScenarioTyped
<1> DEFINE T == corpus \cup S \cup {Reset}
           front == <<Reset>> \o Seeding
<1>5. Seeding \in Seq(T) /\ Scenario(c) \in Seq(T) /\ <<Reset>> \in Seq(T) /\ Len(<<Reset>>) = 1
  BY <1>3, <1>4
<1> HIDE DEF T
<1>6. front \in Seq(T) /\ Len(front) = Preamble
  BY <1>1, <1>3, <1>5 DEF Preamble
<1>7. Plan(c) = front \o Scenario(c)
  BY DEF Plan
<1> HIDE DEF front
<1>8. Preamble \in Nat /\ Len(Scenario(c)) \in Nat
  BY <1>1, <1>5 DEF Preamble
<1> DEFINE s == Scenario(c)
           p == Plan(c)
<1>9. s \in Seq(T) /\ p = front \o s
  BY <1>5, <1>7
<1> HIDE DEF s, p
<1>10. Len(p) = Len(front) + Len(s) /\ \A n \in 1..Len(s) : p[Len(front) + n] = s[n]
  <2>1. front \in Seq(T)
    BY <1>6
  <2>2. QED BY <1>9, <2>1, Concatenated
<1>11. QED BY <1>6, <1>8, <1>10 DEF s, p

\* Both cases write a fact under a nonce, which has to succeed, and end with
\* another write under the same one.
LEMMA ReplayScenario ==
    ASSUME NEW c \in ReplayCases
    PROVE  /\ Len(Scenario(c)) \in {2, 3}
           /\ Scenario(c)[1].op = "remember" /\ Scenario(c)[1].needed
           /\ \A n \in 1..Len(Scenario(c)) : /\ Scenario(c)[n].op # "recall"
                                             /\ Scenario(c)[n].needed => n = 1
<1>1. CASE c = "replay-mutation"
  <2> DEFINE a == Needed(Write("replay-fact", "same-nonce"))
             b == Write("replay-fact-2", "same-nonce")
  <2>1. Scenario(c) = <<a, b>>
    BY <1>1 DEF Scenario
  <2>2. a.op = "remember" /\ a.needed /\ b.op = "remember" /\ b.needed = FALSE
    BY DEF Needed, Write, Call
  <2> HIDE DEF a, b
  <2>3. QED BY <2>1, <2>2
<1>2. CASE c = "replay-restart"
  <2> DEFINE a == Needed(Write("durable-fact", "durable-nonce"))
             r == Restart
             b == Write("durable-fact-2", "durable-nonce")
  <2>1. Scenario(c) = <<a, r, b>>
    BY <1>2 DEF Scenario
  <2>2. a.op = "remember" /\ a.needed /\ b.op = "remember" /\ b.needed = FALSE /\ r.op = "restart" /\ r.needed = FALSE
    BY DEF Needed, Write, Call, Restart
  <2> HIDE DEF a, r, b
  <2>3. QED BY <2>1, <2>2
<1>3. QED BY <1>1, <1>2 DEF ReplayCases

\* The answers are those of the calls made since the corpus was there, and a replay
\* case goes on only after its first write was accepted.
Heard ==
    /\ \E S : answers \in Seq(S)
    /\ phase = "run" =>
          /\ k \in 1..Len(Plan(Current))
          /\ Len(answers) = IF k > Preamble THEN k - Preamble - 1 ELSE 0
          /\ (Current \in ReplayCases /\ k > Preamble + 1) => answers[1].ok

\* A row that gives no credit, or the one that the answers earn.
Earned == (Last.correct /\ Last.case \in ReplayCases) =>
              \/ /\ Len(answers) = Len(Scenario(Last.case))
                 /\ answers[1].ok /\ ~answers[Len(answers)].ok
              \/ Len(answers) = 1 /\ ~answers[1].ok /\ spent = {}

ReplayInv ==
    /\ Heard
    /\ \E S : rows \in Seq(S)
    /\ Judged => Earned

\* What was appended is what is there last.
LEMMA Appended ==
    ASSUME NEW S, NEW s \in Seq(S), NEW e, NEW t, t = Append(s, e)
    PROVE  /\ t \in Seq(S \cup {e}) /\ Len(t) = Len(s) + 1 /\ t # <<>>
           /\ t[Len(t)] = e /\ \A n \in 1..Len(s) : t[n] = s[n]
<1>1. s \in Seq(S \cup {e}) /\ e \in S \cup {e}
  OBVIOUS
<1> DEFINE R == S \cup {e}
<1> HIDE DEF R
<1>2. t \in Seq(R) /\ Len(t) = Len(s) + 1 /\ t # <<>> /\ t[Len(t)] = e /\ \A n \in 1..Len(s) : t[n] = s[n]
  BY <1>1 DEF R
<1>3. QED BY <1>2 DEF R

LEMMA ReportEnds ==
    ASSUME NEW S, rows \in Seq(S), NEW row, Report(row)
    PROVE  (\E R : rows' \in Seq(R)) /\ Last' = row /\ phase' \in {"finished", "case"}
<1>1. rows' = Append(rows, row) /\ phase' \in {"finished", "case"}
  BY DEF Report
<1>2. rows' \in Seq(S \cup {row}) /\ rows'[Len(rows')] = row
  BY <1>1, Appended
<1>3. QED BY <1>1, <1>2 DEF Last

\* A row without credit may be reported whatever was heard.
LEMMA PlainRow ==
    ASSUME ReplayInv, NEW row, row.correct = FALSE, Report(row), \E S : answers' \in Seq(S)
    PROVE  ReplayInv'
<1>1. PICK S : rows \in Seq(S)
  BY DEF ReplayInv
<1>2. (\E R : rows' \in Seq(R)) /\ Last' = row /\ phase' \in {"finished", "case"}
  BY <1>1, ReportEnds
<1>3. Heard'
  BY <1>2 DEF Heard
<1>4. Earned'
  BY <1>2 DEF Earned
<1>5. QED BY <1>2, <1>3, <1>4 DEF ReplayInv

\* The verdict about a replay case is that its last call was refused.
LEMMA RefusedIsCorrect ==
    ASSUME NEW c \in ReplayCases, NEW S, NEW h \in Seq(S), Len(h) > 0,
           NEW bounded, bounded = [Outcome(c, h) EXCEPT !.ids = Bounded(@)], Evaluate(c, bounded)
    PROVE  ~h[Len(h)].ok
<1>1. Outcome(c, h) = h[Len(h)]
  BY DEF Outcome, ReplayCases
<1>2. Expect(c).allowed = FALSE
  BY DEF Expect, ReplayCases
<1>3. bounded.ok = FALSE
  BY <1>2 DEF Evaluate
<1>4. bounded.ok = h[Len(h)].ok
  BY <1>1
<1>5. QED BY <1>3, <1>4

\* An answer of a call, as long as a replay case whose first write is refused finds
\* no nonce spent.
LEMMA HearEarns ==
    ASSUME DriverAssumption, ReplayInv, NEW answer, phase = "run", Hear(answer), suite' = suite,
           (Current \in ReplayCases /\ k = Preamble + 1 /\ ~answer.ok) => spent' = {}
    PROVE  ReplayInv'
<1> DEFINE heard == IF k > Preamble THEN Append(answers, answer) ELSE answers
<1>1. PICK S : answers \in Seq(S)
  BY DEF ReplayInv, Heard
<1>2. PICK R : rows \in Seq(R)
  BY DEF ReplayInv
<1>3. /\ Preamble \in Nat /\ k \in Nat /\ Len(Plan(Current)) = Preamble + Len(Scenario(Current))
      /\ k \in 1..Len(Plan(Current)) /\ Len(Scenario(Current)) \in Nat
      /\ Len(answers) = IF k > Preamble THEN k - Preamble - 1 ELSE 0
      /\ (Current \in ReplayCases /\ k > Preamble + 1) => answers[1].ok
  BY PlanEnds DEF ReplayInv, Heard
<1>4. answers' = heard
  BY DEF Hear
<1>5. (\E Q : heard \in Seq(Q)) /\ Len(heard) = IF k > Preamble THEN k - Preamble ELSE 0
  <2>1. CASE k > Preamble
    <3>1. heard \in Seq(S \cup {answer}) /\ Len(heard) = Len(answers) + 1
      BY <1>1, <2>1, Appended
    <3>2. QED BY <1>3, <2>1, <3>1
  <2>2. CASE ~(k > Preamble)
    BY <1>1, <1>3, <2>2
  <2>3. QED BY <2>1, <2>2
<1>6. ASSUME Current \in ReplayCases, k > Preamble
      PROVE  IF k = Preamble + 1 THEN heard[1] = answer ELSE heard[1].ok
  <2>1. CASE k = Preamble + 1
    <3>1. Len(answers) = 0 /\ heard = Append(answers, answer)
      BY <1>3, <1>6, <2>1
    <3>2. heard[1] = answer
      BY <1>1, <3>1
    <3>3. QED BY <2>1, <3>2
  <2>2. CASE k > Preamble + 1
    <3>1. Len(answers) >= 1 /\ heard = Append(answers, answer)
      BY <1>3, <1>6, <2>2
    <3>2. heard[1] = answers[1]
      BY <1>1, <3>1
    <3>3. QED BY <1>3, <1>6, <2>2, <3>2
  <2>3. QED BY <1>3, <1>6, <2>1, <2>2
<1>7. CASE Report(ScoredRow(Outcome(Current, heard))) /\ (k = Len(Plan(Current)) \/ (NextCall.needed /\ ~answer.ok))
  <2> DEFINE outcome == Outcome(Current, heard)
             bounded == [outcome EXCEPT !.ids = Bounded(@)]
             row == ScoredRow(outcome)
  <2>1. row.case = Current /\ row.correct = Evaluate(Current, bounded)
    BY DEF ScoredRow, Row
  <2>2. Report(row)
    BY <1>7
  <2>3. ASSUME row.correct, row.case \in ReplayCases
        PROVE  \/ /\ Len(heard) = Len(Scenario(Current))
                  /\ heard[1].ok /\ ~heard[Len(heard)].ok
               \/ Len(heard) = 1 /\ ~heard[1].ok /\ spent' = {}
    <3>1. Current \in ReplayCases /\ Evaluate(Current, bounded)
      BY <2>1, <2>3
    <3>2. Len(Scenario(Current)) \in {2, 3}
      BY <3>1, ReplayScenario
    <3>3. k = Len(Plan(Current)) \/ (k = Preamble + 1 /\ ~answer.ok)
      <4>1. SUFFICES ASSUME NextCall.needed, ~answer.ok PROVE k = Preamble + 1
        BY <1>7
      <4>2. CASE k > Preamble
        <5>1. k - Preamble \in 1..Len(Scenario(Current)) /\ Preamble + (k - Preamble) = k
          BY <1>3, <4>2
        <5>2. NextCall = Scenario(Current)[k - Preamble]
          BY <5>1, PlanEnds DEF NextCall
        <5>3. k - Preamble = 1
          BY <3>1, <4>1, <5>1, <5>2, ReplayScenario
        <5>4. QED BY <1>3, <5>3
      <4>3. CASE ~(k > Preamble)
        <5>1. NextCall.needed = FALSE
          <6>1. CASE k = 1
            <7>1. NextCall = Reset
              BY <6>1, PlanStarts DEF NextCall
            <7>2. QED BY <7>1 DEF Reset, Call
          <6>2. CASE k # 1
            <7>1. k - 1 \in 1..Len(SeedIds) /\ (k - 1) + 1 = k
              BY <1>3, <4>3, <6>2 DEF Preamble, DriverAssumption
            <7>2. NextCall = Write(SeedIds[k - 1], NoNonce)
              BY <7>1, PlanStarts DEF NextCall
            <7>3. QED BY <7>2 DEF Write, Call
          <6>3. QED BY <6>1, <6>2
        <5>2. QED BY <4>1, <5>1
      <4>4. QED BY <4>2, <4>3
    <3>4. k > Preamble /\ Len(heard) = k - Preamble /\ Len(heard) > 0
      BY <1>3, <1>5, <3>2, <3>3
    <3>5. PICK Q : heard \in Seq(Q)
      BY <1>5
    <3> HIDE DEF heard
    <3>6. ~heard[Len(heard)].ok
      BY <3>1, <3>4, <3>5, RefusedIsCorrect
    <3>7. CASE k = Preamble + 1 /\ ~answer.ok
      BY <1>3, <1>6, <3>1, <3>4, <3>7
    <3>8. CASE k = Len(Plan(Current))
      <4> DEFINE n == Len(Scenario(Current))
                 p == Preamble
                 h == Len(heard)
      <4>0. n \in {2, 3} /\ p \in Nat /\ h = k - p /\ k = p + n
        BY <1>3, <3>2, <3>4, <3>8
      <4> HIDE DEF n, p, h
      <4>1. k > Preamble + 1 /\ Len(heard) = Len(Scenario(Current))
        <5>1. k > p + 1 /\ h = n
          BY <4>0
        <5>2. QED BY <5>1 DEF n, p, h
      <4>2. heard[1].ok
        BY <1>3, <1>6, <3>1, <4>1
      <4>3. QED BY <3>6, <4>1, <4>2
    <3>9. QED BY <3>3, <3>7, <3>8
  <2> HIDE DEF heard, row
  <2>4. (\E Q : rows' \in Seq(Q)) /\ Last' = row /\ phase' \in {"finished", "case"}
    BY <1>2, <2>2, ReportEnds
  <2>5. Heard'
    BY <1>4, <1>5, <2>4 DEF Heard
  <2>6. Earned'
    BY <1>4, <2>1, <2>3, <2>4 DEF Earned
  <2>7. QED BY <2>4, <2>5, <2>6 DEF ReplayInv
<1>8. CASE /\ k # Len(Plan(Current)) /\ ~(NextCall.needed /\ ~answer.ok)
            /\ k' = k + 1 /\ UNCHANGED <<phase, rows, attempt>>
  <2>1. Current' = Current
    BY <1>8 DEF Current
  <2>2. k' \in 1..Len(Plan(Current))
    BY <1>3, <1>8
  <2>3. Len(heard) = IF k' > Preamble THEN k' - Preamble - 1 ELSE 0
    BY <1>3, <1>5, <1>8
  <2>4. ASSUME Current \in ReplayCases, k' > Preamble + 1 PROVE heard[1].ok
    <3>1. k > Preamble
      BY <1>3, <1>8, <2>4
    <3>2. CASE k = Preamble + 1
      <4>1. Len(Scenario(Current)) \in {2, 3}
        BY <2>4, ReplayScenario
      <4>2. NextCall = Scenario(Current)[1]
        BY <3>2, <4>1, PlanEnds DEF NextCall
      <4>3. answer.ok
        BY <1>8, <2>4, <4>2, ReplayScenario
      <4>4. QED BY <1>6, <2>4, <3>1, <3>2, <4>3
    <3>3. QED BY <1>6, <2>4, <3>1, <3>2
  <2> HIDE DEF heard
  <2>5. Heard'
    BY <1>4, <1>5, <1>8, <2>1, <2>2, <2>3, <2>4 DEF Heard, Plan, Preamble
  <2>6. ~Judged'
    BY <1>8 DEF Judged
  <2>7. (\E Q : rows \in Seq(Q))'
    BY <1>2, <1>8
  <2>8. QED BY <2>5, <2>6, <2>7 DEF ReplayInv
<1>9. QED BY <1>7, <1>8 DEF Hear

\* An attempt starts with nothing heard.
LEMMA StartEarns ==
    ASSUME DriverAssumption, ReplayInv, k' = 1, answers' = <<>>, rows' = rows, phase' = "run"
    PROVE  ReplayInv'
<1>1. answers' \in Seq({}) /\ Len(answers') = 0
  OBVIOUS
<1>2. Preamble \in Nat /\ Preamble >= 1
  BY DEF Preamble, DriverAssumption
<1>3. 1 \in 1..Len(Plan(Current'))
  BY <1>2, PlanEnds
<1>4. Heard'
  BY <1>1, <1>2, <1>3 DEF Heard, Plan, Preamble
<1>5. ~Judged'
  BY DEF Judged
<1>6. (\E S : rows \in Seq(S))'
  BY DEF ReplayInv
<1>7. QED BY <1>4, <1>5, <1>6 DEF ReplayInv

\* A write that is refused spends no nonce.
LEMMA RefusalSpendsNothing ==
    ASSUME NEW call, call.op = "remember", NEW r \in Replies(call), r.ok # TRUE
    PROVE  r.spent = spent
<1> DEFINE no == Reply(FALSE, <<>>, store, spent)
           yes == Reply(TRUE, <<>>, store \cup {call.id}, spent \cup ({call.nonce} \ {NoNonce}))
<1>1. r = no \/ r = yes
  BY DEF Replies
<1>2. no.spent = spent /\ yes.ok = TRUE
  BY DEF Reply
<1>3. QED BY <1>1, <1>2

LEMMA ReturnEarns == ASSUME DriverAssumption, ReplayInv, Seeded, Return PROVE ReplayInv'
<1>1. phase = "run" /\ suite' = suite
  BY DEF Return
<1>2. PICK r \in Replies(NextCall) : Hear([ok |-> r.ok, ids |-> r.ids]) /\ spent' = r.spent
  BY DEF Return
<1> DEFINE answer == [ok |-> r.ok, ids |-> r.ids]
<1>3. ASSUME Current \in ReplayCases, k = Preamble + 1, ~answer.ok PROVE spent' = {}
  <2>1. Preamble \in Nat /\ Preamble >= 1 /\ Len(Scenario(Current)) \in {2, 3}
    BY <1>3, ReplayScenario DEF Preamble, DriverAssumption
  <2>2. NextCall = Scenario(Current)[1]
    BY <1>3, <2>1, PlanEnds DEF NextCall
  <2>3. NextCall.op = "remember"
    BY <1>3, <2>2, ReplayScenario
  <2>4. spent = {}
    BY <1>1, <1>3, <2>1 DEF Seeded
  <2>5. answer.ok = r.ok
    OBVIOUS
  <2>6. r.spent = spent
    BY <1>3, <2>3, <2>5, RefusalSpendsNothing
  <2>7. QED BY <1>2, <2>4, <2>6
<1> HIDE DEF answer
<1>4. QED BY <1>1, <1>2, <1>3, HearEarns DEF answer

\* No call of a replay case is a recall, whose exceptions would count as answers.
LEMMA RaiseEarns == ASSUME DriverAssumption, ReplayInv, Seeded, NEW error, Raise(error) PROVE ReplayInv'
<1>1. phase = "run" /\ suite' = suite
  BY DEF Raise
<1>2. PICK S : answers \in Seq(S)
  BY DEF ReplayInv, Heard
<1>3. CASE Caught(error) /\ Hear(NoOutcome)
  <2>1. NextCall.op = "recall"
    BY <1>3 DEF Caught
  <2>2. ASSUME Current \in ReplayCases, k = Preamble + 1 PROVE FALSE
    <3>1. Preamble \in Nat /\ Len(Scenario(Current)) \in {2, 3}
      BY <2>2, ReplayScenario DEF Preamble, DriverAssumption
    <3>2. NextCall = Scenario(Current)[1]
      BY <2>2, <3>1, PlanEnds DEF NextCall
    <3>3. QED BY <2>1, <2>2, <3>2, ReplayScenario
  <2>3. QED BY <1>1, <1>3, <2>2, HearEarns
<1>4. CASE Report(UnsupportedRow) /\ answers' = answers
  <2>1. UnsupportedRow.correct = FALSE
    BY DEF UnsupportedRow, Row
  <2>2. \E Q : answers' \in Seq(Q)
    BY <1>2, <1>4
  <2>3. QED BY <1>4, <2>1, <2>2, PlainRow
<1>5. CASE Fail
  <2>1. CASE Report(ErrorRow) /\ answers' = answers
    <3>1. ErrorRow.correct = FALSE
      BY DEF ErrorRow, Row
    <3>2. \E Q : answers' \in Seq(Q)
      BY <1>2, <2>1
    <3>3. QED BY <2>1, <3>1, <3>2, PlainRow
  <2>2. CASE Again /\ UNCHANGED <<phase, rows>>
    <3>1. k' = 1 /\ answers' = <<>> /\ rows' = rows /\ phase' = "run"
      BY <1>1, <2>2 DEF Again
    <3>2. QED BY <3>1, StartEarns
  <2>3. QED BY <1>5, <2>1, <2>2 DEF Fail
<1>6. QED BY <1>3, <1>4, <1>5 DEF Raise

\* A step that changes no row and no answer, outside of a case.
LEMMA QuietEarns ==
    ASSUME ReplayInv, rows' = rows, answers' = answers, spent' = spent, phase' # "run", phase' = phase \/ phase = "prepare",
           phase = "prepare" => rows = <<>>
    PROVE  ReplayInv'
<1>1. (\E S : rows \in Seq(S))' /\ (\E S : answers \in Seq(S))'
  BY DEF ReplayInv, Heard
<1>2. Heard'
  BY <1>1 DEF Heard
<1>3. Judged' => Judged
  BY DEF Judged
<1>4. Earned => Earned'
  BY DEF Earned, Last
<1>5. QED BY <1>1, <1>2, <1>3, <1>4 DEF ReplayInv

\* Before the preparation there are no rows.
NoRowsYet == phase = "prepare" => rows = <<>>

\* Every step keeps the credit for refusing a replay to what was heard.
LEMMA StepEarns ==
    ASSUME DriverAssumption, ReplayInv, Seeded, NoRowsYet, [Next]_vars
    PROVE  ReplayInv' /\ NoRowsYet'
<1>1. CASE Prepare \/ Crash
  <2>1. /\ rows' = rows /\ answers' = answers /\ spent' = spent /\ phase' \in {"case", "crashed"} /\ phase = "prepare"
    BY <1>1 DEF Prepare, Crash
  <2>2. QED BY <2>1, QuietEarns DEF NoRowsYet
<1>2. CASE Decline
  <2>1. UnsupportedRow.correct = FALSE /\ Report(UnsupportedRow) /\ answers' = <<>>
    BY <1>2 DEF Decline, UnsupportedRow, Row
  <2>2. answers' \in Seq({})
    BY <2>1
  <2>3. phase' # "prepare"
    BY <2>1 DEF Report
  <2>4. QED BY <2>1, <2>2, <2>3, PlainRow DEF NoRowsYet
<1>3. CASE Begin
  BY <1>3, StartEarns DEF Begin, NoRowsYet
<1>4. CASE Return
  <2>1. phase' # "prepare"
    BY <1>4 DEF Return, Hear, Report
  <2>2. QED BY <1>4, <2>1, ReturnEarns DEF NoRowsYet
<1>5. ASSUME NEW error, Raise(error) PROVE ReplayInv' /\ NoRowsYet'
  <2>1. phase' # "prepare"
    BY <1>5 DEF Raise, Hear, Report, Fail
  <2>2. QED BY <1>5, <2>1, RaiseEarns DEF NoRowsYet
<1>6. CASE UNCHANGED vars
  <2>1. rows' = rows /\ answers' = answers /\ spent' = spent /\ phase' = phase /\ k' = k /\ suite' = suite
    BY <1>6 DEF vars
  <2>2. Current' = Current
    BY <2>1 DEF Current
  <2>3. Heard'
    <3>1. (\E S : answers \in Seq(S))'
      BY <2>1 DEF ReplayInv, Heard
    <3>2. QED BY <2>1, <2>2, <3>1 DEF ReplayInv, Heard, Plan, Preamble
  <2>4. (\E S : rows \in Seq(S))'
    BY <2>1 DEF ReplayInv
  <2>5. (Judged => Earned)'
    BY <2>1 DEF ReplayInv, Judged, Earned, Last
  <2>6. QED BY <2>1, <2>3, <2>4, <2>5 DEF ReplayInv, NoRowsYet
<1>7. QED BY <1>1, <1>2, <1>3, <1>4, <1>5, <1>6 DEF Next

\* Credit for refusing a replayed nonce means that in one attempt the nonce was
\* accepted once and then refused, or that the system refused a nonce it had never
\* seen: every attempt starts from reset, so that a refusal of the first write is
\* never the echo of an attempt before (_run_case, replay_mutation, replay_restart).
THEOREM ReplayCreditHolds == ASSUME DriverAssumption PROVE Spec => []ReplayCreditIsEarned
<1>1. Init => ReplayInv /\ NoRowsYet
  <2> SUFFICES ASSUME Init PROVE ReplayInv /\ NoRowsYet
    OBVIOUS
  <2>1. rows \in Seq({}) /\ answers \in Seq({}) /\ rows = <<>> /\ phase # "run"
    BY DEF Init
  <2>2. QED BY <2>1 DEF ReplayInv, Heard, Judged, NoRowsYet
<1>2. ReplayInv /\ Seeded /\ NoRowsYet /\ [Next]_vars => ReplayInv' /\ NoRowsYet'
  BY StepEarns
<1>3. ReplayInv => ReplayCreditIsEarned
  BY DEF ReplayInv, Earned, ReplayCreditIsEarned, Credited, ReplayCases
<1>4. QED BY <1>1, <1>2, <1>3, SeededHolds, PTL DEF Spec

----------------------------------------------------------------------------
(* A run comes nearer to its end                                            *)

\* Every scenario makes one to four calls.
LEMMA ScenarioShort == ASSUME NEW c PROVE Len(Scenario(c)) \in 1..4
<1>1. \/ \E x : Scenario(c) = <<x>>
      \/ \E x, y : Scenario(c) = <<x, y>>
      \/ \E x, y, z : Scenario(c) = <<x, y, z>>
      \/ \E x, y, z, w : Scenario(c) = <<x, y, z, w>>
  BY DEF Scenario
<1>2. \A x, y, z, w : /\ Len(<<x>>) = 1 /\ Len(<<x, y>>) = 2
                      /\ Len(<<x, y, z>>) = 3 /\ Len(<<x, y, z, w>>) = 4
  OBVIOUS
<1>3. Len(Scenario(c)) \in {1, 2, 3, 4}
  BY <1>1, <1>2
<1>4. QED BY <1>3

\* The calls of the longest case; a case begins with a step and may be tried Attempts
\* times.
Longest  == Preamble + 4
CaseWork == 1 + Attempts * Longest

\* What is left to do of the case that runs: its calls, as often as it may be tried.
CallsLeft == (Attempts - attempt) * Longest + (Longest + 1 - k)

CasesLeft == Len(suite) - Len(rows)

WorkLeft ==
    CASE phase = "prepare" -> CasesLeft * CaseWork + 1
      [] phase = "case"    -> CasesLeft * CaseWork
      [] phase = "run"     -> (CasesLeft - 1) * CaseWork + CallsLeft
      [] OTHER             -> 0

\* The rows answer the request in its order, and the driver is inside of the request,
\* of its attempts and of the calls of the case.
InOrder ==
    /\ suite \in Suites
    /\ \E S : rows \in Seq(S)
    /\ \A n \in 1..Len(rows) : rows[n].case = suite[n]
    /\ phase \in {"prepare", "case", "run", "finished", "crashed"}
    /\ phase = "prepare" => rows = <<>>
    /\ phase \in {"case", "run"} => Len(rows) < Len(suite)
    /\ phase = "finished" => Len(rows) = Len(suite)
    /\ phase = "run" => attempt \in 1..Attempts /\ k \in 1..Len(Plan(Current))

LEMMA Times == \A n, c \in Nat : n * c \in Nat /\ (n + 1) * c = n * c + c
OBVIOUS

LEMMA WorkNumbers ==
    ASSUME DriverAssumption
    PROVE  /\ Longest \in Nat /\ CaseWork \in Nat /\ CaseWork >= 1
           /\ \A c : Len(Plan(c)) \in Nat /\ Len(Plan(c)) <= Longest
<1>1. Attempts \in Nat
  BY DEF DriverAssumption
<1>2. \A c : /\ Len(Scenario(c)) \in 1..4 /\ Preamble \in Nat
             /\ Len(Plan(c)) = Preamble + Len(Scenario(c))
  BY PlanEnds, ScenarioShort
<1>3. Longest \in Nat
  BY <1>2 DEF Longest
<1>4. Attempts * Longest \in Nat
  BY <1>1, <1>3, Times
<1>5. CaseWork \in Nat /\ CaseWork >= 1
  <2> DEFINE a == Attempts * Longest
  <2>1. CaseWork = 1 + a
    BY DEF CaseWork
  <2> HIDE DEF a
  <2>2. QED BY <1>4, <2>1 DEF a
<1>6. ASSUME NEW c PROVE Len(Plan(c)) \in Nat /\ Len(Plan(c)) <= Longest
  <2> DEFINE l == Len(Scenario(c))
             p == Preamble
             q == Len(Plan(c))
  <2>1. l \in 1..4 /\ p \in Nat /\ q = p + l
    BY <1>2
  <2>2. Longest = p + 4
    BY DEF Longest
  <2> HIDE DEF l, p, q
  <2>3. q \in Nat /\ q <= p + 4
    BY <2>1
  <2>4. QED BY <2>2, <2>3 DEF q
<1>7. QED BY <1>3, <1>5, <1>6

LEMMA CallsNumbers ==
    ASSUME DriverAssumption, InOrder, phase = "run"
    PROVE  CallsLeft \in Nat /\ CallsLeft >= 1
<1>1. attempt \in 1..Attempts /\ k \in 1..Len(Plan(Current)) /\ Attempts \in Nat
  BY DEF InOrder, DriverAssumption
<1>2. Attempts - attempt \in Nat
  BY <1>1
<1>3. (Attempts - attempt) * Longest \in Nat
  BY <1>2, WorkNumbers, Times
<1>4. k \in Nat /\ k <= Longest /\ Longest \in Nat
  BY <1>1, WorkNumbers
<1>5. Longest + 1 - k \in Nat /\ Longest + 1 - k >= 1
  BY <1>4
<1>6. QED BY <1>3, <1>5 DEF CallsLeft

LEMMA CasesNumbers ==
    ASSUME DriverAssumption, InOrder
    PROVE  /\ Len(suite) \in Nat /\ Len(rows) \in Nat
           /\ phase \in {"case", "run"} => /\ CasesLeft - 1 \in Nat
                                           /\ (CasesLeft - 1) * CaseWork \in Nat
                                           /\ CasesLeft * CaseWork = (CasesLeft - 1) * CaseWork + CaseWork
<1>1. suite \in Seq(STRING)
  BY DEF InOrder, DriverAssumption
<1>2. PICK S : rows \in Seq(S)
  BY DEF InOrder
<1>3. Len(suite) \in Nat /\ Len(rows) \in Nat
  BY <1>1, <1>2
<1>4. ASSUME phase \in {"case", "run"}
      PROVE  /\ CasesLeft - 1 \in Nat
             /\ (CasesLeft - 1) * CaseWork \in Nat
             /\ CasesLeft * CaseWork = (CasesLeft - 1) * CaseWork + CaseWork
  <2>1. Len(rows) < Len(suite)
    BY <1>4 DEF InOrder
  <2>2. CasesLeft - 1 \in Nat /\ (CasesLeft - 1) + 1 = CasesLeft
    BY <1>3, <2>1 DEF CasesLeft
  <2>3. QED BY <2>2, WorkNumbers, Times
<1>5. QED BY <1>3, <1>4

\* A row of the case that runs: the next case begins, or the request is answered.
LEMMA ReportOrders ==
    ASSUME DriverAssumption, InOrder, phase \in {"case", "run"}, NEW row, row.case = Current, Report(row),
           suite' = suite
    PROVE  InOrder' /\ WorkLeft' = (CasesLeft - 1) * CaseWork
<1>1. PICK S : rows \in Seq(S)
  BY DEF InOrder
<1>2. rows' = Append(rows, row) /\ phase' = IF Len(rows) + 1 = Len(suite) THEN "finished" ELSE "case"
  BY DEF Report
<1>3. /\ rows' \in Seq(S \cup {row}) /\ Len(rows') = Len(rows) + 1
      /\ rows'[Len(rows')] = row /\ \A n \in 1..Len(rows) : rows'[n] = rows[n]
  BY <1>1, <1>2, Appended
<1>4. Len(suite) \in Nat /\ Len(rows) \in Nat /\ Len(rows) < Len(suite)
  BY CasesNumbers DEF InOrder
<1>5. \A n \in 1..Len(rows') : rows'[n].case = suite[n]
  <2>1. \A n \in 1..Len(rows') : n = Len(rows') \/ n \in 1..Len(rows)
    BY <1>3, <1>4
  <2>2. rows'[Len(rows')].case = suite[Len(rows')]
    BY <1>3 DEF Current
  <2>3. \A n \in 1..Len(rows) : rows[n].case = suite[n]
    BY DEF InOrder
  <2>4. QED BY <1>3, <2>1, <2>2, <2>3
<1>6. CasesLeft' = CasesLeft - 1
  BY <1>3, <1>4 DEF CasesLeft
<1>7. CASE Len(rows) + 1 = Len(suite)
  <2>1. phase' = "finished" /\ Len(rows') = Len(suite)
    BY <1>2, <1>3, <1>7
  <2>2. InOrder'
    BY <1>3, <1>5, <2>1 DEF InOrder
  <2>3. CasesLeft - 1 = 0
    BY <1>4, <1>7 DEF CasesLeft
  <2>4. 0 * CaseWork = 0
    BY WorkNumbers
  <2>5. WorkLeft' = 0
    BY <2>1 DEF WorkLeft
  <2>6. QED BY <2>2, <2>3, <2>4, <2>5
<1>8. CASE Len(rows) + 1 # Len(suite)
  <2>1. phase' = "case" /\ Len(rows') < Len(suite)
    BY <1>2, <1>3, <1>4, <1>8
  <2>2. InOrder'
    BY <1>3, <1>5, <2>1 DEF InOrder
  <2>3. WorkLeft' = CasesLeft' * CaseWork
    BY <2>1 DEF WorkLeft, CaseWork, Longest, Preamble
  <2>4. QED BY <1>6, <2>2, <2>3
<1>9. QED BY <1>7, <1>8

\* A step inside of a case that leaves fewer calls.
LEMMA CallOrders ==
    ASSUME DriverAssumption, InOrder, phase = "run", UNCHANGED <<suite, rows, phase>>,
           attempt' \in 1..Attempts, k' \in 1..Len(Plan(Current)), CallsLeft' < CallsLeft
    PROVE  InOrder' /\ WorkLeft' < WorkLeft
<1>1. Current' = Current
  BY DEF Current
<1>2. Plan(Current)' = Plan(Current)
  BY <1>1 DEF Plan
<1>3. InOrder'
  BY <1>2 DEF InOrder
<1> DEFINE n == (CasesLeft - 1) * CaseWork
<1>4. n \in Nat
  BY CasesNumbers
<1>5. WorkLeft = n + CallsLeft
  BY DEF WorkLeft
<1>6. WorkLeft' = n + CallsLeft'
  BY DEF WorkLeft, CasesLeft, CaseWork, Longest, Preamble
<1>7. CallsLeft \in Nat
  BY CallsNumbers
<1>8. CallsLeft' \in Nat
  <2>1. attempt' \in 1..Attempts /\ k' \in 1..Len(Plan(Current)) /\ Attempts \in Nat
    BY DEF DriverAssumption
  <2>2. (Attempts - attempt') * Longest \in Nat
    BY <2>1, WorkNumbers, Times
  <2>3. Longest + 1 - k' \in Nat
    BY <2>1, WorkNumbers
  <2>4. CallsLeft' = (Attempts - attempt') * Longest + (Longest + 1 - k')
    BY DEF CallsLeft, Longest, Preamble
  <2>5. QED BY <2>2, <2>3, <2>4
<1> HIDE DEF n
<1>9. \A a, b \in Nat : b < a => n + b < n + a
  BY <1>4
<1>10. n + CallsLeft' < n + CallsLeft
  BY <1>7, <1>8, <1>9
<1>11. QED BY <1>3, <1>5, <1>6, <1>10

\* The case that runs is over.
LEMMA RunReports ==
    ASSUME DriverAssumption, InOrder, phase = "run", NEW row, row.case = Current, Report(row), suite' = suite
    PROVE  InOrder' /\ WorkLeft' < WorkLeft
<1>1. InOrder' /\ WorkLeft' = (CasesLeft - 1) * CaseWork
  BY ReportOrders
<1> DEFINE n == (CasesLeft - 1) * CaseWork
<1>2. n \in Nat
  BY CasesNumbers
<1>3. WorkLeft = n + CallsLeft
  BY DEF WorkLeft
<1>4. WorkLeft' = n
  BY <1>1
<1>5. CallsLeft \in Nat /\ CallsLeft >= 1
  BY CallsNumbers
<1> HIDE DEF n
<1>6. QED BY <1>1, <1>2, <1>3, <1>4, <1>5

LEMMA HearOrders ==
    ASSUME DriverAssumption, InOrder, phase = "run", NEW answer, Hear(answer), suite' = suite
    PROVE  InOrder' /\ WorkLeft' < WorkLeft
<1> DEFINE heard == IF k > Preamble THEN Append(answers, answer) ELSE answers
           row == ScoredRow(Outcome(Current, heard))
<1>1. CASE Report(row)
  <2>1. row.case = Current
    BY DEF ScoredRow, Row
  <2> HIDE DEF row
  <2>2. QED BY <1>1, <2>1, RunReports
<1>2. CASE k # Len(Plan(Current)) /\ k' = k + 1 /\ UNCHANGED <<phase, rows, attempt>>
  <2>1. /\ attempt \in 1..Attempts /\ k \in 1..Len(Plan(Current)) /\ Attempts \in Nat
        /\ Len(Plan(Current)) \in Nat /\ Longest \in Nat
    BY WorkNumbers DEF InOrder, DriverAssumption
  <2>2. k' \in 1..Len(Plan(Current)) /\ attempt' \in 1..Attempts
    BY <1>2, <2>1
  <2> DEFINE m == (Attempts - attempt) * Longest
  <2>3. m \in Nat
    BY <2>1, Times
  <2>4. CallsLeft = m + (Longest + 1 - k)
    BY DEF CallsLeft
  <2>5. CallsLeft' = m + (Longest + 1 - (k + 1))
    BY <1>2 DEF CallsLeft, Longest, Preamble
  <2> HIDE DEF m
  <2>6. CallsLeft' < CallsLeft
    BY <2>1, <2>3, <2>4, <2>5
  <2>7. QED BY <1>2, <2>2, <2>6, CallOrders
<1>3. QED BY <1>1, <1>2 DEF Hear

LEMMA FailOrders ==
    ASSUME DriverAssumption, InOrder, phase = "run", Fail, suite' = suite
    PROVE  InOrder' /\ WorkLeft' < WorkLeft
<1>1. CASE Report(ErrorRow)
  <2>1. ErrorRow.case = Current
    BY DEF ErrorRow, Row
  <2>2. QED BY <1>1, <2>1, RunReports
<1>2. CASE attempt < Attempts /\ Again /\ UNCHANGED <<phase, rows>>
  <2>1. /\ attempt \in 1..Attempts /\ k \in 1..Len(Plan(Current)) /\ Attempts \in Nat
        /\ Len(Plan(Current)) \in Nat /\ Longest \in Nat /\ Len(Plan(Current)) <= Longest
    BY WorkNumbers DEF InOrder, DriverAssumption
  <2>2. attempt' = attempt + 1 /\ k' = 1
    BY <1>2 DEF Again
  <2>3. k' \in 1..Len(Plan(Current)) /\ attempt' \in 1..Attempts
    BY <1>2, <2>1, <2>2
  <2> DEFINE a == Attempts - attempt - 1
             m == a * Longest
  <2>4. a \in Nat /\ a + 1 = Attempts - attempt /\ a = Attempts - (attempt + 1)
    BY <1>2, <2>1
  <2> HIDE DEF a
  <2>5. m \in Nat /\ (a + 1) * Longest = m + Longest
    BY <2>1, <2>4, Times
  <2>6. CallsLeft = (a + 1) * Longest + (Longest + 1 - k)
    BY <2>4 DEF CallsLeft
  <2>7. CallsLeft' = m + (Longest + 1 - 1)
    BY <2>2, <2>4 DEF CallsLeft, Longest, Preamble
  <2> HIDE DEF m
  <2>8. CallsLeft' < CallsLeft
    BY <2>1, <2>5, <2>6, <2>7
  <2>9. QED BY <1>2, <2>3, <2>8, CallOrders
<1>3. QED BY <1>1, <1>2 DEF Fail

\* Every step of a run keeps the order of the rows and leaves less to do.
LEMMA StepOrders == ASSUME DriverAssumption, InOrder, Next PROVE InOrder' /\ WorkLeft' < WorkLeft
<1>1. CASE Prepare
  <2>1. /\ phase = "prepare" /\ phase' = "case" /\ UNCHANGED <<suite, rows>> /\ rows = <<>>
    BY <1>1 DEF Prepare, InOrder
  <2>2. Len(rows) < Len(suite) /\ CasesLeft = Len(suite) /\ Len(suite) \in Nat
    <3>1. suite \in Seq(STRING) /\ suite # <<>>
      BY SuitesAssumption DEF InOrder, DriverAssumption
    <3>2. Len(rows) = 0
      BY <2>1
    <3>3. QED BY <3>1, <3>2 DEF CasesLeft
  <2>3. InOrder'
    BY <2>1, <2>2 DEF InOrder
  <2> DEFINE n == CasesLeft * CaseWork
  <2>4. n \in Nat
    BY <2>2, WorkNumbers, Times
  <2>5. WorkLeft = n + 1
    BY <2>1 DEF WorkLeft
  <2>6. WorkLeft' = n
    BY <2>1 DEF WorkLeft, CasesLeft, CaseWork, Longest, Preamble
  <2> HIDE DEF n
  <2>7. QED BY <2>3, <2>4, <2>5, <2>6
<1>2. CASE Crash
  <2>1. /\ phase = "prepare" /\ phase' = "crashed" /\ UNCHANGED <<suite, rows>> /\ rows = <<>>
    BY <1>2 DEF Crash, InOrder
  <2>2. InOrder'
    BY <2>1 DEF InOrder
  <2>3. CasesLeft \in Nat
    <3>1. suite \in Seq(STRING)
      BY DEF InOrder, DriverAssumption
    <3>2. Len(rows) = 0
      BY <2>1
    <3>3. QED BY <3>1, <3>2 DEF CasesLeft
  <2> DEFINE n == CasesLeft * CaseWork
  <2>4. n \in Nat
    BY <2>3, WorkNumbers, Times
  <2>5. WorkLeft = n + 1
    BY <2>1 DEF WorkLeft
  <2>6. WorkLeft' = 0
    BY <2>1 DEF WorkLeft
  <2> HIDE DEF n
  <2>7. QED BY <2>2, <2>4, <2>5, <2>6
<1>3. CASE Decline
  <2>1. phase = "case" /\ Report(UnsupportedRow) /\ suite' = suite /\ UnsupportedRow.case = Current
    BY <1>3 DEF Decline, UnsupportedRow, Row
  <2>2. InOrder' /\ WorkLeft' = (CasesLeft - 1) * CaseWork
    BY <2>1, ReportOrders
  <2> DEFINE n == (CasesLeft - 1) * CaseWork
  <2>3. n \in Nat /\ CasesLeft * CaseWork = n + CaseWork
    BY <2>1, CasesNumbers
  <2>4. WorkLeft = CasesLeft * CaseWork
    BY <2>1 DEF WorkLeft
  <2> HIDE DEF n
  <2>5. QED BY <2>2, <2>3, <2>4, WorkNumbers DEF n
<1>4. CASE Begin
  <2>1. /\ phase = "case" /\ phase' = "run" /\ UNCHANGED <<suite, rows>> /\ attempt' = 1 /\ k' = 1
    BY <1>4 DEF Begin
  <2>2. Current' = Current
    BY <2>1 DEF Current
  <2>3. Attempts \in Nat /\ Attempts >= 1 /\ 1 \in 1..Len(Plan(Current))
    <3>1. Len(Scenario(Current)) \in 1..4
      BY ScenarioShort
    <3>2. Preamble \in Nat /\ Len(Plan(Current)) = Preamble + Len(Scenario(Current))
      BY PlanEnds
    <3>3. Attempts \in Nat /\ Attempts >= 1
      BY DEF DriverAssumption
    <3>4. QED BY <3>1, <3>2, <3>3
  <2>4. Plan(Current)' = Plan(Current)
    BY <2>2 DEF Plan
  <2>5. InOrder'
    BY <2>1, <2>3, <2>4 DEF InOrder
  <2> DEFINE n == (CasesLeft - 1) * CaseWork
             a == Attempts - 1
             m == a * Longest
  <2>6. n \in Nat /\ CasesLeft * CaseWork = n + CaseWork
    BY <2>1, CasesNumbers
  <2>7. a \in Nat /\ a + 1 = Attempts
    BY <2>3
  <2>8. WorkLeft = n + CaseWork
    BY <2>1, <2>6 DEF WorkLeft
  <2>9. WorkLeft' = n + (m + (Longest + 1 - 1))
    BY <2>1 DEF WorkLeft, CallsLeft, CasesLeft, CaseWork, Longest, Preamble
  <2>10. m \in Nat /\ CaseWork = 1 + (m + Longest) /\ Longest \in Nat
    <3> HIDE DEF a
    <3>1. m \in Nat /\ (a + 1) * Longest = m + Longest /\ Longest \in Nat
      BY <2>7, WorkNumbers, Times
    <3>2. QED BY <2>7, <3>1 DEF CaseWork
  <2> HIDE DEF n, m
  <2>11. WorkLeft' < WorkLeft
    BY <2>6, <2>8, <2>9, <2>10
  <2>12. QED BY <2>5, <2>11
<1>5. CASE Return
  BY <1>5, HearOrders DEF Return
<1>6. ASSUME NEW error, Raise(error) PROVE InOrder' /\ WorkLeft' < WorkLeft
  <2>1. phase = "run" /\ suite' = suite
    BY <1>6 DEF Raise
  <2>2. CASE Hear(NoOutcome)
    BY <2>1, <2>2, HearOrders
  <2>3. CASE Report(UnsupportedRow)
    <3>1. UnsupportedRow.case = Current
      BY DEF UnsupportedRow, Row
    <3>2. QED BY <2>1, <2>3, <3>1, RunReports
  <2>4. CASE Fail
    BY <2>1, <2>4, FailOrders
  <2>5. QED BY <1>6, <2>2, <2>3, <2>4 DEF Raise
<1>7. QED BY <1>1, <1>2, <1>3, <1>4, <1>5, <1>6 DEF Next

LEMMA InOrderHolds == ASSUME DriverAssumption PROVE Spec => []InOrder
<1>1. Init => InOrder
  <2> SUFFICES ASSUME Init PROVE InOrder
    OBVIOUS
  <2>1. suite \in Suites /\ rows = <<>> /\ phase \in {"case", "prepare"} /\ Len(rows) = 0 /\ rows \in Seq({})
    BY DEF Init
  <2>2. suite \in Seq(STRING) /\ suite # <<>>
    BY <2>1, SuitesAssumption DEF DriverAssumption
  <2>3. Len(suite) > 0
    BY <2>2
  <2>4. QED BY <2>1, <2>3 DEF InOrder
<1>2. InOrder /\ [Next]_vars => InOrder'
  <2>1. CASE Next
    BY <2>1, StepOrders
  <2>2. ASSUME InOrder, UNCHANGED vars PROVE InOrder'
    <3>1. UNCHANGED <<suite, rows, phase, attempt, k>>
      BY <2>2 DEF vars
    <3>2. Current' = Current
      BY <3>1 DEF Current
    <3>3. Plan(Current)' = Plan(Current)
      BY <3>2 DEF Plan
    <3>4. QED BY <2>2, <3>1, <3>3 DEF InOrder
  <2>3. QED BY <2>1, <2>2
<1>3. QED BY <1>1, <1>2, PTL DEF Spec

\* A finished run has one row for every requested case, in the order of the request,
\* however often the system failed (run, _run_case).
THEOREM FinishedIsComplete ==
    ASSUME DriverAssumption
    PROVE  Spec => [](phase = "finished" => /\ Len(rows) = Len(suite)
                                            /\ \A n \in 1..Len(suite) : rows[n].case = suite[n])
<1>1. InOrder => (phase = "finished" => /\ Len(rows) = Len(suite)
                                        /\ \A n \in 1..Len(suite) : rows[n].case = suite[n])
  BY DEF InOrder
<1>2. QED BY <1>1, InOrderHolds, PTL

\* Why a run ends, short of fairness (Completes): what is left to do is a number that
\* every step lowers, whatever the system answers and however it fails, and a run that
\* is neither finished nor crashed has something left (_run_case, ATTEMPTS).
THEOREM EveryStepCounts ==
    ASSUME DriverAssumption
    PROVE  Spec => /\ [](WorkLeft \in Nat /\ (WorkLeft = 0 => phase \in {"finished", "crashed"}))
                   /\ [][WorkLeft' < WorkLeft]_vars
<1>1. InOrder => WorkLeft \in Nat /\ (WorkLeft = 0 => phase \in {"finished", "crashed"})
  <2> SUFFICES ASSUME InOrder PROVE WorkLeft \in Nat /\ (WorkLeft = 0 => phase \in {"finished", "crashed"})
    OBVIOUS
  <2>1. CASE phase = "prepare"
    <3>1. CasesLeft \in Nat
      <4>1. suite \in Seq(STRING)
        BY DEF InOrder, DriverAssumption
      <4>2. Len(rows) = 0
        BY <2>1 DEF InOrder
      <4>3. QED BY <4>1, <4>2 DEF CasesLeft
    <3> DEFINE n == CasesLeft * CaseWork
    <3>2. n \in Nat
      BY <3>1, WorkNumbers, Times
    <3>3. WorkLeft = n + 1
      BY <2>1 DEF WorkLeft
    <3> HIDE DEF n
    <3>4. QED BY <3>2, <3>3
  <2>2. CASE phase = "case"
    <3> DEFINE n == (CasesLeft - 1) * CaseWork
    <3>1. n \in Nat /\ CasesLeft * CaseWork = n + CaseWork
      BY <2>2, CasesNumbers
    <3>2. WorkLeft = n + CaseWork
      BY <2>2, <3>1 DEF WorkLeft
    <3> HIDE DEF n
    <3>3. QED BY <3>1, <3>2, WorkNumbers
  <2>3. CASE phase = "run"
    <3> DEFINE n == (CasesLeft - 1) * CaseWork
    <3>1. n \in Nat
      BY <2>3, CasesNumbers
    <3>2. WorkLeft = n + CallsLeft
      BY <2>3 DEF WorkLeft
    <3> HIDE DEF n
    <3>3. QED BY <2>3, <3>1, <3>2, CallsNumbers
  <2>4. CASE phase \in {"finished", "crashed"}
    BY <2>4 DEF WorkLeft
  <2>5. QED BY <2>1, <2>2, <2>3, <2>4 DEF InOrder
<1>2. InOrder /\ [Next]_vars => [WorkLeft' < WorkLeft]_vars
  BY StepOrders
<1>3. QED BY <1>1, <1>2, InOrderHolds, PTL DEF Spec
=============================================================================
