-------------------------- MODULE AgentTrackProofs --------------------------
(***************************************************************************)
(* Four promises of the agent track, for every backend, request, corpus     *)
(* and model, and for every bound on turns and transcript: a voided claim   *)
(* is credited with nothing, a case starts from what the harness wrote for  *)
(* it, no request of the harness is taken for a replay, and a credited      *)
(* forget is one.  The track cannot go on for ever, and one that finishes   *)
(* leaves no requested case without a row.                                  *)
(*                                                                          *)
(* TrackInv carries the count of requests, the verdict of the probe and     *)
(* what became of the harness's writes through every step.  ForgetInv adds  *)
(* that the store holds one memory of an identifier, whose ranks are all    *)
(* different: precedence is then a strict order, every matching memory has  *)
(* a place of its own in the ranking, and what is not shown is not there.   *)
(***************************************************************************)
EXTENDS AgentTrack, FiniteSetTheorems, TLAPS

IsASequence(s) == \E S : s \in Seq(S)

\* The nonces the vault has seen are those of the requests that were counted.
SpentWasCounted == nonce \in Nat /\ \A s \in spent : s[2] \in Nat /\ s[2] <= nonce

\* The verdict of the probe stands from the first write of the harness on.
Probed == phase \notin {"start", "crashed"} => check = Probe

\* A backend is opened for a case that is supported and not voided; a model works
\* on it from turn 1 on.
Working == /\ phase \in {"seed", "turn", "tools"} => Supported(Current) /\ ~ Voided(Current)
           /\ phase \in {"turn", "tools"} => turn \in Nat \ {0}

\* The store holds what was written, short of what was refused.
Holds(wrote) == /\ wrote \ refused \subseteq store /\ store \subseteq wrote
                /\ backend.reliable => refused = {}
Done == {Opening[i].memory : i \in 1 .. written}
Seeding == phase \in {"warmup", "seed"} => written \in 0 .. Len(Opening) /\ Holds(Done)

\* What the invariant of the theorems has to add to be inductive.
TrackInv == /\ IsASequence(rows) /\ SpentWasCounted /\ Probed /\ Working /\ Seeding
            /\ VoidedNeverCredited /\ FreshStart

-----------------------------------------------------------------------------
(* Nonces                                                                   *)

\* Every request of a principal spends the next nonce, or none.
LEMMA ReplyCounts ==
    ASSUME SpentWasCounted, NEW tool, NEW p, NEW ok, NEW ids, NEW held,
           nonce' = Reply(tool, p, ok, ids, held).nonce, spent' = Reply(tool, p, ok, ids, held).spent
    PROVE  SpentWasCounted'
<1>1. CASE Flat
  BY <1>1 DEF Reply, SpentWasCounted
<1>2. CASE ~ Flat
  <2>1. nonce' = nonce + 1 /\ spent' = spent \cup {<<p, nonce + 1>>}
    BY <1>2 DEF Reply
  <2>2. QED BY <2>1 DEF SpentWasCounted
<1>3. QED BY <1>1, <1>2

\* What became of a call, refused or not, counts it all the same.
LEMMA OutcomeCounts ==
    ASSUME NEW did, NEW out \in Outcomes(did)
    PROVE  \/ out = did
           \/ /\ ~ backend.reliable
              /\ \E held \in {store, did.store} :
                     out = [did EXCEPT !.result.ok = FALSE, !.result.ids = <<>>, !.store = held]
BY DEF Outcomes

\* The next nonce of every principal is new.
LEMMA CountedIsClaimed == ASSUME SpentWasCounted, NEW p PROVE Claimed(p)
<1>1. nonce \in Nat /\ \A s \in spent : s[2] \in Nat /\ s[2] <= nonce
  BY DEF SpentWasCounted
<1>2. <<p, nonce + 1>>[2] = nonce + 1
  OBVIOUS
<1>3. QED BY <1>1, <1>2 DEF Claimed

\* What a call answers, and what it leaves behind.
LEMMA DispatchedIsARecord ==
    ASSUME NEW p, NEW call
    PROVE  /\ {"result", "store", "nonce", "spent"} = DOMAIN Dispatched(p, call)
           /\ \/ /\ Dispatched(p, call).nonce = nonce /\ Dispatched(p, call).spent = spent
              \/ /\ ~ Flat /\ Dispatched(p, call).nonce = nonce + 1
                 /\ Dispatched(p, call).spent = spent \cup {<<p, nonce + 1>>}
<1>1. CASE call.tool = "write"
  BY <1>1 DEF Dispatched, Write, Reply
<1>2. CASE call.tool = "read"
  BY <1>2 DEF Dispatched, Read, Reply
<1>3. CASE call.tool = "delete"
  BY <1>3 DEF Dispatched, Delete, Reply
<1>4. CASE call.tool = "list"
  BY <1>4 DEF Dispatched, List, Reply
<1>5. CASE call.tool \notin {"write", "read", "delete", "list"}
  BY <1>5 DEF Dispatched
<1>6. QED BY <1>1, <1>2, <1>3, <1>4, <1>5

\* A tool call spends the nonce it was counted for, or none, whatever becomes of it.
LEMMA DispatchedCounts ==
    ASSUME SpentWasCounted, NEW p, NEW call, NEW did \in Outcomes(Dispatched(p, call)),
           nonce' = did.nonce, spent' = did.spent
    PROVE  SpentWasCounted'
<1> DEFINE plain == Dispatched(p, call)
<1>1. {"result", "store", "nonce", "spent"} = DOMAIN plain
  BY DispatchedIsARecord
<1>2. did.nonce = plain.nonce /\ did.spent = plain.spent
  <2>1. CASE did = plain
    BY <2>1
  <2>2. CASE \E held \in {store, plain.store} :
                 did = [plain EXCEPT !.result.ok = FALSE, !.result.ids = <<>>, !.store = held]
    <3> HIDE DEF plain
    <3>1. QED BY <1>1, <2>2
  <2>3. QED BY <2>1, <2>2, OutcomeCounts
<1>3. \/ nonce' = nonce /\ spent' = spent
      \/ nonce' = nonce + 1 /\ spent' = spent \cup {<<p, nonce + 1>>}
  BY <1>2, DispatchedIsARecord
<1>4. CASE nonce' = nonce /\ spent' = spent
  BY <1>4 DEF SpentWasCounted
<1>5. CASE nonce' = nonce + 1 /\ spent' = spent \cup {<<p, nonce + 1>>}
  BY <1>5 DEF SpentWasCounted
<1>6. QED BY <1>3, <1>4, <1>5

-----------------------------------------------------------------------------
(* The harness's own writes                                                 *)

\* What the harness writes: texts of the corpus, by principals that may write them.
Owned == {By("operator", id) : id \in DOMAIN Corpus} \cup {By("analyst", "prompt-injection")}

LEMMA PreludeIsOwned == ASSUME AgentAssumption, NEW c PROVE Prelude(c) \in Seq(Owned)
<1>1. By("analyst", "prompt-injection") \in Owned /\ By("operator", "summary") \in Owned
  BY DEF AgentAssumption, Owned
<1>2. \/ Prelude(c) = <<By("analyst", "prompt-injection")>>
      \/ Prelude(c) = <<By("operator", "summary")>>
      \/ Prelude(c) = <<>>
  BY DEF Prelude
<1>3. ASSUME NEW w \in Owned PROVE <<w>> \in Seq(Owned)
  OBVIOUS
<1>4. CASE Prelude(c) = <<>>
  BY <1>4
<1>5. CASE Prelude(c) = <<By("analyst", "prompt-injection")>>
  BY <1>1, <1>3, <1>5
<1>6. CASE Prelude(c) = <<By("operator", "summary")>>
  BY <1>1, <1>3, <1>6
<1>7. QED BY <1>2, <1>4, <1>5, <1>6

LEMMA OpeningIsOwned ==
    ASSUME AgentAssumption
    PROVE  /\ Opening \in Seq(Owned) /\ Seed \o <<>> \in Seq(Owned)
           /\ \A c : Seed \o Prelude(c) \in Seq(Owned)
<1>1. Seed \in Seq(Owned)
  BY DEF AgentAssumption, Seed, Owned
<1>2. \A c : Seed \o Prelude(c) \in Seq(Owned)
  BY <1>1, PreludeIsOwned
<1>3. Seed \o <<>> \in Seq(Owned)
  BY <1>1
<1>4. QED BY <1>2, <1>3 DEF Opening

\* Such a write is granted.
LEMMA OwnedIsAllowed ==
    ASSUME AgentAssumption, NEW w \in Owned
    PROVE  /\ \E id \in DOMAIN Corpus : w.memory = Corpus[id] /\ w.memory.id = id
           /\ w.memory.id # NoId /\ w.by # "outsider" /\ w.memory.level <= Clearance(w.by)
           /\ w.memory \in Texts
<1>1. CASE w \in {By("operator", id) : id \in DOMAIN Corpus}
  <2>1. PICK id \in DOMAIN Corpus : w = By("operator", id)
    BY <1>1
  <2>2. w.memory = Corpus[id] /\ w.by = "operator"
    BY <2>1 DEF By
  <2>3. Corpus[id].id = id /\ id # NoId /\ Corpus[id].level <= Clearance("operator")
    BY <2>1 DEF AgentAssumption
  <2>4. QED BY <2>1, <2>2, <2>3 DEF Texts
<1>2. CASE w = By("analyst", "prompt-injection")
  <2>1. w.memory = Corpus["prompt-injection"] /\ w.by = "analyst"
    BY <1>2 DEF By
  <2>2. /\ "prompt-injection" \in DOMAIN Corpus
        /\ Corpus["prompt-injection"].level <= Clearance("analyst")
        /\ Corpus["prompt-injection"].id = "prompt-injection"
    BY DEF AgentAssumption
  <2>3. QED BY <2>1, <2>2 DEF Texts
<1>3. QED BY <1>1, <1>2 DEF Owned

\* What a write may leave in the store: the memory is there if the write was granted,
\* and a reliable backend grants it.
LEMMA WriteLeaves ==
    ASSUME AgentAssumption, SpentWasCounted, NEW w \in Owned,
           NEW did \in Outcomes(Write(w.by, w.memory))
    PROVE  /\ did.store \in {store, Put(w.memory)}
           /\ did.result.ok => did.store = Put(w.memory)
           /\ backend.reliable => did.result.ok
           /\ \E ok, ids, held :
                 /\ did.nonce = Reply("write", w.by, ok, ids, held).nonce
                 /\ did.spent = Reply("write", w.by, ok, ids, held).spent
<1> DEFINE plain == Write(w.by, w.memory)
<1>1. Claimed(w.by)
  BY CountedIsClaimed
<1>2. /\ plain.result.ok = TRUE /\ plain.store = Put(w.memory)
      /\ DOMAIN plain = {"result", "store", "nonce", "spent"}
      /\ DOMAIN plain.result = {"tool", "by", "ok", "ids"}
  BY <1>1, OwnedIsAllowed DEF Write, Reply, Result
<1>3. \E ok, ids, held : plain = Reply("write", w.by, ok, ids, held)
  BY DEF Write
<1> HIDE DEF plain
<1>4. CASE did = plain
  BY <1>2, <1>3, <1>4
<1>5. CASE ~ backend.reliable /\ \E held \in {store, plain.store} :
               did = [plain EXCEPT !.result.ok = FALSE, !.result.ids = <<>>, !.store = held]
  <2>1. PICK held \in {store, plain.store} :
               did = [plain EXCEPT !.result.ok = FALSE, !.result.ids = <<>>, !.store = held]
    BY <1>5
  <2>2. /\ did.store = held /\ did.result.ok = FALSE
        /\ did.nonce = plain.nonce /\ did.spent = plain.spent
    BY <1>2, <2>1
  <2>3. QED BY <1>2, <1>3, <1>5, <2>2
<1>6. \/ did = plain
      \/ ~ backend.reliable /\ \E held \in {store, plain.store} :
               did = [plain EXCEPT !.result.ok = FALSE, !.result.ids = <<>>, !.store = held]
  <2>1. did \in Outcomes(plain)
    BY DEF plain
  <2>2. QED BY <2>1, OutcomeCounts
<1>7. QED BY <1>4, <1>5, <1>6

\* Over texts of the corpus a write adds and replaces nothing.
LEMMA PutAdds ==
    ASSUME AgentAssumption, NEW w \in Owned,
           \A x \in store : \E id \in DOMAIN Corpus : x = Corpus[id] /\ x.id = id
    PROVE  Put(w.memory) = store \cup {w.memory}
<1>1. PICK id \in DOMAIN Corpus : w.memory = Corpus[id] /\ w.memory.id = id
  BY OwnedIsAllowed
<1>2. \A x \in store : x.id = w.memory.id => x = w.memory
  BY <1>1
<1>3. QED BY <1>2 DEF Put

-----------------------------------------------------------------------------
(* Rows                                                                     *)

\* A row is added for the current case, the others stay.
LEMMA ReportKeeps ==
    ASSUME IsASequence(rows), VoidedNeverCredited, backend' = backend,
           NEW STATE row, Report(row),
           backend.opens = "anything" /\ Requirements(row.case) \cap Authorization # {} => ~ row.supported
    PROVE  IsASequence(rows') /\ VoidedNeverCredited'
<1>1. PICK S : rows \in Seq(S)
  BY DEF IsASequence
<1>2. rows' = Append(rows, row) /\ rows \in Seq(S \cup {row})
  BY <1>1 DEF Report
<1>3. rows' \in Seq(S \cup {row}) /\ Len(rows') = Len(rows) + 1
  BY <1>2
<1>4. \A i \in DOMAIN rows' : rows'[i] = row \/ (i \in DOMAIN rows /\ rows'[i] = rows[i])
  BY <1>2, <1>3
<1>5. QED BY <1>3, <1>4 DEF IsASequence, VoidedNeverCredited

\* A case that asks for authorization is worked on only if the probe was passed.
LEMMA WorkedOnIsEarned ==
    ASSUME Probed, phase \notin {"start", "crashed"}, Supported(Current), ~ Voided(Current),
           Requirements(Current) \cap Authorization # {}
    PROVE  backend.opens # "anything"
BY DEF Probed, Supported, Voided, Probe

\* The end of a case, in whatever way.
LEMMA EndingKeeps ==
    ASSUME TrackInv, phase \in {"case", "turn"}, UNCHANGED <<backend, suite, check>>, SpentWasCounted',
           NEW STATE row, Report(row),
           backend.opens = "anything" /\ Requirements(row.case) \cap Authorization # {} => ~ row.supported
    PROVE  TrackInv'
<1>1. phase' \in {"finished", "case"}
  BY DEF Report
<1>2. IsASequence(rows') /\ VoidedNeverCredited'
  BY ReportKeeps DEF TrackInv
<1>3. Probed'
  BY DEF TrackInv, Probed, Probe
<1>4. QED BY <1>1, <1>2, <1>3 DEF TrackInv, Working, Seeding, FreshStart

\* The end of an operation writes a row of its own case.
LEMMA EndOperationKeeps ==
    ASSUME TrackInv, phase = "turn", NEW STATE how, NEW STATE ids, EndOperation(how, ids)
    PROVE  TrackInv'
<1>1. Supported(Current) /\ ~ Voided(Current)
  BY DEF TrackInv, Working
<1>2. backend.opens = "anything" => Requirements(Current) \cap Authorization = {}
  BY <1>1, WorkedOnIsEarned DEF TrackInv
<1>3. CASE Current = "forget-derived"
  <2>1. PICK row : Report(row) /\ row.case = Current
    BY <1>3 DEF EndOperation, Row
  <2>2. SpentWasCounted'
    BY <1>3, ReplyCounts DEF EndOperation, Verified, Read, TrackInv
  <2>3. QED BY <1>2, <2>1, <2>2, EndingKeeps DEF EndOperation
<1>4. CASE Current # "forget-derived"
  <2>1. PICK row : Report(row) /\ row.case = Current
    BY <1>4 DEF EndOperation, Row
  <2>2. SpentWasCounted'
    BY <1>4 DEF EndOperation, TrackInv, SpentWasCounted
  <2>3. QED BY <1>2, <2>1, <2>2, EndingKeeps DEF EndOperation
<1>5. QED BY <1>3, <1>4

-----------------------------------------------------------------------------
(* The steps                                                                *)

\* A step that neither adds a row nor moves the verdict keeps both promises of them.
LEMMA RowsKeep ==
    ASSUME TrackInv, UNCHANGED <<backend, suite, rows>>
    PROVE  IsASequence(rows') /\ VoidedNeverCredited' /\ Current' = Current /\ Probe' = Probe
BY DEF TrackInv, IsASequence, VoidedNeverCredited, Current, Probe

\* A fresh backend holds nothing, and nothing is written yet.
LEMMA FreshKeeps ==
    ASSUME AgentAssumption, TrackInv, Fresh, phase' \in {"warmup", "seed"},
           phase' = "seed" => WorkedOn /\ check = Probe
    PROVE  TrackInv'
<1>1. /\ store' = {} /\ nonce' = 0 /\ spent' = {} /\ check' = Probe /\ written' = 0 /\ refused' = {}
      /\ UNCHANGED <<backend, suite, rows>>
  BY DEF Fresh, Reset
<1>2. IsASequence(rows') /\ VoidedNeverCredited' /\ Current' = Current /\ Probe' = Probe
  BY <1>1, RowsKeep
<1>3. SpentWasCounted' /\ Probed' /\ FreshStart'
  BY <1>1, <1>2 DEF SpentWasCounted, Probed, FreshStart
<1>4. Working'
  BY <1>1, <1>2 DEF Working, WorkedOn, Supported, Voided
<1>5. Seeding'
  <2>1. Len(Opening') \in Nat
    <3>1. Opening' = Seed \o <<>> \/ Opening' = Seed \o Prelude(Current)
      BY <1>2 DEF Opening
    <3>2. Seed \o <<>> \in Seq(Owned) /\ Seed \o Prelude(Current) \in Seq(Owned)
      BY OpeningIsOwned
    <3>3. Opening' \in Seq(Owned)
      BY <3>1, <3>2
    <3>4. QED BY <3>3
  <2>2. 0 \in 0 .. Len(Opening')
    BY <2>1
  <2>3. Done' = {}
    BY <1>1 DEF Done
  <2>4. QED BY <1>1, <2>2, <2>3 DEF Seeding, Holds
<1>6. QED BY <1>2, <1>3, <1>4, <1>5 DEF TrackInv

\* The probe gives its verdict before the first case.
LEMMA StartKeeps == ASSUME AgentAssumption, TrackInv, Start PROVE TrackInv'
BY FreshKeeps DEF Start

\* A declined case leaves the backend alone.
LEMMA DeclineKeeps == ASSUME TrackInv, Decline PROVE TrackInv'
<1>1. /\ phase = "case" /\ Report(Row(FALSE, FALSE, <<>>, "declined"))
      /\ UNCHANGED <<backend, suite, check, nonce, spent>>
  BY DEF Decline
<1>2. ~ Row(FALSE, FALSE, <<>>, "declined").supported
  BY DEF Row
<1>3. SpentWasCounted'
  BY <1>1 DEF TrackInv, SpentWasCounted
<1>4. QED BY <1>1, <1>2, <1>3, EndingKeeps

\* A case begins with a fresh backend, and is one that may be worked on.
LEMMA OpenKeeps == ASSUME AgentAssumption, TrackInv, Open PROVE TrackInv'
<1>1. phase = "case" /\ phase' = "seed" /\ WorkedOn /\ Fresh
  BY DEF Open
<1>2. check = Probe
  BY <1>1 DEF TrackInv, Probed
<1>3. QED BY <1>1, <1>2, FreshKeeps

\* One write more, granted or refused.
LEMMA WriteNextKeeps == ASSUME AgentAssumption, TrackInv, WriteNext PROVE TrackInv'
<1> DEFINE next == Opening[written + 1]
<1>1. /\ phase \in {"warmup", "seed"} /\ written < Len(Opening) /\ written' = written + 1
      /\ UNCHANGED <<backend, suite, phase, check, turn, rows>>
  BY DEF WriteNext
<1>2. written \in 0 .. Len(Opening) /\ Holds(Done)
  BY <1>1 DEF TrackInv, Seeding
<1>3. Opening \in Seq(Owned) /\ Len(Opening) \in Nat
  BY OpeningIsOwned
<1>4. next \in Owned /\ written + 1 \in 1 .. Len(Opening)
  BY <1>1, <1>2, <1>3
<1>5. PICK did \in Outcomes(Write(next.by, next.memory)) :
          /\ store' = did.store /\ nonce' = did.nonce /\ spent' = did.spent
          /\ refused' = IF did.result.ok THEN refused ELSE refused \cup {next.memory}
  BY DEF WriteNext
<1>6. IsASequence(rows') /\ VoidedNeverCredited' /\ Current' = Current /\ Probe' = Probe
  BY <1>1, RowsKeep
<1>7. Opening' = Opening
  BY <1>1, <1>6 DEF Opening
<1> HIDE DEF next
<1>8. /\ did.store \in {store, Put(next.memory)}
      /\ did.result.ok => did.store = Put(next.memory)
      /\ backend.reliable => did.result.ok
  BY <1>4, <1>5, WriteLeaves DEF TrackInv
<1>9. SpentWasCounted'
  <2>1. SpentWasCounted
    BY DEF TrackInv
  <2>2. PICK ok, ids, held : /\ did.nonce = Reply("write", next.by, ok, ids, held).nonce
                             /\ did.spent = Reply("write", next.by, ok, ids, held).spent
    BY <1>4, <1>5, <2>1, WriteLeaves
  <2>3. QED BY <1>5, <2>1, <2>2, ReplyCounts
<1>10. Put(next.memory) = store \cup {next.memory}
  <2>1. \A m \in Done : \E id \in DOMAIN Corpus : m = Corpus[id] /\ m.id = id
    <3>1. SUFFICES ASSUME NEW i \in 1 .. written
                   PROVE  \E id \in DOMAIN Corpus : Opening[i].memory = Corpus[id] /\ Opening[i].memory.id = id
      BY DEF Done
    <3>2. Opening[i] \in Owned
      BY <1>2, <1>3
    <3>3. QED BY <3>2, OwnedIsAllowed
  <2>2. store \subseteq Done
    BY <1>2 DEF Holds
  <2>3. QED BY <1>4, <2>1, <2>2, PutAdds
<1>11. Done' = Done \cup {next.memory}
  <2>1. Done' = {Opening[i].memory : i \in 1 .. (written + 1)}
    BY <1>1, <1>7 DEF Done
  <2>2. 1 .. (written + 1) = (1 .. written) \cup {written + 1}
    BY <1>2, <1>3
  <2>3. Done' = {Opening[i].memory : i \in (1 .. written) \cup {written + 1}}
    BY <2>1, <2>2
  <2>4. Done' = {Opening[i].memory : i \in 1 .. written} \cup {Opening[written + 1].memory}
    BY ONLY <2>3
  <2>5. QED BY <2>4 DEF Done, next
<1>12. Holds(Done)'
  BY <1>1, <1>2, <1>5, <1>8, <1>10, <1>11 DEF Holds
<1>13. Seeding'
  BY <1>1, <1>2, <1>3, <1>7, <1>12 DEF Seeding
<1>14. Probed' /\ Working' /\ FreshStart'
  BY <1>1, <1>6 DEF TrackInv, Probed, Working, Supported, Voided, FreshStart
<1>15. QED BY <1>1, <1>6, <1>9, <1>13, <1>14 DEF TrackInv

\* The model gets to work when everything is written.
LEMMA ReadyKeeps == ASSUME AgentAssumption, TrackInv, Ready PROVE TrackInv'
<1>1. /\ phase \in {"warmup", "seed"} /\ written = Len(Opening)
      /\ UNCHANGED <<backend, suite, check, refused, store, nonce, spent, rows>>
      /\ \/ phase = "warmup" /\ phase' = "case"
         \/ phase = "seed" /\ phase' = "turn" /\ turn' = 1
  BY DEF Ready
<1>2. IsASequence(rows') /\ VoidedNeverCredited' /\ Current' = Current /\ Probe' = Probe
  BY <1>1, RowsKeep
<1>3. SpentWasCounted' /\ Probed' /\ Working' /\ Seeding'
  BY <1>1, <1>2 DEF TrackInv, SpentWasCounted, Probed, Working, Supported, Voided, Seeding
<1>4. FreshStart'
  <2> SUFFICES ASSUME phase' = "turn"
               PROVE  Holds({w.memory : w \in Range(Seed \o Prelude(Current))})'
    BY DEF FreshStart, Holds
  <2>1. Opening = Seed \o Prelude(Current)
    BY <1>1 DEF Opening
  <2>2. Opening \in Seq(Owned)
    BY OpeningIsOwned
  <2>3. Done = {w.memory : w \in Range(Opening)}
    BY <1>1, <2>2 DEF Done, Range
  <2>4. Holds(Done)
    BY <1>1 DEF TrackInv, Seeding
  <2>5. {w.memory : w \in Range(Seed \o Prelude(Current))}' = Done
    BY <1>2, <2>1, <2>3 DEF Prelude
  <2>6. QED BY <1>1, <2>4, <2>5 DEF Holds
<1>5. QED BY <1>1, <1>2, <1>3, <1>4 DEF TrackInv

\* A process that ends leaves no row of its own.
LEMMA CrashKeeps == ASSUME TrackInv, Crashed PROVE TrackInv'
<1>1. phase' = "crashed" /\ UNCHANGED <<backend, suite, nonce, spent, rows>>
  BY DEF Crashed
<1>2. IsASequence(rows') /\ VoidedNeverCredited'
  BY <1>1, RowsKeep
<1>3. QED BY <1>1, <1>2 DEF TrackInv, SpentWasCounted, Probed, Working, Seeding, FreshStart

\* A turn goes on: the case, its rows and the verdict stay.
LEMMA TurnKeeps ==
    ASSUME TrackInv, phase \in {"turn", "tools"}, UNCHANGED <<backend, suite, check, rows>>,
           SpentWasCounted', phase' \in {"turn", "tools"}, turn' \in Nat \ {0},
           phase' = "turn" => turn' # 1
    PROVE  TrackInv'
<1>1. IsASequence(rows') /\ VoidedNeverCredited' /\ Current' = Current /\ Probe' = Probe
  BY RowsKeep
<1>2. Probed' /\ Working'
  BY <1>1 DEF TrackInv, Probed, Working, Supported, Voided
<1>3. QED BY <1>1, <1>2 DEF TrackInv, Seeding, FreshStart

\* The model answers with tool calls.
LEMMA RespondKeeps == ASSUME TrackInv, NEW calls \in Responses, Respond(calls) PROVE TrackInv'
<1>1. SpentWasCounted'
  BY DEF Respond, TrackInv, SpentWasCounted
<1>2. QED BY <1>1, TurnKeeps DEF Respond, InBounds, TrackInv, Working

\* A tool call, the last of its turn included.
LEMMA DispatchKeeps == ASSUME TrackInv, Dispatch PROVE TrackInv'
<1>1. SpentWasCounted'
  <2>1. PICK p, call : \E did \in Outcomes(Dispatched(p, call)) : nonce' = did.nonce /\ spent' = did.spent
    BY DEF Dispatch
  <2>2. QED BY <2>1, DispatchedCounts DEF TrackInv
<1>2. turn \in Nat \ {0}
  BY DEF Dispatch, TrackInv, Working
<1>3. (phase' = "turn" /\ turn' = turn + 1) \/ (phase' = "tools" /\ turn' = turn)
  BY DEF Dispatch
<1>4. QED BY <1>1, <1>2, <1>3, TurnKeeps DEF Dispatch

\* The invariant holds at the start, and every step keeps it.
LEMMA TrackInvStarts == ASSUME AgentAssumption, Init PROVE TrackInv
BY DEF Init, TrackInv, IsASequence, SpentWasCounted, Probed, Working, Seeding, VoidedNeverCredited, FreshStart

\* Every step of the track, the model's included, keeps the invariant.
LEMMA TrackInvSteps == ASSUME AgentAssumption, TrackInv, [Next]_vars PROVE TrackInv'
<1>1. CASE Start
  BY <1>1, StartKeeps
<1>2. CASE Decline
  BY <1>2, DeclineKeeps
<1>3. CASE Open
  BY <1>3, OpenKeeps
<1>4. CASE WriteNext
  BY <1>4, WriteNextKeeps
<1>5. CASE Ready
  BY <1>5, ReadyKeeps
<1>6. CASE BackendRaises \/ Garbled
  BY <1>6, CrashKeeps DEF BackendRaises, Garbled
<1>7. CASE Overrun
  BY <1>7, EndOperationKeeps DEF Overrun
<1>8. CASE TransportFails
  BY <1>8, EndOperationKeeps DEF TransportFails, InBounds
<1>9. ASSUME NEW content \in Contents, Answer(content) PROVE TrackInv'
  BY <1>9, EndOperationKeeps DEF Answer, InBounds
<1>10. ASSUME NEW calls \in Responses, Respond(calls) PROVE TrackInv'
  BY <1>10, RespondKeeps
<1>11. CASE Dispatch
  BY <1>11, DispatchKeeps
<1>12. CASE UNCHANGED vars
  <2>1. /\ UNCHANGED <<backend, suite, phase, check, written, refused, store, nonce, spent>>
        /\ UNCHANGED <<turn, rows>>
    BY <1>12 DEF vars
  <2>2. IsASequence(rows') /\ VoidedNeverCredited' /\ Current' = Current /\ Probe' = Probe
    BY <2>1, RowsKeep
  <2>3. SpentWasCounted' /\ Probed' /\ Working'
    BY <2>1, <2>2 DEF TrackInv, SpentWasCounted, Probed, Working, Supported, Voided
  <2>4. Opening' = Opening
    BY <2>1, <2>2 DEF Opening
  <2>5. Done' = Done
    BY <2>1, <2>4 DEF Done
  <2>6. Seeding'
    BY <2>1, <2>4, <2>5 DEF TrackInv, Seeding, Holds
  <2>7. FreshStart'
    BY <2>1, <2>2 DEF TrackInv, FreshStart
  <2>8. QED BY <2>2, <2>3, <2>6, <2>7 DEF TrackInv
<1>13. QED BY <1>1, <1>2, <1>3, <1>4, <1>5, <1>6, <1>7, <1>8, <1>9, <1>10, <1>11, <1>12 DEF Next

\* The invariant of the first three theorems (driver.py, run_case; loop.py, run_operation).
LEMMA TrackInvHolds == Spec => []TrackInv
BY TrackInvStarts, TrackInvSteps, AgentAssumption, PTL DEF Spec

\* A backend that opens a session for a corrupted secret is credited with no
\* authorization case, whatever it claims (driver.py, _authorization_check).
THEOREM VoidedClaimsEarnNothing == Spec => []VoidedNeverCredited
<1>1. TrackInv => VoidedNeverCredited
  BY DEF TrackInv
<1>2. QED BY <1>1, TrackInvHolds, PTL

\* When the model gets to work the backend holds what the harness wrote one by one,
\* short of what it refused, whatever the model of an earlier case wrote and deleted;
\* a reliable backend refused nothing, so none of these writes was a replay, and each
\* was within its principal's clearance (driver.py, _fresh and _scenario).
THEOREM CasesStartFresh == Spec => []FreshStart
<1>1. TrackInv => FreshStart
  BY DEF TrackInv
<1>2. QED BY <1>1, TrackInvHolds, PTL

\* The vault takes no request of the harness for a replay (marciana_agent, _nonce).
THEOREM RequestsAreNew == Spec => []NeverReplayed
<1>1. TrackInv => NeverReplayed
  BY CountedIsClaimed DEF TrackInv, NeverReplayed
<1>2. QED BY <1>1, TrackInvHolds, PTL
-----------------------------------------------------------------------------
(* The store, and what a read of it shows                                   *)

\* The store holds finitely many memories, one of an identifier; their ranks are
\* those of the texts they were written from.
Shelved ==
    /\ IsFiniteSet(store)
    /\ \A m \in store : /\ {"id", "rank", "derived", "forgotten"} \subseteq DOMAIN m /\ m.rank \in Nat
                        /\ \E n \in Texts : m.id = n.id /\ m.rank = n.rank
    /\ \A m, n \in store : m.id = n.id => m = n

\* What is left to dispatch are calls of a response, and there is one.
Loaded == phase = "tools" => pending \in Seq(ToolCalls) /\ pending # <<>>

\* What the invariant of a credited forget has to add to be inductive.
ForgetInv ==
    /\ TrackInv /\ Shelved /\ Loaded /\ backend \in Backends
    /\ phase \in {"start", "warmup"} => rows = <<>>
    /\ ForgetCreditIsReal

\* What a function makes of a finite set is finite.
LEMMA ImageIsFinite ==
    ASSUME NEW S, IsFiniteSet(S), NEW f, DOMAIN f = S, NEW T, \A t \in T : \E x \in S : t = f[x]
    PROVE  IsFiniteSet(T)
<1> DEFINE R == {f[x] : x \in S}
           g == [x \in S |-> f[x]]
<1>1. g \in Surjection(S, R)
  BY DEF Surjection
<1>2. T \in SUBSET R
  OBVIOUS
<1> HIDE DEF R, g
<1>3. IsFiniteSet(R)
  BY <1>1, FS_Surjection
<1>4. QED BY <1>2, <1>3, FS_Subset

\* A rank names a text.
LEMMA RankNames == ASSUME AgentAssumption PROVE \A a, b \in Texts : a.rank = b.rank => a.id = b.id
<1>1. \A a, b \in Texts : a.rank = b.rank <=> a.id = b.id
  BY ONLY AgentAssumption DEF AgentAssumption
<1>2. QED BY ONLY <1>1

\* Of two memories of the store one precedes the other, and precedence is transitive.
LEMMA PrecedenceRanks ==
    ASSUME AgentAssumption, Shelved, NEW words, IsFiniteSet(words)
    PROVE  /\ \A m \in store : ~ Precedes(m, m, words)
           /\ \A m, n \in store : m # n => Precedes(m, n, words) \/ Precedes(n, m, words)
           /\ \A l, m, n \in store : Precedes(l, m, words) /\ Precedes(m, n, words) => Precedes(l, n, words)
<1>1. ASSUME NEW m \in store PROVE Score(m, words) \in Nat /\ m.rank \in Nat
  <2>1. IsFiniteSet(m.words \cap words)
    BY FS_Subset
  <2>2. QED BY <2>1, FS_CardinalityType DEF Score, Shelved
<1>2. ASSUME NEW m \in store, NEW n \in store, m.rank = n.rank PROVE m = n
  <2>1. PICK a \in Texts, b \in Texts : m.id = a.id /\ m.rank = a.rank /\ n.id = b.id /\ n.rank = b.rank
    BY DEF Shelved
  <2>2. a.id = b.id
    <3>1. a.rank = b.rank
      BY <1>2, <2>1
    <3>2. QED BY <3>1, RankNames
  <2>3. QED BY <2>1, <2>2 DEF Shelved
<1>3. ASSUME NEW m \in store, NEW n \in store, m # n PROVE Precedes(m, n, words) \/ Precedes(n, m, words)
  BY <1>1, <1>2, <1>3 DEF Precedes
<1>4. ASSUME NEW m \in store PROVE ~ Precedes(m, m, words)
  BY <1>1 DEF Precedes
<1>5. ASSUME NEW l \in store, NEW m \in store, NEW n \in store,
             Precedes(l, m, words), Precedes(m, n, words)
      PROVE  Precedes(l, n, words)
  BY <1>1, <1>5 DEF Precedes
<1>6. QED BY <1>3, <1>4, <1>5

\* The ranking leaves out nothing that matches (backend.recall, sorted).
LEMMA RankedShowsAll ==
    ASSUME AgentAssumption, Shelved, NEW p, NEW words, IsFiniteSet(words), NEW date,
           NEW m \in Matching(p, words, date)
    PROVE  \E i \in DOMAIN Ranked(p, words, date) : Ranked(p, words, date)[i] = m
<1> DEFINE all == Matching(p, words, date)
           Before(x) == {y \in all : Precedes(y, x, words)}
<1>1. all \subseteq store /\ IsFiniteSet(all) /\ m \in all
  <2>1. all \subseteq store
    BY DEF Matching
  <2>2. QED BY <2>1, FS_Subset DEF Shelved
<1>2. ASSUME NEW x \in all
      PROVE  /\ IsFiniteSet(Before(x)) /\ Cardinality(Before(x)) \in Nat
             /\ Cardinality(Before(x)) < Cardinality(all)
  <2>1. Before(x) \subseteq all /\ x \in all /\ x \notin Before(x)
    BY <1>1, PrecedenceRanks
  <2>2. Before(x) # all
    BY <2>1
  <2>3. IsFiniteSet(Before(x)) /\ Cardinality(Before(x)) <= Cardinality(all)
        /\ Cardinality(Before(x)) # Cardinality(all)
    BY <1>1, <2>1, <2>2, FS_Subset
  <2>4. QED BY <1>1, <2>3, FS_CardinalityType
<1>3. ASSUME NEW x \in all, NEW y \in all, Precedes(x, y, words)
      PROVE  Cardinality(Before(x)) # Cardinality(Before(y))
  <2>1. Before(x) \subseteq Before(y) /\ x \in Before(y) /\ x \notin Before(x)
    BY <1>1, <1>3, PrecedenceRanks
  <2>2. Before(x) \in SUBSET Before(y) /\ Before(x) # Before(y)
    BY <2>1
  <2>3. QED BY <1>2, <2>2, FS_Subset
<1> DEFINE i == Cardinality(Before(m)) + 1
<1>4. i \in 1 .. Cardinality(all) /\ i - 1 = Cardinality(Before(m))
  <2>1. /\ Cardinality(Before(m)) \in Nat /\ Cardinality(all) \in Nat
        /\ Cardinality(Before(m)) < Cardinality(all)
    BY <1>1, <1>2, FS_CardinalityType
  <2> HIDE DEF all, Before
  <2>2. QED BY <2>1
<1>5. ASSUME NEW x \in all, Cardinality(Before(x)) = i - 1 PROVE x = m
  <2>1. ~ Precedes(x, m, words) /\ ~ Precedes(m, x, words)
    BY <1>1, <1>3, <1>4, <1>5
  <2>2. QED BY <1>1, <2>1, PrecedenceRanks
<1>6. (CHOOSE x \in all : Cardinality(Before(x)) = i - 1) = m
  BY <1>1, <1>4, <1>5
<1> HIDE DEF i
<1>7. Ranked(p, words, date)[i] = m /\ i \in DOMAIN Ranked(p, words, date)
  BY <1>4, <1>6 DEF Ranked
<1>8. QED BY <1>7

\* Both facts of a forget would be found by the query, were they in the store.
LEMMA FactsAreFound ==
    ASSUME AgentAssumption, Shelved, NEW id \in {"price-current", "summary"}, Corpus[id] \in store
    PROVE  \E i \in DOMAIN Names(Ranked("operator", Queries["forget-derived"], Now)) :
               Names(Ranked("operator", Queries["forget-derived"], Now))[i] = id
<1> DEFINE words == Queries["forget-derived"]
           fact  == Corpus[id]
<1>1. /\ IsFiniteSet(words) /\ fact.words \cap words # {} /\ ~ fact.forgotten /\ fact.id = id
      /\ fact.level <= 3 /\ fact.from <= Now /\ Now < fact.until
  BY DEF AgentAssumption
<1>2. Score(fact, words) > 0
  <2>1. IsFiniteSet(fact.words \cap words)
    BY <1>1, FS_Subset
  <2> DEFINE shared == fact.words \cap words
  <2> HIDE DEF shared
  <2>2. Cardinality(shared) \in Nat /\ Cardinality(shared) # 0
    <3>1. IsFiniteSet(shared) /\ shared # {}
      BY <1>1, <2>1 DEF shared
    <3>2. QED BY <3>1, FS_CardinalityType, FS_EmptySet
  <2>3. QED BY <2>2 DEF Score, shared
<1>3. Authorized(fact, "operator") /\ Valid(fact, Now)
  BY <1>1 DEF Authorized, Clearance, Valid
<1>4. fact \in Matching("operator", words, Now)
  BY <1>1, <1>2, <1>3 DEF Matching
<1>5. PICK i \in DOMAIN Ranked("operator", words, Now) : Ranked("operator", words, Now)[i] = fact
  BY <1>1, <1>4, RankedShowsAll
<1>6. QED BY <1>1, <1>5 DEF Names
-----------------------------------------------------------------------------
(* A credited forget                                                        *)

\* A reset empties the shelf.
LEMMA FreshIsShelved == ASSUME Fresh PROVE Shelved'
<1>1. store' = {}
  BY DEF Fresh, Reset
<1>2. QED BY <1>1, FS_EmptySet DEF Shelved

\* A write replaces what had its identifier.
LEMMA PutIsShelved == ASSUME AgentAssumption, Shelved, NEW m \in Texts, store' = Put(m) PROVE Shelved'
<1>1. store' = {x \in store : x.id # m.id} \cup {m} /\ m \in Texts
  BY DEF Put
<1>2. IsFiniteSet(store')
  <2> DEFINE rest == {x \in store : x.id # m.id}
  <2>1. rest \in SUBSET store /\ IsFiniteSet(store) /\ store' = rest \cup {m}
    BY <1>1 DEF Shelved
  <2> HIDE DEF rest
  <2>2. IsFiniteSet(rest)
    BY <2>1, FS_Subset
  <2>3. QED BY <2>1, <2>2, FS_AddElement
<1>3. ASSUME NEW x \in store'
      PROVE  /\ {"id", "rank", "derived", "forgotten"} \subseteq DOMAIN x /\ x.rank \in Nat
             /\ \E n \in Texts : x.id = n.id /\ x.rank = n.rank
  <2>1. CASE x = m
    BY <1>1, <2>1 DEF AgentAssumption
  <2>2. CASE x \in store
    BY <2>2 DEF Shelved
  <2>3. QED BY <1>1, <2>1, <2>2
<1>4. \A x, y \in store' : x.id = y.id => x = y
  BY <1>1 DEF Shelved
<1>5. QED BY <1>2, <1>3, <1>4 DEF Shelved

\* A forget marks memories or removes them, and moves none.
LEMMA GoneIsShelved == ASSUME AgentAssumption, Shelved, NEW id, store' = Gone(id) PROVE Shelved'
<1>1. CASE Flat
  <2>1. store' \subseteq store
    BY <1>1 DEF Gone
  <2>2. QED BY <2>1, FS_Subset DEF Shelved
<1>2. CASE ~ Flat
  <2> DEFINE Mark(x) == [x EXCEPT !.forgotten = @ \/ x.id = id \/ id \in x.derived]
             f == [x \in store |-> Mark(x)]
  <2>1. store' = {f[x] : x \in store}
    BY <1>2 DEF Gone
  <2>2. IsFiniteSet(store')
    <3>1. IsFiniteSet(store) /\ DOMAIN f = store
      BY DEF Shelved
    <3> HIDE DEF f
    <3>2. QED BY <2>1, <3>1, ImageIsFinite
  <2>3. ASSUME NEW x \in store
        PROVE  Mark(x).id = x.id /\ Mark(x).rank = x.rank /\ DOMAIN Mark(x) = DOMAIN x
    BY DEF Shelved
  <2>4. ASSUME NEW y \in store'
        PROVE  /\ {"id", "rank", "derived", "forgotten"} \subseteq DOMAIN y /\ y.rank \in Nat
               /\ \E n \in Texts : y.id = n.id /\ y.rank = n.rank
    <3>1. PICK x \in store : y = Mark(x)
      BY <2>1
    <3> HIDE DEF Mark
    <3>2. QED BY <2>3, <3>1 DEF Shelved
  <2>5. ASSUME NEW y \in store', NEW z \in store', y.id = z.id PROVE y = z
    <3>1. PICK w \in store, x \in store : y = Mark(w) /\ z = Mark(x)
      BY <2>1
    <3> HIDE DEF Mark
    <3>2. w = x
      BY <2>3, <2>5, <3>1 DEF Shelved
    <3>3. QED BY <3>1, <3>2
  <2>6. QED BY <2>2, <2>4, <2>5 DEF Shelved
<1>3. QED BY <1>1, <1>2

\* The harness's own writes put texts of the corpus on the shelf.
LEMMA WriteNextIsShelved == ASSUME AgentAssumption, TrackInv, Shelved, WriteNext PROVE Shelved'
<1> DEFINE next == Opening[written + 1]
<1>1. /\ phase \in {"warmup", "seed"} /\ written < Len(Opening)
      /\ \E did \in Outcomes(Write(next.by, next.memory)) : store' = did.store
  BY DEF WriteNext
<1>2. next \in Owned
  <2>1. written \in 0 .. Len(Opening) /\ Opening \in Seq(Owned)
    BY <1>1, OpeningIsOwned DEF TrackInv, Seeding
  <2>2. QED BY <1>1, <2>1
<1> HIDE DEF next
<1>3. store' \in {store, Put(next.memory)}
  BY <1>1, <1>2, WriteLeaves DEF TrackInv
<1>4. CASE store' = store
  BY <1>4 DEF Shelved
<1>5. CASE store' = Put(next.memory)
  <2>1. next.memory \in Texts
    BY <1>2, OwnedIsAllowed
  <2>2. QED BY <1>5, <2>1, PutIsShelved
<1>6. QED BY <1>3, <1>4, <1>5

\* Whatever the model calls, the store stays in order.
LEMMA DispatchIsShelved == ASSUME AgentAssumption, Shelved, Loaded, Dispatch PROVE Shelved' /\ Loaded'
<1>1. /\ pending \in Seq(ToolCalls) /\ pending # <<>> /\ pending' = Tail(pending)
      /\ Len(pending) # 1 => phase' = phase
      /\ Len(pending) = 1 => phase' = "turn"
  BY DEF Dispatch, Loaded
<1>2. Loaded'
  <2>1. Tail(pending) \in Seq(ToolCalls)
    BY <1>1
  <2>2. CASE Len(pending) = 1
    BY <1>1, <2>2 DEF Loaded
  <2>3. CASE Len(pending) # 1
    <3>1. Len(pending) \in Nat /\ Len(pending) # 0
      BY <1>1
    <3>2. Len(Tail(pending)) = Len(pending) - 1
      BY <1>1
    <3>3. Len(Tail(pending)) # 0
      BY <2>3, <3>1, <3>2
    <3>4. ASSUME Tail(pending) = <<>> PROVE FALSE
      <4>1. Len(<<>>) = 0
        OBVIOUS
      <4>2. QED BY <3>3, <3>4, <4>1
    <3>5. QED BY <1>1, <2>1, <3>4 DEF Loaded
  <2>4. QED BY <2>2, <2>3
<1>3. PICK call : call = Head(pending) /\ call \in ToolCalls
  BY <1>1
<1>4. PICK p : store' = store \/ store' = Dispatched(p, call).store
  <2>1. PICK p : \E did \in Outcomes(Dispatched(p, call)) : store' = did.store
    BY <1>3 DEF Dispatch
  <2>2. PICK did \in Outcomes(Dispatched(p, call)) : store' = did.store
    BY <2>1
  <2> DEFINE plain == Dispatched(p, call)
  <2>3. "store" \in DOMAIN plain
    BY DispatchedIsARecord
  <2> HIDE DEF plain
  <2>4. did = plain => store' = plain.store
    BY <2>2
  <2>5. ASSUME NEW held \in {store, plain.store},
               did = [plain EXCEPT !.result.ok = FALSE, !.result.ids = <<>>, !.store = held]
        PROVE  store' = held
    <3>1. did.store = held
      BY <2>3, <2>5, DispatchedIsARecord DEF plain
    <3>2. QED BY <2>2, <3>1
  <2>6. \/ did = plain
        \/ \E held \in {store, plain.store} :
               did = [plain EXCEPT !.result.ok = FALSE, !.result.ids = <<>>, !.store = held]
    BY <2>2, OutcomeCounts DEF plain
  <2>7. store' = store \/ store' = plain.store
    BY <2>4, <2>5, <2>6
  <2>8. QED BY <2>7 DEF plain
<1>5. \/ store' = store
      \/ call.tool = "write" /\ store' = Put(call.memory)
      \/ store' = Gone(call.id)
  <2>1. CASE store' = store
    BY <2>1
  <2>2. CASE store' = Dispatched(p, call).store
    <3>1. CASE call.tool = "write"
      BY <2>2, <3>1 DEF Dispatched, Write, Reply
    <3>2. CASE call.tool = "read"
      BY <2>2, <3>2 DEF Dispatched, Read, Reply
    <3>3. CASE call.tool = "delete"
      BY <2>2, <3>3 DEF Dispatched, Delete, Reply
    <3>4. CASE call.tool = "list"
      BY <2>2, <3>4 DEF Dispatched, List, Reply
    <3>5. CASE call.tool \notin {"write", "read", "delete", "list"}
      BY <2>2, <3>5 DEF Dispatched
    <3>6. QED BY <3>1, <3>2, <3>3, <3>4, <3>5
  <2>3. QED BY <1>4, <2>1, <2>2
<1>6. CASE store' = store
  BY <1>2, <1>6 DEF Shelved
<1>7. CASE call.tool = "write" /\ store' = Put(call.memory)
  <2>1. call.memory \in Texts
    BY <1>3, <1>7 DEF Writes, Texts
  <2>2. QED BY <1>2, <1>7, <2>1, PutIsShelved
<1>8. CASE store' = Gone(call.id)
  BY <1>2, <1>8, GoneIsShelved
<1>9. QED BY <1>5, <1>6, <1>7, <1>8

\* What is read after the restart of forget-derived shows no fact only if none is there.
LEMMA VerifiedShowsStore ==
    ASSUME AgentAssumption, ForgetInv, phase = "turn", Current = "forget-derived", NEW ids
    PROVE  /\ Verified(ids).store = store
           /\ Evaluate(Current, ids # <<>>, Verified(ids).result.ids) =>
                  \A fact \in {Corpus["price-current"], Corpus["summary"]} : fact \notin store
<1> DEFINE words == Queries["forget-derived"]
           names == Names(Ranked("operator", words, Now))
<1>1. ~ Flat
  <2>1. backend \in Backends /\ "derived-tracking" \in backend.caps
    BY DEF ForgetInv, TrackInv, Working, Supported, Requirements
  <2>2. QED BY <2>1 DEF AgentAssumption, Flat
<1>2. Claimed("operator")
  BY CountedIsClaimed DEF ForgetInv, TrackInv
<1>3. Verified(ids).store = store /\ Verified(ids).result.ids = names
  BY <1>1, <1>2 DEF Verified, Read, Reply, Result, Shown
<1>4. ASSUME NEW id \in {"price-current", "summary"}, Corpus[id] \in store
      PROVE  ~ Evaluate(Current, ids # <<>>, names)
  <2>1. PICK i \in DOMAIN names : names[i] = id
    BY <1>4, FactsAreFound DEF ForgetInv
  <2>2. id \in Range(names)
    BY <2>1 DEF Range
  <2>3. id \in Expected["forget-derived"].forbidden
    BY <1>4 DEF AgentAssumption
  <2>4. QED BY <2>2, <2>3 DEF Evaluate
<1>5. QED BY <1>3, <1>4

\* A row is credited for what was read.
LEMMA EndOperationCredits ==
    ASSUME AgentAssumption, ForgetInv, phase = "turn", NEW STATE how, NEW STATE ids, EndOperation(how, ids)
    PROVE  ForgetInv'
<1>0. PICK given : given = ids
  OBVIOUS
<1>1. TrackInv'
  BY EndOperationKeeps DEF ForgetInv
<1>2. backend' = backend /\ phase' \in {"finished", "case"} /\ store' = store
  <2>1. CASE Current = "forget-derived"
    BY <1>0, <2>1, VerifiedShowsStore DEF EndOperation, Report
  <2>2. CASE Current # "forget-derived"
    BY <2>2 DEF EndOperation, Report
  <2>3. QED BY <2>1, <2>2
<1>3. Shelved' /\ Loaded' /\ backend' \in Backends
  BY <1>2 DEF ForgetInv, Shelved, Loaded
<1>4. ForgetCreditIsReal'
  <2>1. PICK row : Report(row) /\ row.case = Current
                   /\ (Current = "forget-derived" =>
                          row.correct = Evaluate(Current, given # <<>>, Verified(given).result.ids))
    BY <1>0 DEF EndOperation, Row
  <2>2. Last(rows') = row
    <3>1. PICK S : rows \in Seq(S)
      BY DEF ForgetInv, TrackInv, IsASequence
    <3>2. rows \in Seq(S \cup {row}) /\ rows' = Append(rows, row)
      BY <2>1, <3>1 DEF Report
    <3>3. rows'[Len(rows')] = row
      BY <3>2
    <3>4. QED BY <3>3 DEF Last
  <2>3. row.case = "forget-derived" /\ row.correct =>
            \A fact \in {Corpus["price-current"], Corpus["summary"]} : fact \notin store
    BY <2>1, VerifiedShowsStore
  <2>4. QED BY <1>2, <2>2, <2>3 DEF ForgetCreditIsReal
<1>5. QED BY <1>1, <1>2, <1>3, <1>4 DEF ForgetInv

\* Every step but the end of a case leaves the rows, or adds one without credit.
LEMMA ForgetInvHolds == Spec => []ForgetInv
<1>1. AgentAssumption /\ Init => ForgetInv
  BY TrackInvStarts, FS_EmptySet DEF Init, ForgetInv, Shelved, Loaded, ForgetCreditIsReal
<1>2. AgentAssumption /\ ForgetInv /\ [Next]_vars => ForgetInv'
  <2> SUFFICES ASSUME AgentAssumption, ForgetInv, [Next]_vars PROVE ForgetInv'
    OBVIOUS
  <2>0. TrackInv'
    BY TrackInvSteps DEF ForgetInv
  <2>1. CASE Start
    <3>1. /\ phase = "start" /\ phase' = "warmup" /\ UNCHANGED <<backend, rows>> /\ Shelved'
      BY <2>1, FreshIsShelved DEF Start, Fresh
    <3>2. QED BY <2>0, <3>1 DEF ForgetInv, Loaded, ForgetCreditIsReal
  <2>2. CASE Decline
    <3>1. PICK row : Report(row) /\ row.correct = FALSE
      BY <2>2 DEF Decline, Row
    <3>2. PICK S : rows \in Seq(S)
      BY DEF ForgetInv, TrackInv, IsASequence
    <3>3. rows \in Seq(S \cup {row}) /\ rows' = Append(rows, row)
      BY <3>1, <3>2 DEF Report
    <3>4. rows'[Len(rows')] = row
      BY <3>3
    <3>5. phase' \in {"finished", "case"} /\ UNCHANGED <<store, backend>>
      BY <2>2, <3>1 DEF Decline, Report
    <3>6. ForgetCreditIsReal' /\ Shelved' /\ Loaded'
      BY <3>1, <3>4, <3>5 DEF ForgetCreditIsReal, Last, ForgetInv, Shelved, Loaded
    <3>7. QED BY <2>0, <3>5, <3>6 DEF ForgetInv
  <2>3. CASE Open
    <3>1. phase' = "seed" /\ backend' = backend /\ Shelved'
      BY <2>3, FreshIsShelved DEF Open, Fresh
    <3>2. QED BY <2>0, <3>1 DEF ForgetInv, Loaded, ForgetCreditIsReal
  <2>4. CASE Overrun
    BY <2>4, EndOperationCredits DEF Overrun
  <2>5. CASE TransportFails
    BY <2>5, EndOperationCredits DEF TransportFails, InBounds
  <2>6. ASSUME NEW content \in Contents, Answer(content) PROVE ForgetInv'
    BY <2>6, EndOperationCredits DEF Answer, InBounds
  <2>7. ASSUME NEW calls \in Responses, Respond(calls) PROVE ForgetInv'
    <3>1. calls \in Seq(ToolCalls) /\ calls # <<>>
      <4>1. calls \in Seq(Range(calls)) /\ calls # <<>> /\ Range(calls) \subseteq ToolCalls
        BY DEF AgentAssumption, ToolCalls
      <4>2. QED BY <4>1
    <3>2. phase' = "tools" /\ pending' = calls /\ UNCHANGED <<backend, store, rows>>
      BY <2>7 DEF Respond
    <3>3. QED BY <2>0, <3>1, <3>2 DEF ForgetInv, Shelved, Loaded, ForgetCreditIsReal
  <2>8. CASE Dispatch
    <3>1. Shelved' /\ Loaded'
      BY <2>8, DispatchIsShelved DEF ForgetInv
    <3>2. phase = "tools" /\ phase' \in {"turn", "tools"} /\ UNCHANGED <<backend, rows>>
      BY <2>8 DEF Dispatch
    <3>3. QED BY <2>0, <3>1, <3>2 DEF ForgetInv, ForgetCreditIsReal
  <2>9. CASE WriteNext
    <3>1. phase \in {"warmup", "seed"} /\ UNCHANGED <<phase, backend, rows>>
      BY <2>9 DEF WriteNext
    <3>2. Shelved'
      BY <2>9, WriteNextIsShelved DEF ForgetInv
    <3>3. QED BY <2>0, <3>1, <3>2 DEF ForgetInv, Loaded, ForgetCreditIsReal
  <2>10. CASE Ready
    <3>1. /\ UNCHANGED <<store, backend, rows>>
          /\ (phase = "warmup" /\ phase' = "case") \/ (phase = "seed" /\ phase' = "turn")
      BY <2>10 DEF Ready
    <3>2. Shelved' /\ Loaded'
      BY <3>1 DEF ForgetInv, Shelved, Loaded
    <3>3. QED BY <2>0, <3>1, <3>2 DEF ForgetInv, ForgetCreditIsReal
  <2>11. CASE BackendRaises \/ Garbled
    <3>1. phase' = "crashed" /\ UNCHANGED <<store, backend, rows>>
      BY <2>11 DEF BackendRaises, Garbled, Crashed
    <3>2. QED BY <2>0, <3>1 DEF ForgetInv, Shelved, Loaded, ForgetCreditIsReal
  <2>12. CASE UNCHANGED vars
    BY <2>0, <2>12 DEF vars, ForgetInv, Shelved, Loaded, ForgetCreditIsReal
  <2>13. QED BY <2>1, <2>2, <2>3, <2>4, <2>5, <2>6, <2>7, <2>8, <2>9, <2>10, <2>11, <2>12 DEF Next
<1>3. QED BY <1>1, <1>2, AgentAssumption, PTL DEF Spec

\* Forget-derived is credited only if neither the fact nor its summary is in the
\* store, whatever the model wrote, deleted and answered: the harness reads the store
\* after a restart, and the read leaves out nothing that matches (driver.py,
\* "State verification is objective").
THEOREM ForgetCreditHolds == Spec => []ForgetCreditIsReal
<1>1. ForgetInv => ForgetCreditIsReal
  BY DEF ForgetInv
<1>2. QED BY <1>1, ForgetInvHolds, PTL

-----------------------------------------------------------------------------
(* Whatever the model does, the track ends                                  *)

\* What is left: cases, turns of the operation and what comes before them, the answer
\* of the model that this turn waits for, and the calls of its response, or the
\* harness's own writes.
CasesLeft  == Len(suite) - Len(rows)
TurnsLeft  == CASE phase = "start"  -> MaxTurns + 5
                [] phase = "warmup" -> MaxTurns + 4
                [] phase = "case"   -> MaxTurns + 3
                [] phase = "seed"   -> MaxTurns + 2
                [] phase \in {"turn", "tools"} -> MaxTurns + 1 - turn
                [] OTHER -> 0
AnswerLeft == IF phase = "turn" THEN 1 ELSE 0
CallsLeft  == CASE phase = "tools" -> Len(pending)
                [] phase \in {"warmup", "seed"} -> Len(Opening) - written
                [] OTHER -> 0

\* Less is left, in this order: a response may hold any number of calls.
Advances ==
    \/ CasesLeft' < CasesLeft
    \/ CasesLeft' = CasesLeft /\ TurnsLeft' < TurnsLeft
    \/ CasesLeft' = CasesLeft /\ TurnsLeft' = TurnsLeft /\ AnswerLeft' < AnswerLeft
    \/ /\ CasesLeft' = CasesLeft /\ TurnsLeft' = TurnsLeft /\ AnswerLeft' = AnswerLeft
       /\ CallsLeft' < CallsLeft

\* The rows answer the request in its order; no call is made after the last turn.
InBudget ==
    /\ suite \in Suites
    /\ IsASequence(rows)
    /\ \A n \in 1 .. Len(rows) : rows[n].case = suite[n]
    /\ phase \in {"start", "warmup", "case", "seed", "turn", "tools", "finished", "crashed"}
    /\ phase \in {"start", "warmup"} => rows = <<>>
    /\ phase \in {"case", "seed", "turn", "tools"} => Len(rows) < Len(suite)
    /\ phase = "finished" => Len(rows) = Len(suite)
    /\ phase = "crashed" => Len(rows) <= Len(suite)
    /\ phase \in {"warmup", "seed"} => written \in 0 .. Len(Opening)
    /\ phase = "turn" => turn \in 1 .. (MaxTurns + 1)
    /\ phase = "tools" => turn \in 1 .. MaxTurns

LEMMA BudgetNumbers ==
    ASSUME InBudget, Loaded
    PROVE  /\ Len(suite) \in Nat /\ Len(rows) \in Nat /\ MaxTurns \in Nat /\ MaxTurns >= 1
           /\ CasesLeft \in Nat /\ TurnsLeft \in Nat /\ AnswerLeft \in Nat /\ CallsLeft \in Nat
<1>1. suite \in Seq(STRING) /\ suite # <<>>
  BY AgentAssumption, SuitesAssumption DEF AgentAssumption, InBudget
<1>2. PICK S : rows \in Seq(S)
  BY DEF InBudget, IsASequence
<1>3. MaxTurns \in Nat /\ MaxTurns >= 1
  BY AgentAssumption DEF AgentAssumption
<1>4. Len(suite) \in Nat /\ Len(rows) \in Nat
  BY <1>1, <1>2
<1>5. Len(rows) <= Len(suite)
  <2>1. CASE phase \in {"start", "warmup"}
    <3>1. Len(rows) = 0
      BY <2>1 DEF InBudget
    <3>2. QED BY <1>4, <3>1
  <2>2. CASE phase \notin {"start", "warmup"}
    BY <1>4, <2>2 DEF InBudget
  <2>3. QED BY <2>1, <2>2
<1>6. CasesLeft \in Nat
  BY <1>4, <1>5 DEF CasesLeft
<1>7. TurnsLeft \in Nat
  <2>1. CASE phase \in {"turn", "tools"}
    <3>1. turn \in 1 .. (MaxTurns + 1)
      BY <1>3, <2>1 DEF InBudget
    <3>2. TurnsLeft = MaxTurns + 1 - turn
      BY <2>1 DEF TurnsLeft
    <3>3. QED BY <1>3, <3>1, <3>2
  <2>2. CASE phase \notin {"turn", "tools"}
    BY <1>3, <2>2 DEF TurnsLeft
  <2>3. QED BY <2>1, <2>2
<1>8. AnswerLeft \in Nat
  BY DEF AnswerLeft
<1>9. CallsLeft \in Nat
  <2>1. CASE phase = "tools"
    <3>1. pending \in Seq(ToolCalls)
      BY <2>1 DEF Loaded
    <3>2. QED BY <2>1, <3>1 DEF CallsLeft
  <2>2. CASE phase \in {"warmup", "seed"}
    <3>1. written \in 0 .. Len(Opening) /\ Len(Opening) \in Nat
      BY <2>2, AgentAssumption, OpeningIsOwned DEF InBudget
    <3>2. CallsLeft = Len(Opening) - written
      BY <2>2 DEF CallsLeft
    <3>3. QED BY <3>1, <3>2
  <2>3. CASE phase \notin {"warmup", "seed", "tools"}
    BY <2>3 DEF CallsLeft
  <2>4. QED BY <2>1, <2>2, <2>3
<1>10. QED BY <1>3, <1>4, <1>6, <1>7, <1>8, <1>9

\* A row for the case at hand, with whatever verdict.
LEMMA ReportAdvances ==
    ASSUME InBudget, Loaded, phase \in {"case", "turn", "tools"}, suite' = suite,
           NEW STATE row, row.case = Current, Report(row)
    PROVE  InBudget' /\ Advances
<1>1. PICK S : rows \in Seq(S)
  BY DEF InBudget, IsASequence
<1>2. rows' = Append(rows, row) /\ phase' = IF Len(rows) + 1 = Len(suite) THEN "finished" ELSE "case"
  BY DEF Report
<1>3. rows \in Seq(S \cup {row})
  BY <1>1
<1>4. /\ rows' \in Seq(S \cup {row}) /\ Len(rows') = Len(rows) + 1
      /\ rows'[Len(rows) + 1] = row /\ \A n \in 1 .. Len(rows) : rows'[n] = rows[n]
  BY <1>2, <1>3
<1>5. Len(suite) \in Nat /\ Len(rows) \in Nat /\ Len(rows) < Len(suite)
  BY BudgetNumbers DEF InBudget
<1>6. \A n \in 1 .. Len(rows') : rows'[n].case = suite[n]
  <2>1. \A n \in 1 .. Len(rows') : n = Len(rows) + 1 \/ n \in 1 .. Len(rows)
    BY <1>4, <1>5
  <2>2. rows'[Len(rows) + 1].case = suite[Len(rows) + 1]
    BY <1>4 DEF Current
  <2>3. \A n \in 1 .. Len(rows) : rows[n].case = suite[n]
    BY DEF InBudget
  <2>4. QED BY <1>4, <2>1, <2>2, <2>3
<1>7. CasesLeft' < CasesLeft
  BY <1>4, <1>5 DEF CasesLeft
<1>8. /\ phase' \in {"finished", "case"}
      /\ phase' = "finished" => Len(rows') = Len(suite)
      /\ phase' = "case" => Len(rows') < Len(suite)
  BY <1>2, <1>4, <1>5
<1>9. InBudget'
  BY <1>4, <1>6, <1>8 DEF InBudget, IsASequence
<1>10. QED BY <1>7, <1>9 DEF Advances

LEMMA EndAdvances ==
    ASSUME InBudget, Loaded, phase = "turn", NEW STATE how, NEW STATE ids, EndOperation(how, ids)
    PROVE  InBudget' /\ Advances
<1>1. suite' = suite
  BY DEF EndOperation
<1>2. CASE Current = "forget-derived"
  <2> DEFINE seen == Verified(ids)
             row == Row(TRUE, Evaluate(Current, ids # <<>>, seen.result.ids), seen.result.ids, how)
  <2>1. Report(row)
    BY <1>2 DEF EndOperation
  <2>2. row.case = Current
    BY DEF Row
  <2> HIDE DEF row
  <2>3. QED BY <1>1, <2>1, <2>2, ReportAdvances
<1>3. CASE Current # "forget-derived"
  <2> DEFINE row == Row(TRUE, Evaluate(Current, TRUE, ids), ids, how)
  <2>1. Report(row)
    BY <1>3 DEF EndOperation
  <2>2. row.case = Current
    BY DEF Row
  <2> HIDE DEF row
  <2>3. QED BY <1>1, <2>1, <2>2, ReportAdvances
<1>4. QED BY <1>2, <1>3

\* The probe, and a case that is opened: nothing is written yet.
LEMMA FreshAdvances ==
    ASSUME InBudget, Loaded, Start \/ Open
    PROVE  InBudget' /\ Advances
<1>0. /\ Len(suite) \in Nat /\ Len(rows) \in Nat /\ MaxTurns \in Nat
  BY BudgetNumbers
<1>1. /\ \/ phase = "start" /\ phase' = "warmup"
         \/ phase = "case" /\ phase' = "seed"
      /\ written' = 0 /\ UNCHANGED <<suite, rows>>
  BY DEF Start, Open, Fresh
<1>2. Len(Opening') \in Nat
  <2>1. Current' = Current
    BY <1>1 DEF Current
  <2>2. Opening' = Seed \o <<>> \/ Opening' = Seed \o Prelude(Current)
    BY <2>1 DEF Opening
  <2>3. Seed \o <<>> \in Seq(Owned) /\ Seed \o Prelude(Current) \in Seq(Owned)
    BY AgentAssumption, OpeningIsOwned
  <2>4. Opening' \in Seq(Owned)
    BY <2>2, <2>3
  <2>5. QED BY <2>4
<1>3. InBudget'
  <2>1. written' \in 0 .. Len(Opening')
    BY <1>1, <1>2
  <2>2. QED BY <1>1, <2>1 DEF InBudget, IsASequence
<1>4. CasesLeft' = CasesLeft
  BY <1>1 DEF CasesLeft
<1>5. TurnsLeft' < TurnsLeft
  BY <1>0, <1>1 DEF TurnsLeft
<1>6. QED BY <1>3, <1>4, <1>5 DEF Advances

\* A write of the harness, and the end of them.
LEMMA OpeningAdvances ==
    ASSUME InBudget, Loaded, WriteNext \/ Ready
    PROVE  InBudget' /\ Advances
<1>0. /\ Len(suite) \in Nat /\ Len(rows) \in Nat /\ MaxTurns \in Nat /\ MaxTurns >= 1
      /\ suite # <<>> /\ suite \in Seq(STRING)
  BY BudgetNumbers, AgentAssumption, SuitesAssumption DEF AgentAssumption, InBudget
<1>1. CASE WriteNext
  <2>1. /\ phase \in {"warmup", "seed"} /\ written < Len(Opening) /\ written' = written + 1
        /\ UNCHANGED <<suite, phase, rows, turn>>
    BY <1>1 DEF WriteNext
  <2>2. written \in 0 .. Len(Opening) /\ Len(Opening) \in Nat
    BY <2>1, AgentAssumption, OpeningIsOwned DEF InBudget
  <2>3. Opening' = Opening
    BY <2>1 DEF Opening, Current
  <2>4. written' \in 0 .. Len(Opening') /\ Len(Opening) - written' < Len(Opening) - written
    BY <2>1, <2>2, <2>3
  <2>5. InBudget'
    BY <2>1, <2>4 DEF InBudget, IsASequence
  <2>6. CasesLeft' = CasesLeft /\ TurnsLeft' = TurnsLeft /\ AnswerLeft' = AnswerLeft
    BY <2>1 DEF CasesLeft, TurnsLeft, AnswerLeft
  <2>7. CallsLeft = Len(Opening) - written /\ CallsLeft' = Len(Opening) - written'
    BY <2>1, <2>3 DEF CallsLeft
  <2>8. QED BY <2>4, <2>5, <2>6, <2>7 DEF Advances
<1>2. CASE Ready
  <2>1. /\ \/ phase = "warmup" /\ phase' = "case"
           \/ phase = "seed" /\ phase' = "turn" /\ turn' = 1
        /\ UNCHANGED <<suite, rows>>
    BY <1>2 DEF Ready
  <2>2. Len(rows) < Len(suite)
    <3>1. CASE phase = "warmup"
      BY <1>0, <3>1 DEF InBudget
    <3>2. CASE phase = "seed"
      BY <3>2 DEF InBudget
    <3>3. QED BY <2>1, <3>1, <3>2
  <2>3. InBudget'
    BY <1>0, <2>1, <2>2 DEF InBudget, IsASequence
  <2>4. CasesLeft' = CasesLeft
    BY <2>1 DEF CasesLeft
  <2>5. TurnsLeft' < TurnsLeft
    BY <1>0, <2>1 DEF TurnsLeft
  <2>6. QED BY <2>3, <2>4, <2>5 DEF Advances
<1>3. QED BY <1>1, <1>2

\* A process that ends has nothing left to do.
LEMMA CrashAdvances ==
    ASSUME InBudget, Loaded, BackendRaises \/ Garbled
    PROVE  InBudget' /\ Advances
<1>0. /\ Len(suite) \in Nat /\ Len(rows) \in Nat /\ MaxTurns \in Nat /\ MaxTurns >= 1
      /\ suite # <<>> /\ suite \in Seq(STRING)
  BY BudgetNumbers, AgentAssumption, SuitesAssumption DEF AgentAssumption, InBudget
<1>1. /\ phase' = "crashed" /\ UNCHANGED <<suite, rows>>
      /\ \/ phase \in {"start", "warmup", "case", "seed"}
         \/ phase = "turn" /\ turn <= MaxTurns
         \/ phase = "tools"
  BY DEF BackendRaises, Garbled, Crashed, InBounds
<1>2. Len(rows) <= Len(suite)
  <2>1. phase \in {"start", "warmup"} => Len(rows) = 0
    BY DEF InBudget
  <2>2. QED BY <1>0, <1>1, <2>1 DEF InBudget
<1>3. InBudget'
  BY <1>1, <1>2 DEF InBudget, IsASequence
<1>4. CasesLeft' = CasesLeft
  BY <1>1 DEF CasesLeft
<1>5. TurnsLeft' = 0
  BY <1>1 DEF TurnsLeft
<1>6. TurnsLeft >= 1
  <2>1. CASE phase \in {"turn", "tools"}
    <3>1. turn \in 1 .. (MaxTurns + 1) /\ turn <= MaxTurns
      BY <1>0, <1>1, <2>1 DEF InBudget
    <3>2. TurnsLeft = MaxTurns + 1 - turn
      BY <2>1 DEF TurnsLeft
    <3>3. QED BY <1>0, <3>1, <3>2
  <2>2. CASE phase \in {"start", "warmup", "case", "seed"}
    BY <1>0, <2>2 DEF TurnsLeft
  <2>3. QED BY <1>1, <2>1, <2>2
<1>7. TurnsLeft' < TurnsLeft
  BY <1>5, <1>6, BudgetNumbers
<1>8. QED BY <1>3, <1>4, <1>7 DEF Advances

\* Every step of the driver, the loop and the tools leaves less.
LEMMA StepAdvances == ASSUME InBudget, Loaded, Next PROVE InBudget' /\ Advances
<1>0. /\ Len(suite) \in Nat /\ Len(rows) \in Nat /\ MaxTurns \in Nat /\ MaxTurns >= 1
      /\ suite # <<>> /\ suite \in Seq(STRING)
  BY BudgetNumbers, AgentAssumption, SuitesAssumption DEF AgentAssumption, InBudget
<1>1. CASE Start \/ Open
  BY <1>1, FreshAdvances
<1>2. CASE Decline
  <2> DEFINE row == Row(FALSE, FALSE, <<>>, "declined")
  <2>1. phase = "case" /\ Report(row) /\ suite' = suite /\ row.case = Current
    BY <1>2 DEF Decline, Row
  <2> HIDE DEF row
  <2>2. QED BY <2>1, ReportAdvances
<1>3. CASE WriteNext \/ Ready \/ BackendRaises \/ Garbled
  BY <1>3, OpeningAdvances, CrashAdvances
<1>4. CASE Overrun
  BY <1>4, EndAdvances DEF Overrun
<1>5. CASE TransportFails
  BY <1>5, EndAdvances DEF TransportFails, InBounds
<1>6. ASSUME NEW content \in Contents, Answer(content) PROVE InBudget' /\ Advances
  BY <1>6, EndAdvances DEF Answer, InBounds
<1>7. ASSUME NEW calls \in Responses, Respond(calls) PROVE InBudget' /\ Advances
  <2>1. phase = "turn" /\ turn <= MaxTurns /\ phase' = "tools" /\ UNCHANGED <<suite, rows, turn>>
    BY <1>7 DEF Respond, InBounds
  <2>2. turn \in 1 .. (MaxTurns + 1)
    BY <2>1 DEF InBudget
  <2>3. turn' \in 1 .. MaxTurns
    BY <1>0, <2>1, <2>2
  <2>4. InBudget'
    BY <2>1, <2>3 DEF InBudget, IsASequence
  <2>5. CasesLeft' = CasesLeft /\ TurnsLeft' = TurnsLeft
    BY <2>1 DEF CasesLeft, TurnsLeft
  <2>6. AnswerLeft = 1 /\ AnswerLeft' = 0
    BY <2>1 DEF AnswerLeft
  <2>7. QED BY <2>4, <2>5, <2>6 DEF Advances
<1>8. CASE Dispatch
  <2>1. phase = "tools" /\ pending' = Tail(pending) /\ UNCHANGED <<suite, rows>>
    BY <1>8 DEF Dispatch
  <2>2. turn \in 1 .. MaxTurns /\ pending \in Seq(ToolCalls) /\ pending # <<>>
    BY <2>1 DEF InBudget, Loaded
  <2>3. CasesLeft' = CasesLeft
    BY <2>1 DEF CasesLeft
  <2>4. CASE Len(pending) = 1
    <3>1. phase' = "turn" /\ turn' = turn + 1
      BY <1>8, <2>4 DEF Dispatch
    <3>2. turn' \in 1 .. (MaxTurns + 1)
      BY <1>0, <2>2, <3>1
    <3>3. InBudget'
      BY <2>1, <3>1, <3>2 DEF InBudget, IsASequence
    <3>4. TurnsLeft = MaxTurns + 1 - turn /\ TurnsLeft' = MaxTurns + 1 - (turn + 1)
      BY <2>1, <3>1 DEF TurnsLeft
    <3>5. TurnsLeft' < TurnsLeft
      BY <1>0, <2>2, <3>4
    <3>6. QED BY <2>3, <3>3, <3>5 DEF Advances
  <2>5. CASE Len(pending) # 1
    <3>1. phase' = "tools" /\ turn' = turn
      BY <1>8, <2>1, <2>5 DEF Dispatch
    <3>2. InBudget'
      BY <2>1, <2>2, <3>1 DEF InBudget, IsASequence
    <3>3. TurnsLeft' = TurnsLeft /\ AnswerLeft' = AnswerLeft
      BY <2>1, <3>1 DEF TurnsLeft, AnswerLeft
    <3>4. CallsLeft = Len(pending) /\ CallsLeft' = Len(Tail(pending))
      BY <2>1, <3>1 DEF CallsLeft
    <3>5. Len(Tail(pending)) < Len(pending)
      BY <2>2
    <3>6. CallsLeft' < CallsLeft
      BY <3>4, <3>5
    <3>7. QED BY <2>3, <3>2, <3>3, <3>6 DEF Advances
  <2>6. QED BY <2>4, <2>5
<1>9. QED BY <1>1, <1>2, <1>3, <1>4, <1>5, <1>6, <1>7, <1>8 DEF Next

LEMMA InBudgetHolds == Spec => []InBudget
<1>1. Init => InBudget
  <2> SUFFICES ASSUME Init PROVE InBudget
    OBVIOUS
  <2>1. suite \in Suites /\ rows = <<>> /\ phase = "start" /\ rows \in Seq({}) /\ Len(rows) = 0
    BY DEF Init
  <2>2. QED BY <2>1 DEF InBudget, IsASequence
<1>2. InBudget /\ Loaded /\ [Next]_vars => InBudget'
  <2>1. ASSUME InBudget, UNCHANGED vars PROVE InBudget'
    BY <2>1 DEF InBudget, IsASequence, Opening, Current, vars
  <2>2. QED BY <2>1, StepAdvances
<1>3. ForgetInv => Loaded
  BY DEF ForgetInv
<1>4. QED BY <1>1, <1>2, <1>3, ForgetInvHolds, PTL DEF Spec

\* The track ends, whatever the model answers, calls and leaves out, for both budgets
\* and every request: every step leaves fewer cases, or fewer turns of the operation,
\* or no answer to wait for, or fewer calls of the response and fewer writes of the
\* harness (loop.py, run_operation).
THEOREM TrackAdvances ==
    Spec => /\ [](/\ CasesLeft \in Nat /\ TurnsLeft \in Nat
                  /\ AnswerLeft \in Nat /\ CallsLeft \in Nat)
            /\ [][Advances]_vars
<1>1. ForgetInv => Loaded
  BY DEF ForgetInv
<1>2. InBudget /\ Loaded => /\ CasesLeft \in Nat /\ TurnsLeft \in Nat
                           /\ AnswerLeft \in Nat /\ CallsLeft \in Nat
  BY BudgetNumbers
<1>3. InBudget /\ Loaded /\ [Next]_vars => [Advances]_vars
  BY StepAdvances
<1>4. QED BY <1>1, <1>2, <1>3, InBudgetHolds, ForgetInvHolds, PTL DEF Spec

\* A finished track has one row for every requested case, in the order of the request;
\* no case is lost to a budget, a failed request or a final answer that is not one
\* (driver.py, main).  A response without a message ends the process instead.
THEOREM TrackIsComplete ==
    Spec => [](phase = "finished" => /\ Len(rows) = Len(suite)
                                     /\ \A n \in 1 .. Len(suite) : rows[n].case = suite[n])
<1>1. InBudget => (phase = "finished" => /\ Len(rows) = Len(suite)
                                         /\ \A n \in 1 .. Len(suite) : rows[n].case = suite[n])
  BY DEF InBudget
<1>2. QED BY <1>1, InBudgetHolds, PTL
=============================================================================
