----------------------------- MODULE AgentTrack -----------------------------
(***************************************************************************)
(* The agent-memory track: agent_harness/driver.py replays the cases that   *)
(* the shared tools can express, loop.py lets a model work on each of them, *)
(* tools.py hands the model's calls to a backend, and the backends of       *)
(* adapters/agent_backends answer them.                                     *)
(*                                                                          *)
(* The model is external: in every turn it may call any tools, answer       *)
(* anything, or not be reachable.  A text is the set of its words, the      *)
(* transcript is measured in tool results.  The reference backend stands    *)
(* for the vault of module AuthVault, reduced to what these tools reach.    *)
(* A backend that is not of the repository need not be reliable: it may     *)
(* refuse any write or delete, and raise before or after the effect.        *)
(***************************************************************************)
EXTENDS Naturals, Sequences, FiniteSets, SequencesExt

CONSTANTS
    Backends,       \* [name, caps, opens, reliable]: what opens a session, and
                    \* whether the backend does what it is asked to
    Suites,         \* the requests
    Corpus,         \* SEED and what the scenarios write, by identifier
    SeedOrder,      \* the identifiers of SEED
    Expected,       \* what a case expects
    Queries,        \* the words of a case's query
    Responses,      \* the tool calls a model may answer with
    Contents,       \* the final answers a model may give
    MaxTurns, MaxTranscript, MaxIds, MaxRead

\* The calls of a model, what it may write with them, and every text there may be.
ToolCalls == UNION {Range(calls) : calls \in Responses}
Writes == {call.memory : call \in {c \in ToolCalls : c.tool = "write"}}
Texts  == {Corpus[id] : id \in DOMAIN Corpus} \cup Writes
Now    == 2
NoId   == "no-id"      \* the empty identifier
Clearance(p) == IF p = "operator" THEN 3 ELSE 1
PRINCIPALS   == {"operator", "analyst", "outsider", "advertiser"}

\* Ranks are the alphabetical order of identifiers.  Only marciana tracks what was
\* derived; forget-derived asks for the fact and the summary, which match its query.
ASSUME AgentAssumption ==
    /\ MaxTurns \in Nat \ {0} /\ MaxTranscript \in Nat /\ MaxIds \in Nat /\ MaxRead \in Nat
    /\ \A suite \in Suites : suite \in Seq(STRING)
    /\ \A b \in Backends : /\ b.opens \in {"secret", "anything"}
                           /\ b.name # "marciana-agent" => "derived-tracking" \notin b.caps
                           /\ b.name \in {"marciana-agent", "memfs-agent"} => b.reliable
    /\ \A calls \in Responses : calls # <<>> /\ calls \in Seq(Range(calls))
    /\ SeedOrder \in Seq(DOMAIN Corpus) /\ {"prompt-injection", "summary"} \subseteq DOMAIN Corpus
    /\ \A id \in DOMAIN Corpus : /\ Corpus[id].id = id /\ id # NoId
                                 /\ Corpus[id].level <= Clearance("operator")
    /\ Corpus["prompt-injection"].level <= Clearance("analyst")
    /\ \A m \in Texts : m.rank \in Nat /\ {"id", "rank", "derived", "forgotten"} \subseteq DOMAIN m
    /\ \A m, n \in Texts : m.rank = n.rank <=> m.id = n.id
    /\ IsFiniteSet(Queries["forget-derived"])
    /\ \A id \in {"price-current", "summary"} :
          /\ id \in DOMAIN Corpus /\ id \in Expected["forget-derived"].forbidden
          /\ Corpus[id].words \cap Queries["forget-derived"] # {} /\ ~ Corpus[id].forgotten
          /\ Corpus[id].level <= 3 /\ Corpus[id].from <= Now /\ Now < Corpus[id].until

\* A request names a case: the runner asks for the whole track.
ASSUME SuitesAssumption == \A suite \in Suites : suite # <<>>

VARIABLES
    backend,    \* the backend under test
    suite,      \* request["cases"]
    phase,      \* start, warmup, case, seed, turn, tools, finished or crashed
    check,      \* authorization_check
    written,    \* how many of the harness's own writes are done
    refused,    \* history: those of them that were refused
    store,      \* the memories the backend holds
    nonce,      \* _nonce: the number of requests to the vault
    spent,      \* the nonces the vault has seen
    turn,       \* the turn of the operation
    chars,      \* the length of its transcript
    pending,    \* the calls of the last response that are not yet dispatched
    result,     \* what the last call returned
    rows        \* the rows of the cases that are done

vars == <<backend, suite, phase, check, written, refused, store, nonce, spent, turn, chars, pending, result, rows>>

Authorization == {"isolation", "clearance", "purpose"}

Requirements(c) ==
    CASE c = "retrieval-current"   -> {"retrieval"}
      [] c = "temporal-history"    -> {"temporal"}
      [] c = "abstain-unknown"     -> {"abstention"}
      [] c \in {"isolation-tenant", "confusable-query", "injection-contained"} -> {"isolation"}
      [] c = "isolation-clearance" -> {"clearance"}
      [] c = "purpose-denial"      -> {"purpose"}
      [] c = "forget-derived"      -> {"forget", "derived-tracking"}
      [] c = "malformed-empty"     -> {"retrieval"}
      [] OTHER -> {}      \* not expressible

Expressible == {"retrieval-current", "temporal-history", "abstain-unknown", "isolation-tenant",
                "isolation-clearance", "purpose-denial", "forget-derived", "malformed-empty",
                "confusable-query", "injection-contained"}
Supported(c) == c \in Expressible /\ Requirements(c) \subseteq backend.caps
Voided(c) == check = "failed-negative-probe" /\ Requirements(c) \cap Authorization # {}

\* The principal whose session a case runs under.
Principal(c) ==
    CASE c = "isolation-tenant" -> "outsider"
      [] c \in {"isolation-clearance", "confusable-query", "injection-contained"} -> "analyst"
      [] c = "purpose-denial"   -> "advertiser"
      [] OTHER                  -> "operator"
-----------------------------------------------------------------------------
(* The backends: marciana asks the vault, memfs and any other hold a flat store. *)

Flat == backend.name # "marciana-agent"
Authorized(m, p) == p \notin {"outsider", "advertiser"} /\ m.level <= Clearance(p)
Valid(m, date) == m.from <= date /\ date < m.until

Put(m) == {x \in store : x.id # m.id} \cup {m}
Score(m, words) == Cardinality(m.words \cap words)
Matching(p, words, date) ==
    {m \in store : /\ Score(m, words) > 0
                   /\ Flat \/ (~ m.forgotten /\ Authorized(m, p) /\ Valid(m, date))}
\* sorted(key=(-score, memory_id)): the i-th memory has i - 1 others before it.
Precedes(m, n, words) == \/ Score(m, words) > Score(n, words)
                         \/ Score(m, words) = Score(n, words) /\ m.rank < n.rank
Ranked(p, words, date) ==
    LET all == Matching(p, words, date)
    IN [i \in 1 .. Cardinality(all) |->
            CHOOSE m \in all : Cardinality({x \in all : Precedes(x, m, words)}) = i - 1]
Names(memories) == [i \in DOMAIN memories |-> memories[i].id]
\* memfs answers with the first MaxRead.
Shown(ids) == IF Flat THEN SubSeq(ids, 1, IF Len(ids) < MaxRead THEN Len(ids) ELSE MaxRead) ELSE ids

\* Every request of the marciana backend spends the next nonce of its principal;
\* one that was seen is refused.
Claimed(p) == Flat \/ <<p, nonce + 1>> \notin spent
Result(tool, p, ok, ids) == [tool |-> tool, by |-> p, ok |-> ok, ids |-> ids]
Reply(tool, p, ok, ids, held) ==
    [result |-> Result(tool, p, ok, ids), store |-> held,
     nonce |-> IF Flat THEN nonce ELSE nonce + 1,
     spent |-> IF Flat THEN spent ELSE spent \cup {<<p, nonce + 1>>}]

Write(p, m) ==
    LET granted == IF Flat THEN m.id # NoId ELSE Claimed(p) /\ p # "outsider" /\ m.level <= Clearance(p)
    IN Reply("write", p, granted, IF Flat /\ granted THEN <<m.id>> ELSE <<>>, IF granted THEN Put(m) ELSE store)
Read(p, words, date) ==
    Reply("read", p, Claimed(p), IF Claimed(p) THEN Shown(Names(Ranked(p, words, date))) ELSE <<>>, store)
Gone(id) == IF Flat THEN {x \in store : x.id # id}
            ELSE {[x EXCEPT !.forgotten = @ \/ x.id = id \/ id \in x.derived] : x \in store}
Delete(p, id) ==
    LET granted == Claimed(p) /\ \E m \in store : m.id = id /\ (Flat \/ Authorized(m, p))
    IN Reply("delete", p, granted, IF granted THEN <<id>> ELSE <<>>, IF granted THEN Gone(id) ELSE store)
\* marciana lists by a recall of the empty query.
List(p) ==
    IF Flat THEN Reply("list", p, TRUE, SetToSeq({m.id : m \in store}), store)
    ELSE Reply("list", p, TRUE, Names(Ranked(p, {}, Now)), store)

\* What may become of a call: one that is refused or raises may have had its effect.
Outcomes(did) ==
    {did} \cup IF backend.reliable THEN {}
               ELSE {[did EXCEPT !.result.ok = FALSE, !.result.ids = <<>>, !.store = held] :
                        held \in {store, did.store}}

\* dispatch_tool: the model's writes carry an identifier and a text, no more; a
\* tool that does not exist and arguments that cannot be read are answered so.
Dispatched(p, call) ==
    CASE call.tool = "write"  -> Write(p, call.memory)
      [] call.tool = "read"   -> Read(p, call.words, call.date)
      [] call.tool = "delete" -> Delete(p, call.id)
      [] call.tool = "list"   -> List(p)
      [] OTHER -> [result |-> Result("unknown", p, FALSE, <<>>), store |-> store,
                   nonce |-> nonce, spent |-> spent]
-----------------------------------------------------------------------------
(* A fresh backend: reset, provision with the probe, seed; then what the      *)
(* scenario writes before the model gets to work.                            *)

Probe == IF backend.caps \cap Authorization = {} THEN "not-applicable"
         ELSE IF backend.opens = "anything" THEN "failed-negative-probe" ELSE "passed"

By(p, id) == [by |-> p, memory |-> Corpus[id]]
Seed == [i \in DOMAIN SeedOrder |-> By("operator", SeedOrder[i])]
Prelude(c) == CASE c = "injection-contained" -> <<By("analyst", "prompt-injection")>>
                [] c = "forget-derived"      -> <<By("operator", "summary")>>
                [] OTHER                     -> <<>>

\* A wrong variant: the vault lives on, and the count of its requests restarts.
Reset_OldVault == store' = {} /\ nonce' = 0 /\ UNCHANGED spent
\* A wrong variant: what the last case left is still there.
Reset_Nothing == UNCHANGED <<store, nonce, spent>>
\* The vault is new, so are its nonces.
Reset == store' = {} /\ nonce' = 0 /\ spent' = {}

NoResult == Result("none", "nobody", FALSE, <<>>)
Idle == turn' = 0 /\ chars' = 0 /\ pending' = <<>> /\ result' = NoResult

Init ==
    /\ backend \in Backends /\ suite \in Suites /\ phase = "start" /\ check = "not-applicable"
    /\ store = {} /\ nonce = 0 /\ spent = {} /\ rows = <<>> /\ written = 0 /\ refused = {}
    /\ turn = 0 /\ chars = 0 /\ pending = <<>> /\ result = NoResult

Current == suite[Len(rows) + 1]
Row(supported, correct, ids, how) ==
    [case |-> Current, supported |-> supported, correct |-> correct, ids |-> ids, how |-> how]
Report(row) ==
    /\ rows' = Append(rows, row)
    /\ phase' = IF Len(rows) + 1 = Len(suite) THEN "finished" ELSE "case"

\* A wrong variant: the probe is left to the first case that opens a backend.
Start_NoProbe ==
    /\ phase = "start" /\ phase' = "case" /\ Idle
    /\ UNCHANGED <<backend, suite, check, written, refused, store, nonce, spent, rows>>
\* The verdict of the probe is there before the first case.
Fresh == /\ Reset /\ check' = Probe /\ written' = 0 /\ refused' = {}
         /\ Idle /\ UNCHANGED <<backend, suite, rows>>
Start == phase = "start" /\ phase' = "warmup" /\ Fresh

Decline ==
    /\ phase = "case" /\ (~ Supported(Current) \/ Voided(Current))
    /\ Report(Row(FALSE, FALSE, <<>>, "declined")) /\ Idle
    /\ UNCHANGED <<backend, suite, check, written, refused, store, nonce, spent>>

WorkedOn == Supported(Current) /\ ~ Voided(Current)
Open == phase = "case" /\ WorkedOn /\ phase' = "seed" /\ Fresh

\* The harness's own writes; nobody looks at what they answer.
Opening == Seed \o IF phase = "warmup" THEN <<>> ELSE Prelude(Current)
WriteNext ==
    /\ phase \in {"warmup", "seed"} /\ written < Len(Opening)
    /\ LET next == Opening[written + 1]
       IN \E did \in Outcomes(Write(next.by, next.memory)) :
             /\ store' = did.store /\ nonce' = did.nonce /\ spent' = did.spent
             /\ refused' = IF did.result.ok THEN refused ELSE refused \cup {next.memory}
    /\ written' = written + 1
    /\ UNCHANGED <<backend, suite, phase, check, turn, chars, pending, result, rows>>
Ready ==
    /\ phase \in {"warmup", "seed"} /\ written = Len(Opening)
    /\ IF phase = "warmup" THEN phase' = "case" /\ UNCHANGED turn ELSE phase' = "turn" /\ turn' = 1
    /\ UNCHANGED <<backend, suite, check, written, refused, store, nonce, spent, chars, pending, result, rows>>

Crashed == /\ phase' = "crashed"
           /\ UNCHANGED <<backend, suite, check, written, refused, store, nonce, spent,
                          turn, chars, pending, result, rows>>
\* Outside of a tool call nothing catches an exception of the backend: the process
\* ends, and with it every row.  The restart and the read that verify a forget are
\* asked of reliable backends only.
BackendRaises ==
    /\ ~ backend.reliable /\ phase \in {"start", "warmup", "case", "seed"}
    /\ phase = "case" => WorkedOn
    /\ Crashed
-----------------------------------------------------------------------------
(* The loop *)

\* A whole answer that is an array, or the array in a prose answer; only the
\* first MaxIds items count, and of those only texts and numbers.
ParseFinal(content) ==
    IF content.form \in {"object", "garbage"} THEN <<>>
    ELSE SelectSeq(SubSeq(content.items, 1, IF Len(content.items) < MaxIds
                                            THEN Len(content.items) ELSE MaxIds),
                   LAMBDA item : item # "not-an-id")

Evaluate(c, allowed, ids) ==
    LET want == Expected[c]
    IN /\ allowed = want.allowed
       /\ want.ids # <<>> => Len(ids) >= Len(want.ids) /\ SubSeq(ids, 1, Len(want.ids)) = want.ids
       /\ want.abstain => ids = <<>>
       /\ want.forbidden \cap Range(ids) = {}

\* A wrong variant: the model's word is taken for it.
Verified_ByModel(ids) == [Read("operator", Queries["forget-derived"], Now) EXCEPT !.result.ids = ids]
\* forget-derived is judged by what the store shows after a restart.
Verified(ids) == Read("operator", Queries["forget-derived"], Now)

\* The driver takes the ids of the loop's result and nothing else.
EndOperation(how, ids) ==
    /\ Idle /\ UNCHANGED <<backend, suite, check, written, refused>>
    /\ IF Current = "forget-derived"
       THEN LET seen == Verified(ids)
            IN /\ Report(Row(TRUE, Evaluate(Current, ids # <<>>, seen.result.ids), seen.result.ids, how))
               /\ store' = seen.store /\ nonce' = seen.nonce /\ spent' = seen.spent
       ELSE /\ Report(Row(TRUE, Evaluate(Current, TRUE, ids), ids, how))
            /\ UNCHANGED <<store, nonce, spent>>

Overrun ==
    /\ phase = "turn" /\ (turn > MaxTurns \/ chars > MaxTranscript)
    /\ EndOperation("budget", <<>>)
InBounds == phase = "turn" /\ turn <= MaxTurns /\ chars <= MaxTranscript
TransportFails == InBounds /\ EndOperation("error", <<>>)
Answer(content) == InBounds /\ EndOperation("answered", ParseFinal(content))

Respond(calls) ==
    /\ InBounds /\ phase' = "tools" /\ pending' = calls
    /\ UNCHANGED <<backend, suite, check, written, refused, store, nonce, spent, turn, chars,
                   result, rows>>

\* A message that is null, a call or a function that is not an object: the loop
\* catches exceptions of the transport only.
Garbled == (InBounds \/ phase = "tools") /\ Crashed

\* The last call of a response ends the turn, the last turn the operation.
Dispatch ==
    /\ phase = "tools"
    /\ \E did \in Outcomes(Dispatched(Principal(Current), Head(pending))) :
          store' = did.store /\ nonce' = did.nonce /\ spent' = did.spent /\ result' = did.result
    /\ pending' = Tail(pending) /\ chars' = chars + 1
    /\ IF Len(pending) = 1 THEN phase' = "turn" /\ turn' = turn + 1 ELSE UNCHANGED <<phase, turn>>
    /\ UNCHANGED <<backend, suite, check, written, refused, rows>>

Next ==
    \/ Start \/ Decline \/ Open \/ WriteNext \/ Ready \/ BackendRaises
    \/ Overrun \/ TransportFails \/ Garbled \/ Dispatch
    \/ \E content \in Contents : Answer(content)
    \/ \E calls \in Responses : Respond(calls)

Spec == Init /\ [][Next]_vars
-----------------------------------------------------------------------------
(* What the track promises *)

\* A credited forget left neither the fact nor the summary derived from it in the
\* store, whatever the model did and said: the harness reads the store itself.
ForgetCreditIsReal ==
    phase \in {"case", "finished"} /\ rows # <<>> =>
        LET row == Last(rows)
        IN row.case = "forget-derived" /\ row.correct =>
               \A fact \in {Corpus["price-current"], Corpus["summary"]} : fact \notin store

\* A backend that opened a session for a corrupted secret is credited with no
\* authorization case, from the first case of the request on.
VoidedNeverCredited ==
    backend.opens = "anything" =>
        \A i \in DOMAIN rows : Requirements(rows[i].case) \cap Authorization # {} => ~ rows[i].supported

\* When the model gets to work on a case the backend holds what the harness wrote for
\* it, short of what was refused, and nothing that a model wrote or deleted in an
\* earlier case; a reliable backend refuses none of these writes, although the vault
\* counts each of them as a request (_fresh, _scenario).
FreshStart ==
    phase = "turn" /\ turn = 1 =>
        LET wrote == {w.memory : w \in Range(Seed \o Prelude(Current))}
        IN /\ wrote \ refused \subseteq store /\ store \subseteq wrote
           /\ backend.reliable => refused = {}

\* The vault takes none of the harness's requests for a replay, be it one of its own
\* writes, a call of the model or the read that verifies a forget: every reset that
\* restarts the count of requests also gives the vault a new ledger.
NeverReplayed ==
    phase \in {"warmup", "seed", "turn", "tools"} => \A p \in PRINCIPALS : Claimed(p)

\* loop.py calls a failed request and an exhausted budget recorded outcomes; a
\* row that is credited was answered by the model.
CreditIsAnswered == \A i \in DOMAIN rows : rows[i].correct => rows[i].how = "answered"
=============================================================================
