------------------------------ MODULE MCRunner ------------------------------
(***************************************************************************)
(* Three cases: one with a gate of its own, one with the gate of its        *)
(* category, one without a gate.  Two systems of each version: one driven   *)
(* directly, one that may come through an agent loop.                        *)
(***************************************************************************)
EXTENDS Runner

MCRegistry == <<<<"mem0", "letta">>, <<"mem0", "memfs-agent">>>>
MCSuite    == <<"isolation-tenant", "forged-source", "abstain-unknown">>
MCCategory == "isolation-tenant" :> "authorization" @@ "forged-source" :> "provenance"
              @@ "abstain-unknown" :> "abstention"
MCCaseGates     == "isolation-tenant" :> "cross_scope_leakage"
MCCategoryGates == "authorization" :> "unauthorized_disclosure"
                   @@ "provenance" :> "invalid_provenance_accepted"
                   @@ "reproducibility" :> Receipts
MCPriority == "letta" :> 1 @@ Marciana :> 2 @@ "mem0" :> 3 @@ "memfs-agent" :> 4

Answer(correct, receipt) == [c \in Cases |-> [correct |-> c \in correct, receipt |-> receipt]]
MCReferences == {Answer(Cases, "r1"), Answer(Cases, "r2"),
                 Answer(Cases \ {"abstain-unknown"}, "r1"),
                 Answer(Cases \ {"isolation-tenant"}, "r1")}

Row(c, correct, supported, text) ==
    [case |-> c, correct |-> correct, supported |-> supported, text |-> text]
Good(c) == Row(c, TRUE, TRUE, "bounded")
Full    == [i \in 1 .. 3 |-> Good(MCSuite[i])]
Payload(rows, interface, harness) ==
    [json |-> TRUE, rows |-> rows, interface |-> interface, harness |-> harness, version |-> "v"]

Payloads ==
    {Payload(Full, "direct-api", "absent"), Payload(Full, "absent", "absent"),
     Payload(Full, "agent-loop", "h1"), Payload(Full, "agent-loop", "partial"),
     Payload(Full, "socket", "absent"),
     [Payload(Full, "direct-api", "absent") EXCEPT !.json = FALSE],
     [Payload(Full, "direct-api", "absent") EXCEPT !.version = "mem0"],
     \* in another order, declared unsupported although correct, and wrong
     Payload(<<Row(MCSuite[3], TRUE, FALSE, "bounded"), Row(MCSuite[1], FALSE, TRUE, "bounded"),
               Good(MCSuite[2])>>, "direct-api", "absent"),
     \* a case too few, a case reported twice, a row without a field, a long text
     Payload(Tail(Full), "direct-api", "absent"),
     Payload(Append(Full, Row(MCSuite[1], FALSE, TRUE, "bounded")), "agent-loop", "h2"),
     Payload([Full EXCEPT ![2] = Row(MCSuite[2], TRUE, TRUE, "missing")], "direct-api", "absent"),
     Payload([Full EXCEPT ![2] = Row(MCSuite[2], TRUE, TRUE, "unbounded")], "direct-api", "absent")}

Failures == {[ended |-> "unconfigured"], [ended |-> "failed"],
             [ended |-> "timeout", stderr |-> FALSE], [ended |-> "timeout", stderr |-> TRUE]}
MCProcesses == Failures \cup {[ended |-> "printed", payload |-> p] : p \in Payloads}

\* Two invocations after each other, over fewer systems, endings and answers.
FewProcesses  == {[ended |-> "timeout", stderr |-> TRUE]}
                 \cup {[ended |-> "printed", payload |-> Payload([Full EXCEPT ![2] = Row(MCSuite[2], TRUE, TRUE, text)],
                                                             "direct-api", "absent")] : text \in {"bounded", "unbounded"}}
FewReferences == {Answer(Cases, "r1"), Answer(Cases \ {"isolation-tenant"}, "r2")}
FewSelections == {{Marciana, "mem0"}, {"mem0", "letta"}}

All(v) == {Marciana} \cup Range(MCRegistry[v])
MCSelections == {All(1), All(2), {"mem0"}}
============================================================================
