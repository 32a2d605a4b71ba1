------------------------------ MODULE MCDriver ------------------------------
(***************************************************************************)
(* Small instances of Driver: all cases, two to a request, over systems    *)
(* that differ in what they claim and how they authenticate, and a corpus  *)
(* of three memories.                                                      *)
(***************************************************************************)
EXTENDS Driver

Full == {"temporal", "retrieval", "supersession", "abstention", "isolation",
         "clearance", "purpose", "provenance", "replay-protection",
         "idempotency", "forget", "derived-tracking", "persistence"}

System(claims, inexpressible, surface, tail) ==
    [claims |-> claims, inexpressible |-> inexpressible, surface |-> surface,
     tail |-> tail]

MCSystems ==
    {System(Full, {}, "genuine", "k"),
     System(Full, {}, "genuine", "x"),
     System(Full, {}, "lax", "k"),
     System(Full, {"improve", "restart"}, "none", "k"),
     System({"retrieval", "persistence"}, {"recall"}, "none", "k")}

MCSuites ==
    {<<"replay-mutation", "replay-restart">>,
     <<"injection-contained", "forget-derived">>,
     <<"forged-source", "isolation-clearance">>,
     <<"stale-proposal", "idempotent-retry">>,
     <<"purpose-denial", "restart-reproducible">>,
     <<"order-invariant", "oversized-query">>,
     <<"retrieval-current", "temporal-history">>,
     <<"abstain-unknown", "isolation-tenant">>,
     <<"malformed-empty", "confusable-query">>}

MCSeedIds == <<"price-current", "private-farm", "soil">>
============================================================================
