---------------------------- MODULE MCAgentTrack ----------------------------
(* The agent track with the two backends of the repository, the one of       *)
(* tests/test_harness.py:185 that opens a session for any credential, and a   *)
(* fourth whose writes may be refused and whose calls may raise.             *)
EXTENDS AgentTrack

Caps == {"retrieval", "abstention", "forget", "persistence"}
MCBackends ==
    {[name |-> "marciana-agent", opens |-> "secret", reliable |-> TRUE,
      caps |-> Caps \cup Authorization \cup {"temporal", "derived-tracking"}],
     [name |-> "memfs-agent", opens |-> "anything", reliable |-> TRUE, caps |-> Caps],
     [name |-> "memfs-agent", opens |-> "anything", reliable |-> TRUE, caps |-> Caps \cup Authorization],
     [name |-> "another-agent", opens |-> "secret", reliable |-> FALSE, caps |-> Caps \cup {"isolation"}]}

MCSuites ==
    {<<"forget-derived", "retrieval-current">>, <<"injection-contained", "isolation-clearance">>,
     <<"temporal-history", "isolation-tenant">>, <<"purpose-denial", "malformed-empty">>,
     <<"confusable-query", "abstain-unknown">>, <<"replay-mutation", "forget-derived">>}

\* 0 is 2025-06, 1 is AS_OF_PAST, 2 is AS_OF_NOW, 9 has no end.  The window of
\* price-current opens at 2026-01-01, so it is not valid in the past.
Text(id, rank, words, from, until, level) ==
    [id |-> id, rank |-> rank, words |-> words, from |-> from, until |-> until,
     level |-> level, derived |-> {}, forgotten |-> FALSE]
Price == {"honduras", "coffee", "price"}
MCCorpus ==
    [id \in {"price-old", "price-current", "private-farm", "soil", "summary", "prompt-injection"} |->
        CASE id = "price-current"    -> Text(id, 1, Price, 2, 9, 1)
          [] id = "price-old"        -> Text(id, 2, Price, 0, 2, 1)
          [] id = "private-farm"     -> Text(id, 3, {"private", "farm", "price"}, 2, 9, 3)
          [] id = "prompt-injection" -> Text(id, 4, {"private", "farm", "price"}, 2, 9, 1)
          [] id = "soil"             -> Text(id, 5, {"honduras", "coffee"}, 2, 9, 1)
          [] id = "summary"          -> [Text(id, 6, Price, 2, 9, 1) EXCEPT !.derived = {"price-current"}]]
MCSeedOrder == <<"price-old", "price-current", "private-farm", "soil">>

Want(ids, forbidden, abstain) == [allowed |-> TRUE, ids |-> ids, forbidden |-> forbidden, abstain |-> abstain]
MCExpected ==
    [c \in Expressible |->
        CASE c = "retrieval-current"   -> Want(<<"price-current">>, {}, FALSE)
          [] c = "temporal-history"    -> Want(<<"price-old">>, {}, FALSE)
          [] c = "isolation-clearance" -> Want(<<"price-current">>, {"private-farm"}, FALSE)
          [] c = "forget-derived"      -> Want(<<"soil">>, {"price-current", "summary"}, FALSE)
          [] c = "confusable-query"    -> Want(<<>>, {"private-farm"}, FALSE)
          [] c = "injection-contained" -> Want(<<"prompt-injection">>, {"private-farm"}, FALSE)
          [] OTHER                     -> Want(<<>>, {}, TRUE)]
MCQueries == [c \in Expressible |-> Price]

\* The model may write over a memory and over the fact it was asked to forget.
Poison == Text("price-current", 1, {"private"}, 2, 9, 1)
Note   == Text("note", 0, Price, 2, 9, 1)
Farm   == {"private", "farm", "price"}
Calls == {[tool |-> "read", words |-> Price, date |-> 2], [tool |-> "read", words |-> Farm, date |-> 2],
          [tool |-> "read", words |-> Price, date |-> 1], [tool |-> "delete", id |-> "price-current"],
          [tool |-> "delete", id |-> "private-farm"], [tool |-> "delete", id |-> "summary"],
          [tool |-> "write", memory |-> Poison], [tool |-> "write", memory |-> Note],
          [tool |-> "list"], [tool |-> "none"]}
MCResponses ==
    {<<call>> : call \in Calls}
    \cup {<<[tool |-> "delete", id |-> "price-current"], [tool |-> "delete", id |-> "summary"]>>,
          <<[tool |-> "read", words |-> Price, date |-> 2], [tool |-> "write", memory |-> Note]>>}

MCContents ==
    {[form |-> "array", items |-> <<"price-current">>], [form |-> "array", items |-> <<"soil", "not-an-id", "note">>],
     [form |-> "prose", items |-> <<"prompt-injection">>], [form |-> "object", items |-> <<"price-old">>],
     [form |-> "array", items |-> <<>>], [form |-> "array", items |-> <<"price-old", "private-farm">>]}
=============================================================================
