----------------------------- MODULE MCAdapters -----------------------------
(***************************************************************************)
(* Two versions of a price, each with its window, a private memory, one      *)
(* derived from the current price, one of the analyst, and two that are sent *)
(* with the same nonce.                                                      *)
(***************************************************************************)
EXTENDS Adapters

Memory(id, owner) == [id |-> id, owner |-> owner, private |-> FALSE, from |-> {}, window |-> Open,
                      nonce |-> "none", supersedes |-> "none"]

MCSeeds == <<[Memory("price-old", "operator") EXCEPT !.window = "past"],
            [Memory("price-current", "operator") EXCEPT !.window = "current",
                                                        !.supersedes = "price-old"],
            [Memory("private-farm", "operator") EXCEPT !.private = TRUE]>>
MCScenarios ==
    {{[Memory("summary", "operator") EXCEPT !.from = {"price-current"}]},
     {Memory("prompt-injection", "analyst")},
     {[Memory("replay-fact", "operator") EXCEPT !.nonce = "same-nonce"],
      [Memory("replay-fact-2", "operator") EXCEPT !.nonce = "same-nonce"]}}
MCReplacement == [Memory("price-improved", "operator") EXCEPT !.supersedes = "price-current"]
============================================================================
