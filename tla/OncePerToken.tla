---------------------------- MODULE OncePerToken ----------------------------
(***************************************************************************)
(* What a service that survives retries, replays and restarts promises,    *)
(* with nothing said of what its requests mean.  A request carries a       *)
(* token, and a token is spent at most once; the contents change only in a *)
(* step that spends a fresh token; a request may also carry a key, and a   *)
(* key is written at most once, in the very step that has its effect.      *)
(***************************************************************************)
CONSTANTS Tokens, Keys, Contents, Outcomes, NoOutcome

VARIABLES spent, ledger, contents

vars == <<spent, ledger, contents>>

Init ==
    /\ spent \in SUBSET Tokens
    /\ ledger = [k \in Keys |-> NoOutcome]
    /\ contents \in Contents

Spend(t) == t \notin spent /\ spent' = spent \cup {t}

\* A request with no effect of its own: refused, a read, or a retry answered
\* from the ledger.
Answer(t) == Spend(t) /\ UNCHANGED <<ledger, contents>>

\* A request with an effect and no key.
Write(t) == Spend(t) /\ contents' \in Contents /\ UNCHANGED ledger

\* A request with an effect and a key.
Commit(t, k) ==
    /\ Spend(t)
    /\ ledger[k] = NoOutcome
    /\ ledger'[k] \in Outcomes
    /\ ledger' = [ledger EXCEPT ![k] = ledger'[k]]
    /\ contents' \in Contents

Next == \E t \in Tokens :
            \/ Answer(t)
            \/ Write(t)
            \/ \E k \in Keys : Commit(t, k)

Spec == Init /\ [][Next]_vars
============================================================================
