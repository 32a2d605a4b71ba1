---------------------------- MODULE TableHistory ----------------------------
(***************************************************************************)
(* What a governed catalog promises of a table: its history is a log that  *)
(* grows by one entry at a time while the table is open, ends with the     *)
(* entry that dropped it, and is never rewritten, restarts included.  Only *)
(* creating the table again starts a new history.                          *)
(***************************************************************************)
EXTENDS Naturals, Sequences

CONSTANTS Tables, Entries

VARIABLES
    history,    \* for a table, the entries of its present incarnation
    open        \* the tables that exist and are not dropped

Init ==
    /\ history = [t \in Tables |-> <<>>]
    /\ open = {}

Create(t) ==
    /\ history' = [history EXCEPT ![t] = <<>>]
    /\ open' = open \cup {t}

Extend(t) ==
    /\ t \in open
    /\ \E e \in Entries : history' = [history EXCEPT ![t] = Append(@, e)]
    /\ open' \in {open, open \ {t}}

Next == \E t \in Tables : Create(t) \/ Extend(t)

Spec == Init /\ [][Next]_<<history, open>>
============================================================================
