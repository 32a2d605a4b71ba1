----------------------------- MODULE MCCatalog -----------------------------
(***************************************************************************)
(* Small instances of Catalog: two tables, two of everything a writer      *)
(* chooses, one update and one policy that are too long.  Tables and       *)
(* callers are exchangeable, and every property checked is one of states   *)
(* or of steps.                                                            *)
(***************************************************************************)
EXTENDS Catalog

CONSTANTS u1, u2, k1, t1, t2, ada, bob

Exchangeable == Permutations(Tables) \cup Permutations(Callers)
============================================================================
