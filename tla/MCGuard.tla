------------------------------ MODULE MCGuard ------------------------------
(***************************************************************************)
(* Small instances of Guard: one subject, two resources, two levels.       *)
(***************************************************************************)
EXTENDS Guard, TLC

CONSTANTS search, r1, r2

Low  == <<"read", 0>>
High == <<"read", 1>>
FullPolicies   == {{level, <<"declassify">>, <<"tool", search>>} : level \in {Low, High}}
ReadPolicies   == {{Low}, {High}}
ResourceSymmetry == Permutations(Resources)
============================================================================
