--------------------------- MODULE MCCatalogDriver ---------------------------
(* A stock catalog and LakeCat, on the cases that one of them claims and one *)
(* that neither does.                                                        *)
EXTENDS CatalogDriver

MCOrder == <<"lakecat", "nessie">>
MCClaims == [c \in {"lakecat", "nessie"} |->
    {"commit", "compare-and-swap"} \cup IF c = "lakecat" THEN {"idempotent-replay"} ELSE {}]
MCCases == <<"commit-fresh", "cas-stale-rejected", "cas-concurrent", "idempotent-retry",
             "idempotent-across-restart", "durable-audit">>
\* Of a stock catalog no key is asked; of LakeCat every behaviour that makes a
\* difference to a key.
MCBehaviours == [c \in {"lakecat", "nessie"} |->
    IF c = "nessie" THEN [enforces : BOOLEAN, keys : {"ignores"}, scope : {"table"}, names : {TRUE}]
    ELSE [enforces : BOOLEAN, keys : {"honours", "ignores"}, scope : {"table", "catalog"}, names : BOOLEAN]
         \cup [enforces : {TRUE}, keys : {"echoes"}, scope : {"table"}, names : {TRUE}]]
=============================================================================
