--------------------------- MODULE MCCatalogBench ---------------------------
(* The suite as it is called: each bench alone, again, and all of them.     *)
EXTENDS CatalogBench

MCSpaces == {"commit", "write-data", "warmup", "cache-scan", "read-write"}
MCParts == {0, 1}
MCWriters == {0, 1}

J(bench, files, rows) == [bench |-> bench, files |-> files, rows |-> rows, rewrite |-> FALSE,
                          keyed |-> TRUE, skip_jvm |-> FALSE]
Unkeyed(job) == [job EXCEPT !.keyed = FALSE]
Rewrite(job) == [job EXCEPT !.rewrite = TRUE]
NoJvm(job)   == [job EXCEPT !.skip_jvm = TRUE]

CommitPlans == {<<<<J("commit", 1, 1)>>, <<J("commit", 1, 1)>>>>, <<<<Unkeyed(J("commit", 1, 1))>>>>}
WritePlans  == {<<<<J("write-data", 2, 1)>>, <<J("read-write", 2, 1)>>>>,
                <<<<J("read-write", 2, 1)>>, <<J("read-write", 1, 2)>>>>}
ScanPlans   == {<<<<J("cache-scan", 2, 1), J("rust-vs-jvm", 2, 1)>>>>,
                <<<<J("cache-scan", 2, 1)>>, <<Rewrite(J("cache-scan", 2, 2))>>, <<J("rust-vs-jvm", 2, 1)>>>>,
                <<<<J("cache-scan", 1, 1)>>, <<J("cache-scan", 2, 2), NoJvm(J("rust-vs-jvm", 1, 1))>>>>}
MCPlans == CommitPlans \cup WritePlans \cup ScanPlans
=============================================================================
