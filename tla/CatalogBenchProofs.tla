------------------------- MODULE CatalogBenchProofs -------------------------
(***************************************************************************)
(* For every sequence of invocations, every number of files, rows and      *)
(* writers, and wherever a process or a request fails: a file that a       *)
(* table's property names is in the object store, the requests of a        *)
(* concurrent phase are all counted, a first run measures commits and not  *)
(* replays, and a cache adds no row and drops none.                        *)
(***************************************************************************)
EXTENDS CatalogBench, SequenceTheorems, FiniteSetTheorems, WellFoundedInduction, TLAPS

-----------------------------------------------------------------------------
(* Sums                                                                     *)

\* The element that a fold takes first, and the recursion of the fold that adds.
Pick(s) == CHOOSE x \in s : TRUE
Adds(g, f, T) == g = [s \in SUBSET T |-> IF s = {} THEN 0 ELSE f[Pick(s)] + g[s \ {Pick(s)}]]

LEMMA PickIn == ASSUME NEW s, s # {} PROVE Pick(s) \in s
BY DEF Pick

\* Induction over a finite set, stated with a set of sets.
LEMMA EveryPart ==
    ASSUME NEW S, IsFiniteSet(S), NEW G,
           \A T \in SUBSET S : (\A U \in SUBSET T : U # T => U \in G) => T \in G
    PROVE  \A T \in SUBSET S : T \in G
<1> DEFINE Bad == {T \in SUBSET S : T \notin G}
<1> SUFFICES ASSUME Bad # {} PROVE FALSE
  OBVIOUS
<1>1. FiniteSubsetsOf(S) = SUBSET S
  BY FS_FiniteSubsetsOfFinite
<1>2. Bad \subseteq FiniteSubsetsOf(S)
  BY <1>1
<1>3. PICK T \in Bad : \A U \in Bad : ~ (<<U, T>> \in StrictSubsetOrdering(S))
  <2> HIDE DEF Bad
  <2> QED BY <1>2, FS_StrictSubsetOrderingWellFounded, WFMin
<1>4. ASSUME NEW U \in SUBSET T, U # T PROVE U \in G
  <2>1. U \in SUBSET S /\ T \in SUBSET S
    OBVIOUS
  <2>2. <<U, T>> \in StrictSubsetOrdering(S)
    BY <2>1, <1>4 DEF StrictSubsetOrdering
  <2>3. QED BY <2>1, <2>2, <1>3
<1>5. QED BY <1>4

\* Two folds of the same numbers agree where both are defined.
LEMMA AddsAgree ==
    ASSUME NEW S, IsFiniteSet(S), NEW f, NEW A \in SUBSET S, NEW B \in SUBSET S,
           NEW g, NEW h, Adds(g, f, A), Adds(h, f, B)
    PROVE  \A s \in SUBSET (A \cap B) : g[s] = h[s]
<1> DEFINE G == {s \in SUBSET (A \cap B) : g[s] = h[s]}
<1>1. ASSUME NEW T \in SUBSET (A \cap B), \A U \in SUBSET T : U # T => U \in G PROVE T \in G
  <2>1. T \in SUBSET A /\ T \in SUBSET B
    OBVIOUS
  <2>2. g[T] = IF T = {} THEN 0 ELSE f[Pick(T)] + g[T \ {Pick(T)}]
    BY <2>1 DEF Adds
  <2>3. h[T] = IF T = {} THEN 0 ELSE f[Pick(T)] + h[T \ {Pick(T)}]
    BY <2>1 DEF Adds
  <2>4. T # {} => g[T \ {Pick(T)}] = h[T \ {Pick(T)}]
    BY <1>1, PickIn
  <2>5. CASE T = {}
    <3>1. g[T] = 0 /\ h[T] = 0
      BY <2>2, <2>3, <2>5
    <3>2. QED BY <3>1
  <2>6. CASE T # {}
    <3>1. g[T] = f[Pick(T)] + g[T \ {Pick(T)}] /\ h[T] = f[Pick(T)] + h[T \ {Pick(T)}]
      BY <2>2, <2>3, <2>6
    <3>2. g[T] = h[T]
      BY <3>1, <2>4, <2>6
    <3>3. QED BY <3>2
  <2>7. QED BY <2>5, <2>6
<1>2. IsFiniteSet(A \cap B)
  BY FS_Subset
<1>3. \A T \in SUBSET (A \cap B) : T \in G
  <2> HIDE DEF G
  <2>1. PICK C : C = A \cap B
    OBVIOUS
  <2>2. \A T \in SUBSET C : (\A U \in SUBSET T : U # T => U \in G) => T \in G
    BY ONLY <1>1, <2>1
  <2>3. IsFiniteSet(C)
    BY ONLY <1>2, <2>1
  <2>4. \A T \in SUBSET C : T \in G
    BY ONLY <2>2, <2>3, EveryPart
  <2> QED BY ONLY <2>1, <2>4
<1>4. QED BY <1>3

LEMMA AddsExists ==
    ASSUME NEW S, IsFiniteSet(S), NEW f
    PROVE  \E g : Adds(g, f, S)
<1> DEFINE G == {T \in SUBSET S : \E g : Adds(g, f, T)}
           H(T) == CHOOSE h : Adds(h, f, T)
           Rest(s) == s \ {Pick(s)}
<1>1. ASSUME NEW T \in SUBSET S, \A U \in SUBSET T : U # T => U \in G PROVE T \in G
  <2> DEFINE g == [s \in SUBSET T |-> IF s = {} THEN 0 ELSE f[Pick(s)] + H(Rest(s))[Rest(s)]]
  <2>1. ASSUME NEW U \in SUBSET T, U # T PROVE Adds(H(U), f, U)
    BY <1>1, <2>1
  <2>2. ASSUME NEW s \in SUBSET T, s # {} PROVE Rest(s) \in SUBSET T /\ Rest(s) # T /\ Rest(s) \in SUBSET S
    BY <2>2, PickIn
  <2>3. ASSUME NEW s \in SUBSET T, s # {} PROVE g[Rest(s)] = H(Rest(s))[Rest(s)]
    <3> DEFINE r == Rest(s)
    <3>1. r \in SUBSET T /\ r # T /\ r \in SUBSET S
      BY <2>2, <2>3
    <3>2. Adds(H(r), f, r)
      BY <2>1, <3>1
    <3> HIDE DEF r, H
    <3>3. H(r)[r] = IF r = {} THEN 0 ELSE f[Pick(r)] + H(r)[r \ {Pick(r)}]
      BY <3>2 DEF Adds
    <3>4. g[r] = IF r = {} THEN 0 ELSE f[Pick(r)] + H(Rest(r))[Rest(r)]
      BY <3>1
    <3>5. ASSUME r # {} PROVE H(Rest(r))[Rest(r)] = H(r)[Rest(r)]
      <4>1. Rest(r) \in SUBSET T /\ Rest(r) # T /\ Rest(r) \in SUBSET S
        BY <2>2, <3>1, <3>5
      <4>2. Adds(H(Rest(r)), f, Rest(r))
        BY <2>1, <4>1
      <4>3. Rest(r) \in SUBSET (Rest(r) \cap r)
        OBVIOUS
      <4> HIDE DEF Rest
      <4>4. QED BY <3>1, <3>2, <4>1, <4>2, <4>3, AddsAgree
    <3>6. QED BY <3>3, <3>4, <3>5 DEF r
  <2>4. Adds(g, f, T)
    <3> SUFFICES g = [s \in SUBSET T |-> IF s = {} THEN 0 ELSE f[Pick(s)] + g[Rest(s)]]
      BY DEF Adds
    <3> DEFINE e == [s \in SUBSET T |-> IF s = {} THEN 0 ELSE f[Pick(s)] + g[Rest(s)]]
    <3>1. ASSUME NEW s \in SUBSET T PROVE g[s] = e[s]
      <4>1. s # {} => g[Rest(s)] = H(Rest(s))[Rest(s)]
        BY <2>3
      <4>2. g[s] = IF s = {} THEN 0 ELSE f[Pick(s)] + H(Rest(s))[Rest(s)]
        OBVIOUS
      <4>3. e[s] = IF s = {} THEN 0 ELSE f[Pick(s)] + g[Rest(s)]
        OBVIOUS
      <4> HIDE DEF g, e, H, Rest
      <4>4. QED BY <4>1, <4>2, <4>3
    <3>2. g = [s \in SUBSET T |-> g[s]] /\ e = [s \in SUBSET T |-> e[s]]
      OBVIOUS
    <3> HIDE DEF g, e
    <3>3. g = e
      BY <3>1, <3>2
    <3>4. QED BY <3>3 DEF e
  <2> HIDE DEF g
  <2>5. QED BY <2>4
<1>2. \A T \in SUBSET S : T \in G
  <2> HIDE DEF G
  <2> QED BY <1>1, EveryPart
<1>3. QED BY <1>2

\* What MapThenSumSet folds.
Total(f, S) == (CHOOSE g : Adds(g, f, S))[S]

LEMMA TotalAdds ==
    ASSUME NEW S, IsFiniteSet(S), NEW f
    PROVE  \E g : Adds(g, f, S) /\ Total(f, S) = g[S]
BY AddsExists DEF Total

\* What is added is what the numbers are, wherever they are kept.
LEMMA SameTotal ==
    ASSUME NEW S, IsFiniteSet(S), NEW f, NEW h, \A x \in S : f[x] = h[x]
    PROVE  Total(f, S) = Total(h, S)
<1>1. PICK g : Adds(g, f, S) /\ Total(f, S) = g[S]
  BY TotalAdds
<1>2. PICK k : Adds(k, h, S) /\ Total(h, S) = k[S]
  BY TotalAdds
<1>3. ASSUME NEW s \in SUBSET S, s # {} PROVE f[Pick(s)] = h[Pick(s)]
  BY <1>3, PickIn
<1>4. [s \in SUBSET S |-> IF s = {} THEN 0 ELSE f[Pick(s)] + g[s \ {Pick(s)}]]
      = [s \in SUBSET S |-> IF s = {} THEN 0 ELSE h[Pick(s)] + g[s \ {Pick(s)}]]
  BY <1>3
<1>5. Adds(g, h, S)
  BY <1>1, <1>4 DEF Adds
<1>6. S \in SUBSET (S \cap S)
  OBVIOUS
<1>7. QED BY <1>1, <1>2, <1>5, <1>6, AddsAgree

\* A total of numbers is a number, and none of zeros.
LEMMA TotalOfNumbers ==
    ASSUME NEW S, IsFiniteSet(S), NEW f \in [S -> Nat]
    PROVE  Total(f, S) \in Nat /\ ((\A x \in S : f[x] = 0) => Total(f, S) = 0)
<1>1. PICK g : Adds(g, f, S) /\ Total(f, S) = g[S]
  BY TotalAdds
<1> DEFINE G == {s \in SUBSET S : g[s] \in Nat /\ ((\A x \in S : f[x] = 0) => g[s] = 0)}
<1>2. ASSUME NEW T \in SUBSET S, \A U \in SUBSET T : U # T => U \in G PROVE T \in G
  <2>1. g[T] = IF T = {} THEN 0 ELSE f[Pick(T)] + g[T \ {Pick(T)}]
    BY <1>1 DEF Adds
  <2>2. CASE T = {}
    BY <2>1, <2>2
  <2>3. CASE T # {}
    <3>1. Pick(T) \in S /\ T \ {Pick(T)} \in G
      BY <1>2, <2>3, PickIn
    <3>2. QED BY <2>1, <2>3, <3>1
  <2>4. QED BY <2>2, <2>3
<1>3. \A T \in SUBSET S : T \in G
  <2> HIDE DEF G
  <2> QED BY <1>2, EveryPart
<1>4. QED BY <1>1, <1>3

\* What is added on one side of an account, and what is moved within it.
LEMMA AccountGrows ==
    ASSUME NEW a \in Nat, NEW b \in Nat, NEW c \in Nat, NEW m \in Nat, NEW q \in Nat, a + b + c + m = q
    PROVE  a + b + c + (m + 1) = q + 1
OBVIOUS

LEMMA AccountMoves ==
    ASSUME NEW a \in Nat, NEW b \in Nat, NEW c \in Nat, NEW x \in Nat, NEW y \in Nat, NEW z \in Nat,
           NEW m \in Nat, NEW q, a + b + c + m = q, x + y + z = a + b + c + 1
    PROVE  x + y + z + (m - 1) = q
<1>1. a + b + c \in Nat
  OBVIOUS
<1>2. (a + b + c + 1) + (m - 1) = a + b + c + m
  BY ONLY <1>1, m \in Nat
<1>3. QED BY ONLY <1>2, a + b + c + m = q, x + y + z = a + b + c + 1

\* One more in one place is one more in all.
LEMMA OneMore ==
    ASSUME NEW S, IsFiniteSet(S), NEW f \in [S -> Nat], NEW w \in S, NEW h, h = [f EXCEPT ![w] = @ + 1]
    PROVE  Total(h, S) = Total(f, S) + 1
<1>1. PICK g : Adds(g, f, S) /\ Total(f, S) = g[S]
  BY TotalAdds
<1>2. PICK k : Adds(k, h, S) /\ Total(h, S) = k[S]
  BY TotalAdds
<1> DEFINE G == {s \in SUBSET S : g[s] \in Nat /\ k[s] = g[s] + IF w \in s THEN 1 ELSE 0}
<1>3. ASSUME NEW T \in SUBSET S, \A U \in SUBSET T : U # T => U \in G PROVE T \in G
  <2>1. g[T] = IF T = {} THEN 0 ELSE f[Pick(T)] + g[T \ {Pick(T)}]
    BY <1>1 DEF Adds
  <2>2. k[T] = IF T = {} THEN 0 ELSE h[Pick(T)] + k[T \ {Pick(T)}]
    BY <1>2 DEF Adds
  <2>3. CASE T = {}
    BY <2>1, <2>2, <2>3
  <2>4. CASE T # {}
    <3> DEFINE p == Pick(T)
    <3>1. p \in T /\ p \in S /\ T \ {p} \in G
      BY <1>3, <2>4, PickIn
    <3>2. f[p] \in Nat /\ h[p] = f[p] + IF p = w THEN 1 ELSE 0
      BY <3>1
    <3> HIDE DEF p
    <3>3. w \in T <=> (p = w \/ w \in T \ {p})
      BY <3>1
    <3>4. g[T] = f[p] + g[T \ {p}] /\ k[T] = h[p] + k[T \ {p}]
      BY <2>1, <2>2, <2>4 DEF p
    <3>5. g[T \ {p}] \in Nat /\ k[T \ {p}] = g[T \ {p}] + IF w \in T \ {p} THEN 1 ELSE 0
      BY <3>1
    <3>6. g[T] \in Nat /\ k[T] = g[T] + IF w \in T THEN 1 ELSE 0
      BY <3>2, <3>3, <3>4, <3>5
    <3>7. QED BY <3>6
  <2>5. QED BY <2>3, <2>4
<1>4. \A T \in SUBSET S : T \in G
  <2> HIDE DEF G
  <2> QED BY <1>3, EveryPart
<1>5. QED BY <1>1, <1>2, <1>4

LEMMA TotalRequests ==
    ASSUME IsFiniteSet(Writers)
    PROVE  Requests = Total(sent, Writers) /\ Requests' = Total(sent', Writers)
<1>1. Requests = Total(sent, Writers)
  <2> DEFINE D(g) == g = [s \in SUBSET Writers |-> IF s = {} THEN 0 ELSE sent[Pick(s)] + g[s \ {Pick(s)}]]
  <2>1. Requests = (CHOOSE g : D(g))[Writers]
    BY DEF Requests, MapThenSumSet, MapThenFoldSet, Pick
  <2>2. QED BY <2>1 DEF Total, Adds
<1>2. Requests' = Total(sent', Writers)
  <2> DEFINE D(g) == g = [s \in SUBSET Writers |-> IF s = {} THEN 0 ELSE sent'[Pick(s)] + g[s \ {Pick(s)}]]
  <2>1. Requests' = (CHOOSE g : D(g))[Writers]
    BY DEF Requests, MapThenSumSet, MapThenFoldSet, Pick
  <2>2. QED BY <2>1 DEF Total, Adds
<1>3. QED BY <1>1, <1>2

LEMMA TotalRows ==
    ASSUME IsFiniteSet(Parts), ToRead \in SUBSET Parts
    PROVE  Rows = Total([f \in Parts |-> Content(f)], ToRead)
<1> DEFINE c == [f \in Parts |-> Content(f)]
           D(g) == g = [s \in SUBSET ToRead |-> IF s = {} THEN 0 ELSE Content(Pick(s)) + g[s \ {Pick(s)}]]
<1>1. Rows = (CHOOSE g : D(g))[ToRead]
  BY DEF Rows, MapThenSumSet, MapThenFoldSet, Pick
<1>2. ASSUME NEW s \in SUBSET ToRead, s # {} PROVE Content(Pick(s)) = c[Pick(s)]
  BY <1>2, PickIn
<1>3. ASSUME NEW g PROVE D(g) <=> Adds(g, c, ToRead)
  <2>1. [s \in SUBSET ToRead |-> IF s = {} THEN 0 ELSE Content(Pick(s)) + g[s \ {Pick(s)}]]
        = [s \in SUBSET ToRead |-> IF s = {} THEN 0 ELSE c[Pick(s)] + g[s \ {Pick(s)}]]
    BY <1>2
  <2>2. QED BY <2>1 DEF Adds
<1>4. \E g : Adds(g, c, ToRead)
  BY AddsExists, FS_Subset
<1> HIDE DEF c
<1>5. D(CHOOSE g : D(g))
  <2> HIDE DEF D
  <2> QED BY <1>3, <1>4
<1>6. Adds(CHOOSE g : D(g), c, ToRead)
  BY <1>3, <1>5
<1>7. PICK k : Adds(k, c, ToRead) /\ Total(c, ToRead) = k[ToRead]
  BY TotalAdds, FS_Subset
<1>8. ToRead \in SUBSET (ToRead \cap ToRead)
  OBVIOUS
<1>9. IsFiniteSet(ToRead)
  BY FS_Subset
<1> DEFINE q == CHOOSE g : D(g)
           A == ToRead
<1>10. Adds(q, c, A) /\ Adds(k, c, A) /\ A \in SUBSET (A \cap A) /\ IsFiniteSet(A) /\ A \in SUBSET A
  BY <1>6, <1>7, <1>8, <1>9
<1>11. Rows = q[A] /\ Total(c, A) = k[A]
  BY <1>1, <1>7
<1> HIDE DEF D, q, A
<1>12. q[A] = k[A]
  BY <1>10, AddsAgree
<1>13. QED BY <1>11, <1>12 DEF c, A

-----------------------------------------------------------------------------
Keyspace == Spaces \X Parts

SuiteTyped ==
    /\ plan \in Seq(Seq(Runnable)) /\ jobs \in Seq(Runnable)
    /\ step # "idle" => jobs # <<>>
    /\ n \in Nat

StoreTyped == store \in [Keyspace -> Nat]

\* The counter of the files: it starts at 0 and stays below their number.
Counting ==
    /\ step \in {"setup", "roundtrip", "dataset"} => n = 0
    /\ step \in {"put", "record"} => n < Job.files

\* The file of a commit that is being recorded was written before.
Written == step = "record" => store[<<Prefix, n>>] > 0

\* What the invariant of the theorem has to add to be inductive.
BenchInv == SuiteTyped /\ StoreTyped /\ Counting /\ Written /\ RecordedFileExists

-----------------------------------------------------------------------------
(* What the invocation does to the bench                                    *)

\* The job at the head of an invocation is one the driver can be asked for.
LEMMA JobRunnable == ASSUME jobs \in Seq(Runnable), jobs # <<>> PROVE Job \in Runnable /\ Tail(jobs) \in Seq(Runnable)
BY DEF Job

\* A running bench keeps its data under one of the spaces of the store.
LEMMA PrefixInSpaces == ASSUME BenchAssumption, Job \in Runnable PROVE Prefix \in Spaces
BY DEF BenchAssumption, Runnable, Prefix, DatasetOf

\* A file whose number is below that of the files has a key.
LEMMA FileHasKey ==
    ASSUME BenchAssumption, Job \in Runnable, n \in Nat, n < Job.files
    PROVE  <<Prefix, n>> \in Keyspace /\ Job.rows \in Nat /\ Job.rows > 0
<1>1. Prefix \in Spaces
  BY PrefixInSpaces
<1>2. n \in Parts
  <2>1. Job.files \in Nat \ {0} /\ \A i \in 0 .. Job.files - 1 : i \in Parts
    BY DEF Runnable
  <2>2. n \in 0 .. Job.files - 1
    BY <2>1
  <2>3. QED BY <2>1, <2>2
<1>3. QED BY <1>1, <1>2 DEF Keyspace, Runnable

\* A bench that ended, in whatever way, leaves the rest of its invocation.
LEMMA EndedIs ==
    ASSUME NEW STATE outcome, NEW STATE status, NEW STATE spark, Ended(outcome, status, spark)
    PROVE  step' = "idle" /\ jobs' = Tail(jobs) /\ plan' = plan
BY DEF Ended

LEMMA FailedIs ==
    ASSUME NEW STATE reason, Failed(reason)
    PROVE  step' = "idle" /\ jobs' = Tail(jobs) /\ plan' = plan
BY EndedIs DEF Failed

LEMMA RanIs ==
    ASSUME NEW STATE status, Ran(status)
    PROVE  step' = "idle" /\ jobs' = Tail(jobs) /\ plan' = plan
BY EndedIs DEF Ran

\* A step that ends the bench preserves the invariant as long as it changes the
\* store and the tables only as the invariant allows.
LEMMA EndingKeeps ==
    ASSUME BenchInv, jobs # <<>>, step' = "idle", jobs' = Tail(jobs), plan' = plan, n' \in Nat,
           StoreTyped', RecordedFileExists'
    PROVE  BenchInv'
BY JobRunnable DEF BenchInv, SuiteTyped, Counting, Written

\* A table keeps its property, or names the file that was written last.
LEMMA ServedKeeps ==
    ASSUME BenchInv, store' = store, NEW STATE key, NEW a, NEW STATE file, Served(key, a, file),
           file # <<>> => file \in DOMAIN store /\ store[file] > 0
    PROVE  StoreTyped' /\ RecordedFileExists'
<1>1. StoreTyped'
  BY DEF BenchInv, StoreTyped
<1>2. RecordedFileExists'
  <2> SUFFICES ASSUME NEW t \in DOMAIN catalog', catalog'[t].last # <<>>
               PROVE  catalog'[t].last \in DOMAIN store /\ store[catalog'[t].last] > 0
    BY DEF RecordedFileExists
  <2>1. DOMAIN catalog' = DOMAIN catalog
    BY DEF Served
  <2>2. \/ catalog'[t].last = catalog[t].last
        \/ catalog'[t].last = file
    BY <2>1 DEF Served
  <2>3. QED BY <2>1, <2>2 DEF BenchInv, RecordedFileExists
<1>3. QED BY <1>1, <1>2

\* A key that is given rows: no file that is there goes.
LEMMA WritingKeeps ==
    ASSUME BenchInv, catalog' = catalog, NEW STATE key, NEW STATE rows, rows \in Nat, rows > 0,
           store' = [store EXCEPT ![key] = rows]
    PROVE  StoreTyped' /\ RecordedFileExists'
<1>1. StoreTyped'
  BY DEF BenchInv, StoreTyped
<1>2. RecordedFileExists'
  <2> SUFFICES ASSUME NEW t \in DOMAIN catalog, catalog[t].last # <<>>
               PROVE  catalog[t].last \in DOMAIN store' /\ store'[catalog[t].last] > 0
    BY DEF RecordedFileExists
  <2>1. catalog[t].last \in DOMAIN store /\ store[catalog[t].last] > 0
    BY DEF BenchInv, RecordedFileExists
  <2>2. DOMAIN store' = DOMAIN store
    OBVIOUS
  <2>3. store'[catalog[t].last] = store[catalog[t].last] \/ store'[catalog[t].last] = rows
    BY <2>1
  <2>4. QED BY <2>1, <2>2, <2>3
<1>3. QED BY <1>1, <1>2

\* A step of a bench that changes neither the store nor a table.
LEMMA WaitingKeeps ==
    ASSUME BenchInv, store' = store, catalog' = catalog
    PROVE  StoreTyped' /\ RecordedFileExists'
BY DEF BenchInv, StoreTyped, RecordedFileExists

\* A step that goes on with the same job.
LEMMA GoingOnKeeps ==
    ASSUME BenchInv, plan' = plan, jobs' = jobs, jobs # <<>>, n' \in Nat,
           StoreTyped', RecordedFileExists',
           step' \in {"setup", "roundtrip", "dataset"} => n' = 0,
           step' \in {"put", "record"} => n' < Job.files,
           step' = "record" => store'[<<Prefix, n'>>] > 0
    PROVE  BenchInv'
<1>1. Job' = Job /\ Prefix' = Prefix
  BY DEF Job, Prefix, DatasetOf
<1>2. SuiteTyped'
  BY DEF BenchInv, SuiteTyped
<1>3. Counting' /\ Written'
  BY <1>1 DEF Counting, Written
<1>4. QED BY <1>2, <1>3 DEF BenchInv

-----------------------------------------------------------------------------
(* The driver                                                               *)

LEMMA InitKeeps == ASSUME BenchAssumption, Init PROVE BenchInv
<1>1. SuiteTyped
  BY DEF Init, BenchAssumption, SuiteTyped
<1>2. StoreTyped
  BY DEF Init, StoreTyped, Keyspace
<1>3. RecordedFileExists
  BY DEF Init, RecordedFileExists
<1>4. QED BY <1>1, <1>2, <1>3 DEF BenchInv, Init, Counting, Written

LEMMA InvokeKeeps == ASSUME BenchInv, Invoke PROVE BenchInv'
<1>1. StoreTyped' /\ RecordedFileExists'
  BY WaitingKeeps DEF Invoke, worldVars
<1>2. step' = "idle" /\ n' = n
  BY DEF Invoke, benchVars
<1>3. SuiteTyped'
  <2>1. plan \in Seq(Seq(Runnable)) /\ plan # <<>> /\ jobs' = Head(plan) /\ plan' = Tail(plan)
    BY DEF Invoke, BenchInv, SuiteTyped
  <2>2. Head(plan) \in Seq(Runnable) /\ Tail(plan) \in Seq(Seq(Runnable))
    BY <2>1
  <2>3. QED BY <1>2, <2>1, <2>2 DEF BenchInv, SuiteTyped
<1>4. QED BY <1>1, <1>2, <1>3 DEF BenchInv, Counting, Written

LEMMA ExitKeeps == ASSUME BenchInv, Exit PROVE BenchInv'
<1>1. StoreTyped' /\ RecordedFileExists'
  BY WaitingKeeps DEF Exit, worldVars
<1>2. step' = "idle" /\ n' = n /\ jobs' = jobs /\ plan' = plan
  BY DEF Exit, benchVars
<1>3. QED BY <1>1, <1>2 DEF BenchInv, SuiteTyped, Counting, Written

\* The first step of every bench starts with the counter at 0.
LEMMA SpawnKeeps == ASSUME BenchInv, Spawn PROVE BenchInv'
<1>1. StoreTyped' /\ RecordedFileExists'
  BY WaitingKeeps DEF Spawn
<1>2. jobs # <<>> /\ n' = 0 /\ jobs' = jobs /\ plan' = plan /\ step' = First(Job.bench)
  BY DEF Spawn, FreshBench, Continues, suiteVars
<1>3. step' \notin {"put", "record"}
  <2>1. Job \in Runnable
    BY <1>2, JobRunnable DEF BenchInv, SuiteTyped
  <2>2. QED BY <1>2, <2>1 DEF Runnable, First
<1>4. QED BY <1>1, <1>2, <1>3, GoingOnKeeps

LEMMA SpawnFailsKeeps == ASSUME BenchInv, SpawnFails PROVE BenchInv'
<1>1. StoreTyped' /\ RecordedFileExists'
  BY WaitingKeeps DEF SpawnFails, worldVars
<1>2. Failed("spawn") /\ jobs # <<>> /\ n' = 0
  BY DEF SpawnFails, FreshBench
<1>3. QED BY <1>1, <1>2, FailedIs, EndingKeeps

LEMMA BreaksKeeps == ASSUME BenchInv, Breaks PROVE BenchInv'
<1>1. StoreTyped' /\ RecordedFileExists'
  BY WaitingKeeps DEF Breaks, worldVars
<1>2. Failed("broken") /\ jobs # <<>> /\ n' = 0
  BY DEF Breaks, FreshBench, BenchInv, SuiteTyped
<1>3. QED BY <1>1, <1>2, FailedIs, EndingKeeps

-----------------------------------------------------------------------------
(* The commit bench                                                         *)

\* At step "put" the counter is 0, and every job has a file.
LEMMA FirstFile == ASSUME BenchInv, jobs # <<>> PROVE Job \in Runnable /\ 0 < Job.files
BY JobRunnable DEF BenchInv, SuiteTyped, Runnable

LEMMA Running == ASSUME BenchInv, step # "idle" PROVE jobs # <<>> /\ n \in Nat
BY DEF BenchInv, SuiteTyped

LEMMA SetupKeeps == ASSUME BenchInv, Setup PROVE BenchInv'
<1>1. StoreTyped' /\ RecordedFileExists'
  <2>1. store' = store /\ catalog' = [catalog EXCEPT ![Job.bench].exists = TRUE]
    BY DEF Setup
  <2>2. DOMAIN catalog' = DOMAIN catalog /\ \A t \in DOMAIN catalog : catalog'[t].last = catalog[t].last
    BY <2>1
  <2>3. QED BY <2>1, <2>2 DEF BenchInv, StoreTyped, RecordedFileExists
<1>2. jobs # <<>> /\ n' = 0 /\ jobs' = jobs /\ plan' = plan
  BY Running DEF Setup, Continues, suiteVars, BenchInv, Counting
<1>3. step' \in {"serial", "warm", "put"}
  BY DEF Setup, Continues
<1>4. QED BY <1>1, <1>2, <1>3, FirstFile, GoingOnKeeps

LEMMA SerialCommitKeeps == ASSUME BenchAssumption, BenchInv, SerialCommit PROVE BenchInv'
<1>1. PICK a \in Answers(SerialKey(n)) :
        /\ Served(SerialKey(n), a, <<>>)
        /\ IF a.answer # "ok" THEN Failed("conflict or error") /\ n' = 0
           ELSE n' = n + 1 /\ Continues(IF n + 1 = Warmups + Job.files THEN "concurrent" ELSE "serial")
  BY DEF SerialCommit
<1>2. store' = store /\ step = "serial"
  BY DEF SerialCommit
<1>3. StoreTyped' /\ RecordedFileExists'
  BY <1>1, <1>2, ServedKeeps
<1>4. jobs # <<>> /\ n \in Nat
  BY <1>2, Running
<1>5. CASE a.answer # "ok"
  <2>1. Failed("conflict or error") /\ n' = 0
    BY <1>1, <1>5
  <2>2. QED BY <1>3, <1>4, <2>1, FailedIs, EndingKeeps
<1>6. CASE a.answer = "ok"
  <2>1. n' = n + 1 /\ step' \in {"concurrent", "serial"} /\ jobs' = jobs /\ plan' = plan
    BY <1>1, <1>6 DEF Continues, suiteVars
  <2>2. QED BY <1>3, <1>4, <2>1, GoingOnKeeps
<1>7. QED BY <1>5, <1>6

LEMMA ConcurrentKeeps ==
    ASSUME BenchInv, (\E w \in Writers : Send(w) \/ Receive(w)) \/ Deadline
    PROVE  BenchInv'
<1>1. step = "concurrent" /\ step' = step /\ n' = n /\ jobs' = jobs /\ plan' = plan /\ store' = store
  BY DEF Send, Receive, Deadline, suiteVars, worldVars
<1>2. StoreTyped' /\ RecordedFileExists'
  <2>1. ASSUME NEW w \in Writers, Receive(w) PROVE StoreTyped' /\ RecordedFileExists'
    <3>1. PICK a \in Answers(pending[w][1]) : Served(pending[w][1], a, <<>>)
      BY <2>1 DEF Receive
    <3>2. QED BY <1>1, <3>1, ServedKeeps
  <2>2. CASE catalog' = catalog
    BY <1>1, <2>2, WaitingKeeps
  <2>3. QED BY <2>1, <2>2 DEF Send, Deadline, worldVars
<1>3. QED BY <1>1, <1>2, Running, GoingOnKeeps

LEMMA JoinKeeps == ASSUME BenchInv, Join PROVE BenchInv'
<1>1. StoreTyped' /\ RecordedFileExists'
  BY WaitingKeeps DEF Join, worldVars
<1>2. jobs # <<>> /\ n' \in Nat
  BY Running DEF Join
<1>3. Failed("request errors") \/ Ran("ready")
  BY DEF Join
<1>4. QED BY <1>1, <1>2, <1>3, FailedIs, RanIs, EndingKeeps

-----------------------------------------------------------------------------
(* A file, then a commit that names it                                      *)

LEMMA RoundtripKeeps == ASSUME BenchInv, Roundtrip PROVE BenchInv'
<1>1. StoreTyped' /\ RecordedFileExists'
  BY WaitingKeeps DEF Roundtrip, worldVars
<1>2. jobs # <<>> /\ n' = 0 /\ jobs' = jobs /\ plan' = plan /\ step' = "setup"
  BY Running DEF Roundtrip, Continues, suiteVars, BenchInv, Counting
<1>3. QED BY <1>1, <1>2, GoingOnKeeps

LEMMA WarmPutKeeps == ASSUME BenchInv, WarmPut PROVE BenchInv'
<1>1. jobs # <<>> /\ n \in Nat /\ jobs' = jobs /\ plan' = plan /\ catalog' = catalog
  BY Running DEF WarmPut, Continues, suiteVars
<1>2. Job.rows \in Nat /\ Job.rows > 0 /\ 0 < Job.files
  BY <1>1, FirstFile DEF Runnable
<1>3. store' = [store EXCEPT ![<<"warmup", n>>] = Job.rows]
  BY DEF WarmPut
<1>4. StoreTyped' /\ RecordedFileExists'
  BY <1>1, <1>2, <1>3, WritingKeeps
<1>5. (step' = "put" /\ n' = 0) \/ (step' = "warm" /\ n' = n + 1)
  BY DEF WarmPut, Continues
<1>6. QED BY <1>1, <1>2, <1>4, <1>5, GoingOnKeeps

LEMMA PutKeeps == ASSUME BenchAssumption, BenchInv, Put PROVE BenchInv'
<1>1. /\ jobs # <<>> /\ n \in Nat /\ n < Job.files
      /\ jobs' = jobs /\ plan' = plan /\ catalog' = catalog
  BY Running DEF Put, Continues, suiteVars, BenchInv, Counting
<1>2. Job \in Runnable
  BY <1>1, FirstFile
<1>3. <<Prefix, n>> \in Keyspace /\ Job.rows \in Nat /\ Job.rows > 0 /\ Job.files \in Nat
  BY <1>1, <1>2, FileHasKey DEF Runnable
<1>4. store' = [store EXCEPT ![<<Prefix, n>>] = Job.rows]
  BY DEF Put
<1>5. StoreTyped' /\ RecordedFileExists'
  BY <1>1, <1>3, <1>4, WritingKeeps
<1>6. store'[<<Prefix, n>>] > 0
  BY <1>3, <1>4 DEF BenchInv, StoreTyped
<1>7. \/ step' = "record" /\ n' = n
      \/ step' = "put" /\ n' = n + 1 /\ n + 1 # Job.files
      \/ step' = "list" /\ n' = n + 1
  BY DEF Put, Continues
<1>8. n' \in Nat /\ (step' \in {"put", "record"} => n' < Job.files)
  BY <1>1, <1>3, <1>7
<1>9. QED BY <1>1, <1>5, <1>6, <1>7, <1>8, GoingOnKeeps

LEMMA RecordKeeps == ASSUME BenchAssumption, BenchInv, Record PROVE BenchInv'
<1>1. PICK a \in Answers(<<>>) :
        /\ Served(<<>>, a, FileUri(n))
        /\ IF a.answer = "error" THEN Failed("commit") /\ n' = 0
           ELSE /\ n' = n + 1
                /\ IF n + 1 < Job.files THEN Continues("put")
                   ELSE IF Job.bench = "write-data" THEN Ran("ready") ELSE Continues("scan")
  BY DEF Record
<1>2. step = "record" /\ store' = store
  BY DEF Record
<1>3. jobs # <<>> /\ n \in Nat /\ n < Job.files /\ store[<<Prefix, n>>] > 0
  BY <1>2, Running DEF BenchInv, Counting, Written
<1>4. FileUri(n) \in DOMAIN store /\ store[FileUri(n)] > 0
  <2>1. <<Prefix, n>> \in Keyspace
    BY <1>3, FirstFile, FileHasKey
  <2>2. QED BY <1>3, <2>1 DEF FileUri, BenchInv, StoreTyped
<1>5. StoreTyped' /\ RecordedFileExists'
  BY <1>1, <1>2, <1>4, ServedKeeps
<1>6. \/ Failed("commit") /\ n' = 0
      \/ Ran("ready") /\ n' = n + 1
      \/ Continues("put") /\ n' = n + 1 /\ n + 1 < Job.files
      \/ Continues("scan") /\ n' = n + 1
  BY <1>1
<1>7. CASE Failed("commit") /\ n' = 0
  BY <1>3, <1>5, <1>7, FailedIs, EndingKeeps
<1>8. CASE Ran("ready") /\ n' = n + 1
  BY <1>3, <1>5, <1>8, RanIs, EndingKeeps
<1>9. CASE \/ Continues("put") /\ n' = n + 1 /\ n + 1 < Job.files
           \/ Continues("scan") /\ n' = n + 1
  BY <1>3, <1>5, <1>9, GoingOnKeeps DEF Continues, suiteVars
<1>10. QED BY <1>6, <1>7, <1>8, <1>9

-----------------------------------------------------------------------------
(* Passes over the data                                                     *)

LEMMA DatasetKeeps == ASSUME BenchInv, Dataset PROVE BenchInv'
<1>1. StoreTyped' /\ RecordedFileExists'
  BY WaitingKeeps DEF Dataset, worldVars
<1>2. /\ jobs # <<>> /\ n' = 0 /\ jobs' = jobs /\ plan' = plan /\ step' \in {"scan", "put"}
  BY Running DEF Dataset, Continues, suiteVars, BenchInv, Counting
<1>3. QED BY <1>1, <1>2, FirstFile, GoingOnKeeps

LEMMA ListKeeps == ASSUME BenchInv, List PROVE BenchInv'
<1>1. StoreTyped' /\ RecordedFileExists'
  BY WaitingKeeps DEF List, worldVars
<1>2. jobs # <<>> /\ n' \in Nat /\ jobs' = jobs /\ plan' = plan /\ step' = "scan"
  BY Running DEF List, Continues, suiteVars
<1>3. QED BY <1>1, <1>2, GoingOnKeeps

LEMMA ScanKeeps == ASSUME BenchInv, Scan PROVE BenchInv'
<1>1. StoreTyped' /\ RecordedFileExists'
  BY WaitingKeeps DEF Scan
<1>2. jobs # <<>> /\ n' \in Nat
  BY Running DEF Scan
<1>3. Failed("not stable") \/ Ran("ready") \/ Continues("scan") \/ Continues("jvm")
  BY DEF Scan
<1>4. CASE Failed("not stable") \/ Ran("ready")
  BY <1>1, <1>2, <1>4, FailedIs, RanIs, EndingKeeps
<1>5. CASE Continues("scan") \/ Continues("jvm")
  BY <1>1, <1>2, <1>5, GoingOnKeeps DEF Continues, suiteVars
<1>6. QED BY <1>3, <1>4, <1>5

LEMMA JvmKeeps == ASSUME BenchInv, Jvm PROVE BenchInv'
<1>1. StoreTyped' /\ RecordedFileExists'
  BY WaitingKeeps DEF Jvm, worldVars
<1>2. jobs # <<>> /\ n' \in Nat
  BY Running DEF Jvm
<1>3. Ran("scaffold") \/ Ended("ran", "ready", SparkRows)
  BY DEF Jvm
<1>4. QED BY <1>1, <1>2, <1>3, RanIs, EndedIs, EndingKeeps

\* What another process writes may replace the file of the commit to come.
LEMMA InterfereKeeps ==
    ASSUME BenchAssumption, BenchInv, NEW key \in DOMAIN store, NEW rows \in 1 .. MaxRows, Interfere(key, rows)
    PROVE  BenchInv'
<1>1. /\ plan' = plan /\ jobs' = jobs /\ step' = step /\ n' = n /\ catalog' = catalog
      /\ store' = [store EXCEPT ![key] = rows]
  BY DEF Interfere, suiteVars
<1>2. rows \in Nat /\ rows > 0
  BY DEF BenchAssumption
<1>3. StoreTyped' /\ RecordedFileExists'
  BY <1>1, <1>2, WritingKeeps
<1>4. Job' = Job /\ Prefix' = Prefix
  BY <1>1 DEF Job, Prefix, DatasetOf
<1>5. SuiteTyped' /\ Counting'
  BY <1>1, <1>4 DEF BenchInv, SuiteTyped, Counting
<1>6. Written'
  <2> SUFFICES ASSUME step = "record" PROVE store'[<<Prefix, n>>] > 0
    BY <1>1, <1>4 DEF Written
  <2>1. store[<<Prefix, n>>] > 0
    BY DEF BenchInv, Written
  <2>2. <<Prefix, n>> \in Keyspace
    BY Running, FirstFile, FileHasKey DEF BenchInv, Counting
  <2>3. QED BY <1>1, <1>2, <2>1, <2>2 DEF BenchInv, StoreTyped
<1>7. QED BY <1>3, <1>5, <1>6 DEF BenchInv

-----------------------------------------------------------------------------

LEMMA StepKeeps == ASSUME BenchAssumption, BenchInv, [Next]_vars PROVE BenchInv'
<1>1. CASE UNCHANGED vars
  <2>1. /\ plan' = plan /\ jobs' = jobs /\ step' = step /\ n' = n /\ catalog' = catalog /\ store' = store
    BY <1>1 DEF vars, suiteVars, benchVars, worldVars
  <2>2. Job' = Job /\ Prefix' = Prefix
    BY <2>1 DEF Job, Prefix, DatasetOf
  <2>3. QED BY <2>1, <2>2, WaitingKeeps DEF BenchInv, SuiteTyped, Counting, Written
<1>2. CASE Next
  BY <1>2, InvokeKeeps, ExitKeeps, SpawnKeeps, SpawnFailsKeeps, BreaksKeeps, SetupKeeps, SerialCommitKeeps,
     ConcurrentKeeps, JoinKeeps, RoundtripKeeps, WarmPutKeeps, PutKeeps, RecordKeeps, DatasetKeeps, ListKeeps,
     ScanKeeps, JvmKeeps, InterfereKeeps DEF Next
<1>3. QED BY <1>1, <1>2

-----------------------------------------------------------------------------
(* What the reports say                                                     *)

\* What a report has to keep of its word.
SoundReport(r) ==
    /\ r.bench = "commit" /\ r.status \in {"ready", "request errors"} =>
           /\ r.tally.ok + r.tally.conflict + r.tally.errors = r.sent
           /\ r.tally.errors > 0 => r.outcome = "failed"
    /\ r.quiet /\ r.outcome = "ran" => \A p, q \in DOMAIN r.seen : r.seen[p] = r.seen[q]

Reports == (\E R : results \in Seq(R)) /\ \A i \in DOMAIN results : SoundReport(results[i])

\* Which benches reach a step.
CommitSteps == {"serial", "concurrent"}
DataSteps == {"warm", "put", "record", "roundtrip", "dataset", "list", "scan", "jvm"}
AtBench ==
    /\ step \in CommitSteps => Job.bench = "commit"
    /\ step \in DataSteps => Job.bench # "commit"
    /\ step \notin {"idle", "scan", "jvm"} => Job.bench # "rust-vs-jvm"

Counters ==
    /\ tally \in [ok : Nat, conflict : Nat, errors : Nat, replayed : Nat, rerun : BOOLEAN]
    /\ sent \in [Writers -> Nat] /\ DOMAIN pending = Writers

\* A key is kept by a catalog in which the table of the commit bench was written.
Tables ==
    /\ DOMAIN catalog = Spaces
    /\ \A t \in Spaces : DOMAIN catalog[t] = {"exists", "touched", "last"} /\ catalog[t].touched \in BOOLEAN
    /\ keys = {} \/ catalog["commit"].touched

\* Nothing is counted before the concurrent phase.
NothingCounted ==
    /\ tally.ok = 0 /\ tally.conflict = 0 /\ tally.errors = 0
    /\ \A w \in Writers : sent[w] = 0 /\ pending[w] = <<>>
Started == step \in {"roundtrip", "setup", "serial"} => NothingCounted

\* A request is counted or still waited for.
Waiting == {w \in Writers : pending[w] # <<>>}
Accounted ==
    step = "concurrent" => tally.ok + tally.conflict + tally.errors + Cardinality(Waiting) = Requests

\* On a table it was the first to write to, the bench knows every key of the
\* catalog: a serial one below its counter, or one of a writer, up to the request
\* the writer waits for.
NthKey(i) == IF i < Warmups THEN <<<<"warmup">>, WarmupBase + i>> ELSE <<<<"sequential">>, i - Warmups>>
Latest(w) == w * Stride + sent[w]
UsedBy(k, w, c) == k = <<Scope(w), c>> /\ c <= Latest(w) /\ (pending[w] # <<>> => c < Latest(w))
Used(k) == (\E i \in Nat : i < n /\ k = NthKey(i)) \/ (\E w \in Writers, c \in Nat : UsedBy(k, w, c))
OwnKeys ==
    step \in CommitSteps /\ ~ tally.rerun =>
        /\ \A k \in keys : Used(k)
        /\ \A w \in Writers : pending[w] # <<>> => pending[w] = <<KeyOf(Scope(w), Latest(w))>>

\* What the store has is what a cached file has, and each pass counted it.
Plain == Total(Listed, ToRead)
Cached ==
    /\ cache \in [Parts -> Nat]
    /\ step \notin {"idle", "scan", "jvm"} => seen = <<>> /\ cache = NoFiles
    /\ step # "idle" /\ quiet => \A f \in Parts : cache[f] \in {0, store[<<Prefix, f>>]}
CountPlain == \A p \in DOMAIN seen : seen[p] = Plain
Passed == (\E R : seen \in Seq(R)) /\ (step \in {"scan", "jvm"} /\ quiet => CountPlain)

MeasureInv ==
    /\ Reports /\ AtBench /\ Counters /\ Tables
    /\ Started /\ Accounted /\ OwnKeys /\ FirstRunMeasuresCommits
    /\ Cached /\ Passed

-----------------------------------------------------------------------------
(* Appending to sequences                                                   *)

LEMMA Appended ==
    ASSUME NEW R, NEW s \in Seq(R), NEW e, NEW t, t = Append(s, e)
    PROVE  /\ t \in Seq(R \cup {e})
           /\ \A p \in DOMAIN t : (p \in DOMAIN s /\ t[p] = s[p]) \/ t[p] = e
<1>1. s \in Seq(R \cup {e})
  OBVIOUS
<1>2. QED BY <1>1

LEMMA SameReports == ASSUME Reports, results' = results PROVE Reports'
<1>1. PICK R : results \in Seq(R)
  BY DEF Reports
<1>2. ASSUME NEW i \in DOMAIN results' PROVE SoundReport(results'[i])
  <2>1. i \in DOMAIN results /\ results'[i] = results[i]
    OBVIOUS
  <2>2. SoundReport(results[i])
    BY <2>1 DEF Reports
  <2>3. QED BY <2>1, <2>2
<1>3. results' \in Seq(R)
  BY <1>1
<1>4. (\A i \in DOMAIN results : SoundReport(results[i]))'
  BY <1>2 DEF SoundReport
<1>5. QED BY <1>3, <1>4 DEF Reports

LEMMA AppendsReport ==
    ASSUME Reports, NEW r, SoundReport(r), results' = Append(results, r)
    PROVE  Reports'
<1>1. PICK R : results \in Seq(R)
  BY DEF Reports
<1>2. results' \in Seq(R \cup {r})
  BY <1>1, Appended
<1>3. ASSUME NEW i \in DOMAIN results' PROVE SoundReport(results'[i])
  <2>1. (i \in DOMAIN results /\ results'[i] = results[i]) \/ results'[i] = r
    BY <1>1, <1>3, Appended
  <2>2. i \in DOMAIN results => SoundReport(results[i])
    BY DEF Reports
  <2>3. QED BY <2>1, <2>2
<1>4. (\A i \in DOMAIN results : SoundReport(results[i]))'
  BY <1>3 DEF SoundReport
<1>5. QED BY <1>2, <1>4 DEF Reports

\* A step that ends the bench only has to make a sound report, keep the counters
\* and the tables, and leave a cache.
LEMMA EndsSound ==
    ASSUME MeasureInv, step' = "idle", NEW r, SoundReport(r), results' = Append(results, r),
           Counters', Tables', FirstRunMeasuresCommits', cache' \in [Parts -> Nat], \E R : seen' \in Seq(R)
    PROVE  MeasureInv'
<1>1. Reports'
  BY AppendsReport DEF MeasureInv
<1>2. AtBench' /\ Started' /\ Accounted' /\ OwnKeys' /\ Cached' /\ Passed'
  BY DEF AtBench, CommitSteps, DataSteps, Started, Accounted, OwnKeys, Cached, Passed
<1>3. QED BY <1>1, <1>2 DEF MeasureInv

LEMMA FreshCounters ==
    ASSUME FreshBench, tally' = NoTally
    PROVE  Counters' /\ FirstRunMeasuresCommits' /\ NothingCounted' /\ seen' = <<>> /\ quiet' /\ n' = 0
BY DEF FreshBench, NoTally, Counters, FirstRunMeasuresCommits, NothingCounted

-----------------------------------------------------------------------------
(* What a request does to the tables and to the counters                    *)

LEMMA ServedTables ==
    ASSUME BenchAssumption, Tables, NEW key, NEW STATE a, NEW STATE file, Served(key, a, file),
           key # <<>> => Job.bench = "commit"
    PROVE  Tables' /\ (keys' = keys \/ (key # <<>> /\ keys' = keys \cup {key}))
<1>1. "commit" \in Spaces
  BY DEF BenchAssumption
<1>2. CASE ~ a.applied
  BY <1>2 DEF Served, Tables
<1>3. CASE a.applied
  <2>1. catalog' = [catalog EXCEPT ![Job.bench].touched = TRUE, ![Job.bench].last = file]
    BY <1>3 DEF Served
  <2>2. DOMAIN catalog' = Spaces
    BY <2>1 DEF Tables
  <2>3. ASSUME NEW t \in Spaces
        PROVE  /\ DOMAIN catalog'[t] = {"exists", "touched", "last"}
               /\ catalog'[t].touched = IF t = Job.bench THEN TRUE ELSE catalog[t].touched
    BY <2>1 DEF Tables
  <2>4. keys' = IF key # <<>> THEN keys \cup {key} ELSE keys
    BY <1>3 DEF Served
  <2>5. key # <<>> => catalog'["commit"].touched
    BY <1>1, <2>3
  <2>6. keys = {} \/ catalog'["commit"].touched
    BY <1>1, <2>3 DEF Tables
  <2>7. ASSUME NEW t \in Spaces
        PROVE  DOMAIN catalog'[t] = {"exists", "touched", "last"} /\ catalog'[t].touched \in BOOLEAN
    BY <2>3 DEF Tables
  <2>8. QED BY <2>2, <2>4, <2>5, <2>6, <2>7 DEF Tables
<1>4. QED BY <1>2, <1>3

\* An answer counts once, and as a replay only when the catalog knew its key.
LEMMA CountedIs ==
    ASSUME Counters, NEW key, NEW a \in Answers(key)
    PROVE  /\ Counted(a) \in [ok : Nat, conflict : Nat, errors : Nat, replayed : Nat, rerun : BOOLEAN]
           /\ Counted(a).ok + Counted(a).conflict + Counted(a).errors = tally.ok + tally.conflict + tally.errors + 1
           /\ Counted(a).rerun = tally.rerun
           /\ Counted(a).replayed = tally.replayed \/ (key # <<>> /\ key \in keys)
<1> DEFINE r == Counted(a)
<1>1. a.answer \in {"ok", "conflict", "error"} /\ (a.answer = "ok" /\ ~ a.applied => key # <<>> /\ key \in keys)
  BY DEF Answers
<1>2. /\ r.ok = tally.ok + (IF a.answer = "ok" THEN 1 ELSE 0)
      /\ r.conflict = tally.conflict + (IF a.answer = "conflict" THEN 1 ELSE 0)
      /\ r.errors = tally.errors + (IF a.answer = "error" THEN 1 ELSE 0)
      /\ r.replayed = tally.replayed + (IF a.answer = "ok" /\ ~ a.applied THEN 1 ELSE 0)
      /\ r.rerun = tally.rerun
  BY DEF Counters, Counted
<1>3. r = [r EXCEPT !.ok = @] /\ DOMAIN r = {"ok", "conflict", "errors", "replayed", "rerun"}
      /\ r = [f \in {"ok", "conflict", "errors", "replayed", "rerun"} |-> r[f]]
  BY DEF Counters, Counted
<1>4. /\ tally.ok \in Nat /\ tally.conflict \in Nat /\ tally.errors \in Nat /\ tally.replayed \in Nat
      /\ tally.rerun \in BOOLEAN
  BY DEF Counters
<1> HIDE DEF r
<1>5. r \in [ok : Nat, conflict : Nat, errors : Nat, replayed : Nat, rerun : BOOLEAN]
  BY <1>2, <1>3, <1>4
<1>6. r.ok + r.conflict + r.errors = tally.ok + tally.conflict + tally.errors + 1
  BY <1>1, <1>2, <1>4
<1>7. r.replayed = tally.replayed \/ (key # <<>> /\ key \in keys)
  BY <1>1, <1>2, <1>4
<1>8. QED BY <1>2, <1>5, <1>6, <1>7 DEF r

-----------------------------------------------------------------------------
(* The driver                                                               *)

LEMMA InitSound == ASSUME BenchAssumption, Init PROVE MeasureInv
<1>1. Reports
  <2>1. results \in Seq({})
    BY DEF Init
  <2>2. QED BY <2>1 DEF Reports, Init
<1>2. AtBench /\ Started /\ Accounted /\ OwnKeys
  BY DEF Init, AtBench, CommitSteps, DataSteps, Started, Accounted, OwnKeys
<1>3. Counters /\ FirstRunMeasuresCommits
  BY DEF Init, Counters, NoTally, FirstRunMeasuresCommits
<1>4. Tables
  BY DEF Init, Tables
<1>5. Cached /\ Passed
  <2>1. seen \in Seq({})
    BY DEF Init
  <2>2. QED BY <2>1 DEF Init, Cached, Passed, NoFiles
<1>6. QED BY <1>1, <1>2, <1>3, <1>4, <1>5 DEF MeasureInv

\* Between two benches nothing of what the invariant is about changes.
LEMMA IdleSound ==
    ASSUME MeasureInv, Invoke \/ Exit
    PROVE  MeasureInv'
<1>1. step' = "idle" /\ tally' = tally /\ pending' = pending /\ sent' = sent /\ seen' = seen
      /\ cache' = cache /\ catalog' = catalog /\ keys' = keys
  BY DEF Invoke, Exit, benchVars, worldVars
<1>2. Reports'
  <2>1. CASE Invoke
    BY <2>1, SameReports DEF Invoke, MeasureInv
  <2>2. CASE Exit
    <3>1. results' \in Seq({}) /\ DOMAIN results' = {}
      BY <2>2 DEF Exit
    <3>2. QED BY <3>1 DEF Reports
  <2>3. QED BY <2>1, <2>2
<1>3. Counters' /\ Tables' /\ FirstRunMeasuresCommits'
  BY <1>1 DEF MeasureInv, Counters, Tables, FirstRunMeasuresCommits
<1>4. AtBench' /\ Started' /\ Accounted' /\ OwnKeys' /\ Cached' /\ Passed'
  BY <1>1 DEF MeasureInv, AtBench, CommitSteps, DataSteps, Started, Accounted, OwnKeys, Cached, Passed
<1>5. QED BY <1>2, <1>3, <1>4 DEF MeasureInv

LEMMA SpawnSound == ASSUME BenchInv, MeasureInv, Spawn PROVE MeasureInv'
<1>1. Counters' /\ FirstRunMeasuresCommits' /\ NothingCounted' /\ seen' = <<>> /\ cache' = NoFiles
      /\ catalog' = catalog /\ keys' = keys /\ results' = results /\ jobs' = jobs /\ jobs # <<>>
  BY FreshCounters DEF Spawn, Continues, suiteVars
<1>2. step' = First(Job.bench) /\ Job' = Job /\ Job \in Runnable
  BY <1>1, FirstFile DEF Spawn, Continues, Job
<1>3. Job.bench \in {"commit", "write-data", "cache-scan", "rust-vs-jvm", "read-write"}
  BY <1>2 DEF Runnable
<1>4. /\ step' \in {"setup", "dataset", "scan", "roundtrip"} /\ (step' # "setup" => Job.bench # "commit")
      /\ (step' # "scan" => Job.bench # "rust-vs-jvm")
  BY <1>2, <1>3 DEF First
<1>5. AtBench'
  BY <1>2, <1>4 DEF AtBench, CommitSteps, DataSteps
<1>6. Reports' /\ Tables'
  <2>1. Reports'
    BY <1>1, SameReports DEF MeasureInv
  <2>2. Tables'
    BY <1>1 DEF MeasureInv, Tables
  <2>3. QED BY <2>1, <2>2
<1>7. Started' /\ Accounted' /\ OwnKeys'
  BY <1>1, <1>4 DEF Started, Accounted, OwnKeys, CommitSteps
<1>8. Cached'
  BY <1>1 DEF Cached, NoFiles
<1>9. Passed'
  <2>1. seen' \in Seq({}) /\ DOMAIN seen' = {}
    BY <1>1
  <2>2. QED BY <2>1 DEF Passed, CountPlain
<1>10. QED BY <1>1, <1>5, <1>6, <1>7, <1>8, <1>9 DEF MeasureInv

\* What a bench adds to the results, however it ends.
LEMMA EndedReports ==
    ASSUME NEW STATE outcome, NEW STATE status, NEW STATE spark, Ended(outcome, status, spark)
    PROVE  /\ step' = "idle"
           /\ results' = Append(results,
                  [bench |-> Job.bench, outcome |-> outcome, status |-> status, spark |-> spark,
                   seen |-> seen', tally |-> tally', quiet |-> quiet, sent |-> Requests'])
BY DEF Ended

\* A bench that failed reports nothing, except for the errors of the commit bench.
LEMMA FailsSound ==
    ASSUME MeasureInv, NEW STATE reason, Failed(reason), reason \notin {"ready", "request errors"},
           Counters', Tables', FirstRunMeasuresCommits', cache' \in [Parts -> Nat], \E R : seen' \in Seq(R)
    PROVE  MeasureInv'
<1> DEFINE r == [bench |-> Job.bench, outcome |-> "failed", status |-> reason, spark |-> 0,
                 seen |-> seen', tally |-> tally', quiet |-> quiet, sent |-> Requests']
<1>1. step' = "idle" /\ results' = Append(results, r)
  BY EndedReports DEF Failed
<1>2. SoundReport(r)
  BY DEF SoundReport
<1> HIDE DEF r
<1>3. QED BY <1>1, <1>2, EndsSound

\* A bench other than commit that ran: its passes agree, as far as it was alone.
LEMMA RunsSound ==
    ASSUME MeasureInv, NEW STATE status, NEW STATE spark, Ended("ran", status, spark), Job.bench # "commit",
           quiet => \A p, q \in DOMAIN seen' : seen'[p] = seen'[q],
           Counters', Tables', FirstRunMeasuresCommits', cache' \in [Parts -> Nat], \E R : seen' \in Seq(R)
    PROVE  MeasureInv'
<1> DEFINE r == [bench |-> Job.bench, outcome |-> "ran", status |-> status, spark |-> spark,
                 seen |-> seen', tally |-> tally', quiet |-> quiet, sent |-> Requests']
<1>1. step' = "idle" /\ results' = Append(results, r)
  BY EndedReports
<1>2. SoundReport(r)
  BY DEF SoundReport
<1> HIDE DEF r
<1>3. QED BY <1>1, <1>2, EndsSound

LEMMA NothingSeen == ASSUME seen' = <<>> PROVE (\E R : seen' \in Seq(R)) /\ DOMAIN seen' = {}
<1>1. seen' \in Seq({}) /\ DOMAIN seen' = {}
  OBVIOUS
<1>2. QED BY <1>1

LEMMA BreakSound == ASSUME MeasureInv, SpawnFails \/ Breaks PROVE MeasureInv'
<1>1. FreshBench /\ tally' = NoTally /\ catalog' = catalog /\ keys' = keys /\ cache' = cache
  BY DEF SpawnFails, Breaks, worldVars
<1>2. Counters' /\ FirstRunMeasuresCommits' /\ \E R : seen' \in Seq(R)
  BY <1>1, FreshCounters, NothingSeen
<1>3. Tables' /\ cache' \in [Parts -> Nat]
  BY <1>1 DEF MeasureInv, Tables, Cached
<1>4. Failed("spawn") \/ Failed("broken")
  BY DEF SpawnFails, Breaks
<1>5. CASE Failed("spawn")
  <2> HIDE DEF Failed
  <2> QED BY <1>2, <1>3, <1>5, FailsSound
<1>6. CASE Failed("broken")
  BY <1>2, <1>3, <1>6, FailsSound
<1>7. QED BY <1>4, <1>5, <1>6

\* A step within a bench, before its passes over the data: nothing was seen or
\* cached, and the step has to account for the requests and the keys.
LEMMA OnwardSound ==
    ASSUME MeasureInv, step \notin {"idle", "scan", "jvm"}, step' \notin {"idle", "jvm"},
           results' = results, seen' = seen, cache' = cache,
           Counters', Tables', FirstRunMeasuresCommits', AtBench', Started', Accounted', OwnKeys'
    PROVE  MeasureInv'
<1>1. seen = <<>> /\ cache = NoFiles /\ cache \in [Parts -> Nat]
  BY DEF MeasureInv, Cached
<1>2. Reports'
  BY SameReports DEF MeasureInv
<1>3. Cached'
  BY <1>1 DEF Cached, NoFiles
<1>4. Passed'
  BY <1>1, NothingSeen DEF Passed, CountPlain
<1>5. QED BY <1>2, <1>3, <1>4 DEF MeasureInv

\* A bench other than commit goes on: no request is sent by a writer.
LEMMA MovesSound ==
    ASSUME MeasureInv, step \notin {"idle", "scan", "jvm"}, Job.bench # "commit", jobs' = jobs, results' = results,
           step' \in DataSteps \ {"jvm", "roundtrip"} \/ (step' = "setup" /\ step = "roundtrip"),
           seen' = seen, cache' = cache, tally' = tally, pending' = pending, sent' = sent,
           catalog' = catalog, keys' = keys
    PROVE  MeasureInv'
<1>1. Job' = Job
  BY DEF Job
<1>2. Counters' /\ Tables' /\ FirstRunMeasuresCommits'
  BY DEF MeasureInv, Counters, Tables, FirstRunMeasuresCommits
<1>3. AtBench' /\ Accounted' /\ OwnKeys'
  <2>1. Job.bench # "rust-vs-jvm"
    BY DEF MeasureInv, AtBench
  <2>2. QED BY <1>1, <2>1 DEF AtBench, CommitSteps, DataSteps, Accounted, OwnKeys
<1>4. Started'
  <2>1. CASE step' \in DataSteps \ {"jvm", "roundtrip"}
    BY <2>1 DEF Started, DataSteps
  <2>2. CASE step' = "setup" /\ step = "roundtrip"
    BY <2>2 DEF MeasureInv, Started, NothingCounted
  <2>3. QED BY <2>1, <2>2
<1>5. step' \notin {"idle", "jvm"}
  BY DEF DataSteps
<1>6. QED BY <1>2, <1>3, <1>4, <1>5, OnwardSound

-----------------------------------------------------------------------------
(* The commit bench                                                         *)

LEMMA SetupSound == ASSUME BenchAssumption, BenchInv, MeasureInv, Setup PROVE MeasureInv'
<1>1. /\ step = "setup" /\ jobs' = jobs /\ results' = results /\ seen' = seen /\ cache' = cache
      /\ pending' = pending /\ sent' = sent /\ keys' = keys
      /\ catalog' = [catalog EXCEPT ![Job.bench].exists = TRUE]
      /\ tally' = [NoTally EXCEPT !.rerun = catalog[Job.bench].touched]
  BY DEF Setup, Continues, suiteVars
<1>2. Job \in Runnable /\ Job' = Job
  BY <1>1, Running, FirstFile DEF Job
<1>3. step' = IF Job.bench = "commit" THEN "serial" ELSE IF Job.bench = "write-data" THEN "warm" ELSE "put"
  BY DEF Setup, Continues
<1>4. /\ DOMAIN catalog' = DOMAIN catalog
      /\ \A t \in DOMAIN catalog : DOMAIN catalog'[t] = DOMAIN catalog[t] /\ catalog'[t].touched = catalog[t].touched
  BY <1>1
<1>5. Tables'
  <2>1. "commit" \in Spaces
    BY DEF BenchAssumption
  <2>2. QED BY <1>1, <1>4, <2>1 DEF MeasureInv, Tables
<1>6. NothingCounted /\ \A w \in Writers : pending[w] = <<>>
  BY <1>1 DEF MeasureInv, Started, NothingCounted
<1>7. /\ tally'.ok = 0 /\ tally'.conflict = 0 /\ tally'.errors = 0 /\ tally'.replayed = 0
      /\ tally'.rerun = catalog[Job.bench].touched
      /\ tally' = [ok |-> 0, conflict |-> 0, errors |-> 0, replayed |-> 0, rerun |-> catalog[Job.bench].touched]
  BY <1>1 DEF NoTally
<1>8. catalog[Job.bench].touched \in BOOLEAN
  <2>1. Job.bench # "rust-vs-jvm" => Job.bench \in Spaces
    BY <1>2 DEF BenchAssumption, Runnable
  <2>2. Job.bench # "rust-vs-jvm"
    BY <1>1, <1>2 DEF MeasureInv, AtBench
  <2>3. QED BY <2>1, <2>2 DEF MeasureInv, Tables
<1>9. Counters' /\ FirstRunMeasuresCommits'
  <2>1. tally' \in [ok : Nat, conflict : Nat, errors : Nat, replayed : Nat, rerun : BOOLEAN]
    BY <1>7, <1>8
  <2>2. QED BY <1>1, <1>7, <2>1 DEF MeasureInv, Counters, FirstRunMeasuresCommits
<1>10. AtBench'
  <2>1. Job.bench # "rust-vs-jvm"
    BY <1>1 DEF MeasureInv, AtBench
  <2>2. QED BY <1>2, <1>3, <2>1 DEF AtBench, CommitSteps, DataSteps
<1>11. Started' /\ Accounted'
  BY <1>1, <1>3, <1>6, <1>7 DEF Started, NothingCounted, Accounted
<1>12. OwnKeys'
  <2> SUFFICES ASSUME step' = "serial", ~ tally'.rerun
               PROVE  keys' = {} /\ \A w \in Writers : pending'[w] = <<>>
    BY <1>3 DEF OwnKeys, CommitSteps
  <2>1. Job.bench = "commit"
    BY <1>3
  <2>2. QED BY <1>1, <1>6, <1>7, <2>1 DEF MeasureInv, Tables
<1>13. step' \notin {"idle", "jvm"} /\ step \notin {"idle", "scan", "jvm"}
  BY <1>1, <1>3
<1>14. QED BY <1>1, <1>5, <1>9, <1>10, <1>11, <1>12, <1>13, OnwardSound

\* A key of a writer is none of the serial ones, and of no other writer.
LEMMA WritersKeys ==
    ASSUME NEW w \in Writers, NEW c
    PROVE  /\ \A i \in Nat : NthKey(i) # <<Scope(w), c>>
           /\ \A v \in Writers, d \in Nat : <<Scope(v), d>> = <<Scope(w), c>> => v = w /\ d = c
<1>1. ASSUME NEW i \in Nat, NthKey(i) = <<Scope(w), c>> PROVE FALSE
  <2>1. NthKey(i)[1] = <<"warmup">> \/ NthKey(i)[1] = <<"sequential">>
    BY DEF NthKey
  <2>2. NthKey(i)[1] = <<"concurrent", w>>
    BY <1>1 DEF Scope
  <2>3. 2 \in DOMAIN <<"concurrent", w>> /\ 2 \notin DOMAIN <<"warmup">> /\ 2 \notin DOMAIN <<"sequential">>
    OBVIOUS
  <2>4. QED BY <2>1, <2>2, <2>3
<1>2. QED BY <1>1 DEF Scope

\* The serial keys are those of their numbers, and the catalog knows none to come.
LEMMA SerialKeyIsNew ==
    ASSUME BenchAssumption, OwnKeys, step = "serial", n \in Nat, ~ tally.rerun
    PROVE  SerialKey(n) \in {<<>>, NthKey(n)} /\ NthKey(n) \notin keys
<1>1. SerialKey(n) \in {<<>>, NthKey(n)}
  BY DEF SerialKey, KeyOf, NthKey
<1>2. Warmups \in Nat /\ WarmupBase \in Nat
  BY DEF BenchAssumption
<1>3. ASSUME NEW i \in Nat, i < n PROVE NthKey(i) # NthKey(n)
  <2>1. CASE n < Warmups
    BY <1>2, <1>3, <2>1 DEF NthKey
  <2>2. CASE ~ (n < Warmups) /\ i < Warmups
    <3>1. NthKey(n)[1] = <<"sequential">> /\ NthKey(i)[1] = <<"warmup">>
      BY <2>2 DEF NthKey
    <3>2. QED BY <3>1
  <2>3. CASE ~ (n < Warmups) /\ ~ (i < Warmups)
    BY <1>2, <1>3, <2>3 DEF NthKey
  <2>4. QED BY <2>1, <2>2, <2>3
<1>4. ASSUME NEW w \in Writers, NEW c \in Nat PROVE NthKey(n) # <<Scope(w), c>>
  BY WritersKeys
<1>5. ASSUME NthKey(n) \in keys PROVE FALSE
  <2>1. Used(NthKey(n))
    BY <1>5 DEF OwnKeys, CommitSteps
  <2> HIDE DEF NthKey
  <2>2. QED BY <2>1, <1>3, <1>4 DEF Used, UsedBy
<1>6. QED BY <1>1, <1>5

LEMMA SerialCommitSound == ASSUME BenchAssumption, BenchInv, MeasureInv, SerialCommit PROVE MeasureInv'
<1>1. PICK a \in Answers(SerialKey(n)) :
        /\ Served(SerialKey(n), a, <<>>)
        /\ tally' = [tally EXCEPT !.replayed = Counted(a).replayed]
        /\ UNCHANGED <<pending, sent, over, listing, seen, quiet>>
        /\ IF a.answer # "ok" THEN Failed("conflict or error") /\ n' = 0
           ELSE n' = n + 1 /\ Continues(IF n + 1 = Warmups + Job.files THEN "concurrent" ELSE "serial")
  BY DEF SerialCommit
<1>2. step = "serial" /\ cache' = cache /\ pending' = pending /\ sent' = sent /\ seen' = seen
  BY <1>1 DEF SerialCommit
<1>3. n \in Nat /\ Job.bench = "commit"
  BY <1>2, Running DEF MeasureInv, AtBench, CommitSteps
<1>4. Tables' /\ (keys' = keys \/ (SerialKey(n) # <<>> /\ keys' = keys \cup {SerialKey(n)}))
  <2>1. SerialKey(n) # <<>> => Job.bench = "commit"
    BY <1>3
  <2> DEFINE k == SerialKey(n)
             file == <<>>
  <2>2. Served(k, a, file) /\ Tables /\ (k # <<>> => Job.bench = "commit")
    BY <1>1, <2>1 DEF MeasureInv
  <2> HIDE DEF k, file
  <2>3. Tables' /\ (keys' = keys \/ (k # <<>> /\ keys' = keys \cup {k}))
    BY <2>2, ServedTables
  <2>4. QED BY <2>3 DEF k
<1>5. Counters /\ NothingCounted
  BY <1>2 DEF MeasureInv, Started
<1>6. /\ Counted(a).replayed \in Nat
      /\ Counted(a).replayed = tally.replayed \/ (SerialKey(n) # <<>> /\ SerialKey(n) \in keys)
  BY <1>1, <1>5, CountedIs
<1>7. /\ tally' \in [ok : Nat, conflict : Nat, errors : Nat, replayed : Nat, rerun : BOOLEAN]
      /\ tally'.rerun = tally.rerun /\ tally'.ok = 0 /\ tally'.conflict = 0 /\ tally'.errors = 0
      /\ tally'.replayed = Counted(a).replayed
  BY <1>1, <1>5, <1>6 DEF Counters, NothingCounted
<1>8. Counters'
  BY <1>2, <1>5, <1>7 DEF Counters
<1>9. FirstRunMeasuresCommits'
  <2> SUFFICES ASSUME ~ tally.rerun PROVE tally'.replayed = 0
    BY <1>7 DEF FirstRunMeasuresCommits
  <2>1. SerialKey(n) = <<>> \/ SerialKey(n) \notin keys
    BY <1>2, <1>3, SerialKeyIsNew DEF MeasureInv
  <2>2. QED BY <1>6, <1>7, <2>1 DEF MeasureInv, FirstRunMeasuresCommits
<1>10. cache' \in [Parts -> Nat] /\ \E R : seen' \in Seq(R)
  BY <1>2 DEF MeasureInv, Cached, Passed
<1>11. CASE a.answer # "ok"
  <2>1. Failed("conflict or error")
    BY <1>1, <1>11
  <2>2. QED BY <1>4, <1>8, <1>9, <1>10, <2>1, FailsSound
<1>12. CASE a.answer = "ok"
  <2>1. n' = n + 1 /\ step' \in CommitSteps /\ jobs' = jobs /\ results' = results
    BY <1>1, <1>12 DEF Continues, suiteVars, CommitSteps
  <2>2. Job' = Job
    BY <2>1 DEF Job
  <2>3. AtBench' /\ Started'
    BY <1>2, <1>3, <1>5, <1>7, <2>1, <2>2 DEF AtBench, CommitSteps, DataSteps, Started, NothingCounted
  <2>4. Accounted'
    <3>1. Waiting' = {}
      BY <1>2, <1>5 DEF Waiting, NothingCounted
    <3>2. Requests' = 0
      <4>1. Requests = 0
        BY <1>5, TotalRequests, TotalOfNumbers DEF Counters, NothingCounted, BenchAssumption
      <4>2. Requests' = Requests
        BY <1>2, TotalRequests DEF BenchAssumption
      <4>3. QED BY <4>1, <4>2
    <3>3. QED BY <1>7, <3>1, <3>2, FS_EmptySet DEF Accounted
  <2>5. OwnKeys'
    <3> SUFFICES ASSUME ~ tally.rerun
                 PROVE  /\ \A k \in keys' : Used(k)'
                        /\ \A w \in Writers : pending'[w] = <<>>
      BY <1>7 DEF OwnKeys
    <3>1. ASSUME NEW k \in keys' PROVE Used(k)'
      <4>1. CASE k \in keys
        <5>1. Used(k)
          BY <1>2, <4>1 DEF MeasureInv, OwnKeys, CommitSteps
        <5>2. CASE \E i \in Nat : i < n /\ k = NthKey(i)
          BY <1>3, <2>1, <5>2 DEF Used
        <5>3. CASE \E w \in Writers, c \in Nat : UsedBy(k, w, c)
          <6>1. PICK w \in Writers, c \in Nat : UsedBy(k, w, c)
            BY <5>3
          <6>2. UsedBy(k, w, c)'
            BY <1>2, <6>1 DEF UsedBy, Latest
          <6>3. QED BY <6>2 DEF Used
        <5>4. QED BY <5>1, <5>2, <5>3 DEF Used
      <4>2. CASE k \notin keys
        <5>1. k = NthKey(n)
          BY <1>2, <1>3, <1>4, <4>2, SerialKeyIsNew DEF MeasureInv
        <5>2. QED BY <1>3, <2>1, <5>1 DEF Used
      <4>3. QED BY <4>1, <4>2
    <3>2. QED BY <1>2, <1>5, <3>1 DEF NothingCounted
  <2>6. step' \notin {"idle", "jvm"} /\ step \notin {"idle", "scan", "jvm"}
    BY <1>2, <2>1 DEF CommitSteps
  <2>7. QED BY <1>2, <1>4, <1>8, <1>9, <2>1, <2>3, <2>4, <2>5, <2>6, OnwardSound
<1>13. QED BY <1>11, <1>12

LEMMA LatestIs == ASSUME BenchAssumption, Counters, NEW w \in Writers PROVE Latest(w) \in Nat
<1>1. w \in Nat /\ Stride \in Nat /\ sent[w] \in Nat
  BY DEF BenchAssumption, Counters
<1>2. w * Stride \in Nat
  BY <1>1
<1>3. QED BY <1>1, <1>2 DEF Latest

LEMMA SendSound ==
    ASSUME BenchAssumption, BenchInv, MeasureInv, NEW w \in Writers, Send(w)
    PROVE  MeasureInv'
<1>1. /\ step = "concurrent" /\ step' = step /\ pending[w] = <<>>
      /\ sent' = [sent EXCEPT ![w] = @ + 1]
      /\ pending' = [pending EXCEPT ![w] = <<KeyOf(Scope(w), w * Stride + sent[w] + 1)>>]
      /\ jobs' = jobs /\ results' = results /\ seen' = seen /\ cache' = cache /\ tally' = tally /\ n' = n
      /\ catalog' = catalog /\ keys' = keys
  BY DEF Send, suiteVars, worldVars
<1>2. Counters /\ sent \in [Writers -> Nat] /\ DOMAIN pending = Writers /\ IsFiniteSet(Writers)
  BY DEF MeasureInv, Counters, BenchAssumption
<1>3. Counters'
  <2>1. sent' \in [Writers -> Nat]
    <3>1. sent[w] + 1 \in Nat
      BY <1>2
    <3>2. QED BY <1>1, <1>2, <3>1
  <2>2. DOMAIN pending' = Writers
    BY <1>1, <1>2
  <2>3. QED BY <1>1, <1>2, <2>1, <2>2 DEF Counters
<1>4. Tables' /\ FirstRunMeasuresCommits'
  BY <1>1 DEF MeasureInv, Tables, FirstRunMeasuresCommits
<1>5. Job' = Job
  BY <1>1 DEF Job
<1>6. AtBench' /\ Started'
  BY <1>1, <1>5 DEF MeasureInv, AtBench, CommitSteps, DataSteps, Started
<1>7. Accounted'
  <2>1. Requests' = Requests + 1 /\ Requests \in Nat
    <3>1. sent' = [sent EXCEPT ![w] = @ + 1]
      BY <1>1
    <3>2. Total(sent', Writers) = Total(sent, Writers) + 1
      BY <1>2, <3>1, OneMore
    <3>3. QED BY <1>2, <3>2, TotalRequests, TotalOfNumbers
  <2>2. Waiting' = Waiting \cup {w} /\ w \notin Waiting
    <3>1. pending[w] = <<>> /\ pending'[w] # <<>>
          /\ \A v \in Writers : v # w => pending'[v] = pending[v]
      BY <1>1, <1>2
    <3>2. QED BY <3>1 DEF Waiting
  <2>3. IsFiniteSet(Waiting)
    BY <1>2, FS_Subset DEF Waiting
  <2>4. Cardinality(Waiting') = Cardinality(Waiting) + 1 /\ Cardinality(Waiting) \in Nat
    BY <2>2, <2>3, FS_AddElement, FS_CardinalityType
  <2>5. tally.ok + tally.conflict + tally.errors + Cardinality(Waiting) = Requests
    BY <1>1 DEF MeasureInv, Accounted
  <2>6. tally.ok \in Nat /\ tally.conflict \in Nat /\ tally.errors \in Nat
    BY <1>2 DEF Counters
  <2>7. tally.ok + tally.conflict + tally.errors + Cardinality(Waiting') = Requests'
    <3>1. tally.ok + tally.conflict + tally.errors + (Cardinality(Waiting) + 1) = Requests + 1
      BY ONLY <2>1, <2>4, <2>5, <2>6, AccountGrows
    <3>2. QED BY ONLY <2>1, <2>4, <3>1
  <2>8. QED BY <1>1, <2>7 DEF Accounted
<1>8. OwnKeys'
  <2> SUFFICES ASSUME ~ tally.rerun
               PROVE  /\ \A k \in keys : Used(k)'
                      /\ \A v \in Writers : pending'[v] # <<>> => pending'[v] = <<KeyOf(Scope(v), Latest(v)')>>
    BY <1>1, <1>5 DEF OwnKeys, KeyOf
  <2>1. Latest(w)' = Latest(w) + 1 /\ \A v \in Writers : v # w => Latest(v)' = Latest(v)
    <3>1. w * Stride \in Nat /\ sent[w] \in Nat
      BY <1>2 DEF BenchAssumption
    <3>2. sent'[w] = sent[w] + 1 /\ \A v \in Writers : v # w => sent'[v] = sent[v]
      BY <1>1, <1>2
    <3>3. \A v \in Writers : v # w => Latest(v)' = Latest(v)
      BY <3>2 DEF Latest
    <3> DEFINE b == w * Stride
    <3>4. Latest(w) = b + sent[w] /\ Latest(w)' = b + sent'[w] /\ b \in Nat
      BY <3>1 DEF Latest
    <3> HIDE DEF b
    <3>5. Latest(w)' = Latest(w) + 1
      BY <3>1, <3>2, <3>4
    <3>6. QED BY <3>3, <3>5
  <2>2. pending'[w] = <<KeyOf(Scope(w), Latest(w)')>>
    <3>1. w * Stride \in Nat /\ sent[w] \in Nat
      BY <1>2 DEF BenchAssumption
    <3>2. w * Stride + sent[w] + 1 = Latest(w)'
      BY <1>1, <1>2, <3>1 DEF Latest
    <3>3. QED BY <1>1, <1>2, <3>2
  <2>3. \A v \in Writers : v # w => pending'[v] = pending[v]
    BY <1>1, <1>2
  <2>4. ASSUME NEW k \in keys PROVE Used(k)'
    <3>1. Used(k)
      BY <1>1 DEF MeasureInv, OwnKeys, CommitSteps
    <3>2. CASE \E i \in Nat : i < n /\ k = NthKey(i)
      BY <1>1, <3>2 DEF Used
    <3>3. CASE \E v \in Writers, c \in Nat : UsedBy(k, v, c)
      <4>1. PICK v \in Writers, c \in Nat : UsedBy(k, v, c)
        BY <3>3
      <4>2. Latest(v) \in Nat
        BY <1>2, LatestIs
      <4>3. UsedBy(k, v, c)'
        BY <2>1, <2>3, <4>1, <4>2 DEF UsedBy
      <4>4. QED BY <4>3 DEF Used
    <3>4. QED BY <3>1, <3>2, <3>3 DEF Used
  <2>5. ASSUME NEW v \in Writers, v # w, pending'[v] # <<>> PROVE pending'[v] = <<KeyOf(Scope(v), Latest(v)')>>
    <3>1. pending[v] # <<>> => pending[v] = <<KeyOf(Scope(v), Latest(v))>>
      BY <1>1 DEF MeasureInv, OwnKeys, CommitSteps
    <3>2. QED BY <2>1, <2>3, <2>5, <3>1
  <2>6. QED BY <2>2, <2>4, <2>5
<1>9. step' \notin {"idle", "jvm"} /\ step \notin {"idle", "scan", "jvm"}
  BY <1>1
<1>10. QED BY <1>1, <1>3, <1>4, <1>6, <1>7, <1>8, <1>9, OnwardSound

LEMMA ReceiveSound ==
    ASSUME BenchAssumption, BenchInv, MeasureInv, NEW w \in Writers, Receive(w)
    PROVE  MeasureInv'
<1>1. PICK a \in Answers(pending[w][1]) : Served(pending[w][1], a, <<>>) /\ tally' = Counted(a)
  BY DEF Receive
<1>2. /\ step = "concurrent" /\ step' = step /\ pending[w] # <<>>
      /\ pending' = [pending EXCEPT ![w] = <<>>]
      /\ sent' = sent /\ jobs' = jobs /\ results' = results /\ seen' = seen /\ cache' = cache /\ n' = n
  BY DEF Receive, suiteVars
<1> DEFINE key == pending[w][1]
<1>3. Job' = Job /\ Job.bench = "commit"
  BY <1>2 DEF Job, MeasureInv, AtBench, CommitSteps
<1>4. Counters /\ DOMAIN pending = Writers /\ IsFiniteSet(Writers)
  BY DEF MeasureInv, Counters, BenchAssumption
<1>5. Tables' /\ (keys' = keys \/ (key # <<>> /\ keys' = keys \cup {key}))
  <2> DEFINE file == <<>>
  <2>1. Served(key, a, file) /\ Tables /\ (key # <<>> => Job.bench = "commit")
    BY <1>1, <1>3 DEF MeasureInv
  <2> HIDE DEF key, file
  <2>2. QED BY <2>1, ServedTables
<1>6. /\ tally' \in [ok : Nat, conflict : Nat, errors : Nat, replayed : Nat, rerun : BOOLEAN]
      /\ tally'.ok + tally'.conflict + tally'.errors = tally.ok + tally.conflict + tally.errors + 1
      /\ tally'.rerun = tally.rerun
      /\ tally'.replayed = tally.replayed \/ (key # <<>> /\ key \in keys)
  BY <1>1, <1>4, CountedIs
<1>7. Counters'
  BY <1>2, <1>4, <1>6 DEF Counters
<1>8. ASSUME ~ tally.rerun PROVE key \in {<<>>, <<Scope(w), Latest(w)>>} /\ (key = <<>> \/ key \notin keys)
  <2>1. pending[w] = <<KeyOf(Scope(w), Latest(w))>>
    BY <1>2, <1>8 DEF MeasureInv, OwnKeys, CommitSteps
  <2>2. key \in {<<>>, <<Scope(w), Latest(w)>>}
    BY <2>1 DEF KeyOf
  <2>3. ASSUME <<Scope(w), Latest(w)>> \in keys PROVE FALSE
    <3>1. Used(<<Scope(w), Latest(w)>>)
      BY <1>2, <1>8, <2>3 DEF MeasureInv, OwnKeys, CommitSteps
    <3>2. PICK v \in Writers, c \in Nat : UsedBy(<<Scope(w), Latest(w)>>, v, c)
      BY <3>1, WritersKeys DEF Used
    <3>3. v = w /\ c = Latest(w)
      BY <3>2, WritersKeys DEF UsedBy
    <3>4. c < Latest(w)
      BY <1>2, <3>2, <3>3 DEF UsedBy
    <3>5. QED BY <3>3, <3>4, <1>4, LatestIs
  <2>4. QED BY <2>2, <2>3
<1>9. FirstRunMeasuresCommits'
  BY <1>6, <1>8 DEF MeasureInv, FirstRunMeasuresCommits
<1>10. AtBench' /\ Started'
  BY <1>2, <1>3 DEF MeasureInv, AtBench, CommitSteps, DataSteps, Started
<1>11. Accounted'
  <2>1. Requests' = Requests
    BY <1>2, <1>4, TotalRequests
  <2>2. Waiting' = Waiting \ {w} /\ w \in Waiting
    BY <1>2, <1>4 DEF Waiting
  <2>3. IsFiniteSet(Waiting)
    BY <1>4, FS_Subset DEF Waiting
  <2>4. Cardinality(Waiting') = Cardinality(Waiting) - 1 /\ Cardinality(Waiting) \in Nat
    BY <2>2, <2>3, FS_RemoveElement, FS_CardinalityType
  <2>5. tally.ok + tally.conflict + tally.errors + Cardinality(Waiting) = Requests
    BY <1>2 DEF MeasureInv, Accounted
  <2>6. /\ tally.ok \in Nat /\ tally.conflict \in Nat /\ tally.errors \in Nat
        /\ tally'.ok \in Nat /\ tally'.conflict \in Nat /\ tally'.errors \in Nat
    BY <1>4, <1>6 DEF Counters
  <2>7. tally'.ok + tally'.conflict + tally'.errors + Cardinality(Waiting') = Requests'
    <3>1. tally'.ok + tally'.conflict + tally'.errors = tally.ok + tally.conflict + tally.errors + 1
      BY <1>6
    <3>2. tally'.ok + tally'.conflict + tally'.errors + (Cardinality(Waiting) - 1) = Requests
      BY ONLY <2>4, <2>5, <2>6, <3>1, AccountMoves
    <3>3. QED BY ONLY <2>1, <2>4, <3>2
  <2>8. QED BY <2>7 DEF Accounted
<1>12. OwnKeys'
  <2> SUFFICES ASSUME ~ tally.rerun
               PROVE  /\ \A k \in keys' : Used(k)'
                      /\ \A v \in Writers : pending'[v] # <<>> => pending'[v] = <<KeyOf(Scope(v), Latest(v))>>
    BY <1>2, <1>3, <1>6 DEF OwnKeys, KeyOf, Latest
  <2>1. \A v \in Writers : Latest(v)' = Latest(v)
    BY <1>2 DEF Latest
  <2>2. pending'[w] = <<>> /\ \A v \in Writers : v # w => pending'[v] = pending[v]
    BY <1>2, <1>4
  <2>3. ASSUME NEW k \in keys PROVE Used(k)'
    <3>1. Used(k)
      BY <1>2 DEF MeasureInv, OwnKeys, CommitSteps
    <3>2. CASE \E i \in Nat : i < n /\ k = NthKey(i)
      BY <1>2, <3>2 DEF Used
    <3>3. CASE \E v \in Writers, c \in Nat : UsedBy(k, v, c)
      <4>1. PICK v \in Writers, c \in Nat : UsedBy(k, v, c)
        BY <3>3
      <4>2. UsedBy(k, v, c)'
        BY <2>1, <2>2, <4>1 DEF UsedBy
      <4>3. QED BY <4>2 DEF Used
    <3>4. QED BY <3>1, <3>2, <3>3 DEF Used
  <2>4. ASSUME NEW k \in keys', k \notin keys PROVE Used(k)'
    <3>1. k = <<Scope(w), Latest(w)>>
      BY <1>5, <1>8, <2>4
    <3>2. Latest(w) \in Nat
      BY <1>4, LatestIs
    <3>3. UsedBy(k, w, Latest(w))'
      BY <2>1, <2>2, <3>1, <3>2 DEF UsedBy
    <3>4. QED BY <2>1, <3>2, <3>3 DEF Used
  <2>5. ASSUME NEW v \in Writers, pending'[v] # <<>> PROVE pending'[v] = <<KeyOf(Scope(v), Latest(v))>>
    <3>1. v # w /\ pending'[v] = pending[v]
      BY <2>2, <2>5
    <3>2. QED BY <1>2, <2>5, <3>1 DEF MeasureInv, OwnKeys, CommitSteps
  <2>6. QED BY <2>3, <2>4, <2>5
<1>13. step' \notin {"idle", "jvm"} /\ step \notin {"idle", "scan", "jvm"}
  BY <1>2
<1>14. QED BY <1>2, <1>5, <1>7, <1>9, <1>10, <1>11, <1>12, <1>13, OnwardSound

LEMMA DeadlineSound == ASSUME MeasureInv, Deadline PROVE MeasureInv'
<1>1. /\ step = "concurrent" /\ step' = step /\ n' = n /\ jobs' = jobs /\ results' = results /\ seen' = seen
      /\ cache' = cache /\ tally' = tally /\ pending' = pending /\ sent' = sent /\ catalog' = catalog /\ keys' = keys
  BY DEF Deadline, suiteVars, worldVars
<1>2. Job' = Job
  BY <1>1 DEF Job
<1>3. Counters' /\ Tables' /\ FirstRunMeasuresCommits'
  BY <1>1 DEF MeasureInv, Counters, Tables, FirstRunMeasuresCommits
<1>4. AtBench' /\ Started'
  BY <1>1, <1>2 DEF MeasureInv, AtBench, CommitSteps, DataSteps, Started
<1>5. Accounted'
  BY <1>1 DEF MeasureInv, Accounted, Waiting, Requests, MapThenSumSet, MapThenFoldSet
<1>6. OwnKeys'
  BY <1>1, <1>2 DEF MeasureInv, OwnKeys, CommitSteps, Used, UsedBy, Latest, KeyOf
<1>7. step' \notin {"idle", "jvm"} /\ step \notin {"idle", "scan", "jvm"}
  BY <1>1
<1>8. QED BY <1>1, <1>3, <1>4, <1>5, <1>6, <1>7, OnwardSound

\* The report is printed when every writer has its answer: then every request is counted.
LEMMA JoinSound == ASSUME BenchAssumption, BenchInv, MeasureInv, Join PROVE MeasureInv'
<1>1. /\ step = "concurrent" /\ \A w \in Writers : pending[w] = <<>>
      /\ tally' = tally /\ pending' = pending /\ sent' = sent /\ seen' = seen
      /\ cache' = cache /\ catalog' = catalog /\ keys' = keys
      /\ IF tally.errors > 0 THEN Failed("request errors") ELSE Ran("ready")
  BY DEF Join, Joined, worldVars
<1>2. Counters' /\ Tables' /\ FirstRunMeasuresCommits'
  BY <1>1 DEF MeasureInv, Counters, Tables, FirstRunMeasuresCommits
<1>3. cache' \in [Parts -> Nat] /\ (\E R : seen' \in Seq(R)) /\ seen' = <<>>
  BY <1>1, NothingSeen DEF MeasureInv, Cached
<1>4. tally'.ok + tally'.conflict + tally'.errors = Requests'
  <2>1. Waiting = {}
    BY <1>1 DEF Waiting
  <2>2. tally.ok + tally.conflict + tally.errors + Cardinality(Waiting) = Requests
    BY <1>1 DEF MeasureInv, Accounted
  <2>3. tally.ok \in Nat /\ tally.conflict \in Nat /\ tally.errors \in Nat
    BY DEF MeasureInv, Counters
  <2>4. Requests' = Requests
    BY <1>1, TotalRequests DEF BenchAssumption
  <2>5. Cardinality(Waiting) = 0
    BY <2>1, FS_EmptySet
  <2>6. tally.ok + tally.conflict + tally.errors = Requests
    BY <2>2, <2>3, <2>5
  <2>7. QED BY <1>1, <2>4, <2>6
<1> DEFINE r(outcome, status) ==
        [bench |-> Job.bench, outcome |-> outcome, status |-> status, spark |-> 0,
         seen |-> seen', tally |-> tally', quiet |-> quiet, sent |-> Requests']
<1>5. CASE tally.errors > 0
  <2>1. step' = "idle" /\ results' = Append(results, r("failed", "request errors"))
    BY <1>1, <1>5, EndedReports DEF Failed
  <2>2. SoundReport(r("failed", "request errors"))
    BY <1>4 DEF SoundReport
  <2> HIDE DEF r
  <2>3. QED BY <1>2, <1>3, <2>1, <2>2, EndsSound
<1>6. CASE ~ (tally.errors > 0)
  <2>1. step' = "idle" /\ results' = Append(results, r("ran", "ready"))
    BY <1>1, <1>6, EndedReports DEF Ran
  <2>2. SoundReport(r("ran", "ready"))
    <3>1. DOMAIN seen' = {}
      BY <1>3, NothingSeen
    <3>2. QED BY <1>1, <1>4, <1>6, <3>1 DEF SoundReport
  <2> HIDE DEF r
  <2>3. QED BY <1>2, <1>3, <2>1, <2>2, EndsSound
<1>7. QED BY <1>5, <1>6

-----------------------------------------------------------------------------
(* A file, then a commit that names it                                      *)

LEMMA WritingSound ==
    ASSUME MeasureInv, Roundtrip \/ WarmPut \/ Put \/ Dataset \/ List
    PROVE  MeasureInv'
<1>1. /\ step \in DataSteps \ {"scan", "jvm"}
      /\ jobs' = jobs /\ results' = results /\ seen' = seen /\ cache' = cache /\ tally' = tally
      /\ pending' = pending /\ sent' = sent /\ catalog' = catalog /\ keys' = keys
      /\ step' \in DataSteps \ {"jvm", "roundtrip"} \/ (step' = "setup" /\ step = "roundtrip")
  BY DEF Roundtrip, WarmPut, Put, Dataset, List, Continues, suiteVars, worldVars, DataSteps
<1>2. Job.bench # "commit" /\ step \notin {"idle", "scan", "jvm"}
  BY <1>1 DEF MeasureInv, AtBench, DataSteps
<1>3. QED BY <1>1, <1>2, MovesSound

LEMMA RecordSound == ASSUME BenchAssumption, BenchInv, MeasureInv, Record PROVE MeasureInv'
<1>1. PICK a \in Answers(<<>>) :
        /\ Served(<<>>, a, FileUri(n)) /\ tally' = Counted(a)
        /\ UNCHANGED <<pending, sent, over, listing, seen, quiet>>
        /\ IF a.answer = "error" THEN Failed("commit") /\ n' = 0
           ELSE /\ n' = n + 1
                /\ IF n + 1 < Job.files THEN Continues("put")
                   ELSE IF Job.bench = "write-data" THEN Ran("ready") ELSE Continues("scan")
  BY DEF Record
<1>2. step = "record" /\ cache' = cache /\ pending' = pending /\ sent' = sent /\ seen' = seen
  BY <1>1 DEF Record
<1>3. Job.bench # "commit" /\ Job.bench # "rust-vs-jvm"
  BY <1>2 DEF MeasureInv, AtBench, DataSteps
<1> DEFINE key == <<>>
           file == FileUri(n)
<1>4. Served(key, a, file) /\ a \in Answers(key) /\ key = <<>>
  BY <1>1
<1> HIDE DEF key, file
<1>5. Tables'
  BY <1>4, ServedTables DEF MeasureInv
<1>6. Counters' /\ FirstRunMeasuresCommits'
  <2>1. /\ Counted(a) \in [ok : Nat, conflict : Nat, errors : Nat, replayed : Nat, rerun : BOOLEAN]
        /\ Counted(a).rerun = tally.rerun /\ Counted(a).replayed = tally.replayed
    BY <1>4, CountedIs DEF MeasureInv
  <2>2. tally' = Counted(a)
    BY <1>1
  <2> HIDE DEF Counted
  <2>3. Counters'
    BY <1>2, <2>1, <2>2 DEF MeasureInv, Counters
  <2>4. FirstRunMeasuresCommits'
    BY <2>1, <2>2 DEF MeasureInv, FirstRunMeasuresCommits
  <2>5. QED BY <2>3, <2>4
<1>7. cache' \in [Parts -> Nat] /\ (\E R : seen' \in Seq(R)) /\ seen' = <<>>
  BY <1>2, NothingSeen DEF MeasureInv, Cached
<1>8. \/ Failed("commit")
      \/ Ran("ready")
      \/ Continues("put") \/ Continues("scan")
  BY <1>1
<1>9. CASE Failed("commit")
  BY <1>5, <1>6, <1>7, <1>9, FailsSound
<1>10. CASE Ran("ready")
  <2>1. Ended("ran", "ready", 0) /\ DOMAIN seen' = {}
    BY <1>7, <1>10, NothingSeen DEF Ran
  <2>2. QED BY <1>3, <1>5, <1>6, <1>7, <2>1, RunsSound
<1>11. CASE Continues("put") \/ Continues("scan")
  <2>1. step' \in {"put", "scan"} /\ jobs' = jobs /\ results' = results
    BY <1>11 DEF Continues, suiteVars
  <2>2. Job' = Job
    BY <2>1 DEF Job
  <2>3. AtBench' /\ Started' /\ Accounted' /\ OwnKeys'
    BY <1>3, <2>1, <2>2 DEF AtBench, CommitSteps, DataSteps, Started, Accounted, OwnKeys
  <2>4. step \notin {"idle", "scan", "jvm"} /\ step' \notin {"idle", "jvm"}
    BY <1>2, <2>1
  <2>5. QED BY <1>2, <1>5, <1>6, <2>1, <2>3, <2>4, OnwardSound
<1>12. QED BY <1>8, <1>9, <1>10, <1>11

-----------------------------------------------------------------------------
(* Passes over the data                                                     *)

\* A pass of a bench that is alone counts what the store has, cache or not.
LEMMA PassCounts ==
    ASSUME BenchAssumption, BenchInv, MeasureInv, step = "scan"
    PROVE  /\ ToRead \in SUBSET Parts
           /\ \A f \in Parts : Content(f) \in Nat
           /\ quiet => (\A f \in Parts : Content(f) = store[<<Prefix, f>>]) /\ Rows = Plain
<1>1. Job \in Runnable /\ Prefix \in Spaces
  BY Running, FirstFile, PrefixInSpaces
<1>2. \A f \in Parts : store[<<Prefix, f>>] \in Nat
  BY <1>1 DEF BenchInv, StoreTyped, Keyspace
<1>3. cache \in [Parts -> Nat] /\ (quiet => \A f \in Parts : cache[f] \in {0, store[<<Prefix, f>>]})
  BY DEF MeasureInv, Cached
<1>4. ToRead \in SUBSET Parts
  BY DEF ToRead, Files
<1>5. \A f \in Parts : Content(f) \in Nat
  BY <1>2, <1>3 DEF Content
<1>6. ASSUME quiet PROVE \A f \in Parts : Content(f) = store[<<Prefix, f>>]
  BY <1>2, <1>3, <1>6 DEF Content
<1>7. ASSUME quiet PROVE Rows = Plain
  <2>1. IsFiniteSet(Parts) /\ IsFiniteSet(ToRead)
    BY <1>4, FS_Subset DEF BenchAssumption
  <2> DEFINE c == [f \in Parts |-> Content(f)]
             A == ToRead
  <2>2. Rows = Total(c, A)
    BY <1>4, <2>1, TotalRows
  <2>3. \A f \in A : c[f] = Listed[f]
    BY <1>4, <1>6, <1>7 DEF Listed
  <2>4. IsFiniteSet(A)
    BY <2>1
  <2> HIDE DEF c, A
  <2>5. Total(c, A) = Total(Listed, A)
    BY <2>3, <2>4, SameTotal
  <2>6. QED BY <2>2, <2>5 DEF Plain, A
<1>8. QED BY <1>4, <1>5, <1>6, <1>7

LEMMA ScanSound == ASSUME BenchAssumption, BenchInv, MeasureInv, Scan PROVE MeasureInv'
<1>1. /\ step = "scan" /\ seen' = Append(seen, Rows) /\ quiet' = quiet /\ store' = store /\ listing' = listing
      /\ tally' = tally /\ pending' = pending /\ sent' = sent /\ catalog' = catalog /\ keys' = keys
      /\ cache' = cache \/ cache' = [f \in Parts |-> IF f \in ToRead THEN Content(f) ELSE cache[f]]
      /\ Failed("not stable") \/ Ran("ready") \/ Continues("scan") \/ Continues("jvm")
  BY DEF Scan
<1>2. Job.bench # "commit"
  BY <1>1 DEF MeasureInv, AtBench, DataSteps
<1>3. Counters' /\ Tables' /\ FirstRunMeasuresCommits'
  BY <1>1 DEF MeasureInv, Counters, Tables, FirstRunMeasuresCommits
<1>4. cache \in [Parts -> Nat] /\ \A f \in Parts : Content(f) \in Nat
  BY <1>1, PassCounts DEF MeasureInv, Cached
<1>5. cache' \in [Parts -> Nat]
  BY <1>1, <1>4
<1>6. PICK R : seen \in Seq(R)
  BY DEF MeasureInv, Passed
<1>7. seen' \in Seq(R \cup {Rows})
  <2> DEFINE e == Rows
  <2>1. seen' = Append(seen, e)
    BY <1>1
  <2> HIDE DEF e
  <2>2. seen' \in Seq(R \cup {e})
    BY <1>6, <2>1, Appended
  <2>3. QED BY <2>2 DEF e
<1>8. ASSUME quiet, NEW p \in DOMAIN seen' PROVE seen'[p] = Plain
  <2>1. Rows = Plain
    BY <1>1, <1>8, PassCounts
  <2>2. \A q \in DOMAIN seen : seen[q] = Plain
    BY <1>1, <1>8 DEF MeasureInv, Passed, CountPlain
  <2> DEFINE e == Rows
  <2>3. seen' = Append(seen, e)
    BY <1>1
  <2> HIDE DEF e
  <2>4. (p \in DOMAIN seen /\ seen'[p] = seen[p]) \/ seen'[p] = e
    BY <1>6, <1>8, <2>3, Appended
  <2>5. QED BY <2>1, <2>2, <2>4 DEF e
<1>9. CASE Failed("not stable")
  BY <1>3, <1>5, <1>7, <1>9, FailsSound
<1>10. CASE Ran("ready")
  <2>1. Ended("ran", "ready", 0)
    BY <1>10 DEF Ran
  <2>2. quiet => \A p, q \in DOMAIN seen' : seen'[p] = seen'[q]
    BY <1>8
  <2>3. QED BY <1>2, <1>3, <1>5, <1>7, <2>1, <2>2, RunsSound
<1>11. CASE Continues("scan") \/ Continues("jvm")
  <2>1. step' \in {"scan", "jvm"} /\ jobs' = jobs /\ results' = results
    BY <1>11 DEF Continues, suiteVars
  <2>2. Job' = Job /\ Prefix' = Prefix
    BY <2>1 DEF Job, Prefix, DatasetOf
  <2>3. Reports'
    BY <2>1, SameReports DEF MeasureInv
  <2>4. AtBench' /\ Started' /\ Accounted' /\ OwnKeys'
    BY <1>2, <2>1, <2>2 DEF AtBench, CommitSteps, DataSteps, Started, Accounted, OwnKeys
  <2>5. Cached'
    <3>1. ASSUME quiet, NEW f \in Parts PROVE cache'[f] \in {0, store[<<Prefix, f>>]}
      <4>1. cache[f] \in {0, store[<<Prefix, f>>]}
        BY <1>1, <3>1 DEF MeasureInv, Cached
      <4>2. Content(f) = store[<<Prefix, f>>]
        BY <1>1, <3>1, PassCounts
      <4> HIDE DEF Content
      <4>3. cache'[f] \in {cache[f], Content(f)}
        BY <1>1
      <4>4. QED BY <4>1, <4>2, <4>3
    <3>2. QED BY <1>1, <1>5, <2>1, <2>2, <3>1 DEF Cached
  <2>6. Passed'
    <3>1. Plain' = Plain
      <4>1. Listed' = Listed /\ ToRead' = ToRead
        BY <1>1, <2>2 DEF Listed, ToRead, Files
      <4>2. QED BY <4>1 DEF Plain
    <3>2. (\A p \in DOMAIN seen : seen[p] = Plain)' \/ ~ quiet
      BY <1>8, <3>1
    <3>3. QED BY <1>1, <1>7, <3>2 DEF Passed, CountPlain
  <2>7. QED BY <1>3, <2>3, <2>4, <2>5, <2>6 DEF MeasureInv
<1>12. QED BY <1>1, <1>9, <1>10, <1>11

LEMMA JvmSound == ASSUME MeasureInv, Jvm PROVE MeasureInv'
<1>1. /\ step = "jvm" /\ seen' = seen /\ cache' = cache
      /\ tally' = tally /\ pending' = pending /\ sent' = sent /\ catalog' = catalog /\ keys' = keys
      /\ Ended("ran", "scaffold", 0) \/ Ended("ran", "ready", SparkRows)
  BY DEF Jvm, Ran, worldVars
<1>2. Job.bench # "commit"
  BY <1>1 DEF MeasureInv, AtBench, DataSteps
<1>3. Counters' /\ Tables' /\ FirstRunMeasuresCommits'
  BY <1>1 DEF MeasureInv, Counters, Tables, FirstRunMeasuresCommits
<1>4. cache' \in [Parts -> Nat] /\ (\E R : seen' \in Seq(R))
  BY <1>1 DEF MeasureInv, Cached, Passed
<1>5. quiet => \A p, q \in DOMAIN seen' : seen'[p] = seen'[q]
  BY <1>1 DEF MeasureInv, Passed, CountPlain
<1> HIDE DEF SparkRows
<1>6. CASE Ended("ran", "scaffold", 0)
  BY <1>2, <1>3, <1>4, <1>5, <1>6, RunsSound
<1>7. CASE Ended("ran", "ready", SparkRows)
  BY <1>2, <1>3, <1>4, <1>5, <1>7, RunsSound
<1>8. QED BY <1>1, <1>6, <1>7

\* A bench that another process wrote beside of is not alone any more; a step that
\* changes nothing changes nothing.
LEMMA BesideSound ==
    ASSUME MeasureInv, UNCHANGED vars \/ (\E key \in DOMAIN store, rows \in 1 .. MaxRows : Interfere(key, rows))
    PROVE  MeasureInv'
<1>1. /\ step' = step /\ jobs' = jobs /\ results' = results /\ seen' = seen /\ cache' = cache /\ tally' = tally
      /\ pending' = pending /\ sent' = sent /\ catalog' = catalog /\ keys' = keys /\ n' = n /\ listing' = listing
      /\ (quiet' = FALSE) \/ (quiet' = quiet /\ store' = store)
  BY DEF Interfere, vars, suiteVars, benchVars, worldVars
<1>2. Job' = Job /\ Prefix' = Prefix
  BY <1>1 DEF Job, Prefix, DatasetOf
<1>3. Reports'
  BY <1>1, SameReports DEF MeasureInv
<1>4. Counters' /\ Tables' /\ FirstRunMeasuresCommits'
  BY <1>1 DEF MeasureInv, Counters, Tables, FirstRunMeasuresCommits
<1>5. AtBench' /\ Started'
  BY <1>1, <1>2 DEF MeasureInv, AtBench, CommitSteps, DataSteps, Started, NothingCounted
<1>6. Accounted'
  BY <1>1 DEF MeasureInv, Accounted, Waiting, Requests, MapThenSumSet, MapThenFoldSet
<1>7. OwnKeys'
  BY <1>1, <1>2 DEF MeasureInv, OwnKeys, CommitSteps, Used, UsedBy, Latest, KeyOf
<1>8. Cached'
  BY <1>1, <1>2 DEF MeasureInv, Cached
<1>9. Passed'
  <2>1. quiet' => Plain' = Plain
    BY <1>1, <1>2 DEF Plain, Listed, ToRead, Files, Total, Adds
  <2>2. QED BY <1>1, <2>1 DEF MeasureInv, Passed, CountPlain
<1>10. QED BY <1>3, <1>4, <1>5, <1>6, <1>7, <1>8, <1>9 DEF MeasureInv

LEMMA StepSound == ASSUME BenchAssumption, BenchInv, MeasureInv, [Next]_vars PROVE MeasureInv'
<1>1. CASE UNCHANGED vars
  BY <1>1, BesideSound
<1>2. CASE Next
  BY <1>2, IdleSound, SpawnSound, BreakSound, SetupSound, SerialCommitSound, SendSound, ReceiveSound, DeadlineSound,
     JoinSound, WritingSound, RecordSound, ScanSound, JvmSound, BesideSound DEF Next
<1>3. QED BY <1>1, <1>2

LEMMA MeasuresAreSound == Spec => []MeasureInv
<1>1. Init => BenchInv /\ MeasureInv
  BY InitKeeps, InitSound, BenchAssumption
<1>2. BenchInv /\ MeasureInv /\ [Next]_vars => (BenchInv /\ MeasureInv)'
  BY StepKeeps, StepSound, BenchAssumption
<1>3. QED BY <1>1, <1>2, PTL DEF Spec

\* The file that a table's property names is in the object store: write-data and
\* read-write write a file before they commit its name, and no bench, failure or
\* other process removes one.
THEOREM RecordedFilesExist == Spec => []RecordedFileExists
<1>1. Init => BenchInv
  BY InitKeeps, BenchAssumption
<1>2. BenchInv /\ [Next]_vars => BenchInv'
  BY StepKeeps, BenchAssumption
<1>3. BenchInv => RecordedFileExists
  BY DEF BenchInv
<1>4. QED BY <1>1, <1>2, <1>3, PTL DEF Spec
\* On a table that it is the first to write to, the commit bench measures commits
\* and no answer that the catalog repeats: for every stride and start of the
\* counters the keys of the warm-up, of the sequential phase and of each writer
\* are told apart by their scope, although the counters may meet.
THEOREM FirstRunsMeasureCommits == Spec => []FirstRunMeasuresCommits
<1>1. MeasureInv => FirstRunMeasuresCommits
  BY DEF MeasureInv
<1>2. QED BY <1>1, MeasuresAreSound, PTL

\* Every request of the concurrent phase is in the report as a commit, a conflict
\* or an error, however the answers of the writers and the deadline interleave;
\* a report with errors is that of a failed bench.
THEOREM CountsComplete == Spec => []CountsAreComplete
<1>1. MeasureInv => CountsAreComplete
  BY DEF MeasureInv, Reports, SoundReport, CountsAreComplete
<1>2. QED BY <1>1, MeasuresAreSound, PTL

\* The passes that use the cache count the rows that the passes without it count,
\* for every number of files and whatever their rows, as long as the bench is
\* alone: the cache of a bench is empty when it starts to read.
THEOREM CachesAddNothing == Spec => []CacheAddsNothing
<1>1. MeasureInv => CacheAddsNothing
  BY DEF MeasureInv, Reports, SoundReport, CacheAddsNothing
<1>2. QED BY <1>1, MeasuresAreSound, PTL
=============================================================================
