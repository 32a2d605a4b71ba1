------------------------- MODULE CatalogDriverProofs -------------------------
(***************************************************************************)
(* What a credit and a gate of the catalog comparison mean, whatever the    *)
(* catalogs enforce, honour, refuse or fail, and for every order of them,   *)
(* every claim of their adapters and every suite of cases: no credit for a  *)
(* lost update, none for a retry that was applied twice by a catalog that   *)
(* names what it wrote and does not echo receipts, and no gate tripped by   *)
(* an honest catalog.  No adapter or catalog keeps the runner from coming   *)
(* nearer to its report.                                                    *)
(***************************************************************************)
EXTENDS CatalogDriver, FiniteSetTheorems, WellFoundedInduction, TLAPS

USE CatalogDriverAssumption

Cas == CapabilityOf(Case) = "compare-and-swap"
Retry == Case = "idempotent-retry"
AcrossRestart == Case = "idempotent-across-restart"

CaseNames == {"preflight"} \cup ToSet(Cases)

Kinds == [enforces : BOOLEAN, keys : {"honours", "ignores", "echoes"},
          scope : {"table", "catalog"}, names : BOOLEAN]

\* Who may run, and what is left to run.
RunTyped ==
    /\ kind \in [External -> Kinds]
    /\ DOMAIN remembered = External
    /\ configured \subseteq External
    /\ at \in External \cup {"none"}
    /\ faults \in [External -> Nat]
    /\ left \in Seq(CaseNames)

\* The catalog that runs keeps its promises and has answered every call so far.
KeepsWord(c) == kind[c].enforces /\ kind[c].keys = "honours" /\ faults[c] = 0
Honest == at \in External /\ KeepsWord(at)

\* The catalog keeps account of lost updates, and so far none was lost.
NothingLost == "lost" \in DOMAIN table /\ table.lost = FALSE

\* Nothing was committed to the table of the case, and no handle is kept.
Untouched == outs = <<>> /\ witness = <<>> /\ table = NewTable

\* Where a compare-and-swap case is, by the calls it still has to make.  Both of
\* its commits are made with the handle that was kept at the first, so the second
\* can only be over another if that one was let through; an honest catalog lets
\* the first one through and refuses the second.
CasStage ==
    \/ calls = <<"create", "point", "commit", "commit">> /\ points = <<>> /\ Untouched
    \/ calls = <<"point", "commit", "commit">> /\ points = <<>> /\ Untouched
    \/ calls = <<"commit", "commit">> /\ points = <<0>> /\ Untouched
    \/ /\ calls = <<"commit">> /\ points = <<0>>
       /\ 0 \in DOMAIN witness /\ witness[0] = 0 /\ NothingLost
       /\ \E a : /\ outs = <<a>> /\ (table.snap = 0 \/ a.ok)
                 /\ Honest => a.ok /\ table.snap # 0
    \/ /\ calls = <<>>
       /\ \E a, b : /\ outs = <<a, b>> /\ (table.lost => a.ok /\ b.ok)
                    /\ Honest => a.ok /\ ~ b.ok

\* The answer to a keyed commit that was taken, with its receipt.
Yes(receipt) == [ok |-> TRUE, receipt |-> receipt]

\* The catalog knows job-k before the first commit of the case only if it does not
\* keep the keys of each table apart.
OwnKeys == kind[at].scope = "catalog" \/ remembered[at] = NoReceipt

\* The update of the key was applied once, or the catalog took it for an older one.
EffectIsEarned == table.effects = 1 \/ (table.effects = 0 /\ kind[at].scope = "catalog")

Counted == {"snap", "meta", "effects"} \subseteq DOMAIN table /\ table.snap = 0

\* The key came once, and the catalog knows it from now on.
KeyedOnce ==
    /\ Counted /\ remembered[at] # NoReceipt
    /\ kind[at].keys = "honours" => EffectIsEarned
    /\ \E r : /\ outs = <<Yes(r)>>
              /\ IF ~ kind[at].names THEN r = NoReceipt
                 ELSE IF kind[at].keys # "ignores" THEN r = remembered[at]
                 ELSE r = [table |-> Len(left), meta |-> 1] /\ table.meta = 1

\* The key came a second time: a catalog that honours it gives the same answer, and
\* one that ignores it and names what it wrote gives another.
KeyedTwice ==
    /\ Counted
    /\ \E r, s : /\ outs = <<Yes(r), Yes(s)>>
                 /\ kind[at].keys = "honours" => r = s
                 /\ r = s /\ kind[at].names /\ kind[at].keys # "echoes" => EffectIsEarned

\* Where the case of a retried commit is, by the calls it still has to make.
RetryStage ==
    \/ calls = <<"create", "point", "keyed", "point", "keyed", "point">> /\ points = <<>> /\ Untouched
    \/ calls = <<"point", "keyed", "point", "keyed", "point">> /\ points = <<>> /\ Untouched /\ OwnKeys
    \/ calls = <<"keyed", "point", "keyed", "point">> /\ points = <<0>> /\ Untouched /\ OwnKeys
    \/ calls = <<"point", "keyed", "point">> /\ points = <<0>> /\ KeyedOnce
    \/ calls = <<"keyed", "point">> /\ points = <<0, 0>> /\ KeyedOnce
    \/ calls = <<"point">> /\ points = <<0, 0>> /\ KeyedTwice
    \/ calls = <<>> /\ points[2] = 0 /\ points[3] = 0 /\ KeyedTwice

\* No adapter comes past the restart of its catalog.
RestartStage ==
    \/ calls = <<"create", "point", "keyed", "restart", "keyed">>
    \/ calls = <<"point", "keyed", "restart", "keyed">>
    \/ calls = <<"keyed", "restart", "keyed">>
    \/ calls = <<"restart", "keyed">>

StageInv ==
    /\ Running /\ Cas => CasStage
    /\ Running /\ Retry => RetryStage
    /\ Running /\ AcrossRestart => RestartStage

\* An honest catalog has every supported case with a gate right so far.
RowsClean ==
    \A c \in DOMAIN rows : GateOf(c) # "none" /\ rows[c].supported => rows[c].correct

RowsInv == NoCreditForLostUpdate /\ RetryCreditIsEarned /\ (Honest => RowsClean)

\* What the properties need to be inductive.
CreditInv == RunTyped /\ StageInv /\ RowsInv /\ HonestCatalogIsClean

-----------------------------------------------------------------------------
(* The cases and the rows                                                   *)

LEMMA Appending ==
    ASSUME NEW a, NEW b
    PROVE  /\ Append(<<>>, a) = <<a>>
           /\ Append(<<a>>, b) = <<a, b>>
<1>1. Append(<<>>, a) = <<a>>
  OBVIOUS
<1>2. Append(<<a>>, b) = <<a, b>>
  <2> DEFINE s == Append(<<a>>, b)
             t == <<a, b>>
  <2>1. DOMAIN s = 1..2 /\ s[1] = a /\ s[2] = b /\ s = [i \in 1..2 |-> s[i]]
    OBVIOUS
  <2>2. DOMAIN t = 1..2 /\ t[1] = a /\ t[2] = b /\ t = [i \in 1..2 |-> t[i]]
    OBVIOUS
  <2> HIDE DEF s, t
  <2>3. \A i \in 1..2 : s[i] = t[i]
    BY <2>1, <2>2
  <2>4. s = t
    BY <2>1, <2>2, <2>3
  <2>5. QED BY <2>4 DEF s, t
<1>3. QED BY <1>1, <1>2

LEMMA BeginIs ==
    ASSUME NEW STATE cs, Begin(cs), left' # <<>>
    PROVE  StageInv'
<1>1. ASSUME Cas' PROVE CasStage'
  BY <1>1 DEF Begin, CasStage, Untouched, Script, CapabilityOf, Cas, Case
<1>2. ASSUME Retry' PROVE RetryStage'
  BY <1>2 DEF Begin, RetryStage, Untouched, Script, CapabilityOf, Retry, Case
<1>3. ASSUME AcrossRestart' PROVE RestartStage'
  BY <1>3 DEF Begin, RestartStage, Script, CapabilityOf, AcrossRestart, Case
<1>4. QED BY <1>1, <1>2, <1>3 DEF StageInv

LEMMA BeginKeeps ==
    ASSUME NEW STATE cs, Begin(cs)
    PROVE  StageInv'
<1>1. CASE left' = <<>>
  BY <1>1 DEF StageInv, Running
<1>2. QED BY <1>1, BeginIs

\* An honest catalog was honest before: faults are never taken back.
LEMMA HonestBefore ==
    ASSUME RunTyped, UNCHANGED <<at, kind>>,
           faults' = faults \/ (at \in External /\ faults' = [faults EXCEPT ![at] = @ + 1]),
           Honest'
    PROVE  Honest /\ faults' = faults
<1>1. CASE faults' = faults
  BY <1>1 DEF Honest, KeepsWord
<1>2. CASE at \in External /\ faults' = [faults EXCEPT ![at] = @ + 1]
  <2>1. faults'[at] = faults[at] + 1 /\ faults[at] \in Nat
    BY <1>2 DEF RunTyped
  <2>2. faults'[at] = 0
    BY DEF Honest, KeepsWord
  <2>3. QED BY <2>1, <2>2
<1>3. QED BY <1>1, <1>2

\* What a verdict on the current case must be worth for its row.
Deserved(correct) ==
    /\ GateOf(Case) = "lost_update_accepted" /\ correct => ~ table.lost
    /\ /\ GateOf(Case) = "duplicate_commit_applied" /\ correct
       /\ kind[at].names /\ kind[at].keys # "echoes"
       => EffectIsEarned

LEMMA NoCreditIsDeserved == Deserved(FALSE)
BY DEF Deserved

\* A row is added for the current case, the others stay.
LEMMA RowKeeps ==
    ASSUME RunTyped, RowsInv, NEW STATE supported, NEW STATE correct, Row(supported, correct),
           UNCHANGED <<at, kind>>,
           faults' = faults \/ (at \in External /\ faults' = [faults EXCEPT ![at] = @ + 1]),
           Deserved(correct),
           Honest' /\ GateOf(Case) # "none" /\ supported => correct
    PROVE  RowsInv'
<1>1. NoCreditForLostUpdate'
  BY DEF Row, RowsInv, NoCreditForLostUpdate, Deserved
<1>2. RetryCreditIsEarned'
  BY DEF Row, RowsInv, RetryCreditIsEarned, EffectIsEarned, Deserved
<1>3. Honest' => RowsClean'
  <2>1. Honest' => Honest
    BY HonestBefore
  <2>2. QED BY <2>1 DEF Row, RowsInv, RowsClean
<1>4. QED BY <1>1, <1>2, <1>3 DEF RowsInv

LEMMA NoRowsKeeps == ASSUME rows' = <<>> PROVE RowsInv'
BY DEF RowsInv, NoCreditForLostUpdate, RetryCreditIsEarned, RowsClean

\* A step that leaves the case, the rows and the catalog alone.
LEMMA AloneKeeps ==
    ASSUME StageInv, RowsInv, UNCHANGED <<at, left, caseVars, rows, kind, lasting>>
    PROVE  StageInv' /\ RowsInv'
<1>1. UNCHANGED <<at, left, calls, points, outs, witness, table, rows, kind, remembered, faults>>
  BY DEF caseVars, lasting
<1>2. StageInv'
  <2>1. /\ (Running' <=> Running) /\ (Cas' <=> Cas)
        /\ (Retry' <=> Retry) /\ (AcrossRestart' <=> AcrossRestart)
    BY <1>1 DEF Running, Cas, Retry, AcrossRestart, Case
  <2>2. CasStage => CasStage'
    BY <1>1 DEF CasStage, Untouched, NothingLost, Honest, KeepsWord
  <2>3. RetryStage => RetryStage'
    BY <1>1 DEF RetryStage, Untouched, OwnKeys, KeyedOnce, KeyedTwice, Counted, EffectIsEarned
  <2>4. RestartStage => RestartStage'
    BY <1>1 DEF RestartStage
  <2>5. QED BY <2>1, <2>2, <2>3, <2>4 DEF StageInv
<1>3. RowsInv'
  BY <1>1 DEF RowsInv, NoCreditForLostUpdate, RetryCreditIsEarned, RowsClean, Honest, KeepsWord
<1>4. QED BY <1>2, <1>3

-----------------------------------------------------------------------------
(* The entries of the report                                                *)

\* Nobody is blamed when every case with a gate is right.
LEMMA CleanGates ==
    ASSUME NEW outcomes,
           \A c \in DOMAIN outcomes :
               GateOf(c) # "none" /\ outcomes[c].supported => outcomes[c].correct
    PROVE  \A g \in DOMAIN Gates(outcomes) : Gates(outcomes)[g] = 0
<1>1. ASSUME NEW g \in {"lost_update_accepted", "duplicate_commit_applied"}
      PROVE  Gates(outcomes)[g] = 0
  <2>1. {c \in DOMAIN outcomes : GateOf(c) = g /\ outcomes[c].supported /\ ~ outcomes[c].correct} = {}
    BY <1>1
  <2>2. QED BY <2>1, FS_EmptySet DEF Gates
<1>2. QED BY <1>1 DEF Gates

\* An entry is written: the other ones stay, and faults are never taken back.
LEMMA EntryKeeps ==
    ASSUME RunTyped, HonestCatalogIsClean, NEW STATE c, NEW STATE result, Entry(c, result),
           UNCHANGED kind,
           faults' = faults \/ (at \in External /\ faults' = [faults EXCEPT ![at] = @ + 1]),
           (/\ c \in External /\ result.status = "executed"
            /\ kind[c].enforces /\ kind[c].keys = "honours" /\ faults'[c] = 0)
               => \A g \in DOMAIN result.gates : result.gates[g] = 0
    PROVE  HonestCatalogIsClean'
<1>1. ASSUME NEW x \in External, faults'[x] = 0 PROVE faults[x] = 0
  <2>1. CASE faults' = faults
    BY <1>1, <2>1
  <2>2. CASE at \in External /\ faults' = [faults EXCEPT ![at] = @ + 1]
    BY <1>1, <2>2 DEF RunTyped
  <2>3. QED BY <2>1, <2>2
<1>2. ASSUME NEW x \in DOMAIN entries' \cap External,
             entries'[x].status = "executed", faults'[x] = 0, kind'[x].enforces, kind'[x].keys = "honours"
      PROVE  \A g \in DOMAIN entries'[x].gates : entries'[x].gates[g] = 0
  <2>1. CASE x = c
    <3>1. entries'[x] = result
      BY <1>2, <2>1 DEF Entry
    <3>2. QED BY <1>2, <2>1, <3>1
  <2>2. CASE x # c
    <3>1. x \in DOMAIN entries /\ entries'[x] = entries[x]
      BY <1>2, <2>2 DEF Entry
    <3>2. QED BY <1>1, <1>2, <3>1 DEF HonestCatalogIsClean
  <2>3. QED BY <2>1, <2>2
<1>3. QED BY <1>2 DEF HonestCatalogIsClean

\* No entry is written.
LEMMA EntriesKeep ==
    ASSUME RunTyped, HonestCatalogIsClean, UNCHANGED <<entries, kind>>,
           faults' = faults \/ (at \in External /\ faults' = [faults EXCEPT ![at] = @ + 1])
    PROVE  HonestCatalogIsClean'
<1>1. ASSUME NEW x \in External, faults'[x] = 0 PROVE faults[x] = 0
  <2>1. CASE faults' = faults
    BY <1>1, <2>1
  <2>2. CASE at \in External /\ faults' = [faults EXCEPT ![at] = @ + 1]
    BY <1>1, <2>2 DEF RunTyped
  <2>3. QED BY <2>1, <2>2
<1>2. QED BY <1>1 DEF HonestCatalogIsClean

LEMMA TypedKeeps ==
    ASSUME RunTyped, UNCHANGED <<kind, configured>>, DOMAIN remembered' = DOMAIN remembered,
           at' \in External \cup {"none"}, left' \in Seq(CaseNames),
           faults' = faults \/ (at \in External /\ faults' = [faults EXCEPT ![at] = @ + 1])
    PROVE  RunTyped'
<1>1. faults' \in [External -> Nat]
  <2>1. CASE faults' = faults
    BY <2>1 DEF RunTyped
  <2>2. CASE at \in External /\ faults' = [faults EXCEPT ![at] = @ + 1]
    BY <2>2 DEF RunTyped
  <2>3. QED BY <2>1, <2>2
<1>2. QED BY <1>1 DEF RunTyped

\* The current case is done and the adapter goes on with the next one.
LEMMA NextCaseTyped ==
    ASSUME RunTyped, Running
    PROVE  Tail(left) \in Seq(CaseNames) /\ Case \in CaseNames /\ at \in External
BY DEF RunTyped, Running, Case

LEMMA EndsKeeps ==
    ASSUME CreditInv, NEW STATE result, Ends(result), at # "none",
           result.status = "executed" /\ KeepsWord(at)
               => \A g \in DOMAIN result.gates : result.gates[g] = 0
    PROVE  CreditInv'
<1>1. RunTyped'
  BY TypedKeeps DEF CreditInv, Ends, Begin, lasting
<1>2. StageInv' /\ RowsInv'
  BY BeginKeeps, NoRowsKeeps DEF Ends
<1>3. HonestCatalogIsClean'
  BY EntryKeeps DEF CreditInv, Ends, KeepsWord, lasting
<1>4. QED BY <1>1, <1>2, <1>3 DEF CreditInv

-----------------------------------------------------------------------------
(* The calls of a case                                                      *)

\* Of two writers on one head, one wins; a stale commit is refused: in neither
\* case are both commits let through, and an honest catalog is always right.
LEMMA CasVerdict ==
    ASSUME CreditInv, Running, calls = <<>>, Cas
    PROVE  /\ Correct(Case) => ~ table.lost
           /\ Honest => Correct(Case)
<1>1. PICK a, b : /\ outs = <<a, b>> /\ (table.lost => a.ok /\ b.ok)
                  /\ Honest => a.ok /\ ~ b.ok
  BY DEF CreditInv, StageInv, CasStage
<1>2. Case \in {"cas-stale-rejected", "cas-concurrent"}
  BY NextCaseTyped DEF CreditInv, Cas, CapabilityOf, CaseNames, ToSet
<1>3. outs[1] = a /\ outs[2] = b
  BY <1>1
<1>4. Correct(Case) = IF Case = "cas-stale-rejected" THEN a.ok /\ ~ b.ok ELSE a.ok # b.ok
  BY <1>2, <1>3 DEF Correct, CapabilityOf
<1>5. QED BY <1>1, <1>2, <1>4

\* Equal receipts over a pointer that did not move mean one effect, or an echo, or
\* that nothing was named.
LEMMA RetryVerdict ==
    ASSUME CreditInv, Running, calls = <<>>, Retry
    PROVE  /\ Correct(Case) /\ kind[at].names /\ kind[at].keys # "echoes" => EffectIsEarned
           /\ Honest => Correct(Case)
<1>1. points[2] = 0 /\ points[3] = 0 /\ KeyedTwice
  BY DEF CreditInv, StageInv, RetryStage
<1>2. PICK r, s : /\ outs = <<Yes(r), Yes(s)>>
                  /\ kind[at].keys = "honours" => r = s
                  /\ r = s /\ kind[at].names /\ kind[at].keys # "echoes" => EffectIsEarned
  BY <1>1 DEF KeyedTwice
<1>3. /\ outs[1].ok = TRUE /\ outs[2].ok = TRUE
      /\ outs[1].receipt = r /\ outs[2].receipt = s /\ points[3] = points[2]
  BY <1>1, <1>2 DEF Yes
<1>4. Correct(Case) <=> r = s
  BY <1>3 DEF Correct, CapabilityOf, Retry
<1>5. QED BY <1>2, <1>4 DEF Honest, KeepsWord

\* No other case with a gate comes to a verdict.
LEMMA OtherVerdict ==
    ASSUME CreditInv, Running, calls = <<>>, ~ Cas, ~ Retry
    PROVE  GateOf(Case) = "none"
<1>1. ~ AcrossRestart
  BY DEF CreditInv, StageInv, RestartStage
<1>2. QED BY <1>1, NextCaseTyped DEF CreditInv, Cas, Retry, AcrossRestart, GateOf, CapabilityOf, CaseNames, ToSet

\* A call that was served leaves the rows alone; what is left to show is where the
\* case is afterwards.
LEMMA ServedKeeps ==
    ASSUME CreditInv, NEW STATE call, Serves(call), DOMAIN remembered' = DOMAIN remembered,
           faults' = faults \/ (at \in External /\ faults' = [faults EXCEPT ![at] = @ + 1]),
           Running /\ Cas => CasStage',
           Running /\ Retry => RetryStage',
           Running /\ AcrossRestart => RestartStage'
    PROVE  CreditInv'
<1>1. UNCHANGED <<kind, configured, entries, at, left, rows>>
  BY DEF Serves, runVars
<1>2. RunTyped'
  BY <1>1, TypedKeeps DEF CreditInv, RunTyped
<1>3. StageInv'
  BY <1>1 DEF StageInv, Running, Cas, Retry, AcrossRestart, Case
<1>4. RowsInv'
  <2>1. Honest' => Honest
    BY <1>1, HonestBefore DEF CreditInv
  <2>2. QED
    BY <1>1, <2>1 DEF CreditInv, RowsInv, NoCreditForLostUpdate, RetryCreditIsEarned, RowsClean
<1>5. HonestCatalogIsClean'
  BY <1>1, EntriesKeep DEF CreditInv
<1>6. QED BY <1>2, <1>3, <1>4, <1>5 DEF CreditInv

LEMMA CreateKeeps == ASSUME CreditInv, Create PROVE CreditInv'
<1>0. DOMAIN remembered' = DOMAIN remembered /\ OwnKeys'
  <2>1. /\ at \in External /\ UNCHANGED <<at, kind>>
        /\ remembered' = IF kind[at].scope = "catalog" THEN remembered
                         ELSE [remembered EXCEPT ![at] = NoReceipt]
    BY NextCaseTyped DEF CreditInv, Create, Serves, runVars
  <2>2. DOMAIN remembered = External
    BY DEF CreditInv, RunTyped
  <2>3. QED BY <2>1, <2>2 DEF OwnKeys
<1>1. ASSUME Running, Cas PROVE CasStage'
  <2>1. calls = <<"create", "point", "commit", "commit">> /\ points = <<>> /\ Untouched
    BY <1>1 DEF CreditInv, StageInv, CasStage, Create, Serves
  <2>2. calls' = <<"point", "commit", "commit">> /\ UNCHANGED <<points, outs, witness, table>>
    BY <2>1 DEF Create, Serves
  <2>3. QED BY <2>1, <2>2 DEF CasStage, Untouched
<1>2. ASSUME Running, Retry PROVE RetryStage'
  <2>1. /\ calls = <<"create", "point", "keyed", "point", "keyed", "point">>
        /\ points = <<>> /\ Untouched
    BY <1>2 DEF CreditInv, StageInv, RetryStage, Create, Serves
  <2>2. /\ calls' = <<"point", "keyed", "point", "keyed", "point">>
        /\ UNCHANGED <<points, outs, witness, table>>
    BY <2>1 DEF Create, Serves
  <2>3. QED BY <1>0, <2>1, <2>2 DEF RetryStage, Untouched
<1>3. ASSUME Running, AcrossRestart PROVE RestartStage'
  <2>1. calls = <<"create", "point", "keyed", "restart", "keyed">>
    BY <1>3 DEF CreditInv, StageInv, RestartStage, Create, Serves
  <2>2. calls' = <<"point", "keyed", "restart", "keyed">>
    BY <2>1 DEF Create, Serves
  <2>3. QED BY <2>2 DEF RestartStage
<1>4. QED BY <1>0, <1>1, <1>2, <1>3, ServedKeeps DEF Create

LEMMA PointKeeps == ASSUME CreditInv, Point PROVE CreditInv'
<1>1. ASSUME Running, Cas PROVE CasStage'
  <2>1. calls = <<"point", "commit", "commit">> /\ points = <<>> /\ Untouched
    BY <1>1 DEF CreditInv, StageInv, CasStage, Point, Serves
  <2>2. calls' = <<"commit", "commit">> /\ points' = <<0>> /\ UNCHANGED <<outs, witness, table>>
    BY <2>1 DEF Point, Serves, Untouched, NewTable
  <2>3. QED BY <2>1, <2>2 DEF CasStage, Untouched
<1>2. ASSUME Running, Retry PROVE RetryStage'
  <2>1. UNCHANGED <<outs, witness, table, at, left, kind, remembered>>
    BY DEF Point, Serves, runVars, lasting
  <2>2. /\ (Untouched => Untouched') /\ (OwnKeys => OwnKeys')
        /\ (KeyedOnce => KeyedOnce') /\ (KeyedTwice => KeyedTwice')
    BY <2>1 DEF Untouched, OwnKeys, KeyedOnce, KeyedTwice, Counted, EffectIsEarned
  <2>3. CASE /\ calls = <<"point", "keyed", "point", "keyed", "point">>
             /\ points = <<>> /\ Untouched /\ OwnKeys
    <3>1. calls' = <<"keyed", "point", "keyed", "point">> /\ points' = <<0>>
      BY <2>3 DEF Point, Serves, Untouched, NewTable
    <3>2. QED BY <2>2, <2>3, <3>1 DEF RetryStage
  <2>4. CASE calls = <<"point", "keyed", "point">> /\ points = <<0>> /\ KeyedOnce
    <3>1. calls' = <<"keyed", "point">> /\ points' = Append(points, table.snap)
      BY <2>4 DEF Point, Serves
    <3>2. points' = <<0, 0>>
      BY <2>4, <3>1, Appending DEF KeyedOnce, Counted
    <3>3. QED BY <2>2, <2>4, <3>1, <3>2 DEF RetryStage
  <2>5. CASE calls = <<"point">> /\ points = <<0, 0>> /\ KeyedTwice
    <3>1. calls' = <<>> /\ points' = Append(points, table.snap)
      BY <2>5 DEF Point, Serves
    <3>2. points'[2] = 0 /\ points'[3] = 0
      BY <2>5, <3>1, Appending DEF KeyedTwice, Counted
    <3>3. KeyedTwice'
      BY <2>2, <2>5
    <3>4. QED BY <3>1, <3>2, <3>3 DEF RetryStage
  <2>6. RetryStage /\ calls # <<>> /\ Head(calls) = "point"
    BY <1>2 DEF CreditInv, StageInv, Point, Serves
  <2>7. QED BY <2>3, <2>4, <2>5, <2>6 DEF RetryStage
<1>3. ASSUME Running, AcrossRestart PROVE RestartStage'
  <2>1. calls = <<"point", "keyed", "restart", "keyed">>
    BY <1>3 DEF CreditInv, StageInv, RestartStage, Point, Serves
  <2>2. calls' = <<"keyed", "restart", "keyed">>
    BY <2>1 DEF Point, Serves
  <2>3. QED BY <2>2 DEF RestartStage
<1>4. QED BY <1>1, <1>2, <1>3, ServedKeeps DEF Point, lasting

\* A commit is applied, or refused because its base is stale, or refused for a
\* reason of the catalog's own, which counts as a fault.
LEMMA CommitKeeps == ASSUME CreditInv, Commit PROVE CreditInv'
<1> DEFINE expected == Last(points)
           base == Base(expected)
           lost == table.lost \/ base # table.snap
           Applied(a) == /\ a.ok /\ (base = table.snap \/ ~ kind[at].enforces)
                         /\ table' = [table EXCEPT !.snap = @ + 1, !.meta = @ + 1, !.lost = lost]
                         /\ faults' = faults
           Refused(a) == /\ ~ a.ok /\ table' = table
                         /\ \/ base # table.snap /\ faults' = faults
                            \/ base = table.snap /\ faults' = [faults EXCEPT ![at] = @ + 1]
<1>1. /\ Serves("commit")
      /\ points' = points
      /\ witness' = [p \in DOMAIN witness \cup {expected} |-> IF p = expected THEN base ELSE witness[p]]
      /\ \E a : outs' = Append(outs, a) /\ (Applied(a) \/ Refused(a))
  BY DEF Commit
<1>2. faults' = faults \/ (at \in External /\ faults' = [faults EXCEPT ![at] = @ + 1])
  BY <1>1, NextCaseTyped DEF CreditInv, Serves
<1>3. Honest' => Honest /\ faults' = faults
  BY <1>1, <1>2, HonestBefore DEF CreditInv, Serves, runVars
<1>4. faults' = faults => ~ (faults' = [faults EXCEPT ![at] = @ + 1])
  <2>1. faults \in [External -> Nat] /\ at \in External
    BY <1>1, NextCaseTyped DEF CreditInv, RunTyped, Serves
  <2>2. [faults EXCEPT ![at] = @ + 1][at] = faults[at] + 1 /\ faults[at] \in Nat
    BY <2>1
  <2>3. QED BY <2>2
<1>5. ASSUME Running, Cas PROVE CasStage'
  <2>1. PICK a : outs' = Append(outs, a) /\ (Applied(a) \/ Refused(a))
    BY <1>1
  <2>2. \/ calls = <<"commit", "commit">> /\ points = <<0>> /\ Untouched
        \/ /\ calls = <<"commit">> /\ points = <<0>>
           /\ 0 \in DOMAIN witness /\ witness[0] = 0 /\ NothingLost
           /\ \E b : outs = <<b>> /\ (table.snap = 0 \/ b.ok) /\ (Honest => b.ok /\ table.snap # 0)
    BY <1>1, <1>5 DEF CreditInv, StageInv, CasStage, Serves
  <2>3. expected = 0 /\ calls' = Tail(calls)
    <3>1. points = <<0>>
      BY <2>2
    <3>2. QED BY <1>1, <3>1 DEF Serves, Last
  <2>4. CASE calls = <<"commit", "commit">> /\ points = <<0>> /\ Untouched
    <3>1. base = 0 /\ table.snap = 0 /\ ~ table.lost
      BY <2>3, <2>4 DEF Base, Untouched, NewTable
    <3>2. calls' = <<"commit">> /\ outs' = <<a>> /\ points' = <<0>>
      <4> HIDE DEF Applied, Refused
      <4> QED BY <1>1, <2>1, <2>3, <2>4 DEF Untouched
    <3>3. 0 \in DOMAIN witness' /\ witness'[0] = 0
      BY <1>1, <2>3, <3>1
    <3>4. NothingLost' /\ (table'.snap = 0 \/ a.ok) /\ (Honest' => a.ok /\ table'.snap # 0)
      <4>1. NothingLost /\ lost \in BOOLEAN /\ ~ lost
        BY <2>4, <3>1 DEF Untouched, NewTable, NothingLost
      <4> HIDE DEF lost
      <4>2. CASE Applied(a)
        <5>1. table'.snap = 1 /\ NothingLost'
          BY <3>1, <4>1, <4>2, <2>4 DEF NothingLost, Untouched, NewTable
        <5>2. QED BY <4>2, <5>1
      <4>3. CASE Refused(a)
        <5>1. ~ Honest'
          BY <1>3, <1>4, <3>1, <4>3
        <5>2. QED BY <3>1, <4>1, <4>3, <5>1 DEF NothingLost
      <4>4. QED BY <2>1, <4>2, <4>3
    <3>5. QED BY <3>2, <3>3, <3>4 DEF CasStage
  <2>5. CASE /\ calls = <<"commit">> /\ points = <<0>>
             /\ 0 \in DOMAIN witness /\ witness[0] = 0 /\ NothingLost
             /\ \E b : outs = <<b>> /\ (table.snap = 0 \/ b.ok) /\ (Honest => b.ok /\ table.snap # 0)
    <3>1. PICK b : outs = <<b>> /\ (table.snap = 0 \/ b.ok) /\ (Honest => b.ok /\ table.snap # 0)
      BY <2>5
    <3>2. base = 0
      BY <2>3, <2>5 DEF Base
    <3>3. calls' = <<>> /\ outs' = <<b, a>>
      <4> HIDE DEF Applied, Refused
      <4> QED BY <2>1, <2>3, <2>5, <3>1, Appending
    <3>4. table'.lost => a.ok /\ b.ok
      <4>1. lost \in BOOLEAN /\ (lost => b.ok)
        BY <2>5, <3>1, <3>2 DEF NothingLost
      <4> HIDE DEF lost
      <4> QED BY <2>1, <2>5, <4>1 DEF NothingLost
    <3>5. Honest' => b.ok /\ ~ a.ok
      <4>1. ASSUME Honest' PROVE b.ok /\ table.snap # 0 /\ kind[at].enforces
        BY <1>3, <3>1, <4>1 DEF Honest, KeepsWord
      <4>2. QED BY <2>1, <3>2, <4>1
    <3>6. QED BY <3>3, <3>4, <3>5 DEF CasStage
  <2>6. QED BY <2>2, <2>4, <2>5
<1>6. ~ Retry /\ ~ AcrossRestart
  BY <1>1 DEF CreditInv, StageInv, RetryStage, RestartStage, Serves
<1>7. remembered' = remembered
  BY DEF Commit
<1>8. QED BY <1>1, <1>2, <1>5, <1>6, <1>7, ServedKeeps

\* No compare-and-swap case makes a keyed commit.
LEMMA KeyedKeeps == ASSUME CreditInv, KeyedCommit PROVE CreditInv'
<1> DEFINE k == kind[at]
           known == remembered[at] # NoReceipt /\ k.keys # "ignores"
           receipt == IF ~ k.names THEN NoReceipt ELSE IF known THEN remembered[at] ELSE Written
<1>0. /\ at \in External /\ k \in Kinds /\ DOMAIN remembered = External
      /\ UNCHANGED <<points, witness, at, left, kind, faults>> /\ calls' = Tail(calls)
      /\ calls # <<>> /\ Head(calls) = "keyed"
  BY NextCaseTyped DEF CreditInv, RunTyped, KeyedCommit, Serves, runVars
<1>1. ~ Cas
  BY <1>0 DEF CreditInv, StageInv, CasStage, KeyedCommit, Serves
<1>2. /\ table' = IF known /\ k.keys = "honours" THEN table
                  ELSE [table EXCEPT !.meta = @ + 1, !.effects = @ + 1]
      /\ outs' = Append(outs, Yes(receipt))
      /\ remembered' = Keeping
  BY DEF KeyedCommit, Yes
<1>3. /\ DOMAIN remembered' = DOMAIN remembered
      /\ remembered[at] # NoReceipt => remembered' = remembered
      /\ remembered[at] = NoReceipt => remembered'[at] = Written
  BY <1>0, <1>2 DEF Keeping
<1> HIDE DEF receipt
<1>4. ASSUME Running, Retry PROVE RetryStage'
  <2>1. CASE /\ calls = <<"keyed", "point", "keyed", "point">>
             /\ points = <<0>> /\ Untouched /\ OwnKeys
    <3>1. calls' = <<"point", "keyed", "point">> /\ points' = <<0>>
      BY <1>0, <2>1
    <3>2. table = NewTable /\ outs' = <<Yes(receipt)>>
      BY <1>2, <2>1, Appending DEF Untouched
    <3>3. Written = [table |-> Len(left), meta |-> 1] /\ Written # NoReceipt
      BY <3>2 DEF Written, NewTable, NoReceipt
    <3>4. Counted' /\ table'.meta = IF known /\ k.keys = "honours" THEN 0 ELSE 1
      BY <1>2, <3>2 DEF Counted, NewTable
    <3>5. remembered'[at] # NoReceipt
      BY <1>3, <3>3
    <3>6. kind'[at'].keys = "honours" => EffectIsEarned'
      BY <1>0, <1>2, <2>1, <3>2 DEF EffectIsEarned, NewTable, OwnKeys
    <3>7. IF ~ k.names THEN receipt = NoReceipt
          ELSE IF k.keys # "ignores" THEN receipt = remembered'[at]
          ELSE receipt = [table |-> Len(left), meta |-> 1] /\ table'.meta = 1
      BY <1>3, <3>3, <3>4 DEF receipt
    <3>8. KeyedOnce'
      BY <1>0, <3>2, <3>4, <3>5, <3>6, <3>7 DEF KeyedOnce
    <3>9. QED BY <3>1, <3>8 DEF RetryStage
  <2>2. CASE calls = <<"keyed", "point">> /\ points = <<0, 0>> /\ KeyedOnce
    <3>1. calls' = <<"point">> /\ points' = <<0, 0>>
      BY <1>0, <2>2
    <3>2. PICK r : /\ outs = <<Yes(r)>>
                   /\ IF ~ k.names THEN r = NoReceipt
                      ELSE IF k.keys # "ignores" THEN r = remembered[at]
                      ELSE r = [table |-> Len(left), meta |-> 1] /\ table.meta = 1
      BY <2>2 DEF KeyedOnce
    <3>3. outs' = <<Yes(r), Yes(receipt)>>
      BY <1>2, <3>2, Appending
    <3>4. Counted' /\ (k.keys = "honours" => table' = table /\ EffectIsEarned')
      BY <1>0, <1>2, <2>2 DEF KeyedOnce, Counted, EffectIsEarned
    <3>5. k.keys = "honours" => r = receipt
      BY <2>2, <3>2 DEF KeyedOnce, receipt
    <3>6. k.keys = "ignores" /\ k.names => r # receipt
      BY <3>2 DEF receipt, Written
    <3>7. KeyedTwice'
      BY <1>0, <3>3, <3>4, <3>5, <3>6 DEF KeyedTwice, Kinds
    <3>8. QED BY <3>1, <3>7 DEF RetryStage
  <2>3. RetryStage
    BY <1>4 DEF CreditInv, StageInv
  <2>4. \/ /\ calls = <<"keyed", "point", "keyed", "point">>
           /\ points = <<0>> /\ Untouched /\ OwnKeys
        \/ calls = <<"keyed", "point">> /\ points = <<0, 0>> /\ KeyedOnce
    BY <1>0, <2>3 DEF RetryStage
  <2>5. QED BY <2>1, <2>2, <2>4
<1>5. ASSUME Running, AcrossRestart PROVE RestartStage'
  <2>1. calls = <<"keyed", "restart", "keyed">>
    BY <1>5 DEF CreditInv, StageInv, RestartStage, KeyedCommit, Serves
  <2>2. calls' = <<"restart", "keyed">>
    BY <2>1 DEF KeyedCommit, Serves
  <2>3. QED BY <2>2 DEF RestartStage
<1>6. QED BY <1>1, <1>3, <1>4, <1>5, ServedKeeps DEF KeyedCommit

-----------------------------------------------------------------------------
(* The steps                                                                *)

LEMMA RunnerKeeps == ASSUME CreditInv, Runner PROVE CreditInv'
<1>1. CASE Reference
  <2>1. HonestCatalogIsClean'
    <3>1. PICK result : Entry("reference", result)
      BY <1>1 DEF Reference
    <3>2. "reference" \notin External
      BY DEF External, ToSet
    <3>3. QED BY <1>1, <3>1, <3>2, EntryKeeps DEF CreditInv, Reference, lasting
  <2>2. RunTyped'
    BY <1>1, TypedKeeps DEF CreditInv, Reference, RunTyped, lasting
  <2>3. QED BY <1>1, <2>1, <2>2, AloneKeeps DEF Reference, CreditInv, lasting
<1>2. CASE Unavailable
  <2>1. HonestCatalogIsClean'
    BY <1>2, EntryKeeps DEF CreditInv, Unavailable, lasting
  <2>2. RunTyped'
    BY <1>2, TypedKeeps DEF CreditInv, Unavailable, RunTyped, lasting
  <2>3. QED BY <1>2, <2>1, <2>2, AloneKeeps DEF Unavailable, CreditInv, lasting
<1>3. CASE Launch
  <2>1. /\ UNCHANGED <<kind, configured, entries, remembered, faults>> /\ rows' = <<>>
        /\ at' \in configured /\ Begin(<<"preflight">> \o Cases)
    BY <1>3 DEF Launch, runVars, lasting
  <2>2. left' \in Seq(CaseNames)
    <3>1. Cases \in Seq(CaseNames)
      BY DEF CaseNames, ToSet
    <3>2. "preflight" \in CaseNames
      BY DEF CaseNames
    <3>3. <<"preflight">> \in Seq(CaseNames)
      BY <3>2
    <3>4. QED BY <2>1, <3>1, <3>3 DEF Begin
  <2>3. RunTyped'
    BY <2>1, <2>2, TypedKeeps DEF CreditInv, RunTyped
  <2>4. HonestCatalogIsClean'
    BY <2>1, EntriesKeep DEF CreditInv
  <2>5. QED BY <2>1, <2>3, <2>4, BeginKeeps, NoRowsKeeps DEF CreditInv
<1>4. CASE AdapterFails
  BY <1>4, EndsKeeps DEF AdapterFails, Error
<1>5. CASE Collect
  <2> DEFINE supported(c) == rows[c].supported /\ CapabilityOf(c) \in Claims[at]
             outcomes == [c \in DOMAIN rows |->
                    [supported |-> supported(c), correct |-> supported(c) /\ rows[c].correct]]
             result == [status |-> "executed", gates |-> Gates(outcomes)]
  <2>1. at # "none" /\ Ends(result)
    BY <1>5 DEF Collect
  <2>2. ASSUME KeepsWord(at) PROVE \A g \in DOMAIN result.gates : result.gates[g] = 0
    <3>1. RowsClean
      BY <2>1, <2>2 DEF CreditInv, RunTyped, RowsInv, Honest
    <3>2. \A c \in DOMAIN outcomes :
             GateOf(c) # "none" /\ outcomes[c].supported => outcomes[c].correct
      BY <3>1 DEF RowsClean
    <3> HIDE DEF outcomes
    <3>3. QED BY <3>2, CleanGates
  <2> HIDE DEF result
  <2>3. QED BY <2>1, <2>2, EndsKeeps
<1>6. CASE Report
  <2>1. HonestCatalogIsClean'
    BY <1>6, EntriesKeep DEF CreditInv, Report, lasting
  <2>2. RunTyped'
    BY <1>6, TypedKeeps DEF CreditInv, Report, RunTyped, lasting
  <2>3. QED BY <1>6, <2>1, <2>2, AloneKeeps DEF Report, CreditInv, lasting
<1>7. QED BY <1>1, <1>2, <1>3, <1>4, <1>5, <1>6 DEF Runner

\* The next case begins: what is left to show is what became of the rows.
LEMMA CaseDoneKeeps ==
    ASSUME CreditInv, Running, Begin(Tail(left)), UNCHANGED <<kind, configured, entries, at>>,
           DOMAIN remembered' = DOMAIN remembered,
           faults' = faults \/ (at \in External /\ faults' = [faults EXCEPT ![at] = @ + 1]),
           RowsInv'
    PROVE  CreditInv'
<1>1. RunTyped'
  BY NextCaseTyped, TypedKeeps DEF CreditInv, Begin
<1>2. QED BY <1>1, BeginKeeps, EntriesKeep DEF CreditInv

LEMMA JudgeKeeps == ASSUME CreditInv, Judge PROVE CreditInv'
<1>1. /\ Running /\ calls = <<>> /\ Begin(Tail(left))
      /\ UNCHANGED <<kind, configured, entries, at, remembered, faults>>
  BY DEF Judge, runVars, lasting
<1>2. CASE Case = "preflight"
  <2>1. rows' = rows
    BY <1>2 DEF Judge
  <2>2. RowsInv'
    BY <1>1, <2>1 DEF CreditInv, RowsInv, NoCreditForLostUpdate, RetryCreditIsEarned, RowsClean,
                      Honest, KeepsWord
  <2>3. QED BY <1>1, <2>2, CaseDoneKeeps
<1>3. CASE Case # "preflight"
  <2>1. Row(TRUE, Correct(Case))
    BY <1>3 DEF Judge
  <2>2. GateOf(Case) = "lost_update_accepted" => Cas
    BY DEF GateOf, Cas
  <2>3. GateOf(Case) = "duplicate_commit_applied" => ~ Cas
    BY DEF GateOf, Cas
  <2>4. Honest' => Honest
    BY <1>1 DEF Honest, KeepsWord
  <2>5. Deserved(Correct(Case))
    <3>1. CASE Cas
      BY <1>1, <2>3, <3>1, CasVerdict DEF Deserved
    <3>2. CASE Retry
      BY <1>1, <2>2, <3>2, RetryVerdict DEF Deserved, Cas, Retry, CapabilityOf
    <3>3. CASE ~ Cas /\ ~ Retry
      BY <1>1, <3>3, OtherVerdict DEF Deserved
    <3>4. QED BY <3>1, <3>2, <3>3
  <2>6. RowsInv'
    BY <1>1, <2>1, <2>4, <2>5, CasVerdict, RetryVerdict, OtherVerdict, RowKeeps DEF CreditInv
  <2>7. QED BY <1>1, <2>6, CaseDoneKeeps
<1>4. QED BY <1>2, <1>3

LEMMA AdapterKeeps == ASSUME CreditInv, Adapter PROVE CreditInv'
<1>1. CASE Skip
  BY <1>1, RowKeeps, NoCreditIsDeserved, CaseDoneKeeps DEF Skip, CreditInv, runVars, lasting
<1>2. CASE Decline
  BY <1>2, RowKeeps, NoCreditIsDeserved, CaseDoneKeeps DEF Decline, CreditInv, runVars, lasting
<1>3. CASE Raises
  <2>1. /\ Running /\ at \in External /\ faults' = [faults EXCEPT ![at] = @ + 1]
        /\ DOMAIN remembered' = DOMAIN remembered
    BY <1>3, NextCaseTyped DEF Raises, CreditInv, Keeping
  <2>2. CASE Case = "preflight"
    <3>1. /\ UNCHANGED <<kind, configured>> /\ Entry(at, Error)
          /\ at' = "none" /\ Begin(<<>>) /\ rows' = <<>>
      BY <1>3, <2>2 DEF Raises
    <3>2. RunTyped'
      BY <2>1, <3>1, TypedKeeps DEF CreditInv, Begin
    <3>3. HonestCatalogIsClean'
      BY <2>1, <3>1, EntryKeeps DEF CreditInv, Error
    <3>4. QED BY <3>1, <3>2, <3>3, BeginKeeps, NoRowsKeeps DEF CreditInv
  <2>3. CASE Case # "preflight"
    <3>1. /\ UNCHANGED <<kind, configured, entries, at>> /\ Row(TRUE, FALSE) /\ Begin(Tail(left))
      BY <1>3, <2>3 DEF Raises, runVars
    <3>2. ~ Honest'
      <4>1. faults'[at] = faults[at] + 1 /\ faults[at] \in Nat
        BY <2>1 DEF CreditInv, RunTyped
      <4>2. QED BY <3>1, <4>1 DEF Honest, KeepsWord
    <3>3. RowsInv'
      BY <2>1, <3>1, <3>2, RowKeeps, NoCreditIsDeserved DEF CreditInv
    <3>4. QED BY <2>1, <3>1, <3>3, CaseDoneKeeps
  <2>4. QED BY <2>2, <2>3
<1>4. QED
  BY <1>1, <1>2, <1>3, JudgeKeeps, CreateKeeps, PointKeeps, CommitKeeps, KeyedKeeps DEF Adapter

LEMMA InvariantHolds == Spec => []CreditInv
<1>1. Init => CreditInv
  <2>1. Init => at = "none" /\ rows = <<>> /\ left = <<>> /\ entries = <<>>
    BY DEF Init
  <2>2. Init => RunTyped
    <3>1. Init => kind \in [External -> Kinds] /\ configured \subseteq External
      <4>1. \A c \in External : Behaviours[c] \subseteq Kinds
        BY DEF External, ToSet, Kinds
      <4>2. Init => /\ kind = [c \in External |-> kind[c]] /\ configured \subseteq External
                    /\ \A c \in External : kind[c] \in Behaviours[c]
        BY DEF Init
      <4>3. QED BY <4>1, <4>2
    <3>4. Init => DOMAIN remembered = External
      BY DEF Init
    <3>2. Init => faults \in [External -> Nat]
      <4>1. Init => faults = [c \in External |-> 0]
        BY Zenon DEF Init
      <4>2. QED BY <4>1
    <3>3. QED BY <2>1, <3>1, <3>2, <3>4 DEF RunTyped
  <2>3. QED
    BY <2>1, <2>2 DEF CreditInv, StageInv, Running, RowsInv, NoCreditForLostUpdate,
                      RetryCreditIsEarned, RowsClean, HonestCatalogIsClean
<1>2. CreditInv /\ [Next]_vars => CreditInv'
  <2>1. CASE Runner
    BY <2>1, RunnerKeeps
  <2>2. CASE Adapter
    BY <2>2, AdapterKeeps
  <2>3. ASSUME CreditInv, UNCHANGED vars PROVE CreditInv'
    <3>1. UNCHANGED <<kind, configured, entries, at, left, caseVars, rows, lasting, remembered, faults>>
      BY <2>3 DEF vars, runVars, lasting
    <3>2. RunTyped'
      BY <2>3, <3>1 DEF CreditInv, RunTyped
    <3>3. QED BY <2>3, <3>1, <3>2, AloneKeeps, EntriesKeep DEF CreditInv
  <2>4. QED BY <2>1, <2>2, <2>3 DEF Next
<1>3. QED BY <1>1, <1>2, PTL DEF Spec

\* Two writers on one head and a stale writer are credited only where no update was
\* lost, over every order of failures, refusals and time-outs (protocol.py, 99-110).
THEOREM NoLostUpdateIsCredited == Spec => []NoCreditForLostUpdate
<1>1. CreditInv => NoCreditForLostUpdate
  BY DEF CreditInv, RowsInv
<1>2. QED BY <1>1, InvariantHolds, PTL

\* A retried commit is credited only if it was applied once, or not at all by a catalog
\* whose keys are not kept apart by table, for every catalog that names what it wrote
\* and does not echo the first receipt while it applies the second (protocol.py, 112-117).
THEOREM RetriesAreEarned == Spec => []RetryCreditIsEarned
<1>1. CreditInv => RetryCreditIsEarned
  BY DEF CreditInv, RowsInv
<1>2. QED BY <1>1, InvariantHolds, PTL

\* A catalog that keeps its promises and answers every call is never blamed, in any
\* order of the run (report.py, 42-51; adapters.py, 75-90).
THEOREM HonestCatalogsAreClean == Spec => []HonestCatalogIsClean
<1>1. CreditInv => HonestCatalogIsClean
  BY DEF CreditInv
<1>2. QED BY <1>1, InvariantHolds, PTL
-----------------------------------------------------------------------------
(* The run comes nearer to its end                                          *)

HIDE CatalogDriverAssumption

\* A set of numbers has a smallest one.
LEMMA FirstOf ==
    ASSUME NEW T \in SUBSET Nat, T # {}
    PROVE  \E n \in T : \A m \in T : ~ (m < n)
<1> DEFINE R == OpToRel(<, Nat)
<1>1. PICK n \in T : \A m \in T : ~ (<<m, n>> \in R)
  <2> HIDE DEF R
  <2>1. IsWellFoundedOn(R, Nat)
    BY NatLessThanWellFounded DEF R
  <2>2. QED BY <2>1, WFMin
<1>2. \A m \in T : m < n => <<m, n>> \in R
  BY DEF OpToRel
<1>3. QED BY <1>1, <1>2

\* A function that lists, for every number of catalogs, the selected among them.
Lists(f, n) ==
    f = [i \in 0..n |->
            IF i = 0 THEN IF "reference" \in selected THEN <<"reference">> ELSE <<>>
            ELSE IF Order[i] \in selected THEN Append(f[i - 1], Order[i]) ELSE f[i - 1]]

LEMMA ListsExist == \A n \in 0..Len(Order) : \E f : Lists(f, n)
<1> DEFINE Missing == {n \in 0..Len(Order) : ~ \E f : Lists(f, n)}
<1>1. SUFFICES ASSUME Missing # {} PROVE FALSE
  OBVIOUS
<1>2. PICK n \in Missing : \A m \in Missing : ~ (m < n)
  <2>1. Missing \in SUBSET Nat
    OBVIOUS
  <2> HIDE DEF Missing
  <2>2. QED BY <1>1, <2>1, FirstOf
<1>3. n \in Nat /\ n <= Len(Order) /\ ~ \E f : Lists(f, n)
  BY OrderAssumption
<1>4. CASE n = 0
  <2> DEFINE f == [i \in 0..0 |-> IF "reference" \in selected THEN <<"reference">> ELSE <<>>]
  <2>1. Lists(f, 0)
    BY DEF Lists
  <2>2. QED BY <1>3, <1>4, <2>1
<1>5. CASE n # 0
  <2>1. n - 1 \in 0..Len(Order) /\ n - 1 < n
    BY <1>3, <1>5
  <2>2. PICK f : Lists(f, n - 1)
    BY <1>2, <2>1
  <2> DEFINE step == IF Order[n] \in selected THEN Append(f[n - 1], Order[n]) ELSE f[n - 1]
             g == [i \in 0..n |-> IF i = n THEN step ELSE f[i]]
  <2>3. \A i \in 0..(n - 1) : g[i] = f[i]
    BY <1>3
  <2>4. g[n] = step
    BY <1>3
  <2>5. \A i \in 0..(n - 1) :
          f[i] = IF i = 0 THEN IF "reference" \in selected THEN <<"reference">> ELSE <<>>
                 ELSE IF Order[i] \in selected THEN Append(f[i - 1], Order[i]) ELSE f[i - 1]
    BY <2>2 DEF Lists
  <2>6. \A i \in 0..n : i = n \/ i \in 0..(n - 1)
    BY <1>3
  <2>7. \A i \in 0..n : i # 0 => i - 1 \in 0..(n - 1)
    BY <1>3
  <2>8. g = [i \in 0..n |-> g[i]]
    OBVIOUS
  <2> HIDE DEF g
  <2>9. \A i \in 0..n :
          g[i] = IF i = 0 THEN IF "reference" \in selected THEN <<"reference">> ELSE <<>>
                 ELSE IF Order[i] \in selected THEN Append(g[i - 1], Order[i]) ELSE g[i - 1]
    BY <1>5, <2>3, <2>4, <2>5, <2>6, <2>7
  <2>10. Lists(g, n)
    BY <2>8, <2>9 DEF Lists
  <2>11. QED BY <1>3, <2>10
<1>6. QED BY <1>4, <1>5

Names == {"reference"} \cup External

\* What is requested is a list of catalogs, with or without the reference.
LEMMA RequestTyped == Requested[Len(Order)] \in Seq(Names)
<1> DEFINE Bad == {n \in 0..Len(Order) : Requested[n] \notin Seq(Names)}
<1>1. Len(Order) \in Nat /\ \A n \in 1..Len(Order) : Order[n] \in Names
  BY OrderAssumption DEF Names, External, ToSet
<1>2. Lists(Requested, Len(Order))
  <2>1. \E f : Lists(f, Len(Order))
    BY <1>1, ListsExist
  <2>2. QED BY <2>1 DEF Requested, Lists
<1>3. \A n \in 0..Len(Order) :
        Requested[n] = IF n = 0 THEN IF "reference" \in selected THEN <<"reference">> ELSE <<>>
                       ELSE IF Order[n] \in selected THEN Append(Requested[n - 1], Order[n])
                       ELSE Requested[n - 1]
  BY <1>2 DEF Lists
<1>4. "reference" \in Names /\ <<>> \in Seq(Names) /\ <<"reference">> \in Seq(Names)
  BY DEF Names
<1>5. ASSUME Bad # {} PROVE FALSE
  <2>1. PICK n \in Bad : \A m \in Bad : ~ (m < n)
    <3>1. Bad \in SUBSET Nat
      OBVIOUS
    <3> HIDE DEF Bad
    <3>2. QED BY <1>5, <3>1, FirstOf
  <2>2. n \in Nat /\ n \in 0..Len(Order) /\ Requested[n] \notin Seq(Names)
    OBVIOUS
  <2>3. n # 0
    BY <1>3, <1>4, <2>2
  <2>4. n - 1 \in 0..Len(Order) /\ n - 1 < n /\ Order[n] \in Names
    BY <1>1, <2>2, <2>3
  <2>5. Requested[n - 1] \in Seq(Names)
    BY <2>1, <2>4
  <2> DEFINE before == Requested[n - 1]
  <2>6. Requested[n] = Append(before, Order[n]) \/ Requested[n] = before
    BY <1>3, <2>2, <2>3
  <2> HIDE DEF before
  <2>7. before \in Seq(Names) => Append(before, Order[n]) \in Seq(Names)
    BY <2>4
  <2>8. QED BY <2>2, <2>5, <2>6, <2>7 DEF before
<1>6. QED BY <1>1, <1>5

\* What the runner has still to do: two steps for each catalog, of which one is made
\* when its adapter is launched, and the report.
LaunchLeft == IF at = "none" /\ todo # <<>> THEN 1 ELSE 0
ReportLeft == IF status = "" THEN 1 ELSE 0
WorkLeft == 2 * Len(todo) + LaunchLeft + ReportLeft

\* An adapter runs for the catalog whose turn it is, and the report comes last.
TurnInv ==
    /\ todo \in Seq(Names)
    /\ at # "none" => todo # <<>> /\ at = Head(todo)
    /\ status # "" => todo = <<>>

LEMMA FirstTaken ==
    ASSUME NEW S, NEW s \in Seq(S), s # <<>>
    PROVE  /\ Tail(s) \in Seq(S) /\ Len(Tail(s)) = Len(s) - 1
           /\ Len(s) \in Nat /\ Len(s) > 0 /\ Head(s) \in S
OBVIOUS

LEMMA NamesAre == "none" \notin External /\ "reference" \notin External
BY CatalogDriverAssumption, OrderAssumption DEF External, ToSet

LEMMA WorkTyped ==
    ASSUME TurnInv
    PROVE  Len(todo) \in Nat /\ LaunchLeft \in {0, 1} /\ ReportLeft \in {0, 1} /\ WorkLeft \in Nat
<1>1. Len(todo) \in Nat
  <2>1. todo \in Seq(Names)
    BY DEF TurnInv
  <2>2. QED BY <2>1
<1>2. LaunchLeft \in {0, 1} /\ ReportLeft \in {0, 1}
  BY DEF LaunchLeft, ReportLeft
<1>3. QED BY <1>1, <1>2 DEF WorkLeft

LEMMA WorkTypedNext ==
    ASSUME TurnInv'
    PROVE  /\ Len(todo') \in Nat /\ LaunchLeft' \in {0, 1} /\ ReportLeft' \in {0, 1}
           /\ WorkLeft' \in Nat
<1>1. Len(todo') \in Nat
  <2>1. todo' \in Seq(Names)
    BY DEF TurnInv
  <2>2. QED BY <2>1
<1>2. LaunchLeft' \in {0, 1} /\ ReportLeft' \in {0, 1}
  BY DEF LaunchLeft, ReportLeft
<1>3. QED BY <1>1, <1>2 DEF WorkLeft

LEMMA TwoForOne ==
    \A n \in Nat, a, b, r \in {0, 1} : 2 * (n - 1) + a + r < 2 * n + b + r
<1>1. \A n, a, b, r \in Int : a < 2 + b => 2 * (n - 1) + a + r < 2 * n + b + r
  OBVIOUS
<1>2. QED BY <1>1

\* A catalog is done: at most one of its two steps was left to make.
LEMMA TurnEnds ==
    ASSUME TurnInv, todo # <<>>, todo' = Tail(todo), at' = "none", status' = status
    PROVE  TurnInv' /\ WorkLeft' < WorkLeft
<1>1. /\ todo' \in Seq(Names) /\ Len(todo') = Len(todo) - 1 /\ Len(todo) \in Nat /\ Len(todo) > 0
      /\ status = ""
  BY FirstTaken DEF TurnInv
<1>2. TurnInv'
  BY <1>1 DEF TurnInv
<1>3. ReportLeft' = ReportLeft /\ LaunchLeft' \in {0, 1} /\ LaunchLeft \in {0, 1}
  BY DEF ReportLeft, LaunchLeft
<1> DEFINE n == Len(todo)
<1>4. n \in Nat /\ Len(todo') = n - 1
  BY <1>1
<1>5. ReportLeft \in {0, 1}
  BY DEF ReportLeft
<1> HIDE DEF n
<1>6. WorkLeft = 2 * n + LaunchLeft + ReportLeft
  BY DEF WorkLeft, n
<1>7. WorkLeft' = 2 * (n - 1) + LaunchLeft' + ReportLeft
  BY <1>3, <1>4 DEF WorkLeft
<1>8. 2 * (n - 1) + LaunchLeft' + ReportLeft < 2 * n + LaunchLeft + ReportLeft
  BY <1>3, <1>4, <1>5, TwoForOne
<1>9. QED BY <1>2, <1>6, <1>7, <1>8

\* Nothing that counts changed.
LEMMA TurnStays == ASSUME TurnInv, UNCHANGED <<todo, at, status>> PROVE TurnInv' /\ WorkLeft' <= WorkLeft
<1>1. TurnInv'
  BY DEF TurnInv
<1>2. WorkLeft' = WorkLeft /\ WorkLeft \in Nat
  BY WorkTyped DEF WorkLeft, LaunchLeft, ReportLeft
<1>3. QED BY <1>1, <1>2

LEMMA RunnerWorks == ASSUME CreditInv, TurnInv, Runner PROVE TurnInv' /\ WorkLeft' < WorkLeft
<1>1. CASE Reference
  <2>1. todo # <<>> /\ todo' = Tail(todo) /\ at' = at /\ status' = status /\ Head(todo) = "reference"
    BY <1>1 DEF Reference
  <2>2. at = "none"
    BY <2>1, NamesAre DEF CreditInv, RunTyped, TurnInv
  <2>3. QED BY <2>1, <2>2, TurnEnds
<1>2. CASE Unavailable
  <2>1. todo # <<>> /\ todo' = Tail(todo) /\ at' = "none" /\ status' = status
    BY <1>2 DEF Unavailable
  <2>2. QED BY <2>1, TurnEnds
<1>3. CASE Launch
  <2>1. /\ at = "none" /\ todo # <<>> /\ todo' = todo /\ status' = status
        /\ at' = Head(todo) /\ Head(todo) \in configured
    BY <1>3 DEF Launch, runVars
  <2>2. at' # "none"
    BY <2>1, NamesAre DEF CreditInv, RunTyped
  <2>3. TurnInv'
    BY <2>1 DEF TurnInv
  <2>4. LaunchLeft = 1 /\ LaunchLeft' = 0 /\ ReportLeft' = ReportLeft
    BY <2>1, <2>2 DEF LaunchLeft, ReportLeft
  <2>5. WorkLeft' < WorkLeft
    BY <2>1, <2>4, WorkTyped DEF WorkLeft
  <2>6. QED BY <2>3, <2>5
<1>4. CASE AdapterFails \/ Collect
  <2>1. at # "none" /\ \E result : Ends(result)
    BY <1>4 DEF AdapterFails, Collect
  <2>2. todo # <<>> /\ todo' = Tail(todo) /\ at' = "none" /\ status' = status
    BY <2>1 DEF Ends, TurnInv
  <2>3. QED BY <2>2, TurnEnds
<1>5. CASE Report
  <2>1. todo = <<>> /\ status = "" /\ status' # "" /\ todo' = todo /\ at' = at
    BY <1>5 DEF Report
  <2>2. TurnInv'
    BY <2>1 DEF TurnInv
  <2>3. LaunchLeft' = LaunchLeft /\ ReportLeft = 1 /\ ReportLeft' = 0
    BY <2>1 DEF LaunchLeft, ReportLeft
  <2> DEFINE n == 2 * Len(todo) + LaunchLeft
  <2>4. n \in Nat
    BY WorkTyped
  <2>5. WorkLeft = n + 1
    BY <2>3 DEF WorkLeft
  <2>6. WorkLeft' = n + 0
    BY <2>1, <2>3 DEF WorkLeft
  <2> HIDE DEF n
  <2>7. WorkLeft' < WorkLeft
    BY <2>4, <2>5, <2>6
  <2>8. QED BY <2>2, <2>7
<1>6. QED BY <1>1, <1>2, <1>3, <1>4, <1>5 DEF Runner

\* Whatever the adapter does, it makes no work for the runner.
LEMMA AdapterMakesNone ==
    ASSUME TurnInv, Adapter
    PROVE  TurnInv' /\ WorkLeft' <= WorkLeft
<1>1. ASSUME UNCHANGED <<todo, at, status>> PROVE TurnInv' /\ WorkLeft' <= WorkLeft
  BY <1>1, TurnStays
<1>2. CASE Raises
  <2>1. CASE Case = "preflight"
    <3>1. todo # <<>> /\ todo' = Tail(todo) /\ at' = "none" /\ status' = status
      BY <1>2, <2>1 DEF Raises, Running, TurnInv
    <3>2. TurnInv' /\ WorkLeft' < WorkLeft
      BY <3>1, TurnEnds
    <3>3. QED BY <3>2, WorkTyped, WorkTypedNext
  <2>2. CASE Case # "preflight"
    BY <1>1, <1>2, <2>2 DEF Raises, runVars
  <2>3. QED BY <2>1, <2>2
<1>3. CASE Skip \/ Judge \/ Decline
  BY <1>1, <1>3 DEF Skip, Judge, Decline, runVars
<1>4. CASE Create \/ Point \/ Commit \/ KeyedCommit
  <2>1. \E call : Serves(call)
    BY <1>4 DEF Create, Point, Commit, KeyedCommit
  <2>2. QED BY <1>1, <2>1 DEF Serves, runVars
<1>5. QED BY <1>2, <1>3, <1>4 DEF Adapter

LEMMA TurnKeeps ==
    ASSUME CreditInv, TurnInv, [Next]_vars
    PROVE  TurnInv' /\ WorkLeft' <= WorkLeft /\ (Runner => WorkLeft' < WorkLeft)
<1>1. CASE Runner
  <2>1. TurnInv' /\ WorkLeft' < WorkLeft
    BY <1>1, RunnerWorks
  <2>2. QED BY <2>1, WorkTyped, WorkTypedNext
<1>2. CASE Adapter /\ ~ Runner
  BY <1>2, AdapterMakesNone
<1>3. CASE UNCHANGED vars /\ ~ Runner
  <2>1. UNCHANGED <<todo, at, status>>
    BY <1>3 DEF vars, runVars
  <2>2. QED BY <1>3, <2>1, TurnStays
<1>4. QED BY <1>1, <1>2, <1>3 DEF Next

LEMMA TurnHolds == Spec => []TurnInv
<1>1. Init => TurnInv
  BY RequestTyped DEF Init, TurnInv
<1>2. CreditInv /\ TurnInv /\ [Next]_vars => TurnInv'
  BY TurnKeeps
<1>3. QED BY <1>1, <1>2, InvariantHolds, PTL DEF Spec

\* Why a run ends, short of fairness (RunEnds): the work of the runner is a number,
\* every step of the runner lowers it, nothing that an adapter or a catalog does adds
\* to it, and once there is none the report is built (execute_catalogs, main).
THEOREM RunnerComesToItsEnd ==
    Spec => /\ [](WorkLeft \in Nat /\ (WorkLeft = 0 => status # ""))
            /\ [][WorkLeft' <= WorkLeft /\ (Runner => WorkLeft' < WorkLeft)]_vars
<1>1. TurnInv => WorkLeft \in Nat /\ (WorkLeft = 0 => status # "")
  <2>1. TurnInv /\ ReportLeft = 1 => WorkLeft # 0
    <3> DEFINE n == 2 * Len(todo) + LaunchLeft
    <3>1. TurnInv => n \in Nat
      BY WorkTyped
    <3>2. ReportLeft = 1 => WorkLeft = n + 1
      BY DEF WorkLeft
    <3> HIDE DEF n
    <3>3. QED BY <3>1, <3>2
  <2>2. status = "" => ReportLeft = 1
    BY DEF ReportLeft
  <2>3. TurnInv => WorkLeft \in Nat
    BY WorkTyped
  <2>4. QED BY <2>1, <2>2, <2>3
<1>2. CreditInv /\ TurnInv /\ [Next]_vars
        => [WorkLeft' <= WorkLeft /\ (Runner => WorkLeft' < WorkLeft)]_vars
  BY TurnKeeps
<1>3. QED BY <1>1, <1>2, TurnHolds, InvariantHolds, PTL DEF Spec
=============================================================================
