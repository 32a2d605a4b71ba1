------------------------------ MODULE Catalog ------------------------------
(***************************************************************************)
(* ReferenceCatalog of catalog_provenance/backend.py: tables advanced by   *)
(* compare-and-swap on their metadata pointer, idempotent retries, and the *)
(* evidence of each transition: receipt, audit, outbox and lineage.        *)
(*                                                                         *)
(* Data.  A digest is injective in what it is taken of, so a pointer is    *)
(* that tuple, and the hash of a receipt is the place of its body in       *)
(* "receipts", where equal bodies have one place; NoReceipt is the empty   *)
(* hash.  The request and response hashes are functions of the other       *)
(* fields and of the nonce; caller and nonce make up "by".  An entry of    *)
(* the audit, outbox or lineage log is the receipt it is the digest of.    *)
(***************************************************************************)
EXTENDS Naturals, Sequences, SequencesExt

CONSTANTS
    Tables,
    Updates,        \* what writers ask to write
    Callers,        \* principals with the nonces they use
    Policies,
    Oversized,      \* the updates and policies longer than MAX_TEXT
    Keys, NoKey,    \* idempotency keys; NoKey is ""
    MaxCreates,     \* bound: how often a table is created
    MaxEvents,      \* bound: the length of the audit log
    NoTable

NoReceipt == 0
Hashes    == 1..MaxEvents

\* The pointer of no table, of a table that was just created, after a commit,
\* and the one a tombstone's receipt names.
NoPointer == <<>>
FirstPointer(t) == <<t, 0>>
Pointer(t, n, u) == <<t, n, u>>
Dropped(t) == <<t>>
Pointers == {FirstPointer(t) : t \in Tables}
            \cup (Tables \X (1..MaxEvents) \X Updates)

VARIABLES
    tables,         \* self.tables
    idempotency,    \* self.idempotency: the key's receipt
    receipts,       \* self.receipts
    audit, outbox, lineage,
    answer,         \* the last outcome, with the request it answers
    created         \* history: how often each table was created

evidence == <<receipts, audit, outbox, lineage>>
vars == <<tables, idempotency, evidence, answer, created>>

Table == [metadata: Pointers, snapshot: 0..MaxEvents,
          head: {NoReceipt} \cup Hashes, tombstoned: BOOLEAN]

Receipt == [table: Tables, op: {"commit", "tombstone"}, previous: Pointers,
            new: Pointers \cup {Dropped(t) : t \in Tables},
            snapshot: 0..MaxEvents, by: Callers, policy: Policies,
            key: Keys \cup {NoKey}, prev: {NoReceipt} \cup Hashes]

ASSUME CatalogAssumption ==
    /\ Oversized \subseteq Updates \cup Policies
    /\ NoKey \notin Keys /\ NoTable \notin Table
    /\ MaxEvents \in Nat /\ MaxCreates \in Nat

----------------------------------------------------------------------------
Live(t) == tables[t] # NoTable /\ ~tables[t].tombstoned

\* The hash of a body: its place if it is recorded already, else the next one.
Hash(body) ==
    IF \E h \in DOMAIN receipts : receipts[h] = body
    THEN CHOOSE h \in DOMAIN receipts : receipts[h] = body
    ELSE Len(receipts) + 1

Recorded(body) ==
    IF \E h \in DOMAIN receipts : receipts[h] = body
    THEN receipts ELSE Append(receipts, body)

Reply(op, asked, ok, error, h) ==
    answer' = [op |-> op, asked |-> asked, ok |-> ok, error |-> error, receipt |-> h]

Refuse(op, asked, error) ==
    /\ Reply(op, asked, FALSE, error, NoReceipt)
    /\ UNCHANGED <<tables, idempotency, evidence, created>>

\* Nothing keeps a table that exists, or was dropped, from being created again.
Create(t) ==
    /\ created[t] < MaxCreates
    /\ created' = [created EXCEPT ![t] = @ + 1]
    /\ tables' = [tables EXCEPT ![t] =
                    [metadata |-> FirstPointer(t), snapshot |-> 0,
                     head |-> NoReceipt, tombstoned |-> FALSE]]
    /\ UNCHANGED <<idempotency, evidence, answer>>

\* Mutant: a tombstone stages no outbox event.
Staged_CommitOnly(log, h, op) ==
    IF op = "tombstone" THEN log ELSE Append(log, h)

Staged(log, h, op) == Append(log, h)

\* The evidence of a transition is recorded together.
Record(body) ==
    /\ Len(audit) < MaxEvents
    /\ receipts' = Recorded(body)
    /\ audit' = Append(audit, Hash(body))
    /\ outbox' = Staged(outbox, Hash(body), body.op)
    /\ lineage' = IF body.op = "commit" THEN Append(lineage, Hash(body)) ELSE lineage

----------------------------------------------------------------------------
(* Commit                                                                  *)

\* Mutants: the predecessor of a receipt is the catalog's last one; a pointer
\* is compared by its table only.
Predecessor_Global(t) == Len(receipts)
Current_AnyVersion(t, expected) == expected # NoPointer /\ expected[1] = t

Predecessor(t) == tables[t].head
Current(t, expected) == expected = tables[t].metadata

CommitBody(t, expected, u, by, policy, k) ==
    [table |-> t, op |-> "commit", previous |-> expected,
     new |-> Pointer(t, tables[t].snapshot + 1, u),
     snapshot |-> tables[t].snapshot + 1, by |-> by, policy |-> policy,
     key |-> k, prev |-> Predecessor(t)]

\* Mutant: a retry is recognised only by the caller that made the request.
Retried_SameCaller(k, by) ==
    k \in DOMAIN idempotency /\ receipts[idempotency[k]].by = by

Retried(k, by) == k \in DOMAIN idempotency

\* Mutant: the new head is not stored with the new pointer.
Advanced_KeepsHead(entry, body) ==
    [entry EXCEPT !.metadata = body.new, !.snapshot = body.snapshot]

Advanced(entry, body) ==
    [entry EXCEPT !.metadata = body.new, !.snapshot = body.snapshot,
                  !.head = Hash(body)]

\* Mutant: the empty key is remembered like any other.
Remembered_Always(k, h) ==
    [j \in DOMAIN idempotency \cup {k} |-> IF j = k THEN h ELSE idempotency[j]]

Remembered(k, h) ==
    IF k = NoKey THEN idempotency
    ELSE [j \in DOMAIN idempotency \cup {k} |-> IF j = k THEN h ELSE idempotency[j]]

Accept(t, expected, u, by, policy, k) ==
    LET body == CommitBody(t, expected, u, by, policy, k)
    IN /\ Record(body)
       /\ tables' = [tables EXCEPT ![t] = Advanced(@, body)]
       /\ idempotency' = Remembered(k, Hash(body))
       /\ Reply("commit", <<t, u>>, TRUE, "", Hash(body))
       /\ UNCHANGED created

\* Only a commit looks at the length of its policy.
BadText(u, policy) == u \in Oversized \/ policy \in Oversized

Commit(t, expected, u, by, policy, k) ==
    \/ /\ BadText(u, policy)
       /\ Refuse("commit", <<t, u>>, "oversized")
    \/ /\ ~BadText(u, policy) /\ Retried(k, by)
       /\ Reply("commit", <<t, u>>, TRUE, "", idempotency[k])
       /\ UNCHANGED <<tables, idempotency, evidence, created>>
    \/ /\ ~BadText(u, policy) /\ ~Retried(k, by) /\ ~Live(t)
       /\ Refuse("commit", <<t, u>>, "no-such-table")
    \/ /\ ~BadText(u, policy) /\ ~Retried(k, by) /\ Live(t) /\ ~Current(t, expected)
       /\ Refuse("commit", <<t, u>>, "stale-metadata")
    \/ /\ ~BadText(u, policy) /\ ~Retried(k, by) /\ Live(t) /\ Current(t, expected)
       /\ Accept(t, expected, u, by, policy, k)

----------------------------------------------------------------------------
(* Scan, tombstone, restart                                                *)

\* The scan receipt binds the policy and the snapshot of the moment; it is
\* handed out and not recorded.
Scan(t, policy) ==
    \/ /\ ~Live(t)
       /\ Refuse("scan", <<t>>, "no-such-table")
    \/ /\ Live(t)
       /\ answer' = [op |-> "scan", asked |-> <<t>>, ok |-> TRUE, error |-> "",
                     receipt |-> NoReceipt, bound |-> <<policy, tables[t].snapshot>>]
       /\ UNCHANGED <<tables, idempotency, evidence, created>>

TombstoneBody(t, by, policy) ==
    [table |-> t, op |-> "tombstone", previous |-> tables[t].metadata,
     new |-> Dropped(t), snapshot |-> tables[t].snapshot, by |-> by,
     policy |-> policy, key |-> NoKey, prev |-> Predecessor(t)]

\* The pointer stays where it was; only commit and scan look at the flag.
Tombstone(t, by, policy) ==
    \/ /\ ~Live(t)
       /\ Refuse("tombstone", <<t>>, "no-such-table")
    \/ LET body == TombstoneBody(t, by, policy)
       IN /\ Live(t)
          /\ Record(body)
          /\ tables' = [tables EXCEPT ![t] =
                           [@ EXCEPT !.tombstoned = TRUE, !.head = Hash(body)]]
          /\ Reply("tombstone", <<t>>, TRUE, "", Hash(body))
          /\ UNCHANGED <<idempotency, created>>

\* Mutants: a new process with its dropped tables open; with the outbox drained
\* of what was staged.
Restarted_Reopened(old) ==
    [old EXCEPT !.tables =
        [t \in Tables |-> IF @[t] = NoTable THEN NoTable
                          ELSE [@[t] EXCEPT !.tombstoned = FALSE]]]
Restarted_NoOutbox(old) == [old EXCEPT !.outbox = <<>>]

Restarted(old) ==
    [tables |-> old.tables, idempotency |-> old.idempotency,
     receipts |-> old.receipts, audit |-> old.audit, outbox |-> old.outbox,
     lineage |-> old.lineage]

Restart ==
    LET new == Restarted([tables |-> tables, idempotency |-> idempotency,
                          receipts |-> receipts, audit |-> audit,
                          outbox |-> outbox, lineage |-> lineage])
    IN /\ tables' = new.tables
       /\ idempotency' = new.idempotency
       /\ receipts' = new.receipts
       /\ audit' = new.audit
       /\ outbox' = new.outbox
       /\ lineage' = new.lineage
       /\ answer' = [op |-> "none"]
       /\ UNCHANGED created

----------------------------------------------------------------------------
Init ==
    /\ tables = [t \in Tables |-> NoTable]
    /\ idempotency = [k \in {} |-> NoReceipt]
    /\ receipts = <<>>
    /\ audit = <<>> /\ outbox = <<>> /\ lineage = <<>>
    /\ answer = [op |-> "none"]
    /\ created = [t \in Tables |-> 0]

\* The pointers writers can have read, at any earlier time, from any table.
Seen == {NoPointer} \cup {FirstPointer(t) : t \in {x \in Tables : created[x] > 0}}
        \cup {receipts[h].new : h \in {i \in DOMAIN receipts : receipts[i].op = "commit"}}

Next ==
    \/ \E t \in Tables : Create(t)
    \/ \E t \in Tables, expected \in Seen, u \in Updates, by \in Callers,
          policy \in Policies, k \in Keys \cup {NoKey} :
             Commit(t, expected, u, by, policy, k)
    \/ \E t \in Tables, policy \in Policies :
          Scan(t, policy) \/ \E by \in Callers : Tombstone(t, by, policy)
    \/ Restart

Spec == Init /\ [][Next]_vars

----------------------------------------------------------------------------
(* Properties                                                              *)

Answers ==
    [op: {"none"}]
    \cup [op: {"commit", "tombstone", "scan"},
          asked: (Tables \X Updates) \cup {<<t>> : t \in Tables}, ok: BOOLEAN,
          error: {"", "oversized", "no-such-table", "stale-metadata"},
          receipt: {NoReceipt} \cup Hashes]
    \cup [op: {"scan"}, asked: {<<t>> : t \in Tables}, ok: {TRUE}, error: {""},
          receipt: {NoReceipt}, bound: Policies \X (0..MaxEvents)]

\* The catalog's tables and logs keep their types.
TypeOK ==
    /\ tables \in [Tables -> Table \cup {NoTable}]
    /\ DOMAIN idempotency \subseteq Keys
    /\ \A k \in DOMAIN idempotency : idempotency[k] \in Hashes
    /\ receipts \in Seq(Receipt) /\ Len(receipts) <= MaxEvents
    /\ audit \in Seq(Hashes) /\ Len(audit) <= MaxEvents
    /\ outbox \in Seq(Hashes) /\ lineage \in Seq(Hashes)
    /\ answer \in Answers
    /\ created \in [Tables -> 0..MaxCreates]

\* Each receipt continues the receipt it names: same table, the pointer and
\* snapshot that one ended with, and nothing continues a tombstone; the first
\* of a history starts from the pointer create gave (commit, tombstone).
ChainLinked ==
    \A h \in DOMAIN receipts :
        LET r == receipts[h]
            step == IF r.op = "commit" THEN 1 ELSE 0
        IN /\ r.prev < h
           /\ r.prev = NoReceipt =>
                 r.previous = FirstPointer(r.table) /\ r.snapshot = step
           /\ r.prev # NoReceipt =>
                 LET p == receipts[r.prev]
                 IN /\ p.op = "commit" /\ p.table = r.table
                    /\ r.previous = p.new /\ r.snapshot = p.snapshot + step

\* A table's pointer, snapshot and tombstone are those of the receipt at the
\* head of its chain, so the receipts alone prove the state (commit, tombstone).
HeadProvesTable ==
    \A t \in Tables : tables[t] # NoTable =>
        LET e == tables[t]
        IN IF e.head = NoReceipt
           THEN e.metadata = FirstPointer(t) /\ e.snapshot = 0 /\ ~e.tombstoned
           ELSE /\ e.head \in DOMAIN receipts
                /\ LET r == receipts[e.head]
                   IN /\ r.table = t /\ r.snapshot = e.snapshot
                      /\ e.tombstoned = (r.op = "tombstone")
                      /\ e.metadata = IF e.tombstoned THEN r.previous ELSE r.new

\* No update is lost: of a table created once, no pointer was replaced by two
\* transitions and no receipt has two successors, however stale the pointers
\* writers assert (the compare-and-swap of commit).
NoLostUpdate ==
    \A t \in Tables : created[t] <= 1 =>
        \A h, j \in DOMAIN receipts :
            (receipts[h].table = t /\ receipts[j].table = t /\ h # j) =>
                /\ receipts[h].previous # receipts[j].previous
                /\ receipts[h].prev # receipts[j].prev

IsCommit(h) == receipts[h].op = "commit"

\* Evidence is neither lost nor emitted without its transition: audit and
\* outbox list the same transitions in the same order, lineage the commits
\* among them, and together they list exactly the receipts.
EvidenceTogether ==
    /\ outbox = audit
    /\ lineage = SelectSeq(audit, IsCommit)
    /\ {audit[i] : i \in DOMAIN audit} = DOMAIN receipts

\* A key commits at most once, whoever retries it, on whichever table, across
\* drops and restarts; and it is remembered exactly when it committed.
KeyedOnce ==
    /\ \A i, j \in DOMAIN audit :
          (receipts[audit[i]].key = receipts[audit[j]].key
             /\ receipts[audit[i]].key # NoKey) => i = j
    /\ DOMAIN idempotency = {receipts[audit[i]].key : i \in DOMAIN audit} \ {NoKey}
    /\ \A k \in DOMAIN idempotency : receipts[idempotency[k]].key = k

\* Receipts and logs are never rewritten, by a restart or otherwise: what
\* replay accepted once it accepts for good.
EvidenceIsDurable ==
    [][ /\ IsPrefix(receipts, receipts') /\ IsPrefix(audit, audit')
        /\ IsPrefix(outbox, outbox') /\ IsPrefix(lineage, lineage') ]_vars

\* A dropped table stays as it is until it is created again.
DropIsFinal ==
    [][ \A t \in Tables :
          (tables[t] # NoTable /\ ~Live(t) /\ tables'[t] # tables[t])
             => created'[t] > created[t] ]_vars

\* The receipts from the first of a history to a given one.
Chain[h \in 0..Len(receipts)] ==
    IF h = NoReceipt THEN <<>> ELSE Append(Chain[receipts[h].prev], h)

HeadOf(t) == IF tables[t] = NoTable THEN NoReceipt ELSE tables[t].head

History == INSTANCE TableHistory
    WITH Entries <- Hashes,
         history <- [t \in Tables |-> Chain[HeadOf(t)]],
         open <- {t \in Tables : Live(t)}

\* The chains of receipts are append-only histories of their tables.
HistorySpec == History!Spec

\* The code calls it an exact idempotent retry; it answers any later request
\* that carries the key, also for another table or another update.
RetryAnswersItsRequest ==
    (answer.op = "commit" /\ answer.ok) =>
        LET r == receipts[answer.receipt]
        IN answer.asked = <<r.table, r.new[3]>>

\* "A stale assertion loses" (backend.py:153): a pointer that a commit replaced is
\* never current again.  A table that is created again starts from the pointer it
\* started from before, and a writer that read it then commits.
ReplacedIsStale ==
    \A t \in Tables, h \in DOMAIN receipts :
        Live(t) /\ IsCommit(h) => receipts[h].previous # tables[t].metadata
============================================================================
