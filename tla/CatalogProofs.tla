--------------------------- MODULE CatalogProofs ---------------------------
(***************************************************************************)
(* What Catalog guarantees for every number of tables, writers, keys and   *)
(* transitions: receipts chain, the head of a chain proves its table, no   *)
(* update is lost, a key commits once, evidence is durable, and the chains *)
(* of receipts are append-only histories of their tables.                  *)
(***************************************************************************)
EXTENDS Catalog, SequenceTheorems, WellFoundedInduction, TLAPS

USE CatalogAssumption

Version(pointer) == pointer[2]

\* A receipt's snapshot is at most its place, and every receipt is audited:
\* snapshots and hashes stay below the bound of the log.
Bounded ==
    /\ \A h \in DOMAIN receipts : receipts[h].snapshot <= h
    /\ Len(receipts) <= Len(audit)
    /\ \A i \in DOMAIN audit : audit[i] \in DOMAIN receipts
    /\ \A h \in DOMAIN receipts : \E i \in DOMAIN audit : audit[i] = h

\* Of a table created once, every receipt left from an older pointer and from
\* another head than the present ones; a table never created has none.
Fresh ==
    /\ \A t \in Tables : tables[t] # NoTable => Version(tables[t].metadata) = tables[t].snapshot
    /\ \A t \in Tables : created[t] = 0 =>
          tables[t] = NoTable /\ \A h \in DOMAIN receipts : receipts[h].table # t
    /\ \A t \in Tables : (created[t] <= 1 /\ Live(t)) =>
          \A h \in DOMAIN receipts : receipts[h].table = t =>
              /\ Version(receipts[h].previous) < tables[t].snapshot
              /\ receipts[h].prev # tables[t].head

IInv ==
    /\ TypeOK
    /\ Bounded
    /\ ChainLinked
    /\ HeadProvesTable
    /\ Fresh
    /\ NoLostUpdate

----------------------------------------------------------------------------
(* Recording evidence.                                                     *)

LEMMA TableTyped ==
    ASSUME TypeOK, NEW t \in Tables, tables[t] # NoTable
    PROVE  /\ tables[t] \in Table
           /\ tables[t].snapshot \in Nat /\ tables[t].head \in Nat
           /\ tables[t].metadata \in Pointers /\ tables[t].tombstoned \in BOOLEAN
<1>1. tables[t] \in Table
  BY DEF TypeOK
<1> QED
  BY <1>1 DEF Table, Hashes, NoReceipt

LEMMA ReceiptTyped ==
    ASSUME TypeOK, NEW h \in DOMAIN receipts
    PROVE  /\ receipts[h] \in Receipt /\ h \in 1..Len(receipts)
           /\ receipts[h].snapshot \in Nat /\ receipts[h].prev \in Nat
           /\ receipts[h].op \in {"commit", "tombstone"}
<1>1. receipts[h] \in Receipt /\ h \in 1..Len(receipts)
  BY DEF TypeOK
<1> QED
  BY <1>1 DEF Receipt, Hashes, NoReceipt

\* Recording a body adds it under its hash and rewrites nothing.
LEMMA RecordAdds ==
    ASSUME IInv, NEW body \in Receipt, Record(body)
    PROVE  /\ receipts' \in Seq(Receipt)
           /\ Hash(body) \in Hashes
           /\ DOMAIN receipts' = DOMAIN receipts \cup {Hash(body)}
           /\ receipts'[Hash(body)] = body
           /\ \A h \in DOMAIN receipts : receipts'[h] = receipts[h]
           /\ Hash(body) \in DOMAIN receipts \/ Hash(body) = Len(receipts) + 1
           /\ Len(receipts') \in {Len(receipts), Len(receipts) + 1}
           /\ Len(receipts') = Len(receipts) <=> Hash(body) \in DOMAIN receipts
<1>1. /\ receipts \in Seq(Receipt) /\ Len(receipts) \in Nat /\ Len(audit) \in Nat
      /\ Len(receipts) < MaxEvents /\ DOMAIN receipts = 1..Len(receipts)
  BY DEF IInv, TypeOK, Bounded, Record
<1>2. CASE \E h \in DOMAIN receipts : receipts[h] = body
  <2>1. receipts' = receipts
    BY <1>2 DEF Record, Recorded
  <2>2. Hash(body) \in DOMAIN receipts /\ receipts[Hash(body)] = body
    BY <1>2 DEF Hash
  <2> QED
    BY <1>1, <2>1, <2>2 DEF Hashes
<1>3. CASE ~\E h \in DOMAIN receipts : receipts[h] = body
  <2>1. receipts' = Append(receipts, body) /\ Hash(body) = Len(receipts) + 1
    BY <1>3 DEF Record, Recorded, Hash
  <2>2. /\ receipts' \in Seq(Receipt) /\ Len(receipts') = Len(receipts) + 1
        /\ DOMAIN receipts' = 1..(Len(receipts) + 1)
        /\ receipts'[Len(receipts) + 1] = body
        /\ \A h \in 1..Len(receipts) : receipts'[h] = receipts[h]
    BY <1>1, <2>1
  <2>3. 1..(Len(receipts) + 1) = (1..Len(receipts)) \cup {Len(receipts) + 1}
    BY <1>1
  <2>4. Hash(body) \in Hashes
    BY <1>1, <2>1 DEF Hashes
  <2>5. Hash(body) \notin DOMAIN receipts
    BY <1>1, <2>1
  <2>6. Len(receipts') = Len(receipts) + 1 /\ Len(receipts) \in Nat
    BY <1>1, <2>2
  <2>7. Len(receipts') # Len(receipts)
    BY ONLY <2>6
  <2> HIDE DEF Receipt
  <2> QED
    BY <1>1, <2>1, <2>2, <2>3, <2>4, <2>5, <2>7
<1> QED
  BY <1>2, <1>3

----------------------------------------------------------------------------
(* One transition of one table, a commit or a tombstone.                   *)

\* The body continues the table's chain and the entry follows the body.
Continues(t, body, entry) ==
    /\ Live(t)
    /\ body \in Receipt /\ entry \in Table
    /\ body.table = t
    /\ body.previous = tables[t].metadata
    /\ body.prev = tables[t].head
    /\ body.snapshot = tables[t].snapshot + (IF body.op = "commit" THEN 1 ELSE 0)
    /\ entry.snapshot = body.snapshot
    /\ entry.head = Hash(body)
    /\ entry.tombstoned = (body.op = "tombstone")
    /\ entry.metadata = IF entry.tombstoned THEN body.previous ELSE body.new
    /\ Version(entry.metadata) = entry.snapshot
    /\ Record(body)
    /\ tables' = [tables EXCEPT ![t] = entry]
    /\ UNCHANGED created

\* The head of a live table is no receipt or one of its commits.
LEMMA LiveHead ==
    ASSUME IInv, NEW t \in Tables, Live(t)
    PROVE  /\ tables[t].head = NoReceipt =>
                 tables[t].metadata = FirstPointer(t) /\ tables[t].snapshot = 0
           /\ tables[t].head # NoReceipt =>
                 /\ tables[t].head \in DOMAIN receipts
                 /\ receipts[tables[t].head].table = t
                 /\ receipts[tables[t].head].op = "commit"
                 /\ receipts[tables[t].head].new = tables[t].metadata
                 /\ receipts[tables[t].head].snapshot = tables[t].snapshot
<1>1. tables[t] # NoTable /\ ~tables[t].tombstoned
  BY DEF Live
<1>2. CASE tables[t].head = NoReceipt
  BY <1>1, <1>2 DEF IInv, HeadProvesTable
<1>3. CASE tables[t].head # NoReceipt
  <2>1. /\ tables[t].head \in DOMAIN receipts
        /\ receipts[tables[t].head].table = t
        /\ receipts[tables[t].head].snapshot = tables[t].snapshot
        /\ tables[t].tombstoned = (receipts[tables[t].head].op = "tombstone")
        /\ tables[t].metadata = IF tables[t].tombstoned
                                 THEN receipts[tables[t].head].previous
                                 ELSE receipts[tables[t].head].new
    BY <1>1, <1>3 DEF IInv, HeadProvesTable
  <2>2. receipts[tables[t].head].op \in {"commit", "tombstone"}
    BY <2>1, ReceiptTyped DEF IInv
  <2> QED
    BY <1>1, <1>3, <2>1, <2>2
<1> QED
  BY <1>2, <1>3

LEMMA ContinuesChain ==
    ASSUME IInv, NEW t \in Tables, NEW body, NEW entry, Continues(t, body, entry)
    PROVE  ChainLinked'
<1> DEFINE Step(r) == IF r.op = "commit" THEN 1 ELSE 0
           Good(r, h) == /\ r.prev < h
                         /\ r.prev = NoReceipt =>
                               r.previous = FirstPointer(r.table) /\ r.snapshot = Step(r)
           Follows(r, p) == /\ p.op = "commit" /\ p.table = r.table
                            /\ r.previous = p.new /\ r.snapshot = p.snapshot + Step(r)
<1>1. body \in Receipt /\ Record(body)
  BY DEF Continues
<1>2. /\ DOMAIN receipts' = DOMAIN receipts \cup {Hash(body)}
      /\ receipts'[Hash(body)] = body
      /\ \A h \in DOMAIN receipts : receipts'[h] = receipts[h]
      /\ Hash(body) \in DOMAIN receipts \/ Hash(body) = Len(receipts) + 1
  BY <1>1, RecordAdds
<1>3. \A h \in DOMAIN receipts : /\ Good(receipts[h], h) /\ receipts[h].prev \in Nat
                                 /\ h \in 1..Len(receipts)
                                 /\ receipts[h].prev # NoReceipt =>
                                       Follows(receipts[h], receipts[receipts[h].prev])
  BY ReceiptTyped DEF IInv, ChainLinked
<1>4. DOMAIN receipts = 1..Len(receipts) /\ Len(receipts) \in Nat
  BY DEF IInv, TypeOK
<1>5. \A h \in DOMAIN receipts : receipts[h].prev # NoReceipt => receipts[h].prev \in DOMAIN receipts
  BY <1>3, <1>4 DEF NoReceipt
<1>6. \A h \in DOMAIN receipts : /\ Good(receipts'[h], h)
                                 /\ receipts'[h].prev # NoReceipt =>
                                       Follows(receipts'[h], receipts'[receipts'[h].prev])
  BY <1>2, <1>3, <1>5
<1>7. ASSUME Hash(body) = Len(receipts) + 1
      PROVE  /\ Good(body, Hash(body))
             /\ body.prev # NoReceipt => Follows(body, receipts'[body.prev])
  <2>1. /\ body.table = t /\ body.previous = tables[t].metadata
        /\ body.prev = tables[t].head
        /\ body.snapshot = tables[t].snapshot + Step(body)
        /\ Live(t)
    BY DEF Continues
  <2>2. CASE tables[t].head = NoReceipt
    BY <1>4, <1>7, <2>1, <2>2, LiveHead DEF NoReceipt
  <2>3. CASE tables[t].head # NoReceipt
    <3>1. /\ tables[t].head \in DOMAIN receipts
          /\ receipts[tables[t].head].table = t
          /\ receipts[tables[t].head].op = "commit"
          /\ receipts[tables[t].head].new = tables[t].metadata
          /\ receipts[tables[t].head].snapshot = tables[t].snapshot
      BY <2>1, <2>3, LiveHead
    <3>2. receipts'[tables[t].head] = receipts[tables[t].head]
      BY <1>2, <3>1
    <3>3. body.prev < Hash(body)
      BY <1>4, <1>7, <2>1, <3>1
    <3> QED
      BY <2>1, <2>3, <3>1, <3>2, <3>3
  <2> QED
    BY <2>2, <2>3
<1>8. \A h \in DOMAIN receipts' : /\ Good(receipts'[h], h)
                                  /\ receipts'[h].prev # NoReceipt =>
                                        Follows(receipts'[h], receipts'[receipts'[h].prev])
  BY <1>2, <1>6, <1>7
<1> QED
  BY <1>8 DEF ChainLinked

LEMMA ContinuesHead ==
    ASSUME IInv, NEW t \in Tables, NEW body, NEW entry, Continues(t, body, entry)
    PROVE  HeadProvesTable'
<1> DEFINE Proved(s, e, rs) ==
             IF e.head = NoReceipt
             THEN e.metadata = FirstPointer(s) /\ e.snapshot = 0 /\ ~e.tombstoned
             ELSE /\ e.head \in DOMAIN rs
                  /\ LET r == rs[e.head]
                     IN /\ r.table = s /\ r.snapshot = e.snapshot
                        /\ e.tombstoned = (r.op = "tombstone")
                        /\ e.metadata = IF e.tombstoned THEN r.previous ELSE r.new
<1>1. body \in Receipt /\ Record(body)
  BY DEF Continues
<1>2. /\ DOMAIN receipts' = DOMAIN receipts \cup {Hash(body)}
      /\ receipts'[Hash(body)] = body
      /\ \A h \in DOMAIN receipts : receipts'[h] = receipts[h]
      /\ Hash(body) \in Hashes
  BY <1>1, RecordAdds
<1>3. /\ tables \in [Tables -> Table \cup {NoTable}]
      /\ tables' = [tables EXCEPT ![t] = entry]
  BY DEF IInv, TypeOK, Continues
<1>4. Proved(t, tables'[t], receipts')
  <2>1. tables'[t] = entry
    BY <1>3
  <2>2. /\ entry.head = Hash(body) /\ Hash(body) # NoReceipt
        /\ body.table = t /\ body.snapshot = entry.snapshot
        /\ entry.tombstoned = (body.op = "tombstone")
        /\ entry.metadata = IF entry.tombstoned THEN body.previous ELSE body.new
    BY <1>2 DEF Continues, Hashes, NoReceipt
  <2> QED
    BY <1>2, <2>1, <2>2
<1>5. ASSUME NEW s \in Tables, s # t, tables'[s] # NoTable
      PROVE  Proved(s, tables'[s], receipts')
  <2>1. tables'[s] = tables[s]
    BY <1>3, <1>5
  <2>2. Proved(s, tables[s], receipts)
    BY <1>5, <2>1 DEF IInv, HeadProvesTable
  <2> QED
    BY <1>2, <2>1, <2>2
<1> QED
  BY <1>4, <1>5 DEF HeadProvesTable

LEMMA SnapshotBound ==
    ASSUME IInv, NEW t \in Tables, Live(t)
    PROVE  tables[t].snapshot \in Nat /\ tables[t].snapshot <= Len(receipts)
<1>1. tables[t].snapshot \in Nat
  BY TableTyped DEF Live, IInv
<1>2. Len(receipts) \in Nat /\ DOMAIN receipts = 1..Len(receipts)
  BY DEF IInv, TypeOK
<1>3. CASE tables[t].head = NoReceipt
  BY <1>2, <1>3, LiveHead
<1>4. CASE tables[t].head # NoReceipt
  <2>1. /\ tables[t].head \in 1..Len(receipts)
        /\ receipts[tables[t].head].snapshot = tables[t].snapshot
    BY <1>2, <1>4, LiveHead
  <2>2. receipts[tables[t].head].snapshot <= tables[t].head
    BY <1>2, <2>1 DEF IInv, Bounded
  <2> QED
    BY <1>1, <1>2, <2>1, <2>2
<1> QED
  BY <1>1, <1>3, <1>4

LEMMA ContinuesBounded ==
    ASSUME IInv, NEW t \in Tables, NEW body, NEW entry, Continues(t, body, entry)
    PROVE  Bounded'
<1>1. body \in Receipt /\ Record(body) /\ Live(t)
  BY DEF Continues
<1>2. /\ DOMAIN receipts' = DOMAIN receipts \cup {Hash(body)}
      /\ receipts'[Hash(body)] = body
      /\ \A h \in DOMAIN receipts : receipts'[h] = receipts[h]
      /\ Hash(body) \in DOMAIN receipts \/ Hash(body) = Len(receipts) + 1
      /\ Len(receipts') \in {Len(receipts), Len(receipts) + 1}
  BY <1>1, RecordAdds
<1>3. /\ audit \in Seq(Hashes) /\ Len(audit) \in Nat /\ Len(receipts) \in Nat
      /\ DOMAIN receipts = 1..Len(receipts)
  BY DEF IInv, TypeOK
<1>4. /\ audit' = Append(audit, Hash(body))
      /\ Len(audit') = Len(audit) + 1 /\ DOMAIN audit' = 1..(Len(audit) + 1)
      /\ DOMAIN audit = 1..Len(audit)
      /\ audit'[Len(audit) + 1] = Hash(body)
      /\ \A i \in 1..Len(audit) : audit'[i] = audit[i]
  BY <1>1, <1>3 DEF Record
<1>5. Len(receipts') <= Len(audit')
  <2>1. Len(receipts) <= Len(audit)
    BY DEF IInv, Bounded
  <2>2. /\ Len(audit') = Len(audit) + 1
        /\ Len(receipts') \in {Len(receipts), Len(receipts) + 1}
        /\ Len(audit) \in Nat /\ Len(receipts) \in Nat
    BY <1>2, <1>3, <1>4
  <2> QED
    BY ONLY <2>1, <2>2
<1>6. \A i \in DOMAIN audit' : audit'[i] \in DOMAIN receipts'
  <2> SUFFICES ASSUME NEW i \in 1..(Len(audit) + 1)
               PROVE  audit'[i] \in DOMAIN receipts'
    BY <1>4
  <2>1. CASE i = Len(audit) + 1
    BY <1>2, <1>4, <2>1
  <2>2. CASE i \in 1..Len(audit)
    BY <1>2, <1>4, <2>2 DEF IInv, Bounded
  <2> QED
    BY <1>3, <2>1, <2>2
<1>7. \A h \in DOMAIN receipts' : \E i \in DOMAIN audit' : audit'[i] = h
  <2>1. Len(audit) + 1 \in DOMAIN audit' /\ \A i \in DOMAIN audit : i \in DOMAIN audit'
    BY <1>3, <1>4
  <2>2. \A h \in DOMAIN receipts : \E i \in DOMAIN audit : audit[i] = h
    BY DEF IInv, Bounded
  <2> QED
    BY <1>2, <1>4, <2>1, <2>2
<1>8. body.snapshot <= Len(receipts) + 1
  <2>1. body.snapshot = tables[t].snapshot + (IF body.op = "commit" THEN 1 ELSE 0)
    BY DEF Continues
  <2>2. tables[t].snapshot \in Nat /\ tables[t].snapshot <= Len(receipts)
    BY <1>1, SnapshotBound
  <2> QED
    BY <1>3, <2>1, <2>2
<1>9. \A h \in DOMAIN receipts' : receipts'[h].snapshot <= h
  <2>1. \A h \in DOMAIN receipts : receipts'[h].snapshot <= h
    BY <1>2 DEF IInv, Bounded
  <2>2. CASE Hash(body) = Len(receipts) + 1
    BY <1>2, <1>8, <2>1, <2>2
  <2>3. CASE Hash(body) \in DOMAIN receipts
    BY <1>2, <2>1, <2>3
  <2> QED
    BY <1>2, <2>2, <2>3
<1> QED
  BY <1>5, <1>6, <1>7, <1>9 DEF Bounded

\* The receipt of a table created once is a new one.
LEMMA ContinuesNew ==
    ASSUME IInv, NEW t \in Tables, NEW body, NEW entry, Continues(t, body, entry),
           created[t] <= 1
    PROVE  Hash(body) = Len(receipts) + 1
<1>1. body \in Receipt /\ Record(body) /\ Live(t)
  BY DEF Continues
<1>2. Hash(body) \in DOMAIN receipts \/ Hash(body) = Len(receipts) + 1
  BY <1>1, RecordAdds
<1>3. ASSUME Hash(body) \in DOMAIN receipts PROVE FALSE
  <2>1. receipts[Hash(body)] = body
    BY <1>1, <1>3, RecordAdds
  <2>2. body.table = t /\ body.prev = tables[t].head
    BY DEF Continues
  <2> QED
    BY <1>1, <1>3, <2>1, <2>2 DEF IInv, Fresh
<1> QED
  BY <1>2, <1>3

LEMMA ContinuesFresh ==
    ASSUME IInv, NEW t \in Tables, NEW body, NEW entry, Continues(t, body, entry)
    PROVE  Fresh'
<1>1. body \in Receipt /\ Record(body) /\ Live(t) /\ body.table = t
  BY DEF Continues
<1>2. /\ DOMAIN receipts' = DOMAIN receipts \cup {Hash(body)}
      /\ receipts'[Hash(body)] = body
      /\ \A h \in DOMAIN receipts : receipts'[h] = receipts[h]
  BY <1>1, RecordAdds
<1>3. /\ tables \in [Tables -> Table \cup {NoTable}]
      /\ tables' = [tables EXCEPT ![t] = entry] /\ created' = created
  BY DEF IInv, TypeOK, Continues
<1>4. tables'[t] = entry /\ \A s \in Tables : s # t => tables'[s] = tables[s]
  BY <1>3
<1>5. \A s \in Tables : tables'[s] # NoTable => Version(tables'[s].metadata) = tables'[s].snapshot
  BY <1>4 DEF IInv, Fresh, Continues
<1>6. created[t] # 0
  BY <1>1 DEF IInv, Fresh, Live
<1>7. \A s \in Tables : created'[s] = 0 =>
          tables'[s] = NoTable /\ \A h \in DOMAIN receipts' : receipts'[h].table # s
  <2> SUFFICES ASSUME NEW s \in Tables, created[s] = 0
               PROVE  tables'[s] = NoTable /\ \A h \in DOMAIN receipts' : receipts'[h].table # s
    BY <1>3
  <2>1. s # t /\ tables[s] = NoTable /\ \A h \in DOMAIN receipts : receipts[h].table # s
    BY <1>6 DEF IInv, Fresh
  <2> QED
    BY <1>1, <1>2, <1>4, <2>1
<1>8. ASSUME NEW s \in Tables, created'[s] <= 1, Live(s)', s # t,
             NEW h \in DOMAIN receipts', receipts'[h].table = s
      PROVE  /\ Version(receipts'[h].previous) < tables'[s].snapshot
             /\ receipts'[h].prev # tables'[s].head
  <2>1. h \in DOMAIN receipts /\ receipts'[h] = receipts[h]
    BY <1>1, <1>2, <1>8
  <2>2. Live(s) /\ created[s] <= 1 /\ tables'[s] = tables[s]
    BY <1>3, <1>4, <1>8 DEF Live
  <2> QED
    BY <1>8, <2>1, <2>2 DEF IInv, Fresh
<1>9. ASSUME created'[t] <= 1, Live(t)',
             NEW h \in DOMAIN receipts', receipts'[h].table = t
      PROVE  /\ Version(receipts'[h].previous) < tables'[t].snapshot
             /\ receipts'[h].prev # tables'[t].head
  <2>1. Hash(body) = Len(receipts) + 1 /\ created[t] <= 1
    BY <1>3, <1>9, ContinuesNew
  <2>2. body.op = "commit"
    BY <1>1, <1>4, <1>9 DEF Live, Continues, Receipt
  <2>3. /\ entry.snapshot = tables[t].snapshot + 1 /\ entry.head = Len(receipts) + 1
        /\ body.previous = tables[t].metadata /\ body.prev = tables[t].head
        /\ Version(tables[t].metadata) = tables[t].snapshot
    BY <1>1, <2>1, <2>2 DEF Continues, IInv, Fresh, Live
  <2>4. /\ tables[t].snapshot \in Nat /\ Len(receipts) \in Nat
        /\ DOMAIN receipts = 1..Len(receipts)
    BY <1>1, TableTyped DEF IInv, Live, TypeOK
  <2>5. CASE h \in DOMAIN receipts
    <3>1. /\ Version(receipts[h].previous) < tables[t].snapshot
          /\ receipts[h].prev < h /\ receipts[h].prev \in Nat
      BY <1>1, <1>2, <1>9, <2>1, <2>5, ReceiptTyped DEF IInv, Fresh, ChainLinked
    <3>2. Version(receipts[h].previous) < tables[t].snapshot + 1
      <4>1. receipts[h].previous \in Pointers
        BY <2>5, ReceiptTyped DEF IInv, Receipt
      <4>2. Version(receipts[h].previous) \in Nat
        BY <4>1 DEF Pointers, Version, FirstPointer
      <4> QED
        BY <2>4, <3>1, <4>2
    <3>3. receipts[h].prev # Len(receipts) + 1
      BY <2>4, <2>5, <3>1
    <3> QED
      BY <1>2, <1>4, <2>3, <2>5, <3>2, <3>3
  <2>6. CASE h = Hash(body)
    <3>1. tables[t].head # Len(receipts) + 1
      BY <1>1, <2>4, LiveHead DEF NoReceipt
    <3> QED
      BY <1>2, <1>4, <2>3, <2>4, <2>6, <3>1
  <2> QED
    BY <1>2, <1>9, <2>5, <2>6
<1> QED
  BY <1>5, <1>7, <1>8, <1>9 DEF Fresh

LEMMA ContinuesNoLost ==
    ASSUME IInv, NEW t \in Tables, NEW body, NEW entry, Continues(t, body, entry)
    PROVE  NoLostUpdate'
<1>1. body \in Receipt /\ Record(body) /\ Live(t) /\ body.table = t
  BY DEF Continues
<1>2. /\ DOMAIN receipts' = DOMAIN receipts \cup {Hash(body)}
      /\ receipts'[Hash(body)] = body
      /\ \A h \in DOMAIN receipts : receipts'[h] = receipts[h]
  BY <1>1, RecordAdds
<1>3. created' = created
  BY DEF Continues
<1>4. ASSUME created[t] <= 1, NEW h \in DOMAIN receipts, receipts[h].table = t
      PROVE  receipts[h].previous # body.previous /\ receipts[h].prev # body.prev
  <2>1. /\ Version(receipts[h].previous) < tables[t].snapshot
        /\ receipts[h].prev # tables[t].head
        /\ Version(tables[t].metadata) = tables[t].snapshot
    BY <1>1, <1>4 DEF IInv, Fresh, Live
  <2>2. body.previous = tables[t].metadata /\ body.prev = tables[t].head
    BY DEF Continues
  <2>3. tables[t].snapshot \in Nat
    BY <1>1, TableTyped DEF IInv, Live
  <2> QED
    BY <2>1, <2>2, <2>3
<1>5. ASSUME NEW s \in Tables, created[s] <= 1,
             NEW h \in DOMAIN receipts', NEW j \in DOMAIN receipts',
             receipts'[h].table = s, receipts'[j].table = s, h # j
      PROVE  /\ receipts'[h].previous # receipts'[j].previous
             /\ receipts'[h].prev # receipts'[j].prev
  <2>1. CASE h \in DOMAIN receipts /\ j \in DOMAIN receipts
    BY <1>2, <1>5, <2>1 DEF IInv, NoLostUpdate
  <2>2. CASE h = Hash(body) /\ j \in DOMAIN receipts
    BY <1>1, <1>2, <1>4, <1>5, <2>2
  <2>3. CASE j = Hash(body) /\ h \in DOMAIN receipts
    BY <1>1, <1>2, <1>4, <1>5, <2>3
  <2> QED
    BY <1>2, <1>5, <2>1, <2>2, <2>3
<1> QED
  BY <1>3, <1>5 DEF NoLostUpdate

\* A transition preserves everything but the types of keys and answers.
LEMMA ContinuesPreserves ==
    ASSUME IInv, NEW t \in Tables, NEW body, NEW entry, Continues(t, body, entry),
           DOMAIN idempotency' \subseteq Keys,
           \A k \in DOMAIN idempotency' : idempotency'[k] \in Hashes,
           answer' \in Answers
    PROVE  IInv'
<1>1. body \in Receipt /\ Record(body)
  BY DEF Continues
<1>2. receipts' \in Seq(Receipt) /\ Hash(body) \in Hashes
  BY <1>1, RecordAdds
<1>3. /\ audit' = Append(audit, Hash(body)) /\ outbox' = Append(outbox, Hash(body))
      /\ lineage' \in {lineage, Append(lineage, Hash(body))} /\ Len(audit) < MaxEvents
  BY <1>1 DEF Record, Staged
<1>4. /\ audit' \in Seq(Hashes) /\ Len(audit') <= MaxEvents
      /\ outbox' \in Seq(Hashes) /\ lineage' \in Seq(Hashes)
  <2>1. audit \in Seq(Hashes) /\ outbox \in Seq(Hashes) /\ lineage \in Seq(Hashes)
    BY DEF IInv, TypeOK
  <2> DEFINE h == Hash(body)
  <2> HIDE DEF h
  <2>5. h \in Hashes /\ audit' = Append(audit, h) /\ outbox' = Append(outbox, h)
        /\ lineage' \in {lineage, Append(lineage, h)}
    BY <1>2, <1>3 DEF h
  <2>6. \A log \in Seq(Hashes) :
           Append(log, h) \in Seq(Hashes) /\ Len(Append(log, h)) = Len(log) + 1
    BY <2>5
  <2>2. /\ audit' \in Seq(Hashes) /\ Len(audit') = Len(audit) + 1
        /\ outbox' \in Seq(Hashes) /\ lineage' \in Seq(Hashes)
    BY <2>1, <2>5, <2>6
  <2>3. Len(audit) \in Nat /\ MaxEvents \in Nat /\ Len(audit) < MaxEvents
    BY <1>3, <2>1
  <2>4. Len(audit') <= MaxEvents
    BY ONLY <2>2, <2>3
  <2> QED
    BY <2>2, <2>4
<1>5. Bounded'
  BY ContinuesBounded
<1>6. Len(receipts') <= MaxEvents
  <2>1. Len(receipts') <= Len(audit')
    BY <1>5 DEF Bounded
  <2>2. Len(receipts') \in Nat /\ Len(audit') \in Nat
    BY <1>2, <1>4
  <2> QED
    BY <1>4, <2>1, <2>2
<1>7. tables' \in [Tables -> Table \cup {NoTable}] /\ created' = created
  BY DEF Continues, IInv, TypeOK
<1>8. TypeOK'
  BY <1>2, <1>4, <1>6, <1>7 DEF IInv, TypeOK
<1> QED
  BY <1>5, <1>8, ContinuesChain, ContinuesHead, ContinuesFresh, ContinuesNoLost DEF IInv

\* A step that leaves tables, evidence and the counts of creations alone.
LEMMA Untouched ==
    ASSUME IInv, UNCHANGED <<tables, evidence, created>>,
           UNCHANGED idempotency, answer' \in Answers
    PROVE  IInv'
BY DEF evidence, IInv, TypeOK, Bounded, ChainLinked, HeadProvesTable, Fresh,
       NoLostUpdate, Live

----------------------------------------------------------------------------
(* The actions.                                                            *)

LEMMA AcceptContinues ==
    ASSUME IInv, NEW t \in Tables, NEW expected \in Seen, NEW u \in Updates,
           NEW by \in Callers, NEW policy \in Policies, NEW k \in Keys \cup {NoKey},
           Live(t), Current(t, expected), Accept(t, expected, u, by, policy, k)
    PROVE  Continues(t, CommitBody(t, expected, u, by, policy, k),
                     Advanced(tables[t], CommitBody(t, expected, u, by, policy, k)))
<1> DEFINE body == CommitBody(t, expected, u, by, policy, k)
           entry == Advanced(tables[t], body)
<1>1. /\ tables[t] \in Table /\ tables[t] # NoTable /\ ~tables[t].tombstoned
      /\ tables[t].snapshot \in Nat /\ tables[t].metadata \in Pointers
      /\ tables[t].head \in {NoReceipt} \cup Hashes
  BY TableTyped DEF IInv, Live, Table
<1>2. Record(body) /\ tables' = [tables EXCEPT ![t] = entry] /\ UNCHANGED created
  BY DEF Accept
<1>3. tables[t].snapshot + 1 \in 1..MaxEvents
  <2>1. Len(audit) < MaxEvents /\ Len(receipts) <= Len(audit)
    BY <1>2 DEF Record, IInv, Bounded
  <2>2. Len(audit) \in Nat /\ Len(receipts) \in Nat
    BY DEF IInv, TypeOK
  <2> QED
    BY <2>1, <2>2, SnapshotBound
<1>4. /\ body.table = t /\ body.op = "commit" /\ body.previous = tables[t].metadata
      /\ body.new = <<t, tables[t].snapshot + 1, u>>
      /\ body.snapshot = tables[t].snapshot + 1 /\ body.prev = tables[t].head
  BY DEF CommitBody, Predecessor, Pointer, Current
<1>5. body.new \in Pointers
  BY <1>3, <1>4 DEF Pointers
<1>6. body \in Receipt
  <2>1. /\ expected \in Pointers
        /\ Pointer(t, tables[t].snapshot + 1, u) \in Pointers
    BY <1>1, <1>4, <1>5 DEF Current, CommitBody
  <2> QED
    BY <1>1, <1>3, <2>1 DEF CommitBody, Predecessor, Receipt
<1>7. Hash(body) \in Hashes
  BY <1>2, <1>6, RecordAdds
<1>8. /\ entry \in Table
      /\ entry.metadata = body.new /\ entry.snapshot = body.snapshot
      /\ entry.head = Hash(body) /\ entry.tombstoned = FALSE
  <2> HIDE DEF body
  <2>1. body.snapshot \in 0..MaxEvents
    BY <1>3, <1>4
  <2> QED
    BY <1>1, <1>5, <1>7, <2>1 DEF Advanced, Table
<1>9. Version(entry.metadata) = entry.snapshot
  BY <1>4, <1>8 DEF Version
<1> HIDE DEF body, entry
<1>10. Continues(t, body, entry)
  BY <1>2, <1>4, <1>6, <1>8, <1>9 DEF Continues
<1> QED
  BY <1>10 DEF body, entry

LEMMA RefusePreserves ==
    ASSUME IInv, NEW op \in {"commit", "tombstone", "scan"},
           NEW asked \in (Tables \X Updates) \cup {<<t>> : t \in Tables},
           NEW error \in {"oversized", "no-such-table", "stale-metadata"},
           Refuse(op, asked, error)
    PROVE  IInv'
<1>1. answer' \in Answers
  BY DEF Refuse, Reply, Answers
<1> QED
  BY <1>1, Untouched DEF Refuse

LEMMA CommitPreserves ==
    ASSUME IInv, NEW t \in Tables, NEW expected \in Seen, NEW u \in Updates,
           NEW by \in Callers, NEW policy \in Policies, NEW k \in Keys \cup {NoKey},
           Commit(t, expected, u, by, policy, k)
    PROVE  IInv'
<1>1. CASE \/ Refuse("commit", <<t, u>>, "oversized")
           \/ Refuse("commit", <<t, u>>, "no-such-table")
           \/ Refuse("commit", <<t, u>>, "stale-metadata")
  BY <1>1, RefusePreserves
<1>2. CASE /\ Retried(k, by)
           /\ Reply("commit", <<t, u>>, TRUE, "", idempotency[k])
           /\ UNCHANGED <<tables, idempotency, evidence, created>>
  <2>1. idempotency[k] \in Hashes
    BY <1>2 DEF Retried, IInv, TypeOK
  <2>2. answer' \in Answers
    BY <1>2, <2>1 DEF Reply, Answers
  <2> QED
    BY <1>2, <2>2, Untouched
<1>3. CASE Live(t) /\ Current(t, expected) /\ Accept(t, expected, u, by, policy, k)
  <2> DEFINE body == CommitBody(t, expected, u, by, policy, k)
             entry == Advanced(tables[t], body)
  <2>1. Continues(t, body, entry)
    BY <1>3, AcceptContinues
  <2>2. idempotency' = Remembered(k, Hash(body)) /\ Reply("commit", <<t, u>>, TRUE, "", Hash(body))
    BY <1>3 DEF Accept
  <2> HIDE DEF body, entry
  <2>3. Hash(body) \in Hashes
    BY <2>1, RecordAdds DEF Continues
  <2>4. answer' \in Answers
    BY <2>2, <2>3 DEF Reply, Answers
  <2>5. /\ DOMAIN idempotency' \subseteq Keys
        /\ \A j \in DOMAIN idempotency' : idempotency'[j] \in Hashes
    BY <2>2, <2>3 DEF Remembered, IInv, TypeOK
  <2> QED
    BY <2>1, <2>4, <2>5, ContinuesPreserves
<1> QED
  BY <1>1, <1>2, <1>3 DEF Commit

LEMMA TombstoneContinues ==
    ASSUME IInv, NEW t \in Tables, NEW by \in Callers, NEW policy \in Policies,
           Live(t), Record(TombstoneBody(t, by, policy)),
           tables' = [tables EXCEPT ![t] =
               [@ EXCEPT !.tombstoned = TRUE, !.head = Hash(TombstoneBody(t, by, policy))]],
           UNCHANGED created
    PROVE  Continues(t, TombstoneBody(t, by, policy),
                     [tables[t] EXCEPT !.tombstoned = TRUE,
                                       !.head = Hash(TombstoneBody(t, by, policy))])
<1> DEFINE body == TombstoneBody(t, by, policy)
           entry == [tables[t] EXCEPT !.tombstoned = TRUE, !.head = Hash(body)]
<1>1. /\ tables[t] \in Table /\ tables[t] # NoTable
      /\ tables[t].snapshot \in 0..MaxEvents /\ tables[t].metadata \in Pointers
      /\ tables[t].head \in {NoReceipt} \cup Hashes
  BY TableTyped DEF IInv, Live, Table
<1>2. /\ body.table = t /\ body.op = "tombstone" /\ body.previous = tables[t].metadata
      /\ body.snapshot = tables[t].snapshot /\ body.prev = tables[t].head
  BY DEF TombstoneBody, Predecessor
<1>3. body \in Receipt
  BY <1>1 DEF TombstoneBody, Predecessor, Receipt
<1>4. Hash(body) \in Hashes
  BY <1>3, RecordAdds
<1>5. tables' = [tables EXCEPT ![t] = entry]
  OBVIOUS
<1>6. Version(tables[t].metadata) = tables[t].snapshot
  BY <1>1 DEF IInv, Fresh
<1>7. /\ entry \in Table
      /\ entry.metadata = tables[t].metadata /\ entry.snapshot = tables[t].snapshot
      /\ entry.head = Hash(body) /\ entry.tombstoned = TRUE
  <2> HIDE DEF body
  <2> QED
    BY <1>1, <1>4 DEF Table
<1>8. body.snapshot = tables[t].snapshot + (IF body.op = "commit" THEN 1 ELSE 0)
  BY <1>1, <1>2
<1> HIDE DEF body, entry
<1>9. Record(body)
  BY DEF body
<1>10. Continues(t, body, entry)
  BY <1>2, <1>3, <1>5, <1>6, <1>7, <1>8, <1>9 DEF Continues
<1> QED
  BY <1>10 DEF body, entry

LEMMA TombstonePreserves ==
    ASSUME IInv, NEW t \in Tables, NEW by \in Callers, NEW policy \in Policies,
           Tombstone(t, by, policy)
    PROVE  IInv'
<1>1. CASE Refuse("tombstone", <<t>>, "no-such-table")
  BY <1>1, RefusePreserves
<1> DEFINE body == TombstoneBody(t, by, policy)
           entry == [tables[t] EXCEPT !.tombstoned = TRUE, !.head = Hash(body)]
<1>2. CASE /\ Live(t) /\ Record(body)
           /\ tables' = [tables EXCEPT ![t] =
                            [@ EXCEPT !.tombstoned = TRUE, !.head = Hash(body)]]
           /\ Reply("tombstone", <<t>>, TRUE, "", Hash(body))
           /\ UNCHANGED <<idempotency, created>>
  <2>1. Continues(t, body, entry)
    BY <1>2, TombstoneContinues
  <2> HIDE DEF body, entry
  <2>2. Hash(body) \in Hashes
    BY <2>1, RecordAdds DEF Continues
  <2>3. answer' \in Answers
    BY <1>2, <2>2 DEF Reply, Answers
  <2>4. /\ DOMAIN idempotency' \subseteq Keys
        /\ \A j \in DOMAIN idempotency' : idempotency'[j] \in Hashes
    BY <1>2 DEF IInv, TypeOK
  <2> QED
    BY <2>1, <2>3, <2>4, ContinuesPreserves
<1> QED
  BY <1>1, <1>2 DEF Tombstone

LEMMA CreatePreserves ==
    ASSUME IInv, NEW t \in Tables, Create(t)
    PROVE  IInv'
<1> DEFINE entry == [metadata |-> FirstPointer(t), snapshot |-> 0,
                     head |-> NoReceipt, tombstoned |-> FALSE]
<1>1. /\ tables' = [tables EXCEPT ![t] = entry]
      /\ created' = [created EXCEPT ![t] = @ + 1] /\ created[t] < MaxCreates
      /\ UNCHANGED <<idempotency, evidence, answer>>
  BY DEF Create
<1>2. entry \in Table
  BY DEF Table, Pointers
<1>3. /\ tables'[t] = entry /\ \A s \in Tables : s # t => tables'[s] = tables[s]
      /\ created'[t] = created[t] + 1 /\ created[t] \in Nat
      /\ \A s \in Tables : s # t => created'[s] = created[s]
  BY <1>1 DEF IInv, TypeOK
<1>4. entry # NoTable
  BY <1>2
<1>5. TypeOK'
  <2>1. created' \in [Tables -> 0..MaxCreates]
    BY <1>1, <1>3 DEF IInv, TypeOK
  <2>2. tables' \in [Tables -> Table \cup {NoTable}]
    BY <1>1, <1>2 DEF IInv, TypeOK
  <2> QED
    BY <1>1, <2>1, <2>2 DEF IInv, TypeOK, evidence
<1>6. Bounded' /\ ChainLinked'
  BY <1>1 DEF IInv, Bounded, ChainLinked, evidence
<1>7. HeadProvesTable'
  <2>1. receipts' = receipts
    BY <1>1 DEF evidence
  <2>2. tables'[t].head = NoReceipt /\ tables'[t].metadata = FirstPointer(t)
        /\ tables'[t].snapshot = 0 /\ ~tables'[t].tombstoned
    BY <1>3
  <2> QED
    BY <1>3, <2>1, <2>2 DEF IInv, HeadProvesTable
<1>8. Fresh'
  <2>1. \A s \in Tables : tables'[s] # NoTable => Version(tables'[s].metadata) = tables'[s].snapshot
    BY <1>3 DEF IInv, Fresh, Version, FirstPointer
  <2>2. \A s \in Tables : created'[s] = 0 =>
          tables'[s] = NoTable /\ \A h \in DOMAIN receipts' : receipts'[h].table # s
    BY <1>1, <1>3 DEF IInv, Fresh, evidence
  <2>3. ASSUME NEW s \in Tables, created'[s] <= 1, Live(s)',
               NEW h \in DOMAIN receipts', receipts'[h].table = s
        PROVE  /\ Version(receipts'[h].previous) < tables'[s].snapshot
               /\ receipts'[h].prev # tables'[s].head
    <3>1. s # t
      <4>1. ASSUME created[t] = 0 PROVE \A j \in DOMAIN receipts : receipts[j].table # t
        BY <4>1 DEF IInv, Fresh
      <4> QED
        BY <1>1, <1>3, <2>3, <4>1 DEF evidence
    <3>2. Live(s) /\ created[s] <= 1 /\ receipts' = receipts /\ tables'[s] = tables[s]
      BY <1>1, <1>3, <2>3, <3>1 DEF Live, evidence
    <3> QED
      BY <2>3, <3>2 DEF IInv, Fresh
  <2> QED
    BY <2>1, <2>2, <2>3 DEF Fresh
<1>9. NoLostUpdate'
  <2>1. \A s \in Tables : created'[s] <= 1 => created[s] <= 1
    BY <1>3
  <2> QED
    BY <1>1, <2>1 DEF IInv, NoLostUpdate, evidence
<1> QED
  BY <1>5, <1>6, <1>7, <1>8, <1>9 DEF IInv

LEMMA StepInvariant ==
    ASSUME IInv, [Next]_vars
    PROVE  IInv'
<1>1. ASSUME NEW t \in Tables, NEW policy \in Policies, Scan(t, policy)
      PROVE  IInv'
  <2>1. CASE Refuse("scan", <<t>>, "no-such-table")
    BY <2>1, RefusePreserves
  <2>2. CASE /\ Live(t)
             /\ answer' = [op |-> "scan", asked |-> <<t>>, ok |-> TRUE, error |-> "",
                           receipt |-> NoReceipt, bound |-> <<policy, tables[t].snapshot>>]
             /\ UNCHANGED <<tables, idempotency, evidence, created>>
    <3>1. tables[t].snapshot \in 0..MaxEvents
      BY <2>2, TableTyped DEF IInv, Live, Table
    <3>2. answer' \in Answers
      BY <2>2, <3>1 DEF Answers
    <3> QED
      BY <2>2, <3>2, Untouched
  <2> QED
    BY <1>1, <2>1, <2>2 DEF Scan
<1>2. CASE Restart
  <2>1. UNCHANGED <<tables, evidence, created, idempotency>> /\ answer' = [op |-> "none"]
    BY <1>2 DEF Restart, Restarted, evidence
  <2>2. answer' \in Answers
    BY <2>1 DEF Answers
  <2> QED
    BY <2>1, <2>2, Untouched
<1>3. CASE UNCHANGED vars
  <2>1. answer' \in Answers
    BY <1>3 DEF vars, IInv, TypeOK
  <2> QED
    BY <1>3, <2>1, Untouched DEF vars
<1> QED
  BY <1>1, <1>2, <1>3, CreatePreserves, CommitPreserves, TombstonePreserves DEF Next

LEMMA InitInvariant ==
    ASSUME Init
    PROVE  IInv
<1>1. receipts = <<>> /\ audit = <<>> /\ DOMAIN receipts = {} /\ DOMAIN audit = {}
      /\ Len(receipts) = 0 /\ Len(audit) = 0
  BY DEF Init
<1>2. TypeOK
  <2>1. answer \in Answers
    BY DEF Init, Answers
  <2>2. receipts \in Seq(Receipt) /\ audit \in Seq(Hashes) /\ outbox \in Seq(Hashes)
        /\ lineage \in Seq(Hashes)
    BY DEF Init
  <2> QED
    BY <1>1, <2>1, <2>2 DEF Init, TypeOK
<1>3. Bounded /\ ChainLinked /\ NoLostUpdate
  BY <1>1 DEF Bounded, ChainLinked, NoLostUpdate
<1>4. HeadProvesTable /\ Fresh
  BY <1>1 DEF Init, HeadProvesTable, Fresh, Live
<1> QED
  BY <1>2, <1>3, <1>4 DEF IInv

----------------------------------------------------------------------------
(* What the catalog promises.                                              *)

\* The inductive invariant holds of every reachable state of the catalog.
THEOREM InvariantHolds == Spec => []IInv
<1>1. Init => IInv
  BY InitInvariant
<1>2. IInv /\ [Next]_vars => IInv'
  BY StepInvariant
<1> QED
  BY <1>1, <1>2, PTL DEF Spec

\* The catalog's tables and logs keep their types.
THEOREM TypeCorrect == Spec => []TypeOK
BY InvariantHolds, PTL DEF IInv

\* Every receipt continues the receipt it names (commit, tombstone).
THEOREM ReceiptsChain == Spec => []ChainLinked
BY InvariantHolds, PTL DEF IInv

\* The receipt at the head of a chain proves the state of its table.
THEOREM HeadProves == Spec => []HeadProvesTable
BY InvariantHolds, PTL DEF IInv

\* Compare-and-swap on the pointer loses no update, however stale the pointers
\* that are asserted (commit).
THEOREM NoUpdateLost == Spec => []NoLostUpdate
BY InvariantHolds, PTL DEF IInv

\* Recording extends logs and receipts at the end; everything else leaves them.
LEMMA EvidenceGrows ==
    ASSUME IInv, [Next]_vars
    PROVE  \/ UNCHANGED evidence
           \/ \E body \in Receipt : Record(body)
<1>1. ASSUME NEW t \in Tables, NEW expected \in Seen, NEW u \in Updates,
             NEW by \in Callers, NEW policy \in Policies, NEW k \in Keys \cup {NoKey},
             Commit(t, expected, u, by, policy, k)
      PROVE  UNCHANGED evidence \/ \E body \in Receipt : Record(body)
  <2>1. CASE Live(t) /\ Current(t, expected) /\ Accept(t, expected, u, by, policy, k)
    BY <2>1, AcceptContinues DEF Continues
  <2> QED
    BY <1>1, <2>1 DEF Commit, Refuse
<1>2. ASSUME NEW t \in Tables, NEW by \in Callers, NEW policy \in Policies,
             Tombstone(t, by, policy)
      PROVE  UNCHANGED evidence \/ \E body \in Receipt : Record(body)
  <2>1. CASE Refuse("tombstone", <<t>>, "no-such-table")
    BY <2>1 DEF Refuse
  <2> QED
    BY <1>2, <2>1, TombstoneContinues DEF Tombstone, Continues
<1>3. ASSUME NEW t \in Tables, Create(t) \/ \E policy \in Policies : Scan(t, policy)
      PROVE  UNCHANGED evidence
  BY <1>3 DEF Create, Scan, Refuse
<1>4. CASE Restart \/ UNCHANGED vars
  BY <1>4 DEF Restart, Restarted, evidence, vars
<1> QED
  BY <1>1, <1>2, <1>3, <1>4 DEF Next

LEMMA AppendExtends ==
    ASSUME NEW S, NEW log \in Seq(S), NEW x
    PROVE  IsPrefix(log, log) /\ (x \in S => IsPrefix(log, Append(log, x)))
<1>1. ASSUME x \in S PROVE IsPrefix(log, Append(log, x))
  <2>1. Len(Append(log, x)) = Len(log) + 1 /\ Len(log) \in Nat
    BY <1>1
  <2>2. SubSeq(log, 1, Len(log)) = SubSeq(Append(log, x), 1, Len(log))
    BY <1>1, <2>1
  <2> QED
    BY <2>1, <2>2 DEF IsPrefix
<1>2. IsPrefix(log, log)
  BY DEF IsPrefix
<1> QED
  BY <1>1, <1>2

\* Receipts and logs are never rewritten, restarts included.
THEOREM EvidenceKept == Spec => EvidenceIsDurable
<1>1. ASSUME IInv, [Next]_vars
      PROVE  /\ IsPrefix(receipts, receipts') /\ IsPrefix(audit, audit')
             /\ IsPrefix(outbox, outbox') /\ IsPrefix(lineage, lineage')
  <2>1. /\ receipts \in Seq(Receipt) /\ audit \in Seq(Hashes)
        /\ outbox \in Seq(Hashes) /\ lineage \in Seq(Hashes)
    BY <1>1 DEF IInv, TypeOK
  <2>2. CASE UNCHANGED evidence
    BY <2>1, <2>2, AppendExtends DEF evidence
  <2>3. ASSUME NEW body \in Receipt, Record(body)
        PROVE  /\ IsPrefix(receipts, receipts') /\ IsPrefix(audit, audit')
               /\ IsPrefix(outbox, outbox') /\ IsPrefix(lineage, lineage')
    <3>1. Hash(body) \in Hashes
      BY <1>1, <2>3, RecordAdds
    <3>2. receipts' \in {receipts, Append(receipts, body)}
      BY <2>3 DEF Record, Recorded
    <3>3. /\ audit' = Append(audit, Hash(body)) /\ outbox' = Append(outbox, Hash(body))
          /\ lineage' \in {lineage, Append(lineage, Hash(body))}
      BY <2>3 DEF Record, Staged
    <3> QED
      BY <2>1, <3>1, <3>2, <3>3, AppendExtends
  <2> QED
    BY <1>1, <2>2, <2>3, EvidenceGrows
<1>2. IInv /\ [Next]_vars
      => [/\ IsPrefix(receipts, receipts') /\ IsPrefix(audit, audit')
          /\ IsPrefix(outbox, outbox') /\ IsPrefix(lineage, lineage')]_vars
  BY <1>1
<1> QED
  BY <1>2, InvariantHolds, PTL DEF Spec, EvidenceIsDurable

\* A dropped table stays as it is until it is created again (tombstone, commit).
THEOREM DroppedStays == Spec => DropIsFinal
<1>1. ASSUME IInv, [Next]_vars, NEW t \in Tables, tables[t] # NoTable, ~Live(t),
             tables'[t] # tables[t]
      PROVE  created'[t] > created[t]
  <2>1. tables \in [Tables -> Table \cup {NoTable}] /\ created \in [Tables -> 0..MaxCreates]
    BY <1>1 DEF IInv, TypeOK
  <2>2. ASSUME NEW s \in Tables, Create(s) PROVE created'[t] > created[t]
    BY <1>1, <2>1, <2>2 DEF Create
  <2>3. ASSUME NEW s \in Tables, NEW e, Live(s), tables' = [tables EXCEPT ![s] = e]
        PROVE  FALSE
    BY <1>1, <2>1, <2>3
  <2>4. ASSUME NEW s \in Tables, NEW expected \in Seen, NEW u \in Updates,
               NEW by \in Callers, NEW policy \in Policies, NEW k \in Keys \cup {NoKey},
               Commit(s, expected, u, by, policy, k)
        PROVE  FALSE
    <3>1. CASE UNCHANGED tables
      BY <1>1, <3>1
    <3>2. CASE Live(s) /\ Accept(s, expected, u, by, policy, k)
      BY <2>3, <3>2 DEF Accept
    <3> QED
      BY <2>4, <3>1, <3>2 DEF Commit, Refuse
  <2>5. ASSUME NEW s \in Tables, NEW by \in Callers, NEW policy \in Policies,
               Tombstone(s, by, policy)
        PROVE  FALSE
    <3>1. CASE Refuse("tombstone", <<s>>, "no-such-table")
      BY <1>1, <3>1 DEF Refuse
    <3> QED
      BY <2>3, <2>5, <3>1 DEF Tombstone
  <2>6. ASSUME NEW s \in Tables, NEW policy \in Policies, Scan(s, policy)
        PROVE  FALSE
    BY <1>1, <2>6 DEF Scan, Refuse
  <2>7. CASE Restart \/ UNCHANGED vars
    BY <1>1, <2>7 DEF Restart, Restarted, vars
  <2> QED
    BY <1>1, <2>2, <2>4, <2>5, <2>6, <2>7 DEF Next
<1>2. IInv /\ [Next]_vars
      => [\A t \in Tables :
            (tables[t] # NoTable /\ ~Live(t) /\ tables'[t] # tables[t])
               => created'[t] > created[t]]_vars
  BY <1>1
<1> QED
  BY <1>2, InvariantHolds, PTL DEF Spec, DropIsFinal

----------------------------------------------------------------------------
(* Idempotency.                                                            *)

\* What a key is remembered by is a receipt the catalog still has.
KeysGrounded == \A k \in DOMAIN idempotency : idempotency[k] \in DOMAIN receipts

KeyInv == IInv /\ KeyedOnce /\ KeysGrounded

KeyAt(i) == receipts[audit[i]].key

\* A transition recorded under a key that never committed, or under none, keeps
\* the keys and the log in step.
LEMMA RecordKeepsKeys ==
    ASSUME KeyInv, NEW body \in Receipt, Record(body), NEW k \in Keys \cup {NoKey},
           body.key = k, k \notin DOMAIN idempotency,
           idempotency' = Remembered(k, Hash(body))
    PROVE  KeyedOnce' /\ KeysGrounded'
<1> DEFINE n == Len(audit) + 1
<1>1. /\ DOMAIN receipts' = DOMAIN receipts \cup {Hash(body)}
      /\ receipts'[Hash(body)] = body
      /\ \A h \in DOMAIN receipts : receipts'[h] = receipts[h]
      /\ Hash(body) \in Hashes
  BY RecordAdds DEF KeyInv
<1>2. /\ audit \in Seq(Hashes) /\ Len(audit) \in Nat /\ DOMAIN audit = 1..Len(audit)
      /\ audit' = Append(audit, Hash(body))
  BY DEF KeyInv, IInv, TypeOK, Record
<1>3. /\ DOMAIN audit' = DOMAIN audit \cup {n} /\ n \notin DOMAIN audit
      /\ audit'[n] = Hash(body)
      /\ \A i \in DOMAIN audit : audit'[i] = audit[i]
  BY <1>1, <1>2
<1> HIDE DEF n
<1>4. \A i \in DOMAIN audit : audit[i] \in DOMAIN receipts
  BY DEF KeyInv, IInv, Bounded
<1>5. /\ \A i \in DOMAIN audit : receipts'[audit'[i]].key = KeyAt(i)
      /\ receipts'[audit'[n]].key = k
  BY <1>1, <1>3, <1>4 DEF KeyAt
<1>6. /\ \A i, j \in DOMAIN audit : (KeyAt(i) = KeyAt(j) /\ KeyAt(i) # NoKey) => i = j
      /\ DOMAIN idempotency = {KeyAt(i) : i \in DOMAIN audit} \ {NoKey}
      /\ \A j \in DOMAIN idempotency : receipts[idempotency[j]].key = j
  BY DEF KeyInv, KeyedOnce, KeyAt
<1>7. k # NoKey => \A i \in DOMAIN audit : KeyAt(i) # k
  BY <1>6
<1>8. \A i, j \in DOMAIN audit' :
          (receipts'[audit'[i]].key = receipts'[audit'[j]].key
             /\ receipts'[audit'[i]].key # NoKey) => i = j
  <2> SUFFICES ASSUME NEW i \in DOMAIN audit', NEW j \in DOMAIN audit',
                      receipts'[audit'[i]].key = receipts'[audit'[j]].key,
                      receipts'[audit'[i]].key # NoKey
               PROVE  i = j
    OBVIOUS
  <2>1. CASE i \in DOMAIN audit /\ j \in DOMAIN audit
    BY <1>5, <1>6, <2>1
  <2>2. CASE i = n /\ j \in DOMAIN audit
    BY <1>5, <1>7, <2>2
  <2>3. CASE i \in DOMAIN audit /\ j = n
    BY <1>5, <1>7, <2>3
  <2> QED
    BY <1>3, <2>1, <2>2, <2>3
<1>9. {receipts'[audit'[i]].key : i \in DOMAIN audit'} = {KeyAt(i) : i \in DOMAIN audit} \cup {k}
  BY <1>3, <1>5
<1>10. /\ DOMAIN idempotency' = (DOMAIN idempotency \cup {k}) \ {NoKey}
       /\ \A j \in DOMAIN idempotency' :
             idempotency'[j] = IF j = k THEN Hash(body) ELSE idempotency[j]
  BY <1>6 DEF Remembered
<1>11. DOMAIN idempotency' = {receipts'[audit'[i]].key : i \in DOMAIN audit'} \ {NoKey}
  BY <1>6, <1>9, <1>10
<1>12. \A j \in DOMAIN idempotency' :
          idempotency'[j] \in DOMAIN receipts' /\ receipts'[idempotency'[j]].key = j
  BY <1>1, <1>6, <1>10 DEF KeyInv, KeysGrounded
<1> QED
  BY <1>8, <1>11, <1>12 DEF KeyedOnce, KeysGrounded

LEMMA KeyStep ==
    ASSUME KeyInv, [Next]_vars
    PROVE  KeyInv'
<1>1. ASSUME UNCHANGED <<evidence, idempotency>>
      PROVE  KeyedOnce' /\ KeysGrounded'
  BY <1>1 DEF evidence, KeyInv, KeyedOnce, KeysGrounded
<1>2. ASSUME NEW t \in Tables, NEW expected \in Seen, NEW u \in Updates,
             NEW by \in Callers, NEW policy \in Policies, NEW k \in Keys \cup {NoKey},
             Commit(t, expected, u, by, policy, k)
      PROVE  KeyedOnce' /\ KeysGrounded'
  <2> DEFINE body == CommitBody(t, expected, u, by, policy, k)
  <2>1. CASE UNCHANGED <<evidence, idempotency>>
    BY <1>1, <2>1
  <2>2. CASE /\ ~Retried(k, by) /\ Live(t) /\ Current(t, expected)
             /\ Accept(t, expected, u, by, policy, k)
    <3>1. Continues(t, body, Advanced(tables[t], body))
      BY <2>2, AcceptContinues DEF KeyInv
    <3>2. body \in Receipt /\ Record(body) /\ body.key = k
      BY <3>1 DEF Continues, CommitBody
    <3>3. idempotency' = Remembered(k, Hash(body)) /\ k \notin DOMAIN idempotency
      BY <2>2 DEF Accept, Retried
    <3> HIDE DEF body
    <3> QED
      BY <3>2, <3>3, RecordKeepsKeys
  <2> QED
    BY <1>2, <2>1, <2>2 DEF Commit, Refuse
<1>3. ASSUME NEW t \in Tables, NEW by \in Callers, NEW policy \in Policies,
             Tombstone(t, by, policy)
      PROVE  KeyedOnce' /\ KeysGrounded'
  <2> DEFINE body == TombstoneBody(t, by, policy)
  <2>1. CASE Refuse("tombstone", <<t>>, "no-such-table")
    BY <1>1, <2>1 DEF Refuse
  <2>2. CASE /\ Live(t) /\ Record(body)
             /\ tables' = [tables EXCEPT ![t] =
                              [@ EXCEPT !.tombstoned = TRUE, !.head = Hash(body)]]
             /\ UNCHANGED <<idempotency, created>>
    <3>1. body \in Receipt /\ body.key = NoKey
      BY <2>2, TombstoneContinues DEF Continues, KeyInv, TombstoneBody
    <3>2. NoKey \notin DOMAIN idempotency
      BY DEF KeyInv, IInv, TypeOK
    <3>3. idempotency' = Remembered(NoKey, Hash(body))
      BY <2>2 DEF Remembered
    <3> HIDE DEF body
    <3> QED
      BY <2>2, <3>1, <3>2, <3>3, RecordKeepsKeys
  <2> QED
    BY <1>3, <2>1, <2>2 DEF Tombstone
<1>4. ASSUME NEW t \in Tables, Create(t) \/ \E policy \in Policies : Scan(t, policy)
      PROVE  KeyedOnce' /\ KeysGrounded'
  BY <1>1, <1>4 DEF Create, Scan, Refuse
<1>5. CASE Restart \/ UNCHANGED vars
  <2>1. UNCHANGED <<evidence, idempotency>>
    BY <1>5 DEF Restart, Restarted, evidence, vars
  <2> QED
    BY <1>1, <2>1, StepInvariant DEF KeyInv
<1> QED
  BY <1>2, <1>3, <1>4, <1>5, StepInvariant DEF KeyInv, Next

\* An idempotency key commits at most once, and is remembered exactly when it
\* did, across drops and restarts (commit, restart).
THEOREM KeysCommitOnce == Spec => []KeyedOnce
<1>1. Init => KeyInv
  <2> SUFFICES ASSUME Init PROVE KeyInv
    OBVIOUS
  <2>1. DOMAIN audit = {} /\ DOMAIN idempotency = {}
    BY DEF Init
  <2> QED
    BY <2>1, InitInvariant DEF KeyInv, KeyedOnce, KeysGrounded
<1>2. KeyInv /\ [Next]_vars => KeyInv'
  BY KeyStep
<1>3. KeyInv => KeyedOnce
  BY DEF KeyInv
<1> QED
  BY <1>1, <1>2, <1>3, PTL DEF Spec

----------------------------------------------------------------------------
(* The receipts of a table as its history. *)

\* A nonempty set of numbers has a smallest one.
LEMMA FirstOf ==
    ASSUME NEW T \in SUBSET Nat, T # {}
    PROVE  \E n \in T : \A m \in T : ~ (m < n)
<1> DEFINE R == OpToRel(<, Nat)
<1>1. PICK n \in T : \A m \in T : ~ (<<m, n>> \in R)
  <2> HIDE DEF R
  <2>1. IsWellFoundedOn(R, Nat)
    BY NatLessThanWellFounded DEF R
  <2> QED
    BY <2>1, WFMin
<1>2. \A m \in T : m < n => <<m, n>> \in R
  BY DEF OpToRel
<1> QED
  BY <1>1, <1>2

\* A chain function of receipts of which each names an earlier one.
Traces(c, s) ==
    c = [h \in 0..Len(s) |-> IF h = NoReceipt THEN <<>> ELSE Append(c[s[h].prev], h)]

Backward(s) == \A h \in 1..Len(s) : s[h].prev \in Nat /\ s[h].prev < h

\* There is one: the chain of a receipt extends that of its predecessor.
LEMMA TraceExists ==
    ASSUME NEW s, Len(s) \in Nat, Backward(s)
    PROVE  \E c : Traces(c, s)
<1> DEFINE To(c, n) ==
               c = [h \in 0..n |-> IF h = NoReceipt THEN <<>> ELSE Append(c[s[h].prev], h)]
           Missing == {n \in 0..Len(s) : ~ \E c : To(c, n)}
<1> SUFFICES ASSUME Missing # {} PROVE FALSE
  BY DEF Traces
<1>1. PICK n \in Missing : \A m \in Missing : ~ (m < n)
  <2> HIDE DEF To
  <2>1. Missing \in SUBSET Nat
    OBVIOUS
  <2> HIDE DEF Missing
  <2> QED
    BY <2>1, FirstOf
<1>2. n \in 0..Len(s) /\ n \in Nat
  OBVIOUS
<1>3. CASE n = 0
  <2> DEFINE c == [h \in 0..0 |-> <<>>]
  <2>1. To(c, n)
    BY <1>3 DEF NoReceipt
  <2> QED
    BY <2>1
<1>4. CASE n # 0
  <2>1. n - 1 \in 0..Len(s) /\ n - 1 < n
    BY <1>2, <1>4
  <2>2. PICK c : To(c, n - 1)
    <3> HIDE DEF To
    <3> QED
      BY <1>1, <2>1
  <2>3. s[n].prev \in 0..(n - 1)
    BY <1>2, <1>4 DEF Backward
  <2> DEFINE d == [h \in 0..n |-> IF h = n THEN Append(c[s[n].prev], n) ELSE c[h]]
  <2>4. \A h \in 0..(n - 1) : d[h] = c[h]
    BY <1>2
  <2>5. \A h \in 0..n : d[h] = IF h = NoReceipt THEN <<>> ELSE Append(d[s[h].prev], h)
    <3>1. ASSUME NEW h \in 0..(n - 1)
          PROVE  d[h] = IF h = NoReceipt THEN <<>> ELSE Append(d[s[h].prev], h)
      <4>1. d[h] = IF h = NoReceipt THEN <<>> ELSE Append(c[s[h].prev], h)
        <5>1. c[h] = IF h = NoReceipt THEN <<>> ELSE Append(c[s[h].prev], h)
          BY <2>2
        <5>2. d[h] = c[h]
          BY <2>4
        <5> HIDE DEF d
        <5> QED
          BY <5>1, <5>2
      <4>2. h # NoReceipt => s[h].prev \in 0..(n - 1)
        BY <1>2, <3>1 DEF Backward, NoReceipt
      <4>3. h # NoReceipt => d[s[h].prev] = c[s[h].prev]
        BY <2>4, <4>2
      <4> HIDE DEF d
      <4> QED
        BY <4>1, <4>3
    <3>2. d[n] = Append(d[s[n].prev], n)
      <4>1. d[n] = Append(c[s[n].prev], n)
        BY <1>2
      <4>2. d[s[n].prev] = c[s[n].prev]
        BY <2>3, <2>4
      <4> HIDE DEF d
      <4> QED
        BY <4>1, <4>2
    <3>3. \A h \in 0..n : h = n \/ h \in 0..(n - 1)
      BY <1>2
    <3> HIDE DEF d
    <3> QED
      BY <1>4, <3>1, <3>2, <3>3 DEF NoReceipt
  <2>6. d = [h \in 0..n |-> d[h]]
    OBVIOUS
  <2>7. To(d, n)
    <3> HIDE DEF d
    <3> QED
      BY <2>5, <2>6
  <2> QED
    BY <2>7
<1> QED
  BY <1>3, <1>4

\* Longer evidence gives a receipt of the shorter the same chain.
LEMMA TracesAgree ==
    ASSUME NEW s, NEW r, Len(s) \in Nat, Len(r) \in Nat, Len(s) <= Len(r), Backward(s),
           \A h \in 1..Len(s) : r[h] = s[h],
           NEW c, Traces(c, s), NEW d, Traces(d, r)
    PROVE  \A h \in 0..Len(s) : d[h] = c[h]
<1> DEFINE Apart == {h \in 0..Len(s) : d[h] # c[h]}
<1> SUFFICES ASSUME Apart # {} PROVE FALSE
  OBVIOUS
<1>1. PICK h \in Apart : \A j \in Apart : ~ (j < h)
  <2>1. Apart \in SUBSET Nat
    OBVIOUS
  <2> HIDE DEF Apart
  <2> QED
    BY <2>1, FirstOf
<1>2. h \in 0..Len(s) /\ h \in 0..Len(r) /\ h \in Nat /\ d[h] # c[h]
  OBVIOUS
<1>3. c[h] = IF h = NoReceipt THEN <<>> ELSE Append(c[s[h].prev], h)
  BY <1>2 DEF Traces
<1>4. d[h] = IF h = NoReceipt THEN <<>> ELSE Append(d[r[h].prev], h)
  BY <1>2 DEF Traces
<1>5. h # NoReceipt
  BY <1>2, <1>3, <1>4
<1>6. r[h] = s[h] /\ s[h].prev \in 0..Len(s) /\ s[h].prev < h
  BY <1>2, <1>5 DEF Backward, NoReceipt
<1>7. d[s[h].prev] = c[s[h].prev]
  BY <1>1, <1>6
<1> QED
  BY <1>2, <1>3, <1>4, <1>5, <1>6, <1>7

\* Receipts chain, so the chains of the catalog are defined by their equation.
LEMMA ChainedBackward == ASSUME IInv PROVE Len(receipts) \in Nat /\ Backward(receipts)
<1>1. Len(receipts) \in Nat
  BY DEF IInv, TypeOK
<1>2. ASSUME NEW h \in 1..Len(receipts) PROVE receipts[h].prev \in Nat /\ receipts[h].prev < h
  <2>1. h \in DOMAIN receipts
    BY DEF IInv, TypeOK
  <2> QED
    BY <2>1, ReceiptTyped DEF IInv, ChainLinked
<1> QED
  BY <1>1, <1>2 DEF Backward

LEMMA ChainTraces == ASSUME IInv PROVE Traces(Chain, receipts)
<1>1. PICK c : Traces(c, receipts)
  BY ChainedBackward, TraceExists
<1> QED
  BY <1>1 DEF Chain, Traces

\* The history that the catalog has of its tables, and the tables that are open.
Told == [t \in Tables |-> Chain[HeadOf(t)]]
Opened == {t \in Tables : Live(t)}

LEMMA HeadPlace == ASSUME IInv PROVE \A t \in Tables : HeadOf(t) \in 0..Len(receipts)
<1> SUFFICES ASSUME NEW t \in Tables PROVE HeadOf(t) \in 0..Len(receipts)
  OBVIOUS
<1>1. Len(receipts) \in Nat /\ DOMAIN receipts = 1..Len(receipts)
  BY DEF IInv, TypeOK
<1>2. CASE tables[t] = NoTable \/ tables[t].head = NoReceipt
  BY <1>1, <1>2 DEF HeadOf, NoReceipt
<1>3. CASE tables[t] # NoTable /\ tables[t].head # NoReceipt
  <2>1. tables[t].head \in DOMAIN receipts
    BY <1>3 DEF IInv, HeadProvesTable
  <2> QED
    BY <1>1, <1>3, <2>1 DEF HeadOf
<1> QED
  BY <1>2, <1>3

LEMMA ChainTracesNext == IInv' => Traces(Chain, receipts)'
<1>1. IInv => Traces(Chain, receipts)
  BY ChainTraces
<1> QED
  BY <1>1, PTL

\* What is recorded leaves the chains of what was recorded before.
LEMMA ChainsKept ==
    ASSUME IInv, IInv', Len(receipts') \in Nat, Len(receipts) <= Len(receipts'),
           \A h \in 1..Len(receipts) : receipts'[h] = receipts[h]
    PROVE  \A h \in 0..Len(receipts) : Chain'[h] = Chain[h]
<1>1. Traces(Chain, receipts) /\ Backward(receipts) /\ Len(receipts) \in Nat
  BY ChainTraces, ChainedBackward
<1>2. Traces(Chain', receipts')
  BY ChainTracesNext DEF Traces
<1>3. PICK c, d, s, r : c = Chain /\ d = Chain' /\ s = receipts /\ r = receipts'
  OBVIOUS
<1>4. \A h \in 0..Len(s) : d[h] = c[h]
  BY <1>1, <1>2, <1>3, TracesAgree
<1> QED
  BY <1>3, <1>4

\* A transition of a table puts its receipt at the end of the table's history.
LEMMA ContinuesTells ==
    ASSUME IInv, IInv', NEW t \in Tables, NEW body, NEW entry, Continues(t, body, entry)
    PROVE  /\ t \in Opened
           /\ Hash(body) \in Hashes
           /\ Told' = [Told EXCEPT ![t] = Append(@, Hash(body))]
           /\ Opened' \in {Opened, Opened \ {t}}
<1>1. PICK h : h = Hash(body)
  OBVIOUS
<1>2. /\ body \in Receipt /\ Record(body) /\ Live(t)
      /\ body.prev = tables[t].head /\ entry.head = h
      /\ entry \in Table /\ entry.tombstoned = (body.op = "tombstone")
      /\ tables' = [tables EXCEPT ![t] = entry]
  BY <1>1 DEF Continues
<1>3. /\ h \in Hashes
      /\ DOMAIN receipts' = DOMAIN receipts \cup {h}
      /\ receipts'[h] = body
      /\ \A j \in DOMAIN receipts : receipts'[j] = receipts[j]
      /\ Len(receipts') \in {Len(receipts), Len(receipts) + 1}
  BY <1>1, <1>2, RecordAdds
<1>4. /\ receipts \in Seq(Receipt) /\ receipts' \in Seq(Receipt)
      /\ tables \in [Tables -> Table \cup {NoTable}]
  BY DEF IInv, TypeOK
<1>5. /\ Len(receipts) \in Nat /\ Len(receipts') \in Nat /\ Len(receipts) <= Len(receipts')
      /\ DOMAIN receipts = 1..Len(receipts) /\ DOMAIN receipts' = 1..Len(receipts')
  <2>1. /\ Len(receipts) \in Nat /\ Len(receipts') \in Nat
        /\ DOMAIN receipts = 1..Len(receipts) /\ DOMAIN receipts' = 1..Len(receipts')
    BY ONLY <1>4
  <2> QED
    BY ONLY <1>3, <2>1
<1>6. \A j \in 0..Len(receipts) : Chain'[j] = Chain[j]
  BY ONLY <1>3, <1>5, IInv, IInv', ChainsKept
<1>7. Chain'[h] = Append(Chain[tables[t].head], h)
  <2>1. Traces(Chain', receipts')
    BY ChainTracesNext DEF Traces
  <2>2. h \in 1..Len(receipts')
    BY <1>3, <1>5
  <2>3. Chain'[h] = Append(Chain'[receipts'[h].prev], h)
    <3>1. h \in 0..Len(receipts') /\ h # NoReceipt
      BY <1>5, <2>2 DEF NoReceipt
    <3> QED
      BY <2>1, <3>1 DEF Traces
  <2>4. tables[t].head \in 0..Len(receipts)
    BY <1>2, HeadPlace DEF HeadOf, Live
  <2> QED
    BY <1>2, <1>3, <1>6, <2>3, <2>4
<1>8. tables'[t] = entry /\ \A s \in Tables : s # t => tables'[s] = tables[s]
  BY <1>2, <1>4
<1>9. entry # NoTable
  BY <1>2
<1>10. ASSUME NEW s \in Tables
       PROVE  Chain'[HeadOf(s)'] = IF s = t THEN Append(Chain[HeadOf(t)], h) ELSE Chain[HeadOf(s)]
  <2>1. CASE s = t
    <3>1. HeadOf(s)' = h /\ HeadOf(t) = tables[t].head
      BY <1>2, <1>8, <1>9, <2>1 DEF HeadOf, Live
    <3> QED
      BY <1>7, <2>1, <3>1
  <2>2. CASE s # t
    <3>1. HeadOf(s)' = HeadOf(s) /\ HeadOf(s) \in 0..Len(receipts)
      BY <1>8, <2>2, HeadPlace DEF HeadOf
    <3> QED
      BY <1>6, <2>2, <3>1
  <2> QED
    BY <2>1, <2>2
<1>11. Told' = [Told EXCEPT ![t] = Append(@, h)]
  BY <1>10 DEF Told
<1>12. Opened' \in {Opened, Opened \ {t}}
  <2>1. \A s \in Tables : s # t => (Live(s)' <=> Live(s))
    BY <1>8 DEF Live
  <2> QED
    BY <2>1, <1>2 DEF Opened
<1> QED
  BY <1>1, <1>2, <1>3, <1>11, <1>12 DEF Opened

\* Creating a table starts its history again.
LEMMA CreateTells ==
    ASSUME IInv, IInv', NEW t \in Tables, Create(t)
    PROVE  /\ Told' = [Told EXCEPT ![t] = <<>>]
           /\ Opened' = Opened \cup {t}
<1> DEFINE entry == [metadata |-> FirstPointer(t), snapshot |-> 0,
                     head |-> NoReceipt, tombstoned |-> FALSE]
<1>1. tables' = [tables EXCEPT ![t] = entry] /\ receipts' = receipts
  BY DEF Create, evidence
<1>2. entry \in Table
  BY DEF Table, Pointers
<1>3. entry # NoTable /\ entry.head = NoReceipt /\ ~entry.tombstoned
  BY <1>2
<1> HIDE DEF entry
<1>4. tables \in [Tables -> Table \cup {NoTable}] /\ Len(receipts) \in Nat
  BY DEF IInv, TypeOK
<1>5. tables'[t] = entry /\ \A s \in Tables : s # t => tables'[s] = tables[s]
  BY <1>1, <1>4
<1>6. Chain' = Chain
  BY <1>1 DEF Chain
<1>7. Chain[NoReceipt] = <<>>
  <2>1. NoReceipt \in 0..Len(receipts)
    BY <1>4 DEF NoReceipt
  <2> QED
    BY <2>1, ChainTraces DEF Traces
<1>8. ASSUME NEW s \in Tables
      PROVE  /\ Chain'[HeadOf(s)'] = IF s = t THEN <<>> ELSE Chain[HeadOf(s)]
             /\ Live(s)' <=> (s = t \/ Live(s))
  BY <1>3, <1>5, <1>6, <1>7 DEF HeadOf, Live
<1> QED
  BY <1>8 DEF Told, Opened

LEMMA QuietTells == ASSUME UNCHANGED <<tables, receipts>> PROVE UNCHANGED <<Told, Opened>>
<1>1. Chain' = Chain
  BY DEF Chain
<1>2. \A t \in Tables : HeadOf(t)' = HeadOf(t) /\ (Live(t)' <=> Live(t))
  BY DEF HeadOf, Live
<1> QED
  BY <1>1, <1>2 DEF Told, Opened

\* Every step of the catalog is one of the history, or leaves it.
LEMMA StepTells ==
    ASSUME IInv, IInv', [Next]_vars
    PROVE  \/ \E t \in Tables :
                 \/ Told' = [Told EXCEPT ![t] = <<>>] /\ Opened' = Opened \cup {t}
                 \/ /\ t \in Opened /\ Opened' \in {Opened, Opened \ {t}}
                    /\ \E e \in Hashes : Told' = [Told EXCEPT ![t] = Append(@, e)]
           \/ UNCHANGED <<Told, Opened>>
<1> DEFINE Quiet == UNCHANGED <<tables, receipts>>
           Moves == \E t \in Tables : \E body, entry : Continues(t, body, entry)
           Creates == \E t \in Tables : Create(t)
<1>1. ASSUME NEW t \in Tables, NEW expected \in Seen, NEW u \in Updates,
             NEW by \in Callers, NEW policy \in Policies, NEW k \in Keys \cup {NoKey},
             Commit(t, expected, u, by, policy, k)
      PROVE  Quiet \/ Moves
  <2>1. CASE Live(t) /\ Current(t, expected) /\ Accept(t, expected, u, by, policy, k)
    BY <2>1, AcceptContinues
  <2> QED
    BY <1>1, <2>1 DEF Commit, Refuse, evidence
<1>2. ASSUME NEW t \in Tables, NEW by \in Callers, NEW policy \in Policies,
             Tombstone(t, by, policy)
      PROVE  Quiet \/ Moves
  <2>1. CASE Refuse("tombstone", <<t>>, "no-such-table")
    BY <2>1 DEF Refuse, evidence
  <2> QED
    BY <1>2, <2>1, TombstoneContinues DEF Tombstone
<1>3. ASSUME NEW t \in Tables, NEW policy \in Policies, Scan(t, policy)
      PROVE  Quiet
  BY <1>3 DEF Scan, Refuse, evidence
<1>4. Restart => Quiet
  BY DEF Restart, Restarted
<1>5. UNCHANGED vars => Quiet
  BY DEF evidence, vars
<1>6. Quiet \/ Creates \/ Moves
  <2> HIDE DEF Quiet, Moves
  <2> QED
    BY <1>1, <1>2, <1>3, <1>4, <1>5 DEF Next
<1> QED
  BY <1>6, QuietTells, CreateTells, ContinuesTells

\* The chains of receipts are append-only histories of their tables: each step of the
\* catalog starts the history of a table that is created, extends that of an open one
\* by the receipt of a commit or of the tombstone that closes it, or leaves all of them.
THEOREM CatalogKeepsHistory == Spec => HistorySpec
<1>1. Init => History!Init
  <2>1. ASSUME Init PROVE \A t \in Tables : Chain[HeadOf(t)] = <<>> /\ ~ Live(t)
    <3>1. Len(receipts) = 0 /\ NoReceipt \in 0..Len(receipts)
      BY <2>1 DEF Init, NoReceipt
    <3>2. Chain[NoReceipt] = <<>>
      BY <2>1, <3>1, InitInvariant, ChainTraces DEF Traces
    <3> QED
      BY <2>1, <3>2 DEF Init, HeadOf, Live
  <2> QED
    BY <2>1 DEF History!Init
<1>2. IInv /\ IInv' /\ [Next]_vars
      => [History!Next]_<<[t \in Tables |-> Chain[HeadOf(t)]], {t \in Tables : Live(t)}>>
  <2> SUFFICES ASSUME IInv, IInv', [Next]_vars
               PROVE  History!Next \/ UNCHANGED <<Told, Opened>>
    BY DEF Told, Opened
  <2>1. ASSUME NEW t \in Tables,
               Told' = [Told EXCEPT ![t] = <<>>], Opened' = Opened \cup {t}
        PROVE  History!Create(t)
    BY <2>1 DEF History!Create, Told, Opened
  <2>2. ASSUME NEW t \in Tables, t \in Opened, Opened' \in {Opened, Opened \ {t}},
               NEW e \in Hashes, Told' = [Told EXCEPT ![t] = Append(@, e)]
        PROVE  History!Extend(t)
    BY <2>2 DEF History!Extend, Told, Opened
  <2> QED
    BY <2>1, <2>2, StepTells DEF History!Next
<1> QED
  BY <1>1, <1>2, InvariantHolds, PTL DEF Spec, HistorySpec, History!Spec
============================================================================
