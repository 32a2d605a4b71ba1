---------------------------- MODULE VaultProofs ----------------------------
(***************************************************************************)
(* What Vault guarantees for every choice of its constants: its tables     *)
(* keep their types, a nonce is let through once, a key commits once, what *)
(* was superseded or forgotten stays out of the answers until it is        *)
(* written again, the decisions kept name stored memories, a refusal       *)
(* changes nothing, and a memory stops being current for a reason.  The    *)
(* vault with a registry, AuthVault, implements it and keeps the same      *)
(* promises; what it shows and changes is bounded by the present record of *)
(* the caller.                                                             *)
(***************************************************************************)
EXTENDS AuthVault, FiniteSetTheorems, TLAPS

USE VaultAssumption

\* The history variables say what the tables say: this is what makes
\* ServedOnce inductive.
ServedIsSpent ==
    \A c \in Dids \X Nonces : served[c] = IF c \in nonces THEN 1 ELSE 0

IInv ==
    /\ TypeOK
    /\ ServedIsSpent
    /\ CommittedOnce
    /\ RetiredNeverRecalled

----------------------------------------------------------------------------
(* Lemmas about the operators the actions share.                           *)

LEMMA RefusalTyped ==
    ASSUME NEW err \in Errors
    PROVE  Denied(err) \in Decision
BY DEF Denied, Decision, Receipts

LEMMA AnswerTyped ==
    ASSUME NEW ids \in Seq(MemoryIds), NEW receipt \in Receipts
    PROVE  Allowed(ids, receipt) \in Decision
BY DEF Allowed, Decision, Errors

LEMMA ReceiptsTyped ==
    /\ \A i \in MemoryIds, dig \in Digests : <<"remember", i, dig>> \in Receipts
    /\ \A i, j \in MemoryIds : <<"improve", i, j>> \in Receipts
    /\ \A i \in MemoryIds : <<"forget", i>> \in Receipts
    /\ \A scored \in Seq(Nat \X MemoryIds) : <<"recall", scored>> \in Receipts
<1>1. \A i \in MemoryIds, dig \in Digests :
         <<"remember", i, dig>> \in {"remember"} \X MemoryIds \X Digests
  OBVIOUS
<1>2. \A i, j \in MemoryIds :
         <<"improve", i, j>> \in {"improve"} \X MemoryIds \X MemoryIds
  OBVIOUS
<1>3. \A i \in MemoryIds : <<"forget", i>> \in {"forget"} \X MemoryIds
  OBVIOUS
<1>4. \A scored \in Seq(Nat \X MemoryIds) :
         <<"recall", scored>> \in {"recall"} \X Seq(Nat \X MemoryIds)
  OBVIOUS
<1> QED
  BY <1>1, <1>2, <1>3, <1>4 DEF Receipts

LEMMA ErrorsTyped ==
    ASSUME NEW m, NEW a, NEW n, NEW i, NEW q, NEW dig
    PROVE  /\ RememberError(m, a, n) \in Errors
           /\ RecallError(q, a, n) \in Errors
           /\ ImproveError(i, m, a, n, dig) \in Errors
           /\ ForgetError(i, a, n) \in Errors
BY DEF RememberError, RecallError, ImproveError, ForgetError, Errors

\* A claim spends exactly the caller's nonce and lets it through unless it was
\* spent before.
LEMMA ClaimCounts ==
    ASSUME TypeOK, ServedIsSpent, NEW a \in Actors, NEW n \in Nonces,
           Claim(a, n)
    PROVE  /\ nonces' \in SUBSET (Dids \X Nonces)
           /\ served' \in [Dids \X Nonces -> Nat]
           /\ ServedIsSpent'
<1>1. <<a.did, n>> \in Dids \X Nonces
  BY DEF Actor
<1>2. nonces' = nonces \cup {<<a.did, n>>}
  BY DEF Claim
<1>3. CASE Replayed(a, n)
  BY <1>1, <1>2, <1>3 DEF Claim, Replayed, TypeOK, ServedIsSpent
<1>4. CASE ~Replayed(a, n)
  BY <1>1, <1>2, <1>4 DEF Claim, Replayed, TypeOK, ServedIsSpent
<1> QED
  BY <1>3, <1>4

\* What recall lists are memories it may list, and the list is typed.
LEMMA HitsTyped ==
    ASSUME TypeOK, NEW q \in Queries, NEW a \in Actors, NEW t \in Times,
           NEW ids \in Sorted(q, Hits(q, a, t))
    PROVE  /\ ids \in Seq(MemoryIds)
           /\ Scored(q, ids) \in Seq(Nat \X MemoryIds)
           /\ \A p \in DOMAIN ids : ids[p] \in Hits(q, a, t)
<1> DEFINE H == Hits(q, a, t)
<1>1. H \subseteq MemoryIds /\ IsFiniteSet(H)
  BY FS_Subset DEF Hits
<1>2. Cardinality(H) \in Nat
  BY <1>1, FS_CardinalityType
<1>3. ids \in [1..Cardinality(H) -> H]
  BY DEF Sorted
<1>4. ids \in Seq(MemoryIds)
  BY <1>1, <1>2, <1>3
<1>5. ASSUME NEW p \in DOMAIN ids PROVE Score(q, ids[p]) \in Nat
  <2>1. Stored(ids[p]) /\ ids[p] \in MemoryIds
    BY <1>3 DEF Hits, Visible
  <2>2. q.words \subseteq Words
    BY DEF Query
  <2>3. IsFiniteSet(q.words \cap memories[ids[p]].words)
    BY <2>2, FS_Subset
  <2> QED
    BY <2>3, FS_CardinalityType DEF Score
<1>6. Scored(q, ids) \in [1..Cardinality(H) -> Nat \X MemoryIds]
  BY <1>1, <1>3, <1>5 DEF Scored
<1> QED
  BY <1>2, <1>3, <1>4, <1>6

----------------------------------------------------------------------------
(* Every operation preserves the invariant.                                *)

\* A refused request touches the nonces and the answer only.
LEMMA RefusePreserves ==
    ASSUME IInv, NEW a \in Actors, NEW n \in Nonces,
           NEW op \in {"remember", "recall", "improve", "forget"},
           NEW err \in Errors, Refuse(op, a, n, err)
    PROVE  IInv'
<1>1. TypeOK'
  BY RefusalTyped, ClaimCounts DEF IInv, Refuse, Respond, TypeOK, Answers
<1>2. ServedIsSpent'
  BY ClaimCounts DEF IInv, Refuse
<1>3. CommittedOnce'
  BY DEF IInv, Refuse, CommittedOnce
<1>4. RetiredNeverRecalled'
  BY DEF IInv, Refuse, Respond, Denied, RetiredNeverRecalled, Stored
<1> QED
  BY <1>1, <1>2, <1>3, <1>4 DEF IInv

LEMMA RememberPreserves ==
    ASSUME IInv, NEW a \in Actors, NEW n \in Nonces, NEW m \in Drafts,
           Remember(m, a, n)
    PROVE  IInv'
<1>1. CASE Refuse("remember", a, n, RememberError(m, a, n))
  BY <1>1, ErrorsTyped, RefusePreserves
<1>2. ASSUME Claim(a, n),
             memories' = [memories EXCEPT ![m.id] = m],
             retired' = retired \ {m.id},
             Respond("remember", a,
                     Allowed(<<m.id>>, <<"remember", m.id, m.digest>>)),
             UNCHANGED <<idempotency, commits>>
      PROVE  IInv'
  <2>1. m \in Memory /\ m.id \in MemoryIds /\ m.digest \in Digests
    BY DEF Memory
  <2>2. Allowed(<<m.id>>, <<"remember", m.id, m.digest>>) \in Decision
    <3>1. <<m.id>> \in Seq(MemoryIds)
      BY <2>1
    <3>2. <<"remember", m.id, m.digest>> \in Receipts
      BY <2>1, ReceiptsTyped
    <3> QED
      BY <3>1, <3>2, AnswerTyped
  <2>3. TypeOK'
    BY <1>2, <2>1, <2>2, ClaimCounts DEF IInv, Respond, TypeOK, Answers
  <2>4. ServedIsSpent'
    BY <1>2, ClaimCounts DEF IInv
  <2>5. CommittedOnce'
    BY <1>2 DEF IInv, CommittedOnce
  <2>6. RetiredNeverRecalled'
    BY <1>2, <2>1 DEF IInv, TypeOK, Respond, RetiredNeverRecalled, Stored
  <2> QED
    BY <2>3, <2>4, <2>5, <2>6 DEF IInv
<1> QED
  BY <1>1, <1>2 DEF Remember

LEMMA RecallPreserves ==
    ASSUME IInv, NEW a \in Actors, NEW n \in Nonces, NEW q \in Queries,
           NEW t \in Times, Recall(q, a, t, n)
    PROVE  IInv'
<1>1. CASE Refuse("recall", a, n, RecallError(q, a, n))
  BY <1>1, ErrorsTyped, RefusePreserves
<1>2. ASSUME Claim(a, n),
             NEW ids \in Sorted(q, Hits(q, a, t)),
             Respond("recall", a,
                     Allowed(ids, <<"recall", Scored(q, ids)>>)),
             UNCHANGED <<memories, idempotency, commits, retired>>
      PROVE  IInv'
  <2>1. /\ ids \in Seq(MemoryIds)
        /\ Scored(q, ids) \in Seq(Nat \X MemoryIds)
        /\ \A p \in DOMAIN ids : ids[p] \in Hits(q, a, t)
    BY HitsTyped DEF IInv
  <2>2. Allowed(ids, <<"recall", Scored(q, ids)>>) \in Decision
    <3>1. <<"recall", Scored(q, ids)>> \in Receipts
      BY <2>1, ReceiptsTyped
    <3> QED
      BY <2>1, <3>1, AnswerTyped
  <2>3. TypeOK'
    BY <1>2, <2>2, ClaimCounts DEF IInv, Respond, TypeOK, Answers
  <2>4. ServedIsSpent'
    BY <1>2, ClaimCounts DEF IInv
  <2>5. CommittedOnce'
    BY <1>2 DEF IInv, CommittedOnce
  <2>6. RetiredNeverRecalled'
    <3>1. \A p \in DOMAIN ids : ids[p] \notin retired
      BY <2>1 DEF IInv, RetiredNeverRecalled, Hits, Visible
    <3>2. answer'.decision.ids = ids
      BY <1>2 DEF Respond, Allowed
    <3> QED
      BY <1>2, <3>1, <3>2 DEF IInv, RetiredNeverRecalled, Stored
  <2> QED
    BY <2>3, <2>4, <2>5, <2>6 DEF IInv
<1> QED
  BY <1>1, <1>2 DEF Recall

LEMMA ImprovePreserves ==
    ASSUME IInv, NEW a \in Actors, NEW n \in Nonces, NEW i \in MemoryIds,
           NEW m \in Drafts, NEW dig \in Digests, NEW key \in Keys,
           Improve(i, m, a, n, dig, key)
    PROVE  IInv'
<1> DEFINE decision == Allowed(<<i, m.id>>, <<"improve", i, m.id>>)
<1>1. ASSUME Retry(a, n, key), Claim(a, n),
             Respond("improve", a, idempotency[key]),
             UNCHANGED <<memories, idempotency, commits, retired>>
      PROVE  IInv'
  <2>1. idempotency[key] \in Decision
    BY <1>1 DEF Retry, IInv, TypeOK
  <2>2. TypeOK'
    BY <1>1, <2>1, ClaimCounts DEF IInv, Respond, TypeOK, Answers
  <2>3. ServedIsSpent'
    BY <1>1, ClaimCounts DEF IInv
  <2>4. CommittedOnce'
    BY <1>1 DEF IInv, CommittedOnce
  <2>5. RetiredNeverRecalled'
    BY <1>1 DEF IInv, Respond, RetiredNeverRecalled, Stored
  <2> QED
    BY <2>2, <2>3, <2>4, <2>5 DEF IInv
<1>2. CASE Refuse("improve", a, n, ImproveError(i, m, a, n, dig))
  BY <1>2, ErrorsTyped, RefusePreserves
<1>3. ASSUME ~Retry(a, n, key), ImproveError(i, m, a, n, dig) = "",
             Claim(a, n),
             memories' = [memories EXCEPT ![i] = Superseded(@), ![m.id] = m],
             idempotency' = [idempotency EXCEPT ![key] = decision],
             commits' = [commits EXCEPT ![key] = @ + 1],
             retired' = (retired \cup {i}) \ {m.id},
             Respond("improve", a, decision)
      PROVE  IInv'
  <2>1. m \in Memory /\ m.id \in MemoryIds
    BY DEF Memory
  <2>2. /\ memories[i] \in Memory
        /\ ~Replayed(a, n)
        /\ a.canMutate
    BY <1>3 DEF ImproveError, Stored, IInv, TypeOK
  <2>3. /\ Superseded(memories[i]) \in Memory
        /\ Superseded(memories[i]).state = "superseded"
    BY <2>2 DEF Superseded, Memory, States
  <2>4. decision \in Decision
    <3>1. <<i, m.id>> \in Seq(MemoryIds)
      BY <2>1
    <3>2. <<"improve", i, m.id>> \in Receipts
      BY <2>1, ReceiptsTyped
    <3> QED
      BY <3>1, <3>2, AnswerTyped
  <2> HIDE DEF decision
  <2>5. idempotency[key] = NoDecision
    BY <1>3, <2>2 DEF Retry
  <2>6. TypeOK'
    <3>1. memories' \in [MemoryIds -> Memory \cup {NoMemory}]
      BY <1>3, <2>1, <2>3 DEF IInv, TypeOK
    <3>2. answer' \in Answers
      BY <1>3, <2>4 DEF Respond, Answers
    <3>3. /\ idempotency' \in [Keys -> Decision \cup {NoDecision}]
          /\ commits' \in [Keys -> Nat]
          /\ retired' \in SUBSET MemoryIds
      <4>1. idempotency' \in [Keys -> Decision \cup {NoDecision}]
        BY <1>3, <2>4 DEF IInv, TypeOK
      <4>2. commits' \in [Keys -> Nat]
        <5>1. commits \in [Keys -> Nat] /\ commits' = [commits EXCEPT ![key] = @ + 1]
          BY <1>3 DEF IInv, TypeOK
        <5> QED
          BY ONLY <5>1, key \in Keys
      <4>3. retired' \in SUBSET MemoryIds
        BY <1>3 DEF IInv, TypeOK
      <4> QED
        BY <4>1, <4>2, <4>3
    <3> QED
      BY <1>3, <3>1, <3>2, <3>3, ClaimCounts DEF IInv, TypeOK
  <2>7. ServedIsSpent'
    BY <1>3, ClaimCounts DEF IInv
  <2>8. CommittedOnce'
    <3>1. idempotency' = [idempotency EXCEPT ![key] = decision]
      BY <1>3
    <3>2. commits' = [commits EXCEPT ![key] = @ + 1]
      BY <1>3
    <3>3. decision # NoDecision
      BY <2>4
    <3> QED
      BY <3>1, <3>2, <3>3, <2>5 DEF IInv, TypeOK, CommittedOnce
  <2>9. RetiredNeverRecalled'
    <3>1. ASSUME NEW j \in retired'
          PROVE  memories'[j] # NoMemory /\ memories'[j].state # "current"
      <4>1. /\ memories \in [MemoryIds -> Memory \cup {NoMemory}] /\ retired \in SUBSET MemoryIds
            /\ j \in retired \cup {i} /\ j # m.id
        BY <1>3 DEF IInv, TypeOK
      <4>2. CASE j = i
        <5>1. memories'[j] = Superseded(memories[i])
          BY <1>3, <4>1, <4>2
        <5>2. NoMemory \notin Memory
          BY VaultAssumption
        <5> QED
          BY <2>3, <5>1, <5>2
      <4>3. CASE j # i
        <5>1. j \in retired /\ memories'[j] = memories[j]
          BY <1>3, <4>1, <4>3
        <5> QED
          BY <5>1 DEF IInv, RetiredNeverRecalled, Stored
      <4> QED
        BY <4>2, <4>3
    <3>2. answer'.op = "improve"
      BY <1>3 DEF Respond
    <3> QED
      BY <3>1, <3>2 DEF RetiredNeverRecalled, Stored
  <2> QED
    BY <2>6, <2>7, <2>8, <2>9 DEF IInv
<1> QED
  BY <1>1, <1>2, <1>3 DEF Improve

LEMMA ForgetPreserves ==
    ASSUME IInv, NEW a \in Actors, NEW n \in Nonces, NEW i \in MemoryIds,
           Forget(i, a, n)
    PROVE  IInv'
<1>1. CASE Refuse("forget", a, n, ForgetError(i, a, n))
  BY <1>1, ErrorsTyped, RefusePreserves
<1>2. ASSUME ForgetError(i, a, n) = "",
             Claim(a, n),
             memories' = [j \in MemoryIds |->
                             IF j \in Dropped(i) THEN Forgotten(memories[j])
                             ELSE memories[j]],
             retired' = retired \cup Dropped(i),
             Respond("forget", a, Allowed(<<i>>, <<"forget", i>>)),
             UNCHANGED <<idempotency, commits>>
      PROVE  IInv'
  <2>1. \A j \in Dropped(i) : j \in MemoryIds /\ memories[j] \in Memory
    BY <1>2 DEF Dropped, ForgetError, Stored, IInv, TypeOK
  <2>2. \A j \in Dropped(i) : /\ Forgotten(memories[j]) \in Memory
                              /\ Forgotten(memories[j]).state = "forgotten"
    BY <2>1 DEF Forgotten, Memory, States
  <2>3. Allowed(<<i>>, <<"forget", i>>) \in Decision
    <3>1. <<i>> \in Seq(MemoryIds)
      OBVIOUS
    <3>2. <<"forget", i>> \in Receipts
      BY ReceiptsTyped
    <3> QED
      BY <3>1, <3>2, AnswerTyped
  <2>4. TypeOK'
    <3>1. memories' \in [MemoryIds -> Memory \cup {NoMemory}]
      BY <1>2, <2>2 DEF IInv, TypeOK
    <3>2. answer' \in Answers
      BY <1>2, <2>3 DEF Respond, Answers
    <3>3. retired' \in SUBSET MemoryIds
      BY <1>2, <2>1 DEF IInv, TypeOK
    <3> QED
      BY <1>2, <3>1, <3>2, <3>3, ClaimCounts DEF IInv, TypeOK
  <2>5. ServedIsSpent'
    BY <1>2, ClaimCounts DEF IInv
  <2>6. CommittedOnce'
    BY <1>2 DEF IInv, CommittedOnce
  <2>7. RetiredNeverRecalled'
    <3>1. \A j \in retired' : memories'[j] # NoMemory /\ memories'[j].state # "current"
      <4>1. NoMemory \notin Memory
        OBVIOUS
      <4>2. \A j \in retired : /\ j \in MemoryIds
                               /\ memories[j] # NoMemory
                               /\ memories[j].state # "current"
        BY DEF IInv, TypeOK, RetiredNeverRecalled, Stored
      <4> QED
        BY <1>2, <2>1, <2>2, <4>1, <4>2
    <3> QED
      BY <1>2, <3>1 DEF Respond, RetiredNeverRecalled, Stored
  <2> QED
    BY <2>4, <2>5, <2>6, <2>7 DEF IInv
<1> QED
  BY <1>1, <1>2 DEF Forget

LEMMA RestartPreserves ==
    ASSUME IInv, Restart
    PROVE  IInv'
<1>1. /\ UNCHANGED <<memories, nonces, idempotency, served, commits, retired>>
      /\ answer' = [op |-> "restart"]
  BY DEF Restart, Restarted, history
<1> QED
  BY <1>1 DEF IInv, TypeOK, Answers, ServedIsSpent, CommittedOnce,
              RetiredNeverRecalled, Stored

----------------------------------------------------------------------------
(* The invariant holds of every behaviour.                                 *)

LEMMA InitInvariant ==
    ASSUME Init
    PROVE  IInv
<1>1. TypeOK
  BY DEF Init, TypeOK, Answers
<1>2. ServedIsSpent /\ CommittedOnce /\ RetiredNeverRecalled
  BY DEF Init, ServedIsSpent, CommittedOnce, RetiredNeverRecalled
<1> QED
  BY <1>1, <1>2 DEF IInv

LEMMA StepInvariant ==
    ASSUME IInv, [Next]_vars
    PROVE  IInv'
<1>1. CASE Restart
  BY <1>1, RestartPreserves
<1>2. ASSUME NEW a \in Actors, NEW n \in Nonces, Request(a, n)
      PROVE  IInv'
  <2>1. ASSUME NEW m \in Drafts, Remember(m, a, n) PROVE IInv'
    BY <2>1, RememberPreserves
  <2>2. ASSUME NEW q \in Queries, NEW t \in Times, Recall(q, a, t, n)
        PROVE  IInv'
    BY <2>2, RecallPreserves
  <2>3. ASSUME NEW i \in MemoryIds, NEW m \in Drafts, NEW dig \in Digests,
               NEW key \in Keys, Improve(i, m, a, n, dig, key)
        PROVE  IInv'
    BY <2>3, ImprovePreserves
  <2>4. ASSUME NEW i \in MemoryIds, Forget(i, a, n) PROVE IInv'
    BY <2>4, ForgetPreserves
  <2> QED
    BY <1>2, <2>1, <2>2, <2>3, <2>4 DEF Request
<1>3. CASE UNCHANGED vars
  BY <1>3 DEF vars, store, history, IInv, TypeOK, Answers, ServedIsSpent,
              CommittedOnce, RetiredNeverRecalled, Stored
<1> QED
  BY <1>1, <1>2, <1>3 DEF Next

THEOREM InvariantHolds == Spec => []IInv
<1>1. Init => IInv
  BY InitInvariant
<1>2. IInv /\ [Next]_vars => IInv'
  BY StepInvariant
<1> QED
  BY <1>1, <1>2, PTL DEF Spec

\* The tables of the vault keep their types (AdversarialBackend).
THEOREM TypeCorrect == Spec => []TypeOK
<1>1. IInv => TypeOK
  BY DEF IInv
<1> QED
  BY <1>1, InvariantHolds, PTL

\* No nonce of a caller is let through twice, restarts included (_claim,
\* restart).
THEOREM NonceServedOnce == Spec => []ServedOnce
<1>1. IInv => ServedOnce
  BY DEF IInv, ServedIsSpent, ServedOnce
<1> QED
  BY <1>1, InvariantHolds, PTL

\* No idempotency key changes memory twice, restarts included (improve,
\* restart).
THEOREM KeyCommittedOnce == Spec => []CommittedOnce
<1>1. IInv => CommittedOnce
  BY DEF IInv
<1> QED
  BY <1>1, InvariantHolds, PTL

\* What was superseded, or forgotten directly or one derivation away, is in no
\* answer until its identifier is written again (forget, improve, recall).
THEOREM RetiredStaysOut == Spec => []RetiredNeverRecalled
<1>1. IInv => RetiredNeverRecalled
  BY DEF IInv
<1> QED
  BY <1>1, InvariantHolds, PTL

----------------------------------------------------------------------------
(* What a step may do to the memories and to the decisions.                *)

\* The four ways out of a request: nothing but the nonce and the answer moves,
\* or one of the three writes commits, with the answer that reports it.
Idle == UNCHANGED <<memories, idempotency>>

Wrote(a, m) ==
    /\ memories' = [memories EXCEPT ![m.id] = m]
    /\ UNCHANGED idempotency
    /\ Respond("remember", a,
               Allowed(<<m.id>>, <<"remember", m.id, m.digest>>))

Improved(a, i, m, key) ==
    LET decision == Allowed(<<i, m.id>>, <<"improve", i, m.id>>)
    IN /\ Stored(i) /\ idempotency[key] = NoDecision
       /\ Authorized(memories[i], a)
       /\ memories' = [memories EXCEPT ![i] = Superseded(@), ![m.id] = m]
       /\ idempotency' = [idempotency EXCEPT ![key] = decision]
       /\ Respond("improve", a, decision)

Forgot(a, i) ==
    /\ Stored(i)
    /\ Authorized(memories[i], a)
    /\ memories' = [j \in MemoryIds |->
                       IF j \in Dropped(i) THEN Forgotten(memories[j])
                       ELSE memories[j]]
    /\ UNCHANGED idempotency
    /\ Respond("forget", a, Allowed(<<i>>, <<"forget", i>>))

LEMMA StepWrites ==
    ASSUME [Next]_vars
    PROVE  \/ Idle
           \/ \E a \in Actors, m \in Drafts : Wrote(a, m)
           \/ \E a \in Actors, i \in MemoryIds, m \in Drafts, key \in Keys :
                 Improved(a, i, m, key)
           \/ \E a \in Actors, i \in MemoryIds : Forgot(a, i)
<1>1. CASE Restart
  BY <1>1 DEF Restart, Restarted, Idle
<1>2. ASSUME NEW a \in Actors, NEW n \in Nonces, NEW m \in Drafts,
             Remember(m, a, n)
      PROVE  Idle \/ Wrote(a, m)
  BY <1>2 DEF Remember, Refuse, Idle, Wrote
<1>3. ASSUME NEW a \in Actors, NEW n \in Nonces, NEW q \in Queries,
             NEW t \in Times, Recall(q, a, t, n)
      PROVE  Idle
  BY <1>3 DEF Recall, Refuse, Idle
<1>4. ASSUME NEW a \in Actors, NEW n \in Nonces, NEW i \in MemoryIds,
             NEW m \in Drafts, NEW dig \in Digests, NEW key \in Keys,
             Improve(i, m, a, n, dig, key)
      PROVE  Idle \/ Improved(a, i, m, key)
  BY <1>4 DEF Improve, ImproveError, Retry, Refuse, Idle, Improved
<1>5. ASSUME NEW a \in Actors, NEW n \in Nonces, NEW i \in MemoryIds,
             Forget(i, a, n)
      PROVE  Idle \/ Forgot(a, i)
  BY <1>5 DEF Forget, ForgetError, Refuse, Idle, Forgot
<1>6. CASE UNCHANGED vars
  BY <1>6 DEF vars, store, Idle
<1> QED
  BY <1>1, <1>2, <1>3, <1>4, <1>5, <1>6 DEF Next, Request

\* A record stays: no step takes a decision out of the ledger, and only an
\* improvement puts one in.
LEMMA RecordStays ==
    ASSUME TypeOK, SupersessionIsOnRecord, NEW j \in MemoryIds,
           Stored(j), memories[j].state = "superseded", UNCHANGED idempotency
    PROVE  \E k \in Keys : /\ idempotency'[k] # NoDecision
                           /\ idempotency'[k].allowed /\ idempotency'[k].ids[1] = j
BY DEF SupersessionIsOnRecord

LEMMA SupersessionStaysOnRecord ==
    ASSUME TypeOK, SupersessionIsOnRecord, [Next]_vars
    PROVE  SupersessionIsOnRecord'
<1> SUFFICES ASSUME NEW j \in MemoryIds, memories'[j] # NoMemory,
                    memories'[j].state = "superseded"
             PROVE  \E k \in Keys : /\ idempotency'[k] # NoDecision
                                    /\ idempotency'[k].allowed
                                    /\ idempotency'[k].ids[1] = j
  BY DEF SupersessionIsOnRecord, Stored
<1>1. CASE Idle
  BY <1>1, RecordStays DEF Idle, Stored
<1>2. ASSUME NEW a \in Actors, NEW m \in Drafts, Wrote(a, m)
      PROVE  Stored(j) /\ memories[j].state = "superseded" /\ UNCHANGED idempotency
  BY <1>2, DraftsAreFresh DEF Wrote, Stored, TypeOK
<1>3. ASSUME NEW a \in Actors, NEW i \in MemoryIds, NEW m \in Drafts,
             NEW key \in Keys, Improved(a, i, m, key)
      PROVE  \E k \in Keys : /\ idempotency'[k] # NoDecision
                             /\ idempotency'[k].allowed
                             /\ idempotency'[k].ids[1] = j
  <2> DEFINE decision == Allowed(<<i, m.id>>, <<"improve", i, m.id>>)
  <2>1. /\ idempotency' = [idempotency EXCEPT ![key] = decision]
        /\ memories' = [memories EXCEPT ![i] = Superseded(@), ![m.id] = m]
        /\ idempotency[key] = NoDecision
    BY <1>3 DEF Improved
  <2>2. decision.allowed /\ decision.ids[1] = i /\ decision # NoDecision
    <3>1. m.id \in MemoryIds
      BY VaultAssumption DEF Memory
    <3>2. decision \in Decision
      <4>1. <<i, m.id>> \in Seq(MemoryIds)
        BY <3>1
      <4>2. <<"improve", i, m.id>> \in Receipts
        BY <3>1, ReceiptsTyped
      <4> QED
        BY <4>1, <4>2, AnswerTyped
    <3> QED
      BY <3>2, VaultAssumption DEF Allowed
  <2>3. /\ idempotency'[key] = decision
        /\ \A k \in Keys : k # key => idempotency'[k] = idempotency[k]
    BY <2>1 DEF TypeOK
  <2> HIDE DEF decision
  <2>4. CASE j = i
    BY <2>2, <2>3, <2>4
  <2>5. CASE j # i
    <3>1. j # m.id
      BY <2>1, DraftsAreFresh DEF TypeOK
    <3>2. Stored(j) /\ memories[j].state = "superseded"
      BY <2>1, <2>5, <3>1 DEF TypeOK, Stored
    <3>3. PICK k \in Keys : /\ idempotency[k] # NoDecision
                            /\ idempotency[k].allowed /\ idempotency[k].ids[1] = j
      BY <3>2 DEF SupersessionIsOnRecord
    <3>4. k # key
      BY <2>1, <3>3
    <3> QED
      BY <2>3, <3>3, <3>4
  <2> QED
    BY <2>4, <2>5
<1>4. ASSUME NEW a \in Actors, NEW i \in MemoryIds, Forgot(a, i)
      PROVE  Stored(j) /\ memories[j].state = "superseded" /\ UNCHANGED idempotency
  BY <1>4 DEF Forgot, Forgotten, Dropped, Stored, TypeOK, Memory
<1> QED
  BY <1>1, <1>2, <1>3, <1>4, StepWrites, RecordStays

\* A superseded memory has the decision of its improvement in the ledger, for
\* every history of requests and restarts, so that no retry of that improvement
\* is applied again (improve, forget, remember, restart).
THEOREM SupersessionsAreOnRecord == Spec => []SupersessionIsOnRecord
<1>1. Init => SupersessionIsOnRecord
  BY DraftsAreFresh DEF Init, SupersessionIsOnRecord, Stored
<1>2. IInv /\ SupersessionIsOnRecord /\ [Next]_vars => SupersessionIsOnRecord'
  BY SupersessionStaysOnRecord DEF IInv
<1> QED
  BY <1>1, <1>2, InvariantHolds, PTL DEF Spec

\* A request that is refused moves no memory and no decision (every early
\* return of the four operations).
THEOREM RefusalIsFree == Spec => RefusalChangesNothing
<1>1. ASSUME [Next]_vars, answer'.op # "restart", ~answer'.decision.allowed
      PROVE  UNCHANGED <<memories, idempotency>>
  <2>1. ASSUME NEW a \in Actors, NEW m \in Drafts, Wrote(a, m)
        PROVE  FALSE
    BY <1>1, <2>1 DEF Wrote, Respond, Allowed
  <2>2. ASSUME NEW a \in Actors, NEW i \in MemoryIds, NEW m \in Drafts,
               NEW key \in Keys, Improved(a, i, m, key)
        PROVE  FALSE
    BY <1>1, <2>2 DEF Improved, Respond, Allowed
  <2>3. ASSUME NEW a \in Actors, NEW i \in MemoryIds, Forgot(a, i)
        PROVE  FALSE
    BY <1>1, <2>3 DEF Forgot, Respond, Allowed
  <2> QED
    BY <1>1, <2>1, <2>2, <2>3, StepWrites DEF Idle
<1>2. [Next]_vars
        => [ answer'.op # "restart" /\ ~answer'.decision.allowed
               => UNCHANGED <<memories, idempotency>> ]_vars
  BY <1>1
<1> QED
  BY <1>2, PTL DEF Spec, RefusalChangesNothing

\* Why a current memory may change: what CurrentEndsForAReason says of one
\* identifier.
Reason(i) ==
    /\ answer'.op \in {"remember", "improve", "forget"}
    /\ answer'.decision.allowed
    /\ LET ids == answer'.decision.ids
           named == memories[ids[1]]
       IN \/ answer'.op = "remember" /\ i = ids[1]
          \/ /\ answer'.op = "improve"
             /\ i \in {ids[1], ids[2]}
             /\ Authorized(named, answer'.actor)
          \/ /\ answer'.op = "forget"
             /\ i = ids[1] \/ ids[1] \in memories[i].derived
             /\ Authorized(named, answer'.actor)

LEMMA ChangeHasAReason ==
    ASSUME TypeOK, [Next]_vars, NEW j \in MemoryIds,
           memories'[j] # memories[j]
    PROVE  Reason(j)
<1>1. ASSUME NEW a \in Actors, NEW m \in Drafts, Wrote(a, m)
      PROVE  Reason(j)
  <2>1. /\ answer'.op = "remember"
        /\ answer'.decision.allowed
        /\ answer'.decision.ids = <<m.id>>
    BY <1>1 DEF Wrote, Respond, Allowed
  <2>2. j = m.id
    BY <1>1 DEF Wrote, TypeOK
  <2> QED
    BY <2>1, <2>2 DEF Reason
<1>2. ASSUME NEW a \in Actors, NEW i \in MemoryIds, NEW m \in Drafts,
             NEW key \in Keys, Improved(a, i, m, key)
      PROVE  Reason(j)
  <2>1. /\ answer'.op = "improve"
        /\ answer'.actor = a
        /\ answer'.decision.allowed
        /\ answer'.decision.ids = <<i, m.id>>
    BY <1>2 DEF Improved, Respond, Allowed
  <2>2. j \in {i, m.id}
    BY <1>2 DEF Improved, TypeOK
  <2>3. Authorized(memories[i], a)
    BY <1>2 DEF Improved
  <2> QED
    BY <2>1, <2>2, <2>3 DEF Reason
<1>3. ASSUME NEW a \in Actors, NEW i \in MemoryIds, Forgot(a, i)
      PROVE  Reason(j)
  <2>1. /\ answer'.op = "forget"
        /\ answer'.actor = a
        /\ answer'.decision.allowed
        /\ answer'.decision.ids = <<i>>
    BY <1>3 DEF Forgot, Respond, Allowed
  <2>2. j \in Dropped(i)
    BY <1>3 DEF Forgot
  <2>3. j = i \/ i \in memories[j].derived
    BY <2>2 DEF Dropped
  <2>4. Authorized(memories[i], a)
    BY <1>3 DEF Forgot
  <2> QED
    BY <2>1, <2>3, <2>4 DEF Reason
<1>4. ~Idle
  BY DEF Idle
<1> QED
  BY <1>1, <1>2, <1>3, <1>4, StepWrites

\* No restart, refusal, retry or unrelated request takes a current memory out
\* of use or replaces it (remember, improve, forget, restart).
THEOREM CurrentMemoriesAreKept == Spec => CurrentEndsForAReason
<1>1. ASSUME TypeOK, [Next]_vars
      PROVE  \A i \in MemoryIds :
                (Stored(i) /\ memories[i].state = "current"
                 /\ memories'[i] # memories[i]) => Reason(i)
  BY <1>1, ChangeHasAReason
<1>2. TypeOK /\ [Next]_vars
        => [\A i \in MemoryIds :
              (Stored(i) /\ memories[i].state = "current"
               /\ memories'[i] # memories[i]) => Reason(i)]_vars
  BY <1>1
<1> QED
  BY <1>2, TypeCorrect, PTL DEF Spec, CurrentEndsForAReason, Reason

\* Two adjoining validity windows answer for every day of both exactly once
\* (recall's half-open window).
LEMMA WindowsAdjoin ==
    ASSUME TypeOK, NEW a \in Actors, NEW q \in Queries, NEW t \in Times,
           NEW i \in MemoryIds, NEW j \in MemoryIds,
           Stored(i), memories[i].state = "current",
           Authorized(memories[i], a), Score(q, i) > 0,
           Stored(j), memories[j].state = "current",
           Authorized(memories[j], a), Score(q, j) > 0,
           memories[i].until = memories[j].from,
           memories[j].until = NoEnd, t >= memories[i].from
    PROVE  Cardinality(Hits(q, a, t) \cap {i, j}) = 1
<1>1. /\ memories[i] \in Memory /\ memories[j] \in Memory
      /\ memories[i].from \in Nat /\ memories[j].from \in Nat
      /\ t \in Nat
  BY DEF TypeOK, Stored, Memory
<1>2. i # j /\ memories[i].until # NoEnd
  BY <1>1
<1>3. CASE t < memories[j].from
  <2>1. i \in Hits(q, a, t) /\ j \notin Hits(q, a, t)
    BY <1>1, <1>2, <1>3 DEF Hits, Visible, InWindow
  <2>2. Hits(q, a, t) \cap {i, j} = {i}
    BY <1>2, <2>1
  <2> QED
    BY <2>2, FS_Singleton
<1>4. CASE ~(t < memories[j].from)
  <2>1. i \notin Hits(q, a, t) /\ j \in Hits(q, a, t)
    BY <1>1, <1>2, <1>4 DEF Hits, Visible, InWindow
  <2>2. Hits(q, a, t) \cap {i, j} = {j}
    BY <1>2, <2>1
  <2> QED
    BY <2>2, FS_Singleton
<1> QED
  BY <1>3, <1>4

\* An answer as of any day holds exactly one of two facts of which the second
\* is valid from the day the first one ends (recall).
THEOREM OneFactPerDay == Spec => []HandoverIsExact
<1>1. TypeOK => HandoverIsExact
  BY WindowsAdjoin DEF HandoverIsExact
<1> QED
  BY <1>1, TypeCorrect, PTL

----------------------------------------------------------------------------
(* The vault implements OncePerToken.                                      *)

\* Claiming spends a fresh token, or the request is a replay.
LEMMA ClaimSpends ==
    ASSUME NEW a \in Actors, NEW n \in Nonces, Claim(a, n)
    PROVE  IF Replayed(a, n) THEN UNCHANGED nonces
           ELSE Once!Spend(<<a.did, n>>) /\ <<a.did, n>> \in Dids \X Nonces
BY DEF Claim, Replayed, Once!Spend, Actor

LEMMA RefuseIsAnswer ==
    ASSUME NEW a \in Actors, NEW n \in Nonces, NEW op, NEW err,
           Refuse(op, a, n, err)
    PROVE  [Once!Next]_Once!vars
<1>1. Claim(a, n) /\ UNCHANGED <<memories, idempotency>>
  BY DEF Refuse
<1>2. CASE Replayed(a, n)
  BY <1>1, <1>2, ClaimSpends DEF Once!vars
<1>3. CASE ~Replayed(a, n)
  BY <1>1, <1>3, ClaimSpends DEF Once!Next, Once!Answer
<1> QED
  BY <1>2, <1>3

LEMMA StepRefines ==
    ASSUME IInv, IInv', [Next]_vars
    PROVE  [Once!Next]_Once!vars
<1>1. memories' \in [MemoryIds -> Memory \cup {NoMemory}]
  BY DEF IInv, TypeOK
<1>2. CASE Restart
  BY <1>2 DEF Restart, Restarted, Once!vars
<1>3. ASSUME NEW a \in Actors, NEW n \in Nonces, NEW m \in Drafts,
             Remember(m, a, n)
      PROVE  [Once!Next]_Once!vars
  <2>1. CASE RememberError(m, a, n) # ""
    BY <1>3, <2>1, RefuseIsAnswer DEF Remember
  <2>2. CASE RememberError(m, a, n) = ""
    <3>1. Claim(a, n) /\ ~Replayed(a, n) /\ UNCHANGED idempotency
      BY <1>3, <2>2 DEF Remember, RememberError
    <3> QED
      BY <1>1, <3>1, ClaimSpends DEF Once!Next, Once!Write
  <2> QED
    BY <2>1, <2>2
<1>4. ASSUME NEW a \in Actors, NEW n \in Nonces, NEW q \in Queries,
             NEW t \in Times, Recall(q, a, t, n)
      PROVE  [Once!Next]_Once!vars
  <2>1. CASE RecallError(q, a, n) # ""
    BY <1>4, <2>1, RefuseIsAnswer DEF Recall
  <2>2. CASE RecallError(q, a, n) = ""
    <3>1. Claim(a, n) /\ ~Replayed(a, n) /\ UNCHANGED <<memories, idempotency>>
      BY <1>4, <2>2 DEF Recall, RecallError
    <3> QED
      BY <3>1, ClaimSpends DEF Once!Next, Once!Answer
  <2> QED
    BY <2>1, <2>2
<1>5. ASSUME NEW a \in Actors, NEW n \in Nonces, NEW i \in MemoryIds,
             NEW m \in Drafts, NEW dig \in Digests, NEW key \in Keys,
             Improve(i, m, a, n, dig, key)
      PROVE  [Once!Next]_Once!vars
  <2>1. CASE Retry(a, n, key)
    <3>1. Claim(a, n) /\ ~Replayed(a, n) /\ UNCHANGED <<memories, idempotency>>
      BY <1>5, <2>1 DEF Improve, Retry
    <3> QED
      BY <3>1, ClaimSpends DEF Once!Next, Once!Answer
  <2>2. CASE ~Retry(a, n, key) /\ ImproveError(i, m, a, n, dig) # ""
    BY <1>5, <2>2, RefuseIsAnswer DEF Improve
  <2>3. CASE ~Retry(a, n, key) /\ ImproveError(i, m, a, n, dig) = ""
    <3>1. Claim(a, n) /\ ~Replayed(a, n) /\ a.canMutate
      BY <1>5, <2>3 DEF Improve, ImproveError
    <3>2. idempotency[key] = NoDecision
      BY <2>3, <3>1 DEF Retry
    <3>3. /\ Once!Spend(<<a.did, n>>)
          /\ <<a.did, n>> \in Dids \X Nonces
      BY <3>1, ClaimSpends
    <3>4. PICK d : idempotency' = [idempotency EXCEPT ![key] = d]
      BY <1>5, <2>3 DEF Improve
    <3>5. idempotency'[key] = d /\ d \in Decision
      <4>1. idempotency'[key] = d
        BY <3>4 DEF IInv, TypeOK
      <4>2. commits'[key] = commits[key] + 1
        BY <1>5, <2>3 DEF Improve, IInv, TypeOK
      <4>3. commits[key] = 0
        BY <3>2 DEF IInv, CommittedOnce
      <4>4. d # NoDecision
        BY <4>1, <4>2, <4>3 DEF IInv, CommittedOnce
      <4> QED
        BY <4>1, <4>4 DEF IInv, TypeOK
    <3>6. Once!Commit(<<a.did, n>>, key)
      BY <1>1, <3>2, <3>3, <3>4, <3>5 DEF Once!Commit
    <3> QED
      BY <3>3, <3>6 DEF Once!Next
  <2> QED
    BY <2>1, <2>2, <2>3
<1>6. ASSUME NEW a \in Actors, NEW n \in Nonces, NEW i \in MemoryIds,
             Forget(i, a, n)
      PROVE  [Once!Next]_Once!vars
  <2>1. CASE ForgetError(i, a, n) # ""
    BY <1>6, <2>1, RefuseIsAnswer DEF Forget
  <2>2. CASE ForgetError(i, a, n) = ""
    <3>1. Claim(a, n) /\ ~Replayed(a, n) /\ UNCHANGED idempotency
      BY <1>6, <2>2 DEF Forget, ForgetError
    <3> QED
      BY <1>1, <3>1, ClaimSpends DEF Once!Next, Once!Write
  <2> QED
    BY <2>1, <2>2
<1>7. CASE UNCHANGED vars
  BY <1>7 DEF vars, store, Once!vars
<1> QED
  BY <1>2, <1>3, <1>4, <1>5, <1>6, <1>7 DEF Next, Request

\* Every effect of the vault spends one fresh token and a keyed effect happens
\* once, whatever the memories, callers and requests are.
THEOREM ImplementsOncePerToken == Spec => OnceSpec
<1>1. Init => Once!Init
  BY DEF Init, Once!Init
<1>2. IInv /\ IInv' /\ [Next]_vars => [Once!Next]_Once!vars
  BY StepRefines
<1> QED
  BY <1>1, <1>2, InvariantHolds, PTL DEF Spec, OnceSpec, Once!Spec

----------------------------------------------------------------------------
(* Authentication in front of the vault, for every choice of identities:   *)
(* the vault behind it is still the vault, so what is proved of Vault      *)
(* holds here, and a refused credential has no effect.                     *)

USE AuthAssumption

\* The registry keeps each record under its own did (register).
THEOREM RegistryTypeCorrect == AuthSpec => []AuthTypeOK
<1>1. AuthInit => AuthTypeOK
  BY DEF AuthInit, AuthTypeOK
<1>2. ASSUME AuthTypeOK, [AuthNext]_authVars
      PROVE  AuthTypeOK'
  <2>1. ASSUME NEW r \in Records, Register(r)
        PROVE  AuthTypeOK'
    BY <1>2, <2>1 DEF AuthTypeOK, Register, Actor
  <2>2. ASSUME NEW did \in Dids, NEW cred \in Credentials,
               Reject(did, cred) \/ Serve(did, cred)
        PROVE  AuthTypeOK'
    BY <1>2, <2>2 DEF AuthTypeOK, Reject, Serve
  <2>3. CASE AuthRestart
    BY <1>2, <2>3 DEF AuthTypeOK, AuthRestart
  <2>4. CASE UNCHANGED authVars
    BY <1>2, <2>4 DEF AuthTypeOK, authVars
  <2> QED
    BY <1>2, <2>1, <2>2, <2>3, <2>4 DEF AuthNext
<1> QED
  BY <1>1, <1>2, PTL DEF AuthSpec

\* Behind authentication every step of the vault is a step of its own: a
\* registered caller is served, or nothing of the vault moves
\* (AuthenticatedBackend.remember, recall, improve, forget, restart).
THEOREM CoreIsVault == AuthSpec => CoreSpec
<1>1. AuthInit => Init
  BY DEF AuthInit
<1>2. ASSUME AuthTypeOK, [AuthNext]_authVars
      PROVE  [Next]_vars
  <2>1. ASSUME NEW r \in Records, Register(r)
        PROVE  [Next]_vars
    BY <2>1 DEF Register
  <2>2. ASSUME NEW did \in Dids, NEW cred \in Credentials, Reject(did, cred)
        PROVE  [Next]_vars
    BY <2>2 DEF Reject
  <2>3. ASSUME NEW did \in Dids, NEW cred \in Credentials, Serve(did, cred)
        PROVE  [Next]_vars
    <3>1. SessionActor(did) \in Actors
      BY <1>2, <2>3 DEF Serve, Authenticates, SessionActor, AuthTypeOK
    <3>2. PICK n \in Nonces : Request(SessionActor(did), n)
      BY <2>3 DEF Serve
    <3> QED
      BY <3>1, <3>2 DEF Next
  <2>4. CASE AuthRestart
    BY <2>4 DEF AuthRestart, Next
  <2>5. CASE UNCHANGED authVars
    BY <2>5 DEF authVars
  <2> QED
    BY <1>2, <2>1, <2>2, <2>3, <2>4, <2>5 DEF AuthNext
<1> QED
  BY <1>1, <1>2, RegistryTypeCorrect, PTL DEF AuthSpec, CoreSpec, Spec

\* Replay protection holds for authenticated callers as well, also for one who
\* is registered again between two requests.
THEOREM AuthenticatedNonceServedOnce == AuthSpec => []ServedOnce
BY CoreIsVault, NonceServedOnce DEF CoreSpec

\* A refused credential spends nothing and stores nothing.
THEOREM DenialCostsNothing == AuthSpec => DenialIsFree
<1>1. ASSUME [AuthNext]_authVars, access' = "authentication-denied",
             ~UNCHANGED authVars
      PROVE  UNCHANGED store
  <2>1. PICK did \in Dids, cred \in Credentials : Reject(did, cred)
    BY <1>1 DEF AuthNext, Register, Serve, AuthRestart
  <2> QED
    BY <2>1 DEF Reject, vars, store
<1>2. [AuthNext]_authVars
        => [access' = "authentication-denied" => UNCHANGED store]_authVars
  BY <1>1
<1> QED
  BY <1>2, PTL DEF AuthSpec, DenialIsFree

\* What a served caller is shown or may change, in terms of the actor the
\* registry builds for it.
LEMMA RequestIsBounded ==
    ASSUME TypeOK, NEW a \in Actors, NEW n \in Nonces, Request(a, n)
    PROVE  /\ answer'.actor = a
           /\ answer'.op = "recall" =>
                  \A p \in DOMAIN answer'.decision.ids :
                      Authorized(memories[answer'.decision.ids[p]], a)
           /\ memories' # memories => a.canMutate
<1> DEFINE Bounded ==
              /\ answer'.actor = a
              /\ answer'.op = "recall" =>
                     \A p \in DOMAIN answer'.decision.ids :
                         Authorized(memories[answer'.decision.ids[p]], a)
              /\ memories' # memories => a.canMutate
<1> a \in Actor /\ a.canMutate \in BOOLEAN
  BY DEF Actor
<1>1. ASSUME NEW op, NEW err, Refuse(op, a, n, err)
      PROVE  Bounded
  BY <1>1 DEF Refuse, Respond, Denied
<1>2. ASSUME NEW m \in Drafts, Remember(m, a, n)
      PROVE  Bounded
  <2>1. CASE RememberError(m, a, n) # ""
    BY <1>1, <1>2, <2>1 DEF Remember
  <2>2. CASE RememberError(m, a, n) = ""
    <3>1. a.canMutate
      BY <2>2, a \in Actor, a.canMutate \in BOOLEAN DEF RememberError
    <3>2. PICK d : Respond("remember", a, d)
      BY <1>2, <2>2 DEF Remember
    <3>3. answer'.actor = a /\ answer'.op = "remember"
      BY <3>2 DEF Respond
    <3> QED
      BY <3>1, <3>3
  <2> QED
    BY <2>1, <2>2
<1>3. ASSUME NEW q \in Queries, NEW t \in Times, Recall(q, a, t, n)
      PROVE  Bounded
  <2>1. CASE RecallError(q, a, n) # ""
    BY <1>1, <1>3, <2>1 DEF Recall
  <2>2. CASE RecallError(q, a, n) = ""
    <3>1. PICK ids \in Sorted(q, Hits(q, a, t)) :
             Respond("recall", a, Allowed(ids, <<"recall", Scored(q, ids)>>))
      BY <1>3, <2>2 DEF Recall
    <3>2. answer'.actor = a /\ answer'.decision.ids = ids
      BY <3>1 DEF Respond, Allowed
    <3>3. \A p \in DOMAIN ids : Authorized(memories[ids[p]], a)
      BY HitsTyped DEF Hits, Visible
    <3>4. memories' = memories
      BY <1>3, <2>2 DEF Recall
    <3> QED
      BY <3>2, <3>3, <3>4
  <2> QED
    BY <2>1, <2>2
<1>4. ASSUME NEW i \in MemoryIds, NEW m \in Drafts, NEW dig \in Digests,
             NEW key \in Keys, Improve(i, m, a, n, dig, key)
      PROVE  Bounded
  <2>1. CASE Retry(a, n, key)
    BY <1>4, <2>1 DEF Improve, Respond
  <2>2. CASE ~Retry(a, n, key) /\ ImproveError(i, m, a, n, dig) # ""
    BY <1>1, <1>4, <2>2 DEF Improve
  <2>3. CASE ~Retry(a, n, key) /\ ImproveError(i, m, a, n, dig) = ""
    <3>1. a.canMutate
      BY <2>3, a \in Actor, a.canMutate \in BOOLEAN DEF ImproveError
    <3>2. PICK d : Respond("improve", a, d)
      BY <1>4, <2>3 DEF Improve
    <3>3. answer'.actor = a /\ answer'.op = "improve"
      BY <3>2 DEF Respond
    <3> QED
      BY <3>1, <3>3
  <2> QED
    BY <2>1, <2>2, <2>3
<1>5. ASSUME NEW i \in MemoryIds, Forget(i, a, n)
      PROVE  Bounded
  <2>1. CASE ForgetError(i, a, n) # ""
    BY <1>1, <1>5, <2>1 DEF Forget
  <2>2. CASE ForgetError(i, a, n) = ""
    <3>1. a.canMutate
      BY <2>2, a \in Actor, a.canMutate \in BOOLEAN DEF ForgetError
    <3>2. PICK d : Respond("forget", a, d)
      BY <1>5, <2>2 DEF Forget
    <3>3. answer'.actor = a /\ answer'.op = "forget"
      BY <3>2 DEF Respond
    <3> QED
      BY <3>1, <3>3
  <2> QED
    BY <2>1, <2>2
<1> QED
  BY <1>2, <1>3, <1>4, <1>5 DEF Request

\* The registry, as it is now, bounds every answer and every change: a caller
\* registered again with less sees and may do less from that moment on
\* (_session_actor, register).
THEOREM RegistryDecides == AuthSpec => RegistryBounds
<1>1. ASSUME AuthTypeOK, TypeOK, [AuthNext]_authVars,
             access' = "served", answer' # answer
      PROVE  LET r == records[answer'.actor.did]
                 ids == answer'.decision.ids
             IN /\ r # NoRecord
                /\ answer'.op = "recall" =>
                       \A p \in DOMAIN ids : Authorized(memories[ids[p]], r)
                /\ memories' # memories => r.canMutate
  <2>1. PICK did \in Dids, cred \in Credentials : Serve(did, cred)
    BY <1>1 DEF AuthNext, Register, Reject, AuthRestart, authVars, vars
  <2>2. PICK n \in Nonces : Request(records[did], n)
    BY <2>1 DEF Serve, SessionActor
  <2>3. records[did] \in Actors /\ records[did].did = did
    BY <1>1, <2>1 DEF Serve, Authenticates, AuthTypeOK
  <2>4. records[did] # NoRecord
    BY <2>3
  <2> QED
    BY <1>1, <2>2, <2>3, <2>4, RequestIsBounded
<1>2. AuthTypeOK /\ TypeOK /\ [AuthNext]_authVars
        => [(access' = "served" /\ answer' # answer) =>
              LET r == records[answer'.actor.did]
                  ids == answer'.decision.ids
              IN /\ r # NoRecord
                 /\ answer'.op = "recall" =>
                        \A p \in DOMAIN ids : Authorized(memories[ids[p]], r)
                 /\ memories' # memories => r.canMutate]_authVars
  BY <1>1
<1>3. AuthSpec => []TypeOK
  BY CoreIsVault, TypeCorrect DEF CoreSpec
<1> QED
  BY <1>2, <1>3, RegistryTypeCorrect, PTL DEF AuthSpec, RegistryBounds

\* The ledger, the boundary of a refusal and the reasons for a change are the
\* vault's own behind authentication as well.
THEOREM AuthenticatedVaultKeepsItsWord ==
    AuthSpec => []SupersessionIsOnRecord /\ RefusalChangesNothing /\ CurrentEndsForAReason
BY CoreIsVault, SupersessionsAreOnRecord, RefusalIsFree, CurrentMemoriesAreKept
   DEF CoreSpec
============================================================================
