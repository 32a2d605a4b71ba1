---------------------------- MODULE GuardProofs ----------------------------
(***************************************************************************)
(* What Guard guarantees for every policy, lattice and number of           *)
(* capabilities: authority only narrows along a chain of attenuations,     *)
(* identifiers are unique for good, the log of issued authority is         *)
(* complete, and what stopped authorizing never authorizes again.          *)
(***************************************************************************)
EXTENDS Guard, TLAPS

USE GuardAssumption

\* No capability carries an epoch that has not begun; with it revoke_all
\* reaches everything there is.
EpochsBegun == \A c \in sealed : c.epoch <= minEpoch

IInv ==
    /\ TypeOK
    /\ UniqueIds
    /\ WithinOrigin
    /\ IssueIsLogged
    /\ UseIsLicensed
    /\ EpochsBegun

----------------------------------------------------------------------------
(* Lemmas about grants and answers.                                        *)

\* The order of grants is transitive, so narrowing step by step narrows.
LEMMA ImpliedTransitive ==
    ASSUME NEW root \in SUBSET Grants, NEW held \in SUBSET Grants, NEW g \in Grants,
           \A h \in held : Implied(root, h), Implied(held, g)
    PROVE  Implied(root, g)
<1>1. CASE g \in held
  BY <1>1
<1>2. ASSUME NEW l \in Levels, NEW k \in Levels, g = <<"read", l>>, l <= k,
             <<"read", k>> \in held
      PROVE  Implied(root, g)
  <2>1. Implied(root, <<"read", k>>)
    BY <1>2
  <2>2. CASE <<"read", k>> \in root
    BY <1>2, <2>2 DEF Implied
  <2>3. ASSUME NEW l1 \in Levels, NEW k1 \in Levels, <<"read", k>> = <<"read", l1>>,
               l1 <= k1, <<"read", k1>> \in root
        PROVE  Implied(root, g)
    <3>1. l1 = k
      BY <2>3
    <3>2. l \in Nat /\ k \in Nat /\ k1 \in Nat
      BY <1>2, <2>3
    <3>3. l <= k /\ k <= k1
      BY <1>2, <2>3, <3>1
    <3>4. l <= k1
      BY ONLY <3>2, <3>3
    <3> QED
      BY <1>2, <2>3, <3>4 DEF Implied
  <2> QED
    BY <2>1, <2>2, <2>3 DEF Implied
<1> QED
  BY <1>1, <1>2 DEF Implied

LEMMA HeldIsImplied ==
    ASSUME NEW held, NEW g \in held
    PROVE  Implied(held, g)
BY DEF Implied

\* What callers present is typed, and what verifies was sealed.
LEMMA PresentedTyped ==
    ASSUME TypeOK, NEW c \in Presented
    PROVE  c \in Capability \cup {NoCapability}
BY DEF TypeOK, Presented, Capability

\* A step that leaves authority alone preserves the invariant: it may change
\* the answer, the policy, the clock, the revocations, and grow the log.
LEMMA AuthorityUntouched ==
    ASSUME IInv, TypeOK', UseIsLicensed',
           UNCHANGED <<count, sealed, origin>>, audit \subseteq audit',
           minEpoch' >= minEpoch
    PROVE  IInv'
<1>1. UniqueIds'
  BY DEF IInv, UniqueIds
<1>2. WithinOrigin'
  BY DEF IInv, WithinOrigin
<1>3. IssueIsLogged'
  BY DEF IInv, IssueIsLogged
<1>4. EpochsBegun'
  BY DEF IInv, EpochsBegun, TypeOK, Capability
<1> QED
  BY <1>1, <1>2, <1>3, <1>4 DEF IInv

\* Refusals and uses, logged or not, change the answer only.
LEMMA AnswerOnly ==
    ASSUME IInv, answer' \in Answers, UseIsLicensed', UNCHANGED <<durable, sealed, origin>>
    PROVE  IInv'
<1>1. TypeOK'
  BY DEF IInv, TypeOK, durable
<1>2. /\ UNCHANGED <<count, sealed, origin>>
      /\ audit \subseteq audit'
      /\ minEpoch' >= minEpoch
  BY DEF durable, IInv, TypeOK
<1> QED
  BY <1>1, <1>2, AuthorityUntouched

LEMMA RefusePreserves ==
    ASSUME IInv, NEW c \in Capability \cup {NoCapability},
           NEW op \in {"mint", "attenuate", "reveal", "declassify", "invoke", "request"},
           NEW error \in {"policy-denied", "permission-widened", "lease-extended",
                          "unauthorized", "below-clearance", "no-declassify-grant",
                          "ambient-denied", "cross-resource", "confused-deputy",
                          "unknown-fields"},
           Refuse(op, c, error)
    PROVE  IInv'
<1>1. answer' \in Answers
  BY DEF Refuse, Answer, Answers
<1>2. UseIsLicensed'
  BY DEF Refuse, Answer, UseIsLicensed
<1> QED
  BY <1>1, <1>2, AnswerOnly DEF Refuse

\* A grant of a sealed capability is one policy allowed when its authority
\* was minted, and the capability acts on the resource it was minted for.
LEMMA SealedIsLicensed ==
    ASSUME IInv, NEW c \in sealed, NEW g \in Grants, Implied(c.grants, g)
    PROVE  /\ Implied(origin[c.id].allowed, g)
           /\ origin[c.id].root.resource = c.resource
<1>1. c \in Capability /\ c.id \in Ids
  BY DEF IInv, TypeOK, Capability
<1>2. origin[c.id] \in Origin
  BY <1>1 DEF IInv, TypeOK, WithinOrigin
<1>3. /\ origin[c.id].allowed \in SUBSET Grants
      /\ c.grants \in SUBSET Grants
  BY <1>1, <1>2 DEF Origin, Capability
<1>4. \A h \in c.grants : Implied(origin[c.id].allowed, h)
  BY DEF IInv, WithinOrigin
<1>5. origin[c.id].root.resource = c.resource
  BY DEF IInv, WithinOrigin
<1> QED
  BY <1>3, <1>4, <1>5, ImpliedTransitive

LEMMA AllowPreserves ==
    ASSUME IInv, NEW c \in sealed, NEW op \in {"reveal", "declassify", "invoke"},
           NEW g \in Grants, NEW r \in Resources, Implied(c.grants, g),
           c.resource = r, Allow(op, c, g, r)
    PROVE  IInv'
<1>1. c \in Capability
  BY DEF IInv, TypeOK
<1>2. answer' \in Answers
  BY <1>1 DEF Allow, Answers
<1>3. UseIsLicensed'
  <2>1. /\ answer'.cap = c /\ answer'.use = <<g, r>>
        /\ sealed' = sealed /\ origin' = origin
    BY DEF Allow
  <2> QED
    BY <2>1, SealedIsLicensed DEF UseIsLicensed
<1> QED
  BY <1>2, <1>3, AnswerOnly DEF Allow

\* Issuing preserves the invariant when the new body is typed, takes the next
\* identifier, and stays within the mint recorded for it.
LEMMA IssuePreserves ==
    ASSUME IInv, NEW op \in {"mint", "attenuate"}, NEW c \in Capability,
           NEW from \in Origin,
           c.id = count + 1, c.epoch <= minEpoch, count < MaxIds,
           from.root \in sealed \cup {c},
           <<c.subject, c.resource, c.operation, c.epoch>>
             = <<from.root.subject, from.root.resource, from.root.operation,
                 from.root.epoch>>,
           c.expiry <= from.root.expiry,
           \A g \in c.grants : Implied(from.root.grants, g) /\ Implied(from.allowed, g),
           Issue(op, c, from)
    PROVE  IInv'
<1>1. /\ sealed' = sealed \cup {c}
      /\ count' = count + 1
      /\ origin' = [origin EXCEPT ![c.id] = from]
      /\ audit' = audit \cup {<<op, c.id>>}
      /\ UNCHANGED <<policy, revoked, minEpoch, now>>
  BY DEF Issue, Log
<1>2. c.id \in Ids /\ count \in Nat
  BY DEF Capability, IInv, TypeOK
<1>3. TypeOK'
  <2>1. answer' \in Answers
    BY DEF Issue, Answer, Answers
  <2>2. audit' \in SUBSET Events
    BY <1>1, <1>2 DEF IInv, TypeOK, Events
  <2>3. origin' \in [Ids -> Origin \cup {NoCapability}]
    BY <1>1, <1>2 DEF IInv, TypeOK
  <2>4. count' \in 0..MaxIds
    BY <1>1, <1>2
  <2> QED
    BY <1>1, <2>1, <2>2, <2>3, <2>4 DEF IInv, TypeOK
<1>4. \A d \in sealed : d \in Capability /\ d.id \in Ids /\ d.id # c.id
  BY <1>2 DEF IInv, TypeOK, UniqueIds, Capability, Ids
<1>5. UniqueIds'
  <2>1. \A d \in sealed' : d.id <= count'
    BY <1>1, <1>2, <1>4 DEF IInv, UniqueIds, Ids
  <2> QED
    BY <1>1, <1>4, <2>1 DEF IInv, UniqueIds
<1>6. WithinOrigin'
  <2>1. /\ origin'[c.id] = from
        /\ \A d \in sealed : origin'[d.id] = origin[d.id]
    BY <1>1, <1>2, <1>4 DEF IInv, TypeOK
  <2>2. from # NoCapability
    BY DEF Origin
  <2> QED
    BY <1>1, <2>1, <2>2 DEF IInv, WithinOrigin
<1>7. IssueIsLogged'
  BY <1>1 DEF IInv, IssueIsLogged
<1>8. EpochsBegun'
  BY <1>1 DEF IInv, EpochsBegun
<1>9. UseIsLicensed'
  BY DEF Issue, Answer, UseIsLicensed
<1> QED
  BY <1>3, <1>5, <1>6, <1>7, <1>8, <1>9 DEF IInv

----------------------------------------------------------------------------
(* The actions preserve the invariant.                                     *)

LEMMA MintPreserves ==
    ASSUME IInv, NEW s \in Subjects, NEW gs \in Policies, NEW r \in Resources,
           NEW o \in Operations, NEW lease \in Leases, Mint(s, gs, r, o, lease)
    PROVE  IInv'
<1> DEFINE c == [id |-> NextId, subject |-> s, grants |-> gs, resource |-> r,
                 operation |-> o, expiry |-> now + lease, epoch |-> minEpoch]
           from == [root |-> c, allowed |-> policy[<<s, r>>]]
<1>1. CASE Refuse("mint", NoCapability, "policy-denied")
  BY <1>1, RefusePreserves
<1>2. CASE /\ gs \subseteq policy[<<s, r>>]
           /\ count < MaxIds
           /\ Issue("mint", c, from)
  <2>1. /\ count + 1 \in Ids /\ minEpoch \in Nat /\ now + lease \in Nat
        /\ gs \in SUBSET Grants /\ policy[<<s, r>>] \in SUBSET Grants
    BY <1>2 DEF IInv, TypeOK, Ids
  <2>2. c \in Capability
    BY <2>1 DEF Capability, NextId
  <2>3. from \in Origin
    BY <2>1, <2>2 DEF Origin
  <2>4. /\ c.id = count + 1 /\ c.epoch <= minEpoch
        /\ from.root = c /\ c.expiry <= from.root.expiry
    BY <2>1 DEF NextId
  <2>5. \A g \in c.grants : Implied(from.root.grants, g) /\ Implied(from.allowed, g)
    BY <1>2, <2>1, HeldIsImplied
  <2> HIDE DEF c, from
  <2> QED
    BY <1>2, <2>2, <2>3, <2>4, <2>5, IssuePreserves
<1> QED
  BY <1>1, <1>2 DEF Mint

LEMMA AttenuatePreserves ==
    ASSUME IInv, NEW c \in Presented, NEW gs \in Policies,
           NEW lease \in Leases \cup {SameLease}, Attenuate(c, gs, lease)
    PROVE  IInv'
<1> DEFINE d == [c EXCEPT !.id = NextId, !.grants = gs,
                          !.expiry = NewExpiry(c, lease)]
<1>1. CASE /\ Answer("attenuate", c, FALSE, "invalid-parent", FALSE)
           /\ UNCHANGED <<durable, sealed, origin>>
  <2>1. answer' \in Answers
    BY <1>1, PresentedTyped DEF Answer, Answers, IInv
  <2>2. UseIsLicensed'
    BY <1>1 DEF Answer, UseIsLicensed
  <2> QED
    BY <1>1, <2>1, <2>2, AnswerOnly
<1>2. CASE \/ Refuse("attenuate", c, "permission-widened")
           \/ Refuse("attenuate", c, "lease-extended")
  BY <1>2, PresentedTyped, RefusePreserves DEF IInv
<1>3. CASE /\ Verify(c) /\ ~Widens(c, gs) /\ ~Extends(c, lease)
           /\ count < MaxIds
           /\ Issue("attenuate", d, origin[c.id])
  <2>1. c \in sealed /\ c \in Capability
    BY <1>3 DEF Verify, IInv, TypeOK
  <2>2. /\ c.id \in Ids /\ c.grants \in SUBSET Grants /\ c.expiry \in Nat
        /\ c.epoch \in Nat
    BY <2>1 DEF Capability
  <2>3. origin[c.id] \in Origin /\ origin[c.id].root \in sealed
    BY <2>1, <2>2 DEF IInv, TypeOK, WithinOrigin
  <2>4. origin[c.id].root.grants \in SUBSET Grants
    BY <2>3 DEF Origin, Capability
  <2>5. NewExpiry(c, lease) \in Nat
    <3>1. now \in Nat /\ c.expiry \in Nat
      BY <2>2 DEF IInv, TypeOK
    <3>2. CASE lease = SameLease
      BY ONLY <3>1, <3>2 DEF NewExpiry
    <3>3. CASE lease # SameLease
      <4>1. lease \in Nat
        BY <3>3 DEF GuardAssumption
      <4>2. now + lease \in Nat
        BY ONLY <3>1, <4>1
      <4>3. QED
        BY ONLY <3>3, <4>2 DEF NewExpiry
    <3>4. QED
      BY <3>2, <3>3
  <2>6. count + 1 \in Ids /\ gs \in SUBSET Grants
    BY <1>3 DEF IInv, TypeOK, Ids
  <2>7. d \in Capability
    BY <2>1, <2>5, <2>6 DEF Capability, NextId
  <2>8. /\ d.id = count + 1 /\ d.grants = gs /\ d.expiry = NewExpiry(c, lease)
        /\ d.subject = c.subject /\ d.resource = c.resource
        /\ d.operation = c.operation /\ d.epoch = c.epoch
    BY <2>1 DEF Capability, NextId
  <2>9. \A g \in gs : /\ Implied(origin[c.id].root.grants, g)
                      /\ Implied(origin[c.id].allowed, g)
    <3> SUFFICES ASSUME NEW g \in gs
                 PROVE  /\ Implied(origin[c.id].root.grants, g)
                        /\ Implied(origin[c.id].allowed, g)
      OBVIOUS
    <3>1. g \in Grants /\ Implied(c.grants, g)
      BY <1>3, <2>6 DEF Widens
    <3>2. \A h \in c.grants : Implied(origin[c.id].root.grants, h)
      BY <2>1 DEF IInv, WithinOrigin
    <3>3. Implied(origin[c.id].root.grants, g)
      BY <2>2, <2>4, <3>1, <3>2, ImpliedTransitive
    <3> QED
      BY <2>1, <3>1, <3>3, SealedIsLicensed
  <2>10. /\ d.epoch <= minEpoch
         /\ d.expiry <= origin[c.id].root.expiry
         /\ <<d.subject, d.resource, d.operation, d.epoch>>
              = <<origin[c.id].root.subject, origin[c.id].root.resource,
                  origin[c.id].root.operation, origin[c.id].root.epoch>>
    <3>1. /\ c.epoch <= minEpoch
          /\ c.expiry <= origin[c.id].root.expiry
          /\ <<c.subject, c.resource, c.operation, c.epoch>>
              = <<origin[c.id].root.subject, origin[c.id].root.resource,
                  origin[c.id].root.operation, origin[c.id].root.epoch>>
      BY <2>1 DEF IInv, WithinOrigin, EpochsBegun
    <3>2. origin[c.id].root.expiry \in Nat
      BY <2>3 DEF Origin, Capability
    <3>3. d.expiry <= origin[c.id].root.expiry
      BY <1>3, <2>2, <2>5, <2>8, <3>1, <3>2 DEF Extends
    <3> QED
      BY <2>8, <3>1, <3>3
  <2> HIDE DEF d
  <2> QED
    BY <1>3, <2>3, <2>7, <2>8, <2>9, <2>10, IssuePreserves
<1> QED
  BY <1>1, <1>2, <1>3 DEF Attenuate

LEMMA UsePreserves ==
    ASSUME IInv, NEW c \in Presented, NEW r \in Resources,
           \/ \E label \in Levels : Reveal(c, label, r)
           \/ Declassify(c, r)
           \/ \E tool \in Tools, o \in Operations : Invoke(c, tool, r, o)
    PROVE  IInv'
<1>1. Covers(c, r) => c \in sealed /\ c.resource = r
  BY DEF Covers, Verify
<1>2. c \in Capability \cup {NoCapability}
  BY PresentedTyped DEF IInv
<1>3. ASSUME NEW label \in Levels, Reveal(c, label, r)
      PROVE  IInv'
  <2>1. <<"read", label>> \in Grants
    BY DEF Grants, Reads
  <2>2. CASE Refuse("reveal", c, "unauthorized") \/ Refuse("reveal", c, "below-clearance")
    BY <1>2, <2>2, RefusePreserves
  <2>3. CASE /\ Covers(c, r) /\ MayRead(c, label)
             /\ Allow("reveal", c, <<"read", label>>, r)
    BY <1>1, <2>1, <2>3, AllowPreserves DEF MayRead
  <2> QED
    BY <1>3, <2>2, <2>3 DEF Reveal
<1>4. ASSUME Declassify(c, r)
      PROVE  IInv'
  <2>1. CASE /\ Answer("declassify", c, FALSE, "unauthorized", FALSE)
             /\ UNCHANGED <<durable, sealed, origin>>
    <3>1. answer' \in Answers
      BY <1>2, <2>1 DEF Answer, Answers
    <3>2. UseIsLicensed'
      BY <2>1 DEF Answer, UseIsLicensed
    <3> QED
      BY <2>1, <3>1, <3>2, AnswerOnly
  <2>2. CASE Refuse("declassify", c, "no-declassify-grant")
    BY <1>2, <2>2, RefusePreserves
  <2>3. CASE /\ Covers(c, r) /\ <<"declassify">> \in c.grants
             /\ Allow("declassify", c, <<"declassify">>, r)
    BY <1>1, <2>3, AllowPreserves, HeldIsImplied DEF Grants
  <2> QED
    BY <1>4, <2>1, <2>2, <2>3 DEF Declassify
<1>5. ASSUME NEW tool \in Tools, NEW o \in Operations, Invoke(c, tool, r, o)
      PROVE  IInv'
  <2>1. CASE \/ Refuse("invoke", c, "ambient-denied")
             \/ Refuse("invoke", c, "cross-resource")
             \/ Refuse("invoke", c, "confused-deputy")
    BY <1>2, <2>1, RefusePreserves
  <2>2. CASE /\ Covers(c, r) /\ <<"tool", tool>> \in c.grants
             /\ Allow("invoke", c, <<"tool", tool>>, r)
    BY <1>1, <2>2, AllowPreserves, HeldIsImplied DEF Grants
  <2> QED
    BY <1>5, <2>1, <2>2 DEF Invoke
<1> QED
  BY <1>3, <1>4, <1>5

LEMMA AdministerPreserves ==
    ASSUME IInv, Administer
    PROVE  IInv'
<1>1. ASSUME NEW s \in Subjects, NEW r \in Resources, NEW gs \in Policies,
             GrantPolicy(s, r, gs)
      PROVE  IInv'
  <2>1. TypeOK'
    BY <1>1 DEF IInv, TypeOK, GrantPolicy
  <2> QED
    BY <1>1, <2>1, AuthorityUntouched DEF GrantPolicy, IInv, TypeOK, UseIsLicensed
<1>2. ASSUME Tick PROVE IInv'
  <2>1. TypeOK'
    BY <1>2 DEF IInv, TypeOK, Tick
  <2> QED
    BY <1>2, <2>1, AuthorityUntouched DEF Tick, IInv, TypeOK, UseIsLicensed
<1>3. ASSUME NEW i \in Ids, Revoke(i) PROVE IInv'
  <2>1. TypeOK'
    BY <1>3 DEF IInv, TypeOK, Revoke, Log, Events
  <2> QED
    BY <1>3, <2>1, AuthorityUntouched DEF Revoke, Log, IInv, TypeOK, UseIsLicensed
<1>4. ASSUME RevokeAll PROVE IInv'
  <2>1. TypeOK'
    BY <1>4 DEF IInv, TypeOK, RevokeAll, Log, Events
  <2> QED
    BY <1>4, <2>1, AuthorityUntouched DEF RevokeAll, Log, IInv, TypeOK, UseIsLicensed
<1>5. ASSUME Restart PROVE IInv'
  <2>1. UNCHANGED <<durable, sealed, origin>> /\ answer' = [op |-> "restart"]
    BY <1>5 DEF Restart, Restarted, durable
  <2>2. answer' \in Answers
    BY <2>1 DEF Answers
  <2>3. UseIsLicensed'
    BY <2>1 DEF UseIsLicensed
  <2> QED
    BY <2>1, <2>2, <2>3, AnswerOnly
<1> QED
  BY <1>1, <1>2, <1>3, <1>4, <1>5 DEF Administer

LEMMA StepInvariant ==
    ASSUME IInv, [Next]_vars
    PROVE  IInv'
<1>1. CASE Administer
  BY <1>1, AdministerPreserves
<1>2. CASE Derive
  <2>1. CASE RequestUnknownFields
    BY <2>1, RefusePreserves DEF RequestUnknownFields
  <2> QED
    BY <1>2, <2>1, MintPreserves, AttenuatePreserves DEF Derive
<1>3. CASE Use
  BY <1>3, UsePreserves DEF Use
<1>4. CASE UNCHANGED vars
  BY <1>4 DEF vars, durable, IInv, TypeOK, UniqueIds, WithinOrigin,
              IssueIsLogged, UseIsLicensed, EpochsBegun
<1> QED
  BY <1>1, <1>2, <1>3, <1>4 DEF Next

\* The inductive invariant holds of every reachable state of the guard.
THEOREM InvariantHolds == Spec => []IInv
<1>1. Init => IInv
  <2> SUFFICES ASSUME Init PROVE IInv
    OBVIOUS
  <2>1. answer \in Answers /\ UseIsLicensed
    BY DEF Init, Answers, UseIsLicensed
  <2>2. policy \in [Subjects \X Resources -> SUBSET Grants]
    BY DEF Init
  <2>3. TypeOK
    BY <2>1, <2>2 DEF Init, TypeOK
  <2> QED
    BY <2>1, <2>3 DEF Init, IInv, UniqueIds, WithinOrigin, IssueIsLogged, EpochsBegun
<1>2. IInv /\ [Next]_vars => IInv'
  BY StepInvariant
<1> QED
  BY <1>1, <1>2, PTL DEF Spec

----------------------------------------------------------------------------
(* What the guard promises.                                                *)

\* The guard's tables, counters and answers keep their types.
THEOREM TypeCorrect == Spec => []TypeOK
BY InvariantHolds, PTL DEF IInv

\* An identifier names one capability for good, restarts included (_next_id).
THEOREM IdentifiersUnique == Spec => []UniqueIds
BY InvariantHolds, PTL DEF IInv

\* Authority never exceeds, nor outlasts, the mint it descends from, whatever
\* the number of attenuations in between (attenuate).
THEOREM AuthorityOnlyNarrows == Spec => []WithinOrigin
BY InvariantHolds, PTL DEF IInv

\* Every use that is let through exercises a grant that policy allowed, on the
\* resource it was allowed for (reveal, declassify, invoke).
THEOREM UsesAreLicensed == Spec => []UseIsLicensed
BY InvariantHolds, PTL DEF IInv

\* The log of issued authority is complete (_audit in mint and attenuate).
THEOREM IssuesAreLogged == Spec => []IssueIsLogged
BY InvariantHolds, PTL DEF IInv

\* When a mint stops authorizing other than by its own identifier, everything
\* attenuated from it stops too (verify).
THEOREM DescendantsFall == Spec => []DescendantFallsWithMint
<1>1. IInv => DescendantFallsWithMint
  <2> SUFFICES ASSUME IInv, NEW c \in sealed, Verify(c),
                      origin[c.id].root.id \notin revoked
               PROVE  Verify(origin[c.id].root)
    BY DEF DescendantFallsWithMint
  <2> DEFINE root == origin[c.id].root
  <2>1. /\ root \in sealed /\ c.epoch = root.epoch /\ c.expiry <= root.expiry
    BY DEF IInv, WithinOrigin
  <2>2. /\ root \in Capability /\ root # NoCapability
        /\ root.expiry \in Nat /\ c.expiry \in Nat /\ now \in Nat
    BY <2>1 DEF IInv, TypeOK, Capability
  <2>3. now < root.expiry
    BY <2>1, <2>2 DEF Verify
  <2> QED
    BY <2>1, <2>2, <2>3 DEF Verify
<1> QED
  BY <1>1, InvariantHolds, PTL

\* What verify reads only moves one way: revocations and sealed bodies grow,
\* the clock and the epoch rise.
LEMMA AuthorityMonotone ==
    ASSUME IInv, [Next]_vars
    PROVE  /\ revoked \subseteq revoked' /\ sealed \subseteq sealed'
           /\ now <= now' /\ minEpoch' \in {minEpoch, minEpoch + 1}
<1> DEFINE Still == UNCHANGED <<revoked, minEpoch, now>> /\ sealed \subseteq sealed'
<1>1. now \in Nat /\ minEpoch \in Nat
  BY DEF IInv, TypeOK
<1>2. ASSUME Still
      PROVE  /\ revoked \subseteq revoked' /\ sealed \subseteq sealed'
             /\ now <= now' /\ minEpoch' \in {minEpoch, minEpoch + 1}
  BY <1>1, <1>2
<1>3. CASE Administer
  <2>1. CASE Restart
    BY <1>2, <2>1 DEF Restart, Restarted
  <2>2. CASE \E s \in Subjects, r \in Resources, gs \in Policies : GrantPolicy(s, r, gs)
    BY <1>2, <2>2 DEF GrantPolicy
  <2>3. CASE Tick
    BY <1>1, <2>3 DEF Tick
  <2>4. CASE (\E i \in Ids : Revoke(i)) \/ RevokeAll
    BY <1>1, <2>4 DEF Revoke, RevokeAll
  <2> QED
    BY <1>3, <2>1, <2>2, <2>3, <2>4 DEF Administer
<1>4. \A op, c, from : Issue(op, c, from) => Still
  BY DEF Issue
<1>5. UNCHANGED <<durable, sealed, origin>> => Still
  BY DEF durable
<1>6. CASE Derive
  <2>1. CASE \E s \in Subjects, gs \in Policies, r \in Resources, o \in Operations,
                lease \in Leases : Mint(s, gs, r, o, lease)
    <3>1. PICK s \in Subjects, gs \in Policies, r \in Resources, o \in Operations,
                 lease \in Leases : Mint(s, gs, r, o, lease)
      BY <2>1
    <3>2. \/ UNCHANGED <<durable, sealed, origin>>
          \/ \E new, from : Issue("mint", new, from)
      BY <3>1 DEF Mint, Refuse
    <3>3. Still
      BY <1>4, <1>5, <3>2
    <3> QED
      BY <1>2, <3>3
  <2>2. CASE \E c \in Presented, gs \in Policies, lease \in Leases \cup {SameLease} :
                Attenuate(c, gs, lease)
    <3>1. PICK c \in Presented, gs \in Policies, lease \in Leases \cup {SameLease} :
                 Attenuate(c, gs, lease)
      BY <2>2
    <3>2. \/ UNCHANGED <<durable, sealed, origin>>
          \/ \E new, from : Issue("attenuate", new, from)
      BY <3>1 DEF Attenuate, Refuse
    <3>3. Still
      BY <1>4, <1>5, <3>2
    <3> QED
      BY <1>2, <3>3
  <2>3. CASE RequestUnknownFields
    BY <1>2, <1>5, <2>3 DEF RequestUnknownFields, Refuse
  <2> QED
    BY <1>6, <2>1, <2>2, <2>3 DEF Derive
<1>7. CASE Use
  <2>1. PICK c \in Presented, r \in Resources :
             \/ \E label \in Levels : Reveal(c, label, r)
             \/ Declassify(c, r)
             \/ \E tool \in Tools, o \in Operations : Invoke(c, tool, r, o)
    BY <1>7 DEF Use
  <2>2. CASE \E label \in Levels : Reveal(c, label, r)
    BY <2>2, <1>2, <1>5 DEF Reveal, Refuse, Allow
  <2>3. CASE Declassify(c, r)
    BY <2>3, <1>2, <1>5 DEF Declassify, Refuse, Allow
  <2>4. CASE \E tool \in Tools, o \in Operations : Invoke(c, tool, r, o)
    BY <2>4, <1>2, <1>5 DEF Invoke, Refuse, Allow
  <2> QED
    BY <2>1, <2>2, <2>3, <2>4
<1>8. CASE UNCHANGED vars
  BY <1>2, <1>8 DEF vars, durable
<1> QED
  BY <1>3, <1>6, <1>7, <1>8 DEF Next

\* A capability that stopped authorizing never authorizes again (verify,
\* revoke, tick, restart).
THEOREM DeadStayDead == Spec => DeadStaysDead
<1>1. ASSUME IInv, [Next]_vars, NEW c \in sealed, ~Verify(c)
      PROVE  ~Verify(c)'
  <2>1. /\ c \in Capability /\ c # NoCapability
        /\ c.expiry \in Nat /\ c.epoch \in Nat
        /\ now \in Nat /\ minEpoch \in Nat /\ now' \in Nat
    BY <1>1, StepInvariant DEF IInv, TypeOK, Capability
  <2>2. c.id \in revoked \/ ~(c.epoch >= minEpoch) \/ ~(now < c.expiry)
    BY <1>1, <2>1 DEF Verify
  <2>3. /\ revoked \subseteq revoked'
        /\ now <= now' /\ minEpoch' \in {minEpoch, minEpoch + 1}
    BY <1>1, AuthorityMonotone
  <2>4. c.id \in revoked' \/ ~(c.epoch >= minEpoch') \/ ~(now' < c.expiry)
    BY <2>1, <2>2, <2>3
  <2> QED
    BY <2>4 DEF Verify
<1>2. IInv /\ [Next]_vars => [\A c \in sealed : ~Verify(c) => ~Verify(c)']_vars
  BY <1>1
<1> QED
  BY <1>2, InvariantHolds, PTL DEF Spec, DeadStaysDead

\* revoke_all stops every capability issued so far, attenuated or not.
THEOREM RevokeAllReachesAll == Spec => RevokeAllIsTotal
<1>1. ASSUME IInv, [Next]_vars, minEpoch' # minEpoch, NEW c \in sealed
      PROVE  ~Verify(c)'
  <2>1. /\ c.epoch \in Nat /\ minEpoch \in Nat /\ c.epoch <= minEpoch
    BY <1>1 DEF IInv, TypeOK, Capability, EpochsBegun
  <2>2. minEpoch' = minEpoch + 1
    BY <1>1, AuthorityMonotone
  <2>3. ~(c.epoch >= minEpoch')
    BY <2>1, <2>2
  <2> QED
    BY <2>3 DEF Verify
<1>2. IInv /\ [Next]_vars
      => [minEpoch' # minEpoch => \A c \in sealed : ~Verify(c)']_vars
  BY <1>1
<1> QED
  BY <1>2, InvariantHolds, PTL DEF Spec, RevokeAllIsTotal
============================================================================
