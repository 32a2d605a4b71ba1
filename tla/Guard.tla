------------------------------- MODULE Guard -------------------------------
(***************************************************************************)
(* The capability guard of capability_adversarial/backend.py: policy,      *)
(* minting, attenuation, revocation by id and by epoch, lease expiry on a  *)
(* logical clock, the guarded operations, the wire request and restart.    *)
(*                                                                         *)
(* Data.  A seal is a keyed digest of the whole body, so a capability      *)
(* carries a valid seal exactly when its body is one the engine sealed:    *)
(* "sealed" is the set of those bodies.  A grant is <<"read", level>>,     *)
(* <<"tool", name>> or <<"declassify">>.  Of the audit log, "audit" keeps   *)
(* the events that record a change of authority; the event of a refusal or *)
(* of a use is the field "audited" of its answer.                          *)
(***************************************************************************)
EXTENDS Naturals, FiniteSets

CONSTANTS
    Subjects, Resources, Operations, Tools,
    Levels,             \* LEVELS, in order
    Leases,             \* the lease lengths callers ask for
    Policies,           \* the grant sets the administrator may install
    MaxIds, MaxTime, MaxEpoch,  \* bounds of _n, now and min_epoch
    NoCapability,
    SameLease           \* attenuate's lease is None

Reads  == {"read"} \X Levels
Grants == Reads \cup ({"tool"} \X Tools) \cup {<<"declassify">>}
Ids    == 1..MaxIds

Capability == [id: Ids, subject: Subjects, grants: SUBSET Grants,
               resource: Resources, operation: Operations, expiry: Nat,
               epoch: Nat]

\* Where an identifier's authority comes from: its mint, and what policy
\* allowed then.
Origin == [root: Capability, allowed: SUBSET Grants]

ASSUME GuardAssumption ==
    /\ Levels \subseteq Nat
    /\ Leases \subseteq Nat
    /\ Policies \subseteq SUBSET Grants
    /\ MaxIds \in Nat /\ MaxTime \in Nat /\ MaxEpoch \in Nat
    /\ NoCapability \notin Capability \cup Origin
    /\ SameLease \notin Leases

VARIABLES
    policy,     \* self.policy
    revoked,    \* self.revoked
    minEpoch,   \* self.min_epoch
    now,        \* self.now
    audit,      \* self.audit
    count,      \* self._n
    sealed,     \* every body the engine has sealed
    answer,     \* the last decision: what was asked, with which capability
    origin      \* history: for an id, the mint it descends from and the grants
                \* policy allowed then

durable == <<policy, revoked, minEpoch, now, audit, count>>
vars == <<durable, sealed, answer, origin>>

----------------------------------------------------------------------------
(* Verification                                                            *)

\* What _grant_implied and _read_ceiling say of a grant: a read is implied by
\* a read at its level or above, anything else must be held outright.
Implied(held, g) ==
    \/ g \in held
    \/ \E l, k \in Levels : g = <<"read", l>> /\ l <= k /\ <<"read", k>> \in held

MayRead(c, label) == Implied(c.grants, <<"read", label>>)

\* Mutant: the epoch a capability was minted in is not looked at.
Verify_NoEpoch(c) ==
    c # NoCapability /\ c \in sealed /\ c.id \notin revoked /\ now < c.expiry

Verify(c) ==
    /\ c # NoCapability
    /\ c \in sealed
    /\ c.id \notin revoked
    /\ c.epoch >= minEpoch
    /\ now < c.expiry

\* What callers present: nothing, a capability they were given, or one of
\* those with its grants rewritten, whose seal then does not match.
Presented == {NoCapability} \cup sealed
    \cup {[c EXCEPT !.grants = g] : c \in sealed, g \in Policies}

Answer(op, c, ok, error, audited) ==
    answer' = [op |-> op, cap |-> c, ok |-> ok, error |-> error,
               audited |-> audited, use |-> <<>>]

Log(kind, key) == audit' = audit \cup {<<kind, key>>}

\* A refusal that is logged, and changes nothing else.
Refuse(op, c, error) ==
    /\ Answer(op, c, FALSE, error, TRUE)
    /\ UNCHANGED <<durable, sealed, origin>>

----------------------------------------------------------------------------
(* Policy, clock                                                           *)

GrantPolicy(s, r, gs) ==
    /\ policy' = [policy EXCEPT ![<<s, r>>] = gs]
    /\ UNCHANGED <<revoked, minEpoch, now, audit, count, sealed, answer, origin>>

Tick ==
    /\ now < MaxTime
    /\ now' = now + 1
    /\ UNCHANGED <<policy, revoked, minEpoch, audit, count, sealed, answer, origin>>

----------------------------------------------------------------------------
(* Minting and attenuation                                                 *)

Issue(op, c, from) ==
    /\ sealed' = sealed \cup {c}
    /\ count' = count + 1
    /\ origin' = [origin EXCEPT ![c.id] = from]
    /\ Log(op, c.id)
    /\ Answer(op, c, TRUE, "", TRUE)
    /\ UNCHANGED <<policy, revoked, minEpoch, now>>

\* Mutant: the counter is read before it is incremented.
NextId_PostIncrement == count

NextId == count + 1

Mint(s, gs, r, o, lease) ==
    \/ /\ ~(gs \subseteq policy[<<s, r>>])
       /\ Refuse("mint", NoCapability, "policy-denied")
    \/ LET c == [id |-> NextId, subject |-> s, grants |-> gs, resource |-> r,
                 operation |-> o, expiry |-> now + lease, epoch |-> minEpoch]
       IN /\ gs \subseteq policy[<<s, r>>]
          /\ count < MaxIds
          /\ Issue("mint", c, [root |-> c, allowed |-> policy[<<s, r>>]])

\* Mutant: only grants of the same name are compared, so a higher read passes.
Widens_NameOnly(c, gs) ==
    \E g \in gs : ~\E h \in c.grants : h[1] = g[1]

Widens(c, gs) == \E g \in gs : ~Implied(c.grants, g)

NewExpiry(c, lease) == IF lease = SameLease THEN c.expiry ELSE now + lease

\* Mutant: the length of the new lease is compared with the time the parent ends.
Extends_Length(c, lease) == lease # SameLease /\ lease > c.expiry

Extends(c, lease) == NewExpiry(c, lease) > c.expiry

Attenuate(c, gs, lease) ==
    \/ /\ ~Verify(c)
       /\ Answer("attenuate", c, FALSE, "invalid-parent", FALSE)
       /\ UNCHANGED <<durable, sealed, origin>>
    \/ /\ Verify(c) /\ Widens(c, gs)
       /\ Refuse("attenuate", c, "permission-widened")
    \/ /\ Verify(c) /\ ~Widens(c, gs) /\ Extends(c, lease)
       /\ Refuse("attenuate", c, "lease-extended")
    \/ /\ Verify(c) /\ ~Widens(c, gs) /\ ~Extends(c, lease)
       /\ count < MaxIds
       /\ Issue("attenuate",
                [c EXCEPT !.id = NextId, !.grants = gs,
                          !.expiry = NewExpiry(c, lease)],
                origin[c.id])

----------------------------------------------------------------------------
(* Revocation                                                              *)

\* Any identifier may be named, also one that is not issued yet.
Revoke(i) ==
    /\ revoked' = revoked \cup {i}
    /\ Log("revoke", i)
    /\ UNCHANGED <<policy, minEpoch, now, count, sealed, answer, origin>>

RevokeAll ==
    /\ minEpoch < MaxEpoch
    /\ minEpoch' = minEpoch + 1
    /\ Log("revoke-all", minEpoch + 1)
    /\ UNCHANGED <<policy, revoked, now, count, sealed, answer, origin>>

----------------------------------------------------------------------------
(* Guarded operations                                                      *)

\* The capability is used: the grant it takes and the resource it acts on.
Allow(op, c, g, r) ==
    /\ answer' = [op |-> op, cap |-> c, ok |-> TRUE, error |-> "",
                  audited |-> TRUE, use |-> <<g, r>>]
    /\ UNCHANGED <<durable, sealed, origin>>

\* Mutant: the capability is not tied to one resource.
Covers_AnyResource(c, r) == Verify(c)

\* A value is its label and the resource it belongs to.
Covers(c, r) == Verify(c) /\ c.resource = r

Reveal(c, label, r) ==
    \/ /\ ~Covers(c, r)
       /\ Refuse("reveal", c, "unauthorized")
    \/ /\ Covers(c, r) /\ ~MayRead(c, label)
       /\ Refuse("reveal", c, "below-clearance")
    \/ /\ Covers(c, r) /\ MayRead(c, label)
       /\ Allow("reveal", c, <<"read", label>>, r)

Declassify(c, r) ==
    \/ /\ ~Covers(c, r)
       /\ Answer("declassify", c, FALSE, "unauthorized", FALSE)
       /\ UNCHANGED <<durable, sealed, origin>>
    \/ /\ Covers(c, r) /\ <<"declassify">> \notin c.grants
       /\ Refuse("declassify", c, "no-declassify-grant")
    \/ /\ Covers(c, r) /\ <<"declassify">> \in c.grants
       /\ Allow("declassify", c, <<"declassify">>, r)

Invoke(c, tool, r, o) ==
    LET Fits == <<"tool", tool>> \in c.grants /\ c.operation = o
    IN \/ /\ ~Verify(c)
          /\ Refuse("invoke", c, "ambient-denied")
       \/ /\ Verify(c) /\ c.resource # r
          /\ Refuse("invoke", c, "cross-resource")
       \/ /\ Covers(c, r) /\ ~Fits
          /\ Refuse("invoke", c, "confused-deputy")
       \/ /\ Covers(c, r) /\ Fits
          /\ Allow("invoke", c, <<"tool", tool>>, r)

\* A wire request with a field outside the known set; a request without one is
\* a Mint with the fields it carries.
RequestUnknownFields ==
    Refuse("request", NoCapability, "unknown-fields")

----------------------------------------------------------------------------
(* Restart copies every table and counter.                                 *)

\* Mutants: a new process without the revocations; with a clock at zero; with
\* an identifier counter at zero; with an empty log.
Restarted_NoRevocations(old) == [old EXCEPT !.revoked = {}]
Restarted_ClockAtZero(old)   == [old EXCEPT !.now = 0]
Restarted_CountAtZero(old)   == [old EXCEPT !.count = 0]
Restarted_EmptyLog(old)      == [old EXCEPT !.audit = {}]

Restarted(old) ==
    [policy |-> old.policy, revoked |-> old.revoked, minEpoch |-> old.minEpoch,
     now |-> old.now, audit |-> old.audit, count |-> old.count]

Restart ==
    LET new == Restarted([policy |-> policy, revoked |-> revoked,
                          minEpoch |-> minEpoch, now |-> now, audit |-> audit,
                          count |-> count])
    IN /\ policy' = new.policy
       /\ revoked' = new.revoked
       /\ minEpoch' = new.minEpoch
       /\ now' = new.now
       /\ audit' = new.audit
       /\ count' = new.count
       /\ answer' = [op |-> "restart"]
       /\ UNCHANGED <<sealed, origin>>

----------------------------------------------------------------------------
Init ==
    /\ policy = [place \in Subjects \X Resources |-> {}]
    /\ revoked = {}
    /\ minEpoch = 0
    /\ now = 0
    /\ audit = {}
    /\ count = 0
    /\ sealed = {}
    /\ answer = [op |-> "restart"]
    /\ origin = [i \in Ids |-> NoCapability]

Administer ==
    \/ \E s \in Subjects, r \in Resources, gs \in Policies : GrantPolicy(s, r, gs)
    \/ Tick
    \/ \E i \in Ids : Revoke(i)
    \/ RevokeAll
    \/ Restart

Derive ==
    \/ \E s \in Subjects, gs \in Policies, r \in Resources, o \in Operations,
          lease \in Leases : Mint(s, gs, r, o, lease)
    \/ \E c \in Presented, gs \in Policies, lease \in Leases \cup {SameLease} :
          Attenuate(c, gs, lease)
    \/ RequestUnknownFields

Use ==
    \E c \in Presented, r \in Resources :
        \/ \E label \in Levels : Reveal(c, label, r)
        \/ Declassify(c, r)
        \/ \E tool \in Tools, o \in Operations : Invoke(c, tool, r, o)

Next == Administer \/ Derive \/ Use

Spec == Init /\ [][Next]_vars

----------------------------------------------------------------------------
(* Properties                                                              *)

Answers ==
    [op: {"restart"}]
    \cup [op: {"mint", "attenuate", "reveal", "declassify", "invoke", "request"},
          cap: Capability \cup {NoCapability}, ok: BOOLEAN,
          error: {"", "policy-denied", "invalid-parent", "permission-widened",
                  "lease-extended", "unauthorized", "below-clearance",
                  "no-declassify-grant", "ambient-denied", "cross-resource",
                  "confused-deputy", "unknown-fields"},
          audited: BOOLEAN, use: {<<>>} \cup (Grants \X Resources)]

Events == ({"mint", "attenuate", "revoke"} \X Ids)
          \cup ({"revoke-all"} \X Nat)

\* The guard's tables, counters and answers keep their types.
TypeOK ==
    /\ policy \in [Subjects \X Resources -> SUBSET Grants]
    /\ revoked \in SUBSET Ids
    /\ minEpoch \in Nat /\ now \in Nat
    /\ audit \in SUBSET Events
    /\ count \in 0..MaxIds
    /\ sealed \in SUBSET Capability
    /\ answer \in Answers
    /\ origin \in [Ids -> Origin \cup {NoCapability}]

\* An identifier names one capability for good, across restarts, so that a
\* revocation by id takes exactly the capability it was meant for (_next_id).
UniqueIds ==
    /\ \A c \in sealed : c.id <= count
    /\ \A c, d \in sealed : c.id = d.id => c = d

\* However often it is attenuated, a capability keeps the subject, resource,
\* operation and epoch of the mint it descends from, grants nothing that mint
\* did not imply and policy did not allow then, and ends no later.
WithinOrigin ==
    \A c \in sealed :
        /\ origin[c.id] # NoCapability
        /\ LET root == origin[c.id].root
           IN /\ root \in sealed
              /\ <<c.subject, c.resource, c.operation, c.epoch>>
                    = <<root.subject, root.resource, root.operation, root.epoch>>
              /\ c.expiry <= root.expiry
              /\ \A g \in c.grants :
                    Implied(root.grants, g) /\ Implied(origin[c.id].allowed, g)

\* A descendant stops with the mint it comes from: while it is valid its mint
\* is, unless the mint was revoked by its own identifier, which attenuated
\* capabilities survive.
DescendantFallsWithMint ==
    \A c \in sealed :
        LET root == origin[c.id].root
        IN Verify(c) => Verify(root) \/ root.id \in revoked

\* A use that was let through exercised a grant that policy allowed when the
\* authority was minted, on the very resource it was minted for (reveal,
\* declassify, invoke, attenuate, mint).
UseIsLicensed ==
    (answer.op \in {"reveal", "declassify", "invoke"} /\ answer.ok) =>
        /\ answer.cap \in sealed
        /\ LET o == origin[answer.cap.id]
           IN /\ Implied(o.allowed, answer.use[1])
              /\ o.root.resource = answer.use[2]

\* The log of issued authority is complete and durable: every capability that
\* exists was recorded by the event of its mint or attenuation.
IssueIsLogged ==
    \A c \in sealed : <<"mint", c.id>> \in audit \/ <<"attenuate", c.id>> \in audit

\* A capability that stopped authorizing never authorizes again: not by later
\* policy, by the clock, by another revocation or by a restart.
DeadStaysDead == [][ \A c \in sealed : ~Verify(c) => ~Verify(c)' ]_vars

\* revoke_all stops everything issued so far, attenuated or not.
RevokeAllIsTotal ==
    [][ minEpoch' # minEpoch => \A c \in sealed : ~Verify(c)' ]_vars

\* The module's header says that every authorization decision emits a durable
\* audit event; attenuating an invalid parent and declassifying without
\* authority return without one.
EveryDecisionAudited == answer.op # "restart" => answer.audited
============================================================================
