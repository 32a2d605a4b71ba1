----------------------------- MODULE AuthVault -----------------------------
(***************************************************************************)
(* AuthenticatedBackend of adversarial_cognition/backend_v2.py over the    *)
(* registry of identity.py.  Every operation presents a did and a          *)
(* credential; authorization attributes come from the registry record, and *)
(* a request that fails authentication never reaches the vault.            *)
(*                                                                         *)
(* Data.  The credential of a did is a keyed digest of it, injective, so   *)
(* it is named by the did itself; Forged is a string that is nobody's.     *)
(***************************************************************************)
EXTENDS Vault

CONSTANTS
    Records,    \* the identity records that may be registered
    Principals, \* the records registered by __init__, one for a did
    NoRecord,   \* self._records.get(did) is None
    Forged

Credentials == Dids \cup {Forged}

\* An IdentityRecord and the Actor built from it have the same attributes.
ASSUME AuthAssumption ==
    /\ Records \subseteq Actors
    /\ NoRecord \notin Actors
    /\ Forged \notin Dids
    /\ Principals \in [Dids -> Records \cup {NoRecord}]
    /\ \A d \in Dids : Principals[d] # NoRecord => Principals[d].did = d

VARIABLES
    records,    \* IdentityRegistry._records
    access      \* whether the last request was authenticated

authVars == <<vars, records, access>>

Credential(did) == did

Authenticates(did, cred) ==
    /\ records[did] # NoRecord
    /\ cred = Credential(did)

\* Mutant: the actor is built with the attributes of some other record.
SessionActor_AnyRecord(did) ==
    CHOOSE r \in Records : \A s \in Records : r.clearance >= s.clearance

SessionActor(did) == records[did]

\* Mutant: the record of one did is stored under every did of its scope.
Register_SharedSlot(r) ==
    /\ records' = [d \in Dids |-> IF records[d] # NoRecord THEN r ELSE NoRecord]
    /\ access' = "none"
    /\ UNCHANGED vars

\* Registering again replaces the attributes; the credential stays the same.
Register(r) ==
    /\ records' = [records EXCEPT ![r.did] = r]
    /\ access' = "none"
    /\ UNCHANGED vars

\* Mutant: the nonce is spent before the credential is looked at.
Reject_SpendsNonce(did, cred) ==
    /\ ~Authenticates(did, cred)
    /\ access' = "authentication-denied"
    /\ \E n \in Nonces : nonces' = nonces \cup {<<did, n>>}
    /\ UNCHANGED <<memories, idempotency, answer, history, records>>

Reject(did, cred) ==
    /\ ~Authenticates(did, cred)
    /\ access' = "authentication-denied"
    /\ UNCHANGED <<vars, records>>

Serve(did, cred) ==
    /\ Authenticates(did, cred)
    /\ access' = "served"
    /\ \E n \in Nonces : Request(SessionActor(did), n)
    /\ UNCHANGED records

\* Registrations and credentials survive; the core restarts.
AuthRestart == Restart /\ access' = "none" /\ UNCHANGED records

AuthInit ==
    /\ Init
    /\ records = Principals
    /\ access = "none"

AuthNext ==
    \/ \E r \in Records : Register(r)
    \/ \E did \in Dids, cred \in Credentials :
          Reject(did, cred) \/ Serve(did, cred)
    \/ AuthRestart

AuthSpec == AuthInit /\ [][AuthNext]_authVars

----------------------------------------------------------------------------
(* Properties                                                              *)

\* The registry holds records under their own did and nothing else, so that a
\* did never acts with the attributes registered for another.
AuthTypeOK ==
    /\ records \in [Dids -> Records \cup {NoRecord}]
    /\ access \in {"none", "served", "authentication-denied"}
    /\ \A d \in Dids : records[d] # NoRecord => records[d].did = d

\* Behind authentication the vault is still the vault: every step of it is a
\* step of the core serving a registered caller, or leaves it as it was.
CoreSpec == Spec

\* A refused credential costs its owner nothing: no nonce is spent and nothing
\* is stored, so the same request succeeds with the right credential.
DenialIsFree ==
    [][ access' = "authentication-denied" => UNCHANGED store ]_authVars

\* What a caller is shown or may change is bounded by what the registry says
\* of it now, also after it was registered again with less: no listed memory
\* is above its clearance or outside its scope and purpose, and only a caller
\* registered with the right to change memory changes it.
RegistryBounds ==
    [][ (access' = "served" /\ answer' # answer) =>
          LET r == records[answer'.actor.did]
              ids == answer'.decision.ids
          IN /\ r # NoRecord
             /\ answer'.op = "recall" =>
                    \A p \in DOMAIN ids : Authorized(memories[ids[p]], r)
             /\ memories' # memories => r.canMutate
      ]_authVars
============================================================================
