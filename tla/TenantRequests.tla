---------------------------- MODULE TenantRequests ----------------------------
(***************************************************************************)
(* How a request finds the resources of its tenant                         *)
(* (adapters/inbound/auth_pipeline.py and what it calls): the token is     *)
(* verified with the signing keys, the coordinates of the tenant are read  *)
(* from its secret, both through a cache, and are set in the context of    *)
(* the request.  Keys and secrets change outside of the program; what was  *)
(* read of one is known by the subject it is about and its revision.       *)
(***************************************************************************)
EXTENDS Naturals

CONSTANTS
  Visitors,    \* requests
  Tenants,
  MaxRevision  \* bound on the revisions of the signing keys, and of a secret

SigningKeys == "jwks"
Subjects == Tenants \cup {SigningKeys}

TenantRequestsAssumption == SigningKeys \notin Tenants /\ MaxRevision \in Nat \ {0}

VARIABLES
  revisions,   \* the current revision of each subject
  remembered,  \* the cache
  visit,       \* where each request is
  settled      \* tenants whose old revisions nothing in the program knows of

requestVars == <<revisions, remembered, visit, settled>>

Unknown == [of |-> SigningKeys, revision |-> 0]

\* `found' is what was read last, at the end the coordinates in the context of the
\* request; `moved' if all of the visit came after the tenant had settled.
Visit(pc, tenant, key) ==
  [pc |-> pc, tenant |-> tenant, key |-> key, subject |-> SigningKeys,
   found |-> Unknown, moved |-> FALSE]

\* Defect that TLC must notice: a key that does not name the tenant.
CacheKey_Shared(subject) == IF subject \in Tenants THEN "tenant" ELSE subject

CacheKey(subject) == subject
CacheKeys == {CacheKey(s) : s \in Subjects}

RequestsTypeOK ==
  LET Value == [of : Subjects, revision : 0..MaxRevision] IN
  /\ revisions \in [Subjects -> 1..MaxRevision]
  /\ remembered \in [CacheKeys -> Value]
  /\ visit \in [Visitors ->
       [pc : {"idle", "lookup", "fetch", "store", "served", "wait", "exists", "create",
              "statement", "ended"},
        tenant : Tenants, key : 0..MaxRevision, subject : Subjects, found : Value,
        moved : BOOLEAN]]
  /\ settled \subseteq Tenants

RequestsInit ==
  /\ revisions = [s \in Subjects |-> 1]
  /\ remembered = [k \in CacheKeys |-> Unknown]
  /\ visit \in {[v \in Visitors |-> Visit("idle", t[v], 0)] : t \in [Visitors -> Tenants]}
  /\ settled = {}

-----------------------------------------------------------------------------
At(v, pc) == visit[v].pc = pc
\* What a request holds ends with it.
Goes(v, pc) ==
  visit' = [visit EXCEPT
    ![v] = IF pc = "ended" THEN Visit(pc, @.tenant, 0) ELSE [@ EXCEPT !.pc = pc]]
Current(subject) == [of |-> subject, revision |-> revisions[subject]]

\* A request with a token of its tenant, signed before or after the keys changed.
Arrives(v) ==
  /\ At(v, "idle")
  /\ \E key \in 1..revisions[SigningKeys] :
       visit' = [visit EXCEPT
         ![v] = [Visit("lookup", @.tenant, key) EXCEPT !.moved = visit[v].tenant \in settled]]
  /\ UNCHANGED <<revisions, remembered, settled>>

\* The token is verified: its key must be among those found, and the licence among
\* its roles.
Verified(v, keys) ==
  \/ /\ keys.revision = visit[v].key
     /\ visit' = [visit EXCEPT ![v] = [Visit("lookup", @.tenant, 0) EXCEPT
                   !.subject = visit[v].tenant, !.moved = visit[v].moved]]
  \/ Goes(v, "ended")

\* set_tenant_context
InContext(v, coordinates) ==
  visit' = [visit EXCEPT ![v].pc = "served", ![v].found = coordinates]

Answered(v, value) ==
  IF visit[v].subject = SigningKeys THEN Verified(v, value) ELSE InContext(v, value)

LooksUp(v) ==
  LET value == remembered[CacheKey(visit[v].subject)] IN
  /\ At(v, "lookup")
  /\ IF value = Unknown THEN Goes(v, "fetch") ELSE Answered(v, value)
  /\ UNCHANGED <<revisions, remembered, settled>>

\* The request to the identity provider, or the read of the secret in a thread.
Fetches(v) ==
  /\ At(v, "fetch")
  /\ visit' = [visit EXCEPT ![v].pc = "store", ![v].found = Current(visit[v].subject)]
  /\ UNCHANGED <<revisions, remembered, settled>>

Remembers(v) ==
  LET frame == visit[v] IN
  /\ At(v, "store")
  /\ remembered' = [remembered EXCEPT ![CacheKey(frame.subject)] = frame.found]
  /\ Answered(v, frame.found)
  /\ UNCHANGED <<revisions, settled>>

\* The cache, the provider or the vault does not answer: 401 or 500.
ResolutionFails(v) ==
  /\ visit[v].pc \in {"lookup", "fetch", "store"}
  /\ Goes(v, "ended")
  /\ UNCHANGED <<revisions, remembered, settled>>

Visits(v) ==
  Arrives(v) \/ LooksUp(v) \/ Fetches(v) \/ Remembers(v) \/ ResolutionFails(v)

-----------------------------------------------------------------------------
(* Outside.                                                                 *)

\* New signing keys, or a tenant that moves.  One subject changes.
Changes(subject) ==
  /\ revisions[subject] < MaxRevision
  /\ \A s \in Subjects \ {subject} : revisions[s] = 1
  /\ revisions' = [revisions EXCEPT ![subject] = @ + 1]
  /\ settled' = settled \ {subject}
  /\ visit' = [v \in Visitors |->
       [visit[v] EXCEPT !.moved = @ /\ visit[v].tenant # subject]]
  /\ UNCHANGED remembered

\* The time to live of an entry ends, or it is cleared after a change.  Nothing
\* protects it from a request that read the old value and stores it after that.
Forgets(subject) ==
  /\ subject \in CacheKeys /\ remembered[subject] # Unknown
  /\ remembered' = [remembered EXCEPT ![subject] = Unknown]
  /\ settled' = IF \E v \in Visitors : /\ At(v, "store") /\ visit[v].subject = subject
                                       /\ visit[v].found # Current(subject)
                THEN settled
                ELSE settled \cup ({subject} \cap Tenants)
  /\ UNCHANGED <<revisions, visit>>

Surroundings == \E s \in Subjects : Changes(s) \/ Forgets(s)
=============================================================================
