--------------------------- MODULE AppendOnlyStore ----------------------------
(***************************************************************************)
(* The append-only store (adapters/outbound/memory/append_only_store.py,   *)
(* domain/services/append_only.py).  A writer builds a record, appends it  *)
(* under a key, may be refused, may not get the answer, and may append     *)
(* again.  While an append waits for the lock, its caller may change the   *)
(* record's nested collections: frozen models do not freeze them.          *)
(***************************************************************************)
EXTENDS Naturals

CONSTANTS
  Writers,
  Identities,      \* UUIDs of records
  AppendKeys, NoAppendKey,
  Contents,        \* canonical contents but for recorded_at
  MaxAppends       \* bound on the calls

AppendAssumption ==
  /\ Identities # {} /\ Contents # {}
  /\ NoAppendKey \notin AppendKeys \union Identities /\ MaxAppends \in Nat

VARIABLES
  byKey,    \* key -> fingerprint and record
  facts,    \* identity -> content, or NoFact
  draft,    \* the record object each writer holds
  request,  \* the append each writer waits for
  told,     \* the answers that were given: key, content asked, content returned
  appends   \* calls so far

appendVars == <<byKey, facts, draft, request, told, appends>>

NoFact == [identity |-> NoAppendKey, content |-> NoAppendKey]
Records == [identity : Identities, content : Contents]
NoStored == [fingerprint |-> NoFact, record |-> NoFact]
Unasked == [pc |-> "idle", key |-> NoAppendKey, snapshot |-> NoFact]

AppendTypeOK ==
  /\ byKey \in [AppendKeys ->
       [fingerprint : Records, record : Records] \union {NoStored}]
  /\ facts \in [Identities -> Records \union {NoFact}]
  /\ draft \in [Writers -> Records]
  /\ request \in [Writers -> [pc : {"waiting"}, key : AppendKeys, snapshot : Records]
                              \union {Unasked}]
  /\ told \subseteq [key : AppendKeys, asked : Records, answered : Records]
  /\ appends \in 0..MaxAppends

AppendInit ==
  /\ byKey = [k \in AppendKeys |-> NoStored]
  /\ facts = [i \in Identities |-> NoFact]
  /\ draft = [w \in Writers |-> CHOOSE r \in Records : TRUE]
  /\ request = [w \in Writers |-> Unasked]
  /\ told = {} /\ appends = 0

-----------------------------------------------------------------------------
Waits(w) == request[w].pc = "waiting"

\* The writer builds another record, or changes the one it holds: also while its
\* append waits.
Draft(w) ==
  /\ draft' \in {[draft EXCEPT ![w] = r] : r \in Records}
  /\ UNCHANGED <<byKey, facts, request, told, appends>>

\* Defect that TLC must notice: the record is copied when it is stored.
Snapshot_Late(w) == draft[w]
\* The deep copy that was taken before the lock.
Snapshot(w) == request[w].snapshot

\* append up to its lock: the copy and its fingerprint are taken.
Append(w) ==
  /\ ~Waits(w) /\ appends < MaxAppends /\ appends' = appends + 1
  /\ \E k \in AppendKeys :
       request' = [request EXCEPT ![w] =
         [pc |-> "waiting", key |-> k, snapshot |-> draft[w]]]
  /\ UNCHANGED <<byKey, facts, draft, told>>

Fingerprint(w) == request[w].snapshot

\* A key, or an identity, that belongs to another content is refused.
KeyConflict(w) ==
  LET old == byKey[request[w].key] IN old # NoStored /\ old.fingerprint # Fingerprint(w)
IdentityConflict(w) ==
  byKey[request[w].key] = NoStored /\ facts[Snapshot(w).identity] # NoFact

\* Under the lock: refused, found again, or stored; the answer may be lost.
Answers(w, record) ==
  \/ told' = told \union {[key |-> request[w].key, asked |-> Fingerprint(w),
                           answered |-> record]}
  \/ UNCHANGED told

Stored(w) ==
  /\ Waits(w)
  /\ request' = [request EXCEPT ![w] = Unasked]
  /\ LET k == request[w].key IN
     IF KeyConflict(w) \/ IdentityConflict(w) THEN UNCHANGED <<byKey, facts, told>>
     ELSE IF byKey[k] # NoStored
     THEN Answers(w, byKey[k].record) /\ UNCHANGED <<byKey, facts>>
     ELSE /\ byKey' = [byKey EXCEPT ![k] =
               [fingerprint |-> Fingerprint(w), record |-> Snapshot(w)]]
          /\ facts' = [facts EXCEPT ![Snapshot(w).identity] = Snapshot(w)]
          /\ Answers(w, Snapshot(w))
  /\ UNCHANGED <<draft, appends>>

AppendStep(w) == Draft(w) \/ Append(w) \/ Stored(w)

-----------------------------------------------------------------------------
\* A key and an identity stand for one fact, the content that was asked when append
\* was called, and every answer, the first or a duplicate's, is that fact.
FactsAreAsAsked ==
  /\ \A k \in AppendKeys : byKey[k] # NoStored =>
       /\ byKey[k].record = byKey[k].fingerprint
       /\ facts[byKey[k].record.identity] = byKey[k].record
       /\ \A j \in AppendKeys \ {k} :
            byKey[j] # NoStored => byKey[j].record.identity # byKey[k].record.identity
  /\ \A t \in told : t.answered = t.asked /\ byKey[t.key].record = t.answered
=============================================================================
