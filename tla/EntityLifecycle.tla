--------------------------- MODULE EntityLifecycle ----------------------------
(***************************************************************************)
(* One entity of a repository (adapters/outbound/memory/repository.py)     *)
(* under the use cases every service has (application/use_cases) and the   *)
(* transitions that the state-machine blueprint generates beside them      *)
(* (cli/arclith_cli/state_machine_blueprint.py).  A transition reads the   *)
(* entity, and stores its candidate by a compare-and-swap on the version;  *)
(* update and delete store the copy they hold, whatever is stored by then. *)
(* Clients keep what they were given, and ask again with its version       *)
(* (adapters/inbound/fastapi/etag.py): If-None-Match may answer that it is *)
(* still current, If-Match lets the service refuse an outdated update.     *)
(***************************************************************************)
EXTENDS Naturals

CONSTANTS
  Callers, NoCaller,
  Statuses, FirstStatus,
  Moves,      \* pairs of statuses a transition of the project declares
  MaxEntityVersion  \* bound on the life of the entity

EntityAssumption ==
  /\ NoCaller \notin Callers
  /\ FirstStatus \in Statuses /\ Moves \subseteq Statuses \X Statuses
  /\ MaxEntityVersion \in Nat

VARIABLES
  retention,    \* of the service: "infinite", "zero" when deletions are final, or "some"
  entity,       \* what is stored under the identity, or NoEntity
  errand,       \* the call each caller is in
  known,        \* the copy each client keeps, or NoEntity
  overwritten,  \* an update or a deletion stored a copy that was not the latest
  expired       \* the retention of a deletion may be over

entityVars == <<retention, entity, errand, known, overwritten, expired>>

Retentions == {"infinite", "zero", "some"}

NoEntity == [version |-> 0, status |-> FirstStatus, text |-> NoCaller, deleted |-> FALSE]
Created == [NoEntity EXCEPT !.version = 1]
AtRest == [pc |-> "idle", copy |-> NoEntity, to |-> FirstStatus]

EntityTypeOK ==
  LET Entities == [version : 0..MaxEntityVersion, status : Statuses,
                   text : Callers \union {NoCaller}, deleted : BOOLEAN] IN
  /\ retention \in Retentions /\ entity \in Entities
  /\ errand \in [Callers ->
       [pc : {"idle", "edit", "checked", "soft delete", "swap", "purge"}, copy : Entities,
        to : Statuses]]
  /\ known \in [Callers -> Entities]
  /\ overwritten \in BOOLEAN /\ expired \in BOOLEAN

EntityInit ==
  /\ retention \in Retentions /\ entity = Created
  /\ errand = [c \in Callers |-> AtRest] /\ known = [c \in Callers |-> NoEntity]
  /\ overwritten = FALSE /\ expired = FALSE

-----------------------------------------------------------------------------
Busy(c, pc) == errand[c].pc = pc
Holds(c, pc, to) ==
  errand' = [errand EXCEPT ![c] = [pc |-> pc, copy |-> entity, to |-> to]]
Returns(c) == errand' = [errand EXCEPT ![c] = AtRest]
Present == entity # NoEntity
Latest(c) == errand[c].copy = entity

\* What a caller stores without looking at what is there.
Overwrites(c, new) ==
  /\ entity' = new
  /\ overwritten' = (overwritten \/ ~Latest(c))
  /\ Returns(c)
  /\ UNCHANGED <<retention, known, expired>>

-----------------------------------------------------------------------------
(* CRUD.                                                                    *)

\* The ETag is made of the version of the response: 304 for a client that has it.
NotModified(c) == known[c] # NoEntity /\ known[c].version = entity.version

\* ReadUseCase does not show deleted entities.  The caller keeps what it was given,
\* or has kept, and edits it.
Visible == Present /\ ~entity.deleted
Read(c) ==
  /\ Busy(c, "idle") /\ Visible
  /\ known' = IF NotModified(c) THEN known ELSE [known EXCEPT ![c] = entity]
  /\ errand' = [errand EXCEPT ![c].pc = "edit", ![c].copy = known'[c]]
  /\ UNCHANGED <<retention, entity, overwritten, expired>>

\* If-Match: the service reads, and refuses another version than the client's; it edits
\* what it has read.
Validates(c) ==
  /\ Busy(c, "edit")
  /\ IF Visible /\ entity.version = errand[c].copy.version
     THEN Holds(c, "checked", FirstStatus)
     ELSE Returns(c)
  /\ UNCHANGED <<retention, entity, known, overwritten, expired>>

\* A defect that TLC must notice: the version is not incremented.
Update_Unversioned(c) ==
  /\ Busy(c, "edit") \/ Busy(c, "checked")
  /\ Overwrites(c, [errand[c].copy EXCEPT !.text = c])

\* UpdateUseCase: the version of the caller's copy, plus one.  Without If-Match, or
\* with one that names no version, nothing was checked before.
Update(c) ==
  /\ Busy(c, "edit") \/ Busy(c, "checked")
  /\ errand[c].copy.version < MaxEntityVersion
  /\ Overwrites(c, [errand[c].copy EXCEPT !.version = @ + 1, !.text = c])

GiveUp(c) ==
  /\ Busy(c, "edit")
  /\ Returns(c)
  /\ UNCHANGED <<retention, entity, known, overwritten, expired>>

\* DeleteUseCase, which sees deleted entities too.
DeleteNow(c) ==
  /\ retention = "zero" /\ Busy(c, "idle")
  /\ entity' = NoEntity
  /\ UNCHANGED <<retention, errand, known, overwritten, expired>>

DeleteReads(c) ==
  /\ retention # "zero" /\ Busy(c, "idle") /\ Present
  /\ Holds(c, "soft delete", FirstStatus)
  /\ UNCHANGED <<retention, entity, known, overwritten, expired>>

\* The version stays.
SoftDelete(c) ==
  /\ Busy(c, "soft delete")
  /\ Overwrites(c, [errand[c].copy EXCEPT !.deleted = TRUE])

Expire ==
  /\ retention = "some" /\ entity.deleted /\ ~expired
  /\ expired' = TRUE
  /\ UNCHANGED <<retention, entity, errand, known, overwritten>>

\* PurgeUseCase lists what expired, then deletes it without another look.
PurgeLists(c) ==
  /\ Busy(c, "idle") /\ expired /\ entity.deleted
  /\ Holds(c, "purge", FirstStatus)
  /\ UNCHANGED <<retention, entity, known, overwritten, expired>>

PurgeDeletes(c) ==
  /\ Busy(c, "purge")
  /\ entity' = NoEntity /\ expired' = FALSE
  /\ overwritten' = (overwritten \/ ~Latest(c))
  /\ Returns(c)
  /\ UNCHANGED <<retention, known>>

-----------------------------------------------------------------------------
(* Generated transitions.                                                   *)

\* The use case reads; it refuses a version its client does not expect, and its
\* domain service a status the project did not declare as a source.
TransitionReads(c) ==
  /\ Busy(c, "idle") /\ Present
  /\ \E to \in Statuses :
       <<entity.status, to>> \in Moves /\ Holds(c, "swap", to)
  /\ UNCHANGED <<retention, entity, known, overwritten, expired>>

\* Defect that TLC must notice: read, then update, without the condition.
Matches_Always(c) == Present
\* The contract of compare_and_swap.
Matches(c) == entity.version = errand[c].copy.version

CompareAndSwap(c) ==
  /\ Busy(c, "swap") /\ errand[c].copy.version < MaxEntityVersion
  /\ entity' = IF Matches(c)
               THEN [errand[c].copy EXCEPT !.status = errand[c].to, !.version = @ + 1]
               ELSE entity
  /\ Returns(c)
  /\ UNCHANGED <<retention, known, overwritten, expired>>

EntityStep(c) ==
  \/ Read(c) \/ Validates(c) \/ Update(c) \/ GiveUp(c) \/ DeleteNow(c) \/ DeleteReads(c)
  \/ SoftDelete(c) \/ PurgeLists(c) \/ PurgeDeletes(c)
  \/ TransitionReads(c) \/ CompareAndSwap(c)

EntityNext == (\E c \in Callers : EntityStep(c)) \/ Expire

-----------------------------------------------------------------------------
\* Whatever transitions race, the status of what is stored only moves along a
\* declared pair and the version grows with it, until an update or a deletion has
\* stored an outdated copy.
StatusMovesAsDeclared ==
  [][Present /\ entity' # NoEntity /\ ~overwritten'
     /\ entity'.status # entity.status =>
       /\ <<entity.status, entity'.status>> \in Moves
       /\ entity'.version = entity.version + 1]_entityVars

\* A client that is told that its copy has not changed holds what is stored, until an
\* update or a deletion has stored an outdated copy under a version that was taken:
\* between the check of If-Match and the update nothing excludes one.
CopiesAreCurrent ==
  ~overwritten => \A c \in Callers : Visible /\ NotModified(c) => known[c] = entity
=============================================================================
