----------------------------- MODULE Application ------------------------------
(***************************************************************************)
(* What the tasks of an application share besides jobs, workflows, graphs, *)
(* messages and synchronizations: replayed responses, stored objects,      *)
(* entities, facts, vectors, telemetry, what requests of several tenants   *)
(* reach, and what the runners and the graphs of a process, or the cockpit *)
(* of the command line, open.  None of these calls another, so a behaviour *)
(* exercises one of them and leaves the others as they start.              *)
(***************************************************************************)
EXTENDS Naturals

CONSTANTS
  Requests, NoRequest, Paths, Keys, NoKey, LongKey, Required, TTL, BodyParts,
  CacheFails, MaxClock,
  Workers, Chunks, MaxPuts, MaxStorageFaults, MaxUploads,
  Callers, NoCaller, Statuses, FirstStatus, Moves, MaxEntityVersion,
  Writers, Identities, AppendKeys, NoAppendKey, Contents, MaxAppends,
  Runtimes, MaxErrors,
  Visitors, Tenants, MaxRevision, Coordinates, Configured, Unnamed,
  Runners, NoRuntime, Graphs, MaxRaises,
  Launches, NoLaunch,
  Indexers, Texts, BatchSize, Dimensions, MaxClients

VARIABLES
  part,  \* the component this behaviour exercises
  cache, call, reply, effects, stored, now,
  content, metadata, access, puts, stale, failures,
  provider, object, transfer, started, strays, expected,
  retention, entity, errand, known, overwritten, expired,
  byKey, facts, draft, request, told, appends,
  profile, runtime, managed, attached, httpx, errors, spoiled,
  revisions, remembered, visit, settled, store, reached, pools, tables, ready,
  enabled, cached, telemetry, runner, graph, kept, closing, raises, leaked,
  open, process, worker, child, stops,
  indexing, collection, shared, clients, lookup

Http == INSTANCE IdempotencyMiddleware
Files == INSTANCE FileStorage
Clouds == INSTANCE CloudStorage WITH MaxPuts <- MaxUploads
Entities == INSTANCE EntityLifecycle
Facts == INSTANCE AppendOnlyStore
Telemetry == INSTANCE TelemetryLifecycle
Tenancy == INSTANCE TenantResources
Process == INSTANCE ProcessLifecycle
Cockpit == INSTANCE ManagedRuntime
Vectors == INSTANCE VectorIndex WITH Owners <- Tenants

ASSUME ApplicationAssumption ==
  /\ Http!IdempotencyAssumption /\ Files!FileStorageAssumption
  /\ Clouds!CloudStorageAssumption /\ Tenancy!TenantResourcesAssumption
  /\ Entities!EntityAssumption /\ Facts!AppendAssumption
  /\ Telemetry!TelemetryAssumption /\ Process!ProcessAssumption
  /\ Cockpit!ManagedAssumption /\ Vectors!VectorAssumption

httpVars == <<cache, call, reply, effects, stored, now>>
fileVars == <<content, metadata, access, puts, stale, failures>>
cloudVars == <<provider, object, transfer, started, strays, expected>>
entityVars == <<retention, entity, errand, known, overwritten, expired>>
factVars == <<byKey, facts, draft, request, told, appends>>
telemetryVars == <<profile, runtime, managed, attached, httpx, errors, spoiled>>
tenancyVars ==
  <<revisions, remembered, visit, settled, store, reached, pools, tables, ready>>
processVars ==
  <<enabled, cached, telemetry, runner, graph, kept, closing, raises, leaked>>
cockpitVars == <<open, process, worker, child, stops>>
vectorVars == <<indexing, collection, shared, clients, lookup>>
vars == <<part, httpVars, fileVars, cloudVars, entityVars, factVars, telemetryVars,
          tenancyVars, processVars, cockpitVars, vectorVars>>

Init ==
  /\ part \in {"http", "files", "clouds", "entities", "facts", "telemetry", "tenancy",
              "runners", "graphs", "cockpit", "vectors"}
  /\ Http!Init /\ Files!StorageInit /\ Facts!AppendInit
  /\ Clouds!CloudInit /\ (part = "clouds" \/ provider = "s3")
  /\ Entities!EntityInit /\ (part = "entities" \/ retention = "zero")
  /\ Telemetry!TelemetryInit
  /\ part = "telemetry" \/ \A r \in Runtimes : profile[r] = Telemetry!Plain
  /\ Tenancy!TenancyInit
  /\ part = "tenancy" \/ (store = "bucket"
                          /\ \A v \in Visitors : visit[v].tenant = CHOOSE t \in Tenants : TRUE)
  /\ Process!ProcessInit
  /\ part = "runners" \/ (enabled = {"langsmith"}
                          /\ \A r \in Runners : runner[r].kind = "server")
  /\ Cockpit!ManagedInit
  /\ Vectors!VectorInit /\ (part = "vectors" \/ indexing = "memory")

\* A component that the behaviour does not exercise keeps its state.
OthersRest ==
  /\ IF part = "http" THEN TRUE ELSE UNCHANGED httpVars
  /\ IF part = "files" THEN TRUE ELSE UNCHANGED fileVars
  /\ IF part = "clouds" THEN TRUE ELSE UNCHANGED cloudVars
  /\ IF part = "entities" THEN TRUE ELSE UNCHANGED entityVars
  /\ IF part = "facts" THEN TRUE ELSE UNCHANGED factVars
  /\ IF part = "telemetry" THEN TRUE ELSE UNCHANGED telemetryVars
  /\ IF part = "tenancy" THEN TRUE ELSE UNCHANGED tenancyVars
  /\ IF part \in {"runners", "graphs"} THEN TRUE ELSE UNCHANGED processVars
  /\ IF part = "cockpit" THEN TRUE ELSE UNCHANGED cockpitVars
  /\ IF part = "vectors" THEN TRUE ELSE UNCHANGED vectorVars

Next ==
  /\ UNCHANGED part /\ OthersRest
  /\ \/ part = "http" /\ Http!Next
     \/ part = "files" /\ \E w \in Workers : Files!StorageStep(w)
     \/ part = "clouds" /\ Clouds!CloudNext
     \/ part = "entities" /\ Entities!EntityNext
     \/ part = "facts" /\ \E w \in Writers : Facts!AppendStep(w)
     \/ part = "telemetry" /\ \E r \in Runtimes : Telemetry!RuntimeStep(r)
     \/ part = "tenancy" /\ Tenancy!TenancyNext
     \/ part = "runners" /\ \E r \in Runners : Process!RunnerStep(r)
     \/ part = "graphs" /\ Process!GraphsNext
     \/ part = "cockpit" /\ Cockpit!CockpitNext
     \/ part = "vectors" /\ \E i \in Indexers : Vectors!VectorStep(i)

Spec == Init /\ [][Next]_vars

-----------------------------------------------------------------------------
(* What the components promise, as properties of the whole.                 *)

\* Replies come from the right handler, and a retry after a cached success replays it
\* (IdempotencyMiddleware).
RepliesBelong == Http!RepliesBelong
RetriesReplay == Http!RetriesReplay

\* A get reads one whole content with its own metadata: of the files of this process
\* (FileStorage), or of a cloud provider (CloudStorage).  The vectors of an embedding
\* call are those of its inputs (VectorIndex).
AnswersAreWhole == Files!GetsAreWhole /\ Clouds!GetsAreCurrent /\ Vectors!VectorsBelong

\* Racing transitions move the status as the project declared (EntityLifecycle).
StatusMovesAsDeclared == Entities!StatusMovesAsDeclared

\* A client is told that its copy is current only when it is (EntityLifecycle).
CopiesAreCurrent == Entities!CopiesAreCurrent

\* A key and an identity stand for the fact that was asked (AppendOnlyStore).
FactsAreAsAsked == Facts!FactsAreAsAsked

\* What several runtimes share is there while one uses it (TelemetryLifecycle).
SharedWhileUsed == Telemetry!SharedWhileUsed

\* A request works at the place of its tenant, the new one after a move, and finds its
\* tables there (TenantResources); so does one that works on vectors (VectorIndex).
TenantsStayApart == Tenancy!TenantsStayApart /\ Vectors!IndexesStayApart
StatementsFindTables == Tenancy!StatementsFindTables

\* The runners and the graphs of a process close what they opened (ProcessLifecycle);
\* the cockpit owns the child it started, and leaves none behind (ManagedRuntime); a
\* store of vectors closes its clients (VectorIndex).
NothingIsLeftOpen ==
  Process!NothingIsLeftOpen /\ Cockpit!OneChildIsOwned /\ Vectors!ClientsAreClosed
=============================================================================
