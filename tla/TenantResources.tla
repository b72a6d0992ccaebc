--------------------------- MODULE TenantResources ----------------------------
(***************************************************************************)
(* The repositories and stores a request reaches through the context of    *)
(* its tenant (TenantRequests): a client or a pool of connections for the  *)
(* server, a table or a collection that is created at its first use, and   *)
(* the statements.  A behaviour has one kind of store.                     *)
(***************************************************************************)
EXTENDS TenantRequests, Sequences

CONSTANTS
  Coordinates,  \* the server and the space each revision of a tenant's secret names
  Configured,   \* those the configuration of the store names
  Unnamed       \* a field a secret leaves out

VARIABLES
  store,    \* the kind of store
  reached,  \* the server and space each request works on
  pools,    \* connections that are kept: the server, by what they are kept under
  tables,   \* the places that have the table or collection
  ready     \* the tables the repository knows to be there

resourceVars == <<store, reached, pools, tables, ready>>

Or(value, fallback) == IF value = Unnamed THEN fallback ELSE value
Merged(c) ==
  [server |-> Or(c.server, Configured.server), space |-> Or(c.space, Configured.space)]

\* A MariaDB repository builds its table once, whatever the secret says of it.
Place(c) ==
  [Merged(c) EXCEPT !.space = IF store = "mariadb" THEN Configured.space ELSE @]
PlaceNow(tenant) == Place(Coordinates[tenant][revisions[tenant]])
PlacesOf(tenant) == {Place(Coordinates[tenant][n]) : n \in 1..revisions[tenant]}

TenantResourcesAssumption ==
  /\ TenantRequestsAssumption
  /\ \A t \in Tenants : Len(Coordinates[t]) = MaxRevision
  \* Secrets of distinct tenants name distinct places in any kind of store.
  /\ \A t, u \in Tenants, m, n \in 1..MaxRevision :
       t # u => Merged(Coordinates[t][m]).server # Merged(Coordinates[u][n]).server

ResourcesTypeOK ==
  LET Places == {Merged(Coordinates[t][n]) : t \in Tenants, n \in 1..MaxRevision}
                  \cup {Configured}
      Servers == {p.server : p \in Places}
      Reachable == [server : Servers, space : {p.space : p \in Places}]
  IN
  /\ store \in {"postgresql", "mariadb", "mongodb", "qdrant", "bucket"}
  /\ reached \in [Visitors -> Reachable]
  /\ \A k \in DOMAIN pools : pools[k] \in Servers
  /\ tables \subseteq Reachable
  /\ ready \subseteq Reachable

ResourcesInit ==
  /\ store \in {"postgresql", "mariadb", "mongodb", "qdrant", "bucket"}
  /\ reached = [v \in Visitors |-> Configured]
  /\ pools = [k \in {} |-> Configured.server]
  /\ tables = {} /\ ready = {}

-----------------------------------------------------------------------------
Using(v, kinds) == At(v, "served") /\ store \in kinds
PlaceInContext(v) == Place(Coordinates[visit[v].found.of][visit[v].found.revision])
Reaches(v, server) == reached' = [reached EXCEPT ![v] = [PlaceInContext(v) EXCEPT !.server = server]]

\* Connections are made once and kept.
Pool(key, server) ==
  pools' = [k \in DOMAIN pools \cup {key} |-> IF k \in DOMAIN pools THEN pools[k] ELSE server]

\* Defect that TLC must notice: connections are kept for the tenant.
EngineKey_OfTenant(v) == visit[v].tenant

EngineKey(v) == PlaceInContext(v).server

\* Defect that TLC must notice: a database is ready once one of its schemas is.
ReadyKey_Database(place) == [place EXCEPT !.space = Configured.space]

\* PostgreSQL has a table in each schema; the only one of a MariaDB database is known
\* by the database.
ReadyKey(place) == place

\* _engine_and_table, _engine.
RelationalConnects(v) ==
  /\ Using(v, {"postgresql", "mariadb"})
  /\ Pool(EngineKey(v), PlaceInContext(v).server)
  /\ Reaches(v, pools'[EngineKey(v)])
  /\ Goes(v, IF ReadyKey(reached'[v]) \in ready THEN "statement" ELSE "wait")
  /\ UNCHANGED <<revisions, remembered, settled, store, tables, ready>>

\* One task at a time creates the tables of a server, and looks again when it may.
TakesLock(v) ==
  /\ At(v, "wait")
  /\ ~\E o \in Visitors : At(o, "create") /\ reached[o].server = reached[v].server
  /\ Goes(v, IF ReadyKey(reached[v]) \in ready THEN "statement" ELSE "create")
  /\ UNCHANGED <<revisions, remembered, settled, resourceVars>>

CreatesTables(v) ==
  /\ At(v, "create") /\ store \in {"postgresql", "mariadb"}
  /\ tables' = tables \cup {reached[v]}
  /\ ready' = ready \cup {ReadyKey(reached[v])}
  /\ Goes(v, "statement")
  /\ UNCHANGED <<revisions, remembered, settled, store, reached, pools>>

-----------------------------------------------------------------------------
\* _MongoCollection: collections need not be created.
MongoDBAcquires(v) ==
  LET server == PlaceInContext(v).server IN
  /\ Using(v, {"mongodb"})
  /\ Pool(server, server)
  /\ Reaches(v, pools'[server])
  /\ Goes(v, "statement")
  /\ UNCHANGED <<revisions, remembered, settled, store, tables, ready>>

\* _client_scope: a tenant has a client for the call, and closes it.
QdrantScope(v) ==
  /\ Using(v, {"qdrant"})
  /\ Reaches(v, PlaceInContext(v).server)
  /\ Goes(v, "exists")
  /\ UNCHANGED <<revisions, remembered, settled, store, pools, tables, ready>>

\* ensure_collection has no lock: the second to create a collection is refused.
CollectionExists(v) ==
  /\ At(v, "exists")
  /\ Goes(v, IF reached[v] \in tables THEN "statement" ELSE "create")
  /\ UNCHANGED <<revisions, remembered, settled, resourceVars>>

CreatesCollection(v) ==
  /\ At(v, "create") /\ store = "qdrant"
  /\ tables' = tables \cup {reached[v]}
  /\ Goes(v, IF reached[v] \in tables THEN "ended" ELSE "statement")
  /\ UNCHANGED <<revisions, remembered, settled, store, reached, pools, ready>>

\* Defect that TLC must notice: the first client is kept for everybody.
BucketClient_Default(v) ==
  /\ Using(v, {"bucket"})
  /\ Pool("default", PlaceInContext(v).server)
  /\ Reaches(v, pools'["default"])
  /\ Goes(v, "statement")
  /\ UNCHANGED <<revisions, remembered, settled, store, tables, ready>>

\* StorageClientCache: with tenants there is a client for each call.
BucketClient(v) ==
  /\ Using(v, {"bucket"})
  /\ Reaches(v, PlaceInContext(v).server)
  /\ Goes(v, "statement")
  /\ UNCHANGED <<revisions, remembered, settled, store, pools, tables, ready>>

-----------------------------------------------------------------------------
\* One operation of the port; a request may go on with another one.
Statement(v) ==
  /\ At(v, "statement")
  /\ \E pc \in {"served", "ended"} : Goes(v, pc)
  /\ UNCHANGED <<revisions, remembered, settled, resourceVars>>

\* The server does not answer, or the task is cancelled: what was asked for may have
\* been done.
OperationFails(v) ==
  /\ visit[v].pc \in {"wait", "exists", "create", "statement"}
  /\ Goes(v, "ended")
  /\ \/ UNCHANGED tables
     \/ At(v, "create") /\ tables' = tables \cup {reached[v]}
  /\ UNCHANGED <<revisions, remembered, settled, store, reached, pools, ready>>

Works(v) ==
  \/ RelationalConnects(v) \/ TakesLock(v) \/ CreatesTables(v)
  \/ MongoDBAcquires(v) \/ BucketClient(v)
  \/ QdrantScope(v) \/ CollectionExists(v) \/ CreatesCollection(v)
  \/ Statement(v) \/ OperationFails(v)

TenancyInit == RequestsInit /\ ResourcesInit

TenancyNext ==
  \/ \E v \in Visitors : Works(v) \/ (Visits(v) /\ UNCHANGED resourceVars)
  \/ Surroundings /\ UNCHANGED resourceVars

TenancySpec == TenancyInit /\ [][TenancyNext]_<<requestVars, resourceVars>>

-----------------------------------------------------------------------------
\* A statement of a request runs where a secret of its tenant says, whoever shares the
\* cache, the pools and the clients with it; and once no entry of the cache and no
\* request holds the old coordinates of a tenant that has moved, the requests that
\* arrive work at the new ones, although the connections to the old are kept.
TenantsStayApart ==
  \A v \in Visitors : At(v, "statement") =>
    /\ reached[v] \in PlacesOf(visit[v].tenant)
    /\ visit[v].moved => reached[v] = PlaceNow(visit[v].tenant)

\* A statement finds its table, although creations fail, are repeated and race, and what
\* is ready is remembered for more than one database.
StatementsFindTables ==
  \A v \in Visitors :
    At(v, "statement") /\ store \notin {"mongodb", "bucket"} => reached[v] \in tables
=============================================================================
