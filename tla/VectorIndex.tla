----------------------------- MODULE VectorIndex ------------------------------
(***************************************************************************)
(* Embeddings and the index of their vectors: the batches of a call to an  *)
(* embedding provider (adapters/outbound/openai_compatible/embedding.py),  *)
(* and a store of vectors in memory, on one server whose client the calls  *)
(* share, or on the server of each tenant, with a client for each call     *)
(* (adapters/outbound/{memory,qdrant}/vector_store.py).                    *)
(***************************************************************************)
EXTENDS Integers, SequencesExt

CONSTANTS
  Indexers, Owners,             \* tasks, and the tenants they work for
  Texts, BatchSize, Dimensions, \* of an embedding call
  MaxClients                    \* bound

VectorAssumption ==
  /\ Texts \in Nat \ {0} /\ BatchSize \in Nat \ {0} /\ MaxClients \in Nat
  /\ Dimensions \subseteq Nat \ {0} /\ Dimensions # {}

VARIABLES
  indexing,   \* the store of the settings: "memory", "single" or "tenants"
  collection, \* of each server: absent, or the points it holds
  shared,     \* _default_client
  clients,    \* the clients that were created
  lookup      \* what each task does

vectorVars == <<indexing, collection, shared, clients, lookup>>

Absent == {<<"absent", 0>>}
NoClient == 0
Home == "home"  \* the server of the settings
Unsized == 0
Resting == [pc |-> "idle", kind |-> "none", owner |-> Home, client |-> NoClient,
            points |-> {}, dims |-> Unsized, results |-> << >>]

VectorInit ==
  /\ indexing \in {"memory", "single", "tenants"}
  /\ collection = [s \in Owners \cup {Home} |-> Absent]
  /\ shared = NoClient /\ clients = << >>
  /\ lookup = [i \in Indexers |-> Resting]

Becomes(i, op) == lookup' = [lookup EXCEPT ![i] = op]
Ends(i, pc) == Becomes(i, [lookup[i] EXCEPT !.pc = pc])

-----------------------------------------------------------------------------
(* An embedding call, batch by batch.                                       *)

\* The settings may give the number of dimensions.  A call shares nothing with any
\* other, so one at a time is enough.
BeginEmbedding(i) ==
  /\ indexing = "memory" /\ \A j \in Indexers : lookup[j].pc = "idle"
  /\ \E dims \in Dimensions \cup {Unsized} :
       Becomes(i, [Resting EXCEPT !.pc = "embedding", !.kind = "embed", !.dims = dims])
  /\ UNCHANGED <<indexing, collection, shared, clients>>

\* What a provider may answer for a batch of n texts: vectors in any order, each
\* with the position of its text; some are missing, doubled or of another dimension.
Answers(offset, n) ==
  LET Item == {[index |-> k, of |-> offset + k, dim |-> d] :
                 k \in 0..BatchSize, d \in Dimensions}
  IN UNION {[1..m -> Item] : m \in 0..n}

\* _parse_response and the comparison with the batches before.
Valid(answer, n, dims) ==
  /\ Len(answer) = n
  /\ {item.index : item \in Range(answer)} = 0..(n - 1)
  /\ \E d \in IF dims = Unsized THEN Dimensions ELSE {dims} :
       \A item \in Range(answer) : item.dim = d

\* Defect that TLC must notice: in the order of the answer.
Placed_AsReceived(answer, offset) ==
  [k \in 1..Len(answer) |->
     [id |-> offset + k - 1, of |-> answer[k].of, dim |-> answer[k].dim]]

\* The result at a position has the identity of the input there.
Placed(answer, offset) ==
  [k \in 1..Len(answer) |->
     LET item == CHOOSE x \in Range(answer) : x.index = k - 1
     IN [id |-> offset + k - 1, of |-> item.of, dim |-> item.dim]]

\* _request_batch; what the batches before have given is lost with the call.
AnswerBatch(i) ==
  /\ lookup[i].pc = "embedding"
  /\ LET offset == Len(lookup[i].results)
         n == IF Texts - offset < BatchSize THEN Texts - offset ELSE BatchSize
     IN \E answer \in Answers(offset, n) :
          IF Valid(answer, n, lookup[i].dims)
          THEN Becomes(i, [lookup[i] EXCEPT
                 !.results = @ \o Placed(answer, offset),
                 !.dims = answer[1].dim,
                 !.pc = IF offset + n = Texts THEN "done" ELSE @])
          ELSE Becomes(i, [lookup[i] EXCEPT !.pc = "failed", !.results = << >>])
  /\ UNCHANGED <<indexing, collection, shared, clients>>

-----------------------------------------------------------------------------
(* The store of vectors.                                                    *)

\* The points of an upsert.
Upserted(owner) == {<<owner, 1>>, <<owner, 2>>}

\* What an operation does to the points of a server and what it answers.  An upsert
\* of which one vector has another dimension has stopped before.
Apply(kind, points, owner) ==
  CASE kind = "ensure" -> IF points = Absent THEN {} ELSE points
    [] kind = "upsert" -> points \cup Upserted(owner)
    [] kind = "delete" -> points \ {<<owner, 1>>}
    [] kind = "search" -> points

\* MemoryVectorStore: no await in an operation.
UseMemory(i) ==
  /\ indexing = "memory" /\ \A j \in Indexers : lookup[j].pc = "idle"
  /\ \E kind \in {"ensure", "upsert", "delete", "search"}, sized \in BOOLEAN :
       LET refused == (kind # "ensure" /\ collection[Home] = Absent)
                        \/ (kind = "upsert" /\ ~sized)
       IN /\ collection' = IF refused THEN collection
                           ELSE [collection EXCEPT ![Home] = Apply(kind, @, Home)]
          /\ Becomes(i, [Resting EXCEPT
               !.kind = kind, !.pc = IF refused THEN "failed" ELSE "done",
               !.points = IF kind = "search" /\ ~refused THEN collection[Home] ELSE {}])
  /\ UNCHANGED <<indexing, shared, clients>>

\* resolve_qdrant_config: the server of the tenant of the call, that of the settings
\* where the context names none.
Resolved == IF indexing = "tenants" THEN Owners \cup {Home} ELSE {Home}

\* create_qdrant_client.
Create(server) == clients' = Append(clients, [server |-> server, state |-> "open"])
Newest == Len(clients) + 1

\* Defect that TLC must notice: tenants share the client, too.
Transient_Never == FALSE

\* A client of its own for the call, or the shared one.
Transient == indexing = "tenants"

\* _client_scope, after the check of the dimensions.
BeginCall(i) ==
  /\ indexing # "memory" /\ lookup[i].pc = "idle"
  /\ \E kind \in {"ensure", "upsert", "delete", "search"},
        owner \in Resolved :
       LET op == [Resting EXCEPT !.kind = kind, !.owner = owner, !.pc = "calling"] IN
       IF ~Transient /\ shared # NoClient
       THEN /\ Becomes(i, [op EXCEPT !.client = shared])
            /\ UNCHANGED <<clients, shared>>
       ELSE /\ Newest <= MaxClients /\ Create(owner)
            /\ Becomes(i, [op EXCEPT !.client = Newest])
            /\ shared' = IF Transient THEN shared ELSE Newest
  /\ UNCHANGED <<indexing, collection>>

Server(i) == clients[lookup[i].client].server

\* The close of a client of the call, after it ended as pc says.
Closing(pc) == IF pc = "done" THEN "closing done" ELSE "closing failed"

\* Defect that TLC must notice: only where the call succeeded.
AfterCall_Successful(i, pc) ==
  IF Transient /\ pc = "done" THEN [lookup[i] EXCEPT !.pc = Closing(pc)]
  ELSE [lookup[i] EXCEPT !.pc = pc]

\* What is left of the scope: a client of the call is closed.
AfterCall(i, pc) ==
  IF Transient THEN [lookup[i] EXCEPT !.pc = Closing(pc)]
  ELSE [lookup[i] EXCEPT !.pc = pc]

\* collection_exists answers, create_collection is called where there is none.
CollectionExists(i) ==
  /\ lookup[i].pc = "calling" /\ lookup[i].kind = "ensure"
  /\ Becomes(i, IF collection[Server(i)] # Absent THEN AfterCall(i, "done")
                ELSE [lookup[i] EXCEPT !.pc = "creating"])
  /\ UNCHANGED <<indexing, collection, shared, clients>>

\* The server answers; a collection that another call has created by now, or that is
\* not there, is an error.
CallServed(i) ==
  /\ \/ lookup[i].pc = "creating" /\ collection[Server(i)] = Absent
     \/ /\ lookup[i].pc = "calling" /\ lookup[i].kind # "ensure"
        /\ collection[Server(i)] # Absent
  /\ collection' = [collection EXCEPT ![Server(i)] =
                      Apply(lookup[i].kind, @, lookup[i].owner)]
  /\ Becomes(i, [AfterCall(i, "done") EXCEPT
       !.points = IF lookup[i].kind = "search" THEN collection[Server(i)] ELSE {}])
  /\ UNCHANGED <<indexing, shared, clients>>

\* The server refuses, the connection breaks, or close has taken the client away.
CallFails(i) ==
  /\ lookup[i].pc \in {"calling", "creating"}
  /\ Becomes(i, AfterCall(i, "failed"))
  /\ UNCHANGED <<indexing, collection, shared, clients>>

\* The effect without the answer.
AnswerIsLost(i) ==
  /\ lookup[i].pc = "creating" \/ (lookup[i].pc = "calling" /\ lookup[i].kind # "ensure")
  /\ lookup[i].pc = "creating" \/ collection[Server(i)] # Absent
  /\ collection' = [collection EXCEPT ![Server(i)] =
                      Apply(lookup[i].kind, @, lookup[i].owner)]
  /\ Becomes(i, AfterCall(i, "failed"))
  /\ UNCHANGED <<indexing, shared, clients>>

\* _close_transient_client: an error of it is not raised.
CloseTransient(i) ==
  /\ lookup[i].pc \in {"closing done", "closing failed"}
  /\ \E state \in {"closed", "broken"} :
       clients' = [clients EXCEPT ![lookup[i].client].state = state]
  /\ Ends(i, IF lookup[i].pc = "closing done" THEN "done" ELSE "failed")
  /\ UNCHANGED <<indexing, collection, shared>>

\* close: the client is let go before it is closed.
BeginClose(i) ==
  /\ indexing = "single" /\ lookup[i].pc = "idle" /\ shared # NoClient
  /\ shared' = NoClient
  /\ Becomes(i, [Resting EXCEPT !.kind = "close", !.client = shared, !.pc = "closing"])
  /\ UNCHANGED <<indexing, collection, clients>>

EndClose(i) ==
  /\ lookup[i].pc = "closing"
  /\ \E state \in {"closed", "broken"} :
       /\ clients' = [clients EXCEPT ![lookup[i].client].state = state]
       /\ Ends(i, IF state = "closed" THEN "done" ELSE "failed")
  /\ UNCHANGED <<indexing, collection, shared>>

EndLookup(i) ==
  /\ lookup[i].pc \in {"done", "failed"}
  /\ Becomes(i, Resting)
  /\ UNCHANGED <<indexing, collection, shared, clients>>

VectorStep(i) ==
  \/ BeginEmbedding(i) \/ AnswerBatch(i)
  \/ UseMemory(i)
  \/ BeginCall(i) \/ CollectionExists(i) \/ CallServed(i) \/ CallFails(i)
  \/ AnswerIsLost(i) \/ CloseTransient(i)
  \/ BeginClose(i) \/ EndClose(i) \/ EndLookup(i)

-----------------------------------------------------------------------------
\* An embedding call that succeeds gives each input its own vector, in their order
\* over all batches, and all of one dimension; one that fails gives none.
VectorsBelong ==
  \A i \in Indexers :
    /\ (lookup[i].kind = "embed" /\ lookup[i].pc = "done") =>
         /\ Len(lookup[i].results) = Texts
         /\ \A k \in 1..Texts :
              /\ lookup[i].results[k].id = k - 1 /\ lookup[i].results[k].of = k - 1
              /\ lookup[i].results[k].dim = lookup[i].results[1].dim
    /\ lookup[i].pc = "failed" => lookup[i].results = << >>

\* On the server of a tenant are only points of its own, and a search finds no others.
IndexesStayApart ==
  indexing = "tenants" =>
    /\ \A t \in Owners \cup {Home} :
         collection[t] # Absent => \A p \in collection[t] : p[1] = t
    /\ \A i \in Indexers : \A p \in lookup[i].points : p[1] = lookup[i].owner

\* A client that is open is the shared one, or one a call still uses and will close.
ClientsAreClosed ==
  \A n \in DOMAIN clients :
    clients[n].state = "open" =>
      \/ n = shared
      \/ \E i \in Indexers :
           lookup[i].client = n /\ lookup[i].pc \notin {"idle", "done", "failed"}
=============================================================================
