----------------------------- MODULE CloudStorage -----------------------------
(***************************************************************************)
(* Objects kept by a provider (adapters/outbound/{s3,gcs,azure_blob}/      *)
(* file_storage.py), on one key.  Each call runs in a thread, which goes   *)
(* on when the caller has left.  A content is known by the put that wrote  *)
(* it; a provider stores it with its metadata or not at all.               *)
(***************************************************************************)
EXTENDS Naturals

CONSTANTS
  Workers,  \* tasks and processes
  MaxPuts   \* bound on the life of the key

CloudStorageAssumption == MaxPuts \in Nat

VARIABLES
  provider,  \* whose storage this is
  object,    \* the put whose content and metadata the key has
  transfer,  \* the call each worker is in
  started,   \* puts that began
  strays,    \* writes whose callers have left
  expected   \* the put the key must have, if its writers came one after the other

cloudVars == <<provider, object, transfer, started, strays, expected>>

NoObject == 0
Unsure == MaxPuts + 1

\* A deletion writes NoObject.  `alone' until the write of another overlaps.
AtRest == [pc |-> "idle", put |-> NoObject, described |-> NoObject, body |-> NoObject,
           alone |-> TRUE]

CloudTypeOK ==
  /\ provider \in {"s3", "gcs", "azure"}
  /\ object \in 0..MaxPuts /\ started \in 0..MaxPuts /\ strays \subseteq 0..MaxPuts
  /\ transfer \in [Workers ->
       [pc : {"idle", "spool", "call", "properties", "download", "answered"},
        put : 0..MaxPuts, described : 0..MaxPuts, body : 0..MaxPuts, alone : BOOLEAN]]
  /\ expected \in 0..Unsure

CloudInit ==
  /\ provider \in {"s3", "gcs", "azure"}
  /\ object = NoObject /\ started = 0 /\ strays = {} /\ expected = NoObject
  /\ transfer = [w \in Workers |-> AtRest]

-----------------------------------------------------------------------------
Is(w, pc) == transfer[w].pc = pc
To(w, pc) == transfer' = [transfer EXCEPT ![w].pc = pc]
Rests(w) == transfer' = [transfer EXCEPT ![w] = AtRest]
Writing(w) == transfer[w].pc \in {"spool", "call", "properties"}
Reading(w) == transfer[w].pc \in {"download", "answered"}

\* A writer begins, beside every call in progress.
WriterBegins(w, pc, put) ==
  LET beside == strays # {} \/ \E o \in Workers \ {w} : Writing(o) IN
  transfer' = [v \in Workers |->
    IF v = w THEN [AtRest EXCEPT !.pc = pc, !.put = put, !.alone = ~beside]
    ELSE IF Writing(v) \/ Reading(v) THEN [transfer[v] EXCEPT !.alone = FALSE]
    ELSE transfer[v]]

ReaderFrame(w) ==
  [AtRest EXCEPT !.described = object,
                 !.alone = strays = {} /\ ~\E o \in Workers \ {w} : Writing(o)]

\* A call that wrote, or may have written, ends.
Wrote(w, surely) ==
  /\ Rests(w)
  /\ expected' = IF surely /\ transfer[w].alone THEN transfer[w].put ELSE Unsure

-----------------------------------------------------------------------------
\* put: the caller's iterator fills a temporary file, whatever the provider.
PutSpools(w) ==
  /\ Is(w, "idle") /\ started < MaxPuts /\ started' = started + 1
  /\ WriterBegins(w, "spool", started')
  /\ UNCHANGED <<provider, object, strays, expected>>

Spooled(w) ==
  /\ Is(w, "spool")
  /\ To(w, "call") \/ Rests(w)  \* the iterator raises, or the caller leaves
  /\ UNCHANGED <<provider, object, started, strays, expected>>

DeleteBegins(w) ==
  /\ Is(w, "idle")
  /\ WriterBegins(w, "call", NoObject)
  /\ UNCHANGED <<provider, object, started, strays, expected>>

\* Defect that TLC must notice: an object that is there is kept.
Lands_Once(put) == object' = IF object = NoObject THEN put ELSE object

\* An object that is there is overwritten.
Lands(put) == object' = put

\* put_object, upload_from_file, upload_blob; delete_object, delete, delete_blob.
CallReturns(w) ==
  /\ Is(w, "call")
  /\ Lands(transfer[w].put)
  /\ IF provider = "azure" /\ transfer[w].put # NoObject
     THEN To(w, "properties") /\ UNCHANGED expected
     ELSE Wrote(w, TRUE)
  /\ UNCHANGED <<provider, started, strays>>

\* The properties of the blob are read for the answer; it may have gone.
BlobProperties(w) ==
  /\ Is(w, "properties")
  /\ Wrote(w, TRUE)
  /\ UNCHANGED <<provider, object, started, strays>>

\* The provider refuses, or stores and does not answer.
CallFails(w) ==
  \/ /\ Is(w, "call") /\ Rests(w) /\ UNCHANGED <<object, expected>>
     /\ UNCHANGED <<provider, started, strays>>
  \/ /\ Is(w, "call") /\ Lands(transfer[w].put) /\ Wrote(w, FALSE)
     /\ UNCHANGED <<provider, started, strays>>

\* The caller is cancelled: its spooled file is closed, and the thread goes on.
CallerLeaves(w) ==
  /\ Is(w, "call")
  /\ strays' = strays \cup {transfer[w].put}
  /\ Rests(w)
  /\ expected' = Unsure
  /\ UNCHANGED <<provider, object, started>>

\* The thread had read the content, or fails on the closed file.
StrayEnds(put) ==
  /\ put \in strays /\ strays' = strays \ {put}
  /\ \/ /\ object' = put /\ expected' = Unsure
        /\ transfer' = [w \in Workers |->
             IF Writing(w) \/ Reading(w) THEN [transfer[w] EXCEPT !.alone = FALSE]
             ELSE transfer[w]]
     \/ UNCHANGED <<object, transfer, expected>>
  /\ UNCHANGED <<provider, started>>

-----------------------------------------------------------------------------
\* One response has the metadata and the body.
GetObject(w) ==
  /\ provider = "s3"
  /\ Is(w, "idle") /\ object # NoObject
  /\ transfer' = [transfer EXCEPT
       ![w] = [ReaderFrame(w) EXCEPT !.pc = "answered", !.body = object]]
  /\ UNCHANGED <<provider, object, started, strays, expected>>

\* The metadata of the object, before its body.
GetProperties(w) ==
  /\ provider \in {"gcs", "azure"}
  /\ Is(w, "idle") /\ object # NoObject
  /\ transfer' = [transfer EXCEPT ![w] = [ReaderFrame(w) EXCEPT !.pc = "download"]]
  /\ UNCHANGED <<provider, object, started, strays, expected>>

\* download_blob takes what is there by then.
DownloadBlob(w) ==
  /\ provider = "azure" /\ Is(w, "download")
  /\ IF object = NoObject THEN Rests(w)
     ELSE transfer' = [transfer EXCEPT ![w].pc = "answered", ![w].body = object]
  /\ UNCHANGED <<provider, object, started, strays, expected>>

\* A blob that was reloaded reads the generation it found, as long as there is one.
ReadGeneration(w) ==
  /\ provider = "gcs" /\ Is(w, "download")
  /\ IF object # transfer[w].described THEN Rests(w)
     ELSE transfer' = [transfer EXCEPT ![w].pc = "answered", ![w].body = object]
  /\ UNCHANGED <<provider, object, started, strays, expected>>

BodyRead(w) ==
  /\ Is(w, "answered") /\ Rests(w)
  /\ UNCHANGED <<provider, object, started, strays, expected>>

CloudStep(w) ==
  \/ PutSpools(w) \/ Spooled(w) \/ DeleteBegins(w)
  \/ CallReturns(w) \/ BlobProperties(w) \/ CallFails(w) \/ CallerLeaves(w)
  \/ GetObject(w) \/ GetProperties(w) \/ DownloadBlob(w) \/ ReadGeneration(w)
  \/ BodyRead(w)

CloudNext == (\E w \in Workers : CloudStep(w)) \/ \E put \in strays : StrayEnds(put)
CloudSpec == CloudInit /\ [][CloudNext]_cloudVars

-----------------------------------------------------------------------------
\* The metadata of a get are those of its body, except where they are asked for apart
\* and a write came between; and when writes ran one after the other to their end, it
\* reads the last one.
GetsAreCurrent ==
  \A w \in Workers : Is(w, "answered") =>
    /\ provider # "azure" \/ transfer[w].alone => transfer[w].described = transfer[w].body
    /\ transfer[w].alone /\ expected # Unsure => transfer[w].body = expected
=============================================================================
