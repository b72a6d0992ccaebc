----------------------------- MODULE FileStorage ------------------------------
(***************************************************************************)
(* The filesystem storage of objects                                       *)
(* (adapters/outbound/filesystem/file_storage.py), shared by the worker    *)
(* processes of an application, on one key.  An object is two files, its   *)
(* content and its metadata, each replaced as a whole but not together.    *)
(* A content is known by the put that wrote it.                            *)
(***************************************************************************)
EXTENDS Naturals

CONSTANTS
  Workers,        \* processes
  Chunks,         \* chunks of every content
  MaxPuts,        \* bound on the life of the key
  MaxStorageFaults  \* bound on the system calls that fail, and on kills

FileStorageAssumption ==
  Chunks \in Nat \ {0} /\ MaxPuts \in Nat /\ MaxStorageFaults \in Nat

VARIABLES
  content,   \* the file of the object
  metadata,  \* the put its metadata file describes
  access,    \* the call each worker is in
  puts,      \* puts that began
  stale,     \* content and metadata may be those of different puts
  failures   \* the calls that failed, and kills

storageVars == <<content, metadata, access, puts, stale, failures>>

NoPut == 0
NoFile == [put |-> NoPut, chunks |-> 0]

\* `put' is what a writer writes, `described' the metadata a reader has read, `body'
\* what it read after; `alone' until another worker's call overlaps and one writes.
Resting == [pc |-> "idle", put |-> NoPut, chunks |-> 0, described |-> NoPut,
            body |-> NoFile, alone |-> TRUE]

StorageTypeOK ==
  LET File == [put : 0..MaxPuts, chunks : 0..Chunks] IN
  /\ content \in File /\ metadata \in 0..MaxPuts /\ puts \in 0..MaxPuts
  /\ access \in [Workers ->
       [pc : {"idle", "stream", "stat", "describe", "unlink", "load", "open", "answered"},
        put : 0..MaxPuts, chunks : 0..Chunks, described : 0..MaxPuts, body : File,
        alone : BOOLEAN]]
  /\ stale \in BOOLEAN /\ failures \in 0..MaxStorageFaults

StorageInit ==
  /\ content = NoFile /\ metadata = NoPut /\ puts = 0
  /\ access = [w \in Workers |-> Resting]
  /\ stale = FALSE /\ failures = 0

-----------------------------------------------------------------------------
Doing(w, pc) == access[w].pc = pc
Turn(w, pc) == access' = [access EXCEPT ![w].pc = pc]
Active(w) == access[w].pc \notin {"idle", "answered"}
Writes(w) == access[w].pc \in {"stream", "stat", "describe", "unlink"}
Others(w) == Workers \ {w}

\* A call begins, and overlaps with those in progress.
Begin(w, frame, writes) ==
  access' = [v \in Workers |->
    IF v = w
    THEN [frame EXCEPT !.alone =
            ~\E o \in Others(w) : IF writes THEN Active(o) ELSE Writes(o)]
    ELSE [access[v] EXCEPT !.alone = @ /\ ~writes /\ ~Writes(v)]]

\* A writer that was alone leaves content and metadata in agreement.
WriterEnds(w) ==
  /\ access' = [access EXCEPT ![w] = Resting]
  /\ stale' = ~access[w].alone

-----------------------------------------------------------------------------
PutBegins(w) ==
  /\ Doing(w, "idle") /\ puts < MaxPuts /\ puts' = puts + 1
  /\ Begin(w, [Resting EXCEPT !.pc = "stream", !.put = puts'], TRUE)
  /\ UNCHANGED <<content, metadata, stale, failures>>

\* Defect that TLC must notice: chunks are written to the object itself.
WriteChunk_InPlace(w) ==
  /\ Doing(w, "stream") /\ access[w].chunks < Chunks
  /\ access' = [access EXCEPT ![w].chunks = @ + 1]
  /\ content' = [put |-> access[w].put, chunks |-> access[w].chunks + 1]
  /\ UNCHANGED <<metadata, puts, stale, failures>>

\* A chunk, to a temporary file.
WriteChunk(w) ==
  /\ Doing(w, "stream") /\ access[w].chunks < Chunks
  /\ access' = [access EXCEPT ![w].chunks = @ + 1]
  /\ UNCHANGED <<content, metadata, puts, stale, failures>>

\* The caller's iterator raises, or the caller leaves: the temporary file goes.
StreamRaises(w) ==
  /\ Doing(w, "stream")
  /\ access' = [access EXCEPT ![w] = Resting]
  /\ UNCHANGED <<content, metadata, puts, stale, failures>>

\* _replace_file
ReplaceFile(w) ==
  /\ Doing(w, "stream") /\ access[w].chunks = Chunks
  /\ content' = [put |-> access[w].put, chunks |-> Chunks]
  /\ Turn(w, "stat")
  /\ UNCHANGED <<metadata, puts, stale, failures>>

\* The file is looked at again: put raises FileStorageNotFound if it has gone.
StatReplaced(w) ==
  /\ Doing(w, "stat")
  /\ IF content = NoFile
     THEN access' = [access EXCEPT ![w] = Resting]
     ELSE Turn(w, "describe")
  /\ stale' = (stale \/ content = NoFile)
  /\ UNCHANGED <<content, metadata, puts, failures>>

\* _write_metadata
WriteMetadata(w) ==
  /\ Doing(w, "describe")
  /\ metadata' = access[w].put
  /\ WriterEnds(w)
  /\ UNCHANGED <<content, puts, failures>>

-----------------------------------------------------------------------------
\* delete: the content, then the metadata, each if it is there.
DeleteContent(w) ==
  /\ Doing(w, "idle")
  /\ content' = NoFile
  /\ Begin(w, [Resting EXCEPT !.pc = "unlink"], TRUE)
  /\ UNCHANGED <<metadata, puts, stale, failures>>

DeleteMetadata(w) ==
  /\ Doing(w, "unlink")
  /\ metadata' = NoPut
  /\ WriterEnds(w)
  /\ UNCHANGED <<content, puts, failures>>

-----------------------------------------------------------------------------
\* get: stat needs the object, reads its metadata, and the body is opened when it
\* is iterated, after the worker may have done other things.
GetBegins(w) ==
  /\ Doing(w, "idle")
  /\ IF content = NoFile
     THEN UNCHANGED access
     ELSE Begin(w, [Resting EXCEPT !.pc = "load"], FALSE)
  /\ UNCHANGED <<content, metadata, puts, stale, failures>>

LoadMetadata(w) ==
  /\ Doing(w, "load")
  /\ access' = [access EXCEPT ![w].pc = "open", ![w].described = metadata]
  /\ UNCHANGED <<content, metadata, puts, stale, failures>>

\* An open file keeps its content when the path is replaced or removed.
ReadBody(w) ==
  /\ Doing(w, "open")
  /\ access' = IF content = NoFile
               THEN [access EXCEPT ![w] = Resting]
               ELSE [access EXCEPT ![w].pc = "answered", ![w].body = content]
  /\ UNCHANGED <<content, metadata, puts, stale, failures>>

GetEnds(w) ==
  /\ Doing(w, "answered")
  /\ access' = [access EXCEPT ![w] = Resting]
  /\ UNCHANGED <<content, metadata, puts, stale, failures>>

-----------------------------------------------------------------------------
\* OSError, or a kill: what was done so far remains.
WriterFails(w) ==
  /\ Writes(w)
  /\ failures < MaxStorageFaults /\ failures' = failures + 1
  /\ access' = [access EXCEPT ![w] = Resting]
  /\ stale' = (stale \/ ~Doing(w, "stream"))
  /\ UNCHANGED <<content, metadata, puts>>

StorageStep(w) ==
  \/ PutBegins(w) \/ WriteChunk(w) \/ StreamRaises(w) \/ ReplaceFile(w)
  \/ StatReplaced(w) \/ WriteMetadata(w)
  \/ DeleteContent(w) \/ DeleteMetadata(w)
  \/ GetBegins(w) \/ LoadMetadata(w) \/ ReadBody(w) \/ GetEnds(w)
  \/ WriterFails(w)

-----------------------------------------------------------------------------
\* A get reads the whole content of one put, whatever runs, fails or is killed
\* beside it; and the metadata it returns is of that put if no write overlapped with
\* it and the last writes ran to their end one after the other.
GetsAreWhole ==
  \A w \in Workers : Doing(w, "answered") =>
    /\ access[w].body.chunks = Chunks
    /\ access[w].alone /\ ~stale => access[w].described = access[w].body.put
=============================================================================
