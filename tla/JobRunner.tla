----------------------------- MODULE JobRunner ------------------------------
(***************************************************************************)
(* One job store (adapters/outbound/memory/job_store.py) and the tasks     *)
(* that work on it through adapters/outbound/memory/job_runner.py: tasks   *)
(* awaiting run(job), clients awaiting cancel(job) or retry(job), tasks    *)
(* reporting progress through a context a handler was given, submissions   *)
(* and the retention purge.                                                *)
(*                                                                         *)
(* Each operation of the store port is one atomic step, as the port        *)
(* promises; between two of them, and while the handler runs, every other  *)
(* task may take steps.                                                    *)
(***************************************************************************)
EXTENDS JobLifecycle, FiniteSets

CONSTANTS
  Jobs,            \* identities uuid7 will give to submitted jobs
  NoJob,
  Keys,            \* idempotency keys
  Requests,        \* the requests that may be submitted
  Runners,         \* tasks that await run(job)
  Clients,         \* tasks that await cancel(job) or retry(job)
  Reporters,       \* tasks that call report_progress on a handler's context
  ChangeTries,     \* range(8) of _change
  StoreFaults,     \* a store call may be lost, before or after it commits
  ClockMayRewind,  \* the injected clock is not always monotonic
  MaxClock, MaxVersion  \* bounds of the model, none of the code

Request == [key : Keys \union {NoKey}, cancellable : BOOLEAN,
            maxAttempts : Nat \ {0}, retention : Nat \ {0}]

ASSUME RequestsAssumption == Requests \subseteq Request
ASSUME NoJobAssumption == NoJob \notin Jobs
ASSUME NoKeyAssumption == NoKey \notin Keys
ASSUME TasksAssumption ==
  /\ Runners \intersect (Clients \union Reporters) = {}
  /\ Clients \intersect Reporters = {}
ASSUME BoundsAssumption ==
  /\ ChangeTries \in Nat \ {0}
  /\ MaxClock \in Nat /\ MaxVersion \in Nat
  /\ StoreFaults \in BOOLEAN /\ ClockMayRewind \in BOOLEAN

Tasks == Runners \union Clients \union Reporters

VARIABLES
  records,   \* _records: job -> JobRecord, or NoRecord
  keys,      \* _keys: idempotency key -> request fingerprint and job
  issued,    \* every identity given out, never given twice
  contexts,  \* the <<job, attempt>> of every _MemoryContext given to a handler
  call,      \* the frame of each task's current runner operation
  purgeNow,  \* `now' of a purge_expired that has not taken the lock yet
  clock

vars == <<records, keys, issued, contexts, call, purgeNow, clock>>

-----------------------------------------------------------------------------
NoRecord == [status |-> "absent"]
NoEntry  == [job |-> NoJob]

Stored(j) == records[j].status # "absent"

\* A task with no operation in progress.
Idle == [pc |-> "idle", job |-> NoJob, attempt |-> None, seen |-> None,
         tries |-> 0, change |-> CancelJob, work |-> "unset"]

\* The frame of an operation at its first await.
Frame(pc, j, a, c) ==
  [Idle EXCEPT !.pc = pc, !.job = j, !.attempt = a, !.change = c]

Record == RecordOf(Requests)

Frames == [pc : {"idle", "load", "read", "commit", "execute", "token"},
           job : Jobs \union {NoJob}, attempt : Nat \union {None},
           seen : Nat \union {None}, tries : Nat, change : Changes,
           work : {"unset", "valid", "invalid"}]

TypeOK ==
  /\ records \in [Jobs -> Record \union {NoRecord}]
  /\ keys \in [Keys -> [request : Requests, job : Jobs] \union {NoEntry}]
  /\ issued \subseteq Jobs
  /\ contexts \subseteq Jobs \X Nat
  /\ call \in [Tasks -> Frames]
  /\ purgeNow \in Time \union {None}
  /\ clock \in Time

Init ==
  /\ records = [j \in Jobs |-> NoRecord]
  /\ keys = [k \in Keys |-> NoEntry]
  /\ issued = {}
  /\ contexts = {}
  /\ call = [t \in Tasks |-> Idle]
  /\ purgeNow = None
  /\ clock = 0

-----------------------------------------------------------------------------
(* The store.                                                              *)

\* InMemoryJobStore.submit of a request whose key is free or missing.  A known
\* key changes nothing, whether it returns its job or raises
\* JobIdempotencyConflict.
Submit(j, request) ==
  /\ j \notin issued
  /\ request.key \in Keys => keys[request.key] = NoEntry
  /\ records' = [records EXCEPT ![j] = NewRecord(request, clock)]
  /\ keys' = [k \in Keys |-> IF k = request.key
                             THEN [request |-> request, job |-> j] ELSE keys[k]]
  /\ issued' = issued \union {j}
  /\ UNCHANGED <<contexts, call, purgeNow, clock>>

\* purge_expired reads the clock before it waits for the lock ...
PurgeReadsClock ==
  /\ purgeNow = None
  /\ purgeNow' = clock
  /\ UNCHANGED <<records, keys, issued, contexts, call, clock>>

\* A defect that TLC must notice: retention counted from the submission.
Expired_SinceCreation(j, now) ==
  /\ records[j].status \in Terminal
  /\ now >= records[j].createdAt + records[j].request.retention

Expired(j, now) ==
  /\ records[j].status \in Terminal
  /\ now >= records[j].finishedAt + records[j].request.retention

\* A defect that TLC must notice: the keys of removed jobs survive them.
PurgeSweeps_KeepsKeys ==
  /\ purgeNow # None
  /\ records' = [j \in Jobs |-> IF Expired(j, purgeNow) THEN NoRecord
                                                        ELSE records[j]]
  /\ purgeNow' = None
  /\ UNCHANGED <<keys, issued, contexts, call, clock>>

\* ... and removes, under the lock, the records that had expired by then and
\* the keys that lead to them.
PurgeSweeps ==
  /\ purgeNow # None
  /\ LET expired == {j \in Jobs : Expired(j, purgeNow)} IN
       /\ records' = [j \in Jobs |-> IF j \in expired THEN NoRecord
                                                      ELSE records[j]]
       /\ keys' = [k \in Keys |-> IF keys[k].job \in expired THEN NoEntry
                                                             ELSE keys[k]]
  /\ purgeNow' = None
  /\ UNCHANGED <<issued, contexts, call, clock>>

\* The version check of InMemoryJobStore.change, and the conditions under which
\* it raises ValueError: a result of the wrong type, a clock behind the record.
Current(t) == records[call[t].job].version = call[t].seen

RaisesValueError(t) ==
  \/ call[t].change.type = "succeed" /\ call[t].work = "invalid"
  \/ clock < records[call[t].job].updatedAt

\* The change t has in hand would be stored.
Accepted(t) ==
  /\ Stored(call[t].job)
  /\ Current(t)
  /\ ~RaisesValueError(t)
  /\ Permits(records[call[t].job], call[t].change)

Store(t) ==
  records' = [records EXCEPT ![call[t].job] =
                Transition(@, call[t].change, clock)]

-----------------------------------------------------------------------------
(* Calls of the runner.  A frame passes through                             *)
(*   load    the get that precedes everything in run, cancel and retry      *)
(*   read    the get at the head of each iteration of _change               *)
(*   commit  store.change with the version that was read                    *)
(*   execute handler.execute                                                *)
(*   token   context.is_requested after the handler stopped on cancellation *)

Enter(t, frame) ==
  /\ call[t].pc = "idle"
  /\ call' = [call EXCEPT ![t] = frame]
  /\ UNCHANGED <<records, keys, issued, contexts, purgeNow, clock>>

Run(t, j) == t \in Runners /\ Enter(t, Frame("load", j, None, StartJob))

Control(t, j) ==
  /\ t \in Clients
  /\ \E c \in {CancelJob, RetryJob} : Enter(t, Frame("load", j, None, c))

\* A context may be used during its attempt, or later by a task that kept it.
Report(t) ==
  /\ t \in Reporters
  /\ \E ctx \in contexts :
       /\ Stored(ctx[1]) => records[ctx[1]].version < MaxVersion
       /\ Enter(t, Frame("read", ctx[1], ctx[2], ReportProgress(ctx[2])))

\* The operation returns or raises to its caller; the store is left alone.
Leave(t) ==
  /\ call' = [call EXCEPT ![t] = Idle]
  /\ UNCHANGED <<records, keys, issued, contexts, purgeNow, clock>>

AtStore(t) == call[t].pc \in {"load", "read", "commit", "token"}

\* JobNotFound.
NotFound(t) == AtStore(t) /\ ~Stored(call[t].job) /\ Leave(t)

\* run keeps the version it read for StartJob, which is not retried; cancel
\* and retry keep the attempt they mean.
Load(t) ==
  /\ call[t].pc = "load"
  /\ Stored(call[t].job)
  /\ LET r == records[call[t].job] IN
       call' = [call EXCEPT ![t] =
                  IF t \in Runners
                  THEN [@ EXCEPT !.pc = "commit", !.seen = r.version]
                  ELSE [@ EXCEPT !.pc = "read", !.attempt = r.attempt]]
  /\ UNCHANGED <<records, keys, issued, contexts, purgeNow, clock>>

\* A defect that TLC must notice: the attempt is not compared.
Read_AnyAttempt(t) ==
  /\ call[t].pc = "read"
  /\ Stored(call[t].job)
  /\ call' = [call EXCEPT ![t].pc = "commit",
                          ![t].seen = records[call[t].job].version]
  /\ UNCHANGED <<records, keys, issued, contexts, purgeNow, clock>>

\* The head of an iteration of _change: the attempt must still be current.
Read(t) ==
  /\ call[t].pc = "read"
  /\ Stored(call[t].job)
  /\ LET r == records[call[t].job] IN
       IF r.attempt = call[t].attempt
       THEN /\ call' = [call EXCEPT ![t].pc = "commit", ![t].seen = r.version]
            /\ UNCHANGED <<records, keys, issued, contexts, purgeNow, clock>>
       ELSE Leave(t)

\* store.change accepts StartJob: the handler gets a context and runs.
Claim(t) ==
  /\ call[t].pc = "commit" /\ call[t].change.type = "start"
  /\ Accepted(t)
  /\ Store(t)
  /\ LET a == records[call[t].job].attempt IN
       /\ contexts' = contexts \union {<<call[t].job, a>>}
       /\ call' = [call EXCEPT ![t].pc = "execute", ![t].attempt = a]
  /\ UNCHANGED <<keys, issued, purgeNow, clock>>

\* store.change accepts any other change: the operation is over.
Commit(t) ==
  /\ call[t].pc = "commit" /\ call[t].change.type # "start"
  /\ Accepted(t)
  /\ Store(t)
  /\ call' = [call EXCEPT ![t] = Idle]
  /\ UNCHANGED <<keys, issued, contexts, purgeNow, clock>>

\* A defect that TLC must notice: the first conflict ends the operation.
Conflict_NoRetry(t) ==
  call[t].pc = "commit" /\ Stored(call[t].job) /\ ~Current(t) /\ Leave(t)

\* JobVersionConflict: _change goes round again while it has tries left;
\* StartJob is called outside _change, once.
Conflict(t) ==
  /\ call[t].pc = "commit"
  /\ Stored(call[t].job) /\ ~Current(t)
  /\ IF call[t].change.type = "start" \/ call[t].tries + 1 = ChangeTries
     THEN Leave(t)
     ELSE /\ call' = [call EXCEPT ![t].pc = "read", ![t].tries = @ + 1]
          /\ UNCHANGED <<records, keys, issued, contexts, purgeNow, clock>>

\* t goes on with change c, in a new _change.
Conclude(t, c) ==
  /\ call' = [call EXCEPT ![t].pc = "read", ![t].change = c, ![t].tries = 0]
  /\ UNCHANGED <<records, keys, issued, contexts, purgeNow, clock>>

\* ValueError out of store.change: run turns that of SucceedJob into a failure
\* of the handler, every other caller lets it through.
ValueRaised(t) ==
  /\ call[t].pc = "commit"
  /\ Stored(call[t].job) /\ Current(t) /\ RaisesValueError(t)
  /\ IF call[t].change.type = "succeed"
     THEN Conclude(t, FailJob("handler_failed"))
     ELSE Leave(t)

\* JobTransitionError.
Refused(t) ==
  /\ call[t].pc = "commit"
  /\ Stored(call[t].job) /\ Current(t) /\ ~RaisesValueError(t)
  /\ ~Permits(records[call[t].job], call[t].change)
  /\ Leave(t)

-----------------------------------------------------------------------------
(* How handler.execute ends.                                               *)

HandlerReturns(t) ==
  /\ call[t].pc = "execute"
  /\ \E work \in {"valid", "invalid"} :
       call' = [call EXCEPT ![t].pc = "read", ![t].work = work, ![t].tries = 0,
                            ![t].change = SucceedJob(call[t].attempt)]
  /\ UNCHANGED <<records, keys, issued, contexts, purgeNow, clock>>

HandlerRaises(t) ==
  /\ call[t].pc = "execute"
  /\ Conclude(t, FailJob("handler_failed"))

\* A defect that TLC must notice: CancelledError propagates, recording nothing.
OwnerCancelled_Unrecorded(t) == call[t].pc = "execute" /\ Leave(t)

\* asyncio.CancelledError: the task that awaits run() was cancelled.
OwnerCancelled(t) ==
  /\ call[t].pc = "execute"
  /\ Conclude(t, FailJob("execution_interrupted"))

\* JobCancellationRequested, which a handler may also raise of its own accord.
HandlerStops(t) ==
  /\ call[t].pc = "execute"
  /\ call' = [call EXCEPT ![t].pc = "token"]
  /\ UNCHANGED <<records, keys, issued, contexts, purgeNow, clock>>

\* context.is_requested, and what run makes of its answer.
AskToken(t) ==
  /\ call[t].pc = "token"
  /\ Stored(call[t].job)
  /\ LET r == records[call[t].job] IN
       IF r.attempt # call[t].attempt \/ r.status # RUNNING
       THEN Leave(t)
       ELSE Conclude(t, IF r.cancellationRequested THEN Acknowledge
                        ELSE FailJob("handler_failed"))

-----------------------------------------------------------------------------
(* What the environment may do.                                            *)

\* A store call fails before it takes effect, or the task is cancelled there.
CallLost(t) == StoreFaults /\ AtStore(t) /\ Leave(t)

\* A store call takes effect and its caller never learns of it.
ReplyLost(t) ==
  /\ StoreFaults
  /\ call[t].pc = "commit"
  /\ Accepted(t)
  /\ Store(t)
  /\ call' = [call EXCEPT ![t] = Idle]
  /\ UNCHANGED <<keys, issued, contexts, purgeNow, clock>>

Tick ==
  /\ clock < MaxClock
  /\ clock' = clock + 1
  /\ UNCHANGED <<records, keys, issued, contexts, call, purgeNow>>

Rewind ==
  /\ ClockMayRewind
  /\ clock > 0
  /\ clock' = clock - 1
  /\ UNCHANGED <<records, keys, issued, contexts, call, purgeNow>>

-----------------------------------------------------------------------------
StoreStep(t) ==
  \/ NotFound(t) \/ Load(t) \/ Read(t) \/ Claim(t) \/ Commit(t)
  \/ Conflict(t) \/ ValueRaised(t) \/ Refused(t) \/ AskToken(t)

HandlerEnds(t) ==
  HandlerReturns(t) \/ HandlerRaises(t) \/ OwnerCancelled(t) \/ HandlerStops(t)

Next ==
  \/ \E j \in Jobs, request \in Requests : Submit(j, request)
  \/ PurgeReadsClock \/ PurgeSweeps
  \/ \E t \in Tasks, j \in issued : Run(t, j) \/ Control(t, j)
  \/ \E t \in Tasks :
       Report(t) \/ StoreStep(t) \/ HandlerEnds(t) \/ CallLost(t) \/ ReplyLost(t)
  \/ Tick \/ Rewind

Spec == Init /\ [][Next]_vars

\* The event loop resumes every task whose awaited store call is done, and every
\* handler ends.  Nothing obliges anyone to submit, run, cancel, retry or purge.
FairSpec ==
  /\ Spec
  /\ \A t \in Tasks : WF_vars(StoreStep(t))
  /\ \A t \in Runners : WF_vars(HandlerEnds(t))

-----------------------------------------------------------------------------
(* Correctness.                                                            *)

\* No sequence of changes drives a job into a record its own model would refuse
\* to build: timestamps, result, error, cancellation flag and attempt history
\* agree (JobRecord.validate_lifecycle).
RecordsValid == \A j \in Jobs : Stored(j) => ValidRecord(records[j])

\* What a record shows of a result or of progress was produced by the attempt it
\* is on, never by an earlier one that is still alive somewhere (_change:
\* "never apply work to a later attempt").
WorkOfCurrentAttempt ==
  \A j \in Jobs : Stored(j) =>
    /\ records[j].result \in {None, records[j].attempt}
    /\ records[j].progress \in {None, records[j].attempt}

\* Past its first get, an operation of _change knows the attempt it works for.
Working(t) ==
  \/ call[t].pc \in {"read", "execute", "token"}
  \/ call[t].pc = "commit" /\ call[t].change.type # "start"

\* t is executing an attempt of j, or has yet to publish how it ended.
Owns(t, j) == t \in Runners /\ call[t].job = j /\ Working(t)

\* However many tasks await run(j), one attempt is executed by one of them
\* (run: StartJob with the version that was read).
OneExecutionPerAttempt ==
  \A j \in Jobs : \A t, u \in Runners :
    Owns(t, j) /\ Owns(u, j) /\ call[t].attempt = call[u].attempt => t = u

\* A running job is being executed by a task that will publish its outcome: no
\* path through run drops it.  Assumes that no store call is lost, that the
\* clock is monotonic, and that _change meets fewer races than it has tries.
RunningHasOwner ==
  \A j \in Jobs : records[j].status = RUNNING =>
    \E t \in Runners : Owns(t, j) /\ call[t].attempt = records[j].attempt

\* Submission is idempotent per key for as long as the job lives: a key leads to
\* a stored job that was made from that key's request, and no other stored job
\* has the key (submit returns _records[job_id] without a check; purge_expired
\* removes both).
KeysMatchRecords ==
  \A k \in Keys :
    /\ keys[k] # NoEntry =>
         /\ Stored(keys[k].job)
         /\ records[keys[k].job].request = keys[k].request
    /\ \A j \in Jobs : Stored(j) /\ records[j].request.key = k => keys[k].job = j

\* A job leaves the store when its retention is over, counted from the end of its
\* final attempt, even if it was retried while purge_expired waited for the lock.
RetentionRespected ==
  [][\A j \in Jobs : Stored(j) /\ ~Stored(j)' =>
       /\ records[j].status \in Terminal
       /\ clock >= records[j].finishedAt + records[j].request.retention]_vars

\* A job whose handler produced a valid result is never recorded as a failure of
\* the handler.
ValidResultIsNeverAFailure ==
  [][\A t \in Runners :
       /\ call[t].pc = "commit" /\ call[t].work = "valid"
       /\ records'[call[t].job] # records[call[t].job]
       => records'[call[t].job].status # FAILED]_vars

\* A running job does not stay so for ever.
EveryRunEnds ==
  \A j \in Jobs : records[j].status = RUNNING ~> records[j].status # RUNNING

-----------------------------------------------------------------------------
(* The contract of the ports, seen through the public fields of the records. *)

PublicStatus ==
  [j \in Jobs |-> IF Stored(j) THEN records[j].status
                  ELSE IF j \in issued THEN "expired" ELSE "absent"]
PublicTerms ==
  [j \in Jobs |-> IF Stored(j) THEN records[j].request
                  ELSE [cancellable |-> FALSE, maxAttempts |-> 0]]
PublicAttempt == [j \in Jobs |-> IF Stored(j) THEN records[j].attempt ELSE 0]
PublicRequested ==
  [j \in Jobs |-> IF Stored(j) THEN records[j].cancellationRequested ELSE FALSE]

Contract == INSTANCE JobContract WITH
  status <- PublicStatus, terms <- PublicTerms, attempt <- PublicAttempt,
  requested <- PublicRequested, entered <- contexts

\* Every step of the store and of its tasks is one the contract allows, seen
\* through the public fields of the record, or changes none of them.
KeepsContract == Contract!Spec
=============================================================================
