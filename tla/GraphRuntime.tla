---------------------------- MODULE GraphRuntime ----------------------------
(***************************************************************************)
(* The LangGraph runtime of adapters/inbound/langgraph_runtime: sessions   *)
(* that run a graph on a thread (runtime.py, `wait' and `stream'), the     *)
(* catalog of threads and runs (catalog_postgresql.py), the lock of each   *)
(* thread and the cancellation flags (coordination.py, Redis).  A run      *)
(* identity is used by one request.  What a graph computes is abstracted   *)
(* to the fact that its checkpoints reached the thread.                    *)
(***************************************************************************)
EXTENDS Naturals

CONSTANTS
  Threads, Runs, Deleters, Nobody,
  NoThread,
  Streams,      \* the runs served by `stream'; `wait' serves the others
  Cancellable,  \* the runs that clients try to cancel
  MaxCreations, \* bound on the creations of threads
  MaxFaults     \* bound on calls that raise, processes that die and missed leases

ASSUME ActorsAssumption ==
  /\ Nobody \notin Runs \union Deleters /\ Runs \intersect Deleters = {}
  /\ NoThread \notin Threads /\ Streams \subseteq Runs /\ Cancellable \subseteq Runs
  /\ MaxCreations \in Nat /\ MaxFaults \in Nat

VARIABLES
  threads,    \* status of each thread, or "absent"
  runs,       \* status of each run, or "none"
  saved,      \* the runs whose checkpoints each thread holds
  lock,       \* holder of each thread's lock
  cancelled,  \* cancellation flags
  asked,      \* cancel_run calls that have read the run and not yet set its flag
  task,       \* the session of each request
  graph,      \* the execution of each run's graph
  deletion,   \* the delete_thread calls
  creations,
  faults,     \* number of faults so far
  lost,       \* threads whose lock expired under a live holder
  unrecorded, \* runs whose session ended without being able to record it
  detached    \* runs whose session ended while their graph went on

catalog == <<threads, runs, creations>>
flags == <<cancelled, asked>>
history == <<faults, lost, unrecorded, detached>>
vars == <<catalog, saved, lock, flags, task, graph, deletion, history>>

-----------------------------------------------------------------------------
Outcomes == {"success", "error", "interrupted"}

Sessions ==
  [pc : {"idle", "acquire", "create", "execute", "publish", "flag",
         "fail", "clear", "unlock", "done"},
   thread : Threads \union {NoThread}, status : Outcomes]

Deletions ==
  [pc : {"idle", "acquire", "erase", "remove", "unlock"},
   thread : Threads \union {NoThread}]

TypeOK ==
  /\ threads \in [Threads -> {"absent", "idle", "busy", "error", "interrupted"}]
  /\ runs \in [Runs -> Outcomes \union {"none", "running"}]
  /\ saved \in [Threads -> SUBSET Runs]
  /\ lock \in [Threads -> Runs \union Deleters \union {Nobody}]
  /\ cancelled \subseteq Runs /\ asked \subseteq Runs
  /\ task \in [Runs -> Sessions]
  /\ graph \in [Runs -> {"off", "on", "returned", "raised"}]
  /\ deletion \in [Deleters -> Deletions]
  /\ creations \in 0..MaxCreations
  /\ faults \in 0..MaxFaults
  /\ lost \subseteq Threads /\ unrecorded \subseteq Runs /\ detached \subseteq Runs

Init ==
  /\ threads = [t \in Threads |-> "absent"]
  /\ runs = [r \in Runs |-> "none"]
  /\ saved = [t \in Threads |-> {}]
  /\ lock = [t \in Threads |-> Nobody]
  /\ cancelled = {} /\ asked = {}
  /\ task = [r \in Runs |-> [pc |-> "idle", thread |-> NoThread,
                             status |-> "success"]]
  /\ graph = [r \in Runs |-> "off"]
  /\ deletion = [d \in Deleters |-> [pc |-> "idle", thread |-> NoThread]]
  /\ creations = 0
  /\ faults = 0 /\ lost = {} /\ unrecorded = {} /\ detached = {}

\* One more fault.
Faulty == faults < MaxFaults /\ faults' = faults + 1

At(r, pc) == task[r].pc = pc
Thread(r) == task[r].thread
Goto(r, pc) == task' = [task EXCEPT ![r].pc = pc, ![r].status = "success"]
FailWith(r, pc, status) ==
  task' = [task EXCEPT ![r].pc = pc, ![r].status = status]

\* Nothing but the session itself changes.
OnlyTask == UNCHANGED <<catalog, saved, lock, flags, graph, deletion, history>>

-----------------------------------------------------------------------------
(* The catalog.                                                             *)

\* create_thread: an existing thread is returned as it is, or refused.
CreateThread(t) ==
  /\ threads[t] = "absent" /\ creations < MaxCreations
  /\ threads' = [threads EXCEPT ![t] = "idle"]
  /\ creations' = creations + 1
  /\ UNCHANGED <<runs, saved, lock, flags, task, graph, deletion, history>>

\* A defect that TLC must notice: a run does not reference its thread.
Referenced_Always(t) == TRUE

\* The foreign key of arclith_langgraph_run.
Referenced(t) == threads[t] # "absent"

\* create_run, in one transaction.
StoreRun(r) ==
  /\ runs' = [runs EXCEPT ![r] = "running"]
  /\ threads' = [threads EXCEPT ![Thread(r)] =
                   IF @ = "absent" THEN @ ELSE "busy"]

\* A defect that TLC must notice: the thread keeps its status.
ThreadStatus_Kept(r, status) == threads[Thread(r)]

ThreadStatus(r, status) == IF status = "success" THEN "idle" ELSE status

\* finish_run, in one transaction: nothing when the run was deleted.
FinishRun(r, status) ==
  IF runs[r] = "none"
  THEN UNCHANGED <<runs, threads>>
  ELSE /\ runs' = [runs EXCEPT ![r] = status]
       /\ threads' = [threads EXCEPT ![Thread(r)] = ThreadStatus(r, status)]

-----------------------------------------------------------------------------
(* A session, up to the execution of its graph.                             *)

\* get_thread: without the thread there is no session (ThreadNotFoundError).
Request(r, t) ==
  /\ At(r, "idle") /\ threads[t] # "absent"
  /\ task' = [task EXCEPT ![r].pc = "acquire", ![r].thread = t]
  /\ OnlyTask

Free(t) == lock[t] = Nobody

\* thread_lock: RunBusyError when it is held; nobody waits for it.
Acquire(r) ==
  /\ At(r, "acquire")
  /\ IF Free(Thread(r))
     THEN lock' = [lock EXCEPT ![Thread(r)] = r] /\ Goto(r, "create")
     ELSE Goto(r, "done") /\ UNCHANGED lock
  /\ UNCHANGED <<catalog, saved, flags, graph, deletion, history>>

\* _start_run is outside the handlers of _run_session.
CreateRun(r) ==
  /\ At(r, "create")
  /\ IF Referenced(Thread(r))
     THEN /\ StoreRun(r)
          /\ graph' = [graph EXCEPT ![r] = "on"]
          /\ Goto(r, "execute")
     ELSE Goto(r, "unlock") /\ UNCHANGED <<runs, threads, graph>>
  /\ UNCHANGED <<creations, saved, lock, flags, deletion, history>>

-----------------------------------------------------------------------------
(* The graph.                                                               *)

Attached(r) == At(r, "execute")

\* A super-step saves its checkpoint.  A stream that nobody reads any more stops at
\* its next event; ainvoke goes on.
GraphWrites(r) ==
  /\ graph[r] = "on"
  /\ saved' = [saved EXCEPT ![Thread(r)] = @ \union {r}]
  /\ graph' = [graph EXCEPT ![r] =
                 IF r \in Streams /\ ~Attached(r) THEN "off" ELSE "on"]
  /\ UNCHANGED <<catalog, lock, flags, task, deletion, history>>

GraphEnds(r) ==
  /\ graph[r] = "on"
  /\ graph' \in {[graph EXCEPT ![r] = end] :
                   end \in IF Attached(r) THEN {"returned", "raised"} ELSE {"off"}}
  /\ UNCHANGED <<catalog, saved, lock, flags, task, deletion, history>>

GraphOff(r) == graph' = [graph EXCEPT ![r] = "off"]

\* asyncio.wait does not cancel what it waited for: a session that is cancelled or
\* times out there leaves its graph executing.
LeaveGraph(r) ==
  IF graph[r] = "on"
  THEN detached' = detached \union {r} /\ UNCHANGED graph
  ELSE GraphOff(r) /\ UNCHANGED detached

-----------------------------------------------------------------------------
(* The end of the execution.                                                *)

Result(r) ==
  /\ At(r, "execute") /\ graph[r] \in {"returned", "raised"}
  /\ IF graph[r] = "returned" THEN Goto(r, "publish") ELSE FailWith(r, "fail", "error")
  /\ GraphOff(r)
  /\ UNCHANGED <<catalog, saved, lock, flags, deletion, history>>

\* _wait_for_cancel saw the flag: the graph is cancelled and awaited.
CancelNoticed(r) ==
  /\ At(r, "execute") /\ r \in cancelled
  /\ GraphOff(r)
  /\ FailWith(r, "fail", "interrupted")
  /\ UNCHANGED <<catalog, saved, lock, flags, deletion, history>>

\* is_cancelled raised: the graph is cancelled and awaited too.
PollFails(r) ==
  /\ Faulty /\ At(r, "execute")
  /\ GraphOff(r)
  /\ FailWith(r, "fail", "error")
  /\ UNCHANGED <<catalog, saved, lock, flags, deletion, lost, unrecorded, detached>>

\* A defect that TLC must notice: only a graph that has ended may time out.
TimesOut_Ended(r) ==
  /\ At(r, "execute") /\ graph[r] # "on"
  /\ LeaveGraph(r)
  /\ FailWith(r, "fail", "error")
  /\ UNCHANGED <<catalog, saved, lock, flags, deletion, faults, lost, unrecorded>>

\* asyncio.timeout(run_timeout_seconds).
TimesOut(r) ==
  /\ At(r, "execute")
  /\ LeaveGraph(r)
  /\ FailWith(r, "fail", "error")
  /\ UNCHANGED <<catalog, saved, lock, flags, deletion, faults, lost, unrecorded>>

\* CancelledError: the client left, the server stops, or _renew_lock found that the
\* lease was lost.  on_disconnect decides whether the flag is set first.
Stopped(r) ==
  /\ task[r].pc \in {"execute", "publish"}
  /\ LeaveGraph(r)
  /\ \E pc \in {"flag", "fail"} : FailWith(r, pc, "interrupted")
  /\ UNCHANGED <<catalog, saved, lock, flags, deletion, faults, lost, unrecorded>>

\* GeneratorExit: the client left while the stream was suspended at an event, and
\* the generator is closed later.  No handler of _run_session takes it.
Abandoned(r) ==
  /\ At(r, "execute") /\ r \in Streams
  /\ GraphOff(r)
  /\ unrecorded' = unrecorded \union {r}
  /\ Goto(r, "clear")
  /\ UNCHANGED <<catalog, saved, lock, flags, deletion, faults, lost, detached>>

-----------------------------------------------------------------------------
(* The handlers of _run_session.                                            *)

Publish(r) ==
  /\ At(r, "publish")
  /\ FinishRun(r, "success")
  /\ Goto(r, "clear")
  /\ UNCHANGED <<creations, saved, lock, flags, graph, deletion, history>>

Flag(r) ==
  /\ At(r, "flag")
  /\ cancelled' = cancelled \union {r}
  /\ Goto(r, "fail")
  /\ UNCHANGED <<catalog, saved, lock, asked, graph, deletion, history>>

Fail(r) ==
  /\ At(r, "fail")
  /\ FinishRun(r, task[r].status)
  /\ Goto(r, "clear")
  /\ UNCHANGED <<creations, saved, lock, flags, graph, deletion, history>>

Clear(r) ==
  /\ At(r, "clear")
  /\ cancelled' = cancelled \ {r}
  /\ Goto(r, "unlock")
  /\ UNCHANGED <<catalog, saved, lock, asked, graph, deletion, history>>

\* Released by its token: LockNotOwnedError is ignored.
FreedBy(actor, t) == IF lock[t] = actor THEN [lock EXCEPT ![t] = Nobody] ELSE lock

Unlock(r) ==
  /\ At(r, "unlock")
  /\ lock' = FreedBy(r, Thread(r))
  /\ Goto(r, "done")
  /\ UNCHANGED <<catalog, saved, flags, graph, deletion, history>>

-----------------------------------------------------------------------------
(* cancel_run.                                                              *)

AskCancel(r) ==
  /\ r \in Cancellable /\ runs[r] = "running" /\ r \notin asked
  /\ asked' = asked \union {r}
  /\ UNCHANGED <<catalog, saved, lock, cancelled, task, graph, deletion, history>>

\* The flag's own expiry is left out: it is an hour, and the flag is polled.
SetCancel(r) ==
  /\ r \in asked
  /\ asked' = asked \ {r}
  /\ cancelled' = cancelled \union {r}
  /\ UNCHANGED <<catalog, saved, lock, task, graph, deletion, history>>

-----------------------------------------------------------------------------
(* delete_thread.                                                           *)

Deletes(d, pc) == deletion[d].pc = pc
Step(d, pc) ==
  deletion' = [deletion EXCEPT ![d].pc = pc,
                               ![d].thread = IF pc = "idle" THEN NoThread ELSE @]

Delete(d, t) ==
  /\ Deletes(d, "idle") /\ threads[t] # "absent"
  /\ deletion' = [deletion EXCEPT ![d] = [pc |-> "acquire", thread |-> t]]
  /\ UNCHANGED <<catalog, saved, lock, flags, task, graph, history>>

DeleteAcquire(d) ==
  /\ Deletes(d, "acquire")
  /\ IF Free(deletion[d].thread)
     THEN lock' = [lock EXCEPT ![deletion[d].thread] = d] /\ Step(d, "erase")
     ELSE Step(d, "idle") /\ UNCHANGED lock
  /\ UNCHANGED <<catalog, saved, flags, task, graph, history>>

\* adelete_thread of the checkpointers.
Erase(d) ==
  /\ Deletes(d, "erase")
  /\ saved' = [saved EXCEPT ![deletion[d].thread] = {}]
  /\ Step(d, "remove")
  /\ UNCHANGED <<catalog, lock, flags, task, graph, history>>

\* catalog.delete_thread: the runs go with the thread.
Remove(d) ==
  /\ Deletes(d, "remove")
  /\ threads' = [threads EXCEPT ![deletion[d].thread] = "absent"]
  /\ runs' = [r \in Runs |-> IF Thread(r) = deletion[d].thread THEN "none" ELSE runs[r]]
  /\ Step(d, "unlock")
  /\ UNCHANGED <<creations, saved, lock, flags, task, graph, history>>

DeleteUnlock(d) ==
  /\ Deletes(d, "unlock")
  /\ lock' = FreedBy(d, deletion[d].thread)
  /\ Step(d, "idle")
  /\ UNCHANGED <<catalog, saved, flags, task, graph, history>>

DeleteFails(d) ==
  /\ Faulty /\ deletion[d].pc \in {"erase", "remove"}
  /\ Step(d, "unlock")
  /\ UNCHANGED <<catalog, saved, lock, flags, task, graph, lost, unrecorded, detached>>

-----------------------------------------------------------------------------
(* Failures.                                                                *)

InSection(r) ==
  task[r].pc \in {"create", "execute", "publish", "flag", "fail", "clear", "unlock"}
Deleting(d) == deletion[d].pc \in {"erase", "remove", "unlock"}

\* The lock's holder is a session or a deletion that is still there.
Held(t) ==
  \/ \E r \in Runs : lock[t] = r /\ InSection(r) /\ Thread(r) = t
  \/ \E d \in Deleters : lock[t] = d /\ Deleting(d) /\ deletion[d].thread = t

\* A call raises without effect, or CancelledError interrupts it: what is left of
\* _run_session differs with the call.
CallLost(r) ==
  /\ Faulty
  /\ \/ At(r, "create") /\ Goto(r, "unlock") /\ UNCHANGED unrecorded
     \/ At(r, "publish") /\ FailWith(r, "fail", "error") /\ UNCHANGED unrecorded
     \/ /\ task[r].pc \in {"flag", "fail"}
        /\ Goto(r, "clear")
        /\ unrecorded' = unrecorded \union {r}
     \/ At(r, "clear") /\ Goto(r, "unlock") /\ UNCHANGED unrecorded
     \/ At(r, "unlock") /\ Goto(r, "done") /\ UNCHANGED unrecorded
  /\ UNCHANGED <<catalog, saved, lock, flags, graph, deletion, lost, detached>>

\* It raises after its effect.  A published success is then replaced by an error.
ReplyLost(r) ==
  /\ Faulty
  /\ \/ /\ At(r, "create") /\ Referenced(Thread(r))
        /\ StoreRun(r)
        /\ Goto(r, "unlock")
        /\ unrecorded' = unrecorded \union {r}
     \/ /\ At(r, "publish")
        /\ FinishRun(r, "success")
        /\ FailWith(r, "fail", "error")
        /\ UNCHANGED unrecorded
  /\ UNCHANGED <<creations, saved, lock, flags, graph, deletion, lost, detached>>

\* The process of a session dies.
Crash(r) ==
  /\ Faulty /\ InSection(r)
  /\ Goto(r, "done")
  /\ GraphOff(r)
  /\ unrecorded' = unrecorded \union {r}
  /\ UNCHANGED <<catalog, saved, lock, flags, deletion, lost, detached>>

\* A defect that TLC must notice: a lock without an expiry.
LeaseOfTheDead_Endless(t) == FALSE /\ UNCHANGED vars

\* Nobody renews the lease of a dead holder.
LeaseOfTheDead(t) ==
  /\ lock[t] # Nobody /\ ~Held(t)
  /\ lock' = [lock EXCEPT ![t] = Nobody]
  /\ UNCHANGED <<catalog, saved, flags, task, graph, deletion, history>>

\* A live holder did not renew its lease in time.
LeaseLost(t) ==
  /\ Faulty /\ Held(t)
  /\ lock' = [lock EXCEPT ![t] = Nobody]
  /\ lost' = lost \union {t}
  /\ UNCHANGED <<catalog, saved, flags, task, graph, deletion, unrecorded, detached>>

-----------------------------------------------------------------------------
SessionStep(r) ==
  \/ Acquire(r) \/ CreateRun(r) \/ Result(r)
  \/ Publish(r) \/ Flag(r) \/ Fail(r) \/ Clear(r) \/ Unlock(r)

DeletionStep(d) ==
  \/ DeleteAcquire(d) \/ Erase(d) \/ Remove(d) \/ DeleteUnlock(d)

Next ==
  \/ \E t \in Threads : CreateThread(t) \/ LeaseOfTheDead(t) \/ LeaseLost(t)
  \/ \E r \in Runs, t \in Threads : Request(r, t)
  \/ \E r \in Runs :
       \/ SessionStep(r) \/ GraphWrites(r) \/ GraphEnds(r)
       \/ CancelNoticed(r) \/ PollFails(r) \/ TimesOut(r) \/ Stopped(r) \/ Abandoned(r)
       \/ AskCancel(r) \/ SetCancel(r)
       \/ CallLost(r) \/ ReplyLost(r) \/ Crash(r)
  \/ \E d \in Deleters, t \in Threads : Delete(d, t)
  \/ \E d \in Deleters : DeletionStep(d) \/ DeleteFails(d)

Spec == Init /\ [][Next]_vars

\* The event loop resumes what may go on, timers fire, and Redis drops what nobody
\* renews.  A graph need not end.
FairSpec ==
  /\ Spec
  /\ \A r \in Runs : WF_vars(SessionStep(r)) /\ WF_vars(TimesOut(r))
  /\ \A d \in Deleters : WF_vars(DeletionStep(d))
  /\ \A t \in Threads : WF_vars(LeaseOfTheDead(t))

-----------------------------------------------------------------------------
(* Correctness.                                                             *)

RunsOf(t) == {r \in Runs : Thread(r) = t}

\* A thread says it is busy exactly while one of its runs says it is running,
\* whatever ends the run and whoever deletes the thread, unless a session ended
\* without its handlers or the lock was lost.
BusyMeansRunning ==
  \A t \in Threads \ lost : RunsOf(t) \intersect unrecorded = {} =>
    (threads[t] = "busy" <=> \E r \in RunsOf(t) : runs[r] = "running")

\* A deleted thread leaves no checkpoint that a thread of the same identity would
\* resume from, except those of a graph that was left executing.
NothingOutlivesTheThread ==
  \A t \in Threads \ lost : threads[t] = "absent" => saved[t] \subseteq detached

\* docs/decisions.md: "un seul run peut muter un thread a la fois".
OneMutator ==
  \A r, s \in Runs :
    graph[r] = "on" /\ graph[s] = "on" /\ Thread(r) = Thread(s) => r = s

\* Every run is concluded, even when its graph never ends, unless the session was
\* not able to record it.
EveryRunIsConcluded ==
  \A r \in Runs : runs[r] = "running" ~> runs[r] # "running" \/ r \in unrecorded

\* A thread is always unlocked again, also when the holder died.
LocksAreFreed == \A t \in Threads : lock[t] # Nobody ~> lock[t] = Nobody

\* Nothing waits for ever on a run or on a thread.
NothingHangs == EveryRunIsConcluded /\ LocksAreFreed
=============================================================================
