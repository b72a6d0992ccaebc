------------------------ MODULE GraphRuntimeProofs --------------------------
(***************************************************************************)
(* The invariants of the LangGraph runtime, for every number of threads,   *)
(* runs, deletions and faults.                                             *)
(***************************************************************************)
EXTENDS GraphRuntime, TLAPS

Places == {"idle", "acquire", "create", "execute", "publish", "flag", "fail", "clear",
           "unlock", "done"}
DeletionPlaces == {"idle", "acquire", "erase", "remove", "unlock"}

\* The session of r goes to a place; the others stay where they are.
Moved(r, pc) ==
  /\ task' \in [Runs -> Sessions]
  /\ task'[r].pc = pc /\ task'[r].thread = task[r].thread
  /\ \A q \in Runs \ {r} : task'[q] = task[q]

\* The deletion d goes to a place.
Stepped(d, pc) ==
  /\ deletion' \in [Deleters -> Deletions]
  /\ deletion'[d].pc = pc
  /\ pc # "idle" => deletion'[d].thread = deletion[d].thread
  /\ \A e \in Deleters \ {d} : deletion'[e] = deletion[e]

\* A session that changes its place and status keeps its thread, and the others move not.
LEMMA SessionMoves ==
  ASSUME TypeOK, NEW r \in Runs, NEW pc \in Places, NEW status \in Outcomes,
         task' = [task EXCEPT ![r].pc = pc, ![r].status = status]
  PROVE  Moved(r, pc)
<1>1. task[r] \in Sessions /\ task \in [Runs -> Sessions]
  BY DEF TypeOK
<1>2. task'[r] = [pc |-> pc, thread |-> task[r].thread, status |-> status]
  BY <1>1 DEF Sessions
<1>3. task'[r] \in Sessions
  BY <1>1, <1>2 DEF Sessions, Places
<1> QED
  BY <1>1, <1>2, <1>3 DEF Moved

\* Goto and FailWith both move one session to the given place.
LEMMA Goes ==
  ASSUME TypeOK, NEW r \in Runs
  PROVE  /\ \A pc \in Places : Goto(r, pc) => Moved(r, pc)
         /\ \A pc \in Places, status \in Outcomes : FailWith(r, pc, status) => Moved(r, pc)
BY SessionMoves DEF Goto, FailWith, Outcomes

\* A step of a deletion moves that deletion alone.
LEMMA DeletionSteps ==
  ASSUME TypeOK, NEW d \in Deleters, NEW pc \in DeletionPlaces, Step(d, pc)
  PROVE  Stepped(d, pc)
<1>1. deletion[d] \in Deletions /\ deletion \in [Deleters -> Deletions]
  BY DEF TypeOK
<1>2. deletion'[d] = [pc |-> pc, thread |-> IF pc = "idle" THEN NoThread
                                            ELSE deletion[d].thread]
  BY <1>1 DEF Deletions, Step
<1>3. deletion'[d] \in Deletions
  BY <1>1, <1>2 DEF Deletions, DeletionPlaces
<1> QED
  BY <1>1, <1>2, <1>3 DEF Stepped, Step

\* What a step of the session of r is, whatever it does to the store.
SessionActs(r) ==
  \/ SessionStep(r) \/ GraphWrites(r) \/ GraphEnds(r)
  \/ CancelNoticed(r) \/ PollFails(r) \/ TimesOut(r) \/ Stopped(r) \/ Abandoned(r)
  \/ AskCancel(r) \/ SetCancel(r)
  \/ CallLost(r) \/ ReplyLost(r) \/ Crash(r)

\* A session that is in the section of its thread stays there until it unlocks.
LEMMA SessionPath ==
  ASSUME TypeOK, NEW r \in Runs, SessionActs(r)
  PROVE  /\ UNCHANGED <<deletion, lost>>
         /\ \/ Acquire(r) \/ Unlock(r)
            \/ UNCHANGED <<task, lock>>
            \/ /\ UNCHANGED lock
               /\ InSection(r)
               /\ \E pc \in Places \ {"idle", "acquire", "create"} : Moved(r, pc)
               /\ At(r, "execute")' => CreateRun(r)
<1> USE Goes DEF Places, Outcomes, At, InSection, history, Faulty, Moved
<1>1. CASE CreateRun(r) \/ Result(r)
  BY <1>1 DEF CreateRun, Result
<1>2. CASE Publish(r) \/ Flag(r) \/ Clear(r)
  BY <1>2 DEF Publish, Flag, Clear
<1>3. CASE Acquire(r) \/ Unlock(r) \/ Fail(r)
  BY <1>3 DEF Acquire, Unlock, Fail
<1>4. CASE GraphWrites(r) \/ GraphEnds(r) \/ AskCancel(r) \/ SetCancel(r)
  BY <1>4 DEF GraphWrites, GraphEnds, AskCancel, SetCancel
<1>5. CASE \/ CancelNoticed(r) \/ PollFails(r) \/ TimesOut(r) \/ Abandoned(r)
  BY <1>5 DEF CancelNoticed, PollFails, TimesOut, Abandoned
<1>6. CASE Stopped(r)
  BY <1>6 DEF Stopped
<1>7. CASE CallLost(r)
  BY <1>7 DEF CallLost
<1>8. CASE ReplyLost(r)
  BY <1>8 DEF ReplyLost
<1>9. CASE Crash(r)
  BY <1>9 DEF Crash
<1> QED
  BY <1>1, <1>2, <1>3, <1>4, <1>5, <1>6, <1>7, <1>8, <1>9 DEF SessionActs, SessionStep

\* An end of a run writes a status that is none of running and busy.
LEMMA RunsEnd ==
  ASSUME TypeOK, NEW r \in Runs, NEW status \in Outcomes, FinishRun(r, status),
         Thread(r) \in Threads
  PROVE  /\ runs' \in [Runs -> Outcomes \union {"none", "running"}]
         /\ threads' \in [Threads -> {"absent", "idle", "busy", "error", "interrupted"}]
         /\ runs'[r] \in Outcomes \union {"none"}
         /\ \A q \in Runs \ {r} : runs'[q] = runs[q]
         /\ \A t \in Threads \ {Thread(r)} : threads'[t] = threads[t]
         /\ \/ runs[r] = "none" /\ UNCHANGED <<runs, threads>>
            \/ threads'[Thread(r)] \notin {"busy", "absent"}
BY DEF TypeOK, FinishRun, ThreadStatus, Outcomes

\* Storing a run makes its thread busy in the same step, and touches no other run or thread.
LEMMA RunsStart ==
  ASSUME TypeOK, NEW r \in Runs, StoreRun(r), Thread(r) \in Threads,
         Referenced(Thread(r))
  PROVE  /\ runs' \in [Runs -> Outcomes \union {"none", "running"}]
         /\ threads' \in [Threads -> {"absent", "idle", "busy", "error", "interrupted"}]
         /\ runs'[r] = "running" /\ threads'[Thread(r)] = "busy"
         /\ \A q \in Runs \ {r} : runs'[q] = runs[q]
         /\ \A t \in Threads \ {Thread(r)} : threads'[t] = threads[t]
BY DEF TypeOK, StoreRun, Referenced, Outcomes

-----------------------------------------------------------------------------
(* Type correctness.                                                        *)

\* A request has a thread from the moment it was found.
ThreadsKnown ==
  /\ \A r \in Runs : IF At(r, "idle") THEN Thread(r) = NoThread ELSE Thread(r) \in Threads
  /\ \A d \in Deleters : ~Deletes(d, "idle") => deletion[d].thread \in Threads

\* The steps of a session keep the types, and every session on a known thread.
LEMMA SessionTypes ==
  ASSUME TypeOK, ThreadsKnown, NEW r \in Runs, SessionActs(r)
  PROVE  TypeOK' /\ ThreadsKnown'
<1>1. /\ deletion' \in [Deleters -> Deletions] /\ lost' \subseteq Threads
      /\ task' \in [Runs -> Sessions]
      /\ ThreadsKnown'
  <2> USE Goes DEF TypeOK, ThreadsKnown, Places, At, Moved, Deletes, Thread
  <2>1. CASE Acquire(r) \/ Unlock(r)
    BY <2>1, SessionPath DEF Acquire, Unlock
  <2> QED
    BY <2>1, SessionPath DEF InSection
<1>2. /\ lock' \in [Threads -> Runs \union Deleters \union {Nobody}]
  BY SessionPath DEF Acquire, Unlock, FreedBy, TypeOK
<1>3. ~At(r, "idle") => Thread(r) \in Threads
  BY DEF ThreadsKnown
<1>4. /\ threads' \in [Threads -> {"absent", "idle", "busy", "error", "interrupted"}]
      /\ runs' \in [Runs -> Outcomes \union {"none", "running"}]
      /\ creations' \in 0..MaxCreations
  <2> USE RunsStart, RunsEnd, <1>3 DEF At
  <2>1. CASE CreateRun(r)
    BY <2>1 DEF CreateRun, TypeOK
  <2>2. CASE Publish(r) \/ Fail(r)
    BY <2>2 DEF Publish, Fail, TypeOK, Outcomes, Sessions
  <2>3. CASE ReplyLost(r)
    BY <2>3 DEF ReplyLost, TypeOK, Outcomes
  <2>4. CASE UNCHANGED catalog
    BY <2>4 DEF TypeOK, catalog
  <2> QED
    BY <2>1, <2>2, <2>3, <2>4 DEF SessionActs, SessionStep, Acquire, Result, Flag, Clear, Unlock,
      GraphWrites, GraphEnds, CancelNoticed, PollFails, TimesOut, Stopped, Abandoned, AskCancel,
      SetCancel, CallLost, Crash
<1>5. /\ saved' \in [Threads -> SUBSET Runs]
      /\ graph' \in [Runs -> {"off", "on", "returned", "raised"}]
      /\ cancelled' \subseteq Runs /\ asked' \subseteq Runs
      /\ unrecorded' \subseteq Runs /\ detached' \subseteq Runs
      /\ faults' \in 0..MaxFaults
  <2> USE ActorsAssumption
      DEF TypeOK, flags, history, Faulty, GraphOff, LeaveGraph
  <2>1. CASE SessionStep(r)
    BY <2>1 DEF SessionStep, Acquire, CreateRun, Result, Publish, Flag, Fail, Clear, Unlock
  <2>2. CASE GraphWrites(r) \/ GraphEnds(r) \/ AskCancel(r) \/ SetCancel(r)
    BY <2>2 DEF GraphWrites, GraphEnds, AskCancel, SetCancel
  <2>3. CASE CancelNoticed(r) \/ PollFails(r) \/ TimesOut(r) \/ Stopped(r) \/ Abandoned(r)
    BY <2>3 DEF CancelNoticed, PollFails, TimesOut, Stopped, Abandoned
  <2>4. CASE CallLost(r) \/ ReplyLost(r) \/ Crash(r)
    BY <2>4 DEF CallLost, ReplyLost, Crash
  <2> QED
    BY <2>1, <2>2, <2>3, <2>4 DEF SessionActs
<1> QED
  BY <1>1, <1>2, <1>4, <1>5 DEF TypeOK

\* The other steps: those of a deletion, and those of nobody's session.
DeletionActs(d) == DeletionStep(d) \/ DeleteFails(d)

\* The places a deletion goes through, and what each of its steps does to the rest.
LEMMA DeletionPath ==
  ASSUME TypeOK, NEW d \in Deleters, DeletionActs(d)
  PROVE  /\ UNCHANGED <<task, graph, creations, flags, lost, unrecorded, detached>>
         /\ \/ DeleteAcquire(d) \/ DeleteUnlock(d)
            \/ /\ UNCHANGED lock
               /\ Deleting(d)
               /\ \/ Stepped(d, "remove") /\ Erase(d)
                  \/ Stepped(d, "unlock")
<1> USE DeletionSteps DEF DeletionPlaces, Deletes, Deleting, catalog, history
<1>1. CASE DeletionStep(d)
  BY <1>1 DEF DeletionStep, DeleteAcquire, Erase, Remove, DeleteUnlock
<1>2. CASE DeleteFails(d)
  BY <1>2 DEF DeleteFails
<1> QED
  BY <1>1, <1>2 DEF DeletionActs

\* The steps of a deletion keep the types.
LEMMA DeletionTypes ==
  ASSUME TypeOK, ThreadsKnown, NEW d \in Deleters, DeletionActs(d)
  PROVE  TypeOK' /\ ThreadsKnown'
<1>1. /\ deletion' \in [Deleters -> Deletions]
      /\ ThreadsKnown'
  <2> USE DeletionSteps DEF ThreadsKnown, DeletionPlaces, At, Stepped, Deletes, Thread
  <2>1. CASE DeleteAcquire(d) \/ DeleteUnlock(d)
    BY <2>1, DeletionPath DEF DeleteAcquire, DeleteUnlock
  <2> QED
    BY <2>1, DeletionPath DEF Deleting
<1>2. /\ lock' \in [Threads -> Runs \union Deleters \union {Nobody}]
      /\ threads' \in [Threads -> {"absent", "idle", "busy", "error", "interrupted"}]
      /\ runs' \in [Runs -> Outcomes \union {"none", "running"}]
      /\ saved' \in [Threads -> SUBSET Runs]
      /\ faults' \in 0..MaxFaults
  BY ActorsAssumption
  DEF DeletionActs, DeletionStep, DeleteAcquire, Erase, Remove, DeleteUnlock, DeleteFails,
      TypeOK, FreedBy, catalog, history, Faulty
<1> QED
  BY <1>1, <1>2, DeletionPath DEF TypeOK, flags

\* A request only opens a session, on a thread that the catalogue knows.
LEMMA RequestPath ==
  ASSUME TypeOK, NEW r \in Runs, NEW t \in Threads, Request(r, t)
  PROVE  /\ At(r, "idle") /\ threads[t] # "absent"
         /\ task' \in [Runs -> Sessions]
         /\ task'[r].pc = "acquire" /\ task'[r].thread = t
         /\ \A q \in Runs \ {r} : task'[q] = task[q]
         /\ UNCHANGED <<catalog, saved, lock, flags, graph, deletion, history>>
<1>1. task[r] \in Sessions /\ task \in [Runs -> Sessions]
  BY DEF TypeOK
<1>2. task'[r] = [pc |-> "acquire", thread |-> t, status |-> task[r].status]
  BY <1>1 DEF Request, Sessions
<1>3. task'[r] \in Sessions
  BY <1>1, <1>2 DEF Sessions
<1> QED
  BY <1>1, <1>2, <1>3 DEF Request, OnlyTask

\* The steps outside sessions and deletions keep the types.
LEMMA OtherTypes ==
  ASSUME TypeOK, ThreadsKnown,
         \/ \E t \in Threads : CreateThread(t) \/ LeaseOfTheDead(t) \/ LeaseLost(t)
         \/ \E r \in Runs, t \in Threads : Request(r, t)
         \/ \E d \in Deleters, t \in Threads : Delete(d, t)
         \/ UNCHANGED vars
  PROVE  TypeOK' /\ ThreadsKnown'
<1> USE ActorsAssumption
    DEF TypeOK, ThreadsKnown, At, Thread, Deletes, catalog, flags, history, vars, Faulty
<1>1. ASSUME NEW t \in Threads, CreateThread(t)
      PROVE  TypeOK' /\ ThreadsKnown'
  BY <1>1 DEF CreateThread
<1>2. ASSUME NEW t \in Threads, LeaseOfTheDead(t) \/ LeaseLost(t)
      PROVE  TypeOK' /\ ThreadsKnown'
  BY <1>2 DEF LeaseOfTheDead, LeaseLost
<1>3. ASSUME NEW r \in Runs, NEW t \in Threads, Request(r, t)
      PROVE  TypeOK' /\ ThreadsKnown'
  BY <1>3, RequestPath
<1>4. ASSUME NEW d \in Deleters, NEW t \in Threads, Delete(d, t)
      PROVE  TypeOK' /\ ThreadsKnown'
  <2>1. [pc |-> "acquire", thread |-> t] \in Deletions
    BY DEF Deletions
  <2> QED
    BY <1>4, <2>1 DEF Delete
<1> QED
  BY <1>1, <1>2, <1>3, <1>4

\* The steps, by actor.
LEMMA Steps ==
  [Next]_vars =>
    \/ \E r \in Runs : SessionActs(r)
    \/ \E d \in Deleters : DeletionActs(d)
    \/ \E t \in Threads : CreateThread(t) \/ LeaseOfTheDead(t) \/ LeaseLost(t)
    \/ \E r \in Runs, t \in Threads : Request(r, t)
    \/ \E d \in Deleters, t \in Threads : Delete(d, t)
    \/ UNCHANGED vars
BY DEF Next, SessionActs, DeletionActs

\* Every variable keeps its type, and every request and deletion under way a thread.
THEOREM GraphTypes == Spec => [](TypeOK /\ ThreadsKnown)
<1>1. Init => TypeOK /\ ThreadsKnown
  BY ActorsAssumption
  DEF Init, TypeOK, ThreadsKnown, Sessions, Deletions, Outcomes, At, Deletes, Thread
<1>2. TypeOK /\ ThreadsKnown /\ [Next]_vars => (TypeOK /\ ThreadsKnown)'
  BY Steps, SessionTypes, DeletionTypes, OtherTypes
<1> QED
  BY <1>1, <1>2, PTL DEF Spec

-----------------------------------------------------------------------------
(* Who holds a thread.                                                      *)

\* Whoever is between the acquisition and the release of a thread's lock holds it,
\* unless the lease was lost.
HoldersHold ==
  /\ \A r \in Runs : InSection(r) /\ Thread(r) \notin lost => lock[Thread(r)] = r
  /\ \A d \in Deleters : Deleting(d) /\ deletion[d].thread \notin lost =>
       lock[deletion[d].thread] = d

\* A session between the lock and its release holds the lock of its thread.
LEMMA HoldersGoOnHolding ==
  ASSUME TypeOK, ThreadsKnown, HoldersHold, [Next]_vars
  PROVE  HoldersHold'
<1> USE ActorsAssumption
<1>1. ASSUME NEW r \in Runs, SessionActs(r)
      PROVE  HoldersHold'
  <2> USE DEF HoldersHold, InSection, Deleting, Thread, Moved, At
  <2>1. UNCHANGED <<deletion, lost>>
    BY <1>1, SessionPath
  <2>2. CASE Acquire(r)
    <3>1. task[r].thread \in Threads
      BY <2>2 DEF Acquire, ThreadsKnown
    <3>2. CASE Free(Thread(r))
      <4>1. lock' = [lock EXCEPT ![task[r].thread] = r] /\ Moved(r, "create")
        BY <2>2, <3>2, Goes DEF Acquire, Places
      <4> QED
        BY <2>1, <3>1, <3>2, <4>1 DEF Free, TypeOK
    <3>3. CASE ~Free(Thread(r))
      <4>1. lock' = lock /\ Moved(r, "done")
        BY <2>2, <3>3, Goes DEF Acquire, Places
      <4> QED
        BY <2>1, <4>1
    <3> QED
      BY <3>2, <3>3
  <2>3. CASE Unlock(r)
    <3>1. task[r].thread \in Threads
      BY <2>3 DEF Unlock, ThreadsKnown
    <3>2. lock' = FreedBy(r, task[r].thread) /\ Moved(r, "done")
      BY <2>3, Goes DEF Unlock, Places
    <3> QED
      BY <2>1, <3>1, <3>2 DEF FreedBy, TypeOK
  <2>4. CASE UNCHANGED <<task, lock>>
    BY <2>1, <2>4
  <2>5. CASE /\ UNCHANGED lock /\ InSection(r)
             /\ \E pc \in Places \ {"idle", "acquire", "create"} : Moved(r, pc)
    BY <2>1, <2>5
  <2> QED
    BY <1>1, <2>2, <2>3, <2>4, <2>5, SessionPath
<1>2. ASSUME NEW d \in Deleters, DeletionActs(d)
      PROVE  HoldersHold'
  <2> USE DEF HoldersHold, InSection, Deleting, Thread, Stepped, Deletes
  <2>1. UNCHANGED <<task, lost>>
    BY <1>2, DeletionPath
  <2>2. CASE DeleteAcquire(d)
    <3>1. deletion[d].thread \in Threads
      BY <2>2 DEF DeleteAcquire, ThreadsKnown
    <3>2. CASE Free(deletion[d].thread)
      <4>1. lock' = [lock EXCEPT ![deletion[d].thread] = d] /\ Stepped(d, "erase")
        BY <2>2, <3>2, DeletionSteps DEF DeleteAcquire, DeletionPlaces
      <4> QED
        BY <2>1, <3>1, <3>2, <4>1 DEF Free, TypeOK
    <3>3. CASE ~Free(deletion[d].thread)
      <4>1. lock' = lock /\ Stepped(d, "idle")
        BY <2>2, <3>3, DeletionSteps DEF DeleteAcquire, DeletionPlaces
      <4> QED
        BY <2>1, <4>1
    <3> QED
      BY <3>2, <3>3
  <2>3. CASE DeleteUnlock(d)
    <3>1. deletion[d].thread \in Threads
      BY <2>3 DEF DeleteUnlock, ThreadsKnown
    <3>2. lock' = FreedBy(d, deletion[d].thread) /\ Stepped(d, "idle")
      BY <2>3, DeletionSteps DEF DeleteUnlock, DeletionPlaces
    <3> QED
      BY <2>1, <3>1, <3>2 DEF FreedBy, TypeOK
  <2>4. CASE UNCHANGED lock /\ Deleting(d) /\ (Stepped(d, "remove") \/ Stepped(d, "unlock"))
    BY <2>1, <2>4
  <2> QED
    BY <1>2, <2>2, <2>3, <2>4, DeletionPath
<1>3. ASSUME NEW t \in Threads, CreateThread(t)
      PROVE  HoldersHold'
  BY <1>3 DEF CreateThread, HoldersHold, InSection, Deleting, Thread, history
<1>4. ASSUME NEW t \in Threads, LeaseOfTheDead(t)
      PROVE  HoldersHold'
  BY <1>4 DEF LeaseOfTheDead, Held, HoldersHold, InSection, Deleting, Thread, history, TypeOK
<1>5. ASSUME NEW t \in Threads, LeaseLost(t)
      PROVE  HoldersHold'
  BY <1>5 DEF LeaseLost, HoldersHold, InSection, Deleting, Thread, TypeOK
<1>6. ASSUME NEW r \in Runs, NEW t \in Threads, Request(r, t)
      PROVE  HoldersHold'
  BY <1>6, RequestPath DEF HoldersHold, InSection, Deleting, Thread, history
<1>7. ASSUME NEW d \in Deleters, NEW t \in Threads, Delete(d, t)
      PROVE  HoldersHold'
  BY <1>7 DEF Delete, HoldersHold, InSection, Deleting, Thread, history, TypeOK
<1>8. CASE UNCHANGED vars
  BY <1>8 DEF HoldersHold, InSection, Deleting, Thread, vars, history
<1> QED
  BY <1>1, <1>2, <1>3, <1>4, <1>5, <1>6, <1>7, <1>8, Steps

-----------------------------------------------------------------------------
(* What a run and its graph are to the session that serves them.            *)

\* Nothing of a run exists before its session created it; a run that says it is running
\* has a session that will record its end; a graph executes for a session that waits for
\* it, or was left behind.
RunServed(r) ==
  /\ task[r].pc \in {"idle", "acquire", "create"} => runs[r] = "none" /\ graph[r] = "off"
  /\ runs[r] = "running" =>
       task[r].pc \in {"execute", "publish", "flag", "fail"} \/ r \in unrecorded
  /\ graph[r] = "on" => Attached(r) \/ r \in detached

RunsServed == \A r \in Runs : RunServed(r)

\* A session changes its own run and graph only, never takes a thread away, and forgets
\* no failure.
LEMMA SessionReach ==
  ASSUME TypeOK, ThreadsKnown, NEW r \in Runs, SessionActs(r)
  PROVE  /\ \A q \in Runs \ {r} : /\ runs'[q] = runs[q] /\ graph'[q] = graph[q]
                                  /\ task'[q] = task[q]
                                  /\ q \in unrecorded' <=> q \in unrecorded
         /\ task'[r].thread = task[r].thread
         /\ unrecorded \subseteq unrecorded' /\ detached \subseteq detached'
<1> USE DEF TypeOK, history, Faulty, GraphOff, LeaveGraph, catalog, At
<1>1. /\ \A q \in Runs \ {r} : task'[q] = task[q]
      /\ task'[r].thread = task[r].thread
  <2>1. CASE Acquire(r) \/ Unlock(r)
    BY <2>1, Goes DEF Acquire, Unlock, Moved, Places
  <2> QED
    BY <2>1, SessionPath DEF Moved
<1>2. \A q \in Runs \ {r} : runs'[q] = runs[q]
  <2> USE RunsEnd, RunsStart DEF ThreadsKnown
  <2>1. CASE SessionStep(r)
    BY <2>1 DEF SessionStep, Acquire, CreateRun, Result, Publish, Flag, Fail, Clear, Unlock,
       Sessions, Outcomes
  <2>2. CASE GraphWrites(r) \/ GraphEnds(r) \/ AskCancel(r) \/ SetCancel(r)
    BY <2>2 DEF GraphWrites, GraphEnds, AskCancel, SetCancel
  <2>3. CASE CancelNoticed(r) \/ PollFails(r) \/ TimesOut(r) \/ Stopped(r) \/ Abandoned(r)
    BY <2>3 DEF CancelNoticed, PollFails, TimesOut, Stopped, Abandoned
  <2>4. CASE CallLost(r) \/ ReplyLost(r) \/ Crash(r)
    BY <2>4 DEF CallLost, ReplyLost, Crash, Outcomes
  <2> QED
    BY <2>1, <2>2, <2>3, <2>4 DEF SessionActs
<1>3. /\ \A q \in Runs \ {r} : graph'[q] = graph[q] /\ (q \in unrecorded' <=> q \in unrecorded)
      /\ unrecorded \subseteq unrecorded' /\ detached \subseteq detached'
  <2>1. CASE SessionStep(r)
    BY <2>1 DEF SessionStep, Acquire, CreateRun, Result, Publish, Flag, Fail, Clear, Unlock
  <2>2. CASE GraphWrites(r) \/ GraphEnds(r) \/ AskCancel(r) \/ SetCancel(r)
    BY <2>2 DEF GraphWrites, GraphEnds, AskCancel, SetCancel
  <2>3. CASE CancelNoticed(r) \/ PollFails(r) \/ TimesOut(r) \/ Stopped(r) \/ Abandoned(r)
    BY <2>3 DEF CancelNoticed, PollFails, TimesOut, Stopped, Abandoned
  <2>4. CASE CallLost(r) \/ ReplyLost(r) \/ Crash(r)
    BY <2>4 DEF CallLost, ReplyLost, Crash
  <2> QED
    BY <2>1, <2>2, <2>3, <2>4 DEF SessionActs
<1> QED
  BY <1>1, <1>2, <1>3

\* A session serves its run at each of its steps.
LEMMA SessionServes ==
  ASSUME TypeOK, ThreadsKnown, NEW r \in Runs, RunServed(r), SessionActs(r)
  PROVE  RunServed(r)'
<1> USE Goes DEF TypeOK, RunServed, Attached, At, Moved, Places, Outcomes,
    history, Faulty, GraphOff, LeaveGraph, catalog
<1>1. CASE Acquire(r) \/ Unlock(r)
  BY <1>1 DEF Acquire, Unlock
<1>2. CASE CreateRun(r)
  BY <1>2, RunsStart DEF CreateRun, ThreadsKnown
<1>3. CASE Result(r) \/ Flag(r) \/ Clear(r)
  BY <1>3 DEF Result, Flag, Clear
<1>4. CASE Publish(r)
  BY <1>4, RunsEnd DEF Publish, ThreadsKnown
<1>5. CASE Fail(r)
  <2>1. task[r].status \in Outcomes
    BY DEF Sessions
  <2> QED
    BY <1>5, <2>1, RunsEnd DEF Fail, ThreadsKnown
<1>6. CASE GraphWrites(r) \/ GraphEnds(r) \/ AskCancel(r) \/ SetCancel(r)
  BY <1>6 DEF GraphWrites, GraphEnds, AskCancel, SetCancel
<1>7. CASE CancelNoticed(r) \/ PollFails(r) \/ TimesOut(r) \/ Stopped(r) \/ Abandoned(r)
  BY <1>7 DEF CancelNoticed, PollFails, TimesOut, Stopped, Abandoned
<1>8. CASE CallLost(r) \/ Crash(r)
  BY <1>8 DEF CallLost, Crash, InSection
<1>9. CASE ReplyLost(r)
  BY <1>9, RunsStart, RunsEnd DEF ReplyLost, ThreadsKnown
<1> QED
  BY <1>1, <1>2, <1>3, <1>4, <1>5, <1>6, <1>7, <1>8, <1>9 DEF SessionActs, SessionStep

\* A run recorded as running has a session at work on it, or a lost or detached one.
LEMMA RunsGoOnServed ==
  ASSUME TypeOK, ThreadsKnown, RunsServed, [Next]_vars
  PROVE  RunsServed'
<1> USE DEF RunsServed, RunServed, Attached, At
<1>1. ASSUME NEW r \in Runs, SessionActs(r)
      PROVE  RunsServed'
  <2>1. RunServed(r)'
    BY <1>1, SessionServes
  <2>2. ASSUME NEW q \in Runs \ {r}
        PROVE  RunServed(q)'
    BY <1>1, <2>2, SessionReach
  <2> QED
    BY <2>1, <2>2
<1>2. ASSUME NEW d \in Deleters, DeletionActs(d)
      PROVE  RunsServed'
  <2>1. \A r \in Runs : runs'[r] \in {runs[r], "none"}
    BY <1>2 DEF DeletionActs, DeletionStep, DeleteAcquire, Erase, Remove, DeleteUnlock,
       DeleteFails, catalog
  <2> QED
    BY <1>2, <2>1, DeletionPath
<1>3. ASSUME NEW t \in Threads, CreateThread(t) \/ LeaseOfTheDead(t) \/ LeaseLost(t)
      PROVE  RunsServed'
  BY <1>3 DEF CreateThread, LeaseOfTheDead, LeaseLost, history, catalog
<1>4. ASSUME NEW r \in Runs, NEW t \in Threads, Request(r, t)
      PROVE  RunsServed'
  BY <1>4, RequestPath DEF history, catalog
<1>5. ASSUME NEW d \in Deleters, NEW t \in Threads, Delete(d, t)
      PROVE  RunsServed'
  BY <1>5 DEF Delete, history, catalog
<1>6. CASE UNCHANGED vars
  BY <1>6 DEF vars, history, catalog
<1> QED
  BY <1>1, <1>2, <1>3, <1>4, <1>5, <1>6, Steps

-----------------------------------------------------------------------------
(* Deletion.                                                                *)

\* The thread of a session that waits for its graph is not deleted under it, and what a
\* deletion erased stays erased until the thread is removed.
ThreadsInUse ==
  /\ \A r \in Runs : Attached(r) /\ Thread(r) \notin lost => threads[Thread(r)] # "absent"
  /\ \A d \in Deleters : Deletes(d, "remove") /\ deletion[d].thread \notin lost =>
       saved[deletion[d].thread] \subseteq detached

\* What a session and a deletion rely on, and what the deletions leave.
Base == TypeOK /\ ThreadsKnown /\ HoldersHold /\ RunsServed
Kept == ThreadsInUse /\ NothingOutlivesTheThread

\* No session creates a thread or removes one, and a checkpoint is written by the graph
\* of the session that holds the thread, or by a graph that was left executing.
LEMMA SessionSpares ==
  ASSUME Base, NEW r \in Runs, SessionActs(r)
  PROVE  /\ \A t \in Threads : threads'[t] = "absent" => threads[t] = "absent"
         /\ Attached(r)' /\ ~Attached(r) => threads'[Thread(r)] # "absent"
         /\ \/ UNCHANGED saved
            \/ /\ graph[r] = "on" /\ Thread(r) \in Threads
               /\ saved' = [saved EXCEPT ![Thread(r)] = @ \union {r}]
<1> USE DEF Base, Attached
<1>1. \A t \in Threads : threads'[t] = "absent" => threads[t] = "absent"
  <2> USE RunsEnd, RunsStart DEF TypeOK, ThreadsKnown, catalog, At
  <2>1. CASE CreateRun(r)
    BY <2>1 DEF CreateRun
  <2>2. CASE Publish(r) \/ Fail(r)
    BY <2>2 DEF Publish, Fail, Sessions, Outcomes
  <2>3. CASE ReplyLost(r)
    BY <2>3 DEF ReplyLost, Outcomes
  <2>4. CASE UNCHANGED catalog
    BY <2>4
  <2> QED
    BY <2>1, <2>2, <2>3, <2>4
    DEF SessionActs, SessionStep, Acquire, Result, Flag, Clear, Unlock, GraphWrites,
        GraphEnds, CancelNoticed, PollFails, TimesOut, Stopped, Abandoned, AskCancel,
        SetCancel, CallLost, Crash
<1>2. ASSUME Attached(r)', ~Attached(r)
      PROVE  threads'[Thread(r)] # "absent"
  <2>1. CASE Acquire(r) \/ Unlock(r)
    BY <1>2, <2>1, Goes DEF Acquire, Unlock, Places, Moved, At
  <2>2. CASE CreateRun(r)
    <3>1. CASE Referenced(Thread(r))
      <4>1. /\ StoreRun(r) /\ Moved(r, "execute")
            /\ Thread(r) \in Threads
        BY <2>2, <3>1, Goes DEF CreateRun, Places, ThreadsKnown, At
      <4>2. threads'[Thread(r)] = "busy"
        BY <3>1, <4>1, RunsStart
      <4> QED
        BY <4>2
    <3>2. CASE ~Referenced(Thread(r))
      <4>1. Moved(r, "unlock")
        BY <2>2, <3>2, Goes DEF CreateRun, Places
      <4> QED
        BY <1>2, <4>1 DEF Moved, At
    <3> QED
      BY <3>1, <3>2
  <2> QED
    BY <1>2, <2>1, <2>2, SessionPath DEF At
<1>3. \/ UNCHANGED saved
      \/ /\ graph[r] = "on" /\ Thread(r) \in Threads
         /\ saved' = [saved EXCEPT ![Thread(r)] = @ \union {r}]
  <2>1. CASE GraphWrites(r)
    BY <2>1 DEF GraphWrites, RunsServed, RunServed, ThreadsKnown, At
  <2> QED
    BY <2>1
    DEF SessionActs, SessionStep, Acquire, CreateRun, Result, Publish, Flag, Fail, Clear,
        Unlock, GraphEnds, CancelNoticed, PollFails, TimesOut, Stopped, Abandoned, AskCancel,
        SetCancel, CallLost, ReplyLost, Crash
<1> QED
  BY <1>1, <1>2, <1>3

\* What a deletion has removed stays removed: no session can bring it back.
LEMMA DeletionLeavesNothing ==
  ASSUME Base, Kept, [Next]_vars
  PROVE  Kept'
<1> USE ActorsAssumption DEF Base, Kept, ThreadsInUse, NothingOutlivesTheThread, Attached,
    At, Thread, Deletes
<1>1. ASSUME NEW r \in Runs, SessionActs(r)
      PROVE  Kept'
  <2>1. /\ \A q \in Runs \ {r} : task'[q] = task[q]
        /\ task'[r].thread = task[r].thread
        /\ detached \subseteq detached' /\ UNCHANGED <<deletion, lost>>
        /\ \A t \in Threads : threads'[t] = "absent" => threads[t] = "absent"
        /\ Attached(r)' /\ ~Attached(r) => threads'[Thread(r)] # "absent"
    BY <1>1, SessionReach, SessionPath, SessionSpares
  <2>2. \A q \in Runs : Attached(q) => Thread(q) \in Threads
    BY DEF ThreadsKnown
  <2>3. \A q \in Runs : (Attached(q) /\ Thread(q) \notin lost => threads[Thread(q)] # "absent")'
    BY <2>1, <2>2
  <2>4. ASSUME NEW t \in Threads \ lost,
               \/ threads[t] = "absent"
               \/ \E d \in Deleters : Deletes(d, "remove") /\ deletion[d].thread = t
        PROVE  saved'[t] \subseteq detached'
    <3>1. saved[t] \subseteq detached
      BY <2>4
    <3>2. CASE UNCHANGED saved
      BY <2>1, <3>1, <3>2
    <3>3. CASE /\ graph[r] = "on" /\ Thread(r) = t
               /\ saved' = [saved EXCEPT ![Thread(r)] = @ \union {r}]
      <4>1. ~Attached(r)
        BY <2>4, <3>3 DEF HoldersHold, InSection, Deleting
      <4>2. r \in detached
        BY <3>3, <4>1 DEF RunsServed, RunServed
      <4> QED
        BY <2>1, <3>1, <3>3, <4>2 DEF TypeOK
    <3>4. CASE Thread(r) # t /\ saved' = [saved EXCEPT ![Thread(r)] = @ \union {r}]
      BY <2>1, <3>1, <3>4 DEF TypeOK
    <3> QED
      BY <1>1, <3>2, <3>3, <3>4, SessionSpares
  <2>5. \A t \in Threads \ lost' : threads'[t] = "absent" => saved'[t] \subseteq detached'
    BY <2>1, <2>4
  <2>6. \A d \in Deleters : (Deletes(d, "remove") /\ deletion[d].thread \notin lost
                               => saved[deletion[d].thread] \subseteq detached)'
    BY <2>1, <2>4 DEF ThreadsKnown
  <2> QED
    BY <2>3, <2>5, <2>6
<1>2. ASSUME NEW d \in Deleters, DeletionActs(d)
      PROVE  Kept'
  <2>1. /\ UNCHANGED <<task, graph, lost, detached>>
        /\ ~Deletes(d, "idle") => deletion[d].thread \in Threads
    BY <1>2, DeletionPath DEF ThreadsKnown
  <2> DEFINE t == deletion[d].thread
  <2>2. CASE Erase(d)
    <3>1. Stepped(d, "remove") /\ t \in Threads /\ UNCHANGED threads
      BY <2>1, <2>2, DeletionSteps DEF Erase, DeletionPlaces, catalog
    <3>2. saved' = [saved EXCEPT ![t] = {}]
      BY <2>2 DEF Erase
    <3> QED
      BY <2>1, <3>1, <3>2 DEF TypeOK, Stepped
  <2>3. CASE Remove(d)
    <3>1. Stepped(d, "unlock") /\ t \in Threads /\ UNCHANGED saved
      BY <2>1, <2>3, DeletionSteps DEF Remove, DeletionPlaces
    <3>2. threads' = [threads EXCEPT ![t] = "absent"] /\ Deletes(d, "remove")
      BY <2>3 DEF Remove
    <3>3. \A r \in Runs : Attached(r) /\ Thread(r) \notin lost => Thread(r) # t
      BY <3>2 DEF HoldersHold, InSection, Deleting
    <3>4. t \notin lost => saved[t] \subseteq detached
      BY <3>2
    <3> QED
      BY <2>1, <3>1, <3>2, <3>3, <3>4 DEF TypeOK, Stepped, ThreadsKnown
  <2>4. CASE DeleteAcquire(d) \/ DeleteUnlock(d) \/ DeleteFails(d)
    <3>1. UNCHANGED <<threads, saved>>
      BY <2>4 DEF DeleteAcquire, DeleteUnlock, DeleteFails, catalog
    <3>2. \E pc \in {"idle", "erase", "unlock"} : Stepped(d, pc)
      BY <2>4, DeletionSteps DEF DeleteAcquire, DeleteUnlock, DeleteFails, DeletionPlaces
    <3> QED
      BY <2>1, <3>1, <3>2 DEF Stepped
  <2> QED
    BY <1>2, <2>2, <2>3, <2>4 DEF DeletionActs, DeletionStep
<1>3. ASSUME NEW t \in Threads, CreateThread(t) \/ LeaseOfTheDead(t) \/ LeaseLost(t)
      PROVE  Kept'
  BY <1>3 DEF CreateThread, LeaseOfTheDead, LeaseLost, history, catalog, TypeOK, ThreadsKnown
<1>4. ASSUME NEW r \in Runs, NEW t \in Threads, Request(r, t)
      PROVE  Kept'
  BY <1>4, RequestPath DEF history, catalog
<1>5. ASSUME NEW d \in Deleters, NEW t \in Threads, Delete(d, t)
      PROVE  Kept'
  BY <1>5 DEF Delete, history, catalog, TypeOK
<1>6. CASE UNCHANGED vars
  BY <1>6 DEF vars, history, catalog
<1> QED
  BY <1>1, <1>2, <1>3, <1>4, <1>5, <1>6, Steps

-----------------------------------------------------------------------------
(* The status of threads.                                                   *)

\* A thread is marked busy exactly while one of its runs is recorded as running.
LEMMA BusyStaysTrue ==
  ASSUME Base, BusyMeansRunning, [Next]_vars
  PROVE  BusyMeansRunning'
<1> USE ActorsAssumption DEF Base
<1>1. ASSUME NEW r \in Runs, SessionActs(r)
      PROVE  BusyMeansRunning'
  <2>1. /\ \A q \in Runs \ {r} : runs'[q] = runs[q] /\ task'[q] = task[q]
        /\ task'[r].thread = task[r].thread
        /\ unrecorded \subseteq unrecorded' /\ UNCHANGED lost
    BY <1>1, SessionReach, SessionPath
  <2>2. \A t \in Threads : RunsOf(t)' = RunsOf(t)
    BY <2>1 DEF RunsOf, Thread
  <2>3. CASE UNCHANGED <<threads, runs>>
    BY <2>1, <2>2, <2>3 DEF BusyMeansRunning
  <2>4. CASE CreateRun(r) /\ Referenced(Thread(r))
    <3>1. Thread(r) \in Threads
      BY <2>4 DEF CreateRun, ThreadsKnown, At
    <3>2. /\ runs'[r] = "running" /\ threads'[Thread(r)] = "busy"
          /\ \A t \in Threads \ {Thread(r)} : threads'[t] = threads[t]
      BY <2>4, <3>1, RunsStart DEF CreateRun
    <3> QED
      BY <2>1, <2>2, <3>1, <3>2 DEF BusyMeansRunning, RunsOf
  <2>5. ASSUME NEW status \in Outcomes, FinishRun(r, status), InSection(r),
               ~UNCHANGED <<threads, runs>>
        PROVE  BusyMeansRunning'
    <3>1. PICK t \in Threads : t = Thread(r)
      BY <2>5 DEF InSection, ThreadsKnown, At
    <3>2. /\ runs'[r] # "running" /\ threads'[t] # "busy"
          /\ \A u \in Threads \ {t} : threads'[u] = threads[u]
      BY <2>5, <3>1, RunsEnd DEF Outcomes
    <3>3. ASSUME t \notin lost, NEW q \in RunsOf(t), q \notin unrecorded
          PROVE  runs'[q] # "running"
      <4>1. CASE q = r
        BY <3>2, <4>1
      <4>2. CASE q # r
        <5>1. ~InSection(q)
          BY <2>5, <3>1, <3>3, <4>2 DEF RunsOf, HoldersHold
        <5> QED
          BY <2>1, <3>3, <4>2, <5>1 DEF RunsOf, RunsServed, RunServed, InSection
      <4> QED
        BY <4>1, <4>2
    <3>4. ASSUME NEW u \in Threads \ lost, RunsOf(u) \intersect unrecorded' = {}
          PROVE  threads'[u] = "busy" <=> \E q \in RunsOf(u) : runs'[q] = "running"
      <4>1. CASE u = t
        BY <2>1, <3>2, <3>3, <3>4, <4>1
      <4>2. CASE u # t
        BY <2>1, <3>1, <3>2, <3>4, <4>2 DEF BusyMeansRunning, RunsOf
      <4> QED
        BY <4>1, <4>2
    <3> QED
      BY <2>1, <2>2, <3>4 DEF BusyMeansRunning
  <2>6. CASE StoreRun(r) /\ Referenced(Thread(r)) /\ At(r, "create") /\ r \in unrecorded'
    <3>1. Thread(r) \in Threads
      BY <2>6 DEF ThreadsKnown, At
    <3>2. \A t \in Threads \ {Thread(r)} : threads'[t] = threads[t]
      BY <2>6, <3>1, RunsStart
    <3> QED
      BY <2>1, <2>2, <2>6, <3>1, <3>2 DEF BusyMeansRunning, RunsOf
  <2>7. CASE Publish(r) \/ Fail(r) \/ ReplyLost(r)
    BY <2>3, <2>5, <2>6, <2>7
    DEF Publish, Fail, ReplyLost, InSection, At, Outcomes, TypeOK, Sessions
  <2> QED
    BY <1>1, <2>3, <2>4, <2>7
    DEF SessionActs, SessionStep, Acquire, CreateRun, Result, Flag, Clear, Unlock, GraphWrites,
        GraphEnds, CancelNoticed, PollFails, TimesOut, Stopped, Abandoned, AskCancel,
        SetCancel, CallLost, Crash, catalog
<1>2. ASSUME NEW d \in Deleters, DeletionActs(d)
      PROVE  BusyMeansRunning'
  <2>1. UNCHANGED <<task, lost, unrecorded>>
    BY <1>2, DeletionPath
  <2>2. CASE Remove(d)
    BY <2>1, <2>2 DEF Remove, BusyMeansRunning, RunsOf, Thread, TypeOK
  <2>3. CASE UNCHANGED <<threads, runs>>
    BY <2>1, <2>3 DEF BusyMeansRunning, RunsOf, Thread
  <2> QED
    BY <1>2, <2>2, <2>3
    DEF DeletionActs, DeletionStep, DeleteAcquire, Erase, DeleteUnlock, DeleteFails, catalog
<1>3. ASSUME NEW t \in Threads, CreateThread(t)
      PROVE  BusyMeansRunning'
  BY <1>3 DEF CreateThread, BusyMeansRunning, RunsOf, Thread, TypeOK, history
<1>4. ASSUME NEW t \in Threads, LeaseOfTheDead(t) \/ LeaseLost(t)
      PROVE  BusyMeansRunning'
  BY <1>4 DEF LeaseOfTheDead, LeaseLost, BusyMeansRunning, RunsOf, Thread, catalog, history
<1>5. ASSUME NEW r \in Runs, NEW t \in Threads, Request(r, t)
      PROVE  BusyMeansRunning'
  <2>1. /\ \A q \in Runs \ {r} : task'[q] = task[q]
        /\ task'[r].thread = t /\ runs[r] = "none"
        /\ Thread(r) \notin Threads
        /\ UNCHANGED <<threads, runs, lost, unrecorded>>
    BY <1>5, RequestPath DEF RunsServed, RunServed, ThreadsKnown, catalog, history, At
  <2> QED
    BY <2>1 DEF BusyMeansRunning, RunsOf, Thread
<1>6. ASSUME NEW d \in Deleters, NEW t \in Threads, Delete(d, t)
      PROVE  BusyMeansRunning'
  BY <1>6 DEF Delete, BusyMeansRunning, RunsOf, Thread, catalog, history
<1>7. CASE UNCHANGED vars
  BY <1>7 DEF vars, BusyMeansRunning, RunsOf, Thread, catalog, history
<1> QED
  BY <1>1, <1>2, <1>3, <1>4, <1>5, <1>6, <1>7, Steps

-----------------------------------------------------------------------------
GraphInv == Base /\ Kept /\ BusyMeansRunning

\* The inductive invariant, in every reachable state.
LEMMA GraphInvariance == Spec => []GraphInv
<1>1. Init => GraphInv
  <2> SUFFICES ASSUME Init PROVE GraphInv
    OBVIOUS
  <2> USE ActorsAssumption DEF Init
  <2>1. TypeOK /\ ThreadsKnown
    BY DEF TypeOK, ThreadsKnown, Sessions, Deletions, Outcomes, At, Deletes, Thread
  <2>2. HoldersHold /\ RunsServed
    BY DEF HoldersHold, RunsServed, RunServed, InSection, Deleting
  <2>3. Kept /\ BusyMeansRunning
    BY DEF Kept, ThreadsInUse, NothingOutlivesTheThread, BusyMeansRunning, Attached, At,
       Deletes, RunsOf
  <2> QED
    BY <2>1, <2>2, <2>3 DEF GraphInv, Base
<1>2. GraphInv /\ [Next]_vars => GraphInv'
  <2> SUFFICES ASSUME GraphInv, [Next]_vars PROVE GraphInv'
    OBVIOUS
  <2>1. TypeOK' /\ ThreadsKnown'
    BY Steps, SessionTypes, DeletionTypes, OtherTypes DEF GraphInv, Base
  <2>2. HoldersHold' /\ RunsServed'
    BY HoldersGoOnHolding, RunsGoOnServed DEF GraphInv, Base
  <2>3. Kept' /\ BusyMeansRunning'
    BY DeletionLeavesNothing, BusyStaysTrue DEF GraphInv
  <2> QED
    BY <2>1, <2>2, <2>3 DEF GraphInv, Base
<1> QED
  BY <1>1, <1>2, PTL DEF Spec

\* The status of a thread tells whether one of its runs is running, whatever ends the
\* run and whoever deletes the thread.
THEOREM BusyAlwaysMeansRunning == Spec => []BusyMeansRunning
<1>1. GraphInv => BusyMeansRunning
  BY DEF GraphInv
<1> QED
  BY <1>1, GraphInvariance, PTL

\* A deleted thread keeps no checkpoint but those of graphs that were left executing.
THEOREM NothingEverOutlivesTheThread == Spec => []NothingOutlivesTheThread
<1>1. GraphInv => NothingOutlivesTheThread
  BY DEF GraphInv, Kept
<1> QED
  BY <1>1, GraphInvariance, PTL
=============================================================================
