--------------------------- MODULE WorkflowRunner ---------------------------
(***************************************************************************)
(* The sequential runner (application/services/workflow_runner.py), its    *)
(* store (adapters/outbound/memory/workflow_store.py) and the service that *)
(* cancels (application/services/workflow_service.py).  Tasks await run or *)
(* resume; each pass claims the workflow, drives it step by step and       *)
(* releases it.  Operations of the store port are atomic; between two of   *)
(* them, and while a step executes, every other task may take steps.       *)
(***************************************************************************)
EXTENDS WorkflowLifecycle, FiniteSets

CONSTANTS
  Workflows,     \* identities uuid7 will give
  NoWorkflow,
  Keys, NoKey,   \* idempotency keys, and none
  Budgets,       \* the definitions that may be started: attempts per step
  Tasks,         \* tasks that await run or resume
  Clients,       \* tasks that await cancel
  ChangeTries,   \* range(8) of _change and of cancel
  MaxInstances,  \* capacity of the store
  MaxVersion,    \* bound on the life of a workflow (the code has none)
  Nobody, Gone,  \* no owner; an owner whose pass is over without a release
  MaxFaults      \* bound on the store calls that are lost, or interrupted,
                 \* before or after they take effect

ASSUME BudgetsAssumption ==
  \A b \in Budgets : b \in Seq(Nat \ {0}) /\ b # << >>
ASSUME NamesAssumption ==
  /\ NoWorkflow \notin Workflows /\ NoKey \notin Keys
  /\ Tasks \intersect Clients = {}
  /\ Nobody \notin Tasks /\ Gone \notin Tasks /\ Nobody # Gone
ASSUME BoundsAssumption ==
  /\ ChangeTries \in Nat \ {0} /\ MaxInstances \in Nat \ {0} /\ MaxVersion \in Nat
  /\ MaxFaults \in Nat

VARIABLES
  records,  \* _records: workflow -> WorkflowInstance, or NoRecord
  keys,     \* _keys: idempotency key -> fingerprint and workflow
  owners,   \* _owners: the pass that holds the claim
  issued,   \* every identity given out, never given twice
  handed,   \* the <<workflow, step, attempt>> of every StepExecutionContext
  pass,     \* the frame of each task's current operation
  faults    \* the store calls lost so far

vars == <<records, keys, owners, issued, handed, pass, faults>>

-----------------------------------------------------------------------------
NoRecord == [status |-> "absent"]
NoEntry  == [workflow |-> NoWorkflow]
Stored(w) == records[w].status # "absent"

\* `change' is what the caller of _change asks for, `effective' what is sent;
\* `checkpoint', `context' and `attempt' are those of the record the pass holds.
Idle == [pc |-> "idle", workflow |-> NoWorkflow, change |-> CancelWorkflow,
         effective |-> CancelWorkflow, seen |-> 0, tries |-> 0,
         checkpoint |-> 0, context |-> << >>, attempt |-> 0]

Frames ==
  [pc : {"idle", "find", "claim", "read", "commit", "poll", "execute", "token",
         "rescue", "release"},
   workflow : Workflows \union {NoWorkflow}, change : Changes,
   effective : Changes, seen : Nat, tries : Nat, checkpoint : Nat,
   context : Seq(Nat), attempt : Nat]

TypeOK ==
  /\ records \in [Workflows -> InstanceOf(Budgets) \union {NoRecord}]
  /\ keys \in [Keys -> [budget : Budgets, workflow : Workflows] \union {NoEntry}]
  /\ owners \in [Workflows -> Tasks \union {Nobody, Gone}]
  /\ issued \subseteq Workflows
  /\ handed \subseteq Workflows \X Nat \X Nat
  /\ pass \in [Tasks \union Clients -> Frames]
  /\ faults \in 0..MaxFaults

Init ==
  /\ records = [w \in Workflows |-> NoRecord]
  /\ keys = [k \in Keys |-> NoEntry]
  /\ owners = [w \in Workflows |-> Nobody]
  /\ issued = {}
  /\ handed = {}
  /\ pass = [t \in Tasks \union Clients |-> Idle]
  /\ faults = 0

-----------------------------------------------------------------------------
(* The store.                                                              *)

\* create with a free key or none, below capacity; any other create changes
\* nothing.
Create(w, budget, key) ==
  /\ w \notin issued
  /\ key \in Keys => keys[key] = NoEntry
  /\ Cardinality({v \in Workflows : Stored(v)}) < MaxInstances
  /\ records' = [records EXCEPT ![w] = NewInstance(budget)]
  /\ keys' = [k \in Keys |-> IF k = key THEN [budget |-> budget, workflow |-> w]
                                        ELSE keys[k]]
  /\ issued' = issued \union {w}
  /\ UNCHANGED <<owners, handed, pass, faults>>

\* delete_terminal.
Delete(w) ==
  /\ records[w].status \in Terminal
  /\ owners[w] = Nobody
  /\ records' = [records EXCEPT ![w] = NoRecord]
  /\ keys' = [k \in Keys |-> IF keys[k].workflow = w THEN NoEntry ELSE keys[k]]
  /\ UNCHANGED <<owners, issued, handed, pass, faults>>

\* The conditions of change, in the order in which it checks them.
Owned(t) ==
  pass[t].effective.type = "cancel" \/ owners[pass[t].workflow] = t
Current(t) == records[pass[t].workflow].version = pass[t].seen
Accepted(t) ==
  /\ Stored(pass[t].workflow) /\ Owned(t) /\ Current(t)
  /\ Permits(records[pass[t].workflow], pass[t].effective)

Store(t) ==
  records' = [records EXCEPT ![pass[t].workflow] =
                Transition(@, pass[t].effective)]

-----------------------------------------------------------------------------
(* Passes of the runner.                                                    *)

Moves(t, frame) ==
  /\ pass' = [pass EXCEPT ![t] = frame]
  /\ UNCHANGED <<records, keys, owners, issued, handed>>

Goto(t, frame) == Moves(t, frame) /\ UNCHANGED faults

At(t, pc) == pass[t].pc = pc
Frame(t, pc) == [Idle EXCEPT !.pc = pc, !.workflow = pass[t].workflow]
Step(t, pc) == Goto(t, Frame(t, pc))
Leave(t) == Goto(t, Idle)

\* A new _change.
Ask(t, c) == Goto(t, [Frame(t, "read") EXCEPT !.change = c])

\* _execute first looks the workflow up.
Enter(t, w, c) ==
  /\ At(t, "idle")
  /\ Goto(t, [Idle EXCEPT !.pc = IF t \in Tasks THEN "find" ELSE "read",
                          !.workflow = w, !.change = c])

\* Callers give up on a workflow once it has reached MaxVersion.
RunOrResume(t, w) ==
  /\ t \in Tasks
  /\ Stored(w) => records[w].version < MaxVersion
  /\ \E resume \in BOOLEAN : Enter(t, w, StartWorkflow(resume))

CallCancel(t, w) == t \in Clients /\ Enter(t, w, CancelWorkflow)

Find(t) ==
  /\ At(t, "find")
  /\ IF Stored(pass[t].workflow)
     THEN Goto(t, [pass[t] EXCEPT !.pc = "claim"])
     ELSE Leave(t)

\* A defect that TLC must notice: a claim that does not look for an owner.
Claims_Steals(t) == Stored(pass[t].workflow)

\* store.claim, which raises WorkflowNotFound or WorkflowBusy.
Claims(t) == Stored(pass[t].workflow) /\ owners[pass[t].workflow] = Nobody

\* A defect that TLC must notice: a claim that waits for its turn.
Claim_Waits(t) ==
  /\ At(t, "claim")
  /\ Claims(t)
  /\ owners' = [owners EXCEPT ![pass[t].workflow] = t]
  /\ pass' = [pass EXCEPT ![t].pc = "read"]
  /\ UNCHANGED <<records, keys, issued, handed, faults>>

Claim(t) ==
  /\ At(t, "claim")
  /\ IF Claims(t)
     THEN /\ owners' = [owners EXCEPT ![pass[t].workflow] = t]
          /\ pass' = [pass EXCEPT ![t].pc = "read"]
          /\ UNCHANGED <<records, keys, issued, handed, faults>>
     ELSE Leave(t)

\* An operation that raises inside _execute still releases its claim.
Unwind(t) == IF t \in Tasks THEN Step(t, "release") ELSE Leave(t)

\* The head of an iteration of _change, or of cancel: a begin that finds a
\* cancellation acknowledges it instead.
Read(t) ==
  /\ At(t, "read")
  /\ IF Stored(pass[t].workflow)
     THEN LET r == records[pass[t].workflow]
              c == pass[t].change
          IN Goto(t, [pass[t] EXCEPT !.pc = "commit", !.seen = r.version,
                        !.effective = IF c.type = "begin" /\ r.cancellationRequested
                                      THEN Acknowledge ELSE c])
     ELSE Unwind(t)

\* What a pass does with the record store.change returns.
NextPc(r, effective) ==
  CASE effective.type = "begin"  -> "execute"
    [] effective.type \in {"run", "resume", "commit"} -> "poll"
    [] effective.type \in {"acknowledge", "fail", "complete"} -> "release"
    [] effective.type = "cancel" -> "idle"

\* store.change accepts.
Commit(t) ==
  /\ At(t, "commit")
  /\ Accepted(t)
  /\ Store(t)
  /\ LET w  == pass[t].workflow
         r  == records'[w]
         pc == NextPc(r, pass[t].effective)
     IN /\ pass' = [pass EXCEPT ![t] =
             IF pc = "idle" THEN Idle
             ELSE IF pc = "release" THEN Frame(t, pc)
             ELSE [Frame(t, pc) EXCEPT
                     !.checkpoint = r.checkpoint, !.context = r.context,
                     !.attempt = IF pc = "execute"
                                 THEN r.steps[Here(r)].attempts ELSE 0]]
        /\ handed' = IF pc = "execute"
                     THEN handed \union {<<w, Here(r), r.steps[Here(r)].attempts>>}
                     ELSE handed
  /\ UNCHANGED <<keys, owners, issued, faults>>

\* WorkflowVersionConflict.
Conflict(t) ==
  /\ At(t, "commit")
  /\ Stored(pass[t].workflow) /\ Owned(t) /\ ~Current(t)
  /\ IF pass[t].tries + 1 = ChangeTries THEN Unwind(t)
     ELSE Goto(t, [Frame(t, "read") EXCEPT !.change = pass[t].change,
                                           !.tries = pass[t].tries + 1])

\* WorkflowNotFound, WorkflowBusy or WorkflowTransitionError.
Refused(t) ==
  /\ At(t, "commit")
  /\ \/ ~Stored(pass[t].workflow)
     \/ ~Owned(t)
     \/ /\ Stored(pass[t].workflow) /\ Current(t)
        /\ ~Permits(records[pass[t].workflow], pass[t].effective)
  /\ Unwind(t)

\* _drive between two steps: stop, begin the step at its checkpoint, or build and
\* publish the result.
Poll(t) ==
  /\ At(t, "poll")
  /\ LET w == pass[t].workflow IN
       IF ~Stored(w) THEN Unwind(t)
       ELSE IF records[w].cancellationRequested THEN Ask(t, Acknowledge)
       ELSE IF pass[t].checkpoint < Len(records[w].budget) THEN Ask(t, BeginStep)
       ELSE \E c \in {Complete(pass[t].context), Fail("result_failed")} : Ask(t, c)

\* _step: the step returns a context, raises, or stops on cancellation.
StepReturns(t) ==
  At(t, "execute")
  /\ Ask(t, CommitStep(Append(pass[t].context, pass[t].attempt)))

StepRaises(t) == At(t, "execute") /\ Ask(t, Fail("step_failed"))

StepStops(t) == At(t, "execute") /\ Step(t, "token")

AskToken(t) ==
  /\ At(t, "token")
  /\ IF Stored(pass[t].workflow)
     THEN Ask(t, IF records[pass[t].workflow].cancellationRequested
                 THEN Acknowledge ELSE Fail("step_failed"))
     ELSE Unwind(t)

\* A defect that TLC must notice: the interrupted pass records nothing.
OwnerCancelled_Unrecorded(t) == At(t, "execute") /\ Unwind(t)

\* asyncio.CancelledError while the step executes.
OwnerCancelled(t) == At(t, "execute") /\ Step(t, "rescue")

\* The interrupted pass records its failure if the workflow still runs.
Rescue(t) ==
  /\ At(t, "rescue")
  /\ IF records[pass[t].workflow].status = RUNNING
     THEN Ask(t, Fail("execution_interrupted"))
     ELSE Unwind(t)

Release(t) ==
  /\ At(t, "release")
  /\ owners' = IF owners[pass[t].workflow] = t
               THEN [owners EXCEPT ![pass[t].workflow] = Nobody] ELSE owners
  /\ pass' = [pass EXCEPT ![t] = Idle]
  /\ UNCHANGED <<records, keys, issued, handed, faults>>

-----------------------------------------------------------------------------
(* Lost and interrupted store calls.                                        *)

\* _drive is in progress: a CancelledError is rescued.  Before _drive there is
\* nothing to rescue, and a rescue is not rescued.
InDrive(t) ==
  \/ pass[t].pc \in {"poll", "token"}
  \/ /\ pass[t].pc \in {"read", "commit"}
     /\ pass[t].change.type \notin {"run", "resume"}
     /\ pass[t].change # Fail("execution_interrupted")

\* The frames an exception out of a store call leads to.
Raised(t) ==
  IF t \in Clients THEN {Idle}
  ELSE {Frame(t, pc) :
          pc \in {"release"} \union (IF InDrive(t) THEN {"rescue"} ELSE {})}

\* The call has no effect.  Nothing was claimed yet, or the release of the claim
\* is itself lost and the claim has no holder any more.
CallLost(t) ==
  /\ faults < MaxFaults /\ faults' = faults + 1
  /\ \/ pass[t].pc \in {"find", "claim"} /\ Moves(t, Idle)
     \/ /\ pass[t].pc \in {"read", "commit", "poll", "token", "rescue"}
        /\ \E frame \in Raised(t) : Moves(t, frame)
     \/ /\ At(t, "release")
        /\ owners' = [owners EXCEPT ![pass[t].workflow] =
                        IF @ = t THEN Gone ELSE @]
        /\ pass' = [pass EXCEPT ![t] = Idle]
        /\ UNCHANGED <<records, keys, issued, handed>>

\* The call takes effect and its caller never learns of it.
ReplyLost(t) ==
  /\ faults < MaxFaults /\ faults' = faults + 1
  /\ \/ /\ At(t, "claim") /\ Claims(t)
        /\ owners' = [owners EXCEPT ![pass[t].workflow] = Gone]
        /\ pass' = [pass EXCEPT ![t] = Idle]
        /\ UNCHANGED <<records, keys, issued, handed>>
     \/ /\ At(t, "commit") /\ Accepted(t)
        /\ Store(t)
        /\ \E frame \in Raised(t) : pass' = [pass EXCEPT ![t] = frame]
        /\ UNCHANGED <<keys, owners, issued, handed>>

-----------------------------------------------------------------------------
StoreStep(t) ==
  \/ Find(t) \/ Claim(t) \/ Read(t) \/ Commit(t) \/ Conflict(t) \/ Refused(t)
  \/ Poll(t) \/ AskToken(t) \/ Rescue(t) \/ Release(t)

StepEnds(t) ==
  StepReturns(t) \/ StepRaises(t) \/ StepStops(t) \/ OwnerCancelled(t)

Next ==
  \/ \E w \in Workflows, b \in Budgets, k \in Keys \union {NoKey} : Create(w, b, k)
  \/ \E w \in Workflows : Delete(w)
  \/ \E t \in Tasks \union Clients, w \in issued :
       RunOrResume(t, w) \/ CallCancel(t, w)
  \/ \E t \in Tasks \union Clients :
       StoreStep(t) \/ StepEnds(t) \/ CallLost(t) \/ ReplyLost(t)

Spec == Init /\ [][Next]_vars

\* The event loop resumes every task whose store call is done, and every step
\* ends.  Nobody is obliged to start, resume, cancel or delete.
FairSpec ==
  /\ Spec
  /\ \A t \in Tasks \union Clients :
       WF_vars(StoreStep(t)) /\ WF_vars(StepEnds(t))

-----------------------------------------------------------------------------
(* Correctness.                                                             *)

\* No sequence of changes drives a workflow into an instance its own model would
\* refuse to build: confirmed steps form a prefix, budgets hold, status, result,
\* error and finished_at agree.
InstancesValid == \A w \in Workflows : Stored(w) => ValidInstance(records[w])

\* The stored context is made of the outputs of the confirmed steps, each by the
\* attempt the step counts: no step is skipped, replayed on top of itself or fed
\* with an older context.
ContextMatchesCheckpoint ==
  \A w \in Workflows : Stored(w) =>
    LET r == records[w] IN
      /\ Len(r.context) = r.checkpoint
      /\ \A i \in 1..r.checkpoint : r.context[i] = r.steps[i].attempts
      /\ r.status = COMPLETED => r.result = r.context

\* What is stored of a workflow agrees with itself and with the steps that ran.
CheckpointsAgree == InstancesValid /\ ContextMatchesCheckpoint

\* t is between its claim and its release.
Driving(t) == pass[t].pc \in {"poll", "execute", "token", "rescue", "release"} \/
              (t \in Tasks /\ pass[t].pc \in {"read", "commit"})

\* A workflow that runs is driven by one pass: a pass has the claim of its workflow from
\* claim to release, and as long as no store call is lost a running workflow is claimed.
OneOwner ==
  /\ \A t \in Tasks : Driving(t) => owners[pass[t].workflow] = t
  /\ faults = 0 => \A w \in Workflows : records[w].status = RUNNING => owners[w] # Nobody

Executing(t) == pass'[t].pc = "execute" /\ pass[t].pc # "execute"

\* A business step starts only at the checkpoint, counted before it is called,
\* with no cancellation pending, and the same attempt of a step starts once, even
\* when answers of the store are lost and the workflow is resumed.
StepStartsOnce ==
  [][\A t \in Tasks : Executing(t) =>
       LET w == pass[t].workflow
           r == records'[w]
           i == pass'[t].checkpoint + 1
       IN /\ i = r.checkpoint + 1
          /\ r.steps[i].status = "running" /\ r.steps[i].attempts = pass'[t].attempt
          /\ ~r.cancellationRequested
          /\ <<w, i, pass'[t].attempt>> \notin handed]_vars

\* Every pass ends, and releases its claim.
PassesEnd == \A t \in Tasks : pass[t].pc # "idle" ~> pass[t].pc = "idle"

-----------------------------------------------------------------------------
(* The contract of the ports, seen through the public fields of the records. *)

View(r) ==
  [status |-> r.status, budget |-> r.budget, confirmed |-> r.context,
   tried  |-> IF Unfinished(r) THEN r.steps[Here(r)].attempts ELSE 0,
   inStep |-> Unfinished(r) /\ r.steps[Here(r)].status = "running",
   requested |-> r.cancellationRequested]

PublicFlow ==
  [w \in Workflows |->
     IF Stored(w) THEN View(records[w])
     ELSE [status |-> IF w \in issued THEN "deleted" ELSE "absent"]]

Contract == INSTANCE WorkflowContract WITH flow <- PublicFlow, entered <- handed

\* Whatever the interleaving, the lost answers and the cancelled passes, every
\* step of the store and of the runner is one the contract allows or is invisible
\* in the public fields of the workflow.
KeepsContract == Contract!Spec
=============================================================================
