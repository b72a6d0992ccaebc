------------------------- MODULE WorkflowLifecycle --------------------------
(***************************************************************************)
(* The record of one workflow and its changes: domain/models/workflow.py   *)
(* and domain/services/workflow_lifecycle.py.  The business context is the *)
(* sequence of the attempts whose outputs went into it, one per confirmed  *)
(* step; a result is the context it was built from.  Timestamps are reduced*)
(* to whether finished_at is set, and the capped event log is left out.    *)
(***************************************************************************)
EXTENDS Naturals, Sequences

PENDING   == "pending"
RUNNING   == "running"
COMPLETED == "completed"
FAILED    == "failed"
CANCELLED == "cancelled"

Terminal == {COMPLETED, FAILED, CANCELLED}
Status   == {PENDING, RUNNING} \union Terminal

StepStatus == {"pending", "running", "succeeded", "failed"}

\* "step_failed" stands for step_not_implemented too; "none" is no error.
Errors == {"none", "step_failed", "result_failed", "execution_interrupted"}

NoResult == << >>

StepRecord == [status : StepStatus, attempts : Nat]

InstanceOf(budgets) ==
  [budget : budgets, status : Status, version : Nat \ {0}, checkpoint : Nat,
   steps : Seq(StepRecord), cancellationRequested : BOOLEAN,
   context : Seq(Nat), result : Seq(Nat), error : Errors, finished : BOOLEAN]

\* budget[i] is max_attempts of the i-th step of the definition.
NewInstance(budget) ==
  [budget |-> budget, status |-> PENDING, version |-> 1, checkpoint |-> 0,
   steps |-> [i \in DOMAIN budget |-> [status |-> "pending", attempts |-> 0]],
   cancellationRequested |-> FALSE, context |-> << >>, result |-> NoResult,
   error |-> "none", finished |-> FALSE]

-----------------------------------------------------------------------------
Changes == [type : {"run", "resume", "begin", "commit", "complete", "fail",
                    "cancel", "acknowledge"},
            data : Seq(Nat), error : Errors]

Change(type) == [type |-> type, data |-> << >>, error |-> "none"]
StartWorkflow(resume) == Change(IF resume THEN "resume" ELSE "run")
BeginStep   == Change("begin")
CancelWorkflow == Change("cancel")
Acknowledge == Change("acknowledge")
CommitStep(context) == [Change("commit") EXCEPT !.data = context]
Complete(result)    == [Change("complete") EXCEPT !.data = result]
Fail(code)          == [Change("fail") EXCEPT !.error = code]

\* Steps remain, and the one at the checkpoint.
Unfinished(r) == r.checkpoint < Len(r.steps)
Here(r)       == r.checkpoint + 1
HasAttempts(r) == r.steps[Here(r)].attempts < r.budget[Here(r)]

\* A defect that TLC must notice: resume forgets the budget of the step.
Permits_ResumeExhausted(r, c) ==
  \/ c.type = "run" /\ r.status = PENDING
  \/ c.type = "resume" /\ r.status \in {FAILED, RUNNING}
  \/ /\ c.type = "cancel"
     /\ r.status \in {PENDING, RUNNING, CANCELLED} \/ r.cancellationRequested
  \/ c.type = "fail" /\ r.status = RUNNING
  \/ c.type = "acknowledge" /\ r.status = RUNNING /\ r.cancellationRequested
  \/ c.type = "complete" /\ r.status = RUNNING /\ ~Unfinished(r)
  \/ /\ c.type = "begin" /\ r.status = RUNNING /\ Unfinished(r)
     /\ r.steps[Here(r)].status \in {"pending", "failed"}
     /\ ~r.cancellationRequested
     /\ HasAttempts(r)
  \/ /\ c.type = "commit" /\ r.status = RUNNING /\ Unfinished(r)
     /\ r.steps[Here(r)].status = "running"

\* Whether _fields returns instead of raising WorkflowTransitionError.
Permits(r, c) ==
  \/ c.type = "run" /\ r.status = PENDING
  \/ /\ c.type = "resume" /\ r.status \in {FAILED, RUNNING}
     /\ Unfinished(r) /\ ~r.cancellationRequested => HasAttempts(r)
  \/ /\ c.type = "cancel"
     /\ r.status \in {PENDING, RUNNING, CANCELLED} \/ r.cancellationRequested
  \/ c.type = "fail" /\ r.status = RUNNING
  \/ c.type = "acknowledge" /\ r.status = RUNNING /\ r.cancellationRequested
  \/ c.type = "complete" /\ r.status = RUNNING /\ ~Unfinished(r)
  \/ /\ c.type = "begin" /\ r.status = RUNNING /\ Unfinished(r)
     /\ r.steps[Here(r)].status \in {"pending", "failed"}
     /\ ~r.cancellationRequested
     /\ HasAttempts(r)
  \/ /\ c.type = "commit" /\ r.status = RUNNING /\ Unfinished(r)
     /\ r.steps[Here(r)].status = "running"

\* A cancellation that was already requested updates nothing.
IsNoOp(r, c) ==
  c.type = "cancel" /\ (r.status = CANCELLED \/ r.cancellationRequested)

Touch(r) == [r EXCEPT !.version = @ + 1]

\* A step left running when execution stops has failed.
StopStep(r) ==
  IF Unfinished(r) /\ r.steps[Here(r)].status = "running"
  THEN [r EXCEPT !.steps[Here(r)].status = "failed"]
  ELSE r

\* Defects that TLC must notice: a resume that keeps the error of the last pass,
\* or that replays the workflow from its first step.
Start_KeepsError(r) ==
  [StopStep(Touch(r)) EXCEPT !.status = RUNNING, !.finished = FALSE]

Start(r) ==
  [StopStep(Touch(r)) EXCEPT !.status = RUNNING, !.finished = FALSE,
                             !.error = "none"]

\* A defect that TLC must notice: a retried step keeps its attempt number.
Begin_SameAttempt(r) ==
  [Touch(r) EXCEPT !.steps[Here(r)] = [status |-> "running", attempts |-> 1]]

Begin(r) ==
  [Touch(r) EXCEPT !.steps[Here(r)] = [status |-> "running",
                                       attempts |-> @.attempts + 1]]

\* A defect that TLC must notice: the context of the step is not stored.
Confirm_KeepsContext(r, context) ==
  [Touch(r) EXCEPT !.steps[Here(r)].status = "succeeded", !.checkpoint = @ + 1]

Confirm(r, context) ==
  [Touch(r) EXCEPT !.steps[Here(r)].status = "succeeded",
                   !.context = context, !.checkpoint = @ + 1]

Finish(r, status, error, result) ==
  [Touch(r) EXCEPT !.status = status, !.finished = TRUE, !.error = error,
                   !.result = result]

\* Completion gives way to a cancellation that came before it.
Publish(r, result) ==
  IF r.cancellationRequested
  THEN Finish(r, CANCELLED, "none", NoResult)
  ELSE Finish(r, COMPLETED, "none", result)

Cancel(r) ==
  LET s == [Touch(r) EXCEPT !.cancellationRequested = TRUE]
  IN IF r.status = PENDING
     THEN [s EXCEPT !.status = CANCELLED, !.finished = TRUE] ELSE s

\* transition_workflow on a permitted change.
Transition(r, c) ==
  CASE IsNoOp(r, c)                  -> r
    [] c.type \in {"run", "resume"}  -> Start(r)
    [] c.type = "cancel" /\ ~IsNoOp(r, c) -> Cancel(r)
    [] c.type = "begin"              -> Begin(r)
    [] c.type = "commit"             -> Confirm(r, c.data)
    [] c.type = "complete"           -> Publish(r, c.data)
    [] c.type = "fail"               -> Finish(StopStep(r), FAILED, c.error, NoResult)
    [] c.type = "acknowledge"        -> Finish(r, CANCELLED, "none", NoResult)

-----------------------------------------------------------------------------
(* WorkflowInstance.lifecycle and WorkflowStepRecord.outcome, which           *)
(* re-validate every changed record.                                         *)

ValidSteps(r) ==
  /\ Len(r.steps) = Len(r.budget) /\ r.checkpoint <= Len(r.steps)
  /\ \A i \in DOMAIN r.steps :
       /\ r.steps[i].attempts <= r.budget[i]
       /\ r.steps[i].status = "pending" <=> r.steps[i].attempts = 0
       /\ i <= r.checkpoint => r.steps[i].status = "succeeded"
       /\ i > r.checkpoint + 1 => r.steps[i].status = "pending"
       /\ i = r.checkpoint + 1 => r.steps[i].status # "succeeded"

ValidOutcome(r) ==
  /\ r.status \in Terminal <=> r.finished
  /\ r.status = COMPLETED <=> r.result # NoResult
  /\ r.status = FAILED <=> r.error # "none"
  /\ r.status = COMPLETED => r.checkpoint = Len(r.steps)
  /\ r.status = CANCELLED => r.cancellationRequested
  /\ r.status = PENDING => \A i \in DOMAIN r.steps : r.steps[i].attempts = 0

ValidInstance(r) == ValidSteps(r) /\ ValidOutcome(r)
=============================================================================
