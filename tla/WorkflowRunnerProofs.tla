------------------------ MODULE WorkflowRunnerProofs ------------------------
(***************************************************************************)
(* The invariants of the workflow runner and its store, for every number   *)
(* of workflows, tasks, steps, attempts and lost store calls.  They rest   *)
(* on the life cycle: a permitted change of a sound instance gives a sound *)
(* instance, whatever the definition of the workflow and its history.      *)
(***************************************************************************)
EXTENDS WorkflowRunner, SequenceTheorems, TLAPS

USE DEF PENDING, RUNNING, COMPLETED, FAILED, CANCELLED, Terminal, Status, NoResult

-----------------------------------------------------------------------------
(* WorkflowLifecycle.                                                       *)

\* The definitions that exist: at least one step, each with at least one attempt.
AreBudgets(budgets) == \A b \in budgets : b \in Seq(Nat \ {0}) /\ b # << >>

\* The outputs of the confirmed steps, and nothing else, are in the context.
ContextBuilt(r) ==
  /\ Len(r.context) = r.checkpoint
  /\ \A i \in 1..r.checkpoint : r.context[i] = r.steps[i].attempts
  /\ r.status = COMPLETED => r.result = r.context

Sound(r, budgets) == r \in InstanceOf(budgets) /\ ValidInstance(r) /\ ContextBuilt(r)

\* A change as a pass that holds r builds it.
Fits(r, c) ==
  /\ c \in Changes
  /\ c.type = "commit" => c.data = Append(r.context, r.steps[Here(r)].attempts)
  /\ c.type = "complete" => c.data = r.context
  /\ c.type = "fail" => c.error # "none"

\* The steps after the one at the checkpoint became e.
WithStep(r, e) == [r.steps EXCEPT ![Here(r)] = e]

\* WithStep changes the current step and no other.
LEMMA StepReplaced ==
  ASSUME NEW budgets, NEW r \in InstanceOf(budgets), Unfinished(r), NEW e \in StepRecord
  PROVE  /\ Here(r) \in 1..Len(r.steps) /\ Here(r) \in DOMAIN r.steps
         /\ WithStep(r, e) \in Seq(StepRecord)
         /\ Len(WithStep(r, e)) = Len(r.steps)
         /\ DOMAIN WithStep(r, e) = DOMAIN r.steps
         /\ WithStep(r, e)[Here(r)] = e
         /\ \A i \in DOMAIN r.steps : i # Here(r) => WithStep(r, e)[i] = r.steps[i]
<1>1. r.steps \in Seq(StepRecord) /\ r.checkpoint \in Nat
  BY DEF InstanceOf
<1>2. Here(r) \in 1..Len(r.steps)
  BY <1>1 DEF Unfinished, Here
<1>3. DOMAIN r.steps = 1..Len(r.steps)
  BY <1>1
<1>4. /\ WithStep(r, e) \in Seq(StepRecord)
      /\ Len(WithStep(r, e)) = Len(r.steps)
      /\ \A i \in 1..Len(r.steps) : WithStep(r, e)[i] = IF i = Here(r) THEN e ELSE r.steps[i]
  BY <1>1, <1>2, ExceptSeq DEF WithStep
<1> QED
  BY <1>2, <1>3, <1>4

\* What each change makes of an instance, field by field.
LEMMA StopShape ==
  ASSUME NEW budgets, NEW r \in InstanceOf(budgets)
  PROVE  StopStep(r) =
           IF Unfinished(r) /\ r.steps[Here(r)].status = "running"
           THEN [r EXCEPT !.steps = WithStep(r, [status |-> "failed",
                                                 attempts |-> r.steps[Here(r)].attempts])]
           ELSE r
<1>1. CASE Unfinished(r) /\ r.steps[Here(r)].status = "running"
  <2>1. r.steps \in Seq(StepRecord) /\ Here(r) \in DOMAIN r.steps
    BY <1>1, StepReplaced, [status |-> "failed", attempts |-> 0] \in StepRecord
    DEF InstanceOf, StepRecord, StepStatus
  <2>2. r.steps[Here(r)] \in StepRecord
    BY <2>1
  <2>3. [r.steps[Here(r)] EXCEPT !.status = "failed"]
          = [status |-> "failed", attempts |-> r.steps[Here(r)].attempts]
    BY <2>2 DEF StepRecord
  <2>4. [r EXCEPT !.steps[Here(r)].status = "failed"]
          = [r EXCEPT !.steps = [r.steps EXCEPT ![Here(r)] =
                                   [r.steps[Here(r)] EXCEPT !.status = "failed"]]]
    OBVIOUS
  <2> QED
    BY <1>1, <2>3, <2>4 DEF StopStep, WithStep
<1>2. CASE ~(Unfinished(r) /\ r.steps[Here(r)].status = "running")
  BY <1>2 DEF StopStep
<1> QED
  BY <1>1, <1>2

\* The steps of an instance once execution has stopped.
Stopped(r) ==
  IF Unfinished(r) /\ r.steps[Here(r)].status = "running"
  THEN WithStep(r, [status |-> "failed", attempts |-> r.steps[Here(r)].attempts])
  ELSE r.steps

\* Every change but a repeated cancellation counts a version.
LEMMA Touched ==
  ASSUME NEW budgets, NEW r \in InstanceOf(budgets)
  PROVE  /\ Touch(r) = [r EXCEPT !.version = r.version + 1]
         /\ Touch(r) \in InstanceOf(budgets)
         /\ Unfinished(Touch(r)) = Unfinished(r) /\ Here(Touch(r)) = Here(r)
         /\ Stopped(Touch(r)) = Stopped(r)
<1>1. Touch(r) = [r EXCEPT !.version = r.version + 1]
  BY DEF Touch, InstanceOf
<1>2. r.version + 1 \in Nat \ {0}
  BY DEF InstanceOf
<1>3. Touch(r) \in InstanceOf(budgets)
  BY <1>1, <1>2 DEF InstanceOf
<1>4. Touch(r).steps = r.steps /\ Touch(r).checkpoint = r.checkpoint
  BY <1>1 DEF InstanceOf
<1>5. Unfinished(Touch(r)) = Unfinished(r) /\ Here(Touch(r)) = Here(r)
  BY <1>4 DEF Unfinished, Here
<1> QED
  BY <1>1, <1>3, <1>4, <1>5 DEF Stopped, WithStep

\* Stopping turns a running current step to failed, and keeps every count of attempts.
LEMMA StoppedSteps ==
  ASSUME NEW budgets, NEW r \in InstanceOf(budgets)
  PROVE  /\ Stopped(r) \in Seq(StepRecord) /\ Len(Stopped(r)) = Len(r.steps)
         /\ \A i \in DOMAIN r.steps :
              /\ Stopped(r)[i].attempts = r.steps[i].attempts
              /\ Stopped(r)[i].status =
                   IF i = Here(r) /\ r.steps[i].status = "running" THEN "failed"
                   ELSE r.steps[i].status
<1>1. r.steps \in Seq(StepRecord)
  BY DEF InstanceOf
<1>2. CASE Unfinished(r) /\ r.steps[Here(r)].status = "running"
  <2>1. [status |-> "failed", attempts |-> 0] \in StepRecord
    BY DEF StepRecord, StepStatus
  <2>2. Here(r) \in DOMAIN r.steps
    BY <1>2, <2>1, StepReplaced
  <2>3. r.steps[Here(r)] \in StepRecord
    BY <1>1, <2>2
  <2>4. [status |-> "failed", attempts |-> r.steps[Here(r)].attempts] \in StepRecord
    BY <2>3 DEF StepRecord, StepStatus
  <2> QED
    BY <1>2, <2>4, StepReplaced DEF Stopped
<1>3. CASE ~(Unfinished(r) /\ r.steps[Here(r)].status = "running")
  <2>1. \A i \in DOMAIN r.steps : i = Here(r) => Unfinished(r)
    BY <1>1 DEF Unfinished, Here, InstanceOf
  <2> QED
    BY <1>1, <1>3, <2>1 DEF Stopped
<1> QED
  BY <1>2, <1>3

\* _start, as the fields it changes.
LEMMA StartShape ==
  ASSUME NEW budgets, NEW r \in InstanceOf(budgets)
  PROVE  Start(r) = [r EXCEPT !.version = r.version + 1, !.steps = Stopped(r),
                              !.status = RUNNING, !.finished = FALSE, !.error = "none"]
<1>1. /\ Touch(r) = [r EXCEPT !.version = r.version + 1] /\ Touch(r) \in InstanceOf(budgets)
      /\ Stopped(Touch(r)) = Stopped(r)
  BY Touched
<1>2. StopStep(Touch(r)) = [Touch(r) EXCEPT !.steps = Stopped(r)]
  <2>1. Touch(r) = [Touch(r) EXCEPT !.steps = Touch(r).steps]
    BY <1>1 DEF InstanceOf
  <2>2. StopStep(Touch(r)) = [Touch(r) EXCEPT !.steps = Stopped(Touch(r))]
    BY <1>1, <2>1, StopShape DEF Stopped
  <2> QED
    BY <1>1, <2>2
<1>3. Start(r) = [[Touch(r) EXCEPT !.steps = Stopped(r)] EXCEPT
                    !.status = RUNNING, !.finished = FALSE, !.error = "none"]
  BY <1>2 DEF Start
<1> QED
  BY <1>1, <1>3 DEF InstanceOf

\* _stop_step, as the fields it changes.
LEMMA StopSteps ==
  ASSUME NEW budgets, NEW r \in InstanceOf(budgets)
  PROVE  StopStep(r) = [r EXCEPT !.steps = Stopped(r)]
<1>1. r = [r EXCEPT !.steps = r.steps]
  BY DEF InstanceOf
<1> QED
  BY <1>1, StopShape DEF Stopped

\* _begin_step, as the fields it changes: one more attempt of the current step.
LEMMA BeginShape ==
  ASSUME NEW budgets, NEW r \in InstanceOf(budgets), Unfinished(r)
  PROVE  /\ r.steps[Here(r)] \in StepRecord
         /\ Begin(r) = [r EXCEPT !.version = r.version + 1,
                          !.steps = WithStep(r, [status |-> "running",
                                                 attempts |-> r.steps[Here(r)].attempts + 1])]
<1>1. r.steps \in Seq(StepRecord) /\ Here(r) \in DOMAIN r.steps
  BY StepReplaced, [status |-> "failed", attempts |-> 0] \in StepRecord
  DEF InstanceOf, StepRecord, StepStatus
<1>2. r.steps[Here(r)] \in StepRecord
  BY <1>1
<1>0. Touch(r) = [r EXCEPT !.version = r.version + 1]
  BY Touched
<1>3. Touch(r).steps = r.steps
  BY <1>0 DEF InstanceOf
<1>4. Begin(r) = [Touch(r) EXCEPT !.steps =
         [Touch(r).steps EXCEPT ![Here(r)] = [status |-> "running",
                                       attempts |-> Touch(r).steps[Here(r)].attempts + 1]]]
  BY DEF Begin
<1> QED
  BY <1>0, <1>2, <1>3, <1>4 DEF WithStep, InstanceOf

\* _commit_step, as the fields it changes: the step succeeds and the checkpoint moves on.
LEMMA ConfirmShape ==
  ASSUME NEW budgets, NEW r \in InstanceOf(budgets), Unfinished(r), NEW context
  PROVE  /\ r.steps[Here(r)] \in StepRecord
         /\ Confirm(r, context) =
              [r EXCEPT !.version = r.version + 1, !.context = context,
                !.checkpoint = r.checkpoint + 1,
                !.steps = WithStep(r, [status |-> "succeeded",
                                       attempts |-> r.steps[Here(r)].attempts])]
<1>1. r.steps \in Seq(StepRecord) /\ Here(r) \in DOMAIN r.steps
  BY StepReplaced, [status |-> "failed", attempts |-> 0] \in StepRecord
  DEF InstanceOf, StepRecord, StepStatus
<1>2. r.steps[Here(r)] \in StepRecord
  BY <1>1
<1>0. Touch(r) = [r EXCEPT !.version = r.version + 1]
  BY Touched
<1>3. Touch(r).steps = r.steps /\ Touch(r).checkpoint = r.checkpoint
  BY <1>0 DEF InstanceOf
<1>4. [r.steps[Here(r)] EXCEPT !.status = "succeeded"]
          = [status |-> "succeeded", attempts |-> r.steps[Here(r)].attempts]
  BY <1>2 DEF StepRecord
<1>5. Confirm(r, context) =
        [Touch(r) EXCEPT
           !.steps = [Touch(r).steps EXCEPT ![Here(r)] =
                        [Touch(r).steps[Here(r)] EXCEPT !.status = "succeeded"]],
           !.context = context, !.checkpoint = Touch(r).checkpoint + 1]
  BY DEF Confirm
<1>6. Confirm(r, context) =
        [Touch(r) EXCEPT
           !.steps = WithStep(r, [status |-> "succeeded",
                                  attempts |-> r.steps[Here(r)].attempts]),
           !.context = context, !.checkpoint = r.checkpoint + 1]
  BY <1>3, <1>4, <1>5 DEF WithStep
<1> QED
  BY <1>0, <1>2, <1>6 DEF InstanceOf

\* _request_cancel, as the fields it changes: a pending workflow ends at once.
LEMMA CancelShape ==
  ASSUME NEW budgets, NEW r \in InstanceOf(budgets)
  PROVE  Cancel(r) =
           [r EXCEPT !.version = r.version + 1, !.cancellationRequested = TRUE,
              !.status = IF r.status = PENDING THEN CANCELLED ELSE r.status,
              !.finished = IF r.status = PENDING THEN TRUE ELSE r.finished]
<1>1. Touch(r) = [r EXCEPT !.version = r.version + 1]
  BY Touched
<1> QED
  BY <1>1 DEF Cancel, InstanceOf

-----------------------------------------------------------------------------
(* Each change of a sound instance gives a sound instance.                  *)

\* The types of the fields that the transitions compute with.
LEMMA Shape ==
  ASSUME NEW budgets, NEW r \in InstanceOf(budgets), ValidSteps(r)
  PROVE  /\ r.version + 1 \in Nat \ {0} /\ r.checkpoint \in Nat
         /\ r.steps \in Seq(StepRecord) /\ DOMAIN r.steps = 1..Len(r.steps)
         /\ r.context \in Seq(Nat)
         /\ \A i \in 1..r.checkpoint : i \in DOMAIN r.steps /\ i # Here(r)
<1>1. /\ r.version + 1 \in Nat \ {0} /\ r.checkpoint \in Nat /\ r.context \in Seq(Nat)
      /\ r.steps \in Seq(StepRecord)
  BY DEF InstanceOf
<1>2. DOMAIN r.steps = 1..Len(r.steps) /\ Len(r.steps) \in Nat
  BY <1>1
<1>3. r.checkpoint <= Len(r.steps)
  BY DEF ValidSteps
<1> QED
  BY <1>1, <1>2, <1>3 DEF Here

\* Running, resuming or restarting an instance leaves it sound.
LEMMA StartSound ==
  ASSUME NEW budgets, AreBudgets(budgets), NEW r, Sound(r, budgets),
         r.status \in {PENDING, RUNNING, FAILED}
  PROVE  Sound(Start(r), budgets)
<1> DEFINE s == Start(r)
<1>1. r \in InstanceOf(budgets) /\ ValidInstance(r) /\ ContextBuilt(r)
  BY DEF Sound
<1>0. /\ r.version + 1 \in Nat \ {0} /\ r.checkpoint \in Nat
      /\ r.steps \in Seq(StepRecord) /\ DOMAIN r.steps = 1..Len(r.steps)
      /\ r.context \in Seq(Nat)
      /\ \A i \in 1..r.checkpoint : i \in DOMAIN r.steps /\ i # Here(r)
  BY <1>1, Shape DEF ValidInstance
<1>2. s = [r EXCEPT !.version = r.version + 1, !.steps = Stopped(r),
                    !.status = RUNNING, !.finished = FALSE, !.error = "none"]
  BY <1>1, StartShape
<1>3. /\ Stopped(r) \in Seq(StepRecord) /\ Len(Stopped(r)) = Len(r.steps)
      /\ \A i \in DOMAIN r.steps :
           /\ Stopped(r)[i].attempts = r.steps[i].attempts
           /\ Stopped(r)[i].status =
                IF i = Here(r) /\ r.steps[i].status = "running" THEN "failed"
                ELSE r.steps[i].status
  BY <1>1, StoppedSteps
<1> HIDE DEF s
<1>4. s \in InstanceOf(budgets)
  BY <1>0, <1>1, <1>2, <1>3 DEF InstanceOf, Errors
<1>5. /\ s.steps = Stopped(r) /\ s.checkpoint = r.checkpoint /\ s.budget = r.budget
      /\ s.status = RUNNING /\ s.finished = FALSE /\ s.error = "none"
      /\ s.context = r.context /\ s.result = r.result
  BY <1>1, <1>2 DEF InstanceOf
<1>6. DOMAIN s.steps = DOMAIN r.steps /\ DOMAIN r.steps = 1..Len(r.steps)
  BY <1>1, <1>3, <1>5 DEF InstanceOf
<1>7. ValidSteps(s)
  BY <1>1, <1>3, <1>5, <1>6 DEF ValidInstance, ValidSteps, Here
<1>8. ValidOutcome(s)
  BY <1>1, <1>5 DEF ValidInstance, ValidOutcome
<1>9. ContextBuilt(s)
  BY <1>0, <1>1, <1>3, <1>5, <1>6 DEF ContextBuilt, ValidInstance, ValidSteps, InstanceOf
<1> QED
  BY <1>4, <1>7, <1>8, <1>9 DEF s, Sound, ValidInstance

\* Beginning a permitted step leaves the instance sound: the attempt is within its budget.
LEMMA BeginSound ==
  ASSUME NEW budgets, AreBudgets(budgets), NEW r, Sound(r, budgets),
         Permits(r, BeginStep)
  PROVE  Sound(Begin(r), budgets)
<1> DEFINE s == Begin(r)
           e == [status |-> "running", attempts |-> r.steps[Here(r)].attempts + 1]
<1>1. /\ r \in InstanceOf(budgets) /\ ValidInstance(r) /\ ContextBuilt(r)
      /\ Unfinished(r) /\ HasAttempts(r) /\ r.status = RUNNING
      /\ r.steps[Here(r)].status \in {"pending", "failed"}
  BY DEF Sound, Permits, BeginStep, Change
<1>0. /\ r.version + 1 \in Nat \ {0} /\ r.checkpoint \in Nat
      /\ r.steps \in Seq(StepRecord) /\ DOMAIN r.steps = 1..Len(r.steps)
      /\ r.context \in Seq(Nat)
      /\ \A i \in 1..r.checkpoint : i \in DOMAIN r.steps /\ i # Here(r)
  BY <1>1, Shape DEF ValidInstance
<1>2. /\ r.steps[Here(r)] \in StepRecord
      /\ s = [r EXCEPT !.version = r.version + 1, !.steps = WithStep(r, e)]
  BY <1>1, BeginShape
<1>3. e \in StepRecord
  BY <1>2 DEF StepRecord, StepStatus
<1>4. /\ Here(r) \in 1..Len(r.steps) /\ Here(r) \in DOMAIN r.steps
      /\ WithStep(r, e) \in Seq(StepRecord)
      /\ Len(WithStep(r, e)) = Len(r.steps)
      /\ DOMAIN WithStep(r, e) = DOMAIN r.steps
      /\ WithStep(r, e)[Here(r)] = e
      /\ \A i \in DOMAIN r.steps : i # Here(r) => WithStep(r, e)[i] = r.steps[i]
  <2> HIDE DEF e
  <2> QED BY <1>1, <1>3, StepReplaced
<1> HIDE DEF s
<1>5. s \in InstanceOf(budgets)
  BY <1>0, <1>1, <1>2, <1>4 DEF InstanceOf
<1>6. /\ s.steps = WithStep(r, e) /\ s.checkpoint = r.checkpoint /\ s.budget = r.budget
      /\ s.status = RUNNING /\ s.finished = r.finished /\ s.error = r.error
      /\ s.context = r.context /\ s.result = r.result
      /\ s.cancellationRequested = r.cancellationRequested
  BY <1>1, <1>2 DEF InstanceOf
<1>7. e.status = "running" /\ e.attempts = r.steps[Here(r)].attempts + 1
  OBVIOUS
<1> HIDE DEF e
<1>8. DOMAIN r.steps = 1..Len(r.steps) /\ r.budget[Here(r)] \in Nat
      /\ r.steps[Here(r)].attempts \in Nat /\ r.checkpoint \in Nat
  <2>1. r.budget \in Seq(Nat \ {0}) /\ Len(r.steps) = Len(r.budget)
    BY <1>1 DEF InstanceOf, AreBudgets, ValidInstance, ValidSteps
  <2>2. r.budget[Here(r)] \in Nat
    BY <1>4, <2>1
  <2> QED
    BY <1>0, <1>2, <2>2 DEF StepRecord
<1>9. ValidSteps(s)
  <2>1. /\ Len(s.steps) = Len(r.steps) /\ DOMAIN s.steps = DOMAIN r.steps
        /\ s.steps[Here(r)] = e
        /\ \A i \in DOMAIN r.steps : i # Here(r) => s.steps[i] = r.steps[i]
        /\ s.checkpoint = r.checkpoint /\ s.budget = r.budget
    BY <1>4, <1>6
  <2>2. ValidSteps(r) /\ Here(r) = r.checkpoint + 1
    BY <1>1 DEF ValidInstance, Here
  <2>3. /\ e.attempts <= r.budget[Here(r)] /\ e.attempts # 0
        /\ e.status = "running"
    BY <1>1, <1>7, <1>8 DEF HasAttempts
  <2>4. ~(Here(r) <= r.checkpoint) /\ ~(Here(r) > r.checkpoint + 1)
    BY <1>8, <2>2
  <2> QED
    BY <2>1, <2>2, <2>3, <2>4 DEF ValidSteps
<1>10. ValidOutcome(s)
  BY <1>1, <1>6 DEF ValidInstance, ValidOutcome
<1>11. ContextBuilt(s)
  BY <1>0, <1>1, <1>4, <1>6 DEF ContextBuilt
<1> QED
  BY <1>5, <1>9, <1>10, <1>11 DEF s, Sound, ValidInstance

\* Committing the current step leaves the instance sound.
LEMMA ConfirmSound ==
  ASSUME NEW budgets, AreBudgets(budgets), NEW r, Sound(r, budgets),
         NEW c, Fits(r, c), c.type = "commit", Permits(r, c)
  PROVE  Sound(Confirm(r, c.data), budgets)
<1> DEFINE s == Confirm(r, c.data)
           e == [status |-> "succeeded", attempts |-> r.steps[Here(r)].attempts]
<1>1. /\ r \in InstanceOf(budgets) /\ ValidInstance(r) /\ ContextBuilt(r)
      /\ Unfinished(r) /\ r.status = RUNNING /\ r.steps[Here(r)].status = "running"
      /\ c.data = Append(r.context, r.steps[Here(r)].attempts)
  BY DEF Sound, Permits, Fits
<1>0. /\ r.version + 1 \in Nat \ {0} /\ r.checkpoint \in Nat
      /\ r.steps \in Seq(StepRecord) /\ DOMAIN r.steps = 1..Len(r.steps)
      /\ r.context \in Seq(Nat)
      /\ \A i \in 1..r.checkpoint : i \in DOMAIN r.steps /\ i # Here(r)
  BY <1>1, Shape DEF ValidInstance
<1>2. /\ r.steps[Here(r)] \in StepRecord
      /\ s = [r EXCEPT !.version = r.version + 1, !.context = c.data,
                       !.checkpoint = r.checkpoint + 1, !.steps = WithStep(r, e)]
  BY <1>1, ConfirmShape
<1>3. e \in StepRecord
  BY <1>2 DEF StepRecord, StepStatus
<1>4. /\ Here(r) \in 1..Len(r.steps) /\ Here(r) \in DOMAIN r.steps
      /\ WithStep(r, e) \in Seq(StepRecord)
      /\ Len(WithStep(r, e)) = Len(r.steps)
      /\ DOMAIN WithStep(r, e) = DOMAIN r.steps
      /\ WithStep(r, e)[Here(r)] = e
      /\ \A i \in DOMAIN r.steps : i # Here(r) => WithStep(r, e)[i] = r.steps[i]
  <2> HIDE DEF e
  <2> QED BY <1>1, <1>3, StepReplaced
<1> HIDE DEF s
<1>5. /\ r.context \in Seq(Nat) /\ r.steps[Here(r)].attempts \in Nat /\ r.checkpoint \in Nat
      /\ r.steps \in Seq(StepRecord) /\ DOMAIN r.steps = 1..Len(r.steps)
  BY <1>1, <1>2 DEF InstanceOf, StepRecord
<1>6. /\ c.data \in Seq(Nat) /\ Len(c.data) = r.checkpoint + 1
      /\ \A i \in 1..r.checkpoint : c.data[i] = r.context[i]
      /\ c.data[r.checkpoint + 1] = r.steps[Here(r)].attempts
  BY <1>1, <1>5, AppendProperties DEF ContextBuilt
<1>7. s \in InstanceOf(budgets)
  <2>1. r.checkpoint + 1 \in Nat
    BY <1>0
  <2> QED
    BY <1>0, <1>1, <1>2, <1>4, <1>6, <2>1 DEF InstanceOf
<1>8. /\ s.steps = WithStep(r, e) /\ s.checkpoint = r.checkpoint + 1 /\ s.budget = r.budget
      /\ s.status = RUNNING /\ s.finished = r.finished /\ s.error = r.error
      /\ s.context = c.data /\ s.result = r.result
      /\ s.cancellationRequested = r.cancellationRequested
  BY <1>1, <1>2 DEF InstanceOf
<1>9. e.status = "succeeded" /\ e.attempts = r.steps[Here(r)].attempts
  OBVIOUS
<1> HIDE DEF e
<1>10. ValidSteps(s)
  <2>1. /\ Len(s.steps) = Len(r.steps) /\ DOMAIN s.steps = DOMAIN r.steps
        /\ s.steps[Here(r)] = e
        /\ \A i \in DOMAIN r.steps : i # Here(r) => s.steps[i] = r.steps[i]
        /\ s.checkpoint = Here(r) /\ s.budget = r.budget
    BY <1>4, <1>8 DEF Here
  <2>2. ValidSteps(r) /\ r.checkpoint < Len(r.steps) /\ Here(r) = r.checkpoint + 1
    BY <1>1 DEF ValidInstance, Unfinished, Here
  <2>3. /\ e.attempts <= r.budget[Here(r)] /\ e.attempts # 0
        /\ e.status = "succeeded"
    BY <1>1, <1>4, <1>9, <2>2 DEF ValidSteps
  <2>4. ASSUME NEW i \in DOMAIN r.steps, i # Here(r)
        PROVE  /\ s.steps[i].attempts <= r.budget[i]
               /\ s.steps[i].status = "pending" <=> s.steps[i].attempts = 0
               /\ i <= Here(r) => s.steps[i].status = "succeeded"
               /\ i > Here(r) => s.steps[i].status = "pending"
    BY <1>5, <2>1, <2>2, <2>4 DEF ValidSteps
  <2>5. \A i \in DOMAIN r.steps : i > Here(r) + 1 => i > Here(r) /\ i # Here(r)
    BY <1>5, <2>2
  <2>6. \A i \in DOMAIN r.steps : i = Here(r) + 1 => i > Here(r) /\ i # Here(r)
    BY <1>5, <2>2
  <2>7. Len(s.steps) = Len(s.budget) /\ s.checkpoint <= Len(s.steps)
    BY <1>5, <2>1, <2>2 DEF ValidSteps
  <2>8. ~(Here(r) > Here(r) + 1) /\ Here(r) # Here(r) + 1
    BY <1>5, <2>2
  <2> QED
    BY <2>1, <2>3, <2>4, <2>5, <2>6, <2>7, <2>8 DEF ValidSteps
<1>11. ValidOutcome(s)
  BY <1>1, <1>8 DEF ValidInstance, ValidOutcome
<1>12. ContextBuilt(s)
  <2>1. \A i \in 1..r.checkpoint : s.context[i] = s.steps[i].attempts
    <3> TAKE i \in 1..r.checkpoint
    <3>1. s.context[i] = r.context[i]
      BY <1>6, <1>8
    <3>2. s.steps[i] = r.steps[i]
      BY <1>0, <1>4, <1>8
    <3>3. r.context[i] = r.steps[i].attempts
      BY <1>1 DEF ContextBuilt
    <3> QED
      BY <3>1, <3>2, <3>3
  <2>2. s.context[r.checkpoint + 1] = s.steps[r.checkpoint + 1].attempts
    BY <1>4, <1>6, <1>8, <1>9 DEF Here
  <2> QED
    BY <1>0, <1>6, <1>8, <2>1, <2>2 DEF ContextBuilt
<1> QED
  BY <1>7, <1>10, <1>11, <1>12 DEF s, Sound, ValidInstance

\* Publication, failure and acknowledgement.
LEMMA EndSound ==
  ASSUME NEW budgets, AreBudgets(budgets), NEW r, Sound(r, budgets), r.status = RUNNING,
         NEW status, NEW error \in Errors, NEW result, NEW s, NEW steps \in {r.steps, Stopped(r)},
         s = [r EXCEPT !.version = r.version + 1, !.status = status, !.finished = TRUE,
                       !.error = error, !.result = result, !.steps = steps],
         \/ status = CANCELLED /\ r.cancellationRequested /\ error = "none" /\ result = NoResult
         \/ status = FAILED /\ error # "none" /\ result = NoResult
         \/ status = COMPLETED /\ ~Unfinished(r) /\ error = "none" /\ result = r.context
  PROVE  Sound(s, budgets)
<1>1. r \in InstanceOf(budgets) /\ ValidInstance(r) /\ ContextBuilt(r)
  BY DEF Sound
<1>0. /\ r.version + 1 \in Nat \ {0} /\ r.checkpoint \in Nat
      /\ r.steps \in Seq(StepRecord) /\ DOMAIN r.steps = 1..Len(r.steps)
      /\ r.context \in Seq(Nat)
      /\ \A i \in 1..r.checkpoint : i \in DOMAIN r.steps /\ i # Here(r)
  BY <1>1, Shape DEF ValidInstance
<1>2. /\ steps \in Seq(StepRecord) /\ Len(steps) = Len(r.steps)
      /\ \A i \in DOMAIN r.steps :
           /\ steps[i].attempts = r.steps[i].attempts
           /\ steps[i].status \in
                {r.steps[i].status,
                 IF i = Here(r) /\ r.steps[i].status = "running" THEN "failed"
                 ELSE r.steps[i].status}
  BY <1>1, StoppedSteps DEF InstanceOf
<1>3. result \in Seq(Nat) /\ status \in Status
  <2>1. << >> \in Seq(Nat)
    BY EmptySeq
  <2> QED
    BY <1>0, <2>1
<1>4. s \in InstanceOf(budgets)
  BY <1>0, <1>1, <1>2, <1>3 DEF InstanceOf
<1>5. /\ s.steps = steps /\ s.checkpoint = r.checkpoint /\ s.budget = r.budget
      /\ s.status = status /\ s.finished = TRUE /\ s.error = error
      /\ s.context = r.context /\ s.result = result
      /\ s.cancellationRequested = r.cancellationRequested
  BY <1>1 DEF InstanceOf
<1>6. /\ DOMAIN s.steps = DOMAIN r.steps /\ DOMAIN r.steps = 1..Len(r.steps)
      /\ r.checkpoint \in Nat
  BY <1>1, <1>2, <1>5 DEF InstanceOf
<1>7. ValidSteps(s)
  BY <1>1, <1>2, <1>5, <1>6 DEF ValidInstance, ValidSteps, Here
<1>8. ASSUME status = COMPLETED
      PROVE  r.context # << >> /\ r.checkpoint = Len(r.steps)
  <2>1. r.checkpoint = Len(r.steps)
    BY <1>1, <1>6, <1>8 DEF Unfinished, ValidInstance, ValidSteps, InstanceOf
  <2>2. r.budget \in Seq(Nat \ {0}) /\ r.budget # << >> /\ Len(r.steps) = Len(r.budget)
    BY <1>1 DEF AreBudgets, InstanceOf, ValidInstance, ValidSteps
  <2>3. Len(r.context) # 0
    BY <1>1, <2>1, <2>2, EmptySeq DEF ContextBuilt
  <2> QED
    BY <2>1, <2>3
<1>9. ValidOutcome(s)
  BY <1>1, <1>2, <1>3, <1>5, <1>8 DEF ValidInstance, ValidOutcome
<1>10. ContextBuilt(s)
  BY <1>0, <1>1, <1>2, <1>5, <1>6 DEF ContextBuilt, ValidInstance, ValidSteps, InstanceOf
<1> QED
  BY <1>4, <1>7, <1>9, <1>10 DEF Sound, ValidInstance

\* Each of the three ends leaves the instance sound.
LEMMA FinishSound ==
  ASSUME NEW budgets, AreBudgets(budgets), NEW r, Sound(r, budgets), r.status = RUNNING
  PROVE  /\ r.cancellationRequested =>
              Sound(Finish(r, CANCELLED, "none", NoResult), budgets)
         /\ ~Unfinished(r) /\ ~r.cancellationRequested =>
              Sound(Finish(r, COMPLETED, "none", r.context), budgets)
         /\ \A error \in Errors \ {"none"} :
              Sound(Finish(StopStep(r), FAILED, error, NoResult), budgets)
<1>1. r \in InstanceOf(budgets) /\ "none" \in Errors
  BY DEF Sound, Errors
<1>2. ASSUME NEW status, NEW result,
             \/ status = CANCELLED /\ r.cancellationRequested /\ result = NoResult
             \/ status = COMPLETED /\ ~Unfinished(r) /\ result = r.context
      PROVE  Sound(Finish(r, status, "none", result), budgets)
  <2> DEFINE s == Finish(r, status, "none", result)
  <2>1. s = [r EXCEPT !.version = r.version + 1, !.status = status, !.finished = TRUE,
                      !.error = "none", !.result = result]
    BY <1>1 DEF Finish, Touch, InstanceOf
  <2> HIDE DEF s
  <2>2. s = [r EXCEPT !.version = r.version + 1, !.status = status, !.finished = TRUE,
                      !.error = "none", !.result = result, !.steps = r.steps]
    BY <1>1, <2>1 DEF InstanceOf
  <2>3. Sound(s, budgets)
    BY <1>1, <1>2, <2>2, EndSound
  <2> QED
    BY <2>3 DEF s
<1>3. ASSUME NEW error \in Errors \ {"none"}
      PROVE  Sound(Finish(StopStep(r), FAILED, error, NoResult), budgets)
  <2> DEFINE s == Finish(StopStep(r), FAILED, error, NoResult)
  <2>1. s = [r EXCEPT !.version = r.version + 1, !.status = FAILED, !.finished = TRUE,
                      !.error = error, !.result = NoResult, !.steps = Stopped(r)]
    BY <1>1, StopSteps DEF Finish, Touch, InstanceOf
  <2> HIDE DEF s
  <2>2. Sound(s, budgets)
    BY <2>1, EndSound
  <2> QED
    BY <2>2 DEF s
<1> QED
  BY <1>2, <1>3

\* Asking for cancellation leaves the instance sound.
LEMMA CancelSound ==
  ASSUME NEW budgets, NEW r, Sound(r, budgets), r.status \in {PENDING, RUNNING}
  PROVE  Sound(Cancel(r), budgets)
<1> DEFINE s == Cancel(r)
<1>1. r \in InstanceOf(budgets) /\ ValidInstance(r) /\ ContextBuilt(r)
  BY DEF Sound
<1>0. /\ r.version + 1 \in Nat \ {0} /\ r.checkpoint \in Nat
      /\ r.steps \in Seq(StepRecord) /\ DOMAIN r.steps = 1..Len(r.steps)
      /\ r.context \in Seq(Nat)
      /\ \A i \in 1..r.checkpoint : i \in DOMAIN r.steps /\ i # Here(r)
  BY <1>1, Shape DEF ValidInstance
<1>2. s = [r EXCEPT !.version = r.version + 1, !.cancellationRequested = TRUE,
              !.status = IF r.status = PENDING THEN CANCELLED ELSE r.status,
              !.finished = IF r.status = PENDING THEN TRUE ELSE r.finished]
  BY <1>1, CancelShape
<1> HIDE DEF s
<1>3. s \in InstanceOf(budgets)
  BY <1>0, <1>1, <1>2 DEF InstanceOf
<1>4. /\ s.steps = r.steps /\ s.checkpoint = r.checkpoint /\ s.budget = r.budget
      /\ s.status = (IF r.status = PENDING THEN CANCELLED ELSE r.status)
      /\ s.finished = (IF r.status = PENDING THEN TRUE ELSE r.finished)
      /\ s.error = r.error /\ s.context = r.context /\ s.result = r.result
      /\ s.cancellationRequested = TRUE
  BY <1>1, <1>2 DEF InstanceOf
<1>5. ValidSteps(s)
  BY <1>1, <1>4 DEF ValidInstance, ValidSteps
<1>6. ValidOutcome(s) /\ ContextBuilt(s)
  BY <1>0, <1>1, <1>4 DEF ValidInstance, ValidOutcome, ContextBuilt
<1> QED
  BY <1>3, <1>5, <1>6 DEF s, Sound, ValidInstance

\* WorkflowInstance never refuses the instance that transition_workflow builds from a
\* sound one and a change that its pass may ask for.
THEOREM TransitionSound ==
  ASSUME NEW budgets, AreBudgets(budgets), NEW r, Sound(r, budgets),
         NEW c, Fits(r, c), Permits(r, c)
  PROVE  Sound(Transition(r, c), budgets)
<1>1. /\ r \in InstanceOf(budgets) /\ r.steps \in Seq(StepRecord)
      /\ c.type \in {"run", "resume", "begin", "commit", "complete", "fail", "cancel",
                     "acknowledge"}
      /\ c.error \in Errors /\ "none" \in Errors
  BY DEF Sound, InstanceOf, Fits, Changes, Errors
<1>2. CASE IsNoOp(r, c)
  <2>1. Transition(r, c) = r
    BY <1>2 DEF Transition, IsNoOp
  <2> QED
    BY <2>1
<1>3. CASE c.type \in {"run", "resume"}
  <2>1. Transition(r, c) = Start(r)
    BY <1>3 DEF Transition, IsNoOp
  <2>2. r.status \in {PENDING, RUNNING, FAILED}
    BY <1>3 DEF Permits
  <2> QED
    BY <2>1, <2>2, StartSound
<1>4. CASE c.type = "begin"
  <2>1. Transition(r, c) = Begin(r)
    BY <1>4 DEF Transition, IsNoOp
  <2>2. Permits(r, BeginStep)
    BY <1>4 DEF Permits, BeginStep, Change
  <2> QED
    BY <2>1, <2>2, BeginSound
<1>5. CASE c.type = "commit"
  <2>1. Transition(r, c) = Confirm(r, c.data)
    BY <1>5 DEF Transition, IsNoOp
  <2> QED
    BY <1>5, <2>1, ConfirmSound
<1>6. CASE c.type = "complete"
  <2>1. r.status = RUNNING /\ ~Unfinished(r) /\ c.data = r.context
    BY <1>6 DEF Permits, Fits
  <2>2. CASE r.cancellationRequested
    <3>1. Transition(r, c) = Finish(r, CANCELLED, "none", NoResult)
      BY <1>6, <2>2 DEF Transition, IsNoOp, Publish
    <3> QED
      BY <2>1, <2>2, <3>1, FinishSound
  <2>3. CASE ~r.cancellationRequested
    <3>1. Transition(r, c) = Finish(r, COMPLETED, "none", r.context)
      BY <1>6, <2>1, <2>3 DEF Transition, IsNoOp, Publish
    <3> QED
      BY <2>1, <2>3, <3>1, FinishSound
  <2> QED
    BY <2>2, <2>3
<1>7. CASE c.type = "fail"
  <2>1. Transition(r, c) = Finish(StopStep(r), FAILED, c.error, NoResult)
    BY <1>7 DEF Transition, IsNoOp
  <2>2. r.status = RUNNING /\ c.error # "none"
    BY <1>7 DEF Permits, Fits
  <2> QED
    BY <1>1, <2>1, <2>2, FinishSound
<1>8. CASE c.type = "acknowledge"
  <2>1. Transition(r, c) = Finish(r, CANCELLED, "none", NoResult)
    BY <1>8 DEF Transition, IsNoOp
  <2>2. r.status = RUNNING /\ r.cancellationRequested
    BY <1>8 DEF Permits
  <2> QED
    BY <2>1, <2>2, FinishSound
<1>9. CASE c.type = "cancel" /\ ~IsNoOp(r, c)
  <2>1. Transition(r, c) = Cancel(r)
    BY <1>9 DEF Transition
  <2>2. r.status \in {PENDING, RUNNING}
    BY <1>9 DEF Permits, IsNoOp
  <2> QED
    BY <2>1, <2>2, CancelSound
<1> QED
  BY <1>1, <1>2, <1>3, <1>4, <1>5, <1>6, <1>7, <1>8, <1>9

\* A new instance is sound.
LEMMA NewInstanceSound ==
  ASSUME NEW budgets, AreBudgets(budgets), NEW b \in budgets
  PROVE  Sound(NewInstance(b), budgets)
<1> DEFINE s == NewInstance(b)
<1>1. b \in Seq(Nat \ {0}) /\ DOMAIN b = 1..Len(b) /\ Len(b) \in Nat \ {0}
  BY EmptySeq DEF AreBudgets
<1>2. [i \in DOMAIN b |-> [status |-> "pending", attempts |-> 0]] \in Seq(StepRecord)
  <2>1. [status |-> "pending", attempts |-> 0] \in StepRecord
    BY DEF StepRecord, StepStatus
  <2> QED
    BY <1>1, <2>1
<1>3. << >> \in Seq(Nat)
  BY EmptySeq
<1>4. s \in InstanceOf(budgets)
  BY <1>2, <1>3 DEF NewInstance, InstanceOf, Errors
<1>5. Len(s.steps) = Len(b) /\ DOMAIN s.steps = DOMAIN b
  BY <1>1 DEF NewInstance
<1>6. ValidSteps(s)
  BY <1>1, <1>5 DEF NewInstance, ValidSteps
<1>7. ValidOutcome(s) /\ ContextBuilt(s)
  BY <1>1, <1>3, EmptySeq DEF NewInstance, ValidOutcome, ContextBuilt
<1> QED
  BY <1>4, <1>6, <1>7 DEF Sound, ValidInstance

-----------------------------------------------------------------------------
(* What a change does to the step at the checkpoint.                        *)

\* The attempts spent on the next step, and whether it is being executed.
Tried(r)  == IF Unfinished(r) THEN r.steps[Here(r)].attempts ELSE 0
InStep(r) == IF Unfinished(r) THEN r.steps[Here(r)].status = "running" ELSE FALSE

SameFlow(r, s) == s.checkpoint = r.checkpoint /\ s.context = r.context

\* One conjunct per change.
Effect(r, c, s) ==
  /\ s.budget = r.budget /\ Len(s.steps) = Len(r.steps)
  /\ c.type # "cancel" =>
       s.version = r.version + 1 /\ s.cancellationRequested = r.cancellationRequested
  /\ c.type \in {"run", "resume"} =>
       /\ SameFlow(r, s) /\ Tried(s) = Tried(r) /\ ~InStep(s) /\ s.status = RUNNING
       /\ r.status = PENDING \/ (c.type = "resume" /\ r.status \in {FAILED, RUNNING})
       /\ r.status = PENDING => ~InStep(r)
       /\ Unfinished(r) => r.cancellationRequested \/ HasAttempts(r)
  /\ c.type = "begin" =>
       /\ SameFlow(r, s) /\ Tried(s) = Tried(r) + 1 /\ ~InStep(r) /\ InStep(s)
       /\ r.status = RUNNING /\ s.status = RUNNING
       /\ Unfinished(r) /\ HasAttempts(r) /\ ~r.cancellationRequested
  /\ c.type = "commit" =>
       /\ s.checkpoint = r.checkpoint + 1 /\ s.context = Append(r.context, Tried(r))
       /\ InStep(r) /\ Tried(s) = 0 /\ ~InStep(s)
       /\ r.status = RUNNING /\ s.status = RUNNING
  /\ c.type = "complete" =>
       /\ SameFlow(r, s) /\ ~Unfinished(r) /\ r.status = RUNNING
       /\ s.status = IF r.cancellationRequested THEN CANCELLED ELSE COMPLETED
       /\ s.steps = r.steps
  /\ c.type = "fail" =>
       /\ SameFlow(r, s) /\ Tried(s) = Tried(r) /\ ~InStep(s)
       /\ r.status = RUNNING /\ s.status = FAILED
  /\ c.type = "acknowledge" =>
       /\ SameFlow(r, s) /\ s.steps = r.steps
       /\ r.status = RUNNING /\ s.status = CANCELLED /\ r.cancellationRequested
  /\ c.type = "cancel" =>
       \/ s = r /\ (r.cancellationRequested \/ r.status = CANCELLED)
       \/ /\ SameFlow(r, s) /\ s.steps = r.steps
          /\ s.version = r.version + 1 /\ s.cancellationRequested = TRUE
          /\ ~r.cancellationRequested
          /\ \/ r.status = PENDING /\ s.status = CANCELLED
             \/ r.status = RUNNING /\ s.status = RUNNING

\* Stopping a step moves neither the checkpoint nor the attempts counted.
LEMMA StoppedEffect ==
  ASSUME NEW budgets, NEW r \in InstanceOf(budgets), ValidSteps(r), NEW s,
         s.checkpoint = r.checkpoint, s.steps = Stopped(r)
  PROVE  Len(s.steps) = Len(r.steps) /\ Tried(s) = Tried(r) /\ ~InStep(s)
<1>1. /\ r.steps \in Seq(StepRecord) /\ DOMAIN r.steps = 1..Len(r.steps)
      /\ r.checkpoint \in Nat
  BY Shape
<1>2. /\ Len(Stopped(r)) = Len(r.steps)
      /\ \A i \in DOMAIN r.steps :
           /\ Stopped(r)[i].attempts = r.steps[i].attempts
           /\ Stopped(r)[i].status # "running" \/ i # Here(r)
  BY StoppedSteps
<1>3. Unfinished(r) => Here(r) \in DOMAIN r.steps
  BY <1>1 DEF Unfinished, Here
<1>4. Here(s) = Here(r) /\ Unfinished(s) = Unfinished(r)
  BY <1>2 DEF Here, Unfinished
<1> QED
  BY <1>2, <1>3, <1>4 DEF Tried, InStep

\* What a permitted change does to the checkpoint, the attempts and the version.
LEMMA TransitionEffect ==
  ASSUME NEW budgets, AreBudgets(budgets), NEW r, Sound(r, budgets),
         NEW c, Fits(r, c), Permits(r, c)
  PROVE  Effect(r, c, Transition(r, c))
<1> DEFINE s == Transition(r, c)
<1>1. /\ r \in InstanceOf(budgets) /\ ValidSteps(r) /\ ValidOutcome(r)
      /\ c.type \in {"run", "resume", "begin", "commit", "complete", "fail", "cancel",
                     "acknowledge"}
  BY DEF Sound, ValidInstance, Fits, Changes
<1>2. /\ r.steps \in Seq(StepRecord) /\ DOMAIN r.steps = 1..Len(r.steps)
      /\ r.checkpoint \in Nat
  BY <1>1, Shape
<1>3. CASE c.type \in {"run", "resume"}
  <2>1. s = Start(r)
    BY <1>3 DEF Transition, IsNoOp
  <2>2. s = [r EXCEPT !.version = r.version + 1, !.steps = Stopped(r),
                      !.status = RUNNING, !.finished = FALSE, !.error = "none"]
    BY <1>1, <2>1, StartShape
  <2> HIDE DEF s
  <2>3. /\ s.version = r.version + 1 /\ s.steps = Stopped(r) /\ s.status = RUNNING
        /\ SameFlow(r, s) /\ s.budget = r.budget
        /\ s.cancellationRequested = r.cancellationRequested
    BY <1>1, <2>2 DEF InstanceOf, SameFlow
  <2>4. Len(s.steps) = Len(r.steps) /\ Tried(s) = Tried(r) /\ ~InStep(s)
    BY <1>1, <2>3, StoppedEffect DEF SameFlow
  <2>5. r.status = PENDING => ~InStep(r) /\ (Unfinished(r) => HasAttempts(r))
    <3>1. SUFFICES ASSUME r.status = PENDING, Unfinished(r)
                   PROVE  r.steps[Here(r)].status # "running" /\ HasAttempts(r)
      BY DEF InStep
    <3>2. Here(r) \in DOMAIN r.steps /\ Here(r) \in 1..Len(r.budget)
      BY <1>1, <1>2, <3>1 DEF Unfinished, Here, ValidSteps
    <3>3. r.steps[Here(r)].attempts = 0 /\ r.steps[Here(r)].status = "pending"
      BY <1>1, <3>1, <3>2 DEF ValidOutcome, ValidSteps
    <3>4. r.budget[Here(r)] \in Nat \ {0}
      BY <1>1, <3>2 DEF InstanceOf, AreBudgets
    <3> QED
      BY <3>3, <3>4 DEF HasAttempts
  <2>6. \/ r.status = PENDING
        \/ /\ c.type = "resume" /\ r.status \in {FAILED, RUNNING}
           /\ Unfinished(r) /\ ~r.cancellationRequested => HasAttempts(r)
    BY <1>3 DEF Permits
  <2> HIDE DEF s
  <2> QED
    BY <1>3, <2>3, <2>4, <2>5, <2>6 DEF s, Effect
<1>4. CASE c.type = "begin"
  <2> DEFINE e == [status |-> "running", attempts |-> r.steps[Here(r)].attempts + 1]
  <2>1. /\ s = Begin(r) /\ Unfinished(r) /\ HasAttempts(r) /\ ~r.cancellationRequested
        /\ r.status = RUNNING /\ r.steps[Here(r)].status \in {"pending", "failed"}
    BY <1>4 DEF Transition, IsNoOp, Permits
  <2>2. /\ r.steps[Here(r)] \in StepRecord
        /\ s = [r EXCEPT !.version = r.version + 1, !.steps = WithStep(r, e)]
    BY <1>1, <2>1, BeginShape
  <2> HIDE DEF s
  <2>3. /\ s.version = r.version + 1 /\ s.steps = WithStep(r, e) /\ s.status = RUNNING
        /\ SameFlow(r, s) /\ s.budget = r.budget
        /\ s.cancellationRequested = r.cancellationRequested
    BY <1>1, <2>1, <2>2 DEF InstanceOf, SameFlow
  <2>4. e \in StepRecord
    BY <2>2 DEF StepRecord, StepStatus
  <2>5. Len(s.steps) = Len(r.steps) /\ s.steps[Here(r)] = e
    <3> HIDE DEF e
    <3> QED
      BY <1>1, <2>1, <2>3, <2>4, StepReplaced
  <2>6. Here(s) = Here(r) /\ Unfinished(s)
    BY <2>1, <2>3, <2>5 DEF SameFlow, Here, Unfinished
  <2>7. Tried(s) = Tried(r) + 1 /\ InStep(s) /\ ~InStep(r)
    BY <2>1, <2>5, <2>6 DEF Tried, InStep
  <2> HIDE DEF e
  <2> QED
    BY <1>4, <2>1, <2>3, <2>5, <2>7 DEF s, Effect
<1>5. CASE c.type = "commit"
  <2> DEFINE e == [status |-> "succeeded", attempts |-> r.steps[Here(r)].attempts]
  <2>1. /\ s = Confirm(r, c.data) /\ Unfinished(r) /\ r.status = RUNNING
        /\ r.steps[Here(r)].status = "running"
        /\ c.data = Append(r.context, r.steps[Here(r)].attempts)
    BY <1>5 DEF Transition, IsNoOp, Permits, Fits
  <2>2. /\ r.steps[Here(r)] \in StepRecord
        /\ s = [r EXCEPT !.version = r.version + 1, !.context = c.data,
                         !.checkpoint = r.checkpoint + 1, !.steps = WithStep(r, e)]
    BY <1>1, <2>1, ConfirmShape
  <2> HIDE DEF s
  <2>3. /\ s.version = r.version + 1 /\ s.steps = WithStep(r, e) /\ s.status = RUNNING
        /\ s.checkpoint = r.checkpoint + 1 /\ s.context = c.data /\ s.budget = r.budget
        /\ s.cancellationRequested = r.cancellationRequested
    BY <1>1, <2>1, <2>2 DEF InstanceOf
  <2>4. e \in StepRecord
    BY <2>2 DEF StepRecord, StepStatus
  <2>5. /\ Len(s.steps) = Len(r.steps)
        /\ \A i \in DOMAIN r.steps : i # Here(r) => s.steps[i] = r.steps[i]
    <3> HIDE DEF e
    <3> QED
      BY <1>1, <2>1, <2>3, <2>4, StepReplaced
  <2>6. ASSUME Unfinished(s)
        PROVE  s.steps[Here(s)].attempts = 0 /\ s.steps[Here(s)].status = "pending"
    <3>1. Here(s) = r.checkpoint + 2 /\ Here(s) \in DOMAIN r.steps /\ Here(s) # Here(r)
      BY <1>2, <2>3, <2>5, <2>6 DEF Unfinished, Here
    <3>2. r.steps[Here(s)].status = "pending" /\ r.steps[Here(s)].attempts = 0
      BY <1>1, <1>2, <3>1 DEF ValidSteps
    <3> QED
      BY <2>5, <3>1, <3>2
  <2>7. Tried(s) = 0 /\ ~InStep(s) /\ InStep(r) /\ Tried(r) = r.steps[Here(r)].attempts
    BY <2>1, <2>6 DEF Tried, InStep
  <2> HIDE DEF e
  <2> QED
    BY <1>5, <2>1, <2>3, <2>5, <2>7 DEF s, Effect
<1>6. CASE c.type \in {"complete", "acknowledge"}
  <2>1. PICK status, result : s = Finish(r, status, "none", result) /\
               status = IF c.type = "complete" /\ ~r.cancellationRequested
                        THEN COMPLETED ELSE CANCELLED
    BY <1>6 DEF Transition, IsNoOp, Publish
  <2>2. /\ r.status = RUNNING
        /\ c.type = "complete" => ~Unfinished(r)
        /\ c.type = "acknowledge" => r.cancellationRequested
    BY <1>6 DEF Permits
  <2> HIDE DEF s
  <2>3. s = [r EXCEPT !.version = r.version + 1, !.status = status, !.finished = TRUE,
                      !.error = "none", !.result = result]
    BY <1>1, <2>1 DEF Finish, Touch, InstanceOf
  <2>4. /\ s.version = r.version + 1 /\ s.steps = r.steps /\ s.status = status
        /\ SameFlow(r, s) /\ s.budget = r.budget
        /\ s.cancellationRequested = r.cancellationRequested
    BY <1>1, <2>3 DEF InstanceOf, SameFlow
  <2> QED
    BY <1>6, <2>1, <2>2, <2>4 DEF s, Effect
<1>7. CASE c.type = "fail"
  <2>1. s = Finish(StopStep(r), FAILED, c.error, NoResult) /\ r.status = RUNNING
    BY <1>7 DEF Transition, IsNoOp, Permits
  <2>2. StopStep(r) = [r EXCEPT !.steps = Stopped(r)]
    BY <1>1, StopSteps
  <2> HIDE DEF s
  <2>3. s = [r EXCEPT !.version = r.version + 1, !.status = FAILED, !.finished = TRUE,
                      !.error = c.error, !.result = NoResult, !.steps = Stopped(r)]
    BY <1>1, <2>1, <2>2 DEF Finish, Touch, InstanceOf
  <2>4. /\ s.version = r.version + 1 /\ s.steps = Stopped(r) /\ s.status = FAILED
        /\ SameFlow(r, s) /\ s.budget = r.budget
        /\ s.cancellationRequested = r.cancellationRequested
    BY <1>1, <2>3 DEF InstanceOf, SameFlow
  <2>5. Len(s.steps) = Len(r.steps) /\ Tried(s) = Tried(r) /\ ~InStep(s)
    BY <1>1, <2>4, StoppedEffect DEF SameFlow
  <2> QED
    BY <1>7, <2>1, <2>4, <2>5 DEF s, Effect
<1>8. CASE c.type = "cancel" /\ IsNoOp(r, c)
  <2>1. s = r
    BY <1>8 DEF Transition, IsNoOp
  <2> HIDE DEF s
  <2> QED
    BY <1>8, <2>1 DEF s, Effect, IsNoOp
<1>9. CASE c.type = "cancel" /\ ~IsNoOp(r, c)
  <2>1. s = Cancel(r) /\ r.status \in {PENDING, RUNNING} /\ ~r.cancellationRequested
    BY <1>9 DEF Transition, Permits, IsNoOp
  <2>2. s = [r EXCEPT !.version = r.version + 1, !.cancellationRequested = TRUE,
              !.status = IF r.status = PENDING THEN CANCELLED ELSE r.status,
              !.finished = IF r.status = PENDING THEN TRUE ELSE r.finished]
    BY <1>1, <2>1, CancelShape
  <2> HIDE DEF s
  <2>3. /\ s.version = r.version + 1 /\ s.steps = r.steps /\ SameFlow(r, s)
        /\ s.budget = r.budget /\ s.cancellationRequested = TRUE
        /\ s.status = IF r.status = PENDING THEN CANCELLED ELSE r.status
    BY <1>1, <2>2 DEF InstanceOf, SameFlow
  <2> QED
    BY <1>9, <2>1, <2>3 DEF s, Effect
<1> QED
  BY <1>1, <1>3, <1>4, <1>5, <1>6, <1>7, <1>8, <1>9

-----------------------------------------------------------------------------
(* WorkflowRunner.                                                          *)

Everyone == Tasks \union Clients

\* The budgets of the instance are budgets in the sense of the life cycle.
LEMMA Defined == AreBudgets(Budgets)
BY BudgetsAssumption DEF AreBudgets

\* The changes a pass asks for.
LEMMA ChangesTyped ==
  /\ \A type \in {"run", "resume", "begin", "cancel", "acknowledge"} :
       Change(type) \in Changes /\ Change(type).type = type
  /\ \A resume \in BOOLEAN : StartWorkflow(resume) \in Changes
                             /\ StartWorkflow(resume).type \in {"run", "resume"}
  /\ BeginStep \in Changes /\ BeginStep.type = "begin"
  /\ CancelWorkflow \in Changes /\ CancelWorkflow.type = "cancel"
  /\ Acknowledge \in Changes /\ Acknowledge.type = "acknowledge"
  /\ \A code \in Errors : /\ Fail(code) \in Changes
                          /\ Fail(code).type = "fail" /\ Fail(code).error = code
  /\ \A data \in Seq(Nat) :
       /\ CommitStep(data) \in Changes
       /\ CommitStep(data).type = "commit" /\ CommitStep(data).data = data
       /\ Complete(data) \in Changes
       /\ Complete(data).type = "complete" /\ Complete(data).data = data
<1>1. << >> \in Seq(Nat) /\ "none" \in Errors
  BY EmptySeq DEF Errors
<1>2. \A type \in {"run", "resume", "begin", "cancel", "acknowledge", "commit", "complete",
                   "fail"} :
        Change(type) \in Changes /\ Change(type).type = type
        /\ Change(type) = [type |-> type, data |-> << >>, error |-> "none"]
  BY <1>1 DEF Change, Changes
<1>3. \A resume \in BOOLEAN : StartWorkflow(resume) \in Changes
                             /\ StartWorkflow(resume).type \in {"run", "resume"}
  BY <1>2 DEF StartWorkflow
<1>4. \A code \in Errors : Fail(code) = [type |-> "fail", data |-> << >>, error |-> code]
  BY <1>2 DEF Fail
<1>5. \A data \in Seq(Nat) :
        /\ CommitStep(data) = [type |-> "commit", data |-> data, error |-> "none"]
        /\ Complete(data) = [type |-> "complete", data |-> data, error |-> "none"]
  BY <1>2 DEF CommitStep, Complete
<1>6. ASSUME NEW code \in Errors
      PROVE  Fail(code) \in Changes
  <2>1. [type |-> "fail", data |-> << >>, error |-> code] \in Changes
    BY <1>1 DEF Changes
  <2> QED
    BY <1>4, <2>1
<1>7. \A data \in Seq(Nat) : CommitStep(data) \in Changes /\ Complete(data) \in Changes
  BY <1>1, <1>5 DEF Changes
<1> QED
  BY <1>2, <1>3, <1>4, <1>5, <1>6, <1>7 DEF BeginStep, CancelWorkflow, Acknowledge

\* The frames a task moves to.
LEMMA FrameFields ==
  /\ Idle = [pc |-> "idle", workflow |-> NoWorkflow, change |-> CancelWorkflow,
             effective |-> CancelWorkflow, seen |-> 0, tries |-> 0,
             checkpoint |-> 0, context |-> << >>, attempt |-> 0]
  /\ \A t, pc : Frame(t, pc) =
       [pc |-> pc, workflow |-> pass[t].workflow, change |-> CancelWorkflow,
        effective |-> CancelWorkflow, seen |-> 0, tries |-> 0,
        checkpoint |-> 0, context |-> << >>, attempt |-> 0]
<1>1. Idle = [pc |-> "idle", workflow |-> NoWorkflow, change |-> CancelWorkflow,
             effective |-> CancelWorkflow, seen |-> 0, tries |-> 0,
             checkpoint |-> 0, context |-> << >>, attempt |-> 0]
  BY DEF Idle
<1>2. ASSUME NEW t, NEW pc
      PROVE  Frame(t, pc) =
       [pc |-> pc, workflow |-> pass[t].workflow, change |-> CancelWorkflow,
        effective |-> CancelWorkflow, seen |-> 0, tries |-> 0,
        checkpoint |-> 0, context |-> << >>, attempt |-> 0]
  <2>1. Frame(t, pc) = [Idle EXCEPT !.pc = pc, !.workflow = pass[t].workflow]
    BY DEF Frame
  <2> QED
    BY <1>1, <2>1
<1> QED
  BY <1>1, <1>2

Places == {"idle", "find", "claim", "read", "commit", "poll", "execute", "token",
           "rescue", "release"}

\* The frames that the code builds from the one in hand are frames.
LEMMA FramesTyped ==
  ASSUME TypeOK, NEW t \in Everyone
  PROVE  /\ pass[t] \in Frames /\ Idle \in Frames
         /\ \A pc \in Places :
              /\ Frame(t, pc) \in Frames
              /\ [pass[t] EXCEPT !.pc = pc] \in Frames
         /\ \A c \in Changes, n \in Nat :
              /\ [Frame(t, "read") EXCEPT !.change = c] \in Frames
              /\ [Frame(t, "read") EXCEPT !.change = c, !.tries = n] \in Frames
              /\ [pass[t] EXCEPT !.pc = "commit", !.seen = n, !.effective = c] \in Frames
<1>1. pass[t] \in Frames
  BY DEF TypeOK, Everyone
<1>2. CancelWorkflow \in Changes /\ << >> \in Seq(Nat)
  BY ChangesTyped, EmptySeq
<1>3. Idle \in Frames
  BY <1>2, FrameFields DEF Frames
<1>4. \A pc \in Places : Frame(t, pc) \in Frames
  BY <1>1, <1>2, FrameFields DEF Frames, Places
<1>5. Frame(t, "read") \in Frames
  BY <1>4 DEF Places
<1>6. \A pc \in Places : [pass[t] EXCEPT !.pc = pc] \in Frames
  BY <1>1 DEF Frames, Places
<1>7. \A c \in Changes, n \in Nat :
              /\ [Frame(t, "read") EXCEPT !.change = c] \in Frames
              /\ [Frame(t, "read") EXCEPT !.change = c, !.tries = n] \in Frames
              /\ [pass[t] EXCEPT !.pc = "commit", !.seen = n, !.effective = c] \in Frames
  BY <1>1, <1>5 DEF Frames
<1> QED
  BY <1>1, <1>3, <1>4, <1>6, <1>7

-----------------------------------------------------------------------------
(* What a task has in hand.                                                 *)

\* What a pass asks of the record it drives: the outcome it reports is the one of the
\* step that the record says is being executed.
Asks(c, r) ==
  /\ c.type # "cancel"
  /\ c.type = "commit" =>
       InStep(r) /\ r.status = RUNNING /\ c.data = Append(r.context, Tried(r))
  /\ c.type = "complete" => c.data = r.context
  /\ c.type = "fail" => c.error # "none"

\* From the claim to the release.
Holding == {"read", "commit", "poll", "execute", "token", "rescue", "release"}

\* f is a frame that t may have: a pass holds the claim of its workflow and knows
\* its checkpoint and its context.
FrameOK(t, f) ==
  LET r == records[f.workflow] IN
    /\ f.pc # "idle" => f.workflow \in Workflows
    /\ t \in Clients =>
         /\ f.pc \in {"idle", "read", "commit"}
         /\ f.pc # "idle" => f.change.type = "cancel"
         /\ f.pc = "commit" => f.effective.type = "cancel"
    /\ t \in Tasks =>
         /\ f.pc \in {"find", "claim"} => f.change.type \in {"run", "resume"}
         /\ f.pc \in Holding => owners[f.workflow] = t
         /\ f.pc \in {"read", "commit"} => Asks(f.change, r)
         /\ f.pc = "commit" =>
              \/ f.effective = f.change
              \/ (f.effective = Acknowledge /\ f.change.type = "begin")
         /\ f.pc \in {"poll", "execute"} =>
              f.checkpoint = r.checkpoint /\ f.context = r.context
         /\ f.pc = "execute" => InStep(r) /\ r.status = RUNNING /\ f.attempt = Tried(r)

StoreOK ==
  \A w \in Workflows :
    /\ Stored(w) => Sound(records[w], Budgets) /\ w \in issued
    /\ owners[w] # Nobody => Stored(w)

\* An attempt that was handed out is behind the record, or the last one it counts.
HandedArePast ==
  \A w \in Workflows, i \in Nat, a \in Nat : <<w, i, a>> \in handed =>
    /\ w \in issued
    /\ Stored(w) =>
         \/ i <= records[w].checkpoint
         \/ /\ i = records[w].checkpoint + 1 /\ Unfinished(records[w])
            /\ a <= Tried(records[w])

RunnerInv ==
  /\ TypeOK
  /\ StoreOK
  /\ \A t \in Everyone : FrameOK(t, pass[t])
  /\ HandedArePast

\* t moves to the frame f, and nothing else happens.
Turns(t, f) ==
  /\ f \in Frames /\ FrameOK(t, f)
  /\ pass' = [pass EXCEPT ![t] = f]
  /\ UNCHANGED <<records, keys, owners, issued, handed>>
  /\ faults' \in 0..MaxFaults

\* Replacing the frame of one pass leaves the others.
LEMMA PassReplaced ==
  ASSUME TypeOK, NEW t \in Everyone, NEW f \in Frames, pass' = [pass EXCEPT ![t] = f]
  PROVE  /\ pass' \in [Everyone -> Frames] /\ pass'[t] = f
         /\ \A u \in Everyone \ {t} : pass'[u] = pass[u]
BY DEF TypeOK, Everyone

\* A move of one pass to a frame that fits the store keeps the invariant.
LEMMA TurnKeeps ==
  ASSUME RunnerInv, NEW t \in Everyone, NEW f, Turns(t, f)
  PROVE  RunnerInv'
<1>1. /\ pass' \in [Everyone -> Frames] /\ pass'[t] = f
      /\ \A u \in Everyone \ {t} : pass'[u] = pass[u]
  BY PassReplaced DEF RunnerInv, Turns
<1>2. TypeOK'
  BY <1>1 DEF RunnerInv, TypeOK, Turns, Everyone
<1>3. StoreOK' /\ HandedArePast'
  BY DEF RunnerInv, StoreOK, HandedArePast, Turns, Stored
<1>4. \A u \in Everyone : FrameOK(u, pass[u])'
  BY <1>1 DEF RunnerInv, FrameOK, Turns
<1> QED
  BY <1>2, <1>3, <1>4 DEF RunnerInv

\* The frames that a pass that holds its claim can take.
LEMMA TaskFrames ==
  ASSUME RunnerInv, NEW t \in Tasks, pass[t].pc \in Holding
  PROVE  /\ t \in Everyone /\ t \notin Clients
         /\ pass[t].workflow \in Workflows /\ owners[pass[t].workflow] = t
         /\ Stored(pass[t].workflow)
         /\ Sound(records[pass[t].workflow], Budgets)
         /\ FrameOK(t, Idle)
         /\ \A pc \in {"token", "rescue", "release"} :
              Frame(t, pc) \in Frames /\ FrameOK(t, Frame(t, pc))
         /\ \A c \in Changes : Asks(c, records[pass[t].workflow]) =>
              LET f == [Frame(t, "read") EXCEPT !.change = c]
              IN f \in Frames /\ FrameOK(t, f)
<1>1. t \in Everyone /\ t \notin Clients /\ t # Nobody
  BY NamesAssumption DEF Everyone
<1>2. pass[t].workflow \in Workflows /\ owners[pass[t].workflow] = t
  BY <1>1 DEF RunnerInv, FrameOK, Holding
<1>3. Stored(pass[t].workflow) /\ Sound(records[pass[t].workflow], Budgets)
  BY <1>1, <1>2 DEF RunnerInv, StoreOK
<1>4. FrameOK(t, Idle)
  BY <1>1, FrameFields DEF FrameOK, Holding
<1>5. ASSUME NEW pc \in {"token", "rescue", "release"}
      PROVE  Frame(t, pc) \in Frames /\ FrameOK(t, Frame(t, pc))
  <2>1. Frame(t, pc).pc = pc /\ Frame(t, pc).workflow = pass[t].workflow
    BY FrameFields
  <2>2. Frame(t, pc) \in Frames
    BY <1>1, FramesTyped DEF RunnerInv, Places
  <2> QED
    BY <1>1, <1>2, <2>1, <2>2 DEF FrameOK, Holding
<1>6. ASSUME NEW c \in Changes, Asks(c, records[pass[t].workflow])
      PROVE  LET f == [Frame(t, "read") EXCEPT !.change = c]
             IN f \in Frames /\ FrameOK(t, f)
  <2> DEFINE f == [Frame(t, "read") EXCEPT !.change = c]
  <2>1. f.pc = "read" /\ f.workflow = pass[t].workflow /\ f.change = c
    BY FrameFields
  <2>2. f \in Frames
    BY <1>1, FramesTyped DEF RunnerInv
  <2> HIDE DEF f
  <2>3. FrameOK(t, f)
    BY <1>1, <1>2, <1>6, <2>1 DEF FrameOK
  <2> QED
    BY <2>2, <2>3 DEF f
<1> QED
  BY <1>1, <1>2, <1>3, <1>4, <1>5, <1>6

-----------------------------------------------------------------------------
(* The steps that only move a task.                                         *)

Turning(t) == \E f : Turns(t, f)

\* A move to a frame the task may have.
LEMMA MovesTurn ==
  ASSUME RunnerInv, NEW t \in Everyone, NEW f \in Frames, FrameOK(t, f), Moves(t, f),
         faults' \in 0..MaxFaults
  PROVE  Turning(t)
BY DEF Turning, Turns, Moves

\* Goto is such a move.
LEMMA GotoTurns ==
  ASSUME RunnerInv, NEW t \in Everyone, NEW f \in Frames, FrameOK(t, f), Goto(t, f)
  PROVE  Turning(t)
BY MovesTurn DEF Goto, RunnerInv, TypeOK

\* A caller may always leave.
LEMMA IdleFits ==
  ASSUME RunnerInv, NEW t \in Everyone
  PROVE  Idle \in Frames /\ FrameOK(t, Idle)
<1>1. Idle.pc = "idle"
  BY FrameFields
<1> QED
  BY <1>1, FramesTyped DEF RunnerInv, FrameOK, Holding

\* A caller enters.
LEMMA EnterTurns ==
  ASSUME RunnerInv, NEW t \in Everyone, NEW w \in issued,
         RunOrResume(t, w) \/ CallCancel(t, w)
  PROVE  Turning(t)
<1>1. w \in Workflows
  BY DEF RunnerInv, TypeOK
<1>2. PICK c \in Changes :
        /\ Enter(t, w, c)
        /\ t \in Tasks => c.type \in {"run", "resume"}
        /\ t \in Clients => c.type = "cancel"
  <2>1. CASE RunOrResume(t, w)
    BY <2>1, ChangesTyped, NamesAssumption DEF RunOrResume
  <2>2. CASE CallCancel(t, w)
    BY <2>2, ChangesTyped, NamesAssumption DEF CallCancel
  <2> QED
    BY <2>1, <2>2
<1> DEFINE f == [Idle EXCEPT !.pc = IF t \in Tasks THEN "find" ELSE "read",
                             !.workflow = w, !.change = c]
<1>3. /\ f.pc = IF t \in Tasks THEN "find" ELSE "read"
      /\ f.workflow = w /\ f.change = c
  BY FrameFields
<1>4. f \in Frames
  <2>1. Idle \in Frames
    BY IdleFits
  <2> QED
    BY <1>1, <2>1 DEF Frames
<1>5. Goto(t, f)
  BY <1>2 DEF Enter
<1> HIDE DEF f
<1>6. FrameOK(t, f)
  BY <1>1, <1>2, <1>3, NamesAssumption DEF FrameOK, Everyone, Holding
<1> QED
  BY <1>4, <1>5, <1>6, GotoTurns

\* Unwinding releases the claim of a pass; a client that cancels holds none and leaves.
LEMMA UnwindTurns ==
  ASSUME RunnerInv, NEW t \in Everyone, t \in Tasks => pass[t].pc \in Holding, Unwind(t)
  PROVE  Turning(t)
<1>1. CASE t \in Tasks
  <2>1. Goto(t, Frame(t, "release"))
    BY <1>1 DEF Unwind, Step
  <2>2. Frame(t, "release") \in Frames /\ FrameOK(t, Frame(t, "release"))
    BY <1>1, TaskFrames
  <2> QED
    BY <2>1, <2>2, GotoTurns
<1>2. CASE t \notin Tasks
  BY <1>2, IdleFits, GotoTurns DEF Unwind, Leave
<1> QED
  BY <1>1, <1>2

\* A pass that looks its workflow up, found or not.
LEMMA FindTurns ==
  ASSUME RunnerInv, NEW t \in Everyone, Find(t)
  PROVE  Turning(t)
<1>1. FrameOK(t, pass[t]) /\ pass[t] \in Frames
  BY FramesTyped DEF RunnerInv
<1>2. CASE Stored(pass[t].workflow)
  <2> DEFINE f == [pass[t] EXCEPT !.pc = "claim"]
  <2>1. f \in Frames
    BY FramesTyped DEF RunnerInv, Places
  <2>2. f.pc = "claim" /\ f.workflow = pass[t].workflow /\ f.change = pass[t].change
    BY <1>1 DEF Frames
  <2>3. Goto(t, f)
    BY <1>2 DEF Find
  <2> HIDE DEF f
  <2>4. FrameOK(t, f)
    BY <1>1, <2>2 DEF FrameOK, Holding, Find, At
  <2> QED
    BY <2>1, <2>3, <2>4, GotoTurns
<1>3. CASE ~Stored(pass[t].workflow)
  BY <1>3, IdleFits, GotoTurns DEF Find, Leave
<1> QED
  BY <1>2, <1>3

\* A pass that reads the record it is about to change.
LEMMA ReadTurns ==
  ASSUME RunnerInv, NEW t \in Everyone, Read(t)
  PROVE  Turning(t)
<1>1. FrameOK(t, pass[t]) /\ pass[t] \in Frames /\ pass[t].pc = "read"
  BY FramesTyped DEF RunnerInv, Read, At
<1>2. CASE Stored(pass[t].workflow)
  <2> DEFINE r == records[pass[t].workflow]
             e == IF pass[t].change.type = "begin" /\ r.cancellationRequested
                  THEN Acknowledge ELSE pass[t].change
             f == [pass[t] EXCEPT !.pc = "commit", !.seen = r.version, !.effective = e]
  <2>1. pass[t].workflow \in Workflows
    BY <1>1 DEF FrameOK
  <2>2. r.version \in Nat /\ e \in Changes
    BY <1>1, <1>2, <2>1, ChangesTyped DEF RunnerInv, StoreOK, Sound, InstanceOf, Frames
  <2>3. f \in Frames
    <3> HIDE DEF r, e
    <3> QED BY <2>2, FramesTyped DEF RunnerInv
  <2>4. /\ f.pc = "commit" /\ f.workflow = pass[t].workflow /\ f.change = pass[t].change
        /\ f.effective = e
    BY <1>1 DEF Frames
  <2>5. Goto(t, f)
    BY <1>2 DEF Read
  <2>6. e = pass[t].change \/ (e = Acknowledge /\ pass[t].change.type = "begin")
    OBVIOUS
  <2> HIDE DEF f, e
  <2>7. FrameOK(t, f)
    BY <1>1, <2>4, <2>6 DEF FrameOK, Holding
  <2> QED
    BY <2>3, <2>5, <2>7, GotoTurns
<1>3. CASE ~Stored(pass[t].workflow)
  BY <1>1, <1>3, UnwindTurns DEF Read, Holding
<1> QED
  BY <1>2, <1>3

\* A pass whose change met a newer version, and that tries again or gives up.
LEMMA ConflictTurns ==
  ASSUME RunnerInv, NEW t \in Everyone, Conflict(t)
  PROVE  Turning(t)
<1>1. FrameOK(t, pass[t]) /\ pass[t] \in Frames /\ pass[t].pc = "commit"
  BY FramesTyped DEF RunnerInv, Conflict, At
<1>2. CASE pass[t].tries + 1 = ChangeTries
  BY <1>1, <1>2, UnwindTurns DEF Conflict, Holding
<1>3. CASE pass[t].tries + 1 # ChangeTries
  <2> DEFINE f == [Frame(t, "read") EXCEPT !.change = pass[t].change,
                                           !.tries = pass[t].tries + 1]
  <2>1. pass[t].tries + 1 \in Nat /\ pass[t].change \in Changes
    BY <1>1 DEF Frames
  <2>2. f \in Frames
    BY <2>1, FramesTyped DEF RunnerInv
  <2>3. /\ f.pc = "read" /\ f.workflow = pass[t].workflow /\ f.change = pass[t].change
    BY FrameFields
  <2>4. Goto(t, f)
    BY <1>3 DEF Conflict
  <2> HIDE DEF f
  <2>5. FrameOK(t, f)
    BY <1>1, <2>3 DEF FrameOK, Holding
  <2> QED
    BY <2>2, <2>4, <2>5, GotoTurns
<1> QED
  BY <1>2, <1>3

\* A pass whose change the record does not permit.
LEMMA RefusedTurns ==
  ASSUME RunnerInv, NEW t \in Everyone, Refused(t)
  PROVE  Turning(t)
BY UnwindTurns DEF Refused, At, Holding

\* A pass asks for a change.
LEMMA AskTurns ==
  ASSUME RunnerInv, NEW t \in Tasks, pass[t].pc \in Holding,
         NEW c \in Changes, Asks(c, records[pass[t].workflow]), Ask(t, c)
  PROVE  Turning(t)
BY TaskFrames, GotoTurns DEF Ask

\* Only passes are in those places.
LEMMA PassesOnly ==
  ASSUME RunnerInv, NEW t \in Everyone,
         pass[t].pc \in {"find", "claim", "poll", "execute", "token", "rescue", "release"}
  PROVE  t \in Tasks /\ (pass[t].pc \in {"find", "claim"} \/ pass[t].pc \in Holding)
BY DEF RunnerInv, FrameOK, Everyone, Holding

\* A pass between two steps, that asks for the next one or for the end.
LEMMA PollTurns ==
  ASSUME RunnerInv, NEW t \in Everyone, Poll(t)
  PROVE  Turning(t)
<1>1. t \in Tasks /\ pass[t].pc \in Holding /\ pass[t].pc = "poll"
  BY PassesOnly DEF Poll, At, Holding
<1>2. /\ Stored(pass[t].workflow) /\ FrameOK(t, pass[t]) /\ pass[t] \in Frames
      /\ Sound(records[pass[t].workflow], Budgets)
  BY <1>1, TaskFrames, FramesTyped DEF RunnerInv
<1>3. pass[t].context \in Seq(Nat) /\ pass[t].context = records[pass[t].workflow].context
  BY <1>1, <1>2 DEF FrameOK, Frames
<1>4. PICK c : Ask(t, c) /\ c \in {Acknowledge, BeginStep, Complete(pass[t].context),
                                   Fail("result_failed")}
  BY <1>2 DEF Poll
<1>5. c \in Changes /\ Asks(c, records[pass[t].workflow])
  BY <1>3, <1>4, ChangesTyped DEF Asks, Errors
<1> QED
  BY <1>1, <1>4, <1>5, AskTurns

\* A step that returns, raises, stops or is cancelled by the owner of the pass.
LEMMA StepEndsTurns ==
  ASSUME RunnerInv, NEW t \in Everyone, StepEnds(t)
  PROVE  Turning(t)
<1>1. t \in Tasks /\ pass[t].pc \in Holding /\ pass[t].pc = "execute"
  BY PassesOnly DEF StepEnds, StepReturns, StepRaises, StepStops, OwnerCancelled, At, Holding
<1>2. /\ FrameOK(t, pass[t]) /\ pass[t] \in Frames
  BY <1>1, FramesTyped DEF RunnerInv
<1>3. CASE StepReturns(t)
  <2>1. /\ Append(pass[t].context, pass[t].attempt) \in Seq(Nat)
        /\ pass[t].context = records[pass[t].workflow].context
        /\ pass[t].attempt = Tried(records[pass[t].workflow])
        /\ InStep(records[pass[t].workflow])
        /\ records[pass[t].workflow].status = RUNNING
    BY <1>1, <1>2 DEF FrameOK, Frames
  <2> DEFINE c == CommitStep(Append(pass[t].context, pass[t].attempt))
  <2>2. /\ c \in Changes /\ c.type = "commit"
        /\ c.data = Append(pass[t].context, pass[t].attempt)
    BY <2>1, ChangesTyped
  <2>3. Ask(t, c)
    BY <1>3 DEF StepReturns
  <2> HIDE DEF c
  <2>4. Asks(c, records[pass[t].workflow])
    BY <2>1, <2>2 DEF Asks
  <2> QED
    BY <1>1, <2>2, <2>3, <2>4, AskTurns
<1>4. CASE StepRaises(t)
  <2>1. Fail("step_failed") \in Changes /\ Asks(Fail("step_failed"), records[pass[t].workflow])
    BY ChangesTyped DEF Asks, Errors
  <2> QED
    BY <1>1, <1>4, <2>1, AskTurns DEF StepRaises
<1>5. CASE StepStops(t)
  BY <1>1, <1>5, TaskFrames, GotoTurns DEF StepStops, Step
<1>6. CASE OwnerCancelled(t)
  BY <1>1, <1>6, TaskFrames, GotoTurns DEF OwnerCancelled, Step
<1> QED
  BY <1>3, <1>4, <1>5, <1>6 DEF StepEnds

\* A pass that reads the token once a step was cancelled.
LEMMA AskTokenTurns ==
  ASSUME RunnerInv, NEW t \in Everyone, AskToken(t)
  PROVE  Turning(t)
<1>1. t \in Tasks /\ pass[t].pc \in Holding
  BY PassesOnly DEF AskToken, At, Holding
<1>2. Stored(pass[t].workflow)
  BY <1>1, TaskFrames
<1>3. PICK c \in {Acknowledge, Fail("step_failed")} : Ask(t, c)
  BY <1>2 DEF AskToken
<1>4. c \in Changes /\ Asks(c, records[pass[t].workflow])
  BY <1>3, ChangesTyped DEF Asks, Errors
<1> QED
  BY <1>1, <1>3, <1>4, AskTurns

\* A pass that records the interruption before it lets go.
LEMMA RescueTurns ==
  ASSUME RunnerInv, NEW t \in Everyone, Rescue(t)
  PROVE  Turning(t)
<1>1. t \in Tasks /\ pass[t].pc \in Holding
  BY PassesOnly DEF Rescue, At, Holding
<1>2. CASE Ask(t, Fail("execution_interrupted"))
  <2>1. /\ Fail("execution_interrupted") \in Changes
        /\ Asks(Fail("execution_interrupted"), records[pass[t].workflow])
    BY ChangesTyped DEF Asks, Errors
  <2> QED
    BY <1>1, <1>2, <2>1, AskTurns
<1>3. CASE Unwind(t)
  BY <1>1, <1>3, UnwindTurns
<1> QED
  BY <1>2, <1>3 DEF Rescue

\* The frames an exception leads to.
LEMMA RaisedFit ==
  ASSUME RunnerInv, NEW t \in Everyone, t \in Tasks => pass[t].pc \in Holding,
         NEW f \in Raised(t)
  PROVE  f \in Frames /\ FrameOK(t, f)
<1>1. CASE t \in Clients
  BY <1>1, IdleFits DEF Raised
<1>2. CASE t \in Tasks
  <2>1. f \in {Frame(t, "release"), Frame(t, "rescue")}
    BY <1>2, NamesAssumption DEF Raised
  <2> QED
    BY <1>2, <2>1, TaskFrames
<1> QED
  BY <1>1, <1>2 DEF Everyone

\* A call of a pass that fails before it reaches the store.
LEMMA LostTurns ==
  ASSUME RunnerInv, NEW t \in Everyone, CallLost(t), ~At(t, "release")
  PROVE  Turning(t)
<1>1. faults' \in 0..MaxFaults
  BY BoundsAssumption DEF CallLost, RunnerInv, TypeOK
<1>2. CASE pass[t].pc \in {"find", "claim"} /\ Moves(t, Idle)
  BY <1>1, <1>2, IdleFits, MovesTurn
<1>3. CASE /\ pass[t].pc \in {"read", "commit", "poll", "token", "rescue"}
           /\ \E f \in Raised(t) : Moves(t, f)
  BY <1>1, <1>3, RaisedFit, MovesTurn DEF Holding
<1> QED
  BY <1>2, <1>3 DEF CallLost

-----------------------------------------------------------------------------
(* The steps that take or give back a claim.                                *)

\* The claim of the workflow of t, which nobody else has, becomes o.
LEMMA ClaimMoves ==
  ASSUME RunnerInv, NEW t \in Tasks, NEW o \in Tasks \union {Nobody, Gone},
         owners[pass[t].workflow] \in {Nobody, t}, pass[t].workflow \in Workflows,
         o = Nobody \/ Stored(pass[t].workflow),
         owners' = [owners EXCEPT ![pass[t].workflow] = o],
         NEW f \in Frames, FrameOK(t, f)', pass' = [pass EXCEPT ![t] = f],
         UNCHANGED <<records, keys, issued, handed>>, faults' \in 0..MaxFaults
  PROVE  RunnerInv'
<1>1. /\ pass' \in [Everyone -> Frames] /\ pass'[t] = f /\ t \in Everyone
      /\ \A u \in Everyone \ {t} : pass'[u] = pass[u]
  BY PassReplaced DEF RunnerInv, Everyone
<1>2. /\ owners' \in [Workflows -> Tasks \union {Nobody, Gone}]
      /\ owners'[pass[t].workflow] = o
      /\ \A w \in Workflows \ {pass[t].workflow} : owners'[w] = owners[w]
  BY DEF RunnerInv, TypeOK
<1>3. TypeOK'
  BY <1>1, <1>2 DEF RunnerInv, TypeOK, Everyone
<1>4. StoreOK' /\ HandedArePast'
  BY <1>2 DEF RunnerInv, StoreOK, HandedArePast, Stored
<1>5. ASSUME NEW u \in Everyone
      PROVE  FrameOK(u, pass[u])'
  <2>1. CASE u = t
    BY <1>1, <2>1
  <2>2. CASE u # t
    <3>1. pass'[u] = pass[u] /\ FrameOK(u, pass[u])
      BY <1>1, <2>2 DEF RunnerInv
    <3>2. u \in Tasks /\ pass[u].pc \in Holding =>
            owners[pass[u].workflow] = u /\ pass[u].workflow # pass[t].workflow
                                         /\ pass[u].workflow \in Workflows
      BY <2>2, <3>1, NamesAssumption DEF FrameOK, Holding
    <3>3. u \in Tasks /\ pass[u].pc \in Holding => owners'[pass[u].workflow] = u
      BY <1>2, <3>2
    <3> QED
      BY <3>1, <3>3 DEF FrameOK
  <2> QED
    BY <2>1, <2>2
<1> QED
  BY <1>3, <1>4, <1>5 DEF RunnerInv

\* A claim, given or refused: the one who gets it is the only holder.
LEMMA ClaimKeeps ==
  ASSUME RunnerInv, NEW t \in Everyone, Claim(t)
  PROVE  RunnerInv'
<1>1. t \in Tasks /\ pass[t].pc = "claim" /\ FrameOK(t, pass[t]) /\ pass[t] \in Frames
  BY PassesOnly, FramesTyped DEF Claim, At, RunnerInv
<1>2. CASE Claims(t)
  <2>0. PICK f : f = [pass[t] EXCEPT !.pc = "read"]
    OBVIOUS
  <2>1. f \in Frames
    BY <2>0, FramesTyped DEF RunnerInv, Places
  <2>2. f.pc = "read" /\ f.workflow = pass[t].workflow /\ f.change = pass[t].change
    BY <1>1, <2>0 DEF Frames
  <2>3. pass' = [pass EXCEPT ![t] = f]
    <3>1. pass' = [pass EXCEPT ![t].pc = "read"]
      BY <1>2 DEF Claim
    <3> QED
      BY <2>0, <3>1
  <2>4. /\ owners' = [owners EXCEPT ![pass[t].workflow] = t]
        /\ UNCHANGED <<records, keys, issued, handed, faults>>
    BY <1>2 DEF Claim
  <2>5. pass[t].workflow \in Workflows
    BY <1>1 DEF FrameOK
  <2>6. owners'[pass[t].workflow] = t
    BY <2>4, <2>5 DEF RunnerInv, TypeOK
  <2>7. pass[t].change.type \in {"run", "resume"}
    BY <1>1 DEF FrameOK
  <2>8. FrameOK(t, f)'
    BY <1>1, <2>2, <2>5, <2>6, <2>7, NamesAssumption DEF FrameOK, Asks, Holding
  <2>9. faults' \in 0..MaxFaults
    BY <2>4 DEF RunnerInv, TypeOK
  <2> QED
    BY <1>1, <1>2, <2>1, <2>3, <2>4, <2>5, <2>8, <2>9, ClaimMoves DEF Claims
<1>3. CASE ~Claims(t)
  BY <1>3, IdleFits, GotoTurns, TurnKeeps DEF Claim, Leave, Turning
<1> QED
  BY <1>2, <1>3

\* A pass is over.
LEMMA IdleAlwaysFits == ASSUME NEW t PROVE FrameOK(t, Idle)'
<1>1. Idle' = Idle /\ Idle.pc = "idle"
  BY FrameFields DEF Idle, CancelWorkflow, Change
<1> QED
  BY <1>1 DEF FrameOK, Holding

\* A release, whose claim goes back to nobody or to a caller that is gone.
LEMMA ReleaseKeeps ==
  ASSUME RunnerInv, NEW t \in Everyone, NEW o \in {Nobody, Gone}, At(t, "release"),
         owners' = IF owners[pass[t].workflow] = t
                   THEN [owners EXCEPT ![pass[t].workflow] = o] ELSE owners,
         pass' = [pass EXCEPT ![t] = Idle],
         UNCHANGED <<records, keys, issued, handed>>, faults' \in 0..MaxFaults
  PROVE  RunnerInv'
<1>1. t \in Tasks /\ pass[t].pc \in Holding
  BY PassesOnly DEF At, Holding
<1>2. /\ owners[pass[t].workflow] = t /\ pass[t].workflow \in Workflows
      /\ Stored(pass[t].workflow)
  BY <1>1, TaskFrames
<1> QED
  BY <1>1, <1>2, ClaimMoves, IdleFits, IdleAlwaysFits

-----------------------------------------------------------------------------
(* The steps that change a record.                                          *)

\* What a record, a change and the changed record have to do with one another.
Changed(t, r, s) ==
  /\ pass[t].workflow \in Workflows
  /\ r = records[pass[t].workflow] /\ Sound(r, Budgets)
  /\ Permits(r, pass[t].effective) /\ Fits(r, pass[t].effective)
  /\ Sound(s, Budgets) /\ Effect(r, pass[t].effective, s)
  /\ records' \in [Workflows -> InstanceOf(Budgets) \union {NoRecord}]
  /\ records'[pass[t].workflow] = s
  /\ \A w \in Workflows \ {pass[t].workflow} : records'[w] = records[w]

\* The change that a pass sends is one it can justify.
LEMMA StoreChanges ==
  ASSUME RunnerInv, NEW t \in Everyone, At(t, "commit"), Accepted(t), Store(t)
  PROVE  \E r, s : Changed(t, r, s)
<1>1. FrameOK(t, pass[t]) /\ pass[t] \in Frames /\ pass[t].pc = "commit"
  BY FramesTyped DEF RunnerInv, At
<1> DEFINE w == pass[t].workflow
           r == records[w]
           c == pass[t].effective
           s == Transition(r, c)
<1>2. w \in Workflows
  BY <1>1 DEF FrameOK
<1>3. Sound(r, Budgets) /\ Permits(r, c)
  BY <1>2 DEF RunnerInv, StoreOK, Accepted
<1>4. Fits(r, c)
  <2>1. c \in Changes
    BY <1>1 DEF Frames
  <2>2. CASE t \in Clients
    BY <1>1, <2>1, <2>2 DEF FrameOK, Fits
  <2>3. CASE t \in Tasks /\ c = Acknowledge
    BY <2>1, <2>3, ChangesTyped DEF Fits
  <2>4. CASE t \in Tasks /\ c = pass[t].change
    <3>1. Asks(c, r)
      BY <1>1, <2>4 DEF FrameOK
    <3>2. InStep(r) => Tried(r) = r.steps[Here(r)].attempts
      BY DEF InStep, Tried
    <3> QED
      BY <2>1, <3>1, <3>2 DEF Asks, Fits
  <2> QED
    BY <1>1, <2>2, <2>3, <2>4 DEF FrameOK, Everyone
<1>5. Sound(s, Budgets) /\ Effect(r, c, s)
  <2> HIDE DEF r, c
  <2> QED BY <1>3, <1>4, Defined, TransitionSound, TransitionEffect
<1>6. records' = [records EXCEPT ![w] = s]
  BY DEF Store
<1> HIDE DEF s
<1>7. /\ records' \in [Workflows -> InstanceOf(Budgets) \union {NoRecord}]
      /\ records'[w] = s /\ \A v \in Workflows \ {w} : records'[v] = records[v]
  BY <1>2, <1>5, <1>6 DEF RunnerInv, TypeOK, Sound
<1>8. Changed(t, r, s)
  BY <1>2, <1>3, <1>4, <1>5, <1>7 DEF Changed
<1> QED
  BY <1>8

\* A change never forgets what was done.
LEMMA Advances ==
  ASSUME NEW r, NEW s, NEW c, Sound(r, Budgets), Sound(s, Budgets), Effect(r, c, s),
         c \in Changes
  PROVE  \/ s.checkpoint = r.checkpoint + 1
         \/ /\ s.checkpoint = r.checkpoint /\ Unfinished(s) = Unfinished(r)
            /\ Tried(s) >= Tried(r)
<1>1. c.type \in {"run", "resume", "begin", "commit", "complete", "fail", "cancel",
                     "acknowledge"}
  BY DEF Changes
<1>2. Tried(r) \in Nat
  <2>1. r \in InstanceOf(Budgets) /\ ValidSteps(r)
    BY DEF Sound, ValidInstance
  <2>2. r.steps \in Seq(StepRecord) /\ DOMAIN r.steps = 1..Len(r.steps) /\ r.checkpoint \in Nat
    BY <2>1, Shape
  <2>3. Unfinished(r) => r.steps[Here(r)] \in StepRecord
    BY <2>2 DEF Unfinished, Here
  <2> QED
    BY <2>3 DEF Tried, StepRecord
<1>3. Len(s.steps) = Len(r.steps)
  BY DEF Effect
<1>4. CASE c.type = "commit"
  BY <1>4 DEF Effect
<1>5. CASE c.type # "commit"
  <2>1. SameFlow(r, s)
    BY <1>1, <1>5 DEF Effect, SameFlow
  <2>2. Unfinished(s) = Unfinished(r) /\ Here(s) = Here(r)
    BY <1>3, <2>1 DEF Unfinished, SameFlow, Here
  <2>3. s.steps = r.steps => Tried(s) = Tried(r)
    BY <2>2 DEF Tried
  <2>4. s.steps = r.steps \/ Tried(s) = Tried(r) \/ Tried(s) = Tried(r) + 1
    BY <1>1, <1>5 DEF Effect
  <2> QED
    BY <1>2, <2>1, <2>2, <2>3, <2>4 DEF SameFlow
<1> QED
  BY <1>4, <1>5

\* Changing a record disturbs neither the store nor what was handed out.
LEMMA ChangeKeepsStore ==
  ASSUME RunnerInv, NEW t \in Everyone, NEW r, NEW s, Changed(t, r, s),
         pass[t].effective \in Changes, Stored(pass[t].workflow),
         UNCHANGED <<owners, issued>>
  PROVE  /\ StoreOK'
         /\ handed' = handed => HandedArePast'
<1> DEFINE w == pass[t].workflow
<1>1. /\ w \in Workflows /\ r = records[w] /\ records'[w] = s /\ Sound(s, Budgets)
      /\ Sound(r, Budgets) /\ Effect(r, pass[t].effective, s)
      /\ \A v \in Workflows \ {w} : records'[v] = records[v]
  BY DEF Changed
<1>2. w \in issued /\ s.status # "absent"
  BY <1>1 DEF RunnerInv, StoreOK, Sound, InstanceOf
<1>3. \/ s.checkpoint = r.checkpoint + 1
      \/ /\ s.checkpoint = r.checkpoint /\ Unfinished(s) = Unfinished(r)
         /\ Tried(s) >= Tried(r)
  BY <1>1, Advances
<1>4. r.checkpoint \in Nat /\ Tried(r) \in Nat /\ Tried(s) \in Nat
  <2>1. \A q : Sound(q, Budgets) => q.checkpoint \in Nat /\ Tried(q) \in Nat
    <3>1. SUFFICES ASSUME NEW q, Sound(q, Budgets)
                   PROVE  q.checkpoint \in Nat /\ Tried(q) \in Nat
      OBVIOUS
    <3>2. q \in InstanceOf(Budgets) /\ ValidSteps(q)
      BY <3>1 DEF Sound, ValidInstance
    <3>3. q.steps \in Seq(StepRecord) /\ DOMAIN q.steps = 1..Len(q.steps) /\ q.checkpoint \in Nat
      BY <3>2, Shape
    <3>4. Unfinished(q) => q.steps[Here(q)] \in StepRecord
      BY <3>3 DEF Unfinished, Here
    <3> QED
      BY <3>3, <3>4 DEF Tried, StepRecord
  <2> QED
    BY <1>1, <2>1
<1> HIDE DEF w
<1>5. StoreOK'
  BY <1>1, <1>2 DEF RunnerInv, StoreOK, Stored
<1>6. ASSUME handed' = handed
      PROVE  HandedArePast'
  <2>1. SUFFICES ASSUME NEW v \in Workflows, NEW i \in Nat, NEW a \in Nat,
                        <<v, i, a>> \in handed
                 PROVE  /\ v \in issued
                        /\ Stored(v)' => \/ i <= records'[v].checkpoint
                                         \/ /\ i = records'[v].checkpoint + 1
                                            /\ Unfinished(records'[v])
                                            /\ a <= Tried(records'[v])
    BY <1>6 DEF HandedArePast
  <2>2. v \in issued /\ (Stored(v) => \/ i <= records[v].checkpoint
                                      \/ /\ i = records[v].checkpoint + 1
                                         /\ Unfinished(records[v])
                                         /\ a <= Tried(records[v]))
    BY <2>1 DEF RunnerInv, HandedArePast
  <2>3. CASE v = w
    <3>1. Stored(v)
      BY <2>3 DEF w
    <3> QED
      BY <1>1, <1>3, <1>4, <2>2, <2>3, <3>1
  <2>4. CASE v # w
    BY <1>1, <2>2, <2>4 DEF Stored
  <2> QED
    BY <2>3, <2>4
<1> QED
  BY <1>5, <1>6

\* The other passes do not notice: the only change that someone else than the owner of a
\* workflow makes is a cancellation.
LEMMA OthersGoOn ==
  ASSUME RunnerInv, NEW t \in Everyone, NEW r, NEW s, Changed(t, r, s), Owned(t),
         UNCHANGED owners, NEW u \in Everyone, u # t, pass'[u] = pass[u]
  PROVE  FrameOK(u, pass[u])'
<1>1. FrameOK(u, pass[u]) /\ FrameOK(t, pass[t])
  BY DEF RunnerInv
<1>2. CASE u \in Tasks /\ pass[u].pc \in Holding
  <2>1. pass[u].workflow \in Workflows /\ owners[pass[u].workflow] = u /\ u \notin Clients
    BY <1>2, TaskFrames
  <2>2. CASE pass[u].workflow # pass[t].workflow
    <3>1. records'[pass[u].workflow] = records[pass[u].workflow]
      BY <2>1, <2>2 DEF Changed
    <3> QED
      BY <1>1, <3>1 DEF FrameOK
  <2>3. CASE pass[u].workflow = pass[t].workflow
    <3>1. pass[t].effective.type = "cancel"
      BY <2>1, <2>3 DEF Owned
    <3>2. /\ records[pass[u].workflow] = r /\ records'[pass[u].workflow] = s
          /\ SameFlow(r, s) /\ s.steps = r.steps
          /\ r.status = RUNNING => s.status = RUNNING
      BY <2>3, <3>1 DEF Changed, Effect, SameFlow
    <3>3. Tried(s) = Tried(r) /\ InStep(s) = InStep(r)
      BY <3>2 DEF Tried, InStep, SameFlow, Unfinished, Here
    <3>4. \A c : Asks(c, r) => Asks(c, s)
      BY <3>2, <3>3 DEF Asks, SameFlow
    <3> QED
      BY <1>1, <2>1, <3>2, <3>3, <3>4 DEF FrameOK, SameFlow
  <2> QED
    BY <2>2, <2>3
<1>3. CASE ~(u \in Tasks /\ pass[u].pc \in Holding)
  BY <1>1, <1>3 DEF FrameOK, Holding
<1> QED
  BY <1>2, <1>3

\* The frame of a pass whose change was stored.
After(t, s) ==
  LET pc == NextPc(s, pass[t].effective)
  IN IF pc = "idle" THEN Idle
     ELSE IF pc = "release" THEN Frame(t, pc)
     ELSE [Frame(t, pc) EXCEPT
             !.checkpoint = s.checkpoint, !.context = s.context,
             !.attempt = IF pc = "execute" THEN s.steps[Here(s)].attempts ELSE 0]

\* An instance's next step is one of its steps.
LEMMA SoundFields ==
  ASSUME NEW r, Sound(r, Budgets)
  PROVE  /\ r.checkpoint \in Nat /\ r.context \in Seq(Nat) /\ Tried(r) \in Nat
         /\ r.status \in Status /\ r.version \in Nat /\ r.cancellationRequested \in BOOLEAN
         /\ r.status # "absent"
         /\ InStep(r) => Unfinished(r) /\ Tried(r) = r.steps[Here(r)].attempts
<1>1. r \in InstanceOf(Budgets) /\ ValidSteps(r)
  BY DEF Sound, ValidInstance
<1>2. /\ r.steps \in Seq(StepRecord) /\ DOMAIN r.steps = 1..Len(r.steps)
      /\ r.checkpoint \in Nat
  BY <1>1, Shape
<1>3. Unfinished(r) => r.steps[Here(r)] \in StepRecord
  BY <1>2 DEF Unfinished, Here
<1> QED
  BY <1>1, <1>2, <1>3 DEF Tried, InStep, StepRecord, InstanceOf

\* The frame a pass goes on with, once its change is stored, fits the new record.
LEMMA AfterFits ==
  ASSUME RunnerInv, NEW t \in Everyone, At(t, "commit"), NEW r, NEW s, Changed(t, r, s),
         Owned(t), UNCHANGED owners, NEW f, f = After(t, s)
  PROVE  f \in Frames /\ FrameOK(t, f)'
<1>1. FrameOK(t, pass[t]) /\ pass[t] \in Frames /\ pass[t].pc = "commit"
  BY FramesTyped DEF RunnerInv, At
<1>2. /\ pass[t].workflow \in Workflows /\ records'[pass[t].workflow] = s
      /\ Effect(r, pass[t].effective, s) /\ Sound(s, Budgets)
  BY DEF Changed
<1>3. /\ s.checkpoint \in Nat /\ s.context \in Seq(Nat) /\ Tried(s) \in Nat
      /\ InStep(s) => Tried(s) = s.steps[Here(s)].attempts
  BY <1>2, SoundFields
<1>4. CASE t \in Clients
  <2>1. f = Idle
    BY <1>1, <1>4 DEF FrameOK, After, NextPc
  <2> QED
    BY <2>1, IdleFits, IdleAlwaysFits
<1>5. CASE t \in Tasks
  <2>1. t \notin Clients /\ owners'[pass[t].workflow] = t /\ pass[t].effective.type # "cancel"
    BY <1>1, <1>5, TaskFrames, ChangesTyped DEF Holding, FrameOK, Asks
  <2>2. pass[t].effective.type \in {"run", "resume", "begin", "commit", "complete", "fail",
                                     "acknowledge"}
    BY <1>1, <2>1 DEF Frames, Changes
  <2>3. CASE pass[t].effective.type \in {"acknowledge", "fail", "complete"}
    <3>1. f = Frame(t, "release")
      BY <2>3 DEF After, NextPc
    <3>2. f.pc = "release" /\ f.workflow = pass[t].workflow
      BY <3>1, FrameFields
    <3>4. Frame(t, "release") \in Frames
      BY FramesTyped DEF RunnerInv, Places
    <3> QED
      BY <1>2, <1>5, <2>1, <3>1, <3>2, <3>4 DEF FrameOK, Holding
  <2>4. CASE pass[t].effective.type \in {"run", "resume", "commit"}
    <3>1. f = [Frame(t, "poll") EXCEPT !.checkpoint = s.checkpoint,
                                       !.context = s.context, !.attempt = 0]
      BY <2>4 DEF After, NextPc
    <3>2. Frame(t, "poll") \in Frames
      BY FramesTyped DEF RunnerInv, Places
    <3>3. /\ f.pc = "poll" /\ f.workflow = pass[t].workflow /\ f \in Frames
          /\ f.checkpoint = s.checkpoint /\ f.context = s.context
      BY <1>3, <3>1, <3>2, FrameFields DEF Frames
    <3> QED
      BY <1>2, <1>5, <2>1, <3>3 DEF FrameOK, Holding
  <2>5. CASE pass[t].effective.type = "begin"
    <3>0. InStep(s) /\ s.status = RUNNING /\ s.steps[Here(s)].attempts = Tried(s)
      BY <1>2, <1>3, <2>5 DEF Effect
    <3>1. f = [Frame(t, "execute") EXCEPT !.checkpoint = s.checkpoint,
                                       !.context = s.context, !.attempt = Tried(s)]
      BY <2>5, <3>0 DEF After, NextPc
    <3>2. Frame(t, "execute") \in Frames
      BY FramesTyped DEF RunnerInv, Places
    <3>3. /\ f.pc = "execute" /\ f.workflow = pass[t].workflow /\ f \in Frames
          /\ f.checkpoint = s.checkpoint /\ f.context = s.context /\ f.attempt = Tried(s)
      BY <1>3, <3>1, <3>2, FrameFields DEF Frames
    <3> QED
      BY <1>2, <1>5, <2>1, <3>0, <3>3 DEF FrameOK, Holding
  <2> QED
    BY <2>2, <2>3, <2>4, <2>5
<1> QED
  BY <1>4, <1>5 DEF Everyone

\* The attempt that begins is the last one the record counts.
LEMMA BeginHands ==
  ASSUME NEW t, NEW r, NEW s, Changed(t, r, s),
         NextPc(s, pass[t].effective) = "execute"
  PROVE  /\ s.checkpoint = r.checkpoint /\ Unfinished(s) /\ s.status = RUNNING
         /\ Tried(s) = Tried(r) + 1 /\ Here(s) = s.checkpoint + 1
         /\ InStep(s) /\ s.steps[Here(s)].attempts = Tried(s)
         /\ ~r.cancellationRequested /\ ~s.cancellationRequested
         /\ pass[t].effective.type = "begin"
<1>1. pass[t].effective.type = "begin"
  BY DEF NextPc, Changed, Fits, Changes
<1>2. /\ Effect(r, pass[t].effective, s) /\ Sound(s, Budgets)
  BY DEF Changed
<1> QED
  BY <1>1, <1>2, SoundFields DEF Effect, SameFlow, Here

\* A change that is stored keeps the invariant, for its pass and for all the others.
LEMMA CommitKeeps ==
  ASSUME RunnerInv, NEW t \in Everyone, Commit(t)
  PROVE  RunnerInv'
<1>1. PICK r, s : Changed(t, r, s)
  BY StoreChanges DEF Commit
<1>2. /\ At(t, "commit") /\ Owned(t) /\ Stored(pass[t].workflow)
      /\ UNCHANGED <<keys, owners, issued, faults>>
      /\ pass[t] \in Frames /\ pass[t].effective \in Changes
  BY FramesTyped DEF Commit, Accepted, RunnerInv, Frames
<1>3. /\ pass[t].workflow \in Workflows /\ records'[pass[t].workflow] = s
      /\ r = records[pass[t].workflow] /\ Sound(r, Budgets) /\ Sound(s, Budgets)
      /\ records' \in [Workflows -> InstanceOf(Budgets) \union {NoRecord}]
      /\ \A v \in Workflows \ {pass[t].workflow} : records'[v] = records[v]
  BY <1>1 DEF Changed
<1>4. PICK f : f = After(t, s)
  OBVIOUS
<1>5. /\ pass' = [pass EXCEPT ![t] = f]
      /\ handed' = IF NextPc(s, pass[t].effective) = "execute"
                   THEN handed \union {<<pass[t].workflow, Here(s), s.steps[Here(s)].attempts>>}
                   ELSE handed
  BY <1>3, <1>4 DEF Commit, After
<1>6. f \in Frames /\ FrameOK(t, f)'
  BY <1>1, <1>2, <1>4, AfterFits
<1>7. /\ pass' \in [Everyone -> Frames] /\ pass'[t] = f
      /\ \A u \in Everyone \ {t} : pass'[u] = pass[u]
  BY <1>5, <1>6, PassReplaced DEF RunnerInv
<1>8. /\ s.checkpoint \in Nat /\ Tried(s) \in Nat /\ Tried(r) \in Nat
  BY <1>3, SoundFields
<1>9. StoreOK'
  BY <1>1, <1>2, ChangeKeepsStore
<1>10. ASSUME NextPc(s, pass[t].effective) = "execute"
       PROVE  handed' \subseteq Workflows \X Nat \X Nat /\ HandedArePast'
  <2>1. /\ s.checkpoint = r.checkpoint /\ Unfinished(s) /\ Tried(s) = Tried(r) + 1
        /\ Here(s) = s.checkpoint + 1 /\ s.steps[Here(s)].attempts = Tried(s)
    BY <1>1, <1>10, BeginHands
  <2>2. handed' = handed \union {<<pass[t].workflow, s.checkpoint + 1, Tried(s)>>}
    BY <1>5, <1>10, <2>1
  <2>3. handed' \subseteq Workflows \X Nat \X Nat
    <3>1. <<pass[t].workflow, s.checkpoint + 1, Tried(s)>> \in Workflows \X Nat \X Nat
      BY <1>3, <1>8
    <3> QED
      BY <2>2, <3>1 DEF RunnerInv, TypeOK
  <2>4. HandedArePast'
    <3>1. SUFFICES ASSUME NEW v \in Workflows, NEW i \in Nat, NEW a \in Nat,
                          <<v, i, a>> \in handed'
                   PROVE  /\ v \in issued
                          /\ Stored(v)' => \/ i <= records'[v].checkpoint
                                           \/ /\ i = records'[v].checkpoint + 1
                                              /\ Unfinished(records'[v])
                                              /\ a <= Tried(records'[v])
      BY <1>2 DEF HandedArePast
    <3>2. CASE <<v, i, a>> = <<pass[t].workflow, s.checkpoint + 1, Tried(s)>>
      <4>1. v \in issued
        BY <1>2, <3>2 DEF RunnerInv, StoreOK
      <4> QED
        BY <1>3, <1>8, <2>1, <3>2, <4>1
    <3>3. CASE <<v, i, a>> \in handed
      <4>1. v \in issued /\ (Stored(v) => \/ i <= records[v].checkpoint
                                          \/ /\ i = records[v].checkpoint + 1
                                             /\ Unfinished(records[v])
                                             /\ a <= Tried(records[v]))
        BY <3>3 DEF RunnerInv, HandedArePast
      <4>2. CASE v = pass[t].workflow
        BY <1>2, <1>3, <1>8, <2>1, <4>1, <4>2
      <4>3. CASE v # pass[t].workflow
        BY <1>3, <4>1, <4>3 DEF Stored
      <4> QED
        BY <4>2, <4>3
    <3> QED
      BY <2>2, <3>1, <3>2, <3>3
  <2> QED
    BY <2>3, <2>4
<1>11. ASSUME NextPc(s, pass[t].effective) # "execute"
       PROVE  handed' \subseteq Workflows \X Nat \X Nat /\ HandedArePast'
  <2>1. handed' = handed
    BY <1>5, <1>11
  <2>2. HandedArePast'
    BY <1>1, <1>2, <2>1, ChangeKeepsStore
  <2> QED
    BY <2>1, <2>2 DEF RunnerInv, TypeOK
<1>12. handed' \subseteq Workflows \X Nat \X Nat /\ HandedArePast'
  BY <1>10, <1>11
<1>13. TypeOK'
  BY <1>2, <1>3, <1>7, <1>12 DEF RunnerInv, TypeOK, Everyone
<1>14. \A u \in Everyone : FrameOK(u, pass[u])'
  BY <1>1, <1>2, <1>6, <1>7, OthersGoOn
<1> QED
  BY <1>9, <1>12, <1>13, <1>14 DEF RunnerInv

\* The change is stored and the pass does not know.
LEMMA ReplyLostKeeps ==
  ASSUME RunnerInv, NEW t \in Everyone, ReplyLost(t)
  PROVE  RunnerInv'
<1>1. faults' \in 0..MaxFaults
  BY BoundsAssumption DEF ReplyLost, RunnerInv, TypeOK
<1>2. CASE At(t, "claim")
  <2>1. /\ Claims(t) /\ owners' = [owners EXCEPT ![pass[t].workflow] = Gone]
        /\ pass' = [pass EXCEPT ![t] = Idle]
        /\ UNCHANGED <<records, keys, issued, handed>>
    BY <1>2 DEF ReplyLost, At
  <2>2. t \in Tasks /\ pass[t].workflow \in Workflows
    BY <1>2, PassesOnly DEF At, RunnerInv, FrameOK
  <2> QED
    BY <1>1, <2>1, <2>2, ClaimMoves, IdleFits, IdleAlwaysFits DEF Claims
<1>3. CASE ~At(t, "claim")
  <2>1. /\ At(t, "commit") /\ Accepted(t) /\ Store(t)
        /\ \E frame \in Raised(t) : pass' = [pass EXCEPT ![t] = frame]
        /\ UNCHANGED <<keys, owners, issued, handed>>
    BY <1>3 DEF ReplyLost
  <2>2. PICK r, s : Changed(t, r, s)
    BY <2>1, StoreChanges
  <2>3. PICK f \in Raised(t) : pass' = [pass EXCEPT ![t] = f]
    BY <2>1
  <2>4. /\ pass[t].workflow \in Workflows /\ pass[t] \in Frames
        /\ pass[t].effective \in Changes /\ Owned(t) /\ Stored(pass[t].workflow)
        /\ records' \in [Workflows -> InstanceOf(Budgets) \union {NoRecord}]
    BY <2>1, <2>2, FramesTyped DEF Changed, RunnerInv, Frames, Accepted
  <2>5. f \in Frames
    BY <2>1, <2>3, RaisedFit DEF At, Holding
  <2>6. /\ pass' \in [Everyone -> Frames] /\ pass'[t] = f
        /\ \A u \in Everyone \ {t} : pass'[u] = pass[u]
    BY <2>3, <2>5, PassReplaced DEF RunnerInv
  <2>7. FrameOK(t, f)'
    <3>1. CASE t \in Clients
      <4>1. f = Idle
        BY <2>3, <3>1 DEF Raised
      <4> QED
        BY <4>1, IdleAlwaysFits
    <3>2. CASE t \in Tasks
      <4>1. t \notin Clients /\ owners'[pass[t].workflow] = t
        BY <2>1, <3>2, TaskFrames DEF At, Holding
      <4>2. f \in {Frame(t, "release"), Frame(t, "rescue")}
        BY <2>3, <3>2, <4>1 DEF Raised
      <4>3. f.pc \in {"release", "rescue"} /\ f.workflow = pass[t].workflow
        BY <4>2, FrameFields
      <4> QED
        BY <2>4, <3>2, <4>1, <4>3 DEF FrameOK, Holding
    <3> QED
      BY <3>1, <3>2 DEF Everyone
  <2>8. StoreOK' /\ HandedArePast'
    BY <2>1, <2>2, <2>4, ChangeKeepsStore
  <2>9. TypeOK'
    BY <1>1, <2>1, <2>4, <2>6 DEF RunnerInv, TypeOK, Everyone
  <2>10. \A u \in Everyone : FrameOK(u, pass[u])'
    BY <2>1, <2>2, <2>4, <2>6, <2>7, OthersGoOn
  <2> QED
    BY <2>8, <2>9, <2>10 DEF RunnerInv
<1> QED
  BY <1>2, <1>3

\* Calls that fail, those of a release included.
LEMMA LostKeeps ==
  ASSUME RunnerInv, NEW t \in Everyone, CallLost(t)
  PROVE  RunnerInv'
<1>1. CASE At(t, "release")
  <2>1. /\ owners' = [owners EXCEPT ![pass[t].workflow] = IF @ = t THEN Gone ELSE @]
        /\ pass' = [pass EXCEPT ![t] = Idle]
        /\ UNCHANGED <<records, keys, issued, handed>>
    BY <1>1 DEF CallLost, At
  <2>2. owners[pass[t].workflow] = t
    BY <1>1, PassesOnly, TaskFrames DEF At, Holding
  <2>3. owners' = IF owners[pass[t].workflow] = t
                  THEN [owners EXCEPT ![pass[t].workflow] = Gone] ELSE owners
    BY <2>1, <2>2
  <2>4. faults' \in 0..MaxFaults
    BY BoundsAssumption DEF CallLost, RunnerInv, TypeOK
  <2> QED
    BY <1>1, <2>1, <2>3, <2>4, ReleaseKeeps
<1>2. CASE ~At(t, "release")
  BY <1>2, LostTurns, TurnKeeps DEF Turning
<1> QED
  BY <1>1, <1>2

-----------------------------------------------------------------------------
(* New workflows, and workflows that go.                                    *)

\* A record comes or goes that no pass holds.
LEMMA RecordComesOrGoes ==
  ASSUME RunnerInv, NEW w \in Workflows, owners[w] = Nobody,
         NEW s, s = NoRecord \/ Sound(s, Budgets),
         records' = [records EXCEPT ![w] = s],
         keys' \in [Keys -> [budget : Budgets, workflow : Workflows] \union {NoEntry}],
         issued \subseteq issued', issued' \subseteq Workflows,
         s = NoRecord \/ (w \in issued' /\ w \notin issued),
         UNCHANGED <<owners, handed, pass, faults>>
  PROVE  RunnerInv'
<1>1. /\ records' \in [Workflows -> InstanceOf(Budgets) \union {NoRecord}]
      /\ records'[w] = s /\ \A v \in Workflows \ {w} : records'[v] = records[v]
  BY DEF RunnerInv, TypeOK, Sound
<1>2. TypeOK'
  BY <1>1 DEF RunnerInv, TypeOK
<1>3. StoreOK'
  <2>1. SUFFICES ASSUME NEW v \in Workflows
                 PROVE  /\ Stored(v)' => Sound(records'[v], Budgets) /\ v \in issued'
                        /\ owners[v] # Nobody => Stored(v)'
    BY DEF StoreOK
  <2>2. CASE v = w
    BY <1>1, <2>2 DEF Stored, NoRecord
  <2>3. CASE v # w
    BY <1>1, <2>3 DEF Stored, RunnerInv, StoreOK
  <2> QED
    BY <2>2, <2>3
<1>4. HandedArePast'
  <2>1. SUFFICES ASSUME NEW v \in Workflows, NEW i \in Nat, NEW a \in Nat,
                        <<v, i, a>> \in handed
                 PROVE  /\ v \in issued'
                        /\ Stored(v)' => \/ i <= records'[v].checkpoint
                                         \/ /\ i = records'[v].checkpoint + 1
                                            /\ Unfinished(records'[v])
                                            /\ a <= Tried(records'[v])
    BY DEF HandedArePast
  <2>2. v \in issued /\ (Stored(v) => \/ i <= records[v].checkpoint
                                      \/ /\ i = records[v].checkpoint + 1
                                         /\ Unfinished(records[v])
                                         /\ a <= Tried(records[v]))
    BY <2>1 DEF RunnerInv, HandedArePast
  <2>3. CASE v = w
    BY <1>1, <2>2, <2>3 DEF Stored, NoRecord
  <2>4. CASE v # w
    BY <1>1, <2>2, <2>4 DEF Stored
  <2> QED
    BY <2>3, <2>4
<1>5. ASSUME NEW u \in Everyone
      PROVE  FrameOK(u, pass[u])'
  <2>1. FrameOK(u, pass[u])
    BY DEF RunnerInv
  <2>2. u \in Tasks /\ pass[u].pc \in Holding => records'[pass[u].workflow] = records[pass[u].workflow]
    BY <1>1, TaskFrames, NamesAssumption
  <2> QED
    BY <2>1, <2>2 DEF FrameOK, Holding
<1> QED
  BY <1>2, <1>3, <1>4, <1>5 DEF RunnerInv

\* A new workflow keeps the invariant.
LEMMA CreateKeeps ==
  ASSUME RunnerInv, NEW w \in Workflows, NEW b \in Budgets, NEW k \in Keys \union {NoKey},
         Create(w, b, k)
  PROVE  RunnerInv'
<1>1. Sound(NewInstance(b), Budgets)
  BY Defined, NewInstanceSound
<1>2. w \notin issued /\ owners[w] = Nobody
  BY DEF Create, RunnerInv, StoreOK
<1>3. keys' \in [Keys -> [budget : Budgets, workflow : Workflows] \union {NoEntry}]
  BY DEF Create, RunnerInv, TypeOK
<1>4. /\ records' = [records EXCEPT ![w] = NewInstance(b)]
      /\ issued' = issued \union {w} /\ issued \subseteq Workflows
      /\ UNCHANGED <<owners, handed, pass, faults>>
  BY DEF Create, RunnerInv, TypeOK
<1> QED
  BY <1>1, <1>2, <1>3, <1>4, RecordComesOrGoes

\* So does the deletion of one that has ended.
LEMMA DeleteKeeps ==
  ASSUME RunnerInv, NEW w \in Workflows, Delete(w)
  PROVE  RunnerInv'
<1>1. keys' \in [Keys -> [budget : Budgets, workflow : Workflows] \union {NoEntry}]
  BY DEF Delete, RunnerInv, TypeOK
<1>2. issued \subseteq Workflows /\ owners[w] = Nobody
  BY DEF RunnerInv, TypeOK, Delete
<1> QED
  BY <1>1, <1>2, RecordComesOrGoes DEF Delete

-----------------------------------------------------------------------------
(* The invariant.                                                           *)

\* The invariant holds at the start.
LEMMA RunnerInit == Init => RunnerInv
<1> SUFFICES ASSUME Init PROVE RunnerInv
  OBVIOUS
<1>1. CancelWorkflow \in Changes /\ << >> \in Seq(Nat)
  BY ChangesTyped, EmptySeq
<1>2. Idle \in Frames /\ Idle.pc = "idle"
  BY <1>1, FrameFields DEF Frames
<1>3. TypeOK
  BY <1>2, BoundsAssumption DEF Init, TypeOK
<1>4. StoreOK /\ HandedArePast
  BY DEF Init, StoreOK, HandedArePast, Stored, NoRecord
<1>5. \A t \in Everyone : FrameOK(t, pass[t])
  BY <1>2 DEF Init, FrameOK, Everyone, Holding
<1> QED
  BY <1>3, <1>4, <1>5 DEF RunnerInv

\* Every step of the specification keeps it.
LEMMA RunnerStep ==
  ASSUME RunnerInv, [Next]_vars
  PROVE  RunnerInv'
<1>1. ASSUME NEW w \in Workflows, NEW b \in Budgets, NEW k \in Keys \union {NoKey},
             Create(w, b, k)
      PROVE  RunnerInv'
  BY <1>1, CreateKeeps
<1>2. ASSUME NEW w \in Workflows, Delete(w)
      PROVE  RunnerInv'
  BY <1>2, DeleteKeeps
<1>3. ASSUME NEW t \in Everyone, NEW w \in issued, RunOrResume(t, w) \/ CallCancel(t, w)
      PROVE  RunnerInv'
  BY <1>3, EnterTurns, TurnKeeps DEF Turning
<1>4. ASSUME NEW t \in Everyone,
             Find(t) \/ Read(t) \/ Conflict(t) \/ Refused(t) \/ Poll(t) \/ AskToken(t)
             \/ Rescue(t) \/ StepEnds(t)
      PROVE  RunnerInv'
  <2>1. Turning(t)
    BY <1>4, FindTurns, ReadTurns, ConflictTurns, RefusedTurns, PollTurns, AskTokenTurns,
       RescueTurns, StepEndsTurns
  <2> QED
    BY <2>1, TurnKeeps DEF Turning
<1>5. ASSUME NEW t \in Everyone, Claim(t)
      PROVE  RunnerInv'
  BY <1>5, ClaimKeeps
<1>6. ASSUME NEW t \in Everyone, Commit(t)
      PROVE  RunnerInv'
  BY <1>6, CommitKeeps
<1>7. ASSUME NEW t \in Everyone, Release(t)
      PROVE  RunnerInv'
  <2>1. faults' \in 0..MaxFaults
    BY <1>7 DEF Release, RunnerInv, TypeOK
  <2> QED
    BY <1>7, <2>1, ReleaseKeeps DEF Release
<1>8. ASSUME NEW t \in Everyone, CallLost(t) \/ ReplyLost(t)
      PROVE  RunnerInv'
  BY <1>8, LostKeeps, ReplyLostKeeps
<1>9. CASE UNCHANGED vars
  BY <1>9 DEF vars, RunnerInv, TypeOK, StoreOK, HandedArePast, FrameOK, Stored
<1> QED
  BY <1>1, <1>2, <1>3, <1>4, <1>5, <1>6, <1>7, <1>8, <1>9 DEF Next, StoreStep, Everyone

\* The invariant that the others follow from: types, sound instances, passes that know
\* what they drive, and attempts that are never behind the record.
THEOREM RunnerInductive == Spec => []RunnerInv
<1>1. Init => RunnerInv
  BY RunnerInit
<1>2. RunnerInv /\ [Next]_vars => RunnerInv'
  BY RunnerStep
<1> QED
  BY <1>1, <1>2, PTL DEF Spec

\* Whatever the interleaving and the lost calls, the stored instances are ones that
\* WorkflowInstance accepts and their context is made of the confirmed attempts.
THEOREM CheckpointsAlwaysAgree == Spec => []CheckpointsAgree
<1>1. RunnerInv => CheckpointsAgree
  <2>1. SUFFICES ASSUME RunnerInv PROVE CheckpointsAgree
    OBVIOUS
  <2>2. \A w \in Workflows : Stored(w) => Sound(records[w], Budgets)
    BY <2>1 DEF RunnerInv, StoreOK
  <2> QED
    BY <2>2 DEF CheckpointsAgree, InstancesValid, ContextMatchesCheckpoint, Sound,
                ContextBuilt
<1> QED
  BY <1>1, RunnerInductive, PTL

-----------------------------------------------------------------------------
(* Every attempt starts once.                                               *)

\* u moves, and not into a step.
Elsewhere(u) == \E f : f.pc # "execute" /\ pass' = [pass EXCEPT ![u] = f]

\* A step is called by the task that has just stored its beginning.
LEMMA OnlyCommitCalls ==
  ASSUME RunnerInv, Next
  PROVE  pass' = pass \/ \E u \in Everyone : Elsewhere(u) \/ Commit(u)
<1>1. /\ Idle.pc = "idle" /\ \A t, pc : Frame(t, pc).pc = pc
      /\ \A t, c : [Frame(t, "read") EXCEPT !.change = c].pc = "read"
      /\ \A t, c, n : [Frame(t, "read") EXCEPT !.change = c, !.tries = n].pc = "read"
  BY FrameFields
<1>2. ASSUME NEW t \in Everyone, Unwind(t)
      PROVE  Elsewhere(t)
  BY <1>1, <1>2 DEF Unwind, Step, Leave, Goto, Moves, Elsewhere
<1>3. ASSUME NEW t \in Everyone, NEW c, Ask(t, c)
      PROVE  Elsewhere(t)
  <2>1. pass' = [pass EXCEPT ![t] = [Frame(t, "read") EXCEPT !.change = c]]
    BY <1>3 DEF Ask, Goto, Moves
  <2> QED
    BY <1>1, <2>1 DEF Elsewhere
<1>4. ASSUME NEW t \in Everyone, NEW w \in issued, RunOrResume(t, w) \/ CallCancel(t, w)
      PROVE  Elsewhere(t)
  <2>1. PICK c : Enter(t, w, c)
    BY <1>4 DEF RunOrResume, CallCancel
  <2>2. PICK f : /\ f = [Idle EXCEPT !.pc = IF t \in Tasks THEN "find" ELSE "read",
                                     !.workflow = w, !.change = c]
                 /\ pass' = [pass EXCEPT ![t] = f]
    BY <2>1 DEF Enter, Goto, Moves
  <2>3. f.pc # "execute"
    BY <2>2, FrameFields
  <2> QED
    BY <2>2, <2>3 DEF Elsewhere
<1>5. ASSUME NEW t \in Everyone, Find(t) \/ Claim(t)
      PROVE  Elsewhere(t)
  <2>1. pass[t] \in Frames
    BY FramesTyped DEF RunnerInv
  <2>2. PICK f : pass' = [pass EXCEPT ![t] = f] /\ f \in {Idle, [pass[t] EXCEPT !.pc = "claim"],
                                                        [pass[t] EXCEPT !.pc = "read"]}
    BY <1>5 DEF Find, Claim, Goto, Moves, Leave
  <2>3. f.pc # "execute"
    BY <1>1, <2>1, <2>2 DEF Frames
  <2> QED
    BY <2>2, <2>3 DEF Elsewhere
<1>6. ASSUME NEW t \in Everyone, Read(t)
      PROVE  Elsewhere(t)
  <2>1. pass[t] \in Frames
    BY FramesTyped DEF RunnerInv
  <2>2. CASE Unwind(t)
    BY <1>2, <2>2
  <2>3. CASE ~Unwind(t)
    <3>1. PICK n, e : pass' = [pass EXCEPT ![t] =
                         [pass[t] EXCEPT !.pc = "commit", !.seen = n, !.effective = e]]
      BY <1>6, <2>3 DEF Read, Goto, Moves
    <3>2. [pass[t] EXCEPT !.pc = "commit", !.seen = n, !.effective = e].pc = "commit"
      BY <2>1 DEF Frames
    <3> QED
      BY <3>1, <3>2 DEF Elsewhere
  <2> QED
    BY <2>2, <2>3
<1>7. ASSUME NEW t \in Everyone, Conflict(t)
      PROVE  Elsewhere(t)
  <2>1. CASE Unwind(t)
    BY <1>2, <2>1
  <2>2. CASE ~Unwind(t)
    <3>1. PICK c, n : pass' = [pass EXCEPT ![t] =
                         [Frame(t, "read") EXCEPT !.change = c, !.tries = n]]
      BY <1>7, <2>2 DEF Conflict, Goto, Moves
    <3> QED
      BY <1>1, <3>1 DEF Elsewhere
  <2> QED
    BY <2>1, <2>2
<1>8. ASSUME NEW t \in Everyone, Refused(t) \/ Poll(t) \/ AskToken(t) \/ Rescue(t)
      PROVE  Elsewhere(t)
  <2>1. Unwind(t) \/ \E c : Ask(t, c)
    BY <1>8 DEF Refused, Poll, AskToken, Rescue
  <2> QED
    BY <1>2, <1>3, <2>1
<1>9. ASSUME NEW t \in Everyone, StepEnds(t)
      PROVE  Elsewhere(t)
  <2>1. (\E c : Ask(t, c)) \/ Step(t, "token") \/ Step(t, "rescue")
    BY <1>9 DEF StepEnds, StepReturns, StepRaises, StepStops, OwnerCancelled
  <2>2. CASE Step(t, "token") \/ Step(t, "rescue")
    BY <1>1, <2>2 DEF Step, Goto, Moves, Elsewhere
  <2> QED
    BY <1>3, <2>1, <2>2
<1>10. ASSUME NEW t \in Everyone, Release(t) \/ CallLost(t) \/ ReplyLost(t)
      PROVE  Elsewhere(t)
  <2>1. \A f \in Raised(t) : f.pc # "execute"
    BY <1>1 DEF Raised
  <2> QED
    BY <1>1, <1>10, <2>1 DEF Release, CallLost, ReplyLost, Moves, Elsewhere
<1>11. ASSUME NEW w \in Workflows,
              Delete(w) \/ \E b \in Budgets, k \in Keys \union {NoKey} : Create(w, b, k)
      PROVE  pass' = pass
  BY <1>11 DEF Create, Delete
<1> QED
  BY <1>4, <1>5, <1>6, <1>7, <1>8, <1>9, <1>10, <1>11 DEF Next, StoreStep, Everyone

\* What starting a step means.
Starts(t) ==
  LET w == pass[t].workflow
      r == records'[w]
      i == pass'[t].checkpoint + 1
  IN /\ i = r.checkpoint + 1
     /\ r.steps[i].status = "running" /\ r.steps[i].attempts = pass'[t].attempt
     /\ ~r.cancellationRequested
     /\ <<w, i, pass'[t].attempt>> \notin handed

\* A pass that comes to execute a step does so on the attempt that the store has just counted.
LEMMA StartsRight ==
  ASSUME RunnerInv, Next, NEW t \in Tasks, Executing(t)
  PROVE  Starts(t)
<1>1. t \in Everyone /\ DOMAIN pass = Everyone
  BY DEF Everyone, RunnerInv, TypeOK
<1>2. Commit(t)
  <2>1. pass' # pass
    BY DEF Executing
  <2>2. PICK u \in Everyone : Elsewhere(u) \/ Commit(u)
    BY <2>1, OnlyCommitCalls
  <2>3. \E f : pass' = [pass EXCEPT ![u] = f]
    BY <2>2 DEF Elsewhere, Commit
  <2>4. u = t
    BY <1>1, <2>3 DEF Executing
  <2>5. ~Elsewhere(t)
    BY <1>1 DEF Elsewhere, Executing
  <2> QED
    BY <2>2, <2>4, <2>5
<1>3. PICK r, s : Changed(t, r, s)
  BY <1>1, <1>2, StoreChanges DEF Commit
<1>4. /\ pass[t].workflow \in Workflows /\ records'[pass[t].workflow] = s
      /\ r = records[pass[t].workflow] /\ Sound(r, Budgets) /\ Sound(s, Budgets)
      /\ Stored(pass[t].workflow)
  BY <1>2, <1>3 DEF Changed, Commit, Accepted
<1>5. PICK f : f = After(t, s)
  OBVIOUS
<1>6. pass' = [pass EXCEPT ![t] = f] /\ UNCHANGED owners /\ At(t, "commit") /\ Owned(t)
  BY <1>2, <1>4, <1>5 DEF Commit, After, Accepted
<1>7. pass'[t] = f /\ f.pc = "execute"
  BY <1>1, <1>6 DEF Executing
<1>8. NextPc(s, pass[t].effective) = "execute"
  <2>0. pass[t] \in Frames
    BY <1>1, FramesTyped DEF RunnerInv
  <2>1. pass[t].effective \in Changes
    BY <2>0 DEF Frames
  <2>2. NextPc(s, pass[t].effective) \in {"execute", "poll", "release", "idle"}
    BY <2>1 DEF NextPc, Changes
  <2>3. \A a, b, c, d : [Frame(t, d) EXCEPT !.checkpoint = a, !.context = b,
                                            !.attempt = c].pc = d /\ Frame(t, d).pc = d
    BY FrameFields
  <2> QED
    BY <1>5, <1>7, <2>2, <2>3, FrameFields DEF After
<1>9. /\ s.checkpoint = r.checkpoint /\ Unfinished(s) /\ s.status = RUNNING
      /\ Tried(s) = Tried(r) + 1 /\ Here(s) = s.checkpoint + 1
      /\ InStep(s) /\ s.steps[Here(s)].attempts = Tried(s)
      /\ ~s.cancellationRequested
  BY <1>3, <1>8, BeginHands
<1>10. f.checkpoint = s.checkpoint /\ f.attempt = s.steps[Here(s)].attempts
  BY <1>5, <1>8, FrameFields DEF After
<1>11. s.steps[Here(s)].status = "running"
  BY <1>9 DEF InStep
<1>12. s.checkpoint \in Nat /\ Tried(s) \in Nat /\ Tried(r) \in Nat
  BY <1>4, SoundFields
<1>13. <<pass[t].workflow, s.checkpoint + 1, Tried(s)>> \notin handed
  BY <1>4, <1>9, <1>12 DEF RunnerInv, HandedArePast
<1> QED
  BY <1>4, <1>7, <1>9, <1>10, <1>11, <1>13 DEF Starts

\* No attempt of a business step is ever handed to two calls, and none starts elsewhere
\* than at the checkpoint, uncounted, or against a cancellation that the store knows.
THEOREM StepsStartOnce == Spec => StepStartsOnce
<1>1. RunnerInv /\ [Next]_vars => [\A t \in Tasks : Executing(t) => Starts(t)]_vars
  BY StartsRight
<1> QED
  BY <1>1, RunnerInductive, PTL DEF Spec, StepStartsOnce, Starts

-----------------------------------------------------------------------------
(* The runner and its store keep the contract of their ports.               *)

\* The public fields of a sound instance.
LEMMA ViewFields ==
  ASSUME NEW r, Sound(r, Budgets)
  PROVE  /\ \E e : /\ InStep(r) => e = TRUE
                   /\ ~InStep(r) => e = FALSE
                   /\ View(r) = [status |-> r.status, budget |-> r.budget,
                                 confirmed |-> r.context, tried |-> Tried(r),
                                 inStep |-> e, requested |-> r.cancellationRequested]
         /\ Contract!Unconfirmed(View(r)) <=> Unfinished(r)
         /\ Contract!CanTry(View(r)) <=> (Unfinished(r) => HasAttempts(r))
         /\ Len(r.context) + 1 = Here(r)
<1>1. /\ Len(r.steps) = Len(r.budget) /\ Len(r.context) = r.checkpoint
      /\ r.checkpoint \in Nat
  BY SoundFields DEF Sound, ValidInstance, ValidSteps, ContextBuilt
<1>2. PICK e : e = (Unfinished(r) /\ r.steps[Here(r)].status = "running")
  OBVIOUS
<1>3. (InStep(r) => e = TRUE) /\ (~InStep(r) => e = FALSE)
  <2>1. InStep(r) <=> (Unfinished(r) /\ r.steps[Here(r)].status = "running")
    BY DEF InStep
  <2> QED
    BY <1>2, <2>1, Zenon
<1>4. View(r) = [status |-> r.status, budget |-> r.budget, confirmed |-> r.context,
                 tried |-> Tried(r), inStep |-> e,
                 requested |-> r.cancellationRequested]
  BY <1>2, Zenon DEF View, Tried
<1>5. Contract!Unconfirmed(View(r)) <=> Unfinished(r)
  BY <1>1, <1>4 DEF Contract!Unconfirmed, Unfinished
<1>6. Contract!CanTry(View(r)) <=> (Unfinished(r) => HasAttempts(r))
  BY <1>1, <1>4, <1>5 DEF Contract!CanTry, HasAttempts, Tried, Here
<1> QED
  BY <1>1, <1>3, <1>4, <1>5, <1>6 DEF Here

\* A change of one record is a change of one flow.
LEMMA FlowMoves ==
  ASSUME RunnerInv, NEW w \in Workflows, NEW f,
         \A v \in Workflows \ {w} : records'[v] = records[v] /\ (v \in issued' <=> v \in issued),
         PublicFlow'[w] = f
  PROVE  PublicFlow' = [PublicFlow EXCEPT ![w] = f]
BY DEF PublicFlow, Stored

\* A stored change is a step of the contract, or one that it does not see.
LEMMA ChangeSeen ==
  ASSUME RunnerInv, NEW t \in Everyone, NEW r, NEW s, Changed(t, r, s), issued' = issued,
         \/ handed' = handed
         \/ /\ NextPc(s, pass[t].effective) = "execute"
            /\ handed' = handed \union
                 {<<pass[t].workflow, Here(s), s.steps[Here(s)].attempts>>}
  PROVE  Contract!Next \/ UNCHANGED Contract!vars
<1>c. PICK c : c = pass[t].effective
  OBVIOUS
<1>v. PICK v : v = View(r)
  OBVIOUS
<1>0. PICK w \in Workflows : w = pass[t].workflow
  BY DEF Changed
<1>1. /\ r = records[w] /\ records'[w] = s /\ Sound(r, Budgets) /\ Sound(s, Budgets)
      /\ Effect(r, c, s) /\ Permits(r, c)
      /\ \A u \in Workflows \ {w} : records'[u] = records[u]
      /\ c.type \in {"run", "resume", "begin", "commit", "complete", "fail", "cancel",
                     "acknowledge"}
  BY <1>0, <1>c DEF Changed, Fits, Changes
<1>2. PublicFlow[w] = v /\ PublicFlow'[w] = View(s)
  BY <1>1, <1>v, SoundFields DEF PublicFlow, Stored
<1>3. PublicFlow' = [PublicFlow EXCEPT ![w] = View(s)]
  BY <1>1, <1>2, FlowMoves
<1>d. PICK d : /\ InStep(s) => d = TRUE
               /\ ~InStep(s) => d = FALSE
               /\ View(s) = [status |-> s.status, budget |-> s.budget,
                             confirmed |-> s.context, tried |-> Tried(s),
                             inStep |-> d, requested |-> s.cancellationRequested]
  BY <1>1, ViewFields
<1>e. PICK e : /\ InStep(r) => e = TRUE
               /\ ~InStep(r) => e = FALSE
               /\ v = [status |-> r.status, budget |-> r.budget,
                       confirmed |-> r.context, tried |-> Tried(r),
                       inStep |-> e, requested |-> r.cancellationRequested]
  BY <1>1, <1>v, ViewFields
<1>4. (InStep(r) => e = TRUE) /\ (~InStep(r) => e = FALSE)
      /\ (InStep(s) => d = TRUE) /\ (~InStep(s) => d = FALSE)
  BY <1>d, <1>e
<1>5. /\ v = [status |-> r.status, budget |-> r.budget, confirmed |-> r.context,
              tried |-> Tried(r), inStep |-> e, requested |-> r.cancellationRequested]
      /\ View(s) = [status |-> s.status, budget |-> s.budget, confirmed |-> s.context,
                    tried |-> Tried(s), inStep |-> d,
                    requested |-> s.cancellationRequested]
      /\ s.budget = r.budget
  BY <1>1, <1>d, <1>e DEF Effect
<1>6. /\ Contract!Unconfirmed(v) <=> Unfinished(r)
      /\ Contract!CanTry(v) <=> (Unfinished(r) => HasAttempts(r))
      /\ Len(r.context) + 1 = Here(r)
  BY <1>1, <1>v, ViewFields
<1>7. c.type # "begin" => handed' = handed
  BY <1>1, <1>c DEF NextPc
<1>8. s.steps = r.steps /\ s.checkpoint = r.checkpoint => Tried(s) = Tried(r) /\ d = e
  BY <1>4 DEF Tried, InStep, Unfinished, Here
<1>9. CASE c.type \in {"run", "resume"} /\ r.status = PENDING
  <2>1. /\ s.status = RUNNING /\ s.context = r.context /\ Tried(s) = Tried(r)
        /\ ~InStep(s) /\ ~InStep(r)
        /\ s.cancellationRequested = r.cancellationRequested
    BY <1>1, <1>9 DEF Effect, SameFlow
  <2>2. d = e
    BY <1>4, <2>1
  <2>3. PICK u : u = [v EXCEPT !.status = "running"]
    OBVIOUS
  <2>4. View(s) = u
    BY <1>5, <2>1, <2>2, <2>3
  <2>5. v.status = "pending" /\ handed' = handed
    BY <1>5, <1>7, <1>9
  <2> QED
    BY <1>2, <1>3, <2>3, <2>4, <2>5
    DEF Contract!Next, Contract!Run, Contract!Is, Contract!Becomes
<1>10. CASE c.type \in {"run", "resume"} /\ r.status # PENDING
  <2>1. /\ s.status = RUNNING /\ s.context = r.context /\ Tried(s) = Tried(r)
        /\ ~InStep(s) /\ r.status \in {FAILED, RUNNING}
        /\ s.cancellationRequested = r.cancellationRequested
        /\ Unfinished(r) => r.cancellationRequested \/ HasAttempts(r)
    BY <1>1, <1>10 DEF Effect, SameFlow
  <2>2. d = FALSE
    BY <1>4, <2>1
  <2>3. PICK u : u = [v EXCEPT !.status = "running", !.inStep = FALSE]
    OBVIOUS
  <2>4. View(s) = u
    <3>1. u = [status |-> "running", budget |-> r.budget, confirmed |-> r.context,
              tried |-> Tried(r), inStep |-> FALSE,
              requested |-> r.cancellationRequested]
      BY <1>5, <2>3
    <3> QED
      BY <1>5, <2>1, <2>2, <3>1
  <2>5. v.status \in {"failed", "running"} /\ handed' = handed
    BY <1>5, <1>7, <1>10, <2>1
  <2>6. v.requested \/ Contract!CanTry(v)
    <3>1. v.requested = r.cancellationRequested
      BY <1>5
    <3> QED
      BY <1>6, <2>1, <3>1
  <2> QED
    BY <1>2, <1>3, <2>3, <2>4, <2>5, <2>6
    DEF Contract!Next, Contract!Resume, Contract!Is, Contract!Becomes
<1>11. CASE c.type = "begin"
  <2>1. /\ s.status = RUNNING /\ s.context = r.context /\ Tried(s) = Tried(r) + 1
        /\ InStep(s) /\ s.checkpoint = r.checkpoint
        /\ s.cancellationRequested = r.cancellationRequested
        /\ ~InStep(r) /\ r.status = RUNNING /\ Unfinished(r) /\ HasAttempts(r)
        /\ ~r.cancellationRequested
    BY <1>1, <1>11 DEF Effect, SameFlow
  <2>2. d = TRUE /\ e = FALSE
    BY <1>4, <2>1
  <2>3. PICK u : u = [v EXCEPT !.inStep = TRUE, !.tried = v.tried + 1]
    OBVIOUS
  <2>4. View(s) = u
    <3>1. /\ s.status = RUNNING /\ r.status = RUNNING /\ s.context = r.context
          /\ Tried(s) = Tried(r) + 1
          /\ s.cancellationRequested = r.cancellationRequested
      BY <2>1
    <3>2. u = [status |-> "running", budget |-> r.budget, confirmed |-> r.context,
              tried |-> Tried(r) + 1, inStep |-> TRUE,
              requested |-> r.cancellationRequested]
      BY <1>5, <2>3, <3>1
    <3> QED
      BY <1>5, <2>2, <3>1, <3>2
  <2>5. /\ v.status = "running" /\ v.tried = Tried(r) /\ v.confirmed = r.context
        /\ v.inStep = FALSE /\ v.requested = r.cancellationRequested
    BY <1>5, <2>1, <2>2
  <2>6. /\ Contract!Unconfirmed(v) /\ Contract!CanTry(v) /\ ~v.inStep /\ ~v.requested
    BY <1>6, <2>1, <2>5
  <2>7. Here(s) = Here(r) /\ s.steps[Here(s)].attempts = Tried(s)
    BY <1>1, <2>1, SoundFields DEF Here
  <2>8. handed' \in {handed, handed \union {<<w, Len(v.confirmed) + 1, v.tried + 1>>}}
    BY <1>0, <1>c, <1>6, <2>1, <2>5, <2>7
  <2> QED
    BY <1>2, <1>3, <2>3, <2>4, <2>5, <2>6, <2>8
    DEF Contract!Next, Contract!Begin, Contract!Is, Contract!Becomes
<1>12. CASE c.type = "commit"
  <2>1. /\ s.status = RUNNING /\ s.context = Append(r.context, Tried(r)) /\ Tried(s) = 0
        /\ ~InStep(s) /\ InStep(r) /\ r.status = RUNNING
        /\ s.cancellationRequested = r.cancellationRequested
    BY <1>1, <1>12 DEF Effect
  <2>2. d = FALSE /\ e = TRUE
    BY <1>4, <2>1
  <2>3. PICK u : u = [v EXCEPT !.confirmed = Append(v.confirmed, v.tried),
                               !.inStep = FALSE, !.tried = 0]
    OBVIOUS
  <2>4. View(s) = u
    <3>1. /\ s.status = RUNNING /\ r.status = RUNNING /\ Tried(s) = 0
          /\ s.context = Append(r.context, Tried(r))
          /\ s.cancellationRequested = r.cancellationRequested
      BY <2>1
    <3>2. s.context = Append(v.confirmed, v.tried)
      BY <1>5, <3>1
    <3>3. u = [status |-> "running", budget |-> r.budget, confirmed |-> s.context,
              tried |-> 0, inStep |-> FALSE,
              requested |-> r.cancellationRequested]
      BY <1>5, <2>3, <3>1, <3>2
    <3> QED
      BY <1>5, <2>2, <3>1, <3>3
  <2>5. v.status = "running" /\ v.inStep = TRUE /\ handed' = handed
    BY <1>5, <1>7, <1>12, <2>1, <2>2
  <2> QED
    BY <1>2, <1>3, <2>3, <2>4, <2>5
    DEF Contract!Next, Contract!Confirm, Contract!Is, Contract!Becomes
<1>13. CASE c.type = "fail"
  <2>1. /\ s.status = FAILED /\ s.context = r.context /\ Tried(s) = Tried(r)
        /\ ~InStep(s) /\ r.status = RUNNING
        /\ s.cancellationRequested = r.cancellationRequested
    BY <1>1, <1>13 DEF Effect, SameFlow
  <2>2. d = FALSE
    BY <1>4, <2>1
  <2>3. PICK u : u = [v EXCEPT !.status = "failed", !.inStep = FALSE]
    OBVIOUS
  <2>4. View(s) = u
    <3>1. u = [status |-> "failed", budget |-> r.budget, confirmed |-> r.context,
              tried |-> Tried(r), inStep |-> FALSE,
              requested |-> r.cancellationRequested]
      BY <1>5, <2>3
    <3> QED
      BY <1>5, <2>1, <2>2, <3>1
  <2>5. v.status = "running" /\ handed' = handed
    BY <1>5, <1>7, <1>13, <2>1
  <2> QED
    BY <1>2, <1>3, <2>3, <2>4, <2>5
    DEF Contract!Next, Contract!Fail, Contract!Is, Contract!Becomes
<1>14. CASE c.type = "acknowledge" \/ (c.type = "complete" /\ r.cancellationRequested)
  <2>1. /\ s.status = CANCELLED /\ s.context = r.context /\ s.steps = r.steps
        /\ s.checkpoint = r.checkpoint /\ r.cancellationRequested
        /\ s.cancellationRequested = r.cancellationRequested /\ r.status = RUNNING
    BY <1>1, <1>14 DEF Effect, SameFlow
  <2>2. Tried(s) = Tried(r) /\ d = e
    BY <1>8, <2>1
  <2>3. PICK u : u = [v EXCEPT !.status = "cancelled"]
    OBVIOUS
  <2>4. View(s) = u
    <3>1. /\ s.status = CANCELLED /\ s.context = r.context
          /\ s.cancellationRequested = r.cancellationRequested
      BY <2>1
    <3> QED
      BY <1>5, <2>2, <2>3, <3>1
  <2>5. v.status = "running" /\ v.requested = r.cancellationRequested /\ handed' = handed
    BY <1>5, <1>7, <1>14, <2>1
  <2>6. v.requested
    BY <2>1, <2>5
  <2> QED
    BY <1>2, <1>3, <2>3, <2>4, <2>5, <2>6
    DEF Contract!Next, Contract!Acknowledge, Contract!Is, Contract!Becomes
<1>15. CASE c.type = "complete" /\ ~r.cancellationRequested
  <2>1. /\ s.status = COMPLETED /\ s.context = r.context /\ s.steps = r.steps
        /\ s.checkpoint = r.checkpoint /\ ~Unfinished(r)
        /\ s.cancellationRequested = r.cancellationRequested /\ r.status = RUNNING
    BY <1>1, <1>15 DEF Effect, SameFlow
  <2>2. Tried(s) = Tried(r) /\ d = e
    BY <1>8, <2>1
  <2>3. PICK u : u = [v EXCEPT !.status = "completed"]
    OBVIOUS
  <2>4. View(s) = u
    <3>1. /\ s.status = COMPLETED /\ s.context = r.context
          /\ s.cancellationRequested = r.cancellationRequested
      BY <2>1
    <3> QED
      BY <1>5, <2>2, <2>3, <3>1
  <2>5. v.status = "running" /\ v.requested = r.cancellationRequested /\ handed' = handed
    BY <1>5, <1>7, <1>15, <2>1
  <2>6. ~v.requested /\ ~Contract!Unconfirmed(v)
    BY <1>6, <1>15, <2>1, <2>5
  <2> QED
    BY <1>2, <1>3, <2>3, <2>4, <2>5, <2>6
    DEF Contract!Next, Contract!Complete, Contract!Is, Contract!Becomes
<1>16. CASE c.type = "cancel" /\ s = r
  <2>1. PublicFlow \in [Workflows -> {PublicFlow[x] : x \in Workflows}]
    BY DEF PublicFlow
  <2>2. PublicFlow' = PublicFlow
    BY <1>2, <1>3, <1>v, <1>16, <2>1
  <2> QED
    BY <1>7, <1>16, <2>2 DEF Contract!vars
<1>17. CASE c.type = "cancel" /\ s # r
  <2>1. /\ s.context = r.context /\ s.steps = r.steps /\ s.checkpoint = r.checkpoint
        /\ s.cancellationRequested = TRUE /\ r.status \in {PENDING, RUNNING}
        /\ s.status = IF r.status = PENDING THEN CANCELLED ELSE r.status
    BY <1>1, <1>17 DEF Effect, SameFlow
  <2>2. Tried(s) = Tried(r) /\ d = e
    BY <1>8, <2>1
  <2>3. PICK u : u = [v EXCEPT !.requested = TRUE,
                               !.status = IF v.status = "pending" THEN "cancelled"
                                          ELSE v.status]
    OBVIOUS
  <2>4. View(s) = u
    <3>1. /\ s.context = r.context /\ s.cancellationRequested = TRUE
          /\ s.status = IF v.status = "pending" THEN "cancelled" ELSE v.status
      BY <1>5, <2>1
    <3>2. u = [status |-> s.status, budget |-> r.budget, confirmed |-> r.context,
              tried |-> Tried(r), inStep |-> e,
              requested |-> TRUE]
      BY <1>5, <2>3, <3>1
    <3> QED
      BY <1>5, <2>2, <3>1, <3>2
  <2>5. v.status \in {"pending", "running"} /\ handed' = handed
    BY <1>5, <1>7, <1>17, <2>1
  <2> QED
    BY <1>2, <1>3, <2>3, <2>4, <2>5
    DEF Contract!Next, Contract!Cancel, Contract!Is, Contract!Becomes
<1> QED
  BY <1>1, <1>9, <1>10, <1>11, <1>12, <1>13, <1>14, <1>15, <1>16, <1>17

\* So is a change whose answer comes back or is lost.
LEMMA StoreSeen ==
  ASSUME RunnerInv, NEW t \in Everyone,
         Commit(t) \/ (ReplyLost(t) /\ ~At(t, "claim"))
  PROVE  Contract!Next \/ UNCHANGED Contract!vars
<1>1. /\ At(t, "commit") /\ Accepted(t) /\ Store(t) /\ issued' = issued
  BY DEF Commit, ReplyLost
<1>2. PICK r, s : Changed(t, r, s)
  BY <1>1, StoreChanges
<1>3. records'[pass[t].workflow] = s
  BY <1>2 DEF Changed
<1>4. CASE Commit(t)
  <2>2. \/ handed' = handed
        \/ /\ NextPc(s, pass[t].effective) = "execute"
           /\ handed' = handed \union
                {<<pass[t].workflow, Here(s), s.steps[Here(s)].attempts>>}
    BY <1>3, <1>4 DEF Commit
  <2> QED
    BY <1>1, <1>2, <2>2, ChangeSeen
<1>5. CASE ReplyLost(t) /\ ~At(t, "claim")
  <2>1. handed' = handed
    BY <1>5 DEF ReplyLost
  <2> QED
    BY <1>1, <1>2, <2>1, ChangeSeen
<1> QED
  BY <1>4, <1>5

\* A creation is the creation of the contract.
LEMMA CreateSeen ==
  ASSUME RunnerInv, NEW w \in Workflows, NEW b \in Budgets, NEW k \in Keys \union {NoKey},
         Create(w, b, k)
  PROVE  Contract!Next
<1>1. Sound(NewInstance(b), Budgets)
  BY Defined, NewInstanceSound
<1>2. w \notin issued /\ ~Stored(w)
  BY DEF Create, RunnerInv, StoreOK
<1>3. /\ records'[w] = NewInstance(b) /\ handed' = handed
      /\ \A v \in Workflows \ {w} : records'[v] = records[v] /\ (v \in issued' <=> v \in issued)
  BY DEF Create, RunnerInv, TypeOK
<1>4. PublicFlow[w] = [status |-> "absent"] /\ PublicFlow'[w] = View(NewInstance(b))
  BY <1>1, <1>2, <1>3, SoundFields DEF PublicFlow, Stored
<1>5. PublicFlow' = [PublicFlow EXCEPT ![w] = View(NewInstance(b))]
  BY <1>3, <1>4, FlowMoves
<1>6. View(NewInstance(b)) = Contract!NewFlow(b)
  <2>1. DOMAIN b = 1..Len(b) /\ Len(b) \in Nat \ {0}
    BY EmptySeq, BudgetsAssumption
  <2>2. /\ Tried(NewInstance(b)) = 0 /\ ~InStep(NewInstance(b))
    BY <2>1 DEF NewInstance, Tried, InStep, Unfinished, Here
  <2>3. PICK r : r = NewInstance(b)
    OBVIOUS
  <2>4. PICK e : /\ ~InStep(r) => e = FALSE
                 /\ View(r) = [status |-> r.status, budget |-> r.budget,
                               confirmed |-> r.context, tried |-> Tried(r),
                               inStep |-> e, requested |-> r.cancellationRequested]
    BY <1>1, <2>3, ViewFields
  <2>5. e = FALSE
    BY <2>2, <2>3, <2>4
  <2>6. /\ View(r) = [status |-> r.status, budget |-> r.budget,
                      confirmed |-> r.context, tried |-> Tried(r),
                      inStep |-> e, requested |-> r.cancellationRequested]
        /\ Tried(r) = 0
    BY <2>2, <2>3, <2>4
  <2> QED
    BY <2>3, <2>5, <2>6 DEF NewInstance, Contract!NewFlow
<1>7. PublicFlow' = [PublicFlow EXCEPT ![w] = Contract!NewFlow(b)]
  BY <1>5, <1>6
<1>8. PublicFlow[w].status = "absent"
  BY <1>4
<1>9. Contract!Create(w)
  BY <1>3, <1>7, <1>8 DEF Contract!Create, Contract!Is, Contract!Becomes
<1> QED
  BY <1>9 DEF Contract!Next

\* A deletion is the deletion of the contract.
LEMMA DeleteSeen ==
  ASSUME RunnerInv, NEW w \in Workflows, Delete(w)
  PROVE  Contract!Next
<1>1. Stored(w) /\ records[w].status \in {"completed", "failed", "cancelled"} /\ w \in issued
  BY DEF Delete, Stored, RunnerInv, StoreOK
<1>2. /\ records'[w] = NoRecord /\ handed' = handed /\ issued' = issued
      /\ \A v \in Workflows \ {w} : records'[v] = records[v]
  BY DEF Delete, RunnerInv, TypeOK
<1>3. PublicFlow[w] = View(records[w]) /\ PublicFlow'[w] = Contract!NoFlow("deleted")
  BY <1>1, <1>2 DEF PublicFlow, Stored, NoRecord, Contract!NoFlow
<1>4. PublicFlow' = [PublicFlow EXCEPT ![w] = Contract!NoFlow("deleted")]
  BY <1>2, <1>3, FlowMoves
<1>5. View(records[w]).status = records[w].status
  BY DEF View
<1> QED
  BY <1>1, <1>2, <1>3, <1>4, <1>5
  DEF Contract!Next, Contract!Delete, Contract!Is, Contract!Becomes

\* The other steps are invisible.
LEMMA OthersUnseen ==
  ASSUME RunnerInv, UNCHANGED <<records, issued, handed>>
  PROVE  UNCHANGED Contract!vars
BY DEF PublicFlow, Stored, Contract!vars

\* Every step maps to a step of the contract or to a stutter.
LEMMA StepSeen ==
  ASSUME RunnerInv, [Next]_vars
  PROVE  [Contract!Next]_(Contract!vars)
<1>1. ASSUME NEW w \in Workflows, NEW b \in Budgets, NEW k \in Keys \union {NoKey},
             Create(w, b, k)
      PROVE  Contract!Next
  BY <1>1, CreateSeen
<1>2. ASSUME NEW w \in Workflows, Delete(w)
      PROVE  Contract!Next
  BY <1>2, DeleteSeen
<1>3. ASSUME NEW t \in Everyone, NEW w \in issued, RunOrResume(t, w) \/ CallCancel(t, w)
      PROVE  UNCHANGED Contract!vars
  BY <1>3, EnterTurns, OthersUnseen DEF Turning, Turns
<1>4. ASSUME NEW t \in Everyone,
             Find(t) \/ Read(t) \/ Conflict(t) \/ Refused(t) \/ Poll(t) \/ AskToken(t)
             \/ Rescue(t) \/ StepEnds(t)
      PROVE  UNCHANGED Contract!vars
  <2>1. Turning(t)
    BY <1>4, FindTurns, ReadTurns, ConflictTurns, RefusedTurns, PollTurns, AskTokenTurns,
       RescueTurns, StepEndsTurns
  <2> QED
    BY <2>1, OthersUnseen DEF Turning, Turns
<1>5. ASSUME NEW t \in Everyone, Claim(t) \/ Release(t) \/ CallLost(t) \/
                                 (ReplyLost(t) /\ At(t, "claim"))
      PROVE  UNCHANGED Contract!vars
  <2>1. UNCHANGED <<records, issued, handed>>
    BY <1>5 DEF Claim, Leave, Goto, Moves, Release, CallLost, ReplyLost, At
  <2> QED
    BY <2>1, OthersUnseen
<1>6. ASSUME NEW t \in Everyone, Commit(t) \/ (ReplyLost(t) /\ ~At(t, "claim"))
      PROVE  Contract!Next \/ UNCHANGED Contract!vars
  BY <1>6, StoreSeen
<1>7. CASE UNCHANGED vars
  BY <1>7, OthersUnseen DEF vars
<1> QED
  BY <1>1, <1>2, <1>3, <1>4, <1>5, <1>6, <1>7 DEF Next, StoreStep, Everyone

\* WorkflowRunner implements WorkflowContract: seen through the public fields of the
\* records, every step is one that the ports promise, or nothing.
THEOREM RunnerImplementsContract == Spec => KeepsContract
<1>1. Init => Contract!Init
  BY DEF Init, PublicFlow, Stored, NoRecord, Contract!Init, Contract!NoFlow
<1>2. RunnerInv /\ [Next]_vars => [Contract!Next]_(Contract!vars)
  BY StepSeen
<1> QED
  BY <1>1, <1>2, RunnerInductive, PTL DEF Spec, KeepsContract, Contract!Spec

-----------------------------------------------------------------------------
(* As long as no store call is lost, every running workflow has a driver.   *)

\* What a pass asks for is due: a pass that starts found a workflow that does not run, and
\* from then on the workflow runs until the pass has told the store how it ended.
Due(c, r) ==
  /\ c.type \in {"run", "resume"} <=> r.status # RUNNING
  /\ c.type = "begin" =>
       Unfinished(r) /\ ~InStep(r) /\ (r.cancellationRequested \/ HasAttempts(r))
  /\ c.type = "complete" => ~Unfinished(r)
  /\ c.type = "acknowledge" => r.cancellationRequested

Starting(f) == f.change.type \in {"run", "resume"}

\* A conflict is the work of a cancellation, and there is only one.
Ready(f) ==
  LET r == records[f.workflow] IN
    /\ f.pc = "release" => r.status # RUNNING
    /\ f.pc \in {"poll", "token", "execute", "rescue"} => r.status = RUNNING
    /\ f.pc = "poll" =>
         ~InStep(r) /\ (Unfinished(r) => r.cancellationRequested \/ HasAttempts(r))
    /\ f.pc \in {"read", "commit"} =>
         /\ Due(f.change, r)
         /\ ~Starting(f) /\ f.tries # 0 => r.cancellationRequested
    /\ f.pc = "commit" /\ ~Starting(f) =>
         /\ f.seen # r.version => r.cancellationRequested /\ f.tries = 0
         /\ f.effective.type = "begin" /\ f.seen = r.version => ~r.cancellationRequested
         /\ f.effective.type = "acknowledge" => r.cancellationRequested

Attended ==
  /\ \A w \in Workflows : records[w].status = RUNNING => owners[w] # Nobody
  /\ \A t \in Tasks : Ready(pass[t])

QuietInv == faults = 0 => Attended

\* The frames that say nothing of the record.
LEMMA AwayReady ==
  ASSUME NEW f, f.pc \in {"idle", "find", "claim"}
  PROVE  Ready(f)
BY DEF Ready

\* t moves to a frame that is ready, or is a client.
Quietly(t) ==
  \E f \in Frames : /\ t \in Tasks => Ready(f)
                    /\ pass' = [pass EXCEPT ![t] = f]
                    /\ UNCHANGED <<records, owners>>

\* A pass that moves to a ready frame leaves the store attended.
LEMMA QuietlyKeeps ==
  ASSUME RunnerInv, Attended, NEW t \in Everyone, Quietly(t)
  PROVE  Attended'
<1>1. PICK f \in Frames : /\ t \in Tasks => Ready(f)
                          /\ pass' = [pass EXCEPT ![t] = f]
                          /\ UNCHANGED <<records, owners>>
  BY DEF Quietly
<1>2. pass'[t] = f /\ \A u \in Everyone \ {t} : pass'[u] = pass[u]
  BY <1>1, PassReplaced DEF RunnerInv
<1>3. t \in Tasks => Ready(f)'
  BY <1>1 DEF Ready
<1>4. ASSUME NEW u \in Tasks
      PROVE  Ready(pass[u])'
  <2>1. CASE u = t
    BY <1>2, <1>3, <2>1
  <2>2. CASE u # t
    BY <1>1, <1>2, <2>2 DEF Attended, Ready, Everyone
  <2> QED
    BY <2>1, <2>2
<1> QED
  BY <1>1, <1>4 DEF Attended

\* A client that only moves.
LEMMA ClientQuietly ==
  ASSUME NEW t \in Everyone, t \notin Tasks, Turning(t)
  PROVE  Quietly(t)
BY DEF Turning, Turns, Quietly

\* A pass asks for what is due.
LEMMA AskQuietly ==
  ASSUME RunnerInv, NEW t \in Tasks, NEW c \in Changes, Ask(t, c),
         Due(c, records[pass[t].workflow])
  PROVE  Quietly(t)
<1>1. PICK f : f = [Frame(t, "read") EXCEPT !.change = c]
  OBVIOUS
<1>2. f.pc = "read" /\ f.workflow = pass[t].workflow /\ f.change = c /\ f.tries = 0
  BY <1>1, FrameFields
<1>3. f \in Frames
  BY <1>1, FramesTyped DEF RunnerInv, Everyone
<1>4. Ready(f)
  BY <1>2 DEF Ready
<1> QED
  BY <1>1, <1>3, <1>4 DEF Quietly, Ask, Goto, Moves

\* A pass goes on with its workflow running, or leaves it stopped.
LEMMA StepQuietly ==
  ASSUME RunnerInv, NEW t \in Tasks, NEW pc \in {"token", "rescue", "release"}, Step(t, pc),
         (records[pass[t].workflow].status = RUNNING) <=> (pc # "release")
  PROVE  Quietly(t)
<1>1. Frame(t, pc).pc = pc /\ Frame(t, pc).workflow = pass[t].workflow
  BY FrameFields
<1>2. Frame(t, pc) \in Frames
  BY FramesTyped DEF RunnerInv, Everyone, Places
<1>3. Ready(Frame(t, pc))
  BY <1>1 DEF Ready
<1> QED
  BY <1>2, <1>3 DEF Quietly, Step, Goto, Moves

\* A pass that leaves is ready.
LEMMA IdleQuietly ==
  ASSUME RunnerInv, NEW t \in Everyone, Leave(t)
  PROVE  Quietly(t)
<1>1. Idle \in Frames /\ Idle.pc = "idle"
  BY IdleFits, FrameFields
<1>2. Ready(Idle)
  BY <1>1, AwayReady
<1>3. pass' = [pass EXCEPT ![t] = Idle] /\ UNCHANGED <<records, owners>>
  BY DEF Leave, Goto, Moves
<1> QED
  BY <1>1, <1>2, <1>3 DEF Quietly

\* Looking the workflow up.
LEMMA FindQuietly ==
  ASSUME RunnerInv, NEW t \in Everyone, Find(t)
  PROVE  Quietly(t)
<1>1. CASE Leave(t)
  BY <1>1, IdleQuietly
<1>2. CASE ~Leave(t)
  <2>1. PICK f : f = [pass[t] EXCEPT !.pc = "claim"]
    OBVIOUS
  <2>2. f \in Frames /\ pass[t] \in Frames
    BY <2>1, FramesTyped DEF RunnerInv, Places
  <2>3. f.pc = "claim"
    BY <2>1, <2>2 DEF Frames
  <2>4. Ready(f)
    BY <2>3, AwayReady
  <2>5. pass' = [pass EXCEPT ![t] = f] /\ UNCHANGED <<records, owners>>
    BY <1>2, <2>1 DEF Find, Goto, Moves
  <2> QED
    BY <2>2, <2>4, <2>5 DEF Quietly
<1> QED
  BY <1>1, <1>2

\* Coming in.
LEMMA EnterQuietly ==
  ASSUME RunnerInv, NEW t \in Everyone, NEW w \in issued,
         RunOrResume(t, w) \/ CallCancel(t, w)
  PROVE  Quietly(t)
<1>1. CASE t \notin Tasks
  BY <1>1, EnterTurns, ClientQuietly
<1>2. CASE t \in Tasks
  <2>1. PICK c : Enter(t, w, c)
    BY <1>2 DEF RunOrResume, CallCancel
  <2>2. PICK f : f = [Idle EXCEPT !.pc = IF t \in Tasks THEN "find" ELSE "read",
                                  !.workflow = w, !.change = c]
    OBVIOUS
  <2>3. f.pc = "find"
    BY <1>2, <2>2, FrameFields
  <2>4. pass' = [pass EXCEPT ![t] = f] /\ UNCHANGED <<records, owners>>
    BY <2>1, <2>2 DEF Enter, Goto, Moves
  <2>5. f \in Frames
    <3>1. t \in Everyone /\ (RunOrResume(t, w) \/ CallCancel(t, w))
      BY <1>2
    <3>2. PICK g : Turns(t, g)
      BY <3>1, EnterTurns DEF Turning
    <3>3. pass'[t] = g /\ g \in Frames
      BY <3>2, PassReplaced DEF RunnerInv, Turns
    <3>4. pass'[t] = f
      BY <2>4 DEF RunnerInv, TypeOK, Everyone
    <3> QED
      BY <3>3, <3>4
  <2>6. Ready(f)
    BY <2>3, AwayReady
  <2> QED
    BY <2>4, <2>5, <2>6 DEF Quietly
<1> QED
  BY <1>1, <1>2

\* An iteration of _change reads what it will be held against.
LEMMA ReadQuietly ==
  ASSUME RunnerInv, Attended, NEW t \in Tasks, Read(t)
  PROVE  Quietly(t)
<1>1. /\ t \in Everyone /\ pass[t] \in Frames /\ pass[t].pc = "read" /\ Ready(pass[t])
      /\ Stored(pass[t].workflow) /\ Sound(records[pass[t].workflow], Budgets)
  BY FramesTyped, TaskFrames DEF RunnerInv, Read, At, Holding, Attended, Everyone
<1>2. PICK r : r = records[pass[t].workflow]
  OBVIOUS
<1>3. PICK e : e = IF pass[t].change.type = "begin" /\ r.cancellationRequested
                   THEN Acknowledge ELSE pass[t].change
  OBVIOUS
<1>4. PICK f : f = [pass[t] EXCEPT !.pc = "commit", !.seen = r.version, !.effective = e]
  OBVIOUS
<1>5. /\ f.pc = "commit" /\ f.workflow = pass[t].workflow /\ f.change = pass[t].change
      /\ f.seen = r.version /\ f.effective = e /\ f.tries = pass[t].tries
  BY <1>1, <1>4 DEF Frames
<1>6. e \in Changes /\ r.version \in Nat
  <2>1. pass[t].change \in Changes
    BY <1>1 DEF Frames
  <2> QED
    BY <1>1, <1>2, <1>3, <2>1, ChangesTyped, SoundFields
<1>7. f \in Frames
  BY <1>1, <1>4, <1>6, FramesTyped DEF RunnerInv
<1>8. Ready(f)
  <2>1. /\ Due(pass[t].change, r)
        /\ ~Starting(pass[t]) /\ pass[t].tries # 0 => r.cancellationRequested
    BY <1>1, <1>2 DEF Ready
  <2>2. e.type = "begin" => ~r.cancellationRequested
    BY <1>3, ChangesTyped
  <2>3. e.type = "acknowledge" => r.cancellationRequested
    BY <1>3, <2>1 DEF Due
  <2>4. Starting(f) = Starting(pass[t])
    BY <1>5 DEF Starting
  <2> QED
    BY <1>2, <1>5, <2>1, <2>2, <2>3, <2>4 DEF Ready
<1>9. Goto(t, f)
  BY <1>1, <1>2, <1>3, <1>4 DEF Read
<1> QED
  BY <1>7, <1>8, <1>9 DEF Quietly, Goto, Moves

\* One retry is enough, since a cancellation is requested once.
LEMMA ConflictQuietly ==
  ASSUME RunnerInv, Attended, ChangeTries > 1, NEW t \in Tasks, Conflict(t)
  PROVE  Quietly(t)
<1>1. /\ t \in Everyone /\ pass[t] \in Frames /\ pass[t].pc = "commit" /\ Ready(pass[t])
      /\ pass[t].seen # records[pass[t].workflow].version
  BY FramesTyped DEF RunnerInv, Conflict, At, Current, Attended, Everyone
<1>2. CASE pass[t].tries + 1 = ChangeTries
  <2>1. pass[t].tries # 0
    BY <1>2, BoundsAssumption
  <2>2. Starting(pass[t])
    BY <1>1, <2>1 DEF Ready
  <2>3. records[pass[t].workflow].status # RUNNING
    BY <1>1, <2>2 DEF Ready, Due, Starting
  <2>4. Step(t, "release")
    BY <1>2 DEF Conflict, Unwind
  <2> QED
    BY <2>3, <2>4, StepQuietly
<1>3. CASE pass[t].tries + 1 # ChangeTries
  <2>1. PICK f : f = [Frame(t, "read") EXCEPT !.change = pass[t].change,
                                              !.tries = pass[t].tries + 1]
    OBVIOUS
  <2>2. /\ f.pc = "read" /\ f.workflow = pass[t].workflow /\ f.change = pass[t].change
    BY <2>1, FrameFields
  <2>3. pass[t].change \in Changes /\ pass[t].tries + 1 \in Nat
    BY <1>1 DEF Frames
  <2>4. f \in Frames
    BY <1>1, <2>1, <2>3, FramesTyped DEF RunnerInv
  <2>5. Ready(f)
    BY <1>1, <2>2 DEF Ready, Starting
  <2> QED
    BY <1>3, <2>1, <2>4, <2>5 DEF Conflict, Quietly, Goto, Moves
<1> QED
  BY <1>2, <1>3

\* Only a pass that starts is ever refused.
LEMMA RefusedQuietly ==
  ASSUME RunnerInv, Attended, NEW t \in Tasks, Refused(t)
  PROVE  Quietly(t)
<1>1. /\ t \in Everyone /\ pass[t] \in Frames /\ pass[t].pc = "commit" /\ Ready(pass[t])
      /\ FrameOK(t, pass[t])
  BY FramesTyped DEF RunnerInv, Refused, At, Attended, Everyone
<1>2. PICK r, c : r = records[pass[t].workflow] /\ c = pass[t].effective
  OBVIOUS
<1>3. /\ owners[pass[t].workflow] = t /\ Stored(pass[t].workflow) /\ Sound(r, Budgets)
  BY <1>1, <1>2, TaskFrames DEF Holding
<1>4. pass[t].seen = r.version /\ ~Permits(r, c) /\ Unwind(t)
  BY <1>2, <1>3 DEF Refused, Owned, Current
<1>5. Starting(pass[t])
  <2>1. SUFFICES ASSUME ~Starting(pass[t]) PROVE Permits(r, c)
    BY <1>4
  <2>2. /\ Due(pass[t].change, r) /\ r.status = RUNNING
        /\ c.type = "begin" => ~r.cancellationRequested
        /\ c.type = "acknowledge" => r.cancellationRequested
    BY <1>1, <1>2, <1>4, <2>1 DEF Ready, Due, Starting
  <2>3. c = pass[t].change \/ (c = Acknowledge /\ pass[t].change.type = "begin")
    BY <1>1, <1>2 DEF FrameOK
  <2>4. Asks(pass[t].change, r)
    BY <1>1, <1>2 DEF FrameOK
  <2>5. CASE c = Acknowledge /\ pass[t].change.type = "begin"
    BY <2>2, <2>5, ChangesTyped DEF Permits
  <2>6. CASE c = pass[t].change
    <3>1. c.type \in {"begin", "commit", "complete", "fail", "acknowledge"}
      <4>1. c \in Changes
        BY <1>1, <1>2 DEF Frames
      <4> QED
        BY <2>1, <2>4, <2>6, <4>1 DEF Changes, Asks, Starting
    <3>2. CASE c.type = "begin"
      <4>1. Unfinished(r) /\ ~InStep(r) /\ ~r.cancellationRequested /\ HasAttempts(r)
        BY <2>2, <2>6, <3>2 DEF Due
      <4>2. r.steps[Here(r)].status \in {"pending", "failed"}
        <5>1. r \in InstanceOf(Budgets) /\ ValidSteps(r)
          BY <1>3 DEF Sound, ValidInstance
        <5>2. /\ r.steps \in Seq(StepRecord) /\ DOMAIN r.steps = 1..Len(r.steps)
              /\ r.checkpoint \in Nat
          BY <5>1, Shape
        <5>3. Here(r) \in DOMAIN r.steps
          BY <4>1, <5>2 DEF Unfinished, Here
        <5>4. r.steps[Here(r)] \in StepRecord
          BY <5>2, <5>3
        <5> QED
          BY <4>1, <5>1, <5>3, <5>4 DEF ValidSteps, Here, InStep, StepRecord, StepStatus
      <4> QED
        BY <2>2, <3>2, <4>1, <4>2 DEF Permits
    <3>3. CASE c.type = "commit"
      BY <2>4, <2>6, <3>3 DEF Asks, InStep, Permits
    <3>4. CASE c.type \in {"complete", "fail", "acknowledge"}
      BY <2>2, <2>6, <3>4 DEF Due, Permits
    <3> QED
      BY <3>1, <3>2, <3>3, <3>4
  <2> QED
    BY <2>3, <2>5, <2>6
<1>6. records[pass[t].workflow].status # RUNNING
  BY <1>1, <1>5 DEF Ready, Due, Starting
<1> QED
  BY <1>4, <1>6, StepQuietly DEF Unwind

\* A pass that polls goes on to a change that the record it holds is due for.
LEMMA PollQuietly ==
  ASSUME RunnerInv, Attended, NEW t \in Tasks, Poll(t)
  PROVE  Quietly(t)
<1>1. /\ t \in Everyone /\ pass[t] \in Frames /\ pass[t].pc = "poll" /\ Ready(pass[t])
      /\ FrameOK(t, pass[t])
  BY FramesTyped DEF RunnerInv, Poll, At, Attended, Everyone
<1>2. PICK r : r = records[pass[t].workflow]
  OBVIOUS
<1>3. Stored(pass[t].workflow) /\ Sound(r, Budgets)
  BY <1>1, <1>2, TaskFrames DEF Holding
<1>4. /\ pass[t].checkpoint = r.checkpoint /\ pass[t].context \in Seq(Nat)
      /\ Len(r.budget) = Len(r.steps)
  BY <1>1, <1>2, <1>3 DEF FrameOK, Sound, ValidInstance, ValidSteps, Frames
<1>5. /\ r.status = RUNNING /\ ~InStep(r)
      /\ Unfinished(r) => r.cancellationRequested \/ HasAttempts(r)
  BY <1>1, <1>2 DEF Ready
<1>6. \/ r.cancellationRequested /\ Ask(t, Acknowledge)
      \/ Unfinished(r) /\ Ask(t, BeginStep)
      \/ ~Unfinished(r) /\ Ask(t, Complete(pass[t].context))
      \/ Ask(t, Fail("result_failed"))
  BY <1>2, <1>3, <1>4 DEF Poll, Unfinished
<1>7. CASE r.cancellationRequested /\ Ask(t, Acknowledge)
  <2>1. Due(Acknowledge, r)
    BY <1>5, <1>7, ChangesTyped DEF Due
  <2> QED
    BY <1>2, <1>7, <2>1, AskQuietly, ChangesTyped
<1>8. CASE Unfinished(r) /\ Ask(t, BeginStep)
  <2>1. Due(BeginStep, r)
    BY <1>5, <1>8, ChangesTyped DEF Due
  <2> QED
    BY <1>2, <1>8, <2>1, AskQuietly, ChangesTyped
<1>9. CASE ~Unfinished(r) /\ Ask(t, Complete(pass[t].context))
  <2>1. Complete(pass[t].context) \in Changes /\ Complete(pass[t].context).type = "complete"
    BY <1>4, ChangesTyped
  <2>2. Due(Complete(pass[t].context), r)
    BY <1>5, <1>9, <2>1 DEF Due
  <2> QED
    BY <1>2, <1>9, <2>1, <2>2, AskQuietly
<1>10. CASE Ask(t, Fail("result_failed"))
  <2>1. Fail("result_failed") \in Changes /\ Fail("result_failed").type = "fail"
    BY ChangesTyped DEF Errors
  <2>2. Due(Fail("result_failed"), r)
    BY <1>5, <2>1 DEF Due
  <2> QED
    BY <1>2, <1>10, <2>1, <2>2, AskQuietly
<1> QED
  BY <1>6, <1>7, <1>8, <1>9, <1>10

\* A step ends, or is interrupted, while its workflow runs.
LEMMA EndQuietly ==
  ASSUME RunnerInv, Attended, NEW t \in Tasks, StepEnds(t) \/ AskToken(t) \/ Rescue(t)
  PROVE  Quietly(t)
<1>1. /\ t \in Everyone /\ pass[t] \in Frames /\ Ready(pass[t])
      /\ pass[t].pc \in {"execute", "token", "rescue"}
  BY FramesTyped DEF RunnerInv, StepEnds, StepReturns, StepRaises, StepStops, OwnerCancelled,
     AskToken, Rescue, At, Attended, Everyone
<1>2. PICK r : r = records[pass[t].workflow]
  OBVIOUS
<1>3. Stored(pass[t].workflow) /\ r.status = RUNNING
  BY <1>1, <1>2, TaskFrames DEF Holding, Ready
<1>4. \/ \E c \in Changes : Ask(t, c) /\ c.type \in {"commit", "fail"}
      \/ Step(t, "token") \/ Step(t, "rescue")
      \/ Ask(t, Acknowledge) /\ r.cancellationRequested
  <2>1. Append(pass[t].context, pass[t].attempt) \in Seq(Nat)
    BY <1>1 DEF Frames
  <2>2. \A code \in {"step_failed", "execution_interrupted"} :
          Fail(code) \in Changes /\ Fail(code).type = "fail"
    BY ChangesTyped DEF Errors
  <2>3. CASE StepReturns(t)
    BY <2>1, <2>3, ChangesTyped DEF StepReturns
  <2>4. CASE StepRaises(t)
    BY <2>2, <2>4 DEF StepRaises
  <2>5. CASE StepStops(t) \/ OwnerCancelled(t)
    BY <2>5 DEF StepStops, OwnerCancelled
  <2>6. CASE AskToken(t)
    <3>1. CASE r.cancellationRequested
      BY <1>2, <1>3, <2>6, <3>1 DEF AskToken
    <3>2. CASE ~r.cancellationRequested
      <4>1. Ask(t, Fail("step_failed"))
        BY <1>2, <1>3, <2>6, <3>2 DEF AskToken
      <4> QED
        BY <2>2, <4>1
    <3> QED
      BY <3>1, <3>2
  <2>7. CASE Rescue(t)
    <3>1. Ask(t, Fail("execution_interrupted"))
      BY <1>2, <1>3, <2>7 DEF Rescue
    <3> QED
      BY <2>2, <3>1
  <2> QED
    BY <2>3, <2>4, <2>5, <2>6, <2>7 DEF StepEnds
<1>5. CASE \E c \in Changes : Ask(t, c) /\ c.type \in {"commit", "fail"}
  <2>1. PICK c \in Changes : Ask(t, c) /\ c.type \in {"commit", "fail"}
    BY <1>5
  <2>2. Due(c, r)
    BY <1>3, <2>1 DEF Due
  <2> QED
    BY <1>2, <2>1, <2>2, AskQuietly
<1>6. CASE Step(t, "token") \/ Step(t, "rescue")
  BY <1>2, <1>3, <1>6, StepQuietly
<1>7. CASE Ask(t, Acknowledge) /\ r.cancellationRequested
  <2>1. Due(Acknowledge, r)
    BY <1>3, <1>7, ChangesTyped DEF Due
  <2> QED
    BY <1>2, <1>7, <2>1, AskQuietly, ChangesTyped
<1> QED
  BY <1>4, <1>5, <1>6, <1>7

\* A claim is only given on a workflow that nobody drives, and that therefore rests.
LEMMA ClaimAttends ==
  ASSUME RunnerInv, Attended, NEW t \in Everyone, Claim(t)
  PROVE  Attended'
<1>1. t \in Tasks /\ pass[t].pc = "claim" /\ FrameOK(t, pass[t]) /\ pass[t] \in Frames
  BY PassesOnly, FramesTyped DEF Claim, At, RunnerInv
<1>2. CASE Leave(t)
  BY <1>2, IdleQuietly, QuietlyKeeps
<1>3. CASE ~Leave(t)
  <2>1. /\ Claims(t) /\ owners' = [owners EXCEPT ![pass[t].workflow] = t]
        /\ pass' = [pass EXCEPT ![t].pc = "read"] /\ records' = records
    BY <1>3 DEF Claim
  <2>2. /\ pass[t].workflow \in Workflows /\ t # Nobody
        /\ pass[t].change.type \in {"run", "resume"}
    BY <1>1, NamesAssumption DEF FrameOK
  <2>3. PICK f : f = [pass[t] EXCEPT !.pc = "read"]
    OBVIOUS
  <2>4. f.pc = "read" /\ f.workflow = pass[t].workflow /\ f.change = pass[t].change
    BY <1>1, <2>3 DEF Frames
  <2>5. f \in Frames
    BY <2>3, FramesTyped DEF RunnerInv, Places
  <2>6. pass' = [pass EXCEPT ![t] = f]
    BY <2>1, <2>3
  <2>7. pass'[t] = f /\ \A u \in Everyone \ {t} : pass'[u] = pass[u]
    BY <2>5, <2>6, PassReplaced DEF RunnerInv
  <2>8. records[pass[t].workflow].status # RUNNING
    BY <2>1, <2>2 DEF Claims, Attended
  <2>9. Ready(f)'
    BY <2>1, <2>2, <2>4, <2>8 DEF Ready, Due, Starting
  <2>10. ASSUME NEW u \in Tasks
         PROVE  Ready(pass[u])'
    <3>1. CASE u = t
      <4>1. pass'[u] = f
        BY <2>7, <3>1
      <4>2. f.pc = "read" /\ Due(f.change, records'[f.workflow])
        BY <2>1, <2>2, <2>4, <2>8 DEF Due, Starting
      <4> QED
        BY <2>9, <4>1, <4>2 DEF Ready
    <3>2. CASE u # t
      <4>1. pass'[u] = pass[u]
        BY <2>7, <3>2 DEF Everyone
      <4>2. Ready(pass[u])
        BY DEF Attended
      <4> QED
        BY <2>1, <4>1, <4>2 DEF Ready
    <3> QED
      BY <3>1, <3>2
  <2>11. \A w \in Workflows : records'[w].status = RUNNING => owners'[w] # Nobody
    BY <2>1, <2>2 DEF Attended, RunnerInv, TypeOK
  <2> QED
    BY <2>10, <2>11 DEF Attended
<1> QED
  BY <1>2, <1>3

\* A claim is only given back on a workflow that rests.
LEMMA ReleaseAttends ==
  ASSUME RunnerInv, Attended, NEW t \in Everyone, Release(t)
  PROVE  Attended'
<1>1. t \in Tasks /\ pass[t].pc = "release" /\ pass[t].pc \in Holding /\ Ready(pass[t])
  BY PassesOnly DEF Release, At, Holding, Attended
<1>2. pass[t].workflow \in Workflows /\ records[pass[t].workflow].status # RUNNING
  BY <1>1, TaskFrames DEF Ready
<1>3. /\ \A w \in Workflows \ {pass[t].workflow} : owners'[w] = owners[w]
      /\ records' = records
  BY DEF Release, RunnerInv, TypeOK
<1>4. pass'[t] = Idle /\ \A u \in Everyone \ {t} : pass'[u] = pass[u]
  BY IdleFits, PassReplaced DEF Release, RunnerInv
<1>5. \A w \in Workflows : records'[w].status = RUNNING => owners'[w] # Nobody
  BY <1>2, <1>3 DEF Attended
<1>6. ASSUME NEW u \in Tasks
      PROVE  Ready(pass[u])'
  <2>1. CASE u = t
    <3>1. pass'[u].pc = "idle"
      BY <1>4, <2>1, FrameFields
    <3> QED
      BY <3>1 DEF Ready
  <2>2. CASE u # t
    BY <1>3, <1>4, <2>2 DEF Attended, Ready, Everyone
  <2> QED
    BY <2>1, <2>2
<1> QED
  BY <1>5, <1>6 DEF Attended

\* What the owner finds after its change is what it goes on with.
LEMMA AfterReady ==
  ASSUME RunnerInv, NEW t \in Tasks, At(t, "commit"), NEW r, NEW s, Changed(t, r, s),
         NEW f, f = After(t, s), pass[t].effective.type # "cancel"
  PROVE  Ready(f)'
<1>1. /\ pass[t].workflow \in Workflows /\ records'[pass[t].workflow] = s
      /\ Effect(r, pass[t].effective, s) /\ Sound(s, Budgets) /\ Sound(r, Budgets)
      /\ pass[t].effective \in Changes
  BY DEF Changed, Fits
<1>2. pass[t].effective.type \in {"run", "resume", "begin", "commit", "complete", "fail",
                                  "acknowledge"}
  BY <1>1 DEF Changes
<1>3. CASE pass[t].effective.type \in {"acknowledge", "fail", "complete"}
  <2>1. f = Frame(t, "release")
    BY <1>3 DEF After, NextPc
  <2>2. f.pc = "release" /\ f.workflow = pass[t].workflow
    BY <2>1, FrameFields
  <2>3. s.status # RUNNING
    BY <1>1, <1>3 DEF Effect
  <2> QED
    BY <1>1, <2>2, <2>3 DEF Ready
<1>4. CASE pass[t].effective.type = "begin"
  <2>1. f.pc = "execute" /\ f.workflow = pass[t].workflow
    BY <1>4, FrameFields DEF After, NextPc
  <2>2. s.status = RUNNING
    BY <1>1, <1>4 DEF Effect
  <2> QED
    BY <1>1, <2>1, <2>2 DEF Ready
<1>5. CASE pass[t].effective.type \in {"run", "resume", "commit"}
  <2>1. f.pc = "poll" /\ f.workflow = pass[t].workflow
    BY <1>5, FrameFields DEF After, NextPc
  <2>2. s.status = RUNNING /\ ~InStep(s)
    BY <1>1, <1>5 DEF Effect
  <2>3. Unfinished(s) => s.cancellationRequested \/ HasAttempts(s)
    <3>1. SUFFICES ASSUME Unfinished(s)
                   PROVE  s.cancellationRequested \/ HasAttempts(s)
      OBVIOUS
    <3>2. Tried(s) = s.steps[Here(s)].attempts
      BY <3>1 DEF Tried
    <3>3. CASE pass[t].effective.type = "commit"
      <4>1. s \in InstanceOf(Budgets) /\ Len(s.steps) = Len(s.budget)
        BY <1>1 DEF Sound, ValidInstance, ValidSteps
      <4>2. s.budget \in Seq(Nat \ {0}) /\ s.checkpoint \in Nat
        BY <4>1, BudgetsAssumption DEF InstanceOf
      <4>3. Here(s) \in 1..Len(s.budget)
        BY <3>1, <4>1, <4>2 DEF Unfinished, Here
      <4>4. s.budget[Here(s)] \in Nat \ {0}
        BY <4>2, <4>3
      <4>5. Tried(s) = 0
        BY <1>1, <3>3 DEF Effect
      <4> QED
        BY <3>2, <4>4, <4>5 DEF HasAttempts
    <3>4. CASE pass[t].effective.type \in {"run", "resume"}
      <4>1. /\ SameFlow(r, s) /\ Tried(s) = Tried(r) /\ s.budget = r.budget
            /\ Len(s.steps) = Len(r.steps)
            /\ s.cancellationRequested = r.cancellationRequested
            /\ Unfinished(r) => r.cancellationRequested \/ HasAttempts(r)
        BY <1>1, <3>4 DEF Effect
      <4>2. Unfinished(r) /\ Here(s) = Here(r)
        BY <3>1, <4>1 DEF SameFlow, Unfinished, Here
      <4>3. Tried(r) = r.steps[Here(r)].attempts
        BY <4>2 DEF Tried
      <4>4. CASE r.cancellationRequested
        BY <4>1, <4>4
      <4>5. CASE HasAttempts(r)
        BY <3>2, <4>1, <4>2, <4>3, <4>5 DEF HasAttempts
      <4> QED
        BY <4>1, <4>2, <4>4, <4>5
    <3> QED
      BY <1>5, <3>3, <3>4
  <2> QED
    BY <1>1, <2>1, <2>2, <2>3 DEF Ready
<1> QED
  BY <1>2, <1>3, <1>4, <1>5

\* The others do not notice a change, or notice a cancellation.
LEMMA OthersReady ==
  ASSUME RunnerInv, Attended, NEW t \in Everyone, NEW r, NEW s, Changed(t, r, s), Owned(t),
         NEW u \in Tasks, u # t, pass'[u] = pass[u]
  PROVE  Ready(pass[u])'
<1>1. Ready(pass[u])
  BY DEF Attended
<1>2. CASE pass[u].pc \notin Holding
  BY <1>2 DEF Ready, Holding
<1>3. CASE pass[u].pc \in Holding
  <2>1. pass[u].workflow \in Workflows /\ owners[pass[u].workflow] = u
    BY <1>3, TaskFrames
  <2>2. CASE pass[u].workflow # pass[t].workflow
    <3>1. records'[pass[u].workflow] = records[pass[u].workflow]
      BY <2>1, <2>2 DEF Changed
    <3> QED
      BY <1>1, <3>1 DEF Ready
  <2>3. CASE pass[u].workflow = pass[t].workflow
    <3>1. pass[t].effective.type = "cancel"
      BY <2>1, <2>3 DEF Owned
    <3>2. /\ records[pass[u].workflow] = r /\ records'[pass[u].workflow] = s
          /\ Effect(r, pass[t].effective, s) /\ Sound(r, Budgets)
      BY <2>3 DEF Changed
    <3>3. CASE s = r
      BY <1>1, <3>2, <3>3 DEF Ready
    <3>4. CASE s # r
      <4>1. /\ SameFlow(r, s) /\ s.steps = r.steps /\ s.budget = r.budget
            /\ s.version = r.version + 1 /\ s.cancellationRequested
            /\ ~r.cancellationRequested
            /\ s.status = RUNNING <=> r.status = RUNNING
        BY <3>1, <3>2, <3>4 DEF Effect
      <4>2. /\ Unfinished(s) <=> Unfinished(r)
            /\ InStep(s) <=> InStep(r)
        BY <4>1 DEF SameFlow, Unfinished, InStep, Here
      <4>3. \A c : Due(c, r) => Due(c, s)
        BY <4>1, <4>2 DEF Due
      <4>4. r.version \in Nat
        BY <3>2, SoundFields
      <4>5. pass[u].pc = "commit" /\ ~Starting(pass[u]) =>
              pass[u].seen = r.version /\ pass[u].seen # s.version /\ pass[u].tries = 0
        BY <1>1, <3>2, <4>1, <4>4 DEF Ready
      <4> QED
        BY <1>1, <3>2, <4>1, <4>2, <4>3, <4>5 DEF Ready
    <3> QED
      BY <3>3, <3>4
  <2> QED
    BY <2>2, <2>3
<1> QED
  BY <1>2, <1>3

\* A change that is stored leaves every pass ready: no one else drives that workflow.
LEMMA CommitAttends ==
  ASSUME RunnerInv, Attended, NEW t \in Everyone, Commit(t)
  PROVE  Attended'
<1>1. PICK r, s : Changed(t, r, s)
  BY StoreChanges DEF Commit
<1>2. At(t, "commit") /\ Owned(t) /\ UNCHANGED owners
  BY DEF Commit, Accepted
<1>3. /\ pass[t].workflow \in Workflows /\ records'[pass[t].workflow] = s
      /\ r = records[pass[t].workflow] /\ Effect(r, pass[t].effective, s)
      /\ \A v \in Workflows \ {pass[t].workflow} : records'[v] = records[v]
  BY <1>1 DEF Changed
<1>4. PICK f : f = After(t, s)
  OBVIOUS
<1>5. pass' = [pass EXCEPT ![t] = f]
  BY <1>3, <1>4 DEF Commit, After
<1>6. f \in Frames
  BY <1>1, <1>2, <1>4, AfterFits
<1>7. pass'[t] = f /\ \A u \in Everyone \ {t} : pass'[u] = pass[u]
  BY <1>5, <1>6, PassReplaced DEF RunnerInv
<1>8. \A w \in Workflows : records'[w].status = RUNNING => owners'[w] # Nobody
  <2>1. CASE pass[t].effective.type = "cancel"
    <3>1. s.status = RUNNING => r.status = RUNNING
      BY <1>3, <2>1 DEF Effect
    <3> QED
      BY <1>2, <1>3, <3>1 DEF Attended
  <2>2. CASE pass[t].effective.type # "cancel"
    <3>1. owners[pass[t].workflow] = t /\ t # Nobody
      <4>1. t \in Tasks
        BY <1>2, <2>2 DEF RunnerInv, FrameOK, Everyone, At
      <4> QED
        BY <1>2, <2>2, <4>1, NamesAssumption DEF Owned
    <3> QED
      BY <1>2, <1>3, <3>1 DEF Attended
  <2> QED
    BY <2>1, <2>2
<1>9. ASSUME NEW u \in Tasks
      PROVE  Ready(pass[u])'
  <2>1. CASE u = t
    <3>1. pass[t].effective.type # "cancel"
      BY <1>2, <2>1, ChangesTyped, NamesAssumption DEF RunnerInv, FrameOK, At, Asks
    <3>2. Ready(f)'
      BY <1>1, <1>2, <1>4, <2>1, <3>1, AfterReady
    <3> QED
      BY <1>7, <2>1, <3>2
  <2>2. CASE u # t
    BY <1>1, <1>2, <1>7, <2>2, OthersReady DEF Everyone
  <2> QED
    BY <2>1, <2>2
<1> QED
  BY <1>8, <1>9 DEF Attended

\* New workflows rest, and no pass holds them.
LEMMA RecordAttends ==
  ASSUME RunnerInv, Attended, NEW w \in Workflows,
         Delete(w) \/ \E b \in Budgets, k \in Keys \union {NoKey} : Create(w, b, k)
  PROVE  Attended'
<1>1. owners[w] = Nobody /\ UNCHANGED <<owners, pass>>
  BY DEF Create, Delete, RunnerInv, StoreOK
<1>2. /\ records'[w].status # RUNNING
      /\ \A v \in Workflows \ {w} : records'[v] = records[v]
  <2>1. CASE Delete(w)
    <3>1. records' = [records EXCEPT ![w] = NoRecord]
      BY <2>1 DEF Delete
    <3>2. NoRecord.status # RUNNING
      BY DEF NoRecord, RUNNING
    <3> QED
      BY <3>1, <3>2 DEF RunnerInv, TypeOK
  <2>2. ASSUME NEW b \in Budgets, NEW k \in Keys \union {NoKey}, Create(w, b, k)
        PROVE  /\ records'[w].status # RUNNING
               /\ \A v \in Workflows \ {w} : records'[v] = records[v]
    <3>1. records' = [records EXCEPT ![w] = NewInstance(b)]
      BY <2>2 DEF Create
    <3>2. NewInstance(b).status # RUNNING
      BY DEF NewInstance, PENDING, RUNNING
    <3> QED
      BY <3>1, <3>2 DEF RunnerInv, TypeOK
  <2> QED
    BY <2>1, <2>2
<1>3. ASSUME NEW u \in Tasks
      PROVE  Ready(pass[u])'
  <2>1. Ready(pass[u])
    BY DEF Attended
  <2>2. CASE pass[u].pc \in Holding
    <3>1. pass[u].workflow \in Workflows \ {w}
      BY <1>1, <2>2, TaskFrames, NamesAssumption
    <3> QED
      BY <1>1, <1>2, <2>1, <3>1 DEF Ready
  <2>3. CASE pass[u].pc \notin Holding
    BY <1>1, <2>3 DEF Ready, Holding
  <2> QED
    BY <2>2, <2>3
<1> QED
  BY <1>1, <1>2, <1>3 DEF Attended

\* Without faults every step leaves every running workflow attended.
LEMMA QuietStep ==
  ASSUME RunnerInv, QuietInv, ChangeTries > 1, [Next]_vars
  PROVE  QuietInv'
<1> SUFFICES ASSUME faults' = 0 PROVE Attended'
  BY DEF QuietInv
<1>1. CASE UNCHANGED vars
  <2>1. Attended
    BY <1>1 DEF vars, QuietInv
  <2> QED
    BY <1>1, <2>1 DEF vars, Attended, Ready
<1>2. ASSUME NEW w \in Workflows, 
             Delete(w) \/ \E b \in Budgets, k \in Keys \union {NoKey} : Create(w, b, k)
      PROVE  Attended'
  <2>1. Attended
    BY <1>2 DEF Create, Delete, QuietInv
  <2> QED
    BY <1>2, <2>1, RecordAttends
<1>3. ASSUME NEW t \in Everyone, NEW w \in issued, RunOrResume(t, w) \/ CallCancel(t, w)
      PROVE  Attended'
  <2>1. Attended
    BY <1>3 DEF RunOrResume, CallCancel, Enter, Goto, QuietInv
  <2> QED
    BY <1>3, <2>1, EnterQuietly, QuietlyKeeps
<1>4. ASSUME NEW t \in Everyone,
             Read(t) \/ Conflict(t) \/ Refused(t) \/ Poll(t) \/ AskToken(t)
             \/ Rescue(t) \/ StepEnds(t)
      PROVE  Attended'
  <2>1. faults' = faults
    BY <1>4 DEF Read, Conflict, Refused, Poll, AskToken, Rescue, StepEnds, StepReturns,
      StepRaises, StepStops, OwnerCancelled, Unwind, Ask, Step, Leave, Goto
  <2>2. Attended
    BY <2>1 DEF QuietInv
  <2>3. CASE t \in Tasks
    BY <1>4, <2>2, <2>3, ReadQuietly, ConflictQuietly, RefusedQuietly, PollQuietly, EndQuietly,
       QuietlyKeeps
  <2>4. CASE t \notin Tasks
    <3>1. Turning(t)
      BY <1>4, ReadTurns, ConflictTurns, RefusedTurns, PollTurns, AskTokenTurns,
         RescueTurns, StepEndsTurns
    <3> QED
      BY <2>2, <2>4, <3>1, ClientQuietly, QuietlyKeeps
  <2> QED
    BY <2>3, <2>4
<1>5. ASSUME NEW t \in Everyone, Find(t) \/ Claim(t) \/ Commit(t) \/ Release(t)
      PROVE  Attended'
  <2>1. faults' = faults
    BY <1>5 DEF Find, Claim, Commit, Release, Leave, Goto
  <2>2. Attended
    BY <2>1 DEF QuietInv
  <2>3. CASE Find(t)
    <3>1. Quietly(t)
      BY <2>3, FindQuietly
    <3> QED
      BY <2>2, <3>1, QuietlyKeeps
  <2> QED
    BY <1>5, <2>2, <2>3, ClaimAttends, CommitAttends, ReleaseAttends
<1>6. ASSUME NEW t \in Everyone, CallLost(t) \/ ReplyLost(t)
      PROVE  FALSE
  BY <1>6, BoundsAssumption DEF CallLost, ReplyLost, RunnerInv, TypeOK
<1> QED
  BY <1>1, <1>2, <1>3, <1>4, <1>5, <1>6 DEF Next, StoreStep, Everyone

\* As long as _change may try again, a pass drives its workflow alone, and no workflow is
\* left running without one unless a call of the store was lost.
THEOREM WorkflowsHaveOneOwner ==
  ASSUME ChangeTries > 1
  PROVE  Spec => []OneOwner
<1>1. Init => QuietInv
  <2>1. Init => \A t \in Tasks : pass[t].pc = "idle"
    BY FrameFields DEF Init
  <2> QED
    BY <2>1 DEF Init, QuietInv, Attended, Ready, NoRecord
<1>2. RunnerInv /\ QuietInv /\ [Next]_vars => QuietInv'
  BY QuietStep
<1>3. RunnerInv /\ QuietInv => OneOwner
  <2>1. ASSUME RunnerInv, NEW t \in Tasks, Driving(t)
        PROVE  owners[pass[t].workflow] = t
    <3>1. pass[t].pc \in Holding
      BY <2>1 DEF Driving, Holding
    <3> QED
      BY <2>1, <3>1, TaskFrames
  <2> QED
    BY <2>1 DEF OneOwner, QuietInv, Attended
<1> QED
  BY <1>1, <1>2, <1>3, RunnerInductive, PTL DEF Spec
=============================================================================
