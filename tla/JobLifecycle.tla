---------------------------- MODULE JobLifecycle ----------------------------
(***************************************************************************)
(* The record of one job and the closed set of changes it accepts:         *)
(* domain/models/job.py and domain/services/job_lifecycle.py.  Pure        *)
(* operators, no state.  Payloads, results and progress values are         *)
(* replaced by the number of the attempt that produced them (None when     *)
(* there is none): enough to tell whose work a record holds.               *)
(***************************************************************************)
EXTENDS Integers, Sequences

\* The Python value None, in every field that may hold a number.
None == -1

QUEUED    == "queued"
RUNNING   == "running"
SUCCEEDED == "succeeded"
FAILED    == "failed"
CANCELLED == "cancelled"

Terminal == {SUCCEEDED, FAILED, CANCELLED}
Status   == {QUEUED, RUNNING} \union Terminal

\* Public error codes of JobError, "handler_failed" standing for
\* handler_not_implemented too; "none" stands for a missing error.
Errors == {"none", "handler_failed", "execution_interrupted"}

Time == Nat

\* An idempotency key belongs to a request; NoKey is a request without one.
NoKey == "no_key"

JobAttempt == [number : Nat, status : Terminal, startedAt : Time,
               finishedAt : Time, error : Errors]

\* The fields of a JobRecord, for a set of requests.
RecordOf(requests) ==
  [request : requests, status : Status, attempt : Nat \ {0},
   version : Nat \ {0}, createdAt : Time, updatedAt : Time,
   startedAt : Time \union {None}, finishedAt : Time \union {None},
   cancellationRequested : BOOLEAN, progress : Nat \union {None},
   result : Nat \union {None}, error : Errors, attempts : Seq(JobAttempt)]

NewRecord(request, now) ==
  [request |-> request, status |-> QUEUED, attempt |-> 1, version |-> 1,
   createdAt |-> now, updatedAt |-> now, startedAt |-> None,
   finishedAt |-> None, cancellationRequested |-> FALSE, progress |-> None,
   result |-> None, error |-> "none", attempts |-> << >>]

-----------------------------------------------------------------------------
(* The changes of job_lifecycle.py.  `by' is the attempt whose work the     *)
(* change carries and `error' the code of a FailJob.                        *)

Changes == [type : {"start", "retry", "cancel", "acknowledge", "progress",
                    "succeed", "fail"},
            by : Nat \union {None}, error : Errors]

Change(type) == [type |-> type, by |-> None, error |-> "none"]
StartJob     == Change("start")
RetryJob     == Change("retry")
CancelJob    == Change("cancel")
Acknowledge  == Change("acknowledge")
ReportProgress(a) == [Change("progress") EXCEPT !.by = a]
SucceedJob(a)     == [Change("succeed") EXCEPT !.by = a]
FailJob(code)     == [Change("fail") EXCEPT !.error = code]

\* A defect that TLC must notice: StartJob accepted in a running job.
Permits_StartTwice(r, c) ==
  \/ c.type = "start" /\ r.status \in {QUEUED, RUNNING}
  \/ c.type = "retry" /\ r.status = FAILED /\ r.attempt < r.request.maxAttempts
  \/ c.type \in {"progress", "succeed", "fail"} /\ r.status = RUNNING

\* Whether _change_fields returns instead of raising JobTransitionError.
Permits(r, c) ==
  \/ c.type = "start" /\ r.status = QUEUED
  \/ c.type = "retry" /\ r.status = FAILED /\ r.attempt < r.request.maxAttempts
  \/ /\ c.type = "cancel"
     /\ r.request.cancellable
     /\ r.status \in {QUEUED, RUNNING, CANCELLED}
  \/ c.type \in {"progress", "succeed", "fail"} /\ r.status = RUNNING
  \/ c.type = "acknowledge" /\ r.status = RUNNING /\ r.cancellationRequested

\* A second cancellation of the same attempt updates nothing.
IsNoOp(r, c) ==
  /\ c.type = "cancel"
  /\ r.status = CANCELLED \/ (r.status = RUNNING /\ r.cancellationRequested)

Touch(r, now) == [r EXCEPT !.version = @ + 1, !.updatedAt = now]

\* A defect that TLC must notice: started_at forgotten.
Start_NoTime(r, now) == [Touch(r, now) EXCEPT !.status = RUNNING]

Start(r, now) == [Touch(r, now) EXCEPT !.status = RUNNING, !.startedAt = now]

\* Defects that TLC must notice: a retry that keeps the progress, or the
\* cancellation request, of the attempt that failed.
Requeue_KeepsProgress(r, now) ==
  [Touch(r, now) EXCEPT !.status = QUEUED, !.attempt = @ + 1,
     !.startedAt = None, !.finishedAt = None, !.error = "none",
     !.cancellationRequested = FALSE]
Requeue_KeepsRequest(r, now) ==
  [Touch(r, now) EXCEPT !.status = QUEUED, !.attempt = @ + 1,
     !.startedAt = None, !.finishedAt = None, !.error = "none",
     !.progress = None]

Requeue(r, now) ==
  [Touch(r, now) EXCEPT !.status = QUEUED, !.attempt = @ + 1,
     !.startedAt = None, !.finishedAt = None, !.error = "none",
     !.progress = None, !.cancellationRequested = FALSE]

Cancel(r, now) ==
  IF r.status = QUEUED
  THEN [Touch(r, now) EXCEPT !.status = CANCELLED, !.finishedAt = now,
          !.cancellationRequested = TRUE]
  ELSE [Touch(r, now) EXCEPT !.cancellationRequested = TRUE]

AttemptEntry(r, status, now, error) ==
  [number |-> r.attempt, status |-> status, startedAt |-> r.startedAt,
   finishedAt |-> now, error |-> error]

Finish(r, status, now, error, result) ==
  [Touch(r, now) EXCEPT !.status = status, !.finishedAt = now,
     !.error = error, !.result = result,
     !.attempts = Append(@, AttemptEntry(r, status, now, error))]

\* transition_job on a permitted change.
Transition(r, c, now) ==
  CASE IsNoOp(r, c)           -> r
    [] c.type = "start"       -> Start(r, now)
    [] c.type = "retry"       -> Requeue(r, now)
    [] c.type = "cancel" /\ ~IsNoOp(r, c) -> Cancel(r, now)
    [] c.type = "progress"    -> [Touch(r, now) EXCEPT !.progress = c.by]
    [] c.type = "succeed"     -> Finish(r, SUCCEEDED, now, "none", c.by)
    [] c.type = "fail"        -> Finish(r, FAILED, now, c.error, r.result)
    [] c.type = "acknowledge" -> Finish(r, CANCELLED, now, "none", r.result)

-----------------------------------------------------------------------------
(* JobRecord.validate_lifecycle, which re-validates every changed record.   *)

ValidTimestamps(r) ==
  /\ r.createdAt <= r.updatedAt
  /\ r.startedAt # None => r.createdAt <= r.startedAt /\ r.startedAt <= r.updatedAt
  /\ r.finishedAt # None => r.finishedAt = r.updatedAt
  /\ r.progress # None => r.startedAt # None

ValidStatusFields(r) ==
  /\ r.attempt <= r.request.maxAttempts
  /\ r.status = SUCCEEDED <=> r.result # None
  /\ r.status = FAILED <=> r.error # "none"
  /\ r.status \in Terminal <=> r.finishedAt # None

ValidExecutionFields(r) ==
  /\ r.status \in {RUNNING, SUCCEEDED, FAILED} => r.startedAt # None
  /\ r.status = QUEUED => r.startedAt = None
  /\ r.cancellationRequested => r.request.cancellable
  /\ r.status = CANCELLED => r.cancellationRequested

Executed(r) == r.status \in Terminal /\ r.startedAt # None

ValidAttempts(r) ==
  /\ Len(r.attempts) = IF Executed(r) THEN r.attempt ELSE r.attempt - 1
  /\ \A i \in 1..Len(r.attempts) : r.attempts[i].number = i
  /\ \A i \in 1..(r.attempt - 1) : r.attempts[i].status = FAILED
  /\ Executed(r) =>
       r.attempts[Len(r.attempts)]
         = AttemptEntry(r, r.status, r.finishedAt, r.error)

ValidRecord(r) ==
  /\ ValidTimestamps(r)
  /\ ValidStatusFields(r)
  /\ ValidExecutionFields(r)
  /\ ValidAttempts(r)
=============================================================================
