-------------------------- MODULE JobRunnerProofs ---------------------------
(***************************************************************************)
(* The safety of JobRunner for every set of jobs, requests and tasks, any  *)
(* number of tries, with or without lost calls and a clock that steps      *)
(* back; and what those who submit, run and watch jobs rely on: idempotent *)
(* submission, retention, a task behind every running job, the contract.   *)
(***************************************************************************)
EXTENDS JobRunner, TLAPS

-----------------------------------------------------------------------------
(* A permitted change of a valid record gives a valid record, whatever the  *)
(* record, its history and the request: transition_job never ends in the    *)
(* ValidationError of the model it rebuilds.                                *)

\* A change as the runner builds it: an outcome says what it has to say.
IsChange(c) ==
  /\ c \in Changes
  /\ c.type \in {"progress", "succeed"} => c.by \in Nat
  /\ c.type = "fail" => c.error # "none"

HasPolicy(requests) ==
  \A q \in requests : q.cancellable \in BOOLEAN /\ q.maxAttempts \in Nat \ {0}

USE DEF None, QUEUED, RUNNING, SUCCEEDED, FAILED, CANCELLED, Terminal, Status,
        Time

\* Every change counts a version and dates the record.
LEMMA TouchTyped ==
  ASSUME NEW requests, NEW r, r \in RecordOf(requests), NEW now \in Time
  PROVE  Touch(r, now) \in RecordOf(requests)
<1>1. r.version + 1 \in Nat \ {0} /\ now \in Nat
  BY DEF RecordOf
<1> QED
  BY <1>1 DEF RecordOf, Touch

\* A change that ends no attempt leaves the history as it is.
LEMMA SameHistory ==
  ASSUME NEW r, NEW s, ValidAttempts(r), ~Executed(r), ~Executed(s),
         s.attempts = r.attempts, s.attempt = r.attempt
  PROVE  ValidAttempts(s)
  BY DEF ValidAttempts

\* The start of an attempt.
LEMMA StartValid ==
  ASSUME NEW requests, HasPolicy(requests),
         NEW r, r \in RecordOf(requests), ValidRecord(r),
         NEW now \in Time, r.updatedAt <= now, r.status = QUEUED
  PROVE  Start(r, now) \in RecordOf(requests) /\ ValidRecord(Start(r, now))
<1> DEFINE s == Start(r, now)
<1>1. s \in RecordOf(requests)
  <2> DEFINE t == Touch(r, now)
  <2>1. t \in RecordOf(requests)
    BY TouchTyped
  <2>2. s = [t EXCEPT !.status = RUNNING, !.startedAt = now]
    BY DEF Start
  <2> HIDE DEF t, s
  <2> QED
    BY <2>1, <2>2 DEF RecordOf
<1>2. ValidTimestamps(s) /\ ValidStatusFields(s) /\ ValidExecutionFields(s)
  BY DEF RecordOf, Start, Touch, ValidRecord, ValidTimestamps,
         ValidStatusFields, ValidExecutionFields
<1>3. ValidAttempts(s)
  <2>1. s.attempts = r.attempts /\ s.attempt = r.attempt
    BY DEF RecordOf, Start, Touch
  <2>2. ~Executed(r) /\ ~Executed(s)
    BY DEF RecordOf, Start, Touch, Executed, ValidRecord, ValidExecutionFields
  <2> QED
    BY <2>1, <2>2, SameHistory DEF ValidRecord
<1> QED
  BY <1>1, <1>2, <1>3 DEF ValidRecord

\* A retry, within the budget.
LEMMA RequeueValid ==
  ASSUME NEW requests, HasPolicy(requests),
         NEW r, r \in RecordOf(requests), ValidRecord(r),
         NEW now \in Time, r.updatedAt <= now,
         r.status = FAILED, r.attempt < r.request.maxAttempts
  PROVE  Requeue(r, now) \in RecordOf(requests) /\ ValidRecord(Requeue(r, now))
<1> DEFINE s == Requeue(r, now)
<1>1. s \in RecordOf(requests)
  <2> DEFINE t == Touch(r, now)
             n == t.attempt + 1
  <2>1. t \in RecordOf(requests)
    BY TouchTyped
  <2>2. n \in Nat \ {0}
    BY <2>1 DEF RecordOf
  <2>3. s = [t EXCEPT !.status = QUEUED, !.attempt = n, !.startedAt = None,
                      !.finishedAt = None, !.error = "none", !.progress = None,
                      !.cancellationRequested = FALSE]
    BY DEF Requeue
  <2> HIDE DEF t, n, s
  <2> QED
    BY <2>1, <2>2, <2>3 DEF RecordOf, Errors
<1>2. ValidTimestamps(s) /\ ValidStatusFields(s) /\ ValidExecutionFields(s)
  BY DEF HasPolicy, RecordOf, Requeue, Touch, ValidRecord, ValidTimestamps,
         ValidStatusFields, ValidExecutionFields
<1>3. ValidAttempts(s)
  <2>1. Executed(r)
    BY DEF RecordOf, ValidRecord, ValidExecutionFields, Executed
  <2>2. /\ Len(r.attempts) = r.attempt
        /\ r.attempts[r.attempt] = AttemptEntry(r, FAILED, r.finishedAt, r.error)
    BY <2>1 DEF ValidRecord, ValidAttempts
  <2>3. r.attempts[r.attempt].status = FAILED
    BY <2>2 DEF AttemptEntry
  <2>4. \A i \in 1..(r.attempt - 1) : r.attempts[i].status = FAILED
    BY DEF ValidRecord, ValidAttempts
  <2>5. s.attempts = r.attempts /\ s.attempt = r.attempt + 1 /\ ~Executed(s)
    BY DEF RecordOf, Requeue, Touch, Executed
  <2>6. \A i \in 1..(s.attempt - 1) : s.attempts[i].status = FAILED
    BY <2>3, <2>4, <2>5 DEF RecordOf
  <2>7. \A i \in 1..Len(r.attempts) : r.attempts[i].number = i
    BY DEF ValidRecord, ValidAttempts
  <2> QED
    BY <2>2, <2>5, <2>6, <2>7 DEF ValidAttempts, RecordOf
<1> QED
  BY <1>1, <1>2, <1>3 DEF ValidRecord

\* A cancellation that is not a no-op.
LEMMA CancelValid ==
  ASSUME NEW requests, HasPolicy(requests),
         NEW r, r \in RecordOf(requests), ValidRecord(r),
         NEW now \in Time, r.updatedAt <= now,
         r.request.cancellable, r.status \in {QUEUED, RUNNING}
  PROVE  Cancel(r, now) \in RecordOf(requests) /\ ValidRecord(Cancel(r, now))
<1> DEFINE s == Cancel(r, now)
<1>1. s \in RecordOf(requests)
  <2> DEFINE t == Touch(r, now)
  <2>1. t \in RecordOf(requests)
    BY TouchTyped
  <2>2. \/ s = [t EXCEPT !.status = CANCELLED, !.finishedAt = now,
                         !.cancellationRequested = TRUE]
        \/ s = [t EXCEPT !.cancellationRequested = TRUE]
    BY DEF Cancel
  <2> HIDE DEF t, s
  <2>3. CASE s = [t EXCEPT !.cancellationRequested = TRUE]
    BY <2>1, <2>3 DEF RecordOf
  <2>4. CASE s = [t EXCEPT !.status = CANCELLED, !.finishedAt = now,
                           !.cancellationRequested = TRUE]
    BY <2>1, <2>4 DEF RecordOf
  <2> QED
    BY <2>2, <2>3, <2>4
<1>2. ValidTimestamps(s) /\ ValidStatusFields(s) /\ ValidExecutionFields(s)
  BY DEF RecordOf, Cancel, Touch, ValidRecord, ValidTimestamps,
         ValidStatusFields, ValidExecutionFields
<1>3. ValidAttempts(s)
  <2>1. s.attempts = r.attempts /\ s.attempt = r.attempt
    BY DEF RecordOf, Cancel, Touch
  <2>2. ~Executed(r) /\ ~Executed(s)
    BY DEF RecordOf, Cancel, Touch, Executed, ValidRecord, ValidExecutionFields
  <2> QED
    BY <2>1, <2>2, SameHistory DEF ValidRecord
<1> QED
  BY <1>1, <1>2, <1>3 DEF ValidRecord

\* Progress of the attempt that runs.
LEMMA ProgressValid ==
  ASSUME NEW requests, HasPolicy(requests),
         NEW r, r \in RecordOf(requests), ValidRecord(r),
         NEW now \in Time, r.updatedAt <= now, r.status = RUNNING, NEW a \in Nat
  PROVE  LET s == [Touch(r, now) EXCEPT !.progress = a]
         IN  s \in RecordOf(requests) /\ ValidRecord(s)
<1> DEFINE s == [Touch(r, now) EXCEPT !.progress = a]
<1>1. s \in RecordOf(requests)
  <2> DEFINE t == Touch(r, now)
  <2>1. t \in RecordOf(requests)
    BY TouchTyped
  <2>2. s = [t EXCEPT !.progress = a]
    BY DEF Touch
  <2> HIDE DEF t, s
  <2> QED
    BY <2>1, <2>2 DEF RecordOf
<1>2. ValidTimestamps(s) /\ ValidStatusFields(s) /\ ValidExecutionFields(s)
  BY DEF RecordOf, Touch, ValidRecord, ValidTimestamps, ValidStatusFields,
         ValidExecutionFields
<1>3. ValidAttempts(s)
  <2>1. s.attempts = r.attempts /\ s.attempt = r.attempt
    BY DEF RecordOf, Touch
  <2>2. ~Executed(r) /\ ~Executed(s)
    BY DEF RecordOf, Touch, Executed, ValidRecord, ValidExecutionFields
  <2> QED
    BY <2>1, <2>2, SameHistory DEF ValidRecord
<1> QED
  BY <1>1, <1>2, <1>3 DEF ValidRecord

\* The end of an attempt: the history gains exactly that attempt.
LEMMA FinishValid ==
  ASSUME NEW requests, HasPolicy(requests),
         NEW r, r \in RecordOf(requests), ValidRecord(r),
         NEW now \in Time, r.updatedAt <= now, r.status = RUNNING,
         NEW status \in Terminal, NEW error \in Errors,
         NEW result \in Nat \union {None},
         status = SUCCEEDED <=> result # None,
         status = FAILED <=> error # "none",
         status = CANCELLED => r.cancellationRequested
  PROVE  LET s == Finish(r, status, now, error, result)
         IN  s \in RecordOf(requests) /\ ValidRecord(s)
<1> DEFINE entry == AttemptEntry(r, status, now, error)
           s     == Finish(r, status, now, error, result)
<1>1. r.startedAt \in Time
  BY DEF RecordOf, ValidRecord, ValidExecutionFields
<1>2. entry \in JobAttempt
  BY <1>1 DEF RecordOf, AttemptEntry, JobAttempt
<1>3. /\ Len(r.attempts) = r.attempt - 1
      /\ \A i \in 1..Len(r.attempts) : r.attempts[i].number = i
      /\ \A i \in 1..(r.attempt - 1) : r.attempts[i].status = FAILED
  BY DEF RecordOf, ValidRecord, ValidAttempts, Executed
<1>4. s = [r EXCEPT !.version = r.version + 1, !.updatedAt = now,
                    !.status = status, !.finishedAt = now, !.error = error,
                    !.result = result, !.attempts = Append(r.attempts, entry)]
  BY DEF Finish, Touch, RecordOf
<1>5. /\ Append(r.attempts, entry) \in Seq(JobAttempt)
      /\ Len(Append(r.attempts, entry)) = r.attempt
      /\ \A i \in 1..(r.attempt - 1) :
           Append(r.attempts, entry)[i] = r.attempts[i]
      /\ Append(r.attempts, entry)[r.attempt] = entry
  BY <1>2, <1>3 DEF RecordOf
<1>6. s \in RecordOf(requests)
  <2> DEFINE t == Touch(r, now)
             h == Append(r.attempts, entry)
  <2>1. t \in RecordOf(requests)
    BY TouchTyped
  <2>2. s = [t EXCEPT !.status = status, !.finishedAt = now, !.error = error,
                      !.result = result, !.attempts = h]
    BY <1>4 DEF Touch, RecordOf
  <2>3. h \in Seq(JobAttempt)
    BY <1>5
  <2> HIDE DEF t, h, s
  <2> QED
    BY <2>1, <2>2, <2>3 DEF RecordOf
<1>7. ValidTimestamps(s) /\ ValidStatusFields(s) /\ ValidExecutionFields(s)
  BY <1>4, <1>1 DEF RecordOf, ValidRecord, ValidTimestamps, ValidStatusFields,
                    ValidExecutionFields
<1>8. ValidAttempts(s)
  <2>1. /\ s.attempt = r.attempt /\ s.startedAt = r.startedAt
        /\ s.status = status /\ s.finishedAt = now /\ s.error = error
        /\ s.attempts = Append(r.attempts, entry)
    BY <1>4 DEF RecordOf
  <2>2. Executed(s) /\ entry = AttemptEntry(s, s.status, s.finishedAt, s.error)
    BY <2>1, <1>1 DEF Executed, AttemptEntry
  <2>3. entry.number = r.attempt
    BY DEF AttemptEntry
  <2>4. \A i \in 1..Len(s.attempts) : s.attempts[i].number = i
    BY <2>1, <2>3, <1>3, <1>5 DEF RecordOf
  <2> QED
    BY <2>1, <2>2, <2>4, <1>3, <1>5 DEF ValidAttempts, RecordOf
<1> QED
  BY <1>6, <1>7, <1>8 DEF ValidRecord

\* transition_job keeps records valid: whatever the record, its history and the
\* request, a change that _change_fields accepts at a clock that is not behind
\* gives a record its validators accept.
THEOREM TransitionKeepsValid ==
  ASSUME NEW requests, HasPolicy(requests),
         NEW r, r \in RecordOf(requests), ValidRecord(r),
         NEW c, IsChange(c), Permits(r, c),
         NEW now \in Time, r.updatedAt <= now
  PROVE  LET s == Transition(r, c, now)
         IN  s \in RecordOf(requests) /\ ValidRecord(s)
<1> DEFINE s == Transition(r, c, now)
<1>1. CASE c.type = "start"
  BY <1>1, StartValid DEF Transition, IsNoOp, Permits
<1>2. CASE c.type = "retry"
  BY <1>2, RequeueValid DEF Transition, IsNoOp, Permits
<1>3. CASE c.type = "cancel"
  <2>1. CASE IsNoOp(r, c)
    <3>1. s = r
      BY <2>1, <1>3 DEF Transition
    <3> QED
      BY <3>1
  <2>2. CASE ~IsNoOp(r, c)
    <3>1. s = Cancel(r, now)
      BY <2>2, <1>3 DEF Transition
    <3>2. r.request.cancellable /\ r.status \in {QUEUED, RUNNING}
      BY <2>2, <1>3 DEF Permits, IsNoOp
    <3> QED
      BY <3>1, <3>2, CancelValid
  <2> QED
    BY <2>1, <2>2
<1>4. CASE c.type = "progress"
  <2>1. s = [Touch(r, now) EXCEPT !.progress = c.by] /\ c.by \in Nat
    BY <1>4 DEF Transition, IsNoOp, IsChange
  <2> QED
    BY <2>1, <1>4, ProgressValid DEF Permits
<1>5. CASE c.type = "succeed"
  <2>1. s = Finish(r, SUCCEEDED, now, "none", c.by) /\ c.by \in Nat
    BY <1>5 DEF Transition, IsNoOp, IsChange
  <2>2. c.by # None /\ "none" \in Errors
    BY <2>1 DEF Errors
  <2> QED
    BY <2>1, <2>2, <1>5, FinishValid DEF Permits
<1>6. CASE c.type = "fail"
  <2>1. s = Finish(r, FAILED, now, c.error, r.result)
    BY <1>6 DEF Transition, IsNoOp
  <2>2. c.error # "none" /\ c.error \in Errors /\ r.status = RUNNING
    BY <1>6 DEF IsChange, Changes, Permits
  <2>3. r.result = None
    BY <2>2 DEF ValidRecord, ValidStatusFields
  <2> QED
    BY <2>1, <2>2, <2>3, FinishValid
<1>7. CASE c.type = "acknowledge"
  <2>1. s = Finish(r, CANCELLED, now, "none", r.result)
    BY <1>7 DEF Transition, IsNoOp
  <2>2. r.status = RUNNING /\ r.cancellationRequested /\ "none" \in Errors
    BY <1>7 DEF Permits, Errors
  <2>3. r.result = None
    BY <2>2 DEF ValidRecord, ValidStatusFields
  <2> QED
    BY <2>1, <2>2, <2>3, FinishValid
<1> QED
  BY <1>1, <1>2, <1>3, <1>4, <1>5, <1>6, <1>7 DEF IsChange, Changes

-----------------------------------------------------------------------------
(* The inductive invariant: what the local variables of a suspended         *)
(* operation still say about the record it is about to change.              *)

\* An identity is recorded only after it was issued, so that a purged job never
\* comes back.
StoredAreIssued == \A j \in Jobs : Stored(j) => j \in issued

\* The attempt a context was made for has left the queue for ever.
ContextsArePast ==
  \A ctx \in contexts :
    /\ ctx[1] \in issued
    /\ Stored(ctx[1]) =>
         LET r == records[ctx[1]] IN
           ctx[2] < r.attempt \/ (ctx[2] = r.attempt /\ r.status # QUEUED)

\* The version read by an operation binds the attempt it compared: a record that
\* still has that version is still on that attempt.
SeenBindsAttempt(t) ==
  LET f == call[t] IN
    f.pc = "commit" /\ Stored(f.job) =>
      /\ f.seen <= records[f.job].version
      /\ f.seen = records[f.job].version /\ f.change.type # "start"
           => records[f.job].attempt = f.attempt

FrameOK(t) ==
  LET f == call[t] IN
    /\ f.pc # "idle" => f.job \in issued
    /\ f.pc = "commit" => f.seen \in Nat
    /\ f.pc = "read" => f.change.type # "start"
    /\ f.pc \in {"load", "commit"} /\ f.change.type = "start" => t \in Runners
    /\ f.pc = "load" => f.change.type \in {"start", "cancel", "retry"}
    /\ t \in Runners /\ f.pc = "load" => f.change.type = "start"
    /\ t \notin Runners /\ f.pc = "load" => f.change.type # "start"
    /\ Working(t) => f.attempt \in Nat
    /\ Working(t) /\ t \in Runners => <<f.job, f.attempt>> \in contexts
    /\ f.pc \in {"execute", "token"} => t \in Runners
    /\ f.change.type \in {"progress", "succeed"} =>
         f.change.by = f.attempt /\ f.attempt \in Nat
    /\ f.change.type = "fail" => f.change.error # "none"
    /\ SeenBindsAttempt(t)

IInv ==
  /\ TypeOK
  /\ StoredAreIssued
  /\ ContextsArePast
  /\ RecordsValid
  /\ WorkOfCurrentAttempt
  /\ \A t \in Tasks : FrameOK(t)
  /\ OneExecutionPerAttempt

-----------------------------------------------------------------------------
(* Every step keeps it.                                                     *)

USE DEF Stored

\* Every request a job is created from carries a policy within its bounds.
LEMMA RequestsHavePolicy == HasPolicy(Requests)
  BY RequestsAssumption DEF HasPolicy, Request

\* The runners are among the tasks.
LEMMA RunnersAreTasks == Runners \subseteq Tasks
  BY DEF Tasks

\* An absent record is not a record.
LEMMA StoredIsRecord ==
  ASSUME TypeOK, NEW j \in Jobs
  PROVE  /\ Stored(j) => records[j] \in RecordOf(Requests)
         /\ records[j] \in RecordOf(Requests) => Stored(j)
  BY DEF TypeOK, Record, RecordOf, NoRecord

\* What a change may do to the public fields of a record.
LEMMA TransitionMonotone ==
  ASSUME NEW r \in RecordOf(Requests), ValidRecord(r),
         NEW c, IsChange(c), Permits(r, c), NEW now \in Time
  PROVE  LET s == Transition(r, c, now) IN
           /\ s.attempt >= r.attempt
           /\ s.status = QUEUED /\ r.status # QUEUED => s.attempt > r.attempt
           /\ s = r \/ s.version = r.version + 1
           /\ c.type = "start" => s.attempt = r.attempt /\ s.status = RUNNING
           /\ r.result \in {None, r.attempt} /\ r.progress \in {None, r.attempt}
              /\ (c.type \in {"progress", "succeed"} => c.by = r.attempt)
              => s.result \in {None, s.attempt} /\ s.progress \in {None, s.attempt}
<1> DEFINE s == Transition(r, c, now)
<1>1. CASE c.type = "start"
  <2>1. s = Start(r, now)
    BY <1>1 DEF Transition, IsNoOp
  <2> QED
    BY <1>1, <2>1 DEF Start, Touch, RecordOf
<1>2. CASE c.type = "retry"
  <2>1. s = Requeue(r, now) /\ r.status = FAILED
    BY <1>2 DEF Transition, IsNoOp, Permits
  <2>2. r.result = None
    BY <2>1 DEF ValidRecord, ValidStatusFields
  <2> QED
    BY <1>2, <2>1, <2>2 DEF Requeue, Touch, RecordOf
<1>3. CASE c.type = "cancel"
  <2>1. s = r \/ s = Cancel(r, now)
    BY <1>3 DEF Transition
  <2>2. s = Cancel(r, now) =>
          /\ s.attempt = r.attempt /\ s.version = r.version + 1
          /\ s.status \in {r.status, CANCELLED}
          /\ s.progress = r.progress /\ s.result = r.result
    BY DEF Cancel, Touch, RecordOf
  <2> QED
    BY <1>3, <2>1, <2>2 DEF RecordOf
<1>4. CASE c.type = "progress"
  <2>1. s = [Touch(r, now) EXCEPT !.progress = c.by] /\ r.status = RUNNING
    BY <1>4 DEF Transition, IsNoOp, Permits
  <2>2. /\ s.attempt = r.attempt /\ s.status = RUNNING
        /\ s.version = r.version + 1 /\ s.result = r.result
        /\ s.progress = c.by
    BY <2>1 DEF Touch, RecordOf
  <2> QED
    BY <1>4, <2>1, <2>2 DEF RecordOf
<1>5. CASE c.type \in {"succeed", "fail", "acknowledge"}
  <2>1. \/ s = Finish(r, SUCCEEDED, now, "none", c.by) /\ c.type = "succeed"
        \/ s = Finish(r, FAILED, now, c.error, r.result)
        \/ s = Finish(r, CANCELLED, now, "none", r.result)
    BY <1>5 DEF Transition, IsNoOp
  <2>2. /\ s.attempt = r.attempt /\ s.status \in Terminal
        /\ s.version = r.version + 1 /\ s.progress = r.progress
        /\ s.result = r.result \/ (c.type = "succeed" /\ s.result = c.by)
    <3>1. \A status \in Terminal : \A error, result :
            LET q == Finish(r, status, now, error, result) IN
            /\ q.attempt = r.attempt /\ q.status = status /\ q.version = r.version + 1
            /\ q.progress = r.progress /\ q.result = result
      BY DEF Finish, Touch, RecordOf
    <3>2. SUCCEEDED \in Terminal /\ FAILED \in Terminal /\ CANCELLED \in Terminal
      OBVIOUS
    <3> QED
      BY <2>1, <3>1, <3>2
  <2> QED
    BY <1>5, <2>2 DEF RecordOf
<1> QED
  BY <1>1, <1>2, <1>3, <1>4, <1>5 DEF IsChange, Changes

\* The invariant holds initially.
LEMMA InitIInv == Init => IInv
<1> SUFFICES ASSUME Init PROVE IInv
  OBVIOUS
<1>1. /\ \A j \in Jobs : ~Stored(j)
      /\ \A t \in Tasks : call[t] = Idle
      /\ contexts = {}
  BY DEF Init, NoRecord
<1>2. Idle \in Frames /\ Idle.pc = "idle" /\ Idle.change = CancelJob
  BY DEF Idle, Frames, CancelJob, Change, Changes, Errors
<1>3. TypeOK
  BY <1>1, <1>2 DEF TypeOK, Init, Record
<1>4. \A t \in Tasks : FrameOK(t)
  BY <1>1, <1>2 DEF FrameOK, Working, SeenBindsAttempt, CancelJob, Change
<1>5. OneExecutionPerAttempt
  BY <1>1, <1>2, RunnersAreTasks DEF OneExecutionPerAttempt, Owns, Working
<1> QED
  BY <1>1, <1>3, <1>4, <1>5 DEF IInv, StoredAreIssued, ContextsArePast,
     RecordsValid, WorkOfCurrentAttempt
-----------------------------------------------------------------------------
\* A step that only replaces the frame of one task, by a sound frame that claims
\* no execution the task did not have.
LEMMA FrameStep ==
  ASSUME IInv, NEW t \in Tasks, NEW f \in Frames,
         call' = [call EXCEPT ![t] = f],
         UNCHANGED <<records, keys, issued, contexts, purgeNow, clock>>,
         FrameOK(t)',
         t \in Runners /\ Working(t)' =>
           Working(t) /\ call[t].job = f.job /\ call[t].attempt = f.attempt
  PROVE  IInv'
<1>1. call'[t] = f /\ \A u \in Tasks \ {t} : call'[u] = call[u]
  BY DEF IInv, TypeOK
<1>2. TypeOK'
  BY DEF IInv, TypeOK
<1>3. \A u \in Tasks : FrameOK(u)'
  BY <1>1 DEF IInv, FrameOK, Working, SeenBindsAttempt
<1>4. OneExecutionPerAttempt'
  <2> SUFFICES ASSUME NEW j \in Jobs, NEW u \in Runners, NEW v \in Runners,
                      Owns(u, j)', Owns(v, j)',
                      call'[u].attempt = call'[v].attempt
               PROVE  u = v
    BY DEF OneExecutionPerAttempt
  <2>1. \A w \in Runners : Owns(w, j)' =>
          Owns(w, j) /\ call'[w].attempt = call[w].attempt
    BY <1>1, RunnersAreTasks DEF Owns, Working
  <2> QED
    BY <2>1 DEF IInv, OneExecutionPerAttempt
<1> QED
  BY <1>2, <1>3, <1>4 DEF IInv, StoredAreIssued, ContextsArePast, RecordsValid,
     WorkOfCurrentAttempt

\* Every operation may end where it is.
LEMMA LeaveStep ==
  ASSUME IInv, NEW t \in Tasks, Leave(t)
  PROVE  IInv'
<1>1. Idle \in Frames /\ Idle.pc = "idle" /\ Idle.change.type = "cancel"
  BY DEF Idle, Frames, CancelJob, Change, Changes, Errors
<1>2. call'[t] = Idle
  BY DEF Leave, IInv, TypeOK
<1>3. FrameOK(t)' /\ ~Working(t)'
  BY <1>1, <1>2 DEF FrameOK, Working, SeenBindsAttempt
<1> QED
  BY <1>1, <1>3, FrameStep DEF Leave

\* A task that takes up a job, a control or a report keeps the invariant.
LEMMA EnterStep ==
  ASSUME IInv, NEW t \in Tasks,
         (\E j \in issued : Run(t, j) \/ Control(t, j)) \/ Report(t)
  PROVE  IInv'
<1>1. ASSUME NEW j \in Jobs, NEW a \in Nat \union {None}, NEW c \in Changes,
             NEW pc \in {"load", "read"}
      PROVE  LET f == Frame(pc, j, a, c) IN
               /\ f \in Frames
               /\ f.pc = pc /\ f.job = j /\ f.attempt = a /\ f.change = c
  BY DEF Frame, Idle, Frames, CancelJob, Change, Changes, Errors
<1>2. StartJob \in Changes /\ CancelJob \in Changes /\ RetryJob \in Changes
  BY DEF StartJob, CancelJob, RetryJob, Change, Changes, Errors
<1>3. StartJob.type = "start" /\ CancelJob.type = "cancel" /\ RetryJob.type = "retry"
  BY DEF StartJob, CancelJob, RetryJob, Change
<1>4. issued \subseteq Jobs /\ contexts \subseteq Jobs \X Nat
  BY DEF IInv, TypeOK
<1>5. ASSUME NEW j \in issued, Run(t, j) PROVE IInv'
  <2> DEFINE f == Frame("load", j, None, StartJob)
  <2>1. /\ f \in Frames
        /\ f.pc = "load" /\ f.job = j /\ f.change = StartJob
    BY <1>1, <1>2, <1>4
  <2>2. call' = [call EXCEPT ![t] = f] /\ call'[t] = f /\ t \in Runners
        /\ UNCHANGED <<records, keys, issued, contexts, purgeNow, clock>>
    BY <1>5 DEF Run, Enter, IInv, TypeOK
  <2> HIDE DEF f
  <2>3. FrameOK(t)' /\ ~Working(t)'
    BY <2>1, <2>2, <1>3 DEF FrameOK, Working, SeenBindsAttempt
  <2> QED
    BY <2>1, <2>2, <2>3, FrameStep
<1>6. ASSUME NEW j \in issued, Control(t, j) PROVE IInv'
  <2>1. PICK c \in {CancelJob, RetryJob} : Enter(t, Frame("load", j, None, c))
    BY <1>6 DEF Control
  <2> DEFINE f == Frame("load", j, None, c)
  <2>2. /\ f \in Frames
        /\ f.pc = "load" /\ f.job = j /\ f.change = c
    BY <1>1, <1>2, <1>4
  <2>3. call' = [call EXCEPT ![t] = f] /\ call'[t] = f /\ t \notin Runners
        /\ UNCHANGED <<records, keys, issued, contexts, purgeNow, clock>>
    BY <1>6, <2>1, TasksAssumption DEF Control, Enter, IInv, TypeOK
  <2>4. c.type \in {"cancel", "retry"}
    BY <1>3
  <2> HIDE DEF f
  <2>5. FrameOK(t)' /\ ~Working(t)'
    BY <2>2, <2>3, <2>4 DEF FrameOK, Working, SeenBindsAttempt
  <2> QED
    BY <2>2, <2>3, <2>5, FrameStep
<1>7. ASSUME Report(t) PROVE IInv'
  <2>1. PICK ctx \in contexts :
          Enter(t, Frame("read", ctx[1], ctx[2], ReportProgress(ctx[2])))
    BY <1>7 DEF Report
  <2> DEFINE c == ReportProgress(ctx[2])
             f == Frame("read", ctx[1], ctx[2], c)
  <2>2. ctx[1] \in Jobs /\ ctx[2] \in Nat /\ ctx[1] \in issued
    BY <1>4 DEF IInv, ContextsArePast
  <2>3. c \in Changes /\ c.type = "progress" /\ c.by = ctx[2]
    BY <2>2 DEF ReportProgress, Change, Changes, Errors
  <2> HIDE DEF c
  <2>4. /\ f \in Frames
        /\ f.pc = "read" /\ f.job = ctx[1] /\ f.attempt = ctx[2] /\ f.change = c
    BY <1>1, <2>2, <2>3
  <2>5. call' = [call EXCEPT ![t] = f] /\ call'[t] = f /\ t \notin Runners
        /\ UNCHANGED <<records, keys, issued, contexts, purgeNow, clock>>
    BY <1>7, <2>1, TasksAssumption DEF Report, Enter, IInv, TypeOK, c
  <2> HIDE DEF f
  <2>6. FrameOK(t)'
    BY <2>2, <2>3, <2>4, <2>5 DEF FrameOK, Working, SeenBindsAttempt
  <2> QED
    BY <2>4, <2>5, <2>6, FrameStep
<1> QED
  BY <1>5, <1>6, <1>7

\* load, and the head of _change: the version and the attempt of one get.
LEMMA GetStep ==
  ASSUME IInv, NEW t \in Tasks, Load(t) \/ Read(t)
  PROVE  IInv'
<1> DEFINE j == call[t].job
           r == records[j]
<1>1. call[t] \in Frames /\ FrameOK(t) /\ Stored(j)
  BY DEF Load, Read, IInv, TypeOK
<1>2. j \in Jobs /\ r \in RecordOf(Requests)
  <2>1. j \in issued /\ issued \subseteq Jobs
    BY <1>1 DEF Load, Read, FrameOK, IInv, TypeOK
  <2> QED
    BY <2>1, <1>1, StoredIsRecord DEF IInv
<1>3. r.version \in Nat /\ r.attempt \in Nat
  BY <1>2 DEF RecordOf
<1>4. CASE Load(t) /\ t \in Runners
  <2> DEFINE f == [call[t] EXCEPT !.pc = "commit", !.seen = r.version]
  <2>1. /\ f \in Frames /\ f.pc = "commit" /\ f.seen = r.version /\ f.job = j
        /\ f.change = call[t].change
    BY <1>1, <1>3 DEF Frames
  <2>2. call' = [call EXCEPT ![t] = f] /\ call'[t] = f /\ call[t].pc = "load"
        /\ UNCHANGED <<records, keys, issued, contexts, purgeNow, clock>>
    BY <1>4 DEF Load, IInv, TypeOK
  <2> HIDE DEF f
  <2>3. FrameOK(t)' /\ ~Working(t)'
    BY <1>1, <1>3, <1>4, <2>1, <2>2 DEF FrameOK, Working, SeenBindsAttempt
  <2> QED
    BY <2>1, <2>2, <2>3, FrameStep
<1>5. CASE Load(t) /\ t \notin Runners
  <2> DEFINE f == [call[t] EXCEPT !.pc = "read", !.attempt = r.attempt]
  <2>1. /\ f \in Frames /\ f.pc = "read" /\ f.attempt = r.attempt /\ f.job = j
        /\ f.change = call[t].change
    BY <1>1, <1>3 DEF Frames
  <2>2. call' = [call EXCEPT ![t] = f] /\ call'[t] = f /\ call[t].pc = "load"
        /\ UNCHANGED <<records, keys, issued, contexts, purgeNow, clock>>
    BY <1>5 DEF Load, IInv, TypeOK
  <2> HIDE DEF f
  <2>3. FrameOK(t)'
    BY <1>1, <1>3, <1>5, <2>1, <2>2 DEF FrameOK, Working, SeenBindsAttempt
  <2> QED
    BY <1>5, <2>1, <2>2, <2>3, FrameStep
<1>6. CASE Read(t) /\ r.attempt # call[t].attempt
  BY <1>6, LeaveStep DEF Read
<1>7. CASE Read(t) /\ r.attempt = call[t].attempt
  <2> DEFINE f == [call[t] EXCEPT !.pc = "commit", !.seen = r.version]
  <2>1. /\ f \in Frames /\ f.pc = "commit" /\ f.seen = r.version /\ f.job = j
        /\ f.change = call[t].change /\ f.attempt = call[t].attempt
    BY <1>1, <1>3 DEF Frames
  <2>2. call' = [call EXCEPT ![t] = f] /\ call'[t] = f /\ call[t].pc = "read"
        /\ UNCHANGED <<records, keys, issued, contexts, purgeNow, clock>>
    BY <1>7 DEF Read, IInv, TypeOK
  <2> HIDE DEF f
  <2>3. FrameOK(t)' /\ Working(t)
    BY <1>1, <1>3, <1>7, <2>1, <2>2 DEF FrameOK, Working, SeenBindsAttempt
  <2> QED
    BY <2>1, <2>2, <2>3, FrameStep
<1> QED
  BY <1>4, <1>5, <1>6, <1>7

\* A task that works for an attempt goes on with the outcome of that attempt.
LEMMA ConcludeStep ==
  ASSUME IInv, NEW t \in Tasks, Working(t),
         NEW c \in Changes, c.type # "start", c.type = "fail" => c.error # "none",
         c.type \in {"progress", "succeed"} => c.by = call[t].attempt,
         NEW w \in {"unset", "valid", "invalid"},
         call' = [call EXCEPT ![t] = [call[t] EXCEPT !.pc = "read", !.change = c,
                                        !.tries = 0, !.work = w]],
         UNCHANGED <<records, keys, issued, contexts, purgeNow, clock>>
  PROVE  IInv'
<1> DEFINE f == [call[t] EXCEPT !.pc = "read", !.change = c, !.tries = 0,
                                !.work = w]
<1>1. call[t] \in Frames /\ FrameOK(t)
  BY DEF IInv, TypeOK
<1>2. /\ f \in Frames /\ f.pc = "read" /\ f.change = c /\ f.job = call[t].job
      /\ f.attempt = call[t].attempt
  BY <1>1 DEF Frames
<1>3. call' = [call EXCEPT ![t] = f] /\ call'[t] = f
  BY DEF IInv, TypeOK
<1>4. call[t].pc # "idle"
  BY DEF Working
<1> HIDE DEF f
<1>5. FrameOK(t)'
  BY <1>1, <1>2, <1>3, <1>4 DEF FrameOK, Working, SeenBindsAttempt
<1> QED
  BY <1>2, <1>3, <1>5, FrameStep

\* The outcomes run can publish.
LEMMA Outcomes ==
  /\ Acknowledge \in Changes /\ Acknowledge.type = "acknowledge"
  /\ \A code \in Errors : /\ FailJob(code) \in Changes
                          /\ FailJob(code).type = "fail"
                          /\ FailJob(code).error = code
  /\ \A a \in Nat : /\ SucceedJob(a) \in Changes
                    /\ SucceedJob(a).type = "succeed"
                    /\ SucceedJob(a).by = a
  BY DEF Acknowledge, FailJob, SucceedJob, Change, Changes, Errors

\* A new _change, with the handler's outcome unchanged.
LEMMA ConcludeWith ==
  ASSUME IInv, NEW t \in Tasks, Working(t), NEW c, Conclude(t, c),
         c = Acknowledge \/ \E code \in Errors \ {"none"} : c = FailJob(code)
  PROVE  IInv'
<1>1. call[t] \in Frames
  BY DEF IInv, TypeOK
<1>2. [call[t] EXCEPT !.pc = "read", !.change = c, !.tries = 0]
        = [call[t] EXCEPT !.pc = "read", !.change = c, !.tries = 0,
                          !.work = call[t].work]
  BY <1>1 DEF Frames
<1>3. call' = [call EXCEPT ![t] = [call[t] EXCEPT !.pc = "read", !.change = c,
                                     !.tries = 0, !.work = call[t].work]]
      /\ UNCHANGED <<records, keys, issued, contexts, purgeNow, clock>>
  BY <1>2 DEF Conclude
<1>4. call[t].work \in {"unset", "valid", "invalid"}
  BY <1>1 DEF Frames
<1>5. /\ c \in Changes /\ c.type \in {"acknowledge", "fail"}
      /\ c.type = "fail" => c.error # "none"
  BY Outcomes
<1> QED
  BY <1>3, <1>4, <1>5, ConcludeStep

\* store.change refuses the change, for whatever reason.
LEMMA RefusalStep ==
  ASSUME IInv, NEW t \in Tasks, Conflict(t) \/ ValueRaised(t) \/ Refused(t)
  PROVE  IInv'
<1>1. call[t] \in Frames /\ FrameOK(t) /\ call[t].pc = "commit"
  BY DEF Conflict, ValueRaised, Refused, IInv, TypeOK
<1>2. CASE Leave(t)
  BY <1>2, LeaveStep
<1>3. CASE Conflict(t) /\ ~Leave(t)
  <2> DEFINE n == call[t].tries + 1
             f == [call[t] EXCEPT !.pc = "read", !.tries = n]
  <2>1. n \in Nat
    BY <1>1 DEF Frames
  <2>2. call' = [call EXCEPT ![t] = f] /\ call'[t] = f
        /\ call[t].change.type # "start"
        /\ UNCHANGED <<records, keys, issued, contexts, purgeNow, clock>>
    BY <1>3 DEF Conflict, IInv, TypeOK
  <2> HIDE DEF n
  <2>3. /\ f \in Frames /\ f.pc = "read" /\ f.job = call[t].job
        /\ f.change = call[t].change /\ f.attempt = call[t].attempt
    BY <1>1, <2>1 DEF Frames
  <2> HIDE DEF f
  <2>4. FrameOK(t)' /\ Working(t)
    BY <1>1, <2>2, <2>3 DEF FrameOK, Working, SeenBindsAttempt
  <2> QED
    BY <2>2, <2>3, <2>4, FrameStep
<1>4. CASE ValueRaised(t) /\ ~Leave(t)
  <2>1. Conclude(t, FailJob("handler_failed")) /\ Working(t)
    BY <1>1, <1>4 DEF ValueRaised, Working
  <2>2. "handler_failed" \in Errors \ {"none"}
    BY DEF Errors
  <2> QED
    BY <2>1, <2>2, ConcludeWith
<1> QED
  BY <1>2, <1>3, <1>4 DEF Refused

\* The handler ends, one way or another.
LEMMA HandlerStep ==
  ASSUME IInv, NEW t \in Tasks, HandlerEnds(t)
  PROVE  IInv'
<1>1. call[t] \in Frames /\ FrameOK(t) /\ call[t].pc = "execute" /\ Working(t)
  BY DEF HandlerEnds, HandlerReturns, HandlerRaises, OwnerCancelled,
         HandlerStops, Conclude, Working, IInv, TypeOK
<1>2. CASE HandlerReturns(t)
  <2>1. PICK work \in {"valid", "invalid"} :
          call' = [call EXCEPT ![t].pc = "read", ![t].work = work,
                     ![t].tries = 0, ![t].change = SucceedJob(call[t].attempt)]
    BY <1>2 DEF HandlerReturns
  <2> DEFINE c == SucceedJob(call[t].attempt)
  <2>2. call[t].attempt \in Nat
    BY <1>1 DEF FrameOK
  <2>3. c \in Changes /\ c.type = "succeed" /\ c.by = call[t].attempt
    BY <2>2, Outcomes
  <2> HIDE DEF c
  <2>4. call' = [call EXCEPT ![t] = [call[t] EXCEPT !.pc = "read", !.change = c,
                                       !.tries = 0, !.work = work]]
    BY <1>1, <2>1 DEF IInv, TypeOK, Frames, c
  <2>5. UNCHANGED <<records, keys, issued, contexts, purgeNow, clock>>
    BY <1>2 DEF HandlerReturns
  <2> QED
    BY <1>1, <2>3, <2>4, <2>5, ConcludeStep
<1>3. CASE HandlerRaises(t) \/ OwnerCancelled(t)
  <2>1. PICK code \in Errors \ {"none"} : Conclude(t, FailJob(code))
    BY <1>3 DEF HandlerRaises, OwnerCancelled, Errors
  <2> QED
    BY <1>1, <2>1, ConcludeWith
<1>4. CASE HandlerStops(t)
  <2> DEFINE f == [call[t] EXCEPT !.pc = "token"]
  <2>1. /\ f \in Frames /\ f.pc = "token" /\ f.job = call[t].job
        /\ f.change = call[t].change /\ f.attempt = call[t].attempt
    BY <1>1 DEF Frames
  <2>2. call' = [call EXCEPT ![t] = f] /\ call'[t] = f
        /\ UNCHANGED <<records, keys, issued, contexts, purgeNow, clock>>
    BY <1>4 DEF HandlerStops, IInv, TypeOK
  <2> HIDE DEF f
  <2>3. FrameOK(t)'
    BY <1>1, <2>1, <2>2 DEF FrameOK, Working, SeenBindsAttempt
  <2> QED
    BY <1>1, <2>1, <2>2, <2>3, FrameStep
<1> QED
  BY <1>2, <1>3, <1>4 DEF HandlerEnds

\* A runner that reads its cancellation token keeps the invariant.
LEMMA TokenStep ==
  ASSUME IInv, NEW t \in Tasks, AskToken(t)
  PROVE  IInv'
<1>1. Working(t)
  BY DEF AskToken, Working
<1>2. CASE Leave(t)
  BY <1>2, LeaveStep
<1>3. CASE ~Leave(t)
  <2>1. PICK c : /\ Conclude(t, c)
                 /\ c = Acknowledge \/ c = FailJob("handler_failed")
    BY <1>3 DEF AskToken
  <2>2. "handler_failed" \in Errors \ {"none"}
    BY DEF Errors
  <2> QED
    BY <1>1, <2>1, <2>2, ConcludeWith
<1> QED
  BY <1>2, <1>3
-----------------------------------------------------------------------------
\* The step that stores a change keeps every record valid and every suspended
\* operation sound, whatever becomes of the task that stored it.
LEMMA StoreStepInv ==
  ASSUME IInv, NEW t \in Tasks, call[t].pc = "commit", Accepted(t), Store(t),
         issued' = issued
  PROVE  LET j == call[t].job
             r == records[j]
             s == records'[j]
         IN  /\ j \in Jobs /\ Stored(j) /\ r \in RecordOf(Requests)
             /\ records' \in [Jobs -> Record \union {NoRecord}]
             /\ \A i \in Jobs : (Stored(i) <=> Stored(i)') /\ (i # j => records'[i] = records[i])
             /\ StoredAreIssued' /\ RecordsValid' /\ WorkOfCurrentAttempt'
             /\ s.attempt \in Nat /\ s.attempt >= r.attempt
             /\ s.status = QUEUED /\ r.status # QUEUED => s.attempt > r.attempt
             /\ call[t].change.type = "start" =>
                  s.attempt = r.attempt /\ s.status = RUNNING /\ r.status = QUEUED
             /\ \A u \in Tasks : call'[u] = call[u] => SeenBindsAttempt(u)'
<1> DEFINE j == call[t].job
           c == call[t].change
           r == records[j]
           s == Transition(r, c, clock)
<1>1. call[t] \in Frames /\ FrameOK(t) /\ TypeOK
  BY DEF IInv, TypeOK
<1>2. j \in Jobs /\ r \in RecordOf(Requests) /\ ValidRecord(r) /\ Stored(j)
  <2>1. j \in issued /\ issued \subseteq Jobs
    BY <1>1 DEF FrameOK, TypeOK
  <2> QED
    BY <2>1, <1>1, StoredIsRecord DEF IInv, RecordsValid, Accepted
<1>3. IsChange(c) /\ Permits(r, c)
  BY <1>1 DEF Frames, FrameOK, IsChange, Accepted
<1>4. clock \in Time /\ r.updatedAt <= clock
  BY <1>1, <1>2 DEF Accepted, RaisesValueError, TypeOK, RecordOf
<1>5. s \in RecordOf(Requests) /\ ValidRecord(s)
  BY <1>2, <1>3, <1>4, RequestsHavePolicy, TransitionKeepsValid
<1>6. /\ s.attempt >= r.attempt
      /\ s.status = QUEUED /\ r.status # QUEUED => s.attempt > r.attempt
      /\ s = r \/ s.version = r.version + 1
      /\ c.type = "start" => s.attempt = r.attempt /\ s.status = RUNNING
      /\ r.result \in {None, r.attempt} /\ r.progress \in {None, r.attempt}
         /\ (c.type \in {"progress", "succeed"} => c.by = r.attempt)
         => s.result \in {None, s.attempt} /\ s.progress \in {None, s.attempt}
  BY <1>2, <1>3, <1>4, TransitionMonotone
<1>7. c.type \in {"progress", "succeed"} => c.by = r.attempt
  BY <1>1, <1>2 DEF FrameOK, SeenBindsAttempt, Accepted, Current
<1>8. /\ records' = [records EXCEPT ![j] = s] /\ records'[j] = s
      /\ \A i \in Jobs : i # j => records'[i] = records[i]
  BY <1>1, <1>2 DEF Store, TypeOK
<1>9. c.type = "start" => r.status = QUEUED
  BY <1>3 DEF Permits
<1> HIDE DEF s
<1>10. records' \in [Jobs -> Record \union {NoRecord}]
  BY <1>1, <1>5, <1>8 DEF TypeOK, Record
<1>11. s.status # "absent"
  BY <1>5 DEF RecordOf
<1>12. \A i \in Jobs : Stored(i) <=> Stored(i)'
  BY <1>2, <1>8, <1>11
<1>13. StoredAreIssued'
  BY <1>12 DEF IInv, StoredAreIssued
<1>14. RecordsValid'
  BY <1>5, <1>8 DEF IInv, RecordsValid
<1>15. WorkOfCurrentAttempt'
  <2>1. r.result \in {None, r.attempt} /\ r.progress \in {None, r.attempt}
    BY <1>2 DEF IInv, WorkOfCurrentAttempt
  <2>2. s.result \in {None, s.attempt} /\ s.progress \in {None, s.attempt}
    BY <2>1, <1>6, <1>7
  <2> QED
    BY <2>2, <1>8 DEF IInv, WorkOfCurrentAttempt
<1>16. ASSUME NEW u \in Tasks, call'[u] = call[u]
       PROVE  SeenBindsAttempt(u)'
  <2>1. FrameOK(u) /\ call[u] \in Frames
    BY <1>1 DEF IInv, TypeOK
  <2>2. CASE call[u].job # j \/ call[u].pc # "commit"
    <3>1. call[u].pc = "commit" => call[u].job \in Jobs
      BY <1>1, <2>1 DEF FrameOK, TypeOK
    <3> QED
      BY <1>16, <1>8, <2>1, <2>2, <3>1 DEF FrameOK, SeenBindsAttempt
  <2>3. CASE call[u].job = j /\ call[u].pc = "commit"
    <3>1. call[u].seen <= r.version /\ call[u].seen \in Nat
          /\ (call[u].seen = r.version /\ call[u].change.type # "start"
                => r.attempt = call[u].attempt)
      BY <1>2, <2>1, <2>3 DEF FrameOK, SeenBindsAttempt
    <3>2. r.version \in Nat
      BY <1>2 DEF RecordOf
    <3>3. call[u].seen <= s.version
          /\ (call[u].seen = s.version /\ call[u].change.type # "start"
                => s.attempt = call[u].attempt)
      BY <3>1, <3>2, <1>6
    <3> QED
      BY <3>3, <1>16, <1>8, <2>3 DEF SeenBindsAttempt
  <2> QED
    BY <2>2, <2>3
<1>17. s.attempt \in Nat
  BY <1>5 DEF RecordOf
<1> QED
  BY <1>2, <1>6, <1>8, <1>9, <1>10, <1>12, <1>13, <1>14, <1>15, <1>16, <1>17

\* The contexts made before a stored change still belong to attempts that have
\* left the queue.
LEMMA OldContextsPast ==
  ASSUME IInv, NEW t \in Tasks, call[t].pc = "commit", Accepted(t), Store(t),
         issued' = issued, NEW ctx \in contexts
  PROVE  /\ ctx[1] \in issued'
         /\ Stored(ctx[1])' =>
              \/ ctx[2] < records'[ctx[1]].attempt
              \/ /\ ctx[2] = records'[ctx[1]].attempt
                 /\ records'[ctx[1]].status # QUEUED
<1> DEFINE j == call[t].job
<1>1. /\ j \in Jobs /\ Stored(j) /\ records[j] \in RecordOf(Requests)
      /\ \A i \in Jobs : (Stored(i) <=> Stored(i)')
                         /\ (i # j => records'[i] = records[i])
      /\ records'[j].attempt \in Nat /\ records'[j].attempt >= records[j].attempt
      /\ records'[j].status = QUEUED /\ records[j].status # QUEUED
           => records'[j].attempt > records[j].attempt
  BY StoreStepInv
<1>2. /\ ctx[1] \in Jobs /\ ctx[2] \in Nat /\ ctx[1] \in issued
      /\ Stored(ctx[1]) => \/ ctx[2] < records[ctx[1]].attempt
                           \/ /\ ctx[2] = records[ctx[1]].attempt
                              /\ records[ctx[1]].status # QUEUED
  BY DEF IInv, TypeOK, ContextsArePast
<1>3. records[j].attempt \in Nat
  BY <1>1 DEF RecordOf
<1>4. CASE ctx[1] = j
  BY <1>1, <1>2, <1>3, <1>4
<1>5. CASE ctx[1] # j
  BY <1>1, <1>2, <1>5
<1> QED
  BY <1>4, <1>5

\* A change other than StartJob, whether its caller learns of it or not; or a
\* StartJob whose caller does not.
LEMMA CommitStep ==
  ASSUME IInv, NEW t \in Tasks, Commit(t) \/ ReplyLost(t)
  PROVE  IInv'
<1>1. /\ call[t].pc = "commit" /\ Accepted(t) /\ Store(t)
      /\ call' = [call EXCEPT ![t] = Idle]
      /\ UNCHANGED <<keys, issued, contexts, purgeNow, clock>>
  BY DEF Commit, ReplyLost
<1>2. Idle \in Frames /\ Idle.pc = "idle" /\ Idle.change.type = "cancel"
  BY DEF Idle, Frames, CancelJob, Change, Changes, Errors
<1>3. call'[t] = Idle /\ \A u \in Tasks \ {t} : call'[u] = call[u]
  BY <1>1 DEF IInv, TypeOK
<1>4. /\ records' \in [Jobs -> Record \union {NoRecord}]
      /\ StoredAreIssued' /\ RecordsValid' /\ WorkOfCurrentAttempt'
      /\ \A u \in Tasks : call'[u] = call[u] => SeenBindsAttempt(u)'
  BY <1>1, StoreStepInv
<1>5. TypeOK'
  BY <1>1, <1>2, <1>4 DEF IInv, TypeOK
<1>6. ContextsArePast'
  BY <1>1, OldContextsPast DEF ContextsArePast
<1>7. \A u \in Tasks : FrameOK(u)'
  BY <1>1, <1>2, <1>3, <1>4 DEF IInv, FrameOK, Working, SeenBindsAttempt
<1>8. OneExecutionPerAttempt'
  <2>1. \A u \in Runners, j \in Jobs : Owns(u, j)' =>
          Owns(u, j) /\ call'[u].attempt = call[u].attempt
    BY <1>2, <1>3, RunnersAreTasks DEF Owns, Working
  <2> QED
    BY <2>1 DEF IInv, OneExecutionPerAttempt
<1> QED
  BY <1>4, <1>5, <1>6, <1>7, <1>8 DEF IInv

\* The claim of an attempt: nobody has executed it, since it is in the queue.
LEMMA ClaimStep ==
  ASSUME IInv, NEW t \in Tasks, Claim(t)
  PROVE  IInv'
<1> DEFINE j == call[t].job
           a == records[j].attempt
           f == [call[t] EXCEPT !.pc = "execute", !.attempt = a]
<1>1. /\ call[t].pc = "commit" /\ Accepted(t) /\ Store(t)
      /\ call[t].change.type = "start"
      /\ call' = [call EXCEPT ![t].pc = "execute", ![t].attempt = a]
      /\ contexts' = contexts \union {<<j, a>>}
      /\ UNCHANGED <<keys, issued, purgeNow, clock>>
  BY DEF Claim
<1>2. call[t] \in Frames /\ FrameOK(t) /\ t \in Runners
  BY <1>1 DEF IInv, TypeOK, FrameOK
<1>3. /\ j \in Jobs /\ Stored(j) /\ records[j] \in RecordOf(Requests)
      /\ records' \in [Jobs -> Record \union {NoRecord}]
      /\ StoredAreIssued' /\ RecordsValid' /\ WorkOfCurrentAttempt'
      /\ records'[j].attempt = a /\ records'[j].status = RUNNING
      /\ records[j].status = QUEUED
      /\ \A u \in Tasks : call'[u] = call[u] => SeenBindsAttempt(u)'
  BY <1>1, StoreStepInv
<1>4. a \in Nat
  BY <1>3 DEF RecordOf
<1>5. /\ f \in Frames /\ f.pc = "execute" /\ f.job = j /\ f.attempt = a
      /\ f.change = call[t].change
  BY <1>2, <1>4 DEF Frames
<1>6. /\ call' = [call EXCEPT ![t] = f] /\ call'[t] = f
      /\ \A u \in Tasks \ {t} : call'[u] = call[u]
  BY <1>1 DEF IInv, TypeOK
<1> HIDE DEF f
<1>7. TypeOK'
  BY <1>1, <1>3, <1>4, <1>5, <1>6 DEF IInv, TypeOK
<1>8. ContextsArePast'
  <2>1. call[t].job \in issued'
    BY <1>1, <1>2 DEF FrameOK
  <2> SUFFICES ASSUME NEW ctx \in contexts'
               PROVE  /\ ctx[1] \in issued'
                      /\ Stored(ctx[1])' =>
                           \/ ctx[2] < records'[ctx[1]].attempt
                           \/ /\ ctx[2] = records'[ctx[1]].attempt
                              /\ records'[ctx[1]].status # QUEUED
    BY DEF ContextsArePast
  <2>2. CASE ctx \in contexts
    BY <1>1, <2>2, OldContextsPast
  <2>3. CASE ctx = <<j, a>>
    BY <1>3, <2>1, <2>3
  <2> QED
    BY <1>1, <2>2, <2>3
<1>9. \A u \in Tasks : FrameOK(u)'
  <2>1. FrameOK(t)'
    BY <1>1, <1>2, <1>4, <1>5, <1>6 DEF FrameOK, Working, SeenBindsAttempt
  <2>2. ASSUME NEW u \in Tasks \ {t} PROVE FrameOK(u)'
    <3>1. call'[u] = call[u] /\ FrameOK(u) /\ SeenBindsAttempt(u)'
      BY <1>3, <1>6 DEF IInv
    <3>2. contexts \subseteq contexts' /\ issued' = issued
      BY <1>1
    <3>3. Working(u)' <=> Working(u)
      BY <3>1 DEF Working
    <3> QED
      BY <3>1, <3>2, <3>3 DEF FrameOK
  <2> QED
    BY <2>1, <2>2
<1>10. OneExecutionPerAttempt'
  <2>1. <<j, a>> \notin contexts
    <3>1. ASSUME <<j, a>> \in contexts PROVE FALSE
      BY <1>3, <1>4, <3>1 DEF IInv, ContextsArePast
    <3> QED
      BY <3>1
  <2>2. \A u \in Runners \ {t}, i \in Jobs : Owns(u, i)' =>
          /\ Owns(u, i) /\ call'[u].attempt = call[u].attempt
          /\ <<i, call[u].attempt>> \in contexts
    BY <1>6, RunnersAreTasks DEF Owns, Working, IInv, FrameOK
  <2>3. \A i \in Jobs : Owns(t, i)' => i = j /\ call'[t].attempt = a
    BY <1>5, <1>6 DEF Owns
  <2> SUFFICES ASSUME NEW i \in Jobs, NEW u \in Runners, NEW v \in Runners,
                      Owns(u, i)', Owns(v, i)',
                      call'[u].attempt = call'[v].attempt
               PROVE  u = v
    BY DEF OneExecutionPerAttempt
  <2>4. CASE u # t /\ v # t
    BY <2>2, <2>4 DEF IInv, OneExecutionPerAttempt
  <2>5. CASE u = t /\ v # t
    BY <2>1, <2>2, <2>3, <2>5
  <2>6. CASE u # t /\ v = t
    BY <2>1, <2>2, <2>3, <2>6
  <2> QED
    BY <2>4, <2>5, <2>6
<1> QED
  BY <1>3, <1>7, <1>8, <1>9, <1>10 DEF IInv
-----------------------------------------------------------------------------
\* A fresh identity is in nobody's frame.
LEMMA SubmitStep ==
  ASSUME IInv, NEW j \in Jobs, NEW request \in Requests, Submit(j, request)
  PROVE  IInv'
<1> DEFINE n == NewRecord(request, clock)
<1>1. /\ j \notin issued /\ ~Stored(j)
      /\ UNCHANGED <<contexts, call, purgeNow, clock>>
      /\ issued' = issued \union {j}
      /\ \A u \in Tasks : FrameOK(u)
  BY DEF Submit, IInv, StoredAreIssued
<1>2. /\ records' = [records EXCEPT ![j] = n] /\ records'[j] = n
      /\ \A i \in Jobs : i # j => records'[i] = records[i]
  BY DEF Submit, IInv, TypeOK
<1>3. n \in RecordOf(Requests) /\ ValidRecord(n) /\ n.result = None /\ n.progress = None
  <2>1. clock \in Nat /\ request \in Request
    BY RequestsAssumption DEF IInv, TypeOK
  <2>2. n \in RecordOf(Requests)
    BY <2>1 DEF NewRecord, RecordOf, Errors
  <2>3. /\ ValidTimestamps(n) /\ ValidStatusFields(n) /\ ValidExecutionFields(n)
        /\ n.result = None /\ n.progress = None
    BY <2>1 DEF NewRecord, ValidTimestamps, ValidStatusFields,
                ValidExecutionFields, Request
  <2>4. ValidAttempts(n)
    BY DEF NewRecord, ValidAttempts, Executed
  <2> QED
    BY <2>2, <2>3, <2>4 DEF ValidRecord
<1> HIDE DEF n
<1>4. TypeOK'
  <2>1. keys' \in [Keys -> [request : Requests, job : Jobs] \union {NoEntry}]
    BY DEF Submit, IInv, TypeOK
  <2> QED
    BY <1>1, <1>2, <1>3, <2>1 DEF IInv, TypeOK, Record
<1>5. StoredAreIssued'
  BY <1>1, <1>2 DEF IInv, StoredAreIssued
<1>6. ContextsArePast'
  <2>1. \A ctx \in contexts : ctx[1] # j /\ ctx[1] \in Jobs
    BY <1>1 DEF IInv, ContextsArePast, TypeOK
  <2> QED
    BY <1>1, <1>2, <2>1 DEF IInv, ContextsArePast
<1>7. RecordsValid' /\ WorkOfCurrentAttempt'
  BY <1>2, <1>3 DEF IInv, RecordsValid, WorkOfCurrentAttempt
<1>8. ASSUME NEW u \in Tasks PROVE FrameOK(u)'
  <2>1. call[u].pc # "idle" => call[u].job # j /\ call[u].job \in Jobs
    BY <1>1 DEF FrameOK, IInv, TypeOK
  <2> QED
    BY <1>1, <1>2, <2>1 DEF FrameOK, Working, SeenBindsAttempt
<1>9. OneExecutionPerAttempt'
  BY <1>1 DEF IInv, OneExecutionPerAttempt, Owns, Working
<1> QED
  BY <1>4, <1>5, <1>6, <1>7, <1>8, <1>9 DEF IInv

\* Removing records leaves the others and every frame as they are.
LEMMA PurgeStep ==
  ASSUME IInv, PurgeSweeps
  PROVE  IInv'
<1>1. /\ \A j \in Jobs : records'[j] \in {records[j], NoRecord}
      /\ records' \in [Jobs -> Record \union {NoRecord}]
      /\ UNCHANGED <<issued, contexts, call, clock>>
  BY DEF PurgeSweeps, IInv, TypeOK
<1>2. \A j \in Jobs : Stored(j)' => Stored(j) /\ records'[j] = records[j]
  BY <1>1 DEF NoRecord
<1>3. TypeOK'
  <2>1. keys' \in [Keys -> [request : Requests, job : Jobs] \union {NoEntry}]
    BY DEF PurgeSweeps, IInv, TypeOK
  <2>2. purgeNow' = None
    BY DEF PurgeSweeps
  <2> QED
    BY <1>1, <2>1, <2>2 DEF IInv, TypeOK
<1>4. StoredAreIssued' /\ RecordsValid' /\ WorkOfCurrentAttempt'
  BY <1>1, <1>2 DEF IInv, StoredAreIssued, RecordsValid, WorkOfCurrentAttempt
<1>5. ContextsArePast'
  <2>1. \A ctx \in contexts : ctx[1] \in Jobs
    BY DEF IInv, TypeOK
  <2> QED
    BY <1>1, <1>2, <2>1 DEF IInv, ContextsArePast
<1>6. ASSUME NEW u \in Tasks PROVE FrameOK(u)'
  <2>1. FrameOK(u) /\ (call[u].pc # "idle" => call[u].job \in Jobs)
    BY DEF IInv, TypeOK, FrameOK
  <2> QED
    BY <1>1, <1>2, <2>1 DEF FrameOK, Working, SeenBindsAttempt
<1>7. OneExecutionPerAttempt'
  BY <1>1 DEF IInv, OneExecutionPerAttempt, Owns, Working
<1> QED
  BY <1>3, <1>4, <1>5, <1>6, <1>7 DEF IInv

\* The clock and a purge that has yet to take the lock.
LEMMA ClockStep ==
  ASSUME IInv, UNCHANGED <<records, keys, issued, contexts, call>>,
         purgeNow' \in {purgeNow, clock}, clock' \in Time
  PROVE  IInv'
<1>1. TypeOK'
  BY DEF IInv, TypeOK
<1>2. \A u \in Tasks : FrameOK(u)'
  BY DEF IInv, FrameOK, Working, SeenBindsAttempt
<1> QED
  BY <1>1, <1>2 DEF IInv, StoredAreIssued, ContextsArePast, RecordsValid,
     WorkOfCurrentAttempt, OneExecutionPerAttempt, Owns, Working

\* IInv is inductive.
THEOREM Inductive == IInv /\ [Next]_vars => IInv'
<1> SUFFICES ASSUME IInv, [Next]_vars PROVE IInv'
  OBVIOUS
<1>1. ASSUME NEW j \in Jobs, NEW request \in Requests, Submit(j, request)
      PROVE  IInv'
  BY <1>1, SubmitStep
<1>2. CASE PurgeSweeps
  BY <1>2, PurgeStep
<1>3. CASE PurgeReadsClock \/ Tick \/ Rewind \/ UNCHANGED vars
  <2>1. /\ UNCHANGED <<records, keys, issued, contexts, call>>
        /\ purgeNow' \in {purgeNow, clock} /\ clock' \in Time
    BY <1>3 DEF PurgeReadsClock, Tick, Rewind, vars, IInv, TypeOK
  <2> QED
    BY <2>1, ClockStep
<1>4. ASSUME NEW t \in Tasks, NEW j \in issued, Run(t, j) \/ Control(t, j)
      PROVE  IInv'
  BY <1>4, EnterStep
<1>5. ASSUME NEW t \in Tasks,
             Report(t) \/ StoreStep(t) \/ HandlerEnds(t) \/ CallLost(t) \/ ReplyLost(t)
      PROVE  IInv'
  <2>1. CASE Report(t)
    BY <2>1, EnterStep
  <2>2. CASE NotFound(t) \/ CallLost(t)
    BY <2>2, LeaveStep DEF NotFound, CallLost
  <2>3. CASE Load(t) \/ Read(t)
    BY <2>3, GetStep
  <2>4. CASE Claim(t)
    BY <2>4, ClaimStep
  <2>5. CASE Commit(t) \/ ReplyLost(t)
    BY <2>5, CommitStep
  <2>6. CASE Conflict(t) \/ ValueRaised(t) \/ Refused(t)
    BY <2>6, RefusalStep
  <2>7. CASE AskToken(t)
    BY <2>7, TokenStep
  <2>8. CASE HandlerEnds(t)
    BY <2>8, HandlerStep
  <2> QED
    BY <1>5, <2>1, <2>2, <2>3, <2>4, <2>5, <2>6, <2>7, <2>8 DEF StoreStep
<1> QED
  BY <1>1, <1>2, <1>3, <1>4, <1>5 DEF Next

\* The store, the runner's tasks and whatever happens to their calls keep the
\* invariant for ever.
THEOREM Invariance == Spec => []IInv
<1>1. Init => IInv
  BY InitIInv
<1>2. IInv /\ [Next]_vars => IInv'
  BY Inductive
<1> QED
  BY <1>1, <1>2, PTL DEF Spec

\* Type correctness, for every value of the constants.
THEOREM TypeCorrect == Spec => []TypeOK
<1>1. IInv => TypeOK
  BY DEF IInv
<1> QED
  BY <1>1, Invariance, PTL

\* No interleaving of tasks, lost calls and clock steps puts a record in the store
\* that JobRecord's own validators would refuse.
THEOREM RecordsAlwaysValid == Spec => []RecordsValid
<1>1. IInv => RecordsValid
  BY DEF IInv
<1> QED
  BY <1>1, Invariance, PTL

\* However many tasks run the same job, an attempt is executed by one of them.
THEOREM AttemptsExecutedOnce == Spec => []OneExecutionPerAttempt
<1>1. IInv => OneExecutionPerAttempt
  BY DEF IInv
<1> QED
  BY <1>1, Invariance, PTL

\* Progress and results in a record come from the attempt it is on.
THEOREM WorkNeverOutlivesAttempt == Spec => []WorkOfCurrentAttempt
<1>1. IInv => WorkOfCurrentAttempt
  BY DEF IInv
<1> QED
  BY <1>1, Invariance, PTL

-----------------------------------------------------------------------------
(* The service: what the public fields of a record show, keys, retention,  *)
(* owners, and the contract of the ports.                                  *)

\* What the public fields of a record show of a change, one case per action of the
\* contract.
Same(r, s) ==
  s.attempt = r.attempt /\ s.cancellationRequested = r.cancellationRequested

SeenNothing(r, s) == Same(r, s) /\ s.status = r.status
SeenStart(r, s)   == Same(r, s) /\ r.status = QUEUED /\ s.status = RUNNING
SeenFinish(r, s)  ==
  /\ Same(r, s) /\ r.status = RUNNING
  /\ \/ s.status \in {SUCCEEDED, FAILED}
     \/ s.status = CANCELLED /\ r.cancellationRequested
SeenCancel(r, s)  ==
  /\ s.attempt = r.attempt /\ s.cancellationRequested = TRUE
  /\ r.request.cancellable
  /\ \/ r.status = QUEUED /\ s.status = CANCELLED
     \/ r.status = RUNNING /\ s.status = RUNNING
SeenRetry(r, s)   ==
  /\ r.status = FAILED /\ s.status = QUEUED
  /\ r.attempt < r.request.maxAttempts /\ s.attempt = r.attempt + 1
  /\ s.cancellationRequested = FALSE

Outcome == {"succeed", "fail", "acknowledge"}

\* The effect of a permitted change on what others see of the job.
LEMMA TransitionSeen ==
  ASSUME NEW r \in RecordOf(Requests), NEW c \in Changes, Permits(r, c),
         NEW now \in Time
  PROVE  LET s == Transition(r, c, now) IN
           /\ s.request = r.request
           /\ s = r \/ s.updatedAt = now
           /\ c.type = "start" => SeenStart(r, s)
           /\ c.type = "progress" => SeenNothing(r, s)
           /\ c.type = "retry" => SeenRetry(r, s)
           /\ c.type = "cancel" => IF IsNoOp(r, c) THEN s = r ELSE SeenCancel(r, s)
           /\ c.type \in Outcome => SeenFinish(r, s)
<1> DEFINE s == Transition(r, c, now)
<1> USE DEF Same, SeenNothing, SeenStart, SeenFinish, SeenCancel, SeenRetry, Outcome
<1>1. CASE c.type = "start"
  <2>1. s = Start(r, now) /\ r.status = QUEUED
    BY <1>1 DEF Transition, IsNoOp, Permits
  <2> QED
    BY <1>1, <2>1 DEF Start, Touch, RecordOf
<1>2. CASE c.type = "retry"
  <2>1. s = Requeue(r, now) /\ r.status = FAILED /\ r.attempt < r.request.maxAttempts
    BY <1>2 DEF Transition, IsNoOp, Permits
  <2> QED
    BY <1>2, <2>1 DEF Requeue, Touch, RecordOf
<1>3. CASE c.type = "cancel" /\ IsNoOp(r, c)
  <2>1. s = r
    BY <1>3 DEF Transition
  <2> QED
    BY <1>3, <2>1
<1>4. CASE c.type = "cancel" /\ ~IsNoOp(r, c)
  <2>1. s = Cancel(r, now) /\ r.request.cancellable
    BY <1>4 DEF Transition, Permits
  <2>2. CASE r.status = QUEUED
    BY <1>4, <2>1, <2>2 DEF Cancel, Touch, RecordOf
  <2>3. CASE r.status # QUEUED
    <3>1. r.status = RUNNING
      BY <1>4, <2>3 DEF Permits, IsNoOp
    <3> QED
      BY <1>4, <2>1, <3>1 DEF Cancel, Touch, RecordOf
  <2> QED
    BY <2>2, <2>3
<1>5. CASE c.type = "progress"
  <2>1. s = [Touch(r, now) EXCEPT !.progress = c.by]
    BY <1>5 DEF Transition, IsNoOp
  <2> QED
    BY <1>5, <2>1 DEF Touch, RecordOf
<1>6. CASE c.type \in Outcome
  <2>1. /\ \/ s = Finish(r, SUCCEEDED, now, "none", c.by)
           \/ s = Finish(r, FAILED, now, c.error, r.result)
           \/ /\ s = Finish(r, CANCELLED, now, "none", r.result)
              /\ r.cancellationRequested
        /\ r.status = RUNNING
    BY <1>6 DEF Transition, IsNoOp, Permits
  <2>2. \A status \in Terminal : \A error, result :
          LET f == Finish(r, status, now, error, result) IN
            /\ f.status = status /\ f.attempt = r.attempt
            /\ f.request = r.request /\ f.updatedAt = now
            /\ f.cancellationRequested = r.cancellationRequested
    BY DEF Finish, Touch, RecordOf
  <2>3. /\ s.attempt = r.attempt /\ s.cancellationRequested = r.cancellationRequested
        /\ s.request = r.request /\ s.updatedAt = now
        /\ \/ s.status \in {SUCCEEDED, FAILED}
           \/ s.status = CANCELLED /\ r.cancellationRequested
    BY <2>1, <2>2
  <2> QED
    BY <1>6, <2>1, <2>3
<1> QED
  BY <1>1, <1>2, <1>3, <1>4, <1>5, <1>6 DEF Changes

\* t stores the change it has in hand, with or without learning of it.
Stores(t) ==
  /\ call[t].pc = "commit" /\ Accepted(t) /\ Store(t)
  /\ \/ UNCHANGED contexts
     \/ /\ call[t].change.type = "start"
        /\ contexts' = contexts \union {<<call[t].job, records[call[t].job].attempt>>}
  /\ UNCHANGED <<keys, issued, purgeNow, clock>>

\* The steps by which the store changes: the others leave records and keys alone.
LEMMA RecordSteps ==
  ASSUME [Next]_vars
  PROVE  \/ \E j \in Jobs, request \in Requests : Submit(j, request)
         \/ PurgeSweeps
         \/ \E t \in Tasks : Stores(t)
         \/ /\ UNCHANGED <<records, keys, issued, contexts>>
            /\ \/ UNCHANGED <<purgeNow, clock>>
               \/ PurgeReadsClock \/ Tick \/ Rewind
<1> SUFFICES ASSUME ~(\E j \in Jobs, request \in Requests : Submit(j, request)),
                    ~PurgeSweeps, ~PurgeReadsClock, ~Tick, ~Rewind
             PROVE  \/ \E t \in Tasks : Stores(t)
                    \/ UNCHANGED <<records, keys, issued, contexts, purgeNow, clock>>
  BY DEF PurgeReadsClock, Tick, Rewind
<1>1. ASSUME NEW t \in Tasks, NEW j \in issued, Run(t, j) \/ Control(t, j)
      PROVE  UNCHANGED <<records, keys, issued, contexts, purgeNow, clock>>
  BY <1>1 DEF Run, Control, Enter
<1>2. ASSUME NEW t \in Tasks, Claim(t) \/ Commit(t) \/ ReplyLost(t)
      PROVE  Stores(t)
  BY <1>2 DEF Claim, Commit, ReplyLost, Stores
<1>3. ASSUME NEW t \in Tasks,
             \/ Report(t) \/ NotFound(t) \/ Load(t) \/ Read(t) \/ Conflict(t)
             \/ ValueRaised(t) \/ Refused(t) \/ AskToken(t) \/ HandlerEnds(t)
             \/ CallLost(t)
      PROVE  UNCHANGED <<records, keys, issued, contexts, purgeNow, clock>>
  BY <1>3 DEF Report, Enter, NotFound, Load, Read, Conflict, ValueRaised, Refused,
     AskToken, HandlerEnds, HandlerReturns, HandlerRaises, OwnerCancelled,
     HandlerStops, CallLost, Leave, Conclude
<1>4. CASE UNCHANGED vars
  BY <1>4 DEF vars
<1>5. CASE \E t \in Tasks, j \in issued : Run(t, j) \/ Control(t, j)
  BY <1>5, <1>1
<1>6. CASE \E t \in Tasks :
        Report(t) \/ StoreStep(t) \/ HandlerEnds(t) \/ CallLost(t) \/ ReplyLost(t)
  BY <1>6, <1>2, <1>3 DEF StoreStep
<1> QED
  BY <1>4, <1>5, <1>6 DEF Next

\* What a stored change does to the record it changes, and to no other.
LEMMA StoreKeepsTerms ==
  ASSUME IInv, NEW t \in Tasks, Stores(t)
  PROVE  \A i \in Jobs : /\ Stored(i) <=> Stored(i)'
                         /\ Stored(i) => records'[i].request = records[i].request
<1> DEFINE j == call[t].job
           s == Transition(records[j], call[t].change, clock)
<1>1. /\ j \in Jobs /\ records[j] \in RecordOf(Requests)
      /\ \A i \in Jobs : (Stored(i) <=> Stored(i)')
                         /\ (i # j => records'[i] = records[i])
  BY StoreStepInv DEF Stores
<1>2. records'[j] = s
  BY <1>1 DEF Stores, Store, IInv, TypeOK
<1>3. call[t].change \in Changes /\ clock \in Time
      /\ Permits(records[j], call[t].change)
  BY DEF Stores, Accepted, IInv, TypeOK, Frames
<1>4. s.request = records[j].request
  BY <1>1, <1>3, TransitionSeen
<1> QED
  BY <1>1, <1>2, <1>4

\* The invariant of the runner makes it inductive that every stored key leads to a
\* stored job submitted under it, and every job submitted under a key is found by it.
THEOREM KeysInductive == IInv /\ KeysMatchRecords /\ [Next]_vars => KeysMatchRecords'
<1> SUFFICES ASSUME IInv, KeysMatchRecords, [Next]_vars PROVE KeysMatchRecords'
  OBVIOUS
<1> USE NoJobAssumption DEF NoEntry
<1>1. ASSUME NEW j \in Jobs, NEW request \in Requests, Submit(j, request)
      PROVE  KeysMatchRecords'
  <2> DEFINE n == NewRecord(request, clock)
  <2>1. n.status # "absent" /\ n.request = request
    BY DEF NewRecord
  <2> HIDE DEF n
  <2>2. /\ ~Stored(j) /\ records'[j] = n
        /\ \A i \in Jobs : i # j => records'[i] = records[i]
        /\ request.key \in Keys => keys[request.key].job = NoJob
        /\ \A k \in Keys : keys'[k] = IF k = request.key
                                      THEN [request |-> request, job |-> j]
                                      ELSE keys[k]
    BY <1>1 DEF Submit, IInv, TypeOK, StoredAreIssued, n
  <2> QED
    BY <2>1, <2>2 DEF KeysMatchRecords, IInv, TypeOK
<1>2. CASE PurgeSweeps
  <2>1. /\ \A i \in Jobs : records'[i] = IF Expired(i, purgeNow) THEN NoRecord
                                                                ELSE records[i]
        /\ \A k \in Keys : keys'[k] = IF keys[k].job \in Jobs /\ Expired(keys[k].job, purgeNow)
                                      THEN NoEntry ELSE keys[k]
    BY <1>2 DEF PurgeSweeps
  <2> QED
    BY <2>1 DEF KeysMatchRecords, IInv, TypeOK, NoRecord
<1>3. ASSUME NEW t \in Tasks, Stores(t)
      PROVE  KeysMatchRecords'
  <2>1. \A i \in Jobs : /\ Stored(i) <=> Stored(i)'
                        /\ Stored(i) => records'[i].request = records[i].request
    BY <1>3, StoreKeepsTerms
  <2> QED
    BY <1>3, <2>1 DEF Stores, KeysMatchRecords, IInv, TypeOK
<1>4. CASE UNCHANGED <<records, keys>>
  BY <1>4 DEF KeysMatchRecords
<1> QED
  BY <1>1, <1>2, <1>3, <1>4, RecordSteps

\* Submission is idempotent per key for as long as the job lives.
THEOREM KeysAlwaysMatch == Spec => []KeysMatchRecords
<1>1. Init => KeysMatchRecords
  BY DEF Init, KeysMatchRecords, NoRecord
<1>2. IInv /\ KeysMatchRecords /\ [Next]_vars => KeysMatchRecords'
  BY KeysInductive
<1> QED
  BY <1>1, <1>2, Invariance, PTL DEF Spec
-----------------------------------------------------------------------------

\* The instant a purge read from the clock is not in the future.
PurgeIsPast == purgeNow <= clock

\* A job that disappears was terminal, and its own retention had run out since it
\* finished; this is about a clock that never goes back.
THEOREM RetentionCounted ==
  ASSUME ~ClockMayRewind
  PROVE  Spec => RetentionRespected
<1> DEFINE Leaves(j) == Stored(j) /\ ~Stored(j)' =>
                          /\ records[j].status \in Terminal
                          /\ clock >= records[j].finishedAt + records[j].request.retention
<1>1. Init => PurgeIsPast
  BY DEF Init, PurgeIsPast
<1>2. IInv /\ PurgeIsPast /\ [Next]_vars => PurgeIsPast'
  <2> SUFFICES ASSUME IInv, PurgeIsPast, [Next]_vars PROVE PurgeIsPast'
    OBVIOUS
  <2>1. clock \in Nat /\ purgeNow \in Nat \union {-1}
    BY DEF IInv, TypeOK
  <2>2. ASSUME NEW j \in Jobs, NEW request \in Requests, Submit(j, request)
        PROVE  PurgeIsPast'
    BY <2>2 DEF Submit, PurgeIsPast
  <2>3. CASE PurgeSweeps
    BY <2>3, <2>1 DEF PurgeSweeps, PurgeIsPast
  <2>4. CASE UNCHANGED <<purgeNow, clock>> \/ \E t \in Tasks : Stores(t)
    BY <2>4 DEF PurgeIsPast, Stores
  <2>5. CASE PurgeReadsClock \/ Tick
    BY <2>5, <2>1 DEF PurgeReadsClock, Tick, PurgeIsPast
  <2>6. ~Rewind
    BY DEF Rewind
  <2> QED
    BY <2>2, <2>3, <2>4, <2>5, <2>6, RecordSteps
<1>3. IInv /\ PurgeIsPast /\ [Next]_vars => \A j \in Jobs : Leaves(j)
  <2> SUFFICES ASSUME IInv, PurgeIsPast, [Next]_vars, NEW j \in Jobs,
                      Stored(j), ~Stored(j)'
               PROVE  /\ records[j].status \in Terminal
                      /\ clock >= records[j].finishedAt + records[j].request.retention
    OBVIOUS
  <2>1. ~\E i \in Jobs, request \in Requests : Submit(i, request)
    <3>1. ASSUME NEW i \in Jobs, NEW request \in Requests, Submit(i, request)
          PROVE  FALSE
      BY <3>1 DEF Submit, IInv, TypeOK, StoredAreIssued, NewRecord
    <3> QED
      BY <3>1
  <2>2. ~\E t \in Tasks : Stores(t)
    BY StoreKeepsTerms
  <2>3. PurgeSweeps
    BY <2>1, <2>2, RecordSteps
  <2>4. Expired(j, purgeNow)
    BY <2>3 DEF PurgeSweeps
  <2>5. /\ records[j].finishedAt \in Nat \union {-1}
        /\ records[j].request.retention \in Nat
    BY StoredIsRecord, RequestsAssumption DEF IInv, RecordOf, Request
  <2>6. clock \in Nat /\ purgeNow \in Nat \union {-1}
    BY DEF IInv, TypeOK
  <2> QED
    BY <2>4, <2>5, <2>6 DEF Expired, PurgeIsPast
<1> QED
  BY <1>1, <1>2, <1>3, Invariance, PTL DEF Spec, RetentionRespected
-----------------------------------------------------------------------------
\* The circumstances under which RunningHasOwner is claimed: no store call is lost,
\* the clock is monotonic, and only a cancellation may race a task that publishes.
QuietStore ==
  ~StoreFaults /\ ~ClockMayRewind /\ Reporters = {} /\ ChangeTries > 1

\* What each kind of task has in hand when it calls the store.
RoleOK(t) ==
  LET f == call[t] IN
    /\ t \in Clients => f.pc \in {"idle", "load", "read", "commit"}
    /\ t \in Clients /\ f.pc # "idle" => f.change.type \in {"cancel", "retry"}
    /\ t \in Runners /\ f.pc = "read" => f.change.type \in Outcome
    /\ t \in Runners /\ f.pc = "commit" => f.change.type \in Outcome \union {"start"}

\* t executes the current attempt of j, or holds an outcome of it that the store will
\* accept, at the latest after the one cancellation that can intervene.
Publishes(t, j) ==
  LET f == call[t]
      r == records[j]
  IN /\ f.job = j /\ f.attempt = r.attempt
     /\ f.pc \in {"read", "commit", "execute", "token"}
     /\ f.pc \in {"read", "commit"} =>
          /\ f.change.type \in Outcome
          /\ f.change.type = "acknowledge" => r.cancellationRequested
          /\ f.tries = 0 \/ (f.tries = 1 /\ r.cancellationRequested)
     /\ f.pc = "commit" /\ f.seen # r.version =>
          f.tries = 0 /\ r.cancellationRequested

RecordsArePast == \A j \in Jobs : Stored(j) => records[j].updatedAt <= clock

OwnerInv ==
  /\ RecordsArePast
  /\ \A t \in Tasks : RoleOK(t)
  /\ \A j \in Jobs : records[j].status = RUNNING =>
       \E t \in Runners : Publishes(t, j)

\* A step of one task that leaves the store alone, and the publication in hand if there
\* was one.
LEMMA OwnerFrameStep ==
  ASSUME IInv, OwnerInv, NEW t \in Tasks,
         \A u \in Tasks \ {t} : call'[u] = call[u],
         UNCHANGED <<records, clock>>,
         RoleOK(t)',
         \A j \in Jobs : t \in Runners /\ records[j].status = RUNNING /\ Publishes(t, j)
           => Publishes(t, j)'
  PROVE  OwnerInv'
<1>1. RecordsArePast'
  BY DEF OwnerInv, RecordsArePast
<1>2. \A u \in Tasks : RoleOK(u)'
  BY DEF OwnerInv, RoleOK
<1>3. ASSUME NEW j \in Jobs, records[j].status = RUNNING
      PROVE  \E u \in Runners : Publishes(u, j)'
  <2>1. PICK u \in Runners : Publishes(u, j)
    BY <1>3 DEF OwnerInv
  <2>2. CASE u = t
    BY <1>3, <2>1, <2>2
  <2>3. CASE u # t
    BY <2>1, <2>3, RunnersAreTasks DEF Publishes
  <2> QED
    BY <2>1, <2>2, <2>3
<1> QED
  BY <1>1, <1>2, <1>3 DEF OwnerInv

\* What a task that publishes can count on.
LEMMA PublisherFacts ==
  ASSUME IInv, OwnerInv, NEW t \in Runners, NEW j \in Jobs,
         records[j].status = RUNNING, Publishes(t, j)
  PROVE  /\ call[t] \in Frames /\ call[t].job = j /\ Stored(j)
         /\ records[j] \in RecordOf(Requests)
         /\ call[t].attempt = records[j].attempt
         /\ records[j].updatedAt <= clock
         /\ call[t].pc \notin {"idle", "load"}
  BY RunnersAreTasks, StoredIsRecord
     DEF IInv, TypeOK, OwnerInv, Publishes, RecordsArePast

\* No path through run drops a running job.
LEMMA PublisherGoesOn ==
  ASSUME QuietStore, IInv, OwnerInv, NEW t \in Runners, NEW j \in Jobs,
         records[j].status = RUNNING, Publishes(t, j),
         \/ NotFound(t) \/ Load(t) \/ Read(t) \/ Conflict(t) \/ ValueRaised(t)
         \/ Refused(t) \/ AskToken(t) \/ HandlerEnds(t) \/ CallLost(t)
  PROVE  Publishes(t, j)'
<1> DEFINE r == records[j]
<1>1. /\ call[t] \in Frames /\ call[t].job = j /\ Stored(j)
      /\ r \in RecordOf(Requests)
      /\ call[t].attempt = r.attempt
      /\ r.updatedAt <= clock
      /\ call[t].pc \notin {"idle", "load"}
      /\ t \in Tasks
  BY PublisherFacts, RunnersAreTasks
<1>2. r.updatedAt \in Nat /\ clock \in Nat /\ call[t].tries \in Nat
  BY <1>1 DEF RecordOf, IInv, TypeOK, Frames
<1>3. ~NotFound(t) /\ ~Load(t) /\ ~CallLost(t)
  BY <1>1 DEF NotFound, Load, CallLost, QuietStore
<1>4. CASE Read(t)
  <2>1. /\ call' = [call EXCEPT ![t].pc = "commit", ![t].seen = r.version]
        /\ UNCHANGED records /\ call[t].pc = "read"
    BY <1>1, <1>4 DEF Read
  <2>2. /\ call'[t].pc = "commit" /\ call'[t].tries = call[t].tries
        /\ call'[t].seen = r.version
        /\ call'[t].job = j /\ call'[t].attempt = r.attempt
        /\ call'[t].change = call[t].change
    BY <1>1, <2>1 DEF IInv, TypeOK, Frames
  <2> QED
    BY <2>1, <2>2 DEF Publishes
<1>5. CASE Conflict(t)
  <2>1. /\ call[t].pc = "commit" /\ call[t].seen # r.version
        /\ call[t].change.type \in Outcome
        /\ call[t].tries = 0 /\ r.cancellationRequested
    BY <1>1, <1>5 DEF Conflict, Current, Publishes
  <2>2. /\ call' = [call EXCEPT ![t].pc = "read", ![t].tries = @ + 1]
        /\ UNCHANGED records
    BY <1>5, <2>1 DEF Conflict, QuietStore, Outcome
  <2>3. /\ call'[t].pc = "read" /\ call'[t].tries = 1
        /\ call'[t].job = j /\ call'[t].attempt = r.attempt
        /\ call'[t].change = call[t].change
    BY <1>1, <2>1, <2>2 DEF IInv, TypeOK, Frames
  <2> QED
    BY <2>1, <2>2, <2>3 DEF Publishes
<1>6. ASSUME NEW c, Conclude(t, c),
             c = FailJob("handler_failed") \/ c = FailJob("execution_interrupted")
             \/ (c = Acknowledge /\ r.cancellationRequested)
      PROVE  Publishes(t, j)'
  <2>1. /\ call'[t].pc = "read" /\ call'[t].tries = 0
        /\ call'[t].job = j /\ call'[t].attempt = r.attempt
        /\ call'[t].change = c
        /\ UNCHANGED records
    BY <1>1, <1>6 DEF Conclude, IInv, TypeOK, Frames
  <2>2. c.type \in {"fail", "acknowledge"}
        /\ (c.type = "acknowledge" => r.cancellationRequested)
    BY <1>6 DEF FailJob, Acknowledge, Change
  <2> QED
    BY <2>1, <2>2 DEF Publishes, Outcome
<1>7. CASE ValueRaised(t)
  <2>1. call[t].change.type = "succeed"
    BY <1>1, <1>2, <1>7 DEF ValueRaised, RaisesValueError
  <2> QED
    BY <1>6, <1>7, <2>1 DEF ValueRaised
<1>8. ~Refused(t)
  BY <1>1 DEF Refused, Permits, Publishes, Outcome
<1>9. CASE AskToken(t)
  BY <1>1, <1>6, <1>9 DEF AskToken
<1>10. CASE HandlerRaises(t) \/ OwnerCancelled(t)
  BY <1>6, <1>10 DEF HandlerRaises, OwnerCancelled
<1>11. CASE HandlerReturns(t)
  <2>1. PICK work \in {"valid", "invalid"} :
          call' = [call EXCEPT ![t].pc = "read", ![t].work = work,
                     ![t].tries = 0, ![t].change = SucceedJob(call[t].attempt)]
    BY <1>11 DEF HandlerReturns
  <2>2. call'[t] = [call[t] EXCEPT !.pc = "read", !.work = work, !.tries = 0,
                                   !.change = SucceedJob(call[t].attempt)]
        /\ UNCHANGED records
    BY <1>1, <1>11, <2>1 DEF HandlerReturns, IInv, TypeOK
  <2>3. SucceedJob(call[t].attempt).type = "succeed"
    BY DEF SucceedJob, Change
  <2> QED
    BY <1>1, <2>2, <2>3 DEF Publishes, Frames, Outcome
<1>12. CASE HandlerStops(t)
  <2>1. call'[t] = [call[t] EXCEPT !.pc = "token"] /\ UNCHANGED records
    BY <1>1, <1>12 DEF HandlerStops, IInv, TypeOK
  <2> QED
    BY <1>1, <2>1 DEF Publishes, Frames
<1> QED
  BY <1>3, <1>4, <1>5, <1>7, <1>8, <1>9, <1>10, <1>11, <1>12 DEF HandlerEnds

\* The steps that change nothing but the frame of one task.
LEMMA OwnerCallStep ==
  ASSUME QuietStore, IInv, OwnerInv, NEW t \in Tasks,
         \/ \E j \in issued : Run(t, j) \/ Control(t, j)
         \/ NotFound(t) \/ Load(t) \/ Read(t) \/ Conflict(t) \/ ValueRaised(t)
         \/ Refused(t) \/ AskToken(t) \/ HandlerEnds(t) \/ CallLost(t)
  PROVE  OwnerInv'
<1> DEFINE Gets == NotFound(t) \/ Load(t) \/ Read(t) \/ Conflict(t) \/ ValueRaised(t)
                   \/ Refused(t) \/ AskToken(t) \/ HandlerEnds(t) \/ CallLost(t)
<1> USE DEF Outcome
<1>1. call[t] \in Frames /\ FrameOK(t) /\ RoleOK(t) /\ call \in [Tasks -> Frames]
  BY DEF IInv, TypeOK, OwnerInv
<1>2. Idle.pc = "idle" /\ StartJob.type = "start" /\ CancelJob.type = "cancel"
      /\ RetryJob.type = "retry" /\ Acknowledge.type = "acknowledge"
      /\ (\A e : FailJob(e).type = "fail") /\ (\A a : SucceedJob(a).type = "succeed")
  BY DEF Idle, StartJob, CancelJob, RetryJob, Acknowledge, FailJob, SucceedJob, Change
<1>3. \A pc, j, a, c : Frame(pc, j, a, c).pc = pc /\ Frame(pc, j, a, c).change = c
  BY DEF Frame, Idle
<1>4. ASSUME NEW j \in issued, Run(t, j) \/ Control(t, j) PROVE OwnerInv'
  <2>1. PICK c \in {StartJob, CancelJob, RetryJob} :
          /\ Enter(t, Frame("load", j, None, c))
          /\ t \in Runners <=> c = StartJob
    BY <1>2, <1>4, TasksAssumption DEF Run, Control
  <2>2. /\ call[t].pc = "idle"
        /\ call'[t].pc = "load" /\ call'[t].change = c
        /\ \A u \in Tasks \ {t} : call'[u] = call[u]
        /\ UNCHANGED <<records, clock>>
    BY <1>1, <1>3, <2>1 DEF Enter
  <2>3. RoleOK(t)'
    BY <1>2, <2>1, <2>2, TasksAssumption DEF RoleOK
  <2>4. \A i \in Jobs : ~Publishes(t, i)
    BY <2>2 DEF Publishes
  <2> QED
    BY <2>2, <2>3, <2>4, OwnerFrameStep
<1>5. CASE Gets
  <2>1. /\ \A u \in Tasks \ {t} : call'[u] = call[u]
        /\ UNCHANGED <<records, clock>>
    BY <1>1, <1>5 DEF NotFound, Load, Read, Conflict, ValueRaised, Refused, AskToken,
       HandlerEnds, HandlerReturns, HandlerRaises, OwnerCancelled, HandlerStops,
       CallLost, Leave, Conclude
  <2>2. RoleOK(t)'
    <3>1. CASE Leave(t)
      BY <1>1, <1>2, <3>1, TasksAssumption DEF RoleOK, Leave
    <3>2. CASE Load(t)
      BY <1>1, <3>2, TasksAssumption DEF RoleOK, Load, FrameOK, Frames
    <3>3. CASE Read(t) /\ ~Leave(t)
      BY <1>1, <3>3, TasksAssumption DEF RoleOK, Read, Frames
    <3>4. CASE Conflict(t) /\ ~Leave(t)
      BY <1>1, <3>4, TasksAssumption DEF RoleOK, Conflict, Frames
    <3>5. ASSUME NEW c, Conclude(t, c), t \in Runners, c.type \in Outcome
          PROVE  RoleOK(t)'
      BY <1>1, <3>5, TasksAssumption DEF RoleOK, Conclude, Frames
    <3>6. CASE ValueRaised(t) /\ ~Leave(t)
      <4>1. Conclude(t, FailJob("handler_failed")) /\ t \in Runners
        BY <1>1, <3>6 DEF ValueRaised, RoleOK, Tasks, QuietStore
      <4> QED
        BY <1>2, <3>5, <4>1
    <3>7. CASE AskToken(t) /\ ~Leave(t)
      <4>1. t \in Runners /\ \E c \in {Acknowledge, FailJob("handler_failed")} : Conclude(t, c)
        BY <1>1, <3>7 DEF AskToken, FrameOK
      <4> QED
        BY <1>2, <3>5, <4>1
    <3>8. CASE HandlerRaises(t) \/ OwnerCancelled(t)
      <4>1. t \in Runners /\ \E e : Conclude(t, FailJob(e))
        BY <1>1, <3>8 DEF HandlerRaises, OwnerCancelled, FrameOK
      <4> QED
        BY <1>2, <3>5, <4>1
    <3>9. CASE HandlerReturns(t)
      BY <1>1, <1>2, <3>9, TasksAssumption DEF HandlerReturns, RoleOK, FrameOK, Frames
    <3>10. CASE HandlerStops(t)
      BY <1>1, <3>10, TasksAssumption DEF HandlerStops, RoleOK, FrameOK, Frames
    <3> QED
      BY <1>5, <3>1, <3>2, <3>3, <3>4, <3>6, <3>7, <3>8, <3>9, <3>10
         DEF NotFound, Refused, CallLost, HandlerEnds
  <2>3. \A j \in Jobs : t \in Runners /\ records[j].status = RUNNING /\ Publishes(t, j)
           => Publishes(t, j)'
    BY <1>5, PublisherGoesOn
  <2> QED
    BY <2>1, <2>2, <2>3, OwnerFrameStep
<1> QED
  BY <1>4, <1>5

\* A change reaches the store: it starts the job for its new owner, ends it, or is
\* the cancellation that the owner still has a try for.
LEMMA OwnerStoreStep ==
  ASSUME QuietStore, IInv, OwnerInv, NEW t \in Tasks, Claim(t) \/ Commit(t)
  PROVE  OwnerInv'
<1> DEFINE j == call[t].job
           c == call[t].change
           r == records[j]
           s == Transition(r, c, clock)
<1> USE DEF Outcome
<1>1. /\ call[t].pc = "commit" /\ Accepted(t) /\ Store(t)
      /\ UNCHANGED <<issued, clock>>
  BY DEF Claim, Commit
<1>2. /\ j \in Jobs /\ Stored(j) /\ r \in RecordOf(Requests)
      /\ \A i \in Jobs : (Stored(i) <=> Stored(i)') /\ (i # j => records'[i] = records[i])
  BY <1>1, StoreStepInv
<1>3. records'[j] = s
  BY <1>1, <1>2 DEF Store, IInv, TypeOK
<1>4. c \in Changes /\ clock \in Time /\ Permits(r, c) /\ call \in [Tasks -> Frames]
  BY <1>1 DEF Accepted, IInv, TypeOK, Frames
<1>5. /\ s = r \/ s.updatedAt = clock
      /\ c.type = "start" => SeenStart(r, s)
      /\ c.type = "retry" => SeenRetry(r, s)
      /\ c.type = "cancel" => IF IsNoOp(r, c) THEN s = r ELSE SeenCancel(r, s)
      /\ c.type \in Outcome => SeenFinish(r, s)
  BY <1>2, <1>4, TransitionSeen
<1> HIDE DEF s
<1>6. RoleOK(t) /\ FrameOK(t)
  BY DEF OwnerInv, IInv
<1>7. \A u \in Tasks \ {t} : call'[u] = call[u]
  BY <1>4 DEF Claim, Commit
<1>8. RecordsArePast'
  BY <1>1, <1>2, <1>3, <1>4, <1>5 DEF OwnerInv, RecordsArePast
<1>9. ASSUME NEW u \in Tasks PROVE RoleOK(u)'
  <2>1. CASE u # t
    BY <1>7, <2>1 DEF OwnerInv, RoleOK
  <2>2. CASE u = t
    <3>1. call'[t].pc = "idle" \/ (call'[t].pc = "execute" /\ t \in Runners)
      <4>1. Commit(t) => call'[t].pc = "idle"
        BY <1>4 DEF Commit, Idle
      <4>2. Claim(t) => call'[t].pc = "execute" /\ t \in Runners
        BY <1>1, <1>4, <1>6 DEF Claim, FrameOK, Frames
      <4> QED
        BY <4>1, <4>2
    <3> QED
      BY <2>2, <3>1, TasksAssumption DEF RoleOK
  <2> QED
    BY <2>1, <2>2
<1>10. ASSUME NEW i \in Jobs, records'[i].status = RUNNING
       PROVE  \E u \in Runners : Publishes(u, i)'
  <2>1. CASE i # j
    <3>1. PICK u \in Runners : Publishes(u, i)
      BY <1>2, <1>10, <2>1 DEF OwnerInv
    <3>2. u # t
      BY <2>1, <3>1 DEF Publishes
    <3> QED
      BY <1>2, <1>7, <2>1, <3>1, <3>2, RunnersAreTasks DEF Publishes
  <2>2. CASE i = j /\ c.type = "start"
    <3>1. Claim(t) /\ t \in Runners
      BY <1>1, <1>6, <2>2 DEF Commit, FrameOK
    <3>2. /\ call'[t].pc = "execute" /\ call'[t].job = j
          /\ call'[t].attempt = r.attempt
      BY <1>4, <3>1 DEF Claim, Frames
    <3> QED
      BY <1>3, <1>5, <2>2, <3>1, <3>2 DEF Publishes, SeenStart, Same
  <2>3. CASE i = j /\ c.type # "start"
    <3>1. c.type = "cancel" /\ t \notin Runners
      BY <1>1, <1>3, <1>5, <1>6, <1>10, <2>3
         DEF RoleOK, QuietStore, Tasks, SeenRetry, SeenFinish
    <3>2. /\ r.status = RUNNING /\ s.cancellationRequested
          /\ s.attempt = r.attempt
          /\ s = r \/ ~r.cancellationRequested
      BY <1>3, <1>5, <1>10, <2>3, <3>1 DEF IsNoOp, SeenCancel
    <3>3. PICK u \in Runners : Publishes(u, j)
      BY <1>2, <3>2 DEF OwnerInv
    <3>4. call'[u] = call[u] /\ call[u].tries \in Nat
      BY <1>4, <1>7, <3>1, <3>3, RunnersAreTasks DEF Frames
    <3> QED
      BY <1>3, <2>3, <3>2, <3>3, <3>4 DEF Publishes
  <2> QED
    BY <2>1, <2>2, <2>3
<1> QED
  BY <1>8, <1>9, <1>10 DEF OwnerInv

\* Steps outside the runner: no running job is touched.
LEMMA OwnerEnvironmentStep ==
  ASSUME QuietStore, IInv, OwnerInv,
         \/ \E j \in Jobs, request \in Requests : Submit(j, request)
         \/ PurgeReadsClock \/ PurgeSweeps \/ Tick \/ UNCHANGED vars
  PROVE  OwnerInv'
<1>1. UNCHANGED call /\ clock' >= clock /\ clock \in Nat /\ clock' \in Nat
  BY DEF Submit, PurgeReadsClock, PurgeSweeps, Tick, vars, IInv, TypeOK
<1>2. \A j \in Jobs :
        \/ records'[j] = records[j] \/ records'[j] = NoRecord
        \/ records'[j].status = QUEUED /\ records'[j].updatedAt = clock
  <2>1. ASSUME NEW j \in Jobs, NEW request \in Requests, Submit(j, request),
               NEW i \in Jobs
        PROVE  \/ records'[i] = records[i]
               \/ records'[i].status = QUEUED /\ records'[i].updatedAt = clock
    BY <2>1 DEF Submit, NewRecord, IInv, TypeOK
  <2> QED
    BY <2>1 DEF PurgeReadsClock, PurgeSweeps, Tick, vars
<1>3. \A j \in Jobs : Stored(j) => records[j].updatedAt \in Nat
  BY StoredIsRecord DEF IInv, RecordOf
<1>4. RecordsArePast'
  BY <1>1, <1>2, <1>3 DEF OwnerInv, RecordsArePast, NoRecord
<1>5. \A t \in Tasks : RoleOK(t)'
  BY <1>1 DEF OwnerInv, RoleOK
<1>6. ASSUME NEW j \in Jobs, records'[j].status = RUNNING
      PROVE  \E t \in Runners : Publishes(t, j)'
  <2>1. records'[j] = records[j]
    BY <1>2, <1>6 DEF NoRecord
  <2>2. PICK t \in Runners : Publishes(t, j)
    BY <1>6, <2>1 DEF OwnerInv
  <2> QED
    BY <1>1, <2>1, <2>2 DEF Publishes
<1> QED
  BY <1>4, <1>5, <1>6 DEF OwnerInv

\* A running job is always being executed by a task that will publish its outcome.
THEOREM RunningJobsAreOwned ==
  ASSUME QuietStore
  PROVE  Spec => []RunningHasOwner
<1>1. Init => OwnerInv
  <2>1. Idle.pc = "idle" /\ NoRecord.status = "absent"
    BY DEF Idle, NoRecord
  <2> QED
    BY <2>1 DEF Init, OwnerInv, RecordsArePast, RoleOK
<1>2. IInv /\ OwnerInv /\ [Next]_vars => OwnerInv'
  <2> SUFFICES ASSUME IInv, OwnerInv, [Next]_vars PROVE OwnerInv'
    OBVIOUS
  <2>1. CASE \/ \E j \in Jobs, request \in Requests : Submit(j, request)
             \/ PurgeReadsClock \/ PurgeSweeps \/ Tick \/ UNCHANGED vars
    BY <2>1, OwnerEnvironmentStep
  <2>2. ASSUME NEW t \in Tasks, NEW j \in issued, Run(t, j) \/ Control(t, j)
        PROVE  OwnerInv'
    BY <2>2, OwnerCallStep
  <2>3. ASSUME NEW t \in Tasks,
               Report(t) \/ StoreStep(t) \/ HandlerEnds(t) \/ CallLost(t) \/ ReplyLost(t)
        PROVE  OwnerInv'
    <3>1. ~Report(t) /\ ~ReplyLost(t)
      BY DEF Report, ReplyLost, QuietStore
    <3>2. CASE Claim(t) \/ Commit(t)
      BY <3>2, OwnerStoreStep
    <3> QED
      BY <2>3, <3>1, <3>2, OwnerCallStep DEF StoreStep
  <2>4. ~Rewind
    BY DEF Rewind, QuietStore
  <2> QED
    BY <2>1, <2>2, <2>3, <2>4 DEF Next
<1>3. IInv /\ OwnerInv => RunningHasOwner
  <2>1. \A t \in Runners, j \in Jobs :
          Publishes(t, j) => Owns(t, j) /\ call[t].attempt = records[j].attempt
    BY DEF Publishes, Owns, Working, Outcome
  <2> QED
    BY <2>1 DEF OwnerInv, RunningHasOwner
<1> QED
  BY <1>1, <1>2, <1>3, Invariance, PTL DEF Spec
-----------------------------------------------------------------------------
\* What changes for one job changes for no other in the public view.
LEMMA ViewStep ==
  ASSUME NEW j \in Jobs, \A i \in Jobs \ {j} : records'[i] = records[i],
         \A i \in Jobs \ {j} : i \in issued' <=> i \in issued
  PROVE  /\ PublicStatus' = [PublicStatus EXCEPT ![j] = PublicStatus'[j]]
         /\ PublicTerms' = [PublicTerms EXCEPT ![j] = PublicTerms'[j]]
         /\ PublicAttempt' = [PublicAttempt EXCEPT ![j] = PublicAttempt'[j]]
         /\ PublicRequested' = [PublicRequested EXCEPT ![j] = PublicRequested'[j]]
<1>1. PublicStatus' = [PublicStatus EXCEPT ![j] = PublicStatus'[j]]
  BY DEF PublicStatus
<1>2. PublicTerms' = [PublicTerms EXCEPT ![j] = PublicTerms'[j]]
  BY DEF PublicTerms
<1>3. PublicAttempt' = [PublicAttempt EXCEPT ![j] = PublicAttempt'[j]]
  BY DEF PublicAttempt
<1>4. PublicRequested' = [PublicRequested EXCEPT ![j] = PublicRequested'[j]]
  BY DEF PublicRequested
<1> QED
  BY <1>1, <1>2, <1>3, <1>4

\* The public view of a stored job.
LEMMA StoredView ==
  ASSUME NEW j \in Jobs, Stored(j)
  PROVE  /\ PublicStatus[j] = records[j].status
         /\ PublicTerms[j] = records[j].request
         /\ PublicAttempt[j] = records[j].attempt
         /\ PublicRequested[j] = records[j].cancellationRequested
  BY DEF PublicStatus, PublicTerms, PublicAttempt, PublicRequested

\* A submission is the contract's.
LEMMA SubmitSeen ==
  ASSUME IInv, NEW j \in Jobs, NEW request \in Requests, Submit(j, request)
  PROVE  Contract!Submit(j)
<1> DEFINE n == NewRecord(request, clock)
<1>1. /\ ~Stored(j) /\ j \notin issued /\ issued' = issued \union {j}
      /\ records'[j] = n /\ \A i \in Jobs \ {j} : records'[i] = records[i]
      /\ contexts' = contexts
  BY DEF Submit, IInv, TypeOK, StoredAreIssued
<1>2. /\ PublicStatus' = [PublicStatus EXCEPT ![j] = PublicStatus'[j]]
      /\ PublicTerms' = [PublicTerms EXCEPT ![j] = PublicTerms'[j]]
      /\ PublicAttempt' = [PublicAttempt EXCEPT ![j] = PublicAttempt'[j]]
      /\ PublicRequested' = [PublicRequested EXCEPT ![j] = PublicRequested'[j]]
  BY <1>1, ViewStep
<1>3. PublicStatus'[j] = "queued" /\ PublicTerms'[j] = request /\ PublicAttempt'[j] = 1
  BY <1>1 DEF NewRecord, PublicStatus, PublicTerms, PublicAttempt
<1>4. PublicStatus[j] = "absent"
  BY <1>1 DEF PublicStatus
<1>5. PublicRequested' = PublicRequested
  <2>1. ~Stored(j) /\ n.cancellationRequested = FALSE
    BY <1>1 DEF NewRecord
  <2>2. PublicRequested[j] = FALSE /\ PublicRequested'[j] = FALSE
    BY <1>1, <2>1 DEF PublicRequested
  <2>3. PublicRequested = [PublicRequested EXCEPT ![j] = FALSE]
    BY <2>2 DEF PublicRequested
  <2> QED
    BY <1>2, <2>2, <2>3
<1> QED
  BY <1>1, <1>2, <1>3, <1>4, <1>5 DEF Contract!Submit, Contract!Move

\* Records removed at once by a purge.
LEMMA ExpirySeen ==
  ASSUME IInv, PurgeSweeps
  PROVE  Contract!Expire
<1> DEFINE gone == {j \in Jobs : Expired(j, purgeNow)}
<1>1. /\ \A j \in Jobs : records'[j] = IF j \in gone THEN NoRecord ELSE records[j]
      /\ UNCHANGED <<issued, contexts>>
  BY DEF PurgeSweeps
<1>2. \A j \in gone : /\ j \in Jobs /\ Stored(j) /\ j \in issued
                      /\ PublicStatus[j] \in {"succeeded", "failed", "cancelled"}
  BY DEF Expired, PublicStatus, IInv, StoredAreIssued
<1>3. gone \in SUBSET {j \in Jobs : PublicStatus[j] \in
                                  {"succeeded", "failed", "cancelled"}}
  BY <1>2
<1> HIDE DEF gone
<1>4. \A j \in Jobs : /\ j \in gone => ~Stored(j)'
                      /\ j \notin gone => records'[j] = records[j]
  BY <1>1 DEF NoRecord
<1>5. PublicStatus' = [j \in Jobs |-> IF j \in gone THEN "expired" ELSE PublicStatus[j]]
  BY <1>4, <1>1, <1>2 DEF PublicStatus
<1>6. PublicTerms' = [j \in Jobs |-> IF j \in gone THEN Contract!NoTerms
                                    ELSE PublicTerms[j]]
  BY <1>4 DEF PublicTerms, Contract!NoTerms
<1>7. PublicAttempt' = [j \in Jobs |-> IF j \in gone THEN 0 ELSE PublicAttempt[j]]
  BY <1>4 DEF PublicAttempt
<1>8. PublicRequested' = [j \in Jobs |-> IF j \in gone THEN FALSE
                                        ELSE PublicRequested[j]]
  BY <1>4 DEF PublicRequested
<1> QED
  BY <1>1, <1>3, <1>5, <1>6, <1>7, <1>8 DEF Contract!Expire

\* A stored change is one action of the contract; the claim of an attempt may or may not
\* be followed by the entry of its handler.
LEMMA ChangeSeen ==
  ASSUME IInv, NEW t \in Tasks, Stores(t)
  PROVE  \/ \E j \in Jobs : Contract!Start(j) \/ Contract!Finish(j)
                             \/ Contract!Cancel(j) \/ Contract!Retry(j)
         \/ UNCHANGED Contract!vars
<1> DEFINE c == call[t].change
<1> USE DEF Stores
<1>0. PICK j \in Jobs : j = call[t].job
  BY StoreStepInv
<1> DEFINE r == records[j]
           s == records'[j]
<1>1. /\ j \in Jobs /\ Stored(j) /\ Stored(j)' /\ r \in RecordOf(Requests)
      /\ \A i \in Jobs \ {j} : records'[i] = records[i]
  <2>1. /\ j \in Jobs /\ Stored(j) /\ r \in RecordOf(Requests)
        /\ \A i \in Jobs : (Stored(i) <=> Stored(i)')
                           /\ (i # j => records'[i] = records[i])
    BY <1>0, StoreStepInv
  <2> QED
    BY <2>1
<1>2. s = Transition(r, c, clock)
  BY <1>0, <1>1 DEF Store, IInv, TypeOK
<1>3. c \in Changes /\ clock \in Time /\ Permits(r, c)
  BY <1>0 DEF Accepted, IInv, TypeOK, Frames
<1>4. s.request = r.request
  BY <1>1, <1>2, <1>3, TransitionSeen
<1>5. /\ PublicStatus' = [PublicStatus EXCEPT ![j] = s.status]
      /\ PublicTerms' = PublicTerms
      /\ PublicAttempt' = [PublicAttempt EXCEPT ![j] = s.attempt]
      /\ PublicRequested' = [PublicRequested EXCEPT ![j] = s.cancellationRequested]
  <2>1. /\ PublicStatus' = [PublicStatus EXCEPT ![j] = PublicStatus'[j]]
        /\ PublicTerms' = [PublicTerms EXCEPT ![j] = PublicTerms'[j]]
        /\ PublicAttempt' = [PublicAttempt EXCEPT ![j] = PublicAttempt'[j]]
        /\ PublicRequested' = [PublicRequested EXCEPT ![j] = PublicRequested'[j]]
    BY <1>1, ViewStep
  <2>2. /\ PublicStatus'[j] = s.status /\ PublicTerms'[j] = s.request
        /\ PublicAttempt'[j] = s.attempt
        /\ PublicRequested'[j] = s.cancellationRequested
    BY <1>1 DEF PublicStatus, PublicTerms, PublicAttempt, PublicRequested
  <2>3. PublicTerms = [PublicTerms EXCEPT ![j] = r.request]
    BY <1>1, StoredView DEF PublicTerms
  <2> QED
    BY <1>4, <2>1, <2>2, <2>3
<1>6. /\ PublicStatus[j] = r.status /\ PublicTerms[j] = r.request
      /\ PublicAttempt[j] = r.attempt
      /\ PublicRequested[j] = r.cancellationRequested
  BY <1>1, StoredView
<1>7. /\ PublicStatus = [PublicStatus EXCEPT ![j] = r.status]
      /\ PublicAttempt = [PublicAttempt EXCEPT ![j] = r.attempt]
      /\ PublicRequested = [PublicRequested EXCEPT ![j] = r.cancellationRequested]
  BY <1>1, <1>6 DEF PublicStatus, PublicAttempt, PublicRequested
<1>8. IF c.type = "start" THEN SeenStart(r, s)
      ELSE SeenNothing(r, s) \/ SeenFinish(r, s) \/ SeenCancel(r, s)
           \/ SeenRetry(r, s)
  <2>1. /\ c.type = "start" => SeenStart(r, s)
        /\ c.type = "progress" => SeenNothing(r, s)
        /\ c.type = "retry" => SeenRetry(r, s)
        /\ c.type = "cancel" => IF IsNoOp(r, c) THEN s = r ELSE SeenCancel(r, s)
        /\ c.type \in Outcome => SeenFinish(r, s)
    BY <1>1, <1>2, <1>3, TransitionSeen
  <2> QED
    BY <1>3, <2>1 DEF Changes, Outcome, SeenNothing, Same
<1>9. Same(r, s) => PublicAttempt' = PublicAttempt /\ PublicRequested' = PublicRequested
  BY <1>5, <1>7 DEF Same
<1>10. CASE c.type # "start" /\ SeenNothing(r, s)
  BY <1>5, <1>7, <1>9, <1>10 DEF SeenNothing, Contract!vars
<1>11. CASE c.type = "start" /\ SeenStart(r, s)
  <2>1. contexts' \in {contexts, contexts \union {<<j, PublicAttempt[j]>>}}
    BY <1>0, <1>6
  <2> QED
    BY <1>1, <1>5, <1>6, <1>9, <1>11, <2>1
       DEF SeenStart, Contract!Start, Contract!Move
<1>12. CASE c.type # "start" /\ SeenFinish(r, s)
  BY <1>1, <1>5, <1>6, <1>9, <1>12 DEF SeenFinish, Contract!Finish, Contract!Move
<1>13. CASE c.type # "start" /\ SeenCancel(r, s)
  <2>1. PublicAttempt' = PublicAttempt
        /\ (s.status = r.status => PublicStatus' = PublicStatus)
    BY <1>5, <1>7, <1>13 DEF SeenCancel
  <2> QED
    BY <1>1, <1>5, <1>6, <1>13, <2>1 DEF SeenCancel, Contract!Cancel, Contract!Move
<1>14. CASE c.type # "start" /\ SeenRetry(r, s)
  <2>1. [PublicAttempt EXCEPT ![j] = @ + 1] = [PublicAttempt EXCEPT ![j] = r.attempt + 1]
    BY <1>6
  <2> QED
    BY <1>1, <1>5, <1>6, <1>14, <2>1 DEF SeenRetry, Contract!Retry, Contract!Move
<1> QED
  BY <1>8, <1>10, <1>11, <1>12, <1>13, <1>14

\* One step of the runner, its store or its environment is one step of the contract, or
\* none.
LEMMA StepSeen == IInv /\ [Next]_vars => [Contract!Next]_(Contract!vars)
<1> SUFFICES ASSUME IInv, [Next]_vars PROVE [Contract!Next]_(Contract!vars)
  OBVIOUS
<1>1. ASSUME NEW j \in Jobs, NEW request \in Requests, Submit(j, request)
      PROVE  Contract!Next
  BY <1>1, SubmitSeen DEF Contract!Next
<1>2. CASE PurgeSweeps
  BY <1>2, ExpirySeen DEF Contract!Next
<1>3. ASSUME NEW t \in Tasks, Stores(t)
      PROVE  [Contract!Next]_(Contract!vars)
  BY <1>3, ChangeSeen DEF Contract!Next
<1>4. CASE UNCHANGED <<records, issued, contexts>>
  BY <1>4 DEF Contract!vars, PublicStatus, PublicTerms, PublicAttempt,
              PublicRequested
<1> QED
  BY <1>1, <1>2, <1>3, <1>4, RecordSteps

\* JobRunner implements JobContract.
THEOREM RunnerKeepsContract == Spec => KeepsContract
<1>1. Init => Contract!Init
  BY DEF Init, NoRecord, Contract!Init, Contract!NoTerms, PublicStatus, PublicTerms,
         PublicAttempt, PublicRequested
<1>2. IInv /\ [Next]_vars => [Contract!Next]_(Contract!vars)
  BY StepSeen
<1> QED
  BY <1>1, <1>2, Invariance, PTL DEF Spec, KeepsContract, Contract!Spec
=============================================================================
