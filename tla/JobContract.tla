---------------------------- MODULE JobContract -----------------------------
(***************************************************************************)
(* What the ports job_store.py and job_runner.py promise their users about *)
(* a job, whatever store and runner are behind them: its public status,    *)
(* the attempt it is on, whether cancellation was requested, and which     *)
(* attempts had their handler entered.                                     *)
(***************************************************************************)
EXTENDS Naturals

CONSTANTS Jobs, Requests

VARIABLES
  status,     \* "absent", a JobStatus, or "expired" once retention is over
  terms,      \* the request of each known job: policy, budget of attempts
  attempt,    \* current attempt, 0 while there is no job
  requested,  \* cancellation was requested in this attempt
  entered     \* the <<job, attempt>> whose handler was entered

vars == <<status, terms, attempt, requested, entered>>

NoTerms == [cancellable |-> FALSE, maxAttempts |-> 0]

Init ==
  /\ status = [j \in Jobs |-> "absent"]
  /\ terms = [j \in Jobs |-> NoTerms]
  /\ attempt = [j \in Jobs |-> 0]
  /\ requested = [j \in Jobs |-> FALSE]
  /\ entered = {}

Move(j, from, to) ==
  status[j] \in from /\ status' = [status EXCEPT ![j] = to]

\* An identity serves one job.
Submit(j) ==
  /\ Move(j, {"absent"}, "queued")
  /\ \E request \in Requests : terms' = [terms EXCEPT ![j] = request]
  /\ attempt' = [attempt EXCEPT ![j] = 1]
  /\ UNCHANGED <<requested, entered>>

\* "Execute one queued attempt": it is claimed once, and its handler is entered
\* by the claimant or, if the claim's answer is lost, by nobody.
Start(j) ==
  /\ Move(j, {"queued"}, "running")
  /\ entered' \in {entered, entered \union {<<j, attempt[j]>>}}
  /\ UNCHANGED <<terms, attempt, requested>>

Finish(j) ==
  /\ \/ Move(j, {"running"}, "succeeded")
     \/ Move(j, {"running"}, "failed")
     \/ requested[j] /\ Move(j, {"running"}, "cancelled")
  /\ UNCHANGED <<terms, attempt, requested, entered>>

\* "Cancel queued work immediately, or request cooperative cancellation."
Cancel(j) ==
  /\ terms[j].cancellable
  /\ \/ Move(j, {"queued"}, "cancelled")
     \/ status[j] = "running" /\ UNCHANGED status
  /\ requested' = [requested EXCEPT ![j] = TRUE]
  /\ UNCHANGED <<terms, attempt, entered>>

\* "Explicitly requeue a failed job within its attempt budget."
Retry(j) ==
  /\ Move(j, {"failed"}, "queued")
  /\ attempt[j] < terms[j].maxAttempts
  /\ attempt' = [attempt EXCEPT ![j] = @ + 1]
  /\ requested' = [requested EXCEPT ![j] = FALSE]
  /\ UNCHANGED <<terms, entered>>

\* "Explicitly remove expired terminal records": any number at a time.
Expire ==
  \E gone \in SUBSET {j \in Jobs : status[j] \in
                        {"succeeded", "failed", "cancelled"}} :
    /\ status' = [j \in Jobs |-> IF j \in gone THEN "expired" ELSE status[j]]
    /\ terms' = [j \in Jobs |-> IF j \in gone THEN NoTerms ELSE terms[j]]
    /\ attempt' = [j \in Jobs |-> IF j \in gone THEN 0 ELSE attempt[j]]
    /\ requested' = [j \in Jobs |-> IF j \in gone THEN FALSE ELSE requested[j]]
    /\ UNCHANGED entered

Next ==
  \/ \E j \in Jobs : Submit(j) \/ Start(j) \/ Finish(j) \/ Cancel(j) \/ Retry(j)
  \/ Expire

Spec == Init /\ [][Next]_vars
=============================================================================
