-------------------------- MODULE WorkflowContract --------------------------
(***************************************************************************)
(* What the ports workflow_store.py and workflow_runner.py promise about a *)
(* sequential workflow: its public status, the steps that were confirmed   *)
(* and by which attempt, the attempts spent on the next step, and which    *)
(* attempts a business step was entered with.                              *)
(***************************************************************************)
EXTENDS Naturals, Sequences

CONSTANTS Workflows, Budgets

VARIABLES
  flow,     \* the public view of each workflow
  entered   \* the <<workflow, step, attempt>> handed to a business step

vars == <<flow, entered>>

NoFlow(status) == [status |-> status]

NewFlow(budget) ==
  [status |-> "pending", budget |-> budget, confirmed |-> << >>, tried |-> 0,
   inStep |-> FALSE, requested |-> FALSE]

Init ==
  /\ flow = [w \in Workflows |-> NoFlow("absent")]
  /\ entered = {}

Unconfirmed(f) == Len(f.confirmed) < Len(f.budget)
CanTry(f) == Unconfirmed(f) => f.tried < f.budget[Len(f.confirmed) + 1]

Becomes(w, f) == flow' = [flow EXCEPT ![w] = f]
Is(w, statuses) == flow[w].status \in statuses

\* An identity serves one workflow.
Create(w) ==
  /\ Is(w, {"absent"})
  /\ \E budget \in Budgets : Becomes(w, NewFlow(budget))
  /\ UNCHANGED entered

Run(w) ==
  /\ Is(w, {"pending"})
  /\ Becomes(w, [flow[w] EXCEPT !.status = "running"])
  /\ UNCHANGED entered

\* Resume consumes another attempt, so one must be left, unless the pass is only
\* to acknowledge a cancellation or to publish.
Resume(w) ==
  /\ Is(w, {"failed", "running"})
  /\ flow[w].requested \/ CanTry(flow[w])
  /\ Becomes(w, [flow[w] EXCEPT !.status = "running", !.inStep = FALSE])
  /\ UNCHANGED entered

\* Entered once, or by nobody if the answer is lost.
Begin(w) ==
  /\ Is(w, {"running"})
  /\ LET f == flow[w] IN
       /\ Unconfirmed(f) /\ CanTry(f) /\ ~f.inStep /\ ~f.requested
       /\ Becomes(w, [f EXCEPT !.inStep = TRUE, !.tried = @ + 1])
       /\ entered' \in
            {entered, entered \union {<<w, Len(f.confirmed) + 1, f.tried + 1>>}}

Confirm(w) ==
  /\ Is(w, {"running"}) /\ flow[w].inStep
  /\ Becomes(w, [flow[w] EXCEPT !.confirmed = Append(@, flow[w].tried),
                                !.inStep = FALSE, !.tried = 0])
  /\ UNCHANGED entered

Complete(w) ==
  /\ Is(w, {"running"}) /\ ~Unconfirmed(flow[w]) /\ ~flow[w].requested
  /\ Becomes(w, [flow[w] EXCEPT !.status = "completed"])
  /\ UNCHANGED entered

Fail(w) ==
  /\ Is(w, {"running"})
  /\ Becomes(w, [flow[w] EXCEPT !.status = "failed", !.inStep = FALSE])
  /\ UNCHANGED entered

Acknowledge(w) ==
  /\ Is(w, {"running"}) /\ flow[w].requested
  /\ Becomes(w, [flow[w] EXCEPT !.status = "cancelled"])
  /\ UNCHANGED entered

\* A pending workflow is cancelled at once, a running one between two steps.
Cancel(w) ==
  /\ Is(w, {"pending", "running"})
  /\ Becomes(w, [flow[w] EXCEPT !.requested = TRUE,
                   !.status = IF @ = "pending" THEN "cancelled" ELSE @])
  /\ UNCHANGED entered

Delete(w) ==
  /\ Is(w, {"completed", "failed", "cancelled"})
  /\ Becomes(w, NoFlow("deleted"))
  /\ UNCHANGED entered

Next ==
  \E w \in Workflows :
    \/ Create(w) \/ Run(w) \/ Resume(w) \/ Begin(w) \/ Confirm(w) \/ Complete(w)
    \/ Fail(w) \/ Acknowledge(w) \/ Cancel(w) \/ Delete(w)

Spec == Init /\ [][Next]_vars
=============================================================================
