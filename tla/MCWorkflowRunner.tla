-------------------------- MODULE MCWorkflowRunner --------------------------
(* Small instances of WorkflowRunner for TLC. *)
EXTENDS WorkflowRunner

CONSTANTS w1, t1, t2, c1

\* Two steps, the first of which may be tried twice.
TwoSteps == {<<2, 1>>}
=============================================================================
