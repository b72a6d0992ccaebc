---------------------------- MODULE MCJobRunner -----------------------------
(* Small instances of JobRunner for TLC. *)
EXTENDS JobRunner, TLC

CONSTANTS j1, j2, r1, r2, c1, c2, p1, k1

\* One cancellable job with one retry.
RetriableOnce == {[key |-> k1, cancellable |-> TRUE, maxAttempts |-> 2,
                   retention |-> 1]}

\* Two different requests that compete for one key.
CompetingForAKey ==
  {[key |-> k1, cancellable |-> TRUE, maxAttempts |-> 2, retention |-> 1],
   [key |-> k1, cancellable |-> FALSE, maxAttempts |-> 1, retention |-> 1]}

Symmetry == Permutations(Runners)
=============================================================================
