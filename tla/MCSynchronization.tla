-------------------------- MODULE MCSynchronization -------------------------
(* Small instances of Synchronization for TLC. *)
EXTENDS Synchronization, TLC

CONSTANTS full1, incr1, k1, k2, k3, v1

Modes == [j \in Jobs |-> IF j = full1 THEN "full" ELSE "incremental"]

OneVersion == [j \in Jobs |-> v1]

\* The incremental job may be retried.
Attempts == [j \in Jobs |-> IF j = full1 THEN 1 ELSE 2]

Symmetry == Permutations(Keys)
=============================================================================
