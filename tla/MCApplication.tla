---------------------------- MODULE MCApplication -----------------------------
(* Small instances of Application for TLC. *)
EXTENDS Application, TLC

\* Tasks stand for the requests, the workers or the runtimes: a behaviour has one kind.
\* More symmetry would cost more than it saves.
CONSTANTS t1, t2, t3, p1, p2, k1, v1, v2

Declared == {<<"draft", "submitted">>, <<"submitted", "approved">>,
             <<"submitted", "draft">>}

\* Tenant "a" moves to another server, "b" to another schema of one it shares with no
\* other.
Secrets ==
  [a |-> <<[server |-> "s1", space |-> "x"], [server |-> "s2", space |-> Unnamed]>>,
   b |-> <<[server |-> Unnamed, space |-> "x"], [server |-> Unnamed, space |-> "y"]>>]
Configuration == [server |-> "s0", space |-> "x"]

Symmetry == Permutations(Requests)
=============================================================================
