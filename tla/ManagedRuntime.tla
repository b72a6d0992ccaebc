---------------------------- MODULE ManagedRuntime ----------------------------
(***************************************************************************)
(* The child process that the project screen of the cockpit starts, stops  *)
(* and restarts (cli/arclith_cli/tui_runtime.py, tui_dashboard.py).  Each  *)
(* start is a worker that spawns a child, becomes its owner and streams    *)
(* its output; a start cancels the worker before it.  stop is called by a  *)
(* control worker, by a worker that is cancelled and by a screen that      *)
(* leaves.  A child is the leader of its process group.                    *)
(***************************************************************************)
EXTENDS Naturals, FiniteSets

CONSTANTS Launches, NoLaunch

Control == "control"  \* the exclusive worker of stop and restart
Unmount == "unmount"

ManagedAssumption == {NoLaunch, Control, Unmount} \intersect Launches = {}

VARIABLES
  open,     \* the screen is mounted
  process,  \* _process: the launch whose child is owned
  worker,   \* each run of a child
  child,    \* each child
  stops     \* the calls of stop in progress

cockpitVars == <<open, process, worker, child, stops>>

Stoppers == Launches \union {Control, Unmount}
NoStop == [pc |-> "idle", of |-> NoLaunch, restart |-> FALSE]

ManagedTypeOK ==
  /\ open \in BOOLEAN
  /\ process \in Launches \union {NoLaunch}
  /\ worker \in [Launches ->
       [pc : {"new", "spawn", "stream", "stop", "ended"}, cancelled : BOOLEAN]]
  /\ child \in [Launches -> {"none", "alive", "dead"}]
  /\ stops \in [Stoppers -> [pc : {"idle", "grace", "reap", "over"},
                             of : Launches \union {NoLaunch}, restart : BOOLEAN]]

ManagedInit ==
  /\ open = TRUE /\ process = NoLaunch
  /\ worker = [l \in Launches |-> [pc |-> "new", cancelled |-> FALSE]]
  /\ child = [l \in Launches |-> "none"]
  /\ stops = [s \in Stoppers |-> NoStop]

-----------------------------------------------------------------------------
Works(l, pc) == worker[l].pc = pc
Enters(l, pc) == worker' = [worker EXCEPT ![l].pc = pc]
IsRunning == process # NoLaunch /\ child[process] = "alive"

\* A new worker of the group cancels the others.
Cancelled(w) ==
  [l \in Launches |-> IF w[l].pc \in {"spawn", "stream"}
                      THEN [w[l] EXCEPT !.cancelled = TRUE] ELSE w[l]]

\* action_start_runtime, and run up to the call that spawns.
Launched(l) ==
  /\ open /\ ~IsRunning /\ Works(l, "new")
  /\ worker' = [Cancelled(worker) EXCEPT ![l].pc = "spawn"]

StartRuntime(l) ==
  /\ Launched(l)
  /\ UNCHANGED <<open, process, child, stops>>

\* The child runs before the call that spawns it returns.
Spawn(l) ==
  /\ Works(l, "spawn") /\ child[l] = "none" /\ ~worker[l].cancelled
  /\ child' = [child EXCEPT ![l] = "alive"]
  /\ UNCHANGED <<open, process, worker, stops>>

\* The executable is not there; or the worker is cancelled, and asyncio kills the child.
SpawnFails(l) ==
  /\ Works(l, "spawn") /\ (worker[l].cancelled \/ child[l] = "none")
  /\ child' = [child EXCEPT ![l] = "dead"]
  /\ Enters(l, "ended")
  /\ UNCHANGED <<open, process, stops>>

Own(l) ==
  /\ Works(l, "spawn") /\ child[l] # "none" /\ ~worker[l].cancelled
  /\ process' = l
  /\ Enters(l, "stream")
  /\ UNCHANGED <<open, child, stops>>

\* It returns, crashes or obeys a signal.
Exit(l) ==
  /\ child[l] = "alive"
  /\ child' = [child EXCEPT ![l] = "dead"]
  /\ UNCHANGED <<open, process, worker, stops>>

\* A defect that TLC must notice: whoever ends gives up what is owned.
Disowns_Any(l) == process' = NoLaunch
\* Another launch may own by then.
Disowns(l) == process' = IF process = l THEN NoLaunch ELSE process

\* The output and the child have ended, or the worker is cancelled: finally.
Finish(l) ==
  /\ Works(l, "stream")
  /\ IF process = l /\ child[l] = "alive"
     THEN /\ worker[l].cancelled
          /\ stops' = [stops EXCEPT ![l] = [NoStop EXCEPT !.pc = "grace", !.of = l]]
          /\ Enters(l, "stop")
          /\ UNCHANGED process
     ELSE /\ child[l] = "dead" \/ worker[l].cancelled
          /\ Disowns(l)
          /\ Enters(l, "ended")
          /\ UNCHANGED stops
  /\ UNCHANGED <<open, child>>

-----------------------------------------------------------------------------
(* stop.                                                                    *)

\* SIGINT to the group; nothing to do without a child that lives.
Interrupt(s, restart) ==
  stops' = [stops EXCEPT ![s] =
    [pc |-> IF IsRunning THEN "grace" ELSE "over", of |-> process, restart |-> restart]]

\* A new control worker cancels the one before, whose signal was sent.
AskStop(restart) ==
  /\ open
  /\ Interrupt(Control, restart)
  /\ UNCHANGED <<open, process, worker, child>>

\* The grace period is over: SIGKILL.
Escalate(s) ==
  /\ stops[s].pc = "grace" /\ child[stops[s].of] = "alive"
  /\ stops' = [stops EXCEPT ![s].pc = "reap"]
  /\ child' = [child EXCEPT ![stops[s].of] = "dead"]
  /\ UNCHANGED <<open, process, worker>>

Stopped(s) ==
  /\ stops[s].pc \in {"grace", "reap"} /\ child[stops[s].of] = "dead"
  /\ Disowns(stops[s].of)
  /\ stops' = [stops EXCEPT ![s].pc = "over"]
  /\ IF s \in Launches THEN Enters(s, "ended") ELSE UNCHANGED worker
  /\ UNCHANGED <<open, child>>

Return(s) ==
  /\ s \notin Launches /\ stops[s].pc = "over"
  /\ IF stops[s].restart /\ open /\ ~IsRunning
     THEN (\E l \in Launches : Launched(l)) ELSE UNCHANGED worker
  /\ stops' = [stops EXCEPT ![s] = NoStop]
  /\ UNCHANGED <<open, process, child>>

\* The screen is left: its workers are cancelled, and on_unmount stops the child.
Leave ==
  /\ open /\ open' = FALSE
  /\ worker' = Cancelled(worker)
  /\ Interrupt(Unmount, FALSE)
  /\ UNCHANGED <<process, child>>

CockpitNext ==
  \/ \E l \in Launches :
       StartRuntime(l) \/ Spawn(l) \/ SpawnFails(l) \/ Own(l) \/ Exit(l) \/ Finish(l)
  \/ \E restart \in BOOLEAN : AskStop(restart)
  \/ \E s \in Stoppers : Escalate(s) \/ Stopped(s) \/ Return(s)
  \/ Leave

-----------------------------------------------------------------------------
\* Of the children that nobody gave up only one lives; while its worker streams it,
\* stop would find it; and none outlives the workers of a screen that was left.
OneChildIsOwned ==
  LET Wanted == {l \in Launches : child[l] = "alive" /\ ~worker[l].cancelled} IN
  /\ Cardinality(Wanted) <= 1
  /\ \A l \in Wanted : Works(l, "stream") => process = l
  /\ ~open => \A l \in Launches : Works(l, "ended") => child[l] # "alive"
=============================================================================
