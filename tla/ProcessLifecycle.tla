--------------------------- MODULE ProcessLifecycle ---------------------------
(***************************************************************************)
(* What one process opens and closes (arclith.py, fastapi_bootstrap.py,    *)
(* langgraph_bootstrap.py, langgraph_persistence_factory.py): the threads  *)
(* of run_with_probes, each an API, an MCP server or a command bus, around *)
(* the telemetry runtime they reach through one cached property; and       *)
(* compiled graphs with the checkpointer and the store they own.           *)
(***************************************************************************)
EXTENDS Naturals, SequencesExt

CONSTANTS
  Runners, NoRuntime,
  Graphs,
  MaxRaises  \* bound on the calls that raise

ProcessAssumption == NoRuntime \notin Runners /\ MaxRaises \in Nat

VARIABLES
  enabled,    \* observability.enabled
  cached,     \* _observability_runtime: the runner whose access built it
  telemetry,  \* the parts of the runtime each runner may have built
  runner,     \* each thread: what it runs, where it is, the runtime it got, its bus
  graph,      \* each langgraph() call, and the resources it holds open
  kept,       \* _langgraph_persistence_resources
  closing,    \* what close_langgraph_persistence popped and has still to close
  raises,     \* calls that raised
  leaked      \* a failure that the code does not clean up after has happened

runnerVars == <<enabled, cached, telemetry, runner>>
graphVars == <<graph, kept, closing>>
processVars == <<runnerVars, graphVars, raises, leaked>>

-----------------------------------------------------------------------------
Parts == {"opentelemetry", "langsmith"}
Resources == {"checkpointer", "store"}

ProcessTypeOK ==
  /\ enabled \in SUBSET Parts \ {{}}
  /\ cached \in Runners \union {NoRuntime}
  /\ telemetry \in [Runners -> [Parts -> {"new", "open", "closed"}]]
  /\ runner \in [Runners ->
       [kind : {"server", "bus"}, got : Runners \union {NoRuntime}, bus : BOOLEAN,
        pc : {"idle", "store", "start", "serve", "leave", "close", "ended"}]]
  /\ graph \in [Graphs ->
       [pc : {"idle", "build", "compile", "instrument", "ready", "failed"},
        open : SUBSET Resources, wanted : SUBSET Resources]]
  /\ kept \in Seq(Graphs) /\ closing \in Seq(Graphs)
  /\ raises \in 0..MaxRaises /\ leaked \in BOOLEAN

ProcessInit ==
  /\ enabled \in SUBSET Parts \ {{}}
  /\ cached = NoRuntime
  /\ telemetry = [r \in Runners |-> [p \in Parts |-> "new"]]
  /\ \E kinds \in [Runners -> {"server", "bus"}] :
       runner = [r \in Runners |->
         [kind |-> kinds[r], got |-> NoRuntime, bus |-> FALSE, pc |-> "idle"]]
  /\ graph = [g \in Graphs |-> [pc |-> "idle", open |-> {}, wanted |-> {}]]
  /\ kept = <<>> /\ closing = <<>>
  /\ raises = 0 /\ leaked = FALSE

Runs(r, pc) == runner[r].pc = pc
Goto(r, pc) == runner' = [runner EXCEPT ![r].pc = pc]
Raises == raises < MaxRaises /\ raises' = raises + 1

-----------------------------------------------------------------------------
(* The runners of run_with_probes.                                          *)

\* A functools.cached_property takes no lock: threads that find nothing each build one.
Fetch(r) ==
  /\ Runs(r, "idle")
  /\ runner' = [runner EXCEPT
       ![r].pc = IF cached = NoRuntime THEN "store" ELSE "start",
       ![r].got = IF cached = NoRuntime THEN r ELSE cached]
  /\ UNCHANGED <<enabled, cached, telemetry, graphVars, raises, leaked>>

Store(r) ==
  /\ Runs(r, "store")
  /\ leaked' = (leaked \/ cached # NoRuntime)
  /\ cached' = r
  /\ Goto(r, "start")
  /\ UNCHANGED <<enabled, telemetry, graphVars, raises>>

Telemetry(r) == telemetry[runner[r].got]
Opened(r, parts) ==
  telemetry' = [telemetry EXCEPT ![runner[r].got] =
    [p \in Parts |-> IF p \in parts /\ @[p] = "new" THEN "open" ELSE @[p]]]

\* A closed OpenTelemetry runtime refuses; a LangSmith one that was started does not.
Refuses(r) == "opentelemetry" \in enabled /\ Telemetry(r)["opentelemetry"] = "closed"

Start(r) ==
  /\ Runs(r, "start") /\ ~Refuses(r)
  /\ Opened(r, enabled)
  /\ Goto(r, "serve")
  /\ UNCHANGED <<enabled, cached, graphVars, raises, leaked>>

\* start is called before the try: what it had started stays.
StartRefused(r) ==
  /\ Runs(r, "start")
  /\ \/ Refuses(r) /\ UNCHANGED <<telemetry, raises, leaked>>
     \/ /\ ~Refuses(r) /\ Raises
        /\ \E done \in {{}, enabled \ {"langsmith"}} :
             Opened(r, done) /\ leaked' = (leaked \/ done # {})
  /\ Goto(r, "ended")
  /\ UNCHANGED <<enabled, cached, graphVars>>

Connect(r) ==
  /\ Runs(r, "serve") /\ runner[r].kind = "bus" /\ ~runner[r].bus
  /\ runner' = [runner EXCEPT ![r].bus = TRUE]
  /\ UNCHANGED <<enabled, cached, telemetry, graphVars, raises, leaked>>

\* A defect that TLC must notice: the bus is closed only by a run that returns.
Leave_Unguarded(r) ==
  /\ Runs(r, "serve")
  /\ \/ Goto(r, IF runner[r].kind = "bus" THEN "leave" ELSE "close")
     \/ Goto(r, "close")
  /\ UNCHANGED <<enabled, cached, telemetry, graphVars, raises, leaked>>

\* The server or the worker returns, raises or is interrupted: finally.
Leave(r) ==
  /\ Runs(r, "serve")
  /\ Goto(r, IF runner[r].kind = "bus" THEN "leave" ELSE "close")
  /\ UNCHANGED <<enabled, cached, telemetry, graphVars, raises, leaked>>

\* An error of bus.close leaves the telemetry as it is.
CloseBus(r) ==
  /\ Runs(r, "leave")
  /\ \/ /\ runner' = [runner EXCEPT ![r].pc = "close", ![r].bus = FALSE]
        /\ UNCHANGED <<raises, leaked>>
     \/ runner[r].bus /\ Raises /\ leaked' = TRUE /\ Goto(r, "ended")
  /\ UNCHANGED <<enabled, cached, telemetry, graphVars>>

\* close_observability closes the runtime that is cached, for every runner.
CloseTelemetry(r) ==
  /\ Runs(r, "close")
  /\ telemetry' = [telemetry EXCEPT ![cached] =
       [p \in Parts |-> IF p = "langsmith" /\ @[p] = "new" THEN @[p]
                        ELSE IF p \in enabled THEN "closed" ELSE @[p]]]
  /\ Goto(r, "ended")
  /\ UNCHANGED <<enabled, cached, graphVars, raises, leaked>>

-----------------------------------------------------------------------------
(* Graphs.                                                                  *)

Step(g, pc) == graph' = [graph EXCEPT ![g].pc = pc]
Building(g) == graph[g].pc \in {"build", "compile", "instrument"}

\* The resources the configuration gives and the caller does not.
Compose(g) ==
  /\ graph[g].pc = "idle"
  /\ \E wanted \in SUBSET Resources :
       graph' = [graph EXCEPT ![g].pc = "build", ![g].wanted = wanted]
  /\ UNCHANGED <<runnerVars, kept, closing, raises, leaked>>

NextResource(g) ==
  CHOOSE p \in graph[g].wanted \ graph[g].open :
    "checkpointer" \in graph[g].wanted \ graph[g].open => p = "checkpointer"

\* The context of a resource is entered, then its setup is run.
Enter(g) ==
  /\ graph[g].pc = "build"
  /\ graph' = IF graph[g].open = graph[g].wanted
              THEN [graph EXCEPT ![g].pc = "compile"]
              ELSE [graph EXCEPT ![g].open = @ \union {NextResource(g)}]
  /\ UNCHANGED <<runnerVars, kept, closing, raises, leaked>>

\* A defect that TLC must notice: a resource whose setup fails is not closed.
BuildFails_Unwound(g) ==
  /\ graph[g].pc \in {"build", "compile"} /\ Raises
  /\ Step(g, "failed")
  /\ UNCHANGED <<runnerVars, kept, closing, leaked>>

\* A factory, an entry, a setup or the compilation raises: all that was entered is
\* closed.
BuildFails(g) ==
  /\ graph[g].pc \in {"build", "compile"} /\ Raises
  /\ graph' = [graph EXCEPT ![g].pc = "failed", ![g].open = {}]
  /\ UNCHANGED <<runnerVars, kept, closing, leaked>>

Compile(g) ==
  /\ graph[g].pc = "compile"
  /\ Step(g, "instrument")
  /\ UNCHANGED <<runnerVars, kept, closing, raises, leaked>>

Remember(g) ==
  /\ graph[g].pc = "instrument"
  /\ Step(g, "ready")
  /\ kept' = IF graph[g].wanted = {} THEN kept ELSE Append(kept, g)
  /\ UNCHANGED <<runnerVars, closing, raises, leaked>>

\* instrument_langgraph raises, outside the try: the telemetry is closed or absent.
InstrumentFails(g) ==
  /\ graph[g].pc = "instrument" /\ Raises
  /\ Step(g, "failed")
  /\ leaked' = (leaked \/ graph[g].open # {})
  /\ UNCHANGED <<runnerVars, kept, closing>>

\* close_langgraph_persistence pops the list, then closes from the last to the first.
PopKept ==
  /\ closing = <<>> /\ kept # <<>>
  /\ closing' = Reverse(kept) /\ kept' = <<>>
  /\ UNCHANGED <<runnerVars, graph, raises, leaked>>

CloseGraph ==
  /\ closing # <<>>
  /\ \/ /\ graph' = [graph EXCEPT ![Head(closing)].open = {}]
        /\ closing' = Tail(closing)
        /\ UNCHANGED <<raises, leaked>>
     \/ \* An exit that raises: the resources that follow are forgotten.
        /\ Raises /\ leaked' = TRUE
        /\ closing' = <<>>
        /\ UNCHANGED graph
  /\ UNCHANGED <<runnerVars, kept>>

-----------------------------------------------------------------------------
RunnerStep(r) ==
  \/ Fetch(r) \/ Store(r) \/ Start(r) \/ StartRefused(r) \/ Connect(r) \/ Leave(r)
  \/ CloseBus(r) \/ CloseTelemetry(r)

GraphStep(g) ==
  Compose(g) \/ Enter(g) \/ BuildFails(g) \/ Compile(g) \/ Remember(g)
  \/ InstrumentFails(g)

GraphsNext == (\E g \in Graphs : GraphStep(g)) \/ PopKept \/ CloseGraph

-----------------------------------------------------------------------------
\* What a process opened is closed once its runners have ended, however they ended,
\* and a resource of a graph is closed with it or kept for the close to come;
\* unless one of the failures happened after which the code cleans up nothing.
NothingIsLeftOpen ==
  ~leaked =>
    /\ (\A r \in Runners : Runs(r, "ended")) =>
         /\ \A r \in Runners : ~runner[r].bus
         /\ \A r \in Runners, p \in Parts : telemetry[r][p] # "open"
    /\ \A g \in Graphs :
         graph[g].open # {} =>
           Building(g) \/ g \in Range(kept) \union Range(closing)
=============================================================================
