------------------------------ MODULE Messaging ------------------------------
(***************************************************************************)
(* The arrangement the channel documentation prescribes for long work: the *)
(* handler of a delivery publishes a command on the bus, waits for the     *)
(* confirmation and only then answers "accepted"; a worker executes the    *)
(* command.  A handler may also complete at once.  Composes                *)
(* ChannelDispatcher and CommandBus, the publisher of a command being the  *)
(* request whose handler publishes it.                                     *)
(***************************************************************************)
EXTENDS Naturals

CONSTANTS
  Requests, Events, NoEvent, Modes, TTL, MaxResponses, MaxClock,
  Foreign, Concurrency, Prefetch, Requeues,
  MaxFaults  \* bound on lost calls, restarts and crashes

VARIABLES
  mode, claims, request, now, until, disturbed,
  connected, declared, publisher, queue, worker, delivery, permits, executed, dead,
  faults

Channel == INSTANCE ChannelDispatcher
Bus == INSTANCE CommandBus WITH Publishers <- Requests

ASSUME MessagingAssumption ==
  Channel!ChannelAssumption /\ Bus!BusAssumption /\ MaxFaults \in Nat

channelVars == <<mode, claims, request, now, until, disturbed>>
busVars ==
  <<connected, declared, publisher, queue, worker, delivery, permits, executed, dead>>
vars == <<channelVars, busVars, faults>>

TypeOK == Channel!ChannelTypeOK /\ Bus!BusTypeOK /\ faults \in 0..MaxFaults

Init == Channel!ChannelInit /\ Bus!BusInit /\ faults = 0

InHandler(r) == Channel!At(r, "handler")

-----------------------------------------------------------------------------
(* The application's handler.                                               *)

HandlerPublishes(r) ==
  InHandler(r) /\ Bus!Publish(r) /\ UNCHANGED <<channelVars, faults>>

HandlerAccepts(r) ==
  /\ publisher[r] = "published"
  /\ Channel!HandlerReturns(r, "accepted")
  /\ UNCHANGED <<busVars, faults>>

HandlerCompletes(r) ==
  /\ publisher[r] = "idle"
  /\ Channel!HandlerReturns(r, "completed")
  /\ UNCHANGED <<busVars, faults>>

\* By itself, or because its publication failed.
HandlerRaises(r) ==
  /\ publisher[r] \in {"idle", "published", "failed"}
  /\ Channel!HandlerRaises(r)
  /\ UNCHANGED <<busVars, faults>>

HandlerStep(r) ==
  HandlerPublishes(r) \/ HandlerAccepts(r) \/ HandlerCompletes(r) \/ HandlerRaises(r)

-----------------------------------------------------------------------------
Dispatch(r) == Channel!DispatchStep(r) /\ UNCHANGED <<busVars, faults>>
Publication(r) == Bus!PublishStep(r) /\ UNCHANGED <<channelVars, faults>>
Work(c) == Bus!WorkerStep(c) /\ UNCHANGED <<channelVars, faults>>
WorkerRuns ==
  (Bus!WorkerStarts \/ Bus!WorkerLeaves) /\ UNCHANGED <<channelVars, faults>>

Provider ==
  \/ \E r \in Requests, e \in Events : Channel!Receive(r, e) \/ Channel!SlackReceive(r, e)
  \/ Channel!Tick

Restart == Channel!ChannelRestarts /\ Bus!PublishersRestart

Fault ==
  /\ faults < MaxFaults
  /\ faults' = faults + 1
  /\ \/ /\ \E r \in Requests : Channel!StoreCallLost(r) \/ Channel!ClaimReplyLost(r)
        /\ UNCHANGED busVars
     \/ /\ \E r \in Requests : Bus!PublishFails(r)
        /\ UNCHANGED channelVars
     \/ (Bus!WorkerStops \/ Bus!WorkerCrashes) /\ UNCHANGED channelVars
     \/ Restart

SendFails(r) ==
  (Channel!SendFails(r) \/ Channel!SlackSendFails(r)) /\ UNCHANGED <<busVars, faults>>

Next ==
  \/ Provider /\ UNCHANGED <<busVars, faults>>
  \/ \E r \in Requests :
       Dispatch(r) \/ HandlerStep(r) \/ Publication(r) \/ SendFails(r)
  \/ \E c \in Requests \union Foreign : Work(c)
  \/ WorkerRuns
  \/ Fault

\* The event loop resumes what may go on, handlers end, and a worker that is down
\* is started again.  Nobody is obliged to deliver an event, or to deliver it again.
FairSpec ==
  /\ Init /\ [][Next]_vars
  /\ \A r \in Requests :
       WF_vars(Dispatch(r)) /\ WF_vars(HandlerStep(r)) /\ WF_vars(Publication(r))
  /\ \A c \in Requests \union Foreign : WF_vars(Work(c))
  /\ WF_vars(WorkerRuns)

-----------------------------------------------------------------------------
(* Correctness.                                                             *)

\* A provider that is told "accepted" will not deliver the event again: its command
\* is on the bus, or was settled there, whatever fails on either side
\* (docs/capabilities/channel.md: accepted only once durably taken in charge).
AcceptedIsKept ==
  \A r \in Requests : request[r].answer = "accepted" => Bus!Kept(r)

\* A claim turns away exactly the deliveries it must: no delivery is handled twice
\* while the claim lasts, none is turned away for a request that failed.  Unless the
\* store lost its claims or the answer of a call, or a request that outlived its
\* claim released that of another.
ClaimsAreJust ==
  \A e \in Events \ disturbed : Channel!HandledOnce(e) /\ Channel!ClaimHasReason(e)

\* An accepted delivery is executed or, after an error, rejected for good; nothing
\* in front of it holds the worker for ever.
AcceptedIsSettled ==
  \A r \in Requests :
    request[r].answer = "accepted" ~> r \in executed \union dead
=============================================================================
