-------------------------- MODULE MessagingProofs ---------------------------
(***************************************************************************)
(* What is accepted on a channel is never lost on the bus, and claims turn *)
(* away duplicates only: for any number of requests, events, publishers    *)
(* and workers' permits, any prefetch, with and without requeueing, any    *)
(* number of lost calls, crashes and restarts.                             *)
(***************************************************************************)
EXTENDS Messaging, TLAPS

-----------------------------------------------------------------------------
(* The commands: what the broker confirmed is somewhere, and a command that *)
(* waits for its acknowledgement was executed.                              *)

Confirmed(p) == publisher[p] = "published" => Bus!Kept(p)

PublisherSteps ==
  {"idle", "connector", "declare", "bind", "publish", "published", "failed"}
DeliverySteps == {"none", "buffered", "handling", "ack", "nack", "reject"}

CommandInv ==
  /\ publisher \in [Requests -> PublisherSteps]
  /\ delivery \in [Requests \union Foreign -> DeliverySteps]
  /\ \A c \in Requests \union Foreign : delivery[c] = "ack" => c \in executed
  /\ \A p \in Requests : Confirmed(p)

USE DEF PublisherSteps, DeliverySteps

\* The steps of a publication: a message is confirmed once it is in the queue.
LEMMA PublicationKeeps ==
  ASSUME CommandInv, NEW p \in Requests,
         Bus!Publish(p) \/ Bus!PublishStep(p) \/ Bus!PublishFails(p)
  PROVE  CommandInv'
<1>1. PICK step \in PublisherSteps : publisher' = [publisher EXCEPT ![p] = step]
  BY DEF Bus!Publish, Bus!PublishStep, Bus!PublishFails, Bus!Connector, Bus!Declare,
         Bus!Bind, Bus!Confirm, Bus!To
<1>2. step = "published" => p \in queue'
  BY <1>1 DEF CommandInv, Bus!Publish, Bus!PublishStep, Bus!PublishFails, Bus!Connector,
         Bus!Declare, Bus!Bind, Bus!Confirm, Bus!To
<1>3. queue \subseteq queue' /\ UNCHANGED <<delivery, executed, dead>>
  BY DEF Bus!Publish, Bus!PublishStep, Bus!PublishFails, Bus!Connector, Bus!Declare,
         Bus!Bind, Bus!Confirm, Bus!consuming
<1> QED
  BY <1>1, <1>2, <1>3 DEF CommandInv, Confirmed, Bus!Kept

\* The publishers restart: nothing becomes confirmed by it.
LEMMA RestartKeepsCommands ==
  ASSUME CommandInv, Bus!PublishersRestart
  PROVE  CommandInv'
<1>1. publisher' = [p \in Requests |-> IF Bus!InPublish(p) THEN "failed"
                                                           ELSE publisher[p]]
  BY DEF Bus!PublishersRestart
<1>2. publisher' \in [Requests -> PublisherSteps]
  BY <1>1 DEF CommandInv
<1>3. queue \subseteq queue' /\ UNCHANGED <<delivery, executed, dead>>
  BY DEF Bus!PublishersRestart, Bus!consuming
<1>4. \A p \in Requests : publisher'[p] = "published" => publisher[p] = "published"
  BY <1>1
<1> QED
  BY <1>2, <1>3, <1>4 DEF CommandInv, Confirmed, Bus!Kept

\* A command leaves the queue for the worker, and the worker for the executed, the
\* dead or the queue.
LEMMA WorkKeeps ==
  ASSUME CommandInv, NEW c \in Requests \union Foreign, Bus!WorkerStep(c)
  PROVE  CommandInv'
<1> USE DEF Bus!Becomes, Bus!Commands
<1>1. CASE Bus!Deliver(c)
  BY <1>1 DEF Bus!Deliver, CommandInv, Confirmed, Bus!Kept, Bus!publishing
<1>2. CASE Bus!Take(c)
  BY <1>2 DEF Bus!Take, CommandInv, Confirmed, Bus!Kept, Bus!publishing
<1>3. CASE Bus!HandlerEnds(c)
  BY <1>3 DEF Bus!HandlerEnds, CommandInv, Confirmed, Bus!Kept, Bus!publishing
<1>4. CASE Bus!HandlerFails(c)
  BY <1>4 DEF Bus!HandlerFails, CommandInv, Confirmed, Bus!Kept, Bus!publishing
<1>5. CASE Bus!Settle(c)
  BY <1>5 DEF Bus!Settle, CommandInv, Confirmed, Bus!Kept, Bus!publishing
<1> QED
  BY <1>1, <1>2, <1>3, <1>4, <1>5 DEF Bus!WorkerStep

\* A worker that starts, stops, leaves or dies gives back what it did not settle.
LEMMA WorkerKeeps ==
  ASSUME CommandInv,
         Bus!WorkerStarts \/ Bus!WorkerStops \/ Bus!WorkerLeaves \/ Bus!WorkerCrashes
  PROVE  CommandInv'
<1> USE DEF Bus!Commands
<1>1. CASE Bus!WorkerStarts
  BY <1>1 DEF Bus!WorkerStarts, CommandInv, Confirmed, Bus!Kept, Bus!publishing
<1>2. CASE Bus!WorkerStops
  <2>1. /\ delivery' \in [Requests \union Foreign -> DeliverySteps]
        /\ \A c \in Requests \union Foreign : delivery[c] # "none" =>
             c \in queue' \/ delivery'[c] # "none"
        /\ \A c \in Requests \union Foreign : delivery'[c] = "ack" => delivery[c] = "ack"
    BY <1>2 DEF Bus!WorkerStops, CommandInv
  <2>2. queue \subseteq queue' /\ UNCHANGED <<publisher, executed, dead>>
    BY <1>2 DEF Bus!WorkerStops, Bus!publishing
  <2> QED
    BY <2>1, <2>2 DEF CommandInv, Confirmed, Bus!Kept
<1>3. CASE Bus!WorkerLeaves
  BY <1>3 DEF Bus!WorkerLeaves, CommandInv, Confirmed, Bus!Kept, Bus!publishing
<1>4. CASE Bus!WorkerCrashes
  <2>1. /\ delivery' \in [Requests \union Foreign -> DeliverySteps]
        /\ \A c \in Requests \union Foreign : delivery[c] # "none" => c \in queue'
        /\ \A c \in Requests \union Foreign : delivery'[c] = "none"
    BY <1>4 DEF Bus!WorkerCrashes, CommandInv
  <2>2. queue \subseteq queue' /\ UNCHANGED <<publisher, executed, dead>>
    BY <1>4 DEF Bus!WorkerCrashes, Bus!publishing
  <2> QED
    BY <2>1, <2>2 DEF CommandInv, Confirmed, Bus!Kept
<1> QED
  BY <1>1, <1>2, <1>3, <1>4

\* A confirmed publication stays confirmed.
LEMMA ConfirmedForEver ==
  ASSUME CommandInv, [Next]_vars, NEW p \in Requests, publisher[p] = "published"
  PROVE  publisher'[p] = "published"
<1> USE DEF CommandInv, Bus!To, Bus!InPublish
<1>1. CASE Provider /\ UNCHANGED <<busVars, faults>>
  BY <1>1 DEF busVars
<1>2. ASSUME NEW r \in Requests,
             Dispatch(r) \/ HandlerStep(r) \/ Publication(r) \/ SendFails(r)
      PROVE  publisher'[p] = "published"
  BY <1>2 DEF Dispatch, HandlerStep, HandlerPublishes, HandlerAccepts, HandlerCompletes,
       HandlerRaises, Publication, SendFails, busVars, Bus!Publish, Bus!PublishStep,
       Bus!Connector, Bus!Declare, Bus!Bind, Bus!Confirm
<1>3. ASSUME NEW c \in Requests \union Foreign, Work(c)
      PROVE  publisher'[p] = "published"
  BY <1>3 DEF Work, Bus!WorkerStep, Bus!Deliver, Bus!Take, Bus!HandlerEnds,
       Bus!HandlerFails, Bus!Settle, Bus!publishing
<1>4. CASE WorkerRuns
  BY <1>4 DEF WorkerRuns, Bus!WorkerStarts, Bus!WorkerLeaves, Bus!publishing
<1>5. CASE Fault
  BY <1>5 DEF Fault, Restart, busVars, Bus!PublishFails, Bus!WorkerStops,
       Bus!WorkerCrashes, Bus!PublishersRestart, Bus!publishing
<1>6. CASE UNCHANGED vars
  BY <1>6 DEF vars, busVars
<1> QED
  BY <1>1, <1>2, <1>3, <1>4, <1>5, <1>6 DEF Next

\* Every step of the system keeps what is confirmed.
LEMMA CommandsKept == CommandInv /\ [Next]_vars => CommandInv'
<1> SUFFICES ASSUME CommandInv, [Next]_vars PROVE CommandInv'
  OBVIOUS
<1> DEFINE Same == UNCHANGED <<publisher, queue, delivery, executed, dead>>
<1>0. Same => CommandInv'
  BY DEF CommandInv, Confirmed, Bus!Kept
<1> HIDE DEF Same
<1>1. CASE Provider /\ UNCHANGED <<busVars, faults>>
  BY <1>0, <1>1 DEF Same, busVars
<1>2. ASSUME NEW r \in Requests,
             Dispatch(r) \/ HandlerStep(r) \/ Publication(r) \/ SendFails(r)
      PROVE  CommandInv'
  BY <1>0, <1>2, PublicationKeeps
     DEF Same, busVars, Dispatch, HandlerStep, HandlerPublishes, HandlerAccepts,
         HandlerCompletes, HandlerRaises, Publication, SendFails
<1>3. ASSUME NEW c \in Requests \union Foreign, Work(c) PROVE CommandInv'
  BY <1>3, WorkKeeps DEF Work
<1>4. CASE WorkerRuns
  BY <1>4, WorkerKeeps DEF WorkerRuns
<1>5. CASE Fault
  BY <1>0, <1>5, PublicationKeeps, WorkerKeeps, RestartKeepsCommands
     DEF Same, busVars, Fault, Restart
<1>6. CASE UNCHANGED vars
  BY <1>0, <1>6 DEF Same, vars, busVars
<1> QED
  BY <1>1, <1>2, <1>3, <1>4, <1>5, <1>6 DEF Next

-----------------------------------------------------------------------------
(* The deliveries.                                                          *)

\* A request that holds a claim, or held it and whose handler returned.
Holds(r) == Channel!Working(r) \/ Channel!Handled(r)

\* Unless something disturbed the claims of an event, the claim of a request that
\* holds one is there for as long as it lasts.
ClaimIsThere(e) ==
  \A r \in Requests :
    Channel!Event(r) = e /\ Holds(r) /\ until[r] > now => claims[e] = until[r]

\* An answer is given at the end, and "accepted" only to a publisher whose command
\* was confirmed.
RequestInv ==
  /\ request \in [Requests -> Channel!Frames]
  /\ \A r \in Requests :
       /\ request[r].pc # "done" => request[r].answer = "none"
       /\ request[r].answer = "accepted" => publisher[r] = "published"

TimeInv ==
  /\ now \in Nat
  /\ claims \in [Events -> Nat]
  /\ until \in [Requests -> Nat]

\* What is known of the claims of an event.
EventInv(e) == ClaimIsThere(e) /\ Channel!HandledOnce(e) /\ Channel!ClaimHasReason(e)

ClaimInv == \A e \in Events \ disturbed : EventInv(e)

ChannelInv == RequestInv /\ TimeInv /\ ClaimInv

MessagingInv == CommandInv /\ ChannelInv

USE DEF Channel!At, Channel!Event

\* The frame of a request after it moved.
LEMMA FrameMoves ==
  ASSUME RequestInv, NEW r \in Requests, NEW f \in Channel!Frames,
         request' = [request EXCEPT ![r] = f],
         f.pc # "done" => f.answer = "none",
         f.answer = "accepted" => publisher[r] = "published",
         \A p \in Requests : publisher[p] = "published" => publisher'[p] = "published"
  PROVE  RequestInv'
  BY DEF RequestInv

\* The claim of e stays, or had expired and is discarded.
ClaimStays(e) == claims'[e] = claims[e] \/ (claims[e] <= now /\ claims'[e] = 0)

\* A step that gives and takes no claim of an event.
LEMMA EventStays ==
  ASSUME TimeInv, TimeInv', now <= now', NEW e \in Events, EventInv(e), ClaimStays(e),
         \A q \in Requests :
           /\ (Channel!Event(q) = e /\ Holds(q)) <=> (Channel!Event(q)' = e /\ Holds(q)')
           /\ Channel!Event(q) = e /\ Holds(q) => until'[q] = until[q]
  PROVE  EventInv(e)'
<1> USE DEF TimeInv, EventInv, ClaimStays
<1>1. ClaimIsThere(e)'
  BY DEF ClaimIsThere
<1>2. Channel!HandledOnce(e)'
  BY DEF Channel!HandledOnce, Holds
<1>3. Channel!ClaimHasReason(e)'
  BY DEF Channel!ClaimHasReason, Holds
<1> QED
  BY <1>1, <1>2, <1>3

\* A frame in which a claim is held.
InHold(f) ==
  \/ f.pc \in {"resolve", "handler", "release", "send"}
  \/ f.answer \in {"completed", "accepted", "undelivered", "mode_error"}

Answered(f, p) ==
  /\ f.pc # "done" => f.answer = "none"
  /\ f.answer = "accepted" => publisher[p] = "published"

PublishedStay ==
  \A p \in Requests : publisher[p] = "published" => publisher'[p] = "published"

\* What a request holds is what its frame says.
LEMMA HoldsByFrame ==
  ASSUME NEW q \in Requests
  PROVE  /\ Holds(q) <=> InHold(request[q])
         /\ Holds(q)' <=> InHold(request'[q])
  BY DEF Holds, Channel!Working, Channel!Handled, InHold

\* A step that may change the claims of the event of one request, and no other.
LEMMA OneEventMoves ==
  ASSUME ChannelInv, PublishedStay, NEW r \in Requests, NEW f \in Channel!Frames,
         request' = [request EXCEPT ![r] = f], Answered(f, r),
         f.event = request[r].event \/ (~InHold(f) /\ ~InHold(request[r])),
         TimeInv', now' = now, disturbed \subseteq disturbed',
         \A q \in Requests \ {r} : until'[q] = until[q],
         \A e \in Events \ {f.event} : ClaimStays(e),
         f.event \in Events \ disturbed' => EventInv(f.event)'
  PROVE  ChannelInv'
<1>1. RequestInv'
  BY FrameMoves DEF ChannelInv, Answered, PublishedStay
<1>2. ASSUME NEW e \in Events \ disturbed', e # f.event
      PROVE  EventInv(e)'
  <2>1. ASSUME NEW q \in Requests
        PROVE  /\ (Channel!Event(q) = e /\ Holds(q))
                    <=> (Channel!Event(q)' = e /\ Holds(q)')
               /\ Channel!Event(q) = e /\ Holds(q) => until'[q] = until[q]
    <3>1. request'[q] = IF q = r THEN f ELSE request[q]
      BY DEF ChannelInv, RequestInv
    <3> QED
      BY <1>2, <3>1, HoldsByFrame
  <2>2. TimeInv /\ now <= now' /\ EventInv(e)
    BY <1>2 DEF ChannelInv, TimeInv, ClaimInv
  <2>3. ClaimStays(e)
    BY <1>2
  <2> QED
    BY <2>1, <2>2, <2>3, EventStays
<1>3. ClaimInv'
  BY <1>2 DEF ClaimInv
<1> QED
  BY <1>1, <1>3 DEF ChannelInv

\* A request moves on and keeps what it holds; expired claims may be discarded.
LEMMA RequestMoves ==
  ASSUME ChannelInv, PublishedStay, NEW r \in Requests, NEW f \in Channel!Frames,
         request' = [request EXCEPT ![r] = f], Answered(f, r),
         UNCHANGED <<now, until>>, disturbed \subseteq disturbed',
         claims' \in [Events -> Nat], \A e \in Events : ClaimStays(e),
         InHold(f) <=> InHold(request[r]),
         InHold(f) => f.event = request[r].event
  PROVE  ChannelInv'
<1>1. TimeInv'
  BY DEF ChannelInv, TimeInv
<1>2. ASSUME f.event \in Events \ disturbed'
      PROVE  EventInv(f.event)'
  <2> DEFINE e == f.event
  <2>1. ASSUME NEW q \in Requests
        PROVE  (Channel!Event(q) = e /\ Holds(q))
                 <=> (Channel!Event(q)' = e /\ Holds(q)')
    <3>1. request'[q] = IF q = r THEN f ELSE request[q]
      BY DEF ChannelInv, RequestInv
    <3> QED
      BY <3>1, HoldsByFrame
  <2>2. TimeInv /\ now <= now' /\ EventInv(e)
    BY <1>2 DEF ChannelInv, TimeInv, ClaimInv
  <2> QED
    BY <1>1, <1>2, <2>1, <2>2, EventStays
<1> QED
  BY <1>1, <1>2, OneEventMoves

\* Nothing happens to the claims.
LEMMA ClaimsUnchanged ==
  ASSUME ChannelInv, UNCHANGED claims
  PROVE  claims' \in [Events -> Nat] /\ \A e \in Events : ClaimStays(e)
  BY DEF ChannelInv, TimeInv, ClaimStays

\* The frame of a request, field by field.
LEMMA FrameFields ==
  ASSUME RequestInv, NEW r \in Requests, NEW pc, NEW answer, NEW e, NEW left
  PROVE  LET f == request[r] IN
         /\ f \in Channel!Frames
         /\ [request EXCEPT ![r].pc = pc]
              = [request EXCEPT ![r] = [f EXCEPT !.pc = pc]]
         /\ [request EXCEPT ![r].pc = pc, ![r].answer = answer]
              = [request EXCEPT ![r] = [f EXCEPT !.pc = pc, !.answer = answer]]
         /\ [request EXCEPT ![r].pc = pc, ![r].left = left]
              = [request EXCEPT ![r] = [f EXCEPT !.pc = pc, !.left = left]]
         /\ [request EXCEPT ![r].left = @ - 1]
              = [request EXCEPT ![r] = [f EXCEPT !.left = f.left - 1]]
         /\ [request EXCEPT ![r] = [@ EXCEPT !.event = e, !.pc = pc, !.answer = answer]]
              = [request EXCEPT ![r] = [f EXCEPT !.event = e, !.pc = pc,
                                                 !.answer = answer]]
  BY DEF RequestInv, Channel!Frames

\* A delivery enters, or is turned away at the door.
LEMMA EntersKeeps ==
  ASSUME ChannelInv, PublishedStay, NEW r \in Requests, NEW e \in Events,
         Channel!Receive(r, e) \/ Channel!SlackReceive(r, e)
  PROVE  ChannelInv'
<1>1. PICK pc \in {"claim", "done"}, answer \in {"none", "rejected", "ignored"} :
        Channel!Enters(r, e, pc, answer) /\ (pc = "claim" => answer = "none")
  BY DEF Channel!Receive, Channel!SlackReceive
<1>2. PICK f : f = [request[r] EXCEPT !.event = e, !.pc = pc, !.answer = answer]
  OBVIOUS
<1>3. request' = [request EXCEPT ![r] = f]
  BY <1>1, <1>2, FrameFields DEF Channel!Enters, ChannelInv
<1>4. f = [pc |-> pc, event |-> e, left |-> request[r].left, answer |-> answer]
  BY <1>2 DEF ChannelInv, RequestInv, Channel!Frames
<1>5. f \in Channel!Frames
  BY <1>4 DEF ChannelInv, RequestInv, Channel!Frames, Channel!Answers
<1>6. UNCHANGED <<now, claims, until, disturbed>> /\ request[r].pc = "idle"
  BY <1>1 DEF Channel!Enters, Channel!OnlyRequest
<1>7. ~InHold(f) /\ ~InHold(request[r]) /\ Answered(f, r)
  BY <1>1, <1>4, <1>6 DEF InHold, Answered, ChannelInv, RequestInv
<1> QED
  BY <1>3, <1>5, <1>6, <1>7, ClaimsUnchanged, RequestMoves

\* A request goes to another step, holding what it held.
LEMMA GotoKeeps ==
  ASSUME ChannelInv, PublishedStay, NEW r \in Requests,
         NEW pc \in {"handler", "release"}, Channel!Goto(r, pc),
         request[r].pc \in {"resolve", "handler"},
         UNCHANGED <<now, claims, until, disturbed>>
  PROVE  ChannelInv'
<1>1. PICK f : f = [request[r] EXCEPT !.pc = pc]
  OBVIOUS
<1>2. request' = [request EXCEPT ![r] = f]
  BY <1>1, FrameFields DEF Channel!Goto, ChannelInv
<1>3. f = [pc |-> pc, event |-> request[r].event, left |-> request[r].left,
           answer |-> request[r].answer]
  BY <1>1 DEF ChannelInv, RequestInv, Channel!Frames
<1>4. f \in Channel!Frames
  BY <1>3 DEF ChannelInv, RequestInv, Channel!Frames
<1>5. request[r].answer = "none"
  BY DEF ChannelInv, RequestInv
<1>6. InHold(f) /\ InHold(request[r]) /\ Answered(f, r) /\ f.event = request[r].event
  BY <1>3, <1>5 DEF InHold, Answered
<1> QED
  BY <1>2, <1>4, <1>6, ClaimsUnchanged, RequestMoves

\* A request is answered.
LEMMA AnswerKeeps ==
  ASSUME ChannelInv, PublishedStay, NEW r \in Requests,
         NEW answer \in Channel!Answers, Channel!Answer(r, answer),
         answer = "accepted" => publisher[r] = "published",
         \/ /\ request[r].pc \in {"resolve", "handler", "release", "send"}
            /\ answer \in {"completed", "accepted", "undelivered", "mode_error"}
         \/ /\ request[r].pc = "claim"
            /\ answer \in {"failed", "duplicate"},
         UNCHANGED <<now, until, disturbed>>,
         claims' \in [Events -> Nat], \A e \in Events : ClaimStays(e)
  PROVE  ChannelInv'
<1>1. PICK f : f = [request[r] EXCEPT !.pc = "done", !.answer = answer]
  OBVIOUS
<1>2. request' = [request EXCEPT ![r] = f]
  BY <1>1, FrameFields DEF Channel!Answer, ChannelInv
<1>3. f = [pc |-> "done", event |-> request[r].event, left |-> request[r].left,
           answer |-> answer]
  BY <1>1 DEF ChannelInv, RequestInv, Channel!Frames
<1>4. f \in Channel!Frames
  BY <1>3 DEF ChannelInv, RequestInv, Channel!Frames
<1>5. request[r].answer = "none"
  BY DEF ChannelInv, RequestInv
<1>6. InHold(f) <=> InHold(request[r])
  BY <1>3, <1>5 DEF InHold
<1>7. Answered(f, r) /\ f.event = request[r].event
  BY <1>3 DEF Answered
<1> QED
  BY <1>2, <1>4, <1>6, <1>7, RequestMoves

\* The status of a result, or mode_error.
LEMMA OutcomeIsAnswer ==
  ASSUME NEW status \in {"completed", "accepted"}
  PROVE  /\ Channel!Outcome(status) \in Channel!Answers
         /\ Channel!Outcome(status) \in {status, "mode_error"}
  BY DEF Channel!Outcome, Channel!Answers

\* The handler returns: it is done, or has responses to send.
LEMMA HandlerReturnsKeeps ==
  ASSUME ChannelInv, PublishedStay, MessagingAssumption, NEW r \in Requests,
         NEW status \in {"completed", "accepted"}, Channel!HandlerReturns(r, status),
         status = "accepted" => publisher[r] = "published"
  PROVE  ChannelInv'
<1>1. request[r].pc = "handler" /\ UNCHANGED <<now, claims, until, disturbed>>
  BY DEF Channel!HandlerReturns, Channel!OnlyRequest
<1>2. CASE status = "accepted"
  BY <1>1, <1>2, ClaimsUnchanged, AnswerKeeps, OutcomeIsAnswer DEF Channel!HandlerReturns
<1>3. CASE status # "accepted"
  <2>1. PICK n \in 0..MaxResponses :
          request' = [request EXCEPT ![r].pc = "send", ![r].left = n]
    BY <1>3 DEF Channel!HandlerReturns
  <2>2. PICK f : f = [request[r] EXCEPT !.pc = "send", !.left = n]
    OBVIOUS
  <2>3. request' = [request EXCEPT ![r] = f]
    BY <2>1, <2>2, FrameFields DEF ChannelInv
  <2>4. f = [pc |-> "send", event |-> request[r].event, left |-> n,
             answer |-> request[r].answer]
    BY <2>2 DEF ChannelInv, RequestInv, Channel!Frames
  <2>5. f \in Channel!Frames
    BY <2>4 DEF ChannelInv, RequestInv, Channel!Frames
  <2>6. request[r].answer = "none"
    BY <1>1 DEF ChannelInv, RequestInv
  <2>7. InHold(f) /\ InHold(request[r]) /\ Answered(f, r) /\ f.event = request[r].event
    BY <1>1, <2>4, <2>6 DEF InHold, Answered
  <2> QED
    BY <1>1, <2>3, <2>5, <2>7, ClaimsUnchanged, RequestMoves
<1> QED
  BY <1>2, <1>3

\* A response is sent, or none is left, or the next one cannot be sent.
LEMMA SendKeeps ==
  ASSUME ChannelInv, PublishedStay, MessagingAssumption, NEW r \in Requests,
         Channel!Send(r) \/ Channel!SendFails(r) \/ Channel!SlackSendFails(r)
  PROVE  ChannelInv'
<1>1. request[r].pc = "send" /\ UNCHANGED <<now, claims, until, disturbed>>
  BY DEF Channel!Send, Channel!SendFails, Channel!SlackSendFails, Channel!Undelivered,
         Channel!OnlyRequest
<1>2. CASE Channel!SendFails(r) \/ Channel!SlackSendFails(r)
  <2>1. Channel!Answer(r, "undelivered") /\ "undelivered" \in Channel!Answers
    BY <1>2 DEF Channel!SendFails, Channel!SlackSendFails, Channel!Undelivered,
               Channel!Answers
  <2> QED
    BY <1>1, <2>1, ClaimsUnchanged, AnswerKeeps
<1>3. CASE Channel!Send(r) /\ request[r].left = 0
  <2>1. Channel!Answer(r, Channel!Outcome("completed"))
    BY <1>3 DEF Channel!Send
  <2> QED
    BY <1>1, <2>1, ClaimsUnchanged, AnswerKeeps, OutcomeIsAnswer
<1>4. CASE Channel!Send(r) /\ request[r].left # 0
  <2>1. PICK f : f = [request[r] EXCEPT !.left = request[r].left - 1]
    OBVIOUS
  <2>2. request' = [request EXCEPT ![r] = f]
    BY <1>4, <2>1, FrameFields DEF Channel!Send, ChannelInv
  <2>3. f = [pc |-> "send", event |-> request[r].event, left |-> request[r].left - 1,
             answer |-> request[r].answer]
    BY <1>1, <2>1 DEF ChannelInv, RequestInv, Channel!Frames
  <2>4. MaxResponses \in Nat /\ request[r].left \in 0..MaxResponses
    BY DEF ChannelInv, RequestInv, Channel!Frames, MessagingAssumption,
           Channel!ChannelAssumption
  <2>5. request[r].left - 1 \in 0..MaxResponses
    BY <1>4, <2>4
  <2>6. f \in Channel!Frames
    BY <2>3, <2>5 DEF ChannelInv, RequestInv, Channel!Frames
  <2>7. request[r].answer = "none"
    BY <1>1 DEF ChannelInv, RequestInv
  <2>8. InHold(f) /\ InHold(request[r]) /\ Answered(f, r) /\ f.event = request[r].event
    BY <1>1, <2>3, <2>7 DEF InHold, Answered
  <2> QED
    BY <1>1, <2>2, <2>6, <2>8, ClaimsUnchanged, RequestMoves
<1> QED
  BY <1>2, <1>3, <1>4

\* The frame of a request that is answered "failed", or goes on to its resolution.
LEMMA FailedOrResolving ==
  ASSUME ChannelInv, NEW r \in Requests, request[r].pc \in {"claim", "release"}
  PROVE  \E f, g \in Channel!Frames :
           /\ Channel!Answer(r, "failed") => request' = [request EXCEPT ![r] = f]
           /\ Channel!Goto(r, "resolve") /\ request[r].pc = "claim"
                => request' = [request EXCEPT ![r] = g]
           /\ f.pc = "done" /\ f.answer = "failed" /\ f.event = request[r].event
           /\ g.pc = "resolve" /\ g.answer = "none" /\ g.event = request[r].event
<1>1. PICK f : f = [request[r] EXCEPT !.pc = "done", !.answer = "failed"]
  OBVIOUS
<1>2. f = [pc |-> "done", event |-> request[r].event, left |-> request[r].left,
           answer |-> "failed"]
  BY <1>1 DEF ChannelInv, RequestInv, Channel!Frames
<1>3. f \in Channel!Frames
  BY <1>2 DEF ChannelInv, RequestInv, Channel!Frames, Channel!Answers
<1>4. PICK g : g = [request[r] EXCEPT !.pc = "resolve"]
  OBVIOUS
<1>5. request[r].answer = "none"
  BY DEF ChannelInv, RequestInv
<1>6. g = [pc |-> "resolve", event |-> request[r].event, left |-> request[r].left,
           answer |-> "none"]
  BY <1>4, <1>5 DEF ChannelInv, RequestInv, Channel!Frames
<1>7. g \in Channel!Frames
  BY <1>6 DEF ChannelInv, RequestInv, Channel!Frames, Channel!Answers
<1>8. /\ Channel!Answer(r, "failed") => request' = [request EXCEPT ![r] = f]
      /\ Channel!Goto(r, "resolve") => request' = [request EXCEPT ![r] = g]
  BY <1>1, <1>4, FrameFields DEF Channel!Answer, Channel!Goto, ChannelInv
<1> QED
  BY <1>2, <1>3, <1>6, <1>7, <1>8

\* A claim dates itself after now, and discards only what had expired.
LEMMA ClaimsDated ==
  ASSUME ChannelInv, MessagingAssumption, NEW r \in Requests, Channel!Claims(r), now' = now
  PROVE  /\ TimeInv'
         /\ until'[r] = now + TTL /\ now < now + TTL
         /\ \A q \in Requests \ {r} : until'[q] = until[q]
         /\ Channel!Event(r) \in Events => claims'[Channel!Event(r)] = now + TTL
         /\ \A e \in Events \ {Channel!Event(r)} : ClaimStays(e)
<1>1. TTL \in Nat \ {0} /\ now + TTL \in Nat
  BY DEF MessagingAssumption, Channel!ChannelAssumption, ChannelInv, TimeInv
<1>2. claims' \in [Events -> Nat] /\ until' \in [Requests -> Nat]
  BY <1>1 DEF Channel!Claims, ChannelInv, TimeInv
<1> QED
  BY <1>1, <1>2 DEF Channel!Claims, ChannelInv, TimeInv, ClaimStays

\* An unclaimed delivery obtains a claim nobody else has; another is a duplicate.
LEMMA ClaimKeeps ==
  ASSUME ChannelInv, PublishedStay, MessagingAssumption, NEW r \in Requests,
         Channel!Claim(r)
  PROVE  ChannelInv'
<1>1. request[r].pc = "claim" /\ now' = now /\ disturbed' = disturbed
  BY DEF Channel!Claim
<1>2. CASE ~Channel!Unclaimed(Channel!Event(r))
  <2>1. /\ Channel!Answer(r, "duplicate") /\ until' = until
        /\ claims' = [e \in Events |-> IF claims[e] <= now THEN 0 ELSE claims[e]]
    BY <1>2 DEF Channel!Claim
  <2>2. claims' \in [Events -> Nat] /\ \A e \in Events : ClaimStays(e)
    BY <2>1 DEF ChannelInv, TimeInv, ClaimStays
  <2>3. "duplicate" \in Channel!Answers
    BY DEF Channel!Answers
  <2> QED
    BY <1>1, <2>1, <2>2, <2>3, AnswerKeeps
<1>3. CASE Channel!Unclaimed(Channel!Event(r))
  <2>1. Channel!Claims(r) /\ Channel!Goto(r, "resolve")
    BY <1>3 DEF Channel!Claim
  <2>2. PICK g \in Channel!Frames :
          /\ request' = [request EXCEPT ![r] = g]
          /\ g.pc = "resolve" /\ g.answer = "none" /\ g.event = request[r].event
    BY <1>1, <2>1, FailedOrResolving
  <2>3. Answered(g, r)
    BY <2>2 DEF Answered
  <2>4. ASSUME g.event \in Events \ disturbed'
        PROVE  EventInv(g.event)'
    <3> DEFINE e == g.event
    <3>1. ClaimIsThere(e) /\ claims[e] <= now
      BY <1>1, <1>3, <2>2, <2>4 DEF ChannelInv, ClaimInv, EventInv, Channel!Unclaimed
    <3>2. \A q \in Requests : request'[q] = IF q = r THEN g ELSE request[q]
      BY <2>2 DEF ChannelInv, RequestInv
    <3>3. \A q \in Requests :
            Channel!Event(q)' = e /\ Holds(q)' /\ until'[q] > now' => q = r
      <4> SUFFICES ASSUME NEW q \in Requests, q # r, Channel!Event(q)' = e, Holds(q)',
                          until'[q] > now'
                   PROVE  FALSE
        OBVIOUS
      <4>1. Channel!Event(q) = e /\ Holds(q)
        BY <3>2, HoldsByFrame
      <4>2. until[q] > now
        BY <1>1, <2>1, ClaimsDated
      <4> QED
        BY <3>1, <4>1, <4>2, <1>1 DEF ClaimIsThere, ChannelInv, TimeInv
    <3>4. Channel!Event(r)' = e /\ Holds(r)' /\ claims'[e] = until'[r]
      BY <1>1, <2>1, <2>2, <2>4, <3>2, HoldsByFrame, ClaimsDated DEF InHold
    <3>5. ClaimIsThere(e)'
      BY <3>3, <3>4 DEF ClaimIsThere
    <3>6. Channel!HandledOnce(e)'
      BY <3>3 DEF Channel!HandledOnce, Holds
    <3>7. Channel!ClaimHasReason(e)'
      BY <3>4 DEF Channel!ClaimHasReason, Holds
    <3> QED
      BY <3>5, <3>6, <3>7 DEF EventInv
  <2> QED
    BY <1>1, <2>1, <2>2, <2>3, <2>4, ClaimsDated, OneEventMoves
<1> QED
  BY <1>2, <1>3

\* A release takes back the claim of its own request, or disturbs the event.
LEMMA ReleaseKeeps ==
  ASSUME ChannelInv, PublishedStay, NEW r \in Requests, Channel!Release(r)
  PROVE  ChannelInv'
<1>1. /\ request[r].pc = "release" /\ now' = now /\ disturbed \subseteq disturbed'
      /\ claims' = [claims EXCEPT ![Channel!Event(r)] = 0]
      /\ until' = [until EXCEPT ![r] = 0]
      /\ Channel!Answer(r, "failed")
  BY DEF Channel!Release
<1>2. PICK f \in Channel!Frames :
        /\ request' = [request EXCEPT ![r] = f]
        /\ f.pc = "done" /\ f.answer = "failed" /\ f.event = request[r].event
  BY <1>1, FailedOrResolving
<1>3. Answered(f, r) /\ ~InHold(f)
  BY <1>2 DEF Answered, InHold
<1>4. TimeInv'
  BY <1>1 DEF ChannelInv, TimeInv
<1>5. \A q \in Requests \ {r} : until'[q] = until[q]
  BY <1>1 DEF ChannelInv, TimeInv
<1>6. \A e \in Events \ {f.event} : ClaimStays(e)
  BY <1>1, <1>2 DEF ChannelInv, TimeInv, ClaimStays
<1>7. ASSUME f.event \in Events \ disturbed'
      PROVE  EventInv(f.event)'
  <2> DEFINE e == f.event
  <2>1. claims[e] \in {0, until[r]} /\ EventInv(e)
    BY <1>2, <1>7 DEF Channel!Release, ChannelInv, ClaimInv
  <2>2. Holds(r) /\ Channel!Event(r) = e
    BY <1>1, <1>2, HoldsByFrame DEF InHold
  <2>3. ASSUME NEW q \in Requests, Channel!Event(q)' = e, Holds(q)', until'[q] > now'
        PROVE  FALSE
    <3>1. q # r
      <4>1. request'[r] = f
        BY <1>2 DEF ChannelInv, RequestInv
      <4> QED
        BY <1>3, <2>3, <4>1, HoldsByFrame
    <3>2. Channel!Event(q) = e /\ Holds(q) /\ until[q] > now
      <4>1. request'[q] = request[q]
        BY <1>2, <3>1 DEF ChannelInv, RequestInv
      <4> QED
        BY <1>1, <1>5, <2>3, <3>1, <4>1, HoldsByFrame
    <3>3. claims[e] = until[q] /\ until[q] = until[r] /\ until[r] > now
      BY <2>1, <3>2 DEF EventInv, ClaimIsThere, ChannelInv, TimeInv
    <3> QED
      BY <2>1, <2>2, <3>1, <3>2, <3>3 DEF EventInv, Channel!HandledOnce, Holds
  <2>4. claims'[e] = 0 /\ ~(claims'[e] > now')
    BY <1>1, <1>2, <1>4, <1>7 DEF ChannelInv, TimeInv
  <2>5. ClaimIsThere(e)'
    BY <2>3 DEF ClaimIsThere
  <2>6. Channel!HandledOnce(e)'
    BY <2>3 DEF Channel!HandledOnce, Holds
  <2>7. Channel!ClaimHasReason(e)'
    BY <2>4 DEF Channel!ClaimHasReason
  <2> QED
    BY <2>5, <2>6, <2>7 DEF EventInv
<1> QED
  BY <1>1, <1>2, <1>3, <1>4, <1>5, <1>6, <1>7, OneEventMoves

\* A call of the claim store is lost, before it took effect or after.
LEMMA LostCallKeeps ==
  ASSUME ChannelInv, PublishedStay, MessagingAssumption, NEW r \in Requests,
         Channel!StoreCallLost(r) \/ Channel!ClaimReplyLost(r)
  PROVE  ChannelInv'
<1>1. /\ request[r].pc \in {"claim", "release"} /\ now' = now
      /\ disturbed \subseteq disturbed' /\ Channel!Answer(r, "failed")
  BY DEF Channel!StoreCallLost, Channel!ClaimReplyLost
<1>2. PICK f \in Channel!Frames :
        /\ request' = [request EXCEPT ![r] = f]
        /\ f.pc = "done" /\ f.answer = "failed" /\ f.event = request[r].event
  BY <1>1, FailedOrResolving
<1>3. Answered(f, r) /\ ~InHold(f)
  BY <1>2 DEF Answered, InHold
<1>4. CASE Channel!StoreCallLost(r) /\ request[r].pc = "claim"
  <2>1. UNCHANGED <<claims, until, disturbed>> /\ "failed" \in Channel!Answers
    BY <1>4 DEF Channel!StoreCallLost, Channel!Answers
  <2> QED
    BY <1>1, <1>4, <2>1, ClaimsUnchanged, AnswerKeeps
<1>5. CASE Channel!StoreCallLost(r) /\ request[r].pc # "claim"
  <2>1. UNCHANGED <<claims, until>> /\ f.event \in disturbed'
    BY <1>2, <1>5 DEF Channel!StoreCallLost
  <2>2. TimeInv'
    BY <1>1, <2>1 DEF ChannelInv, TimeInv
  <2> QED
    BY <1>1, <1>2, <1>3, <2>1, <2>2, ClaimsUnchanged, OneEventMoves
<1>6. CASE Channel!ClaimReplyLost(r)
  <2>1. Channel!Claims(r) /\ f.event \in disturbed'
    BY <1>2, <1>6 DEF Channel!ClaimReplyLost
  <2> QED
    BY <1>1, <1>2, <1>3, <2>1, ClaimsDated, OneEventMoves
<1> QED
  BY <1>4, <1>5, <1>6

\* The process restarts: what held a claim holds none, and the claims that would
\* have lasted are disturbed.
LEMMA RestartKeeps ==
  ASSUME ChannelInv, PublishedStay, Channel!ChannelRestarts
  PROVE  ChannelInv'
<1>1. /\ claims' = [e \in Events |-> 0] /\ UNCHANGED <<now, until>>
      /\ disturbed' = disturbed \union {e \in Events : claims[e] > now}
  BY DEF Channel!ChannelRestarts
<1>2. ASSUME NEW q \in Requests
      PROVE  /\ request'[q] \in Channel!Frames
             /\ Answered(request'[q], q)
             /\ InHold(request'[q]) => request'[q] = request[q]
  <2>1. CASE ~Channel!InProgress(q)
    <3>1. request'[q] = request[q]
      BY <2>1 DEF Channel!ChannelRestarts
    <3> QED
      BY <3>1 DEF Answered, ChannelInv, RequestInv
  <2>2. CASE Channel!InProgress(q)
    <3>1. PICK f : f = [request[q] EXCEPT !.pc = "done", !.answer = "lost"]
      OBVIOUS
    <3>2. request'[q] = f
      BY <2>2, <3>1 DEF Channel!ChannelRestarts
    <3>3. f = [pc |-> "done", event |-> request[q].event, left |-> request[q].left,
               answer |-> "lost"]
      BY <3>1 DEF ChannelInv, RequestInv, Channel!Frames
    <3>4. f \in Channel!Frames
      BY <3>3 DEF ChannelInv, RequestInv, Channel!Frames, Channel!Answers
    <3> QED
      BY <3>2, <3>3, <3>4 DEF Answered, InHold
  <2> QED
    BY <2>1, <2>2
<1>3. RequestInv'
  <2>1. request' \in [Requests -> Channel!Frames]
    BY <1>2 DEF Channel!ChannelRestarts
  <2> QED
    BY <1>2, <2>1 DEF RequestInv, Answered, PublishedStay
<1>4. TimeInv'
  BY <1>1 DEF ChannelInv, TimeInv
<1>5. ASSUME NEW e \in Events \ disturbed'
      PROVE  EventInv(e)'
  <2>1. EventInv(e) /\ ~(claims[e] > now) /\ claims'[e] = 0
    BY <1>1, <1>5 DEF ChannelInv, ClaimInv
  <2>2. ASSUME NEW q \in Requests, Channel!Event(q)' = e, Holds(q)', until'[q] > now'
        PROVE  FALSE
    <3>1. Channel!Event(q) = e /\ Holds(q) /\ until[q] > now
      BY <1>1, <1>2, <2>2, HoldsByFrame
    <3> QED
      BY <2>1, <3>1 DEF EventInv, ClaimIsThere
  <2>3. ClaimIsThere(e)'
    BY <2>2 DEF ClaimIsThere
  <2>4. Channel!HandledOnce(e)'
    BY <2>2 DEF Channel!HandledOnce, Holds
  <2>5. Channel!ClaimHasReason(e)'
    BY <1>4, <2>1 DEF Channel!ClaimHasReason, TimeInv
  <2> QED
    BY <2>3, <2>4, <2>5 DEF EventInv
<1> QED
  BY <1>3, <1>4, <1>5 DEF ChannelInv, ClaimInv

\* Time passes, or nothing happens to the channel.
LEMMA WaitKeeps ==
  ASSUME ChannelInv, PublishedStay, Channel!Tick \/ UNCHANGED channelVars
  PROVE  ChannelInv'
<1>1. /\ UNCHANGED <<claims, request, until, disturbed>>
      /\ now' \in Nat /\ now <= now'
  BY DEF Channel!Tick, channelVars, ChannelInv, TimeInv
<1>2. RequestInv'
  BY <1>1 DEF ChannelInv, RequestInv, PublishedStay
<1>3. TimeInv'
  BY <1>1 DEF ChannelInv, TimeInv
<1>4. ASSUME NEW e \in Events \ disturbed'
      PROVE  EventInv(e)'
  <2>1. EventInv(e) /\ ClaimStays(e) /\ TimeInv
    BY <1>1, <1>4 DEF ChannelInv, ClaimInv, ClaimStays
  <2>2. \A q \in Requests : (Holds(q)' <=> Holds(q)) /\ Channel!Event(q)' = Channel!Event(q)
    BY <1>1, HoldsByFrame
  <2> QED
    BY <1>1, <1>3, <1>4, <2>1, <2>2, EventStays
<1> QED
  BY <1>2, <1>3, <1>4 DEF ChannelInv, ClaimInv

-----------------------------------------------------------------------------
(* Everything together.                                                     *)

\* It holds at the beginning.
LEMMA InitInv == MessagingAssumption /\ Init => MessagingInv
<1> SUFFICES ASSUME MessagingAssumption, Init PROVE MessagingInv
  OBVIOUS
<1>1. CommandInv
  BY DEF Init, Bus!BusInit, CommandInv, Confirmed, Bus!Commands
<1>2. RequestInv
  <2>1. MaxResponses \in Nat
    BY DEF MessagingAssumption, Channel!ChannelAssumption
  <2>2. [pc |-> "idle", event |-> NoEvent, left |-> 0, answer |-> "none"]
          \in Channel!Frames
    BY <2>1 DEF Channel!Frames, Channel!Answers
  <2> QED
    BY <2>2 DEF Init, Channel!ChannelInit, RequestInv
<1>3. TimeInv
  BY DEF Init, Channel!ChannelInit, TimeInv
<1>4. ClaimInv
  <2> SUFFICES ASSUME NEW e \in Events PROVE EventInv(e)
    BY DEF ClaimInv
  <2>1. \A q \in Requests : until[q] = 0 /\ claims[e] = 0 /\ now = 0
    BY DEF Init, Channel!ChannelInit
  <2>2. claims[e] = 0 /\ now = 0
    BY DEF Init, Channel!ChannelInit
  <2> QED
    BY <2>1, <2>2 DEF EventInv, ClaimIsThere, Channel!HandledOnce, Channel!ClaimHasReason
<1> QED
  BY <1>1, <1>2, <1>3, <1>4 DEF MessagingInv, ChannelInv

\* MessagingInv is kept by every step.
THEOREM MessagingInductive == MessagingInv /\ [Next]_vars => MessagingInv'
<1> SUFFICES ASSUME MessagingInv, [Next]_vars PROVE MessagingInv'
  OBVIOUS
<1>0. /\ CommandInv /\ ChannelInv /\ CommandInv' /\ PublishedStay /\ MessagingAssumption
  BY CommandsKept, ConfirmedForEver, MessagingAssumption DEF MessagingInv, PublishedStay
<1> SUFFICES ChannelInv'
  BY <1>0 DEF MessagingInv
<1>1. CASE Provider /\ UNCHANGED <<busVars, faults>>
  BY <1>0, <1>1, EntersKeeps, WaitKeeps DEF Provider
<1>2. ASSUME NEW r \in Requests, Dispatch(r) PROVE ChannelInv'
  <2>1. ASSUME Channel!Resolve(r) PROVE ChannelInv'
    BY <1>0, <2>1, GotoKeeps DEF Channel!Resolve, Channel!OnlyRequest
  <2> QED
    BY <1>0, <1>2, <2>1, ClaimKeeps, ReleaseKeeps, SendKeeps
       DEF Dispatch, Channel!DispatchStep
<1>3. ASSUME NEW r \in Requests, HandlerStep(r) PROVE ChannelInv'
  <2>1. CASE HandlerPublishes(r)
    BY <1>0, <2>1, WaitKeeps DEF HandlerPublishes
  <2>2. CASE HandlerAccepts(r) \/ HandlerCompletes(r)
    BY <1>0, <2>2, HandlerReturnsKeeps DEF HandlerAccepts, HandlerCompletes
  <2>3. CASE HandlerRaises(r)
    BY <1>0, <2>3, GotoKeeps DEF HandlerRaises, Channel!HandlerRaises, Channel!OnlyRequest
  <2> QED
    BY <1>3, <2>1, <2>2, <2>3 DEF HandlerStep
<1>4. ASSUME NEW r \in Requests, Publication(r) \/ SendFails(r) PROVE ChannelInv'
  BY <1>0, <1>4, WaitKeeps, SendKeeps DEF Publication, SendFails
<1>5. CASE (\E c \in Requests \union Foreign : Work(c)) \/ WorkerRuns
  BY <1>0, <1>5, WaitKeeps DEF Work, WorkerRuns
<1>6. CASE Fault
  BY <1>0, <1>6, WaitKeeps, LostCallKeeps, RestartKeeps DEF Fault, Restart
<1>7. CASE UNCHANGED vars
  BY <1>0, <1>7, WaitKeeps DEF vars
<1> QED
  BY <1>1, <1>2, <1>3, <1>4, <1>5, <1>6, <1>7 DEF Next

\* It holds in every state.
THEOREM MessagingInvariant == FairSpec => []MessagingInv
<1>1. Init => MessagingInv
  BY InitInv, MessagingAssumption
<1>2. FairSpec => Init /\ [][Next]_vars
  BY PTL DEF FairSpec
<1> QED
  BY <1>1, <1>2, MessagingInductive, PTL

\* What a provider was told "accepted" is on the bus or was settled there, whatever
\* fails: dispatch answers after the broker confirmed, and handle_message
\* acknowledges after the handler.
THEOREM AcceptedIsAlwaysKept == FairSpec => []AcceptedIsKept
<1>1. MessagingInv => AcceptedIsKept
  BY DEF MessagingInv, CommandInv, ChannelInv, RequestInv, Confirmed, AcceptedIsKept
<1> QED
  BY <1>1, MessagingInvariant, PTL

\* A claim of the event store turns away duplicates, and nothing else.
THEOREM ClaimsAreAlwaysJust == FairSpec => []ClaimsAreJust
<1>1. MessagingInv => ClaimsAreJust
  BY DEF MessagingInv, ChannelInv, ClaimInv, EventInv, ClaimsAreJust
<1> QED
  BY <1>1, MessagingInvariant, PTL
=============================================================================
