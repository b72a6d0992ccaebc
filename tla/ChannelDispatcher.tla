------------------------- MODULE ChannelDispatcher --------------------------
(***************************************************************************)
(* Deliveries of a provider through the webhook adapter or the Slack       *)
(* adapter (adapters/bidirectional/webhook, slack), the dispatcher         *)
(* (application/channel.py) and the claims of its event store              *)
(* (adapters/bidirectional/memory/channel.py).  A request is one HTTP      *)
(* delivery, and the task that serves it; a provider sends the same event  *)
(* again in another request.                                               *)
(* What the application's handler does is left to the module that composes *)
(* this one.                                                               *)
(***************************************************************************)
EXTENDS Naturals

CONSTANTS
  Requests,
  Events, NoEvent,  \* provider_event_id
  Modes,            \* the response modes under study: "slack", or one of the webhook
  TTL,              \* event_ttl_seconds
  MaxResponses,     \* bound on the responses of a handler
  MaxClock          \* bound on time

\* Assumed by the module that composes this one.
ChannelAssumption ==
  /\ NoEvent \notin Events
  /\ Modes \subseteq {"sync", "accepted", "callback", "slack"}
  /\ TTL \in Nat \ {0} /\ MaxResponses \in Nat /\ MaxClock \in Nat

VARIABLES
  mode,       \* settings.response_mode, or "slack" behind the router of Slack
  claims,     \* _claims: event -> expiry, 0 when there is no claim
  request,    \* the frame of each request
  now,        \* monotonic clock
  until,      \* expiry of the claim each request obtained, 0 when it has none
  disturbed   \* events whose claims were forgotten, lost or taken away

channelVars == <<mode, claims, request, now, until, disturbed>>

-----------------------------------------------------------------------------
Answers == {"none", "rejected", "ignored", "duplicate", "completed", "accepted",
            "failed", "undelivered", "mode_error", "lost"}

Frames ==
  [pc : {"idle", "claim", "resolve", "handler", "release", "send", "done"},
   event : Events \union {NoEvent}, left : 0..MaxResponses, answer : Answers]

ChannelTypeOK ==
  /\ mode \in Modes
  /\ claims \in [Events -> 0..(MaxClock + TTL)]
  /\ request \in [Requests -> Frames]
  /\ now \in 0..MaxClock
  /\ until \in [Requests -> 0..(MaxClock + TTL)]
  /\ disturbed \subseteq Events

ChannelInit ==
  /\ mode \in Modes
  /\ claims = [e \in Events |-> 0]
  /\ request = [r \in Requests |->
       [pc |-> "idle", event |-> NoEvent, left |-> 0, answer |-> "none"]]
  /\ now = 0
  /\ until = [r \in Requests |-> 0]
  /\ disturbed = {}

At(r, pc) == request[r].pc = pc
Event(r) == request[r].event
Goto(r, pc) == request' = [request EXCEPT ![r].pc = pc]
Answer(r, answer) ==
  request' = [request EXCEPT ![r].pc = "done", ![r].answer = answer]
OnlyRequest == UNCHANGED <<mode, claims, now, until, disturbed>>

-----------------------------------------------------------------------------
Enters(r, e, pc, answer) ==
  /\ At(r, "idle")
  /\ request' = [request EXCEPT ![r] =
       [@ EXCEPT !.event = e, !.pc = pc, !.answer = answer]]
  /\ OnlyRequest

\* Size, media type, signature, event identifier and schema come before the claim.
Receive(r, e) ==
  /\ mode # "slack"
  /\ Enters(r, e, "claim", "none") \/ Enters(r, e, "done", "rejected")

\* So do the workspace, the channel and the kind of the event: a challenge, a message
\* of an application and one without text or file are answered 200 and go no further.
SlackReceive(r, e) ==
  /\ mode = "slack"
  /\ \/ Enters(r, e, "claim", "none")
     \/ Enters(r, e, "done", "rejected")
     \/ Enters(r, e, "done", "ignored")

\* Expired claims are discarded first.
Unclaimed(e) == claims[e] <= now

Claims(r) ==
  /\ claims' = [e \in Events |-> IF e = Event(r) THEN now + TTL
                                 ELSE IF claims[e] <= now THEN 0 ELSE claims[e]]
  /\ until' = [until EXCEPT ![r] = now + TTL]

Claim(r) ==
  /\ At(r, "claim")
  /\ IF Unclaimed(Event(r))
     THEN Claims(r) /\ Goto(r, "resolve")
     ELSE /\ Answer(r, "duplicate")
          /\ claims' = [e \in Events |-> IF claims[e] <= now THEN 0 ELSE claims[e]]
          /\ UNCHANGED until
  /\ UNCHANGED <<mode, now, disturbed>>

\* ChannelIdentityNotResolved, or the handler is called.
Resolve(r) ==
  /\ At(r, "resolve")
  /\ Goto(r, "handler") \/ Goto(r, "release")
  /\ OnlyRequest

\* The status the adapter answers with, once every response is sent.
Outcome(status) ==
  IF mode \in {"sync", "accepted"} /\ status # (IF mode = "sync" THEN "completed"
                                                ELSE "accepted")
  THEN "mode_error" ELSE status

\* handler.handle returns: an accepted result has no responses.
HandlerReturns(r, status) ==
  /\ At(r, "handler")
  /\ IF status = "accepted"
     THEN Answer(r, Outcome(status))
     ELSE \E n \in 0..MaxResponses :
            request' = [request EXCEPT ![r].pc = "send", ![r].left = n]
  /\ OnlyRequest

\* handler.handle raises, or its task is cancelled.
HandlerRaises(r) ==
  /\ At(r, "handler")
  /\ Goto(r, "release")
  /\ OnlyRequest

\* A defect that TLC must notice: only a handler that raises gives the claim back.
Release_Kept(r) ==
  /\ At(r, "release")
  /\ Answer(r, "failed")
  /\ OnlyRequest

\* _claims.pop, whoever made the claim: one that expired may have been made anew.
Release(r) ==
  /\ At(r, "release")
  /\ claims' = [claims EXCEPT ![Event(r)] = 0]
  /\ disturbed' = IF claims[Event(r)] \in {0, until[r]} THEN disturbed
                   ELSE disturbed \union {Event(r)}
  /\ until' = [until EXCEPT ![r] = 0]
  /\ Answer(r, "failed")
  /\ UNCHANGED <<mode, now>>

\* One response at a time, to the HTTP answer or to the callback URL.
Send(r) ==
  /\ At(r, "send")
  /\ IF request[r].left = 0
     THEN Answer(r, Outcome("completed"))
     ELSE request' = [request EXCEPT ![r].left = @ - 1]
  /\ OnlyRequest

Undelivered(r) ==
  /\ At(r, "send") /\ request[r].left > 0
  /\ Answer(r, "undelivered")

\* The callback fails, the response is for another channel, or the task is cancelled
\* there.  The claim is kept.
SendFails(r) == mode # "slack" /\ Undelivered(r) /\ OnlyRequest

\* A defect that TLC must notice: Slack is asked to deliver the event again.
SlackSendFails_Releases(r) ==
  /\ mode = "slack" /\ Undelivered(r)
  /\ claims' = [claims EXCEPT ![Event(r)] = 0]
  /\ UNCHANGED <<mode, now, until, disturbed>>

\* chat.postMessage is refused, limited or out of reach, its answer is not the one
\* expected, or the message is not one that may be sent.  Slack is answered 403, 429,
\* 502 or 503, and the claim is kept.
SlackSendFails(r) == mode = "slack" /\ Undelivered(r) /\ OnlyRequest

-----------------------------------------------------------------------------
(* Failures of the store, and of the process that holds its claims.         *)

\* The call raises without effect.  A release that is lost leaves its claim.
StoreCallLost(r) ==
  /\ \/ At(r, "claim") /\ UNCHANGED disturbed
     \/ At(r, "release") /\ disturbed' = disturbed \union {Event(r)}
  /\ Answer(r, "failed")
  /\ UNCHANGED <<mode, claims, now, until>>

\* The claim is made and its answer is lost: nobody holds it.
ClaimReplyLost(r) ==
  /\ At(r, "claim") /\ Unclaimed(Event(r))
  /\ Claims(r)
  /\ Answer(r, "failed")
  /\ disturbed' = disturbed \union {Event(r)}
  /\ UNCHANGED <<mode, now>>

InProgress(r) == request[r].pc \notin {"idle", "done"}

\* The process restarts: its requests die and a memory store forgets its claims.
ChannelRestarts ==
  /\ request' = [r \in Requests |->
       IF InProgress(r) THEN [request[r] EXCEPT !.pc = "done", !.answer = "lost"]
                        ELSE request[r]]
  /\ claims' = [e \in Events |-> 0]
  /\ disturbed' = disturbed \union {e \in Events : claims[e] > now}
  /\ UNCHANGED <<mode, now, until>>

Tick ==
  /\ now < MaxClock
  /\ now' = now + 1
  /\ UNCHANGED <<mode, claims, request, until, disturbed>>

-----------------------------------------------------------------------------
DispatchStep(r) == Claim(r) \/ Resolve(r) \/ Release(r) \/ Send(r)

\* r holds a claim, or held it and its handler returned.
Working(r) == request[r].pc \in {"resolve", "handler", "release", "send"}
Handled(r) ==
  request[r].answer \in {"completed", "accepted", "undelivered", "mode_error"}

\* While its claim lasts, a delivery is handled by one request, and by no other once
\* the handler returned (docs/capabilities/channel-webhook.md: a duplicate does not
\* execute the application again).
HandledOnce(e) ==
  \A r, q \in Requests :
    /\ Event(r) = e /\ Event(q) = e
    /\ Working(r) \/ Handled(r)
    /\ Working(q) \/ Handled(q)
    /\ until[r] > now /\ until[q] > now
    => r = q

\* A claim that would turn a delivery away was made by a request that is still
\* working or whose handler returned: the failure of an identity or of a handler
\* never makes the provider's next delivery a duplicate.
ClaimHasReason(e) ==
  claims[e] > now =>
    \E r \in Requests :
      Event(r) = e /\ until[r] = claims[e] /\ (Working(r) \/ Handled(r))
=============================================================================
