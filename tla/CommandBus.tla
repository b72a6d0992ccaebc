----------------------------- MODULE CommandBus ------------------------------
(***************************************************************************)
(* The RabbitMQ command bus (adapters/bidirectional/rabbitmq/command_bus.  *)
(* py): publishers that share one bus object and connect it on demand, the *)
(* queue of the broker with its dead-letter exchange, and a worker in run, *)
(* which handles up to `Concurrency' commands at a time.  A command is     *)
(* known by the task that publishes it.  The broker is external: it keeps  *)
(* what it confirmed, and delivers again what was not acknowledged.        *)
(***************************************************************************)
EXTENDS Naturals, FiniteSets

CONSTANTS
  Publishers,
  Foreign,      \* messages of other publishers, which do not decode
  Concurrency, Prefetch,
  Requeues      \* retry_enabled and retry_requeue

\* Assumed by the module that composes this one.
BusAssumption ==
  /\ Publishers \intersect Foreign = {}
  /\ Concurrency \in Nat \ {0} /\ Prefetch \in Nat \ {0} /\ Requeues \in BOOLEAN

VARIABLES
  connected,  \* _connection is not None
  declared,   \* _exchange is not None
  publisher,  \* where each publish is
  queue,      \* commands ready for delivery
  worker,     \* run of the worker
  delivery,   \* what the worker does with each command it was delivered
  permits,    \* the semaphore
  executed,   \* commands whose handler returned, at least once
  dead        \* commands rejected for good

busVars ==
  <<connected, declared, publisher, queue, worker, delivery, permits, executed, dead>>
publishing == <<connected, declared, publisher>>
consuming == <<worker, delivery, permits, executed, dead>>

-----------------------------------------------------------------------------
Commands == Publishers \union Foreign

BusTypeOK ==
  /\ connected \in BOOLEAN /\ declared \in BOOLEAN
  /\ publisher \in [Publishers -> {"idle", "connector", "declare", "bind",
                                   "publish", "published", "failed"}]
  /\ queue \subseteq Commands
  /\ worker \in {"off", "on", "draining"}
  /\ delivery \in [Commands -> {"none", "buffered", "handling", "ack", "nack", "reject"}]
  /\ permits \in 0..Concurrency
  /\ executed \subseteq Publishers /\ dead \subseteq Commands

BusInit ==
  /\ connected = FALSE /\ declared = FALSE
  /\ publisher = [p \in Publishers |-> "idle"]
  /\ queue = Foreign
  /\ worker = "off"
  /\ delivery = [c \in Commands |-> "none"]
  /\ permits = Concurrency
  /\ executed = {} /\ dead = {}

-----------------------------------------------------------------------------
(* publish, and the connect that it begins with.                            *)

To(p, step) == publisher' = [publisher EXCEPT ![p] = step]

\* connect returns at once when there is a connection, declared or not.
Publish(p) ==
  /\ publisher[p] = "idle"
  /\ To(p, IF connected THEN "publish" ELSE "connector")
  /\ UNCHANGED <<connected, declared, queue, consuming>>

Connector(p) ==
  /\ publisher[p] = "connector"
  /\ connected' = TRUE
  /\ To(p, "declare")
  /\ UNCHANGED <<declared, queue, consuming>>

\* The channel, its prefetch and the exchange.
Declare(p) ==
  /\ publisher[p] = "declare"
  /\ declared' = TRUE
  /\ To(p, "bind")
  /\ UNCHANGED <<connected, queue, consuming>>

\* The dead-letter exchange, the queue and its binding, which exist on the broker
\* already.
Bind(p) ==
  /\ publisher[p] = "bind"
  /\ To(p, "publish")
  /\ UNCHANGED <<connected, declared, queue, consuming>>

\* "RabbitMQ exchange non initialise", or the broker confirms the message.
Confirm(p) ==
  /\ publisher[p] = "publish"
  /\ IF declared
     THEN To(p, "published") /\ queue' = queue \union {p}
     ELSE To(p, "failed") /\ UNCHANGED queue
  /\ UNCHANGED <<connected, declared, consuming>>

InPublish(p) == publisher[p] \in {"connector", "declare", "bind", "publish"}

\* A call of connect or of publish raises, or the task is cancelled in it: what was
\* set remains set, and the message may have reached the queue.
PublishFails(p) ==
  /\ InPublish(p)
  /\ To(p, "failed")
  /\ queue' \in {queue} \union (IF publisher[p] = "publish" /\ declared
                                THEN {queue \union {p}} ELSE {})
  /\ UNCHANGED <<connected, declared, consuming>>

\* The process of the publishers restarts.
PublishersRestart ==
  /\ connected' = FALSE /\ declared' = FALSE
  /\ publisher' = [p \in Publishers |-> IF InPublish(p) THEN "failed" ELSE publisher[p]]
  /\ queue' \in {queue \union sent :
                   sent \in SUBSET {p \in Publishers :
                                      publisher[p] = "publish" /\ declared}}
  /\ UNCHANGED consuming

-----------------------------------------------------------------------------
(* run and handle_message.                                                  *)

Becomes(c, state) == delivery' = [delivery EXCEPT ![c] = state]

WorkerStarts ==
  /\ worker = "off"
  /\ worker' = "on"
  /\ UNCHANGED <<publishing, queue, delivery, permits, executed, dead>>

\* The broker delivers while fewer than `prefetch' messages are unacknowledged.
Deliver(c) ==
  /\ worker = "on" /\ c \in queue
  /\ Cardinality({d \in Commands : delivery[d] # "none"}) < Prefetch
  /\ queue' = queue \ {c}
  /\ Becomes(c, "buffered")
  /\ UNCHANGED <<publishing, worker, permits, executed, dead>>

\* A defect that TLC must notice: a message is acknowledged before it is handled.
Take_AutoAck(c) ==
  /\ worker = "on" /\ delivery[c] = "buffered" /\ permits > 0
  /\ permits' = permits - 1
  /\ \/ Becomes(c, "none") /\ executed' = executed \union ({c} \intersect Publishers)
     \/ Becomes(c, "none") /\ UNCHANGED executed
  /\ UNCHANGED <<publishing, queue, worker, dead>>

\* semaphore.acquire, then a task of its own; a body that does not decode is
\* rejected there.
Take(c) ==
  /\ worker = "on" /\ delivery[c] = "buffered" /\ permits > 0
  /\ permits' = permits - 1
  /\ Becomes(c, IF c \in Foreign THEN "reject" ELSE "handling")
  /\ UNCHANGED <<publishing, queue, worker, executed, dead>>

\* dispatcher.dispatch returns ...
HandlerEnds(c) ==
  /\ delivery[c] = "handling"
  /\ executed' = executed \union {c}
  /\ Becomes(c, "ack")
  /\ UNCHANGED <<publishing, queue, worker, permits, dead>>

\* ... or raises: no handler for its type, or the handler's own error.
HandlerFails(c) ==
  /\ delivery[c] = "handling"
  /\ Becomes(c, "nack")
  /\ UNCHANGED <<publishing, queue, worker, permits, executed, dead>>

\* A defect that TLC must notice: a rejected command keeps its permit.
Released_OnAck(c) == IF delivery[c] = "ack" THEN permits + 1 ELSE permits


\* The finally clause of _handle_with_semaphore.
Released(c) == permits + 1

\* ack, or nack with requeue or without.
Settle(c) ==
  /\ delivery[c] \in {"ack", "nack", "reject"}
  /\ Becomes(c, "none")
  /\ permits' = Released(c)
  /\ queue' = IF delivery[c] = "nack" /\ Requeues THEN queue \union {c} ELSE queue
  /\ dead' = IF delivery[c] = "reject" \/ (delivery[c] = "nack" /\ ~Requeues)
             THEN dead \union {c} ELSE dead
  /\ UNCHANGED <<publishing, worker, executed>>

\* The consumer is cancelled: what it did not take goes back to the queue, and the
\* tasks are gathered.
WorkerStops ==
  /\ worker = "on"
  /\ worker' = "draining"
  /\ queue' = queue \union {c \in Commands : delivery[c] = "buffered"}
  /\ delivery' = [c \in Commands |-> IF delivery[c] = "buffered" THEN "none"
                                     ELSE delivery[c]]
  /\ UNCHANGED <<publishing, permits, executed, dead>>

WorkerLeaves ==
  /\ worker = "draining" /\ \A c \in Commands : delivery[c] = "none"
  /\ worker' = "off"
  /\ permits' = Concurrency
  /\ UNCHANGED <<publishing, queue, delivery, executed, dead>>

\* The worker dies, or its connection: what it did not settle is delivered again.
WorkerCrashes ==
  /\ worker # "off"
  /\ worker' = "off"
  /\ queue' = queue \union {c \in Commands : delivery[c] # "none"}
  /\ delivery' = [c \in Commands |-> "none"]
  /\ permits' = Concurrency
  /\ UNCHANGED <<publishing, executed, dead>>

-----------------------------------------------------------------------------
PublishStep(p) == Connector(p) \/ Declare(p) \/ Bind(p) \/ Confirm(p)
WorkerStep(c) == Deliver(c) \/ Take(c) \/ HandlerEnds(c) \/ HandlerFails(c) \/ Settle(c)

\* A command the broker confirmed is never lost: it waits, is being worked on, was
\* executed, or was rejected for good.
Kept(c) == c \in queue \/ delivery[c] # "none" \/ c \in executed \union dead
=============================================================================
