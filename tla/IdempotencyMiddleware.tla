----------------------- MODULE IdempotencyMiddleware ------------------------
(***************************************************************************)
(* The ASGI middleware that replays the response of a request with the     *)
(* same Idempotency-Key (adapters/inbound/fastapi/idempotency.py) over the *)
(* cache it shares with the other requests                                 *)
(* (adapters/outbound/memory/cache_adapter.py).  A request is the task     *)
(* that serves it.  Its handler is the application's: it performs one      *)
(* business effect, then sends the start of a response and the parts of    *)
(* its body, and may raise in between.  A response is known by the request *)
(* whose handler produced it, its class and the parts that were captured.  *)
(***************************************************************************)
EXTENDS Naturals

CONSTANTS
  Requests, NoRequest,
  Paths, Keys,      \* route paths and keys of legal length
  NoKey, LongKey,   \* no header, and a key of more than 255 characters
  Required,         \* a POST without a key is rejected
  TTL,              \* seconds a response is replayed
  BodyParts,        \* http.response.body messages of a whole response
  CacheFails,       \* calls of the cache may raise
  MaxClock          \* bound on time

IdempotencyAssumption ==
  /\ NoKey \notin Keys /\ LongKey \notin Keys
  /\ TTL \in Nat \ {0} /\ BodyParts \in Nat \ {0} /\ MaxClock \in Nat
  /\ Required \in BOOLEAN /\ CacheFails \in BOOLEAN
  /\ NoRequest \notin Requests

VARIABLES
  cache,    \* _store: path and key -> response and expiry, or NoEntry
  call,     \* the frame of each request
  reply,    \* what the client of each request received
  effects,  \* requests whose handler performed its business effect
  stored,   \* when the response of each request was cached, or Never
  now       \* time.monotonic

vars == <<cache, call, reply, effects, stored, now>>

-----------------------------------------------------------------------------
Outcomes == {"success", "error"}
Responses ==
  [by : Requests \union {NoRequest}, status : Outcomes \union {"none"},
   parts : 0..BodyParts]

\* The dictionary that _capture_response fills, which starts as a 500.
Blank == [by |-> NoRequest, status |-> "error", parts |-> 0]
Silence == [by |-> NoRequest, status |-> "none", parts |-> 0]

NoEntry == [expires |-> 0]

Entry(response) == [response |-> response, expires |-> now + TTL]
Never == MaxClock + 1

Idle == [pc |-> "idle", path |-> NoRequest, key |-> NoKey, response |-> Blank]

CacheKeys == Paths \X Keys

TypeOK ==
  /\ cache \in [CacheKeys ->
                  [response : Responses, expires : 1..(MaxClock + TTL)] \union {NoEntry}]
  /\ call \in [Requests ->
       [pc : {"idle", "lookup", "handler", "store", "done"},
        path : Paths \union {NoRequest}, key : Keys \union {NoKey, LongKey},
        response : Responses]]
  /\ reply \in [Requests -> Responses]
  /\ effects \subseteq Requests
  /\ stored \in [Requests -> 0..Never]
  /\ now \in 0..MaxClock

Init ==
  /\ cache = [k \in CacheKeys |-> NoEntry]
  /\ call = [r \in Requests |-> Idle]
  /\ reply = [r \in Requests |-> Silence]
  /\ effects = {}
  /\ stored = [r \in Requests |-> Never]
  /\ now = 0

-----------------------------------------------------------------------------
At(r, pc) == call[r].pc = pc
Step(r, pc) == call' = [call EXCEPT ![r].pc = pc]
Send(r, response) == reply' = [reply EXCEPT ![r] = response]

\* A defect that TLC must notice: the same key on two routes shares an entry.
CacheKey_AnyPath(r) == <<CHOOSE p \in Paths : TRUE, call[r].key>>

\* f"idempotency:{path}:{key}"
CacheKey(r) == <<call[r].path, call[r].key>>

\* __call__ up to the lookup.  A missing key is rejected or ignored, a key that is
\* too long is rejected.
Arrive(r) ==
  /\ At(r, "idle")
  /\ \E p \in Paths, k \in Keys \union {NoKey, LongKey} :
       LET rejected == k = LongKey \/ (k = NoKey /\ Required)
       IN /\ call' = [call EXCEPT ![r] =
               [@ EXCEPT !.path = p, !.key = k,
                         !.pc = IF rejected THEN "done"
                                ELSE IF k = NoKey THEN "handler" ELSE "lookup"]]
          /\ IF rejected
             THEN Send(r, [by |-> r, status |-> "error", parts |-> BodyParts])
             ELSE UNCHANGED reply
  /\ UNCHANGED <<cache, effects, stored, now>>

\* A defect that TLC must notice: an entry dies one tick early.
Fresh_Early(entry) == entry # NoEntry /\ now + 1 < entry.expires

Fresh(entry) == entry # NoEntry /\ now < entry.expires

\* cache.get: a hit is replayed, an expired entry is removed.
Lookup(r) ==
  /\ At(r, "lookup")
  /\ LET entry == cache[CacheKey(r)] IN
       IF Fresh(entry)
       THEN /\ Send(r, entry.response)
            /\ Step(r, "done")
            /\ UNCHANGED cache
       ELSE /\ Step(r, "handler")
            /\ cache' = [cache EXCEPT ![CacheKey(r)] = NoEntry]
            /\ UNCHANGED reply
  /\ UNCHANGED <<effects, stored, now>>

-----------------------------------------------------------------------------
(* The handler behind the middleware.                                       *)

PerformEffect(r) ==
  /\ At(r, "handler") /\ r \notin effects
  /\ call[r].response.by = NoRequest
  /\ effects' = effects \union {r}
  /\ UNCHANGED <<cache, call, reply, stored, now>>

\* _send_wrapper: captured, then sent.  Success is announced once the effect is
\* performed.
Capture(r, response) ==
  /\ call' = [call EXCEPT ![r].response = response]
  /\ Send(r, response)
  /\ UNCHANGED <<cache, effects, stored, now>>

SendStart(r) ==
  /\ At(r, "handler") /\ call[r].response.by = NoRequest
  /\ \E status \in Outcomes :
       /\ status = "success" => r \in effects
       /\ Capture(r, [by |-> r, status |-> status, parts |-> 0])

SendBody(r) ==
  /\ At(r, "handler") /\ call[r].response.by = r
  /\ call[r].response.parts < BodyParts
  /\ Capture(r, [call[r].response EXCEPT !.parts = @ + 1])

\* A request without a key was never wrapped.
Cacheable(r) == call[r].key \in Keys /\ call[r].response.status = "success"

\* The handler returns after its last message, or raises at any point; the finally
\* clause waits for the cache only to store a success.
HandlerEnds(r) ==
  /\ At(r, "handler")
  /\ Step(r, IF Cacheable(r) THEN "store" ELSE "done")
  /\ UNCHANGED <<cache, reply, effects, stored, now>>

-----------------------------------------------------------------------------
Store(r) ==
  /\ At(r, "store")
  /\ Step(r, "done")
  /\ cache' = [cache EXCEPT ![CacheKey(r)] = Entry(call[r].response)]
  /\ stored' = [stored EXCEPT ![r] = now]
  /\ UNCHANGED <<reply, effects, now>>

\* cache.get or cache.set raises: the request ends there.
CacheRaises(r) ==
  /\ CacheFails
  /\ At(r, "lookup") \/ At(r, "store")
  /\ Step(r, "done")
  /\ UNCHANGED <<cache, reply, effects, stored, now>>

Tick ==
  /\ now < MaxClock
  /\ now' = now + 1
  /\ UNCHANGED <<cache, call, reply, effects, stored>>

Next ==
  \/ \E r \in Requests :
       \/ Arrive(r) \/ Lookup(r) \/ PerformEffect(r) \/ SendStart(r) \/ SendBody(r)
       \/ HandlerEnds(r) \/ Store(r) \/ CacheRaises(r)
  \/ Tick

Spec == Init /\ [][Next]_vars

-----------------------------------------------------------------------------
(* Correctness.                                                             *)

SameKey(r, q) ==
  call[r].key \in Keys /\ call[r].path = call[q].path /\ call[r].key = call[q].key

\* What a client receives was produced by its own handler or by that of a request
\* to the same route with the same key; a replay is always the success of a
\* request whose effect was performed.
RepliesBelong ==
  \A r \in Requests : reply[r].by \notin {r, NoRequest} =>
    /\ SameKey(r, reply[r].by)
    /\ reply[r].status = "success"
    /\ reply[r].by \in effects

\* A retry sent after a success was cached, and before it expired, never reaches
\* the handler again, whatever happened to the cache in between.
RetriesReplay ==
  [][\A r, q \in Requests :
       /\ At(r, "lookup") /\ SameKey(r, q)
       /\ stored[q] # Never /\ now < stored[q] + TTL
       => call'[r].pc # "handler"]_vars

\* "Concurrent requests with same key -> first wins, others wait or get cached
\* response" (the middleware's documentation).  Nothing reserves the key.
FirstWins ==
  [][\A r \in effects' \ effects, q \in effects :
       SameKey(r, q) => At(q, "done")]_vars
=============================================================================
