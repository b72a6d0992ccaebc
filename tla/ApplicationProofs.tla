------------------------- MODULE ApplicationProofs --------------------------
(***************************************************************************)
(* What the components of Application promise: first those that store data *)
(* (replies, facts, entities, files, objects of clouds and vectors), then  *)
(* those that open, share and close resources (the cockpit, the runners    *)
(* and the graphs of a process, the tenants and the telemetry).  The       *)
(* components share no variable, so each has an inductive invariant of its *)
(* own and a step of another one leaves it as it is: a section per         *)
(* component states the invariant, shows that each action preserves it,    *)
(* and derives from it what the component promises.  The last section puts *)
(* together the properties that speak of several components.               *)
(***************************************************************************)
EXTENDS Application, Integers, Sequences, FiniteSets, FiniteSetTheorems, TLAPS

-----------------------------------------------------------------------------
(* AppendOnlyStore.                                                         *)

StoredFacts == [fingerprint : Facts!Records, record : Facts!Records]

\* What is stored was asked under its key, has its identity to itself, and every
\* answer is what is stored.
FactInv ==
  /\ byKey \in [AppendKeys -> StoredFacts \union {Facts!NoStored}]
  /\ facts \in [Identities -> Facts!Records \union {Facts!NoFact}]
  /\ draft \in [Writers -> Facts!Records]
  /\ request \in [Writers ->
       [pc : {"waiting"}, key : AppendKeys, snapshot : Facts!Records]
         \union {Facts!Unasked}]
  /\ \A t \in told : t.key \in AppendKeys /\ byKey[t.key] # Facts!NoStored
  /\ Facts!FactsAreAsAsked

\* A record is not the absence of one.
LEMMA NoFactIsNoRecord ==
  Facts!NoFact \notin Facts!Records /\ Facts!NoStored \notin StoredFacts
<1>1. NoAppendKey \notin Identities
  BY ApplicationAssumption DEF Facts!AppendAssumption
<1> QED
  BY <1>1 DEF Facts!NoFact, Facts!Records, Facts!NoStored, StoredFacts

\* Nothing is stored at first.
LEMMA FactInit == Init => FactInv
<1> SUFFICES ASSUME Init PROVE FactInv
  OBVIOUS
<1> USE DEF Init, Facts!AppendInit
<1>1. draft \in [Writers -> Facts!Records]
  <2>1. \E r \in Facts!Records : TRUE
    <3>1. PICK i \in Identities, c \in Contents : TRUE
      BY ApplicationAssumption DEF Facts!AppendAssumption
    <3>2. [identity |-> i, content |-> c] \in Facts!Records
      BY DEF Facts!Records
    <3> QED
      BY <3>2
  <2>2. (CHOOSE r \in Facts!Records : TRUE) \in Facts!Records
    BY <2>1
  <2> QED
    BY <2>2
<1> QED
  BY <1>1 DEF FactInv, Facts!FactsAreAsAsked

\* A fact enters once, under a key and an identity that were free.
LEMMA FactStored ==
  ASSUME FactInv, NEW w \in Writers, Facts!Stored(w)
  PROVE  FactInv'
<1> DEFINE k == request[w].key
           r == request[w].snapshot
<1>1. k \in AppendKeys /\ r \in Facts!Records
  BY DEF FactInv, Facts!Stored, Facts!Waits, Facts!Unasked
<1>2. /\ draft' \in [Writers -> Facts!Records]
      /\ request' \in [Writers ->
           [pc : {"waiting"}, key : AppendKeys, snapshot : Facts!Records]
             \union {Facts!Unasked}]
  BY DEF FactInv, Facts!Stored
<1> DEFINE Told(record) == told' \subseteq told \union {[key |-> k, asked |-> r,
                                                        answered |-> record]}
<1>3. CASE UNCHANGED <<byKey, facts, told>>
  BY <1>2, <1>3 DEF FactInv, Facts!FactsAreAsAsked
<1>4. CASE byKey[k] # Facts!NoStored /\ ~Facts!KeyConflict(w)
           /\ Facts!Answers(w, byKey[k].record) /\ UNCHANGED <<byKey, facts>>
  <2>1. byKey[k].record = r
    BY <1>1, <1>4 DEF FactInv, Facts!FactsAreAsAsked, Facts!KeyConflict, Facts!Fingerprint
  <2>2. \A t \in told' :
          t \in told \/ (t.key = k /\ t.asked = r /\ t.answered = byKey[k].record)
    BY <1>4 DEF Facts!Answers, Facts!Fingerprint
  <2> QED
    BY <1>1, <1>2, <1>4, <2>1, <2>2 DEF FactInv, Facts!FactsAreAsAsked
<1>5. CASE /\ byKey[k] = Facts!NoStored /\ facts[r.identity] = Facts!NoFact
           /\ byKey' = [byKey EXCEPT ![k] = [fingerprint |-> r, record |-> r]]
           /\ facts' = [facts EXCEPT ![r.identity] = r]
           /\ Facts!Answers(w, r)
  <2> HIDE DEF k, r
  <2>1. r.identity \in Identities
    BY <1>1 DEF Facts!Records
  <2>2. PICK s \in StoredFacts : /\ s.fingerprint = r /\ s.record = r
                                 /\ byKey' = [byKey EXCEPT ![k] = s]
    BY <1>1, <1>5 DEF StoredFacts
  <2>3. /\ byKey' \in [AppendKeys -> StoredFacts \union {Facts!NoStored}]
        /\ facts' \in [Identities -> Facts!Records \union {Facts!NoFact}]
    BY <1>1, <1>5, <2>1, <2>2 DEF FactInv
  <2>4. \A j \in AppendKeys : byKey[j] # Facts!NoStored =>
          /\ byKey[j].record \in Facts!Records
          /\ byKey[j].record.identity # r.identity
    BY <1>5, NoFactIsNoRecord DEF FactInv, Facts!FactsAreAsAsked, StoredFacts
  <2>5. \A j \in AppendKeys \ {k} : byKey'[j] = byKey[j]
    BY <2>2 DEF FactInv
  <2>6. byKey'[k] = s /\ s # Facts!NoStored
    BY <1>1, <2>2, NoFactIsNoRecord DEF FactInv
  <2>7. facts'[r.identity] = r /\ \A i \in Identities \ {r.identity} : facts'[i] = facts[i]
    BY <1>5, <2>1 DEF FactInv
  <2>8. \A j \in AppendKeys : byKey'[j] # Facts!NoStored =>
          /\ byKey'[j].record = byKey'[j].fingerprint
          /\ facts'[byKey'[j].record.identity] = byKey'[j].record
          /\ \A m \in AppendKeys \ {j} :
               byKey'[m] # Facts!NoStored
                 => byKey'[m].record.identity # byKey'[j].record.identity
    <3>1. \A j \in AppendKeys \ {k} : byKey[j] # Facts!NoStored =>
            /\ byKey[j].record = byKey[j].fingerprint
            /\ facts[byKey[j].record.identity] = byKey[j].record
            /\ byKey[j].record.identity \in Identities
      BY <2>4 DEF FactInv, Facts!FactsAreAsAsked, Facts!Records
    <3>2. \A j, m \in AppendKeys : j # m /\ byKey[j] # Facts!NoStored
                                     /\ byKey[m] # Facts!NoStored
            => byKey[m].record.identity # byKey[j].record.identity
      BY DEF FactInv, Facts!FactsAreAsAsked
    <3> QED
      BY <2>2, <2>4, <2>5, <2>6, <2>7, <3>1, <3>2
  <2>9. \A t \in told' : t \in told \/ (t.key = k /\ t.asked = r /\ t.answered = r)
    BY <1>5 DEF Facts!Answers, Facts!Fingerprint, k, r
  <2>10. \A t \in told' :
           /\ t.key \in AppendKeys /\ byKey'[t.key] # Facts!NoStored
           /\ t.answered = t.asked /\ byKey'[t.key].record = t.answered
    <3>1. \A t \in told : t.key # k
      BY <1>5 DEF FactInv
    <3> QED
      BY <1>1, <2>2, <2>5, <2>6, <2>9, <3>1 DEF FactInv, Facts!FactsAreAsAsked
  <2> QED
    BY <1>2, <2>3, <2>8, <2>10 DEF FactInv, Facts!FactsAreAsAsked
<1>6. \/ UNCHANGED <<byKey, facts, told>>
      \/ /\ byKey[k] # Facts!NoStored /\ ~Facts!KeyConflict(w)
         /\ Facts!Answers(w, byKey[k].record) /\ UNCHANGED <<byKey, facts>>
      \/ /\ byKey[k] = Facts!NoStored /\ facts[r.identity] = Facts!NoFact
         /\ byKey' = [byKey EXCEPT ![k] = [fingerprint |-> r, record |-> r]]
         /\ facts' = [facts EXCEPT ![r.identity] = r]
         /\ Facts!Answers(w, r)
  BY DEF Facts!Stored, Facts!IdentityConflict, Facts!Snapshot, Facts!Fingerprint
<1> QED
  BY <1>3, <1>4, <1>5, <1>6

\* A record object that is changed while its append waits changes nothing else.
LEMMA FactNext == FactInv /\ [Next]_vars => FactInv'
<1> SUFFICES ASSUME FactInv, [Next]_vars PROVE FactInv'
  OBVIOUS
<1>1. CASE UNCHANGED factVars
  BY <1>1 DEF factVars, FactInv, Facts!FactsAreAsAsked
<1>2. ASSUME NEW w \in Writers, Facts!Draft(w) \/ Facts!Append(w)
      PROVE  FactInv'
  <2>1. UNCHANGED <<byKey, facts, told>>
    BY <1>2 DEF Facts!Draft, Facts!Append
  <2>2. draft' \in [Writers -> Facts!Records]
    BY <1>2 DEF FactInv, Facts!Draft, Facts!Append
  <2>3. request' \in [Writers ->
           [pc : {"waiting"}, key : AppendKeys, snapshot : Facts!Records]
             \union {Facts!Unasked}]
    BY <1>2 DEF FactInv, Facts!Draft, Facts!Append
  <2> QED
    BY <2>1, <2>2, <2>3 DEF FactInv, Facts!FactsAreAsAsked
<1> QED
  BY <1>1, <1>2, FactStored DEF Next, OthersRest, Facts!AppendStep, vars

\* A key and an identity stand for the fact that was asked when append was called.
THEOREM FactsAreAlwaysAsAsked == Spec => []FactsAreAsAsked
<1>1. FactInv => FactsAreAsAsked
  BY DEF FactInv, FactsAreAsAsked
<1> QED
  BY <1>1, FactInit, FactNext, PTL DEF Spec

-----------------------------------------------------------------------------
(* IdempotencyMiddleware.                                                   *)

HttpFrames ==
  [pc : {"idle", "lookup", "handler", "store", "done"},
   path : Paths \union {NoRequest}, key : Keys \union {NoKey, LongKey},
   response : Http!Responses]

HttpTyped ==
  /\ cache \in [Paths \X Keys ->
                  [response : Http!Responses, expires : Nat] \union {Http!NoEntry}]
  /\ call \in [Requests -> HttpFrames]
  /\ reply \in [Requests -> Http!Responses]
  /\ effects \subseteq Requests
  /\ stored \in [Requests -> Nat]
  /\ now \in 0..MaxClock

\* The response of a handler that announced success after its effect.
SuccessOf(response, q) ==
  response.by = q /\ response.status = "success" /\ q \in effects

\* What a handler announced so far.
Announced(r) ==
  LET response == call[r].response IN
  /\ response.by \in {r, NoRequest}
  /\ response.status = "success" => SuccessOf(response, r)
  /\ call[r].pc \in {"lookup", "handler", "store"} => call[r].path \in Paths
  /\ call[r].pc \in {"lookup", "store"} => call[r].key \in Keys
  /\ call[r].pc = "store" => response.status = "success"

\* The entry of a path and a key is a success of a request with both.
EntryBelongs(p, k) ==
  cache[<<p, k>>] # Http!NoEntry =>
    \E q \in Requests :
      /\ SuccessOf(cache[<<p, k>>].response, q)
      /\ call[q].pc # "idle" /\ call[q].path = p /\ call[q].key = k

ReplyBelongs(r) ==
  /\ call[r].pc = "idle" => reply[r].by = NoRequest
  /\ reply[r].by \notin {r, NoRequest} =>
       \E q \in Requests :
         /\ SuccessOf(reply[r], q) /\ call[q].pc # "idle"
         /\ call[r].key \in Keys /\ call[q].key = call[r].key
         /\ call[q].path = call[r].path

\* A success that was cached is there for as long as it is to be replayed.
StaysCached(q) ==
  stored[q] # Http!Never =>
    /\ call[q].pc = "done" /\ call[q].path \in Paths /\ call[q].key \in Keys
    /\ stored[q] <= now
    /\ now < stored[q] + TTL =>
         /\ cache[<<call[q].path, call[q].key>>] # Http!NoEntry
         /\ cache[<<call[q].path, call[q].key>>].expires >= stored[q] + TTL

HttpInv ==
  /\ HttpTyped
  /\ \A r \in Requests : Announced(r) /\ ReplyBelongs(r) /\ StaysCached(r)
  /\ \A p \in Paths, k \in Keys : EntryBelongs(p, k)

\* No key and no request is taken for the absence of one.
LEMMA HttpAssumed ==
  /\ NoKey \notin Keys /\ LongKey \notin Keys /\ NoRequest \notin Requests
  /\ TTL \in Nat \ {0} /\ BodyParts \in Nat \ {0} /\ MaxClock \in Nat
  BY ApplicationAssumption DEF Http!IdempotencyAssumption

\* Nothing was received, sent or cached at first.
LEMMA HttpInit == Init => HttpInv
<1> SUFFICES ASSUME Init PROVE HttpInv
  OBVIOUS
<1> USE DEF Init, Http!Init
<1>1. Http!Blank \in Http!Responses /\ Http!Silence \in Http!Responses
  BY HttpAssumed DEF Http!Blank, Http!Silence, Http!Responses, Http!Outcomes
<1>2. Http!Idle \in HttpFrames
  BY <1>1 DEF Http!Idle, HttpFrames
<1>3. Http!Never \in Nat
  BY HttpAssumed DEF Http!Never
<1>4. HttpTyped
  BY <1>1, <1>2, <1>3, HttpAssumed DEF HttpTyped, Http!CacheKeys
<1> QED
  BY <1>4, HttpAssumed
     DEF HttpInv, Announced, ReplyBelongs, StaysCached, EntryBelongs, Http!Idle,
         Http!Blank, Http!Silence, Http!CacheKeys

\* What is cached is forgotten at most, and not while it is to be replayed.
CacheKeeps ==
  /\ cache' \in [Paths \X Keys ->
                   [response : Http!Responses, expires : Nat] \union {Http!NoEntry}]
  /\ \A p \in Paths, k \in Keys : cache'[<<p, k>>] \in {cache[<<p, k>>], Http!NoEntry}
  /\ \A q \in Requests : stored[q] # Http!Never /\ now < stored[q] + TTL =>
       cache'[<<call[q].path, call[q].key>>] = cache[<<call[q].path, call[q].key>>]

\* A request goes on; the others keep what they know of it.
LEMMA HttpMoves ==
  ASSUME HttpInv, NEW r \in Requests, NEW f \in HttpFrames,
         call' = [call EXCEPT ![r] = f], call[r].pc # "done", f.pc # "idle",
         call[r].pc # "idle" => f.path = call[r].path /\ f.key = call[r].key,
         UNCHANGED <<stored, now>>, CacheKeeps,
         effects \subseteq effects', effects' \subseteq Requests,
         NEW answer \in Http!Responses, reply' = [reply EXCEPT ![r] = answer],
         Announced(r)', ReplyBelongs(r)'
  PROVE  HttpInv'
<1>1. HttpTyped'
  BY DEF HttpInv, HttpTyped, CacheKeeps
<1>2. \A q \in Requests : call'[q] = IF q = r THEN f ELSE call[q]
  BY DEF HttpInv, HttpTyped
<1>3. \A q \in Requests : call[q].pc # "idle" =>
        /\ call'[q].pc # "idle" /\ call'[q].path = call[q].path
        /\ call'[q].key = call[q].key
  BY <1>2
<1>4. \A response, q : SuccessOf(response, q) => SuccessOf(response, q)'
  BY DEF SuccessOf
<1>5. ASSUME NEW q \in Requests, q # r
      PROVE  Announced(q)' /\ ReplyBelongs(q)'
  <2>1. call'[q] = call[q] /\ reply'[q] = reply[q]
    BY <1>2, <1>5 DEF HttpInv, HttpTyped
  <2>2. Announced(q)'
    BY <2>1, <1>4 DEF HttpInv, Announced, SuccessOf
  <2>3. ReplyBelongs(q)'
    BY <2>1, <1>3, <1>4 DEF HttpInv, ReplyBelongs, SuccessOf
  <2> QED
    BY <2>2, <2>3
<1>6. ASSUME NEW q \in Requests
      PROVE  StaysCached(q)'
  <2>1. StaysCached(q) /\ stored'[q] = stored[q] /\ now' = now /\ Http!Never' = Http!Never
    BY DEF HttpInv, Http!Never
  <2>2. stored[q] # Http!Never => call'[q] = call[q]
    BY <1>2, <2>1 DEF StaysCached
  <2> QED
    BY <2>1, <2>2 DEF StaysCached, CacheKeeps
<1>7. ASSUME NEW p \in Paths, NEW k \in Keys
      PROVE  EntryBelongs(p, k)'
  <2>1. EntryBelongs(p, k) /\ cache'[<<p, k>>] \in {cache[<<p, k>>], Http!NoEntry}
    BY DEF HttpInv, CacheKeeps
  <2> QED
    BY <1>3, <1>4, <2>1 DEF EntryBelongs, SuccessOf
<1> QED
  BY <1>1, <1>5, <1>6, <1>7 DEF HttpInv

\* Nothing happens to the cache.
LEMMA SameCache == HttpInv /\ cache' = cache => CacheKeeps
  BY DEF HttpInv, HttpTyped, CacheKeeps

\* The frames and the replies are typed.
LEMMA HttpRecords ==
  ASSUME HttpInv, NEW r \in Requests
  PROVE  /\ call[r] \in HttpFrames /\ reply[r] \in Http!Responses
         /\ reply = [reply EXCEPT ![r] = reply[r]]
  BY DEF HttpInv, HttpTyped

\* A request arrives.
LEMMA ArriveKeeps ==
  ASSUME HttpInv, NEW r \in Requests, Http!Arrive(r)
  PROVE  HttpInv'
<1>1. PICK p \in Paths, k \in Keys \union {NoKey, LongKey} :
        LET rejected == k = LongKey \/ (k = NoKey /\ Required)
        IN /\ call' = [call EXCEPT ![r] =
                [@ EXCEPT !.path = p, !.key = k,
                          !.pc = IF rejected THEN "done"
                                 ELSE IF k = NoKey THEN "handler" ELSE "lookup"]]
           /\ IF rejected
              THEN Http!Send(r, [by |-> r, status |-> "error", parts |-> BodyParts])
              ELSE UNCHANGED reply
  BY DEF Http!Arrive
<1>2. PICK pc \in {"done", "handler", "lookup"} :
        /\ pc = IF k = LongKey \/ (k = NoKey /\ Required) THEN "done"
                ELSE IF k = NoKey THEN "handler" ELSE "lookup"
        /\ pc = "lookup" => k \in Keys
  OBVIOUS
<1>3. PICK f : f = [call[r] EXCEPT !.path = p, !.key = k, !.pc = pc]
  OBVIOUS
<1>4. f = [pc |-> pc, path |-> p, key |-> k, response |-> call[r].response]
  BY <1>3, HttpRecords DEF HttpFrames
<1>5. call' = [call EXCEPT ![r] = f]
  BY <1>1, <1>2, <1>3 DEF HttpInv, HttpTyped
<1>6. f \in HttpFrames
  BY <1>4, HttpRecords DEF HttpFrames
<1>7. call'[r] = f
  BY <1>5 DEF HttpInv, HttpTyped
<1>8. /\ call[r].pc = "idle" /\ Announced(r) /\ ReplyBelongs(r)
      /\ UNCHANGED <<cache, effects, stored, now>>
  BY DEF Http!Arrive, Http!At, HttpInv
<1>9. Announced(r)'
  BY <1>2, <1>4, <1>7, <1>8 DEF Announced, SuccessOf
<1>10. PICK answer \in Http!Responses :
         reply' = [reply EXCEPT ![r] = answer] /\ answer.by \in {r, NoRequest}
  <2>1. [by |-> r, status |-> "error", parts |-> BodyParts] \in Http!Responses
    BY HttpAssumed DEF Http!Responses, Http!Outcomes
  <2>2. reply[r].by \in {r, NoRequest} /\ reply[r] \in Http!Responses
    BY <1>8, HttpRecords DEF ReplyBelongs
  <2> QED
    BY <1>1, <2>1, <2>2, HttpRecords DEF Http!Send
<1>11. ReplyBelongs(r)'
  <2>1. reply'[r] = answer
    BY <1>10 DEF HttpInv, HttpTyped
  <2> QED
    BY <1>4, <1>7, <1>10, <2>1 DEF ReplyBelongs
<1>12. effects \subseteq effects' /\ effects' \subseteq Requests
  BY <1>8 DEF HttpInv, HttpTyped
<1>13. call[r].pc # "done" /\ f.pc # "idle" /\ CacheKeeps
  BY <1>4, <1>8, SameCache
<1> QED
  BY <1>5, <1>6, <1>8, <1>9, <1>10, <1>11, <1>12, <1>13, HttpMoves

\* A request that is served goes to its next step, in any frame that announces what
\* it announced before.
LEMMA StepKeeps ==
  ASSUME HttpInv, NEW r \in Requests, NEW pc \in {"handler", "store", "done"},
         Http!Step(r, pc), call[r].pc \in {"lookup", "handler", "store"},
         pc = "store" => Http!Cacheable(r),
         UNCHANGED <<reply, effects, stored, now>>, CacheKeeps
  PROVE  HttpInv'
<1>1. PICK f : f = [call[r] EXCEPT !.pc = pc]
  OBVIOUS
<1>2. f = [pc |-> pc, path |-> call[r].path, key |-> call[r].key,
           response |-> call[r].response]
  BY <1>1, HttpRecords DEF HttpFrames
<1>3. call' = [call EXCEPT ![r] = f]
  BY <1>1 DEF Http!Step, HttpInv, HttpTyped
<1>4. f \in HttpFrames
  BY <1>2, HttpRecords DEF HttpFrames
<1>5. call'[r] = f
  BY <1>3 DEF HttpInv, HttpTyped
<1>6. Announced(r)'
  BY <1>2, <1>5 DEF HttpInv, Announced, SuccessOf, Http!Cacheable
<1>7. ReplyBelongs(r)'
  <2>1. \A q \in Requests : call[q].pc # "idle" =>
          /\ call'[q].pc # "idle" /\ call'[q].path = call[q].path
          /\ call'[q].key = call[q].key
    BY <1>2, <1>3 DEF HttpInv, HttpTyped
  <2> QED
    BY <1>2, <1>5, <2>1 DEF HttpInv, ReplyBelongs, SuccessOf
<1>8. effects \subseteq effects' /\ effects' \subseteq Requests
  BY DEF HttpInv, HttpTyped
<1>9. /\ call[r].pc # "done" /\ f.pc # "idle"
      /\ f.path = call[r].path /\ f.key = call[r].key
  BY <1>2
<1> QED
  BY <1>3, <1>4, <1>6, <1>7, <1>8, <1>9, HttpRecords, HttpMoves

\* The key of a request that looks up or stores.
LEMMA KeyOfRequest ==
  ASSUME HttpInv, NEW r \in Requests, call[r].pc \in {"lookup", "store"}
  PROVE  /\ call[r].path \in Paths /\ call[r].key \in Keys
         /\ Http!CacheKey(r) = <<call[r].path, call[r].key>>
         /\ Http!CacheKey(r) \in Paths \X Keys
  BY DEF HttpInv, Announced, Http!CacheKey

\* An entry is replayed, or was of no more use.
LEMMA LookupKeeps ==
  ASSUME HttpInv, NEW r \in Requests, Http!Lookup(r)
  PROVE  HttpInv'
<1> DEFINE k == Http!CacheKey(r)
           entry == cache[k]
<1>1. call[r].pc = "lookup" /\ UNCHANGED <<effects, stored, now>>
  BY DEF Http!Lookup, Http!At
<1>2. k = <<call[r].path, call[r].key>> /\ k \in Paths \X Keys
      /\ call[r].path \in Paths /\ call[r].key \in Keys
  BY <1>1, KeyOfRequest
<1>3. CASE Http!Fresh(entry)
  <2>1. /\ reply' = [reply EXCEPT ![r] = entry.response] /\ cache' = cache
        /\ call' = [call EXCEPT ![r].pc = "done"]
    BY <1>3 DEF Http!Lookup, Http!Send, Http!Step
  <2>2. entry # Http!NoEntry /\ entry.response \in Http!Responses
    BY <1>2, <1>3 DEF Http!Fresh, HttpInv, HttpTyped
  <2>3. PICK f : f = [call[r] EXCEPT !.pc = "done"]
    OBVIOUS
  <2>4. f = [pc |-> "done", path |-> call[r].path, key |-> call[r].key,
             response |-> call[r].response]
    BY <2>3, HttpRecords DEF HttpFrames
  <2>5. call' = [call EXCEPT ![r] = f]
    BY <2>1, <2>3 DEF HttpInv, HttpTyped
  <2>6. f \in HttpFrames
    BY <2>4, HttpRecords DEF HttpFrames
  <2>7. call'[r] = f /\ reply'[r] = entry.response
    BY <2>1, <2>5 DEF HttpInv, HttpTyped
  <2>8. Announced(r)'
    BY <1>1, <2>4, <2>7 DEF HttpInv, Announced, SuccessOf
  <2>9. ReplyBelongs(r)'
    <3>1. PICK q \in Requests :
            /\ SuccessOf(entry.response, q) /\ call[q].pc # "idle"
            /\ call[q].path = call[r].path /\ call[q].key = call[r].key
      BY <1>2, <2>2 DEF HttpInv, EntryBelongs
    <3>2. /\ call'[q].pc # "idle" /\ call'[q].path = call[q].path
          /\ call'[q].key = call[q].key
      BY <2>4, <2>5, <3>1 DEF HttpInv, HttpTyped
    <3> QED
      BY <1>1, <1>2, <2>4, <2>7, <3>1, <3>2 DEF ReplyBelongs, SuccessOf
  <2>10. effects \subseteq effects' /\ effects' \subseteq Requests /\ CacheKeeps
    BY <1>1, <2>1, SameCache DEF HttpInv, HttpTyped
  <2>11. /\ call[r].pc # "done" /\ f.pc # "idle"
         /\ f.path = call[r].path /\ f.key = call[r].key
    BY <1>1, <2>4
  <2> HIDE DEF entry
  <2> QED
    BY <1>1, <2>1, <2>2, <2>5, <2>6, <2>8, <2>9, <2>10, <2>11, HttpMoves
<1>4. CASE ~Http!Fresh(entry)
  <2>1. /\ cache' = [cache EXCEPT ![k] = Http!NoEntry] /\ reply' = reply
        /\ Http!Step(r, "handler")
    BY <1>4 DEF Http!Lookup
  <2>2. CacheKeeps
    <3>1. \A q \in Requests : stored[q] # Http!Never /\ now < stored[q] + TTL =>
            <<call[q].path, call[q].key>> # k /\ <<call[q].path, call[q].key>> \in Paths \X Keys
      <4> SUFFICES ASSUME NEW q \in Requests, stored[q] # Http!Never,
                          now < stored[q] + TTL
                   PROVE  <<call[q].path, call[q].key>> # k
                          /\ <<call[q].path, call[q].key>> \in Paths \X Keys
        OBVIOUS
      <4> DEFINE m == <<call[q].path, call[q].key>>
      <4>1. cache[m] # Http!NoEntry /\ cache[m].expires >= stored[q] + TTL
            /\ m \in Paths \X Keys
        BY DEF HttpInv, StaysCached
      <4>2. cache[m].expires \in Nat /\ stored[q] + TTL \in Nat /\ now \in Nat
        BY <4>1, HttpAssumed DEF HttpInv, HttpTyped
      <4>3. Http!Fresh(cache[m])
        BY <4>1, <4>2 DEF Http!Fresh
      <4> QED
        BY <1>4, <4>1, <4>3
    <3>2. \A m \in Paths \X Keys : cache'[m] = IF m = k THEN Http!NoEntry ELSE cache[m]
      BY <2>1 DEF HttpInv, HttpTyped
    <3>3. cache' \in [Paths \X Keys ->
                        [response : Http!Responses, expires : Nat] \union {Http!NoEntry}]
      BY <2>1 DEF HttpInv, HttpTyped
    <3> HIDE DEF k
    <3> QED
      BY <3>1, <3>2, <3>3 DEF CacheKeeps
  <2> QED
    BY <1>1, <2>1, <2>2, StepKeeps
<1> QED
  BY <1>3, <1>4

\* The handler performs its effect.
LEMMA EffectKeeps ==
  ASSUME HttpInv, NEW r \in Requests, Http!PerformEffect(r)
  PROVE  HttpInv'
<1>1. /\ UNCHANGED <<cache, call, reply, stored, now>>
      /\ effects \subseteq effects' /\ effects' \subseteq Requests
  BY DEF Http!PerformEffect, HttpInv, HttpTyped
<1>2. \A response, q : SuccessOf(response, q) => SuccessOf(response, q)'
  BY <1>1 DEF SuccessOf
<1>3. HttpTyped'
  BY <1>1 DEF HttpInv, HttpTyped
<1>4. \A q \in Requests : Announced(q)' /\ ReplyBelongs(q)' /\ StaysCached(q)'
  BY <1>1, <1>2 DEF HttpInv, Announced, ReplyBelongs, StaysCached, Http!Never, SuccessOf
<1>5. \A p \in Paths, k \in Keys : EntryBelongs(p, k)'
  <2> SUFFICES ASSUME NEW p \in Paths, NEW k \in Keys PROVE EntryBelongs(p, k)'
    OBVIOUS
  <2>1. EntryBelongs(p, k)
    BY DEF HttpInv
  <2> QED
    BY <1>1, <2>1 DEF EntryBelongs, SuccessOf
<1> QED
  BY <1>3, <1>4, <1>5 DEF HttpInv

\* A message of the response is captured, then sent.
LEMMA CaptureKeeps ==
  ASSUME HttpInv, NEW r \in Requests, call[r].pc = "handler",
         NEW response \in Http!Responses, response.by = r,
         response.status = "success" => r \in effects,
         Http!Capture(r, response)
  PROVE  HttpInv'
<1>1. /\ call' = [call EXCEPT ![r].response = response]
      /\ reply' = [reply EXCEPT ![r] = response]
      /\ UNCHANGED <<cache, effects, stored, now>>
  BY DEF Http!Capture, Http!Send
<1>2. PICK f : f = [call[r] EXCEPT !.response = response]
  OBVIOUS
<1>3. f = [pc |-> "handler", path |-> call[r].path, key |-> call[r].key,
           response |-> response]
  BY <1>2, HttpRecords DEF HttpFrames
<1>4. call' = [call EXCEPT ![r] = f]
  BY <1>1, <1>2 DEF HttpInv, HttpTyped
<1>5. f \in HttpFrames
  BY <1>3, HttpRecords DEF HttpFrames
<1>6. call'[r] = f /\ reply'[r] = response
  BY <1>1, <1>4 DEF HttpInv, HttpTyped
<1>7. Announced(r)'
  BY <1>1, <1>3, <1>6 DEF HttpInv, Announced, SuccessOf
<1>8. ReplyBelongs(r)'
  BY <1>3, <1>6 DEF ReplyBelongs
<1>9. effects \subseteq effects' /\ effects' \subseteq Requests /\ CacheKeeps
  BY <1>1, SameCache DEF HttpInv, HttpTyped
<1>10. /\ call[r].pc # "done" /\ f.pc # "idle"
       /\ f.path = call[r].path /\ f.key = call[r].key
  BY <1>3
<1> QED
  BY <1>1, <1>4, <1>5, <1>7, <1>8, <1>9, <1>10, HttpMoves

\* The start of a response, and the parts of its body.
LEMMA SendsKeep ==
  ASSUME HttpInv, NEW r \in Requests, Http!SendStart(r) \/ Http!SendBody(r)
  PROVE  HttpInv'
<1>1. CASE Http!SendStart(r)
  <2>1. PICK status \in Http!Outcomes :
          /\ status = "success" => r \in effects
          /\ Http!Capture(r, [by |-> r, status |-> status, parts |-> 0])
    BY <1>1 DEF Http!SendStart
  <2>2. [by |-> r, status |-> status, parts |-> 0] \in Http!Responses
    BY HttpAssumed DEF Http!Responses
  <2> QED
    BY <1>1, <2>1, <2>2, CaptureKeeps DEF Http!SendStart, Http!At
<1>2. CASE Http!SendBody(r)
  <2>1. PICK response : response = [call[r].response EXCEPT !.parts = @ + 1]
    OBVIOUS
  <2>2. response = [by |-> r, status |-> call[r].response.status,
                    parts |-> call[r].response.parts + 1]
    BY <1>2, <2>1, HttpRecords DEF HttpFrames, Http!Responses, Http!SendBody
  <2>3. response \in Http!Responses
    BY <1>2, <2>2, HttpRecords, HttpAssumed DEF HttpFrames, Http!Responses, Http!SendBody
  <2>4. response.status = "success" => r \in effects
    BY <2>2 DEF HttpInv, Announced, SuccessOf
  <2>5. Http!Capture(r, response) /\ call[r].pc = "handler"
    BY <1>2, <2>1 DEF Http!SendBody, Http!At
  <2> QED
    BY <2>2, <2>3, <2>4, <2>5, CaptureKeeps
<1> QED
  BY <1>1, <1>2

\* A success is stored; it will be there for a time to live.
LEMMA StoreKeeps ==
  ASSUME HttpInv, NEW r \in Requests, Http!Store(r)
  PROVE  HttpInv'
<1> DEFINE k == Http!CacheKey(r)
<1>1. /\ call[r].pc = "store" /\ UNCHANGED <<reply, effects, now>>
      /\ call' = [call EXCEPT ![r].pc = "done"]
      /\ stored' = [stored EXCEPT ![r] = now]
      /\ cache' = [cache EXCEPT ![k] = Http!Entry(call[r].response)]
  BY DEF Http!Store, Http!At, Http!Step
<1>2. k = <<call[r].path, call[r].key>> /\ k \in Paths \X Keys
      /\ call[r].path \in Paths /\ call[r].key \in Keys
  BY <1>1, KeyOfRequest
<1>3. PICK e : e = [response |-> call[r].response, expires |-> now + TTL]
  OBVIOUS
<1>4. now \in Nat /\ TTL \in Nat \ {0} /\ MaxClock \in Nat /\ now <= MaxClock
      /\ now + TTL \in Nat /\ now + TTL > 0 /\ stored \in [Requests -> Nat]
  BY HttpAssumed DEF HttpInv, HttpTyped
<1>5. /\ e \in [response : Http!Responses, expires : Nat] /\ e # Http!NoEntry
      /\ e.response = call[r].response /\ e.expires = now + TTL
  <2>1. e.expires # Http!NoEntry.expires
    BY <1>3, <1>4 DEF Http!NoEntry
  <2> QED
    BY <1>3, <1>4, <2>1, HttpRecords DEF HttpFrames
<1>6. /\ \A m \in Paths \X Keys : cache'[m] = IF m = k THEN e ELSE cache[m]
      /\ cache' \in [Paths \X Keys ->
           [response : Http!Responses, expires : Nat] \union {Http!NoEntry}]
  BY <1>1, <1>2, <1>3, <1>5 DEF HttpInv, HttpTyped, Http!Entry
<1> HIDE DEF k
<1>7. PICK f : f = [call[r] EXCEPT !.pc = "done"]
  OBVIOUS
<1>8. f = [pc |-> "done", path |-> call[r].path, key |-> call[r].key,
           response |-> call[r].response]
  BY <1>7, HttpRecords DEF HttpFrames
<1>9. f \in HttpFrames /\ call' = [call EXCEPT ![r] = f]
  BY <1>1, <1>7, <1>8, HttpRecords DEF HttpInv, HttpTyped, HttpFrames
<1>10. \A q \in Requests : call'[q] = IF q = r THEN f ELSE call[q]
  BY <1>9 DEF HttpInv, HttpTyped
<1>11. \A q \in Requests : /\ call'[q].path = call[q].path /\ call'[q].key = call[q].key
                            /\ call[q].pc # "idle" <=> call'[q].pc # "idle"
  BY <1>1, <1>8, <1>10
<1>12. HttpTyped'
  BY <1>1, <1>4, <1>6, <1>9 DEF HttpInv, HttpTyped
<1>13. \A q \in Requests : Announced(q)' /\ ReplyBelongs(q)'
  <2>1. \A q \in Requests : Announced(q)'
    BY <1>1, <1>8, <1>10 DEF HttpInv, Announced, SuccessOf
  <2>2. \A q \in Requests : ReplyBelongs(q)'
    BY <1>1, <1>11 DEF HttpInv, ReplyBelongs, SuccessOf
  <2> QED
    BY <2>1, <2>2
<1>14. ASSUME NEW p \in Paths, NEW m \in Keys
       PROVE  EntryBelongs(p, m)'
  <2>1. CASE <<p, m>> = k
    <3>1. p = call[r].path /\ m = call[r].key /\ cache'[<<p, m>>] = e
      BY <1>2, <1>6, <2>1
    <3>2. SuccessOf(e.response, r)'
      BY <1>1, <1>5 DEF HttpInv, Announced, SuccessOf
    <3> QED
      BY <1>8, <1>10, <3>1, <3>2 DEF EntryBelongs, SuccessOf
  <2>2. CASE <<p, m>> # k
    <3>1. cache'[<<p, m>>] = cache[<<p, m>>]
      BY <1>6, <2>2
    <3> QED
      BY <1>1, <1>11, <3>1 DEF HttpInv, EntryBelongs, SuccessOf
  <2> QED
    BY <2>1, <2>2
<1>15. ASSUME NEW q \in Requests
       PROVE  StaysCached(q)'
  <2> DEFINE m == <<call[q].path, call[q].key>>
  <2>1. Http!Never' = Http!Never /\ now' = now
    BY <1>1 DEF Http!Never
  <2>2. CASE q = r
    <3>1. stored'[q] = now /\ call'[q] = f /\ cache'[k] = e
      BY <1>1, <1>2, <1>4, <1>6, <1>10, <2>2
    <3> QED
      BY <1>2, <1>4, <1>5, <1>8, <2>1, <2>2, <3>1 DEF StaysCached
  <2>3. CASE q # r
    <3>1. StaysCached(q) /\ stored'[q] = stored[q] /\ call'[q] = call[q]
      BY <1>1, <1>4, <1>10, <2>3 DEF HttpInv
    <3>2. stored[q] # Http!Never => m \in Paths \X Keys /\ stored[q] <= now
      BY <3>1 DEF StaysCached
    <3>3. stored[q] # Http!Never /\ m = k =>
            cache'[m] # Http!NoEntry /\ cache'[m].expires >= stored[q] + TTL
      <4>1. stored[q] \in Nat
        BY <1>4
      <4> QED
        BY <1>4, <1>5, <1>6, <3>2, <4>1
    <3>4. stored[q] # Http!Never /\ m # k => cache'[m] = cache[m]
      BY <1>6, <3>2
    <3> QED
      BY <2>1, <3>1, <3>3, <3>4 DEF StaysCached
  <2> QED
    BY <2>2, <2>3
<1> QED
  BY <1>12, <1>13, <1>14, <1>15 DEF HttpInv

\* Time passes.
LEMMA TickKeeps ==
  ASSUME HttpInv, Http!Tick
  PROVE  HttpInv'
<1>1. /\ UNCHANGED <<cache, call, reply, effects, stored>>
      /\ now' \in 0..MaxClock /\ now < now' /\ now \in Nat
  BY HttpAssumed DEF Http!Tick, HttpInv, HttpTyped
<1>2. HttpTyped'
  BY <1>1 DEF HttpInv, HttpTyped
<1>3. \A q \in Requests : Announced(q)' /\ ReplyBelongs(q)'
  BY <1>1 DEF HttpInv, Announced, ReplyBelongs, SuccessOf
<1>4. \A q \in Requests : StaysCached(q)'
  <2> SUFFICES ASSUME NEW q \in Requests PROVE StaysCached(q)'
    OBVIOUS
  <2>1. stored[q] \in Nat /\ TTL \in Nat /\ StaysCached(q) /\ Http!Never' = Http!Never
    BY HttpAssumed DEF HttpInv, HttpTyped, Http!Never
  <2> QED
    BY <1>1, <2>1 DEF StaysCached
<1>5. \A p \in Paths, k \in Keys : EntryBelongs(p, k)'
  <2> SUFFICES ASSUME NEW p \in Paths, NEW k \in Keys PROVE EntryBelongs(p, k)'
    OBVIOUS
  <2>1. EntryBelongs(p, k)
    BY DEF HttpInv
  <2> QED
    BY <1>1, <2>1 DEF EntryBelongs, SuccessOf
<1> QED
  BY <1>2, <1>3, <1>4, <1>5 DEF HttpInv

\* Every step of the middleware keeps what is known of the replies and the cache.
LEMMA HttpNext == HttpInv /\ [Next]_vars => HttpInv'
<1> SUFFICES ASSUME HttpInv, [Next]_vars PROVE HttpInv'
  OBVIOUS
<1>1. CASE UNCHANGED httpVars
  BY <1>1 DEF httpVars, HttpInv, HttpTyped, Announced, ReplyBelongs, StaysCached,
       EntryBelongs, SuccessOf, Http!Never
<1>2. ASSUME NEW r \in Requests, Http!HandlerEnds(r) \/ Http!CacheRaises(r)
      PROVE  HttpInv'
  <2>1. UNCHANGED <<cache, reply, effects, stored, now>> /\ CacheKeeps
    BY <1>2, SameCache DEF Http!HandlerEnds, Http!CacheRaises
  <2>2. PICK pc \in {"store", "done"} :
          Http!Step(r, pc) /\ (pc = "store" => Http!Cacheable(r))
    BY <1>2 DEF Http!HandlerEnds, Http!CacheRaises
  <2>3. call[r].pc \in {"lookup", "handler", "store"}
    BY <1>2 DEF Http!HandlerEnds, Http!CacheRaises, Http!At
  <2> QED
    BY <2>1, <2>2, <2>3, StepKeeps
<1>3. ASSUME Http!Next PROVE HttpInv'
  BY <1>2, <1>3, ArriveKeeps, LookupKeeps, EffectKeeps, SendsKeep, StoreKeeps, TickKeeps
     DEF Http!Next
<1> QED
  BY <1>1, <1>3 DEF Next, OthersRest, vars

\* HttpInv holds in every state.
LEMMA HttpInvariant == Spec => []HttpInv
  BY HttpInit, HttpNext, PTL DEF Spec

\* What a client receives was produced by its own handler, or was the success of a
\* request to the same route with the same key.
THEOREM RepliesAlwaysBelong == Spec => []RepliesBelong
<1>1. HttpInv => RepliesBelong
  BY DEF HttpInv, ReplyBelongs, SuccessOf, RepliesBelong, Http!RepliesBelong, Http!SameKey
<1> QED
  BY <1>1, HttpInvariant, PTL

\* A retry after a success that is still to be replayed never reaches the handler.
THEOREM RetriesAlwaysReplay == Spec => RetriesReplay
<1> DEFINE Replays ==
      \A r, q \in Requests :
        /\ Http!At(r, "lookup") /\ Http!SameKey(r, q)
        /\ stored[q] # Http!Never /\ now < stored[q] + TTL
        => call'[r].pc # "handler"
<1>1. HttpInv /\ [Next]_vars => [Replays]_(Http!vars)
  <2> SUFFICES ASSUME HttpInv, [Next]_vars, ~UNCHANGED Http!vars,
                      NEW r \in Requests, NEW q \in Requests,
                      Http!At(r, "lookup"), Http!SameKey(r, q),
                      stored[q] # Http!Never, now < stored[q] + TTL
               PROVE  call'[r].pc # "handler"
    OBVIOUS
  <2>1. Http!Next
    BY DEF Next, OthersRest, vars, httpVars, Http!vars
  <2>2. Http!CacheKey(r) = <<call[q].path, call[q].key>>
    BY DEF Http!SameKey, Http!CacheKey
  <2>3. Http!Fresh(cache[Http!CacheKey(r)])
    <3>1. /\ cache[Http!CacheKey(r)] # Http!NoEntry
          /\ cache[Http!CacheKey(r)].expires >= stored[q] + TTL
      BY <2>2 DEF HttpInv, StaysCached
    <3>2. stored[q] \in Nat /\ TTL \in Nat /\ now \in Nat
          /\ cache[Http!CacheKey(r)].expires \in Nat
      BY <3>1, KeyOfRequest, HttpAssumed DEF Http!At, HttpInv, HttpTyped
    <3> QED
      BY <3>1, <3>2 DEF Http!Fresh
  <2>4. CASE call'[r] = call[r]
    BY <2>4 DEF Http!At
  <2>5. CASE call'[r] # call[r]
    <3>1. \A p \in Requests : p # r => ~(\/ Http!Arrive(p) \/ Http!Lookup(p)
            \/ Http!SendStart(p) \/ Http!SendBody(p) \/ Http!HandlerEnds(p)
            \/ Http!Store(p) \/ Http!CacheRaises(p))
      BY <2>5 DEF HttpInv, HttpTyped, Http!Arrive, Http!Lookup, Http!SendStart,
           Http!SendBody, Http!HandlerEnds, Http!Store, Http!CacheRaises, Http!Step,
           Http!Capture
    <3>2. Http!Lookup(r) \/ Http!CacheRaises(r)
      BY <2>1, <2>5, <3>1 DEF Http!Next, Http!At, Http!Arrive, Http!PerformEffect,
           Http!SendStart, Http!SendBody, Http!HandlerEnds, Http!Store, Http!Tick
    <3>3. call' = [call EXCEPT ![r].pc = "done"]
      BY <2>3, <3>2 DEF Http!Lookup, Http!CacheRaises, Http!Step
    <3> QED
      BY <3>3, HttpRecords DEF HttpInv, HttpTyped, HttpFrames
  <2> QED
    BY <2>4, <2>5
<1> QED
  BY <1>1, HttpInvariant, PTL DEF Spec, RetriesReplay, Http!RetriesReplay

-----------------------------------------------------------------------------
(* EntityLifecycle.                                                         *)

Copies == [version : Nat, status : Statuses, text : Callers \union {NoCaller},
           deleted : BOOLEAN]
Errands ==
  [pc : {"idle", "edit", "checked", "soft delete", "swap", "purge"}, copy : Copies,
   to : Statuses]

EntityTyped ==
  /\ entity \in Copies
  /\ errand \in [Callers -> Errands]
  /\ known \in [Callers -> Copies]
  /\ overwritten \in BOOLEAN

\* Only what is stored, or was, has a version.
Versioned ==
  /\ entity # Entities!NoEntity => entity.version > 0
  /\ \A c \in Callers :
       /\ known[c] # Entities!NoEntity => known[c].version > 0
       /\ errand[c].pc # "idle" => errand[c].copy.version > 0
       /\ errand[c].pc = "swap" => <<errand[c].copy.status, errand[c].to>> \in Moves

\* A copy of an earlier version, or of the current one as it is, or was before it was
\* marked as deleted.
Past(copy) ==
  /\ copy.version <= entity.version
  /\ copy.version = entity.version =>
       copy.status = entity.status /\ (~entity.deleted => copy = entity)

EntityInv ==
  /\ EntityTyped /\ Versioned
  /\ ~overwritten /\ entity # Entities!NoEntity =>
       \A c \in Callers : Past(known[c]) /\ (errand[c].pc # "idle" => Past(errand[c].copy))

\* The absence of an entity is a copy of version 0, written by nobody.
LEMMA EntityAssumed ==
  /\ NoCaller \notin Callers /\ FirstStatus \in Statuses
  /\ Entities!NoEntity \in Copies /\ Entities!NoEntity.version = 0
  BY ApplicationAssumption DEF Entities!EntityAssumption, Entities!NoEntity, Copies

\* Nobody has read the first version.
LEMMA EntityStart == Init => EntityInv
<1> SUFFICES ASSUME Init PROVE EntityInv
  OBVIOUS
<1>1. /\ entity = Entities!Created /\ overwritten = FALSE
      /\ errand = [c \in Callers |-> Entities!AtRest]
      /\ known = [c \in Callers |-> Entities!NoEntity]
  BY DEF Init, Entities!EntityInit
<1>2. Entities!Created \in Copies /\ Entities!Created.version = 1
  BY EntityAssumed DEF Entities!Created, Entities!NoEntity, Copies
<1>3. /\ Entities!AtRest \in Errands /\ Entities!AtRest.pc = "idle"
  BY EntityAssumed DEF Entities!AtRest, Errands
<1>4. EntityTyped
  BY <1>1, <1>2, <1>3, EntityAssumed DEF EntityTyped
<1>5. \A c \in Callers : known[c] = Entities!NoEntity /\ errand[c].pc = "idle"
  BY <1>1, <1>3
<1>6. \A c \in Callers : Past(known[c])
  BY <1>1, <1>2, <1>5, EntityAssumed DEF Past
<1>7. Versioned
  BY <1>1, <1>2, <1>5 DEF Versioned
<1> QED
  BY <1>4, <1>5, <1>6, <1>7 DEF EntityInv

\* A call that stores nothing, and holds what its caller kept or what is stored.
LEMMA CallerMoves ==
  ASSUME EntityInv, NEW c \in Callers, NEW frame \in Errands, NEW copy \in Copies,
         errand' = [errand EXCEPT ![c] = frame],
         known' = [known EXCEPT ![c] = copy],
         copy \in {entity, known[c]},
         frame.pc # "idle" =>
           frame.copy \in {entity, copy} /\ frame.copy.version > 0,
         frame.pc = "swap" => <<frame.copy.status, frame.to>> \in Moves,
         UNCHANGED <<entity, overwritten>>
  PROVE  EntityInv'
<1>1. \A d \in Callers :
        /\ errand'[d] = IF d = c THEN frame ELSE errand[d]
        /\ known'[d] = IF d = c THEN copy ELSE known[d]
  BY DEF EntityInv, EntityTyped
<1>2. EntityTyped'
  BY DEF EntityInv, EntityTyped
<1>3. Versioned'
  <2>1. \A d \in Callers :
          /\ known'[d] # Entities!NoEntity => known'[d].version > 0
          /\ errand'[d].pc # "idle" => errand'[d].copy.version > 0
          /\ errand'[d].pc = "swap" =>
               <<errand'[d].copy.status, errand'[d].to>> \in Moves
    <3> SUFFICES ASSUME NEW d \in Callers
                 PROVE  /\ known'[d] # Entities!NoEntity => known'[d].version > 0
                        /\ errand'[d].pc # "idle" => errand'[d].copy.version > 0
                        /\ errand'[d].pc = "swap" =>
                             <<errand'[d].copy.status, errand'[d].to>> \in Moves
      OBVIOUS
    <3>1. CASE d = c
      <4>1. known'[c] = copy /\ errand'[c] = frame
        BY <1>1
      <4>2. copy # Entities!NoEntity => copy.version > 0
        BY DEF EntityInv, Versioned
      <4> QED
        BY <3>1, <4>1, <4>2
    <3>2. CASE d # c
      <4>1. known'[d] = known[d] /\ errand'[d] = errand[d]
        BY <1>1, <3>2
      <4> QED
        BY <4>1 DEF EntityInv, Versioned
    <3> QED
      BY <3>1, <3>2
  <2> QED
    BY <2>1 DEF EntityInv, Versioned, Entities!NoEntity
<1>4. ASSUME ~overwritten, entity # Entities!NoEntity, NEW d \in Callers
      PROVE  Past(known[d])' /\ (errand'[d].pc # "idle" => Past(errand[d].copy)')
  <2>1. /\ Past(known[d]) /\ (errand[d].pc # "idle" => Past(errand[d].copy))
        /\ Past(entity)
    BY <1>4 DEF EntityInv, EntityTyped, Copies, Past
  <2>2. \A x : Past(x) => (copy = x => Past(copy)) /\ (frame.copy = x => Past(frame.copy))
    OBVIOUS
  <2>3. Past(known'[d]) /\ (errand'[d].pc # "idle" => Past(errand'[d].copy))
    BY <1>1, <2>1, <2>2
  <2> QED
    BY <2>3 DEF Past
<1> QED
  BY <1>2, <1>3, <1>4 DEF EntityInv, Entities!NoEntity

\* A call that stores a new version, or marks the current one as deleted, or removes it,
\* and returns.
LEMMA CallerStores ==
  ASSUME EntityInv, NEW c \in Callers,
         errand' = [errand EXCEPT ![c] = Entities!AtRest] \/ errand' = errand,
         UNCHANGED known,
         entity' \in Copies, overwritten' \in BOOLEAN,
         ~overwritten' => ~overwritten,
         ~overwritten' /\ entity' # Entities!NoEntity =>
           /\ entity # Entities!NoEntity
           /\ \/ entity' = entity
              \/ entity'.version > entity.version
              \/ /\ entity'.version = entity.version /\ entity'.status = entity.status
                 /\ entity'.deleted,
         entity' # Entities!NoEntity => entity'.version > 0
  PROVE  EntityInv'
<1>1. \A d \in Callers : errand'[d] \in {Entities!AtRest, errand[d]}
  BY DEF EntityInv, EntityTyped
<1>2. Entities!AtRest \in Errands /\ Entities!AtRest.pc = "idle"
  BY EntityAssumed DEF Entities!AtRest, Errands
<1>3. EntityTyped'
  BY <1>2 DEF EntityInv, EntityTyped
<1>4. Versioned'
  BY <1>1, <1>2 DEF EntityInv, Versioned, Entities!NoEntity
<1>5. ASSUME ~overwritten', entity' # Entities!NoEntity, NEW d \in Callers
      PROVE  Past(known[d])' /\ (errand'[d].pc # "idle" => Past(errand[d].copy)')
  <2>1. /\ Past(known[d]) /\ (errand[d].pc # "idle" => Past(errand[d].copy))
        /\ known[d] \in Copies /\ errand[d].copy \in Copies
    BY <1>5 DEF EntityInv, EntityTyped, Errands
  <2>2. \A x \in Copies : Past(x) =>
          /\ x.version <= entity'.version
          /\ x.version = entity'.version =>
               x.status = entity'.status /\ (~entity'.deleted => x = entity')
    <3>1. entity.version \in Nat /\ entity'.version \in Nat
      BY DEF EntityInv, EntityTyped, Copies
    <3> QED
      BY <1>5, <3>1 DEF Past, Copies
  <2> QED
    BY <1>1, <1>2, <2>1, <2>2 DEF Past
<1> QED
  BY <1>3, <1>4, <1>5 DEF EntityInv, Entities!NoEntity
\* A call holds what is stored, or its caller keeps, and none goes back to rest with it.
LEMMA FramesAre ==
  ASSUME EntityInv, NEW c \in Callers,
         NEW pc \in {"edit", "checked", "soft delete", "swap", "purge"},
         NEW copy \in Copies, NEW to \in Statuses
  PROVE  /\ [pc |-> pc, copy |-> copy, to |-> to] \in Errands
         /\ [pc |-> pc, copy |-> copy, to |-> to].pc = pc
         /\ [pc |-> pc, copy |-> copy, to |-> to].copy = copy
         /\ [pc |-> pc, copy |-> copy, to |-> to].to = to
  BY DEF Errands

\* Every step of a caller, and the end of a retention, keep what is known of the copies.
LEMMA EntityNext == EntityInv /\ [Next]_vars => EntityInv'
<1> SUFFICES ASSUME EntityInv, [Next]_vars PROVE EntityInv'
  OBVIOUS
<1>1. CASE UNCHANGED entityVars
  BY <1>1 DEF entityVars, EntityInv, EntityTyped, Versioned, Past, Entities!NoEntity
<1>2. ASSUME ~UNCHANGED entityVars
      PROVE  (\E c \in Callers : Entities!EntityStep(c)) \/ Entities!Expire
  BY <1>2 DEF Next, OthersRest, vars, Entities!EntityNext
<1>3. CASE Entities!Expire
  BY <1>3 DEF Entities!Expire, EntityInv, EntityTyped, Versioned, Past, Entities!NoEntity
<1>4. ASSUME NEW c \in Callers, Entities!EntityStep(c)
      PROVE  EntityInv'
  <2> USE <1>4
  <2>1. /\ entity \in Copies /\ known[c] \in Copies /\ errand[c] \in Errands
        /\ errand[c].copy \in Copies /\ errand[c].to \in Statuses
        /\ overwritten \in BOOLEAN
    BY DEF EntityInv, EntityTyped, Errands
  <2>2. /\ Entities!AtRest \in Errands /\ Entities!AtRest.pc = "idle"
        /\ FirstStatus \in Statuses
    BY EntityAssumed DEF Entities!AtRest, Errands
  <2>3. /\ known = [known EXCEPT ![c] = known[c]]
        /\ errand = [errand EXCEPT ![c] = errand[c]]
    BY DEF EntityInv, EntityTyped
  <2>4. CASE Entities!Read(c)
    <3>1. PICK copy : copy = IF Entities!NotModified(c) THEN known[c] ELSE entity
      OBVIOUS
    <3>2. copy \in Copies /\ known' = [known EXCEPT ![c] = copy]
      BY <2>1, <2>3, <2>4, <3>1 DEF Entities!Read
    <3>3. known'[c] = copy
      BY <3>2 DEF EntityInv, EntityTyped
    <3>4. PICK f : f = [errand[c] EXCEPT !.pc = "edit", !.copy = copy]
      OBVIOUS
    <3>5. f = [pc |-> "edit", copy |-> copy, to |-> errand[c].to]
      BY <2>1, <3>4 DEF Errands
    <3>6. f \in Errands /\ f.pc = "edit" /\ f.copy = copy
      BY <2>1, <3>2, <3>5 DEF Errands
    <3>7. errand' = [errand EXCEPT ![c] = f]
      <4>1. errand' = [errand EXCEPT ![c].pc = "edit", ![c].copy = copy]
        BY <2>4, <3>3 DEF Entities!Read
      <4>2. [errand EXCEPT ![c].pc = "edit", ![c].copy = copy]
              = [errand EXCEPT ![c] = [errand[c] EXCEPT !.pc = "edit", !.copy = copy]]
        BY <2>1 DEF EntityInv, EntityTyped, Errands
      <4> QED
        BY <3>4, <4>1, <4>2
    <3>8. copy \in {entity, known[c]} /\ copy.version > 0
      BY <2>4, <3>1 DEF Entities!Read, Entities!Visible, Entities!Present,
           Entities!NotModified, EntityInv, Versioned
    <3>9. UNCHANGED <<entity, overwritten>>
      BY <2>4 DEF Entities!Read
    <3> QED
      BY <3>2, <3>6, <3>7, <3>8, <3>9, CallerMoves
  <2>5. ASSUME NEW pc \in {"checked", "soft delete", "swap", "purge"}, NEW to \in Statuses,
               Entities!Holds(c, pc, to), entity.version > 0,
               UNCHANGED <<entity, known, overwritten>>,
               pc = "swap" => <<entity.status, to>> \in Moves
        PROVE  EntityInv'
    <3>1. PICK f : f = [pc |-> pc, copy |-> entity, to |-> to]
      OBVIOUS
    <3>2. f \in Errands /\ f.pc = pc /\ f.copy = entity /\ f.to = to
      BY <2>1, <3>1, FramesAre
    <3>3. errand' = [errand EXCEPT ![c] = f] /\ known' = [known EXCEPT ![c] = known[c]]
      BY <2>3, <2>5, <3>1 DEF Entities!Holds
    <3> QED
      BY <2>1, <2>5, <3>2, <3>3, CallerMoves
  <2>6. Entities!Visible \/ Entities!Present \/ entity.deleted => entity.version > 0
    BY DEF Entities!Visible, Entities!Present, EntityInv, Versioned, Entities!NoEntity
  <2>7. ASSUME Entities!Returns(c), UNCHANGED <<entity, known, overwritten>>
        PROVE  EntityInv'
    BY <2>1, <2>2, <2>3, <2>7, CallerMoves DEF Entities!Returns
  <2>8. CASE Entities!Validates(c)
    BY <2>2, <2>5, <2>6, <2>7, <2>8 DEF Entities!Validates
  <2>9. CASE Entities!GiveUp(c)
    BY <2>7, <2>9 DEF Entities!GiveUp
  <2>10. CASE Entities!DeleteReads(c)
    BY <2>2, <2>5, <2>6, <2>10 DEF Entities!DeleteReads
  <2>11. CASE Entities!PurgeLists(c)
    BY <2>2, <2>5, <2>6, <2>11 DEF Entities!PurgeLists
  <2>12. CASE Entities!TransitionReads(c)
    BY <2>5, <2>6, <2>12 DEF Entities!TransitionReads
  <2>13. CASE Entities!Update(c)
    <3>1. PICK new : new = [errand[c].copy EXCEPT !.version = @ + 1, !.text = c]
      OBVIOUS
    <3>2. new = [version |-> errand[c].copy.version + 1, status |-> errand[c].copy.status,
                 text |-> c, deleted |-> errand[c].copy.deleted]
      BY <2>1, <3>1 DEF Copies
    <3>3. /\ new \in Copies /\ new.version = errand[c].copy.version + 1
          /\ errand[c].copy.version \in Nat
      BY <2>1, <3>2 DEF Copies
    <3>4. /\ entity' = new /\ overwritten' = (overwritten \/ ~Entities!Latest(c))
          /\ errand' = [errand EXCEPT ![c] = Entities!AtRest] /\ UNCHANGED known
      BY <2>13, <3>1 DEF Entities!Update, Entities!Overwrites, Entities!Returns
    <3>5. errand[c].copy.version > 0
      BY <2>13 DEF Entities!Update, Entities!Busy, EntityInv, Versioned
    <3>6. ~overwritten' => ~overwritten /\ errand[c].copy = entity
      BY <3>4 DEF Entities!Latest
    <3>7. ~overwritten' => entity # Entities!NoEntity /\ entity'.version > entity.version
      BY <3>3, <3>4, <3>5, <3>6, EntityAssumed
    <3>8. entity'.version > 0
      BY <3>3, <3>4
    <3> QED
      BY <2>1, <3>3, <3>4, <3>6, <3>7, <3>8, CallerStores
  <2>14. CASE Entities!SoftDelete(c)
    <3>1. PICK new : new = [errand[c].copy EXCEPT !.deleted = TRUE]
      OBVIOUS
    <3>2. new = [version |-> errand[c].copy.version, status |-> errand[c].copy.status,
                 text |-> errand[c].copy.text, deleted |-> TRUE]
      BY <2>1, <3>1 DEF Copies
    <3>3. /\ new \in Copies /\ new.version = errand[c].copy.version
          /\ new.status = errand[c].copy.status /\ new.deleted
      BY <2>1, <3>2 DEF Copies
    <3>4. /\ entity' = new /\ overwritten' = (overwritten \/ ~Entities!Latest(c))
          /\ errand' = [errand EXCEPT ![c] = Entities!AtRest] /\ UNCHANGED known
      BY <2>14, <3>1 DEF Entities!SoftDelete, Entities!Overwrites, Entities!Returns
    <3>5. errand[c].copy.version > 0
      BY <2>14 DEF Entities!SoftDelete, Entities!Busy, EntityInv, Versioned
    <3>6. ~overwritten' => ~overwritten /\ errand[c].copy = entity
      BY <3>4 DEF Entities!Latest
    <3>7. ~overwritten' => /\ entity # Entities!NoEntity
                           /\ entity'.version = entity.version
                           /\ entity'.status = entity.status /\ entity'.deleted
      BY <3>3, <3>4, <3>5, <3>6, EntityAssumed
    <3>8. entity'.version > 0
      BY <3>3, <3>4, <3>5
    <3> QED
      BY <2>1, <3>3, <3>4, <3>6, <3>7, <3>8, CallerStores
  <2>15. CASE Entities!DeleteNow(c) \/ Entities!PurgeDeletes(c)
    <3>1. /\ entity' = Entities!NoEntity /\ UNCHANGED known
          /\ errand' = [errand EXCEPT ![c] = Entities!AtRest] \/ errand' = errand
      BY <2>15 DEF Entities!DeleteNow, Entities!PurgeDeletes, Entities!Returns
    <3>2. overwritten' \in BOOLEAN /\ (~overwritten' => ~overwritten)
      BY <2>1, <2>15 DEF Entities!DeleteNow, Entities!PurgeDeletes
    <3> HIDE <2>15
    <3>3. entity' \in Copies
      BY <3>1, EntityAssumed
    <3>4. Entities!NoEntity' = Entities!NoEntity
      BY DEF Entities!NoEntity
    <3> QED
      BY <3>1, <3>2, <3>3, <3>4, CallerStores
  <2>16. CASE Entities!CompareAndSwap(c)
    <3>1. PICK new : new = [errand[c].copy EXCEPT !.status = errand[c].to, !.version = @ + 1]
      OBVIOUS
    <3>2. new = [version |-> errand[c].copy.version + 1, status |-> errand[c].to,
                 text |-> errand[c].copy.text, deleted |-> errand[c].copy.deleted]
      BY <2>1, <3>1 DEF Copies
    <3>3. /\ new \in Copies /\ new.version = errand[c].copy.version + 1
          /\ errand[c].copy.version \in Nat /\ errand[c].copy.version > 0
      <4>1. errand[c].copy.version > 0
        BY <2>16 DEF Entities!CompareAndSwap, Entities!Busy, EntityInv, Versioned
      <4> QED
        BY <2>1, <3>2, <4>1 DEF Copies
    <3>4. /\ entity' = IF Entities!Matches(c) THEN new ELSE entity
          /\ errand' = [errand EXCEPT ![c] = Entities!AtRest]
          /\ UNCHANGED <<known, overwritten>>
      BY <2>16, <3>1 DEF Entities!CompareAndSwap, Entities!Returns
    <3>5. CASE Entities!Matches(c)
      <4>1. entity' = new /\ entity'.version > entity.version /\ entity'.version > 0
        BY <3>3, <3>4, <3>5 DEF Entities!Matches
      <4>2. entity # Entities!NoEntity
        BY <3>3, <3>5, EntityAssumed DEF Entities!Matches
      <4> QED
        BY <2>1, <3>3, <3>4, <4>1, <4>2, CallerStores
    <3>6. CASE ~Entities!Matches(c)
      BY <2>7, <3>4, <3>6 DEF Entities!Returns
    <3> QED
      BY <3>5, <3>6
  <2> QED
    BY <2>4, <2>8, <2>9, <2>10, <2>11, <2>12, <2>13, <2>14, <2>15, <2>16
      DEF Entities!EntityStep
<1> QED
  BY <1>1, <1>2, <1>3, <1>4

\* EntityInv holds in every state.
LEMMA EntityInvariant == Spec => []EntityInv
  BY EntityStart, EntityNext, PTL DEF Spec

\* A client that is told that nothing has changed holds what is stored.
THEOREM CopiesAreAlwaysCurrent == Spec => []CopiesAreCurrent
<1>1. EntityInv => CopiesAreCurrent
  BY DEF EntityInv, Past, CopiesAreCurrent, Entities!CopiesAreCurrent, Entities!Visible,
       Entities!Present, Entities!NotModified
<1> QED
  BY <1>1, EntityInvariant, PTL

\* A status moves along a declared pair only, with the version.
THEOREM StatusAlwaysMovesAsDeclared == Spec => StatusMovesAsDeclared
<1> DEFINE Moves1 ==
      Entities!Present /\ entity' # Entities!NoEntity /\ ~overwritten'
      /\ entity'.status # entity.status =>
        /\ <<entity.status, entity'.status>> \in Moves
        /\ entity'.version = entity.version + 1
<1>1. EntityInv /\ [Next]_vars => [Moves1]_entityVars
  <2> SUFFICES ASSUME EntityInv, [Next]_vars, ~UNCHANGED entityVars,
                      entity # Entities!NoEntity, entity' # Entities!NoEntity,
                      ~overwritten', entity'.status # entity.status
               PROVE  /\ <<entity.status, entity'.status>> \in Moves
                      /\ entity'.version = entity.version + 1
    BY DEF Entities!Present
  <2>1. PICK c \in Callers : Entities!EntityStep(c)
    BY DEF Next, OthersRest, vars, Entities!EntityNext, Entities!Expire
  <2>2. entity' # entity
    OBVIOUS
  <2>3. /\ errand[c].copy \in Copies /\ errand[c].to \in Statuses
    BY DEF EntityInv, EntityTyped, Errands
  <2>4. CASE Entities!Update(c) \/ Entities!SoftDelete(c)
    <3>1. errand[c].copy = entity
      BY <2>4 DEF Entities!Update, Entities!SoftDelete, Entities!Overwrites, Entities!Latest
    <3>2. \/ entity' = [entity EXCEPT !.version = @ + 1, !.text = c]
          \/ entity' = [entity EXCEPT !.deleted = TRUE]
      BY <2>4, <3>1 DEF Entities!Update, Entities!SoftDelete, Entities!Overwrites
    <3>3. entity'.status = entity.status
      BY <2>3, <3>1, <3>2 DEF Copies
    <3> QED
      BY <3>3
  <2>5. CASE Entities!CompareAndSwap(c)
    <3>1. /\ entity' = [errand[c].copy EXCEPT !.status = errand[c].to, !.version = @ + 1]
          /\ entity.version = errand[c].copy.version /\ errand[c].pc = "swap"
          /\ overwritten' = overwritten
      BY <2>2, <2>5 DEF Entities!CompareAndSwap, Entities!Matches, Entities!Busy
    <3>2. entity'.status = errand[c].to /\ entity'.version = entity.version + 1
      BY <2>3, <3>1 DEF Copies
    <3>3. errand[c].copy.status = entity.status
          /\ <<errand[c].copy.status, errand[c].to>> \in Moves
      BY <3>1 DEF EntityInv, Past, Versioned
    <3> QED
      BY <3>2, <3>3
  <2> QED
    BY <2>1, <2>2, <2>4, <2>5 DEF Entities!EntityStep, Entities!Read, Entities!Validates,
         Entities!GiveUp, Entities!DeleteNow, Entities!DeleteReads, Entities!PurgeLists,
         Entities!PurgeDeletes, Entities!TransitionReads
<1> QED
  BY <1>1, EntityInvariant, PTL DEF Spec, StatusMovesAsDeclared,
       Entities!StatusMovesAsDeclared, entityVars, Entities!entityVars

-----------------------------------------------------------------------------
(* FileStorage.                                                             *)

Bodies == [put : Nat, chunks : Nat]
Accesses ==
  [pc : {"idle", "stream", "stat", "describe", "unlink", "load", "open", "answered"},
   put : Nat, chunks : Nat, described : Nat, body : Bodies, alone : BOOLEAN]
Replacing == {"stat", "describe", "unlink"}
Writing == {"stream"} \union Replacing

FileTyped ==
  /\ content \in Bodies /\ (content # Files!NoFile => content.chunks = Chunks)
  /\ metadata \in Nat /\ puts \in Nat /\ stale \in BOOLEAN
  /\ access \in [Workers -> Accesses]

\* Whoever is there while another writes is not alone.
WritersAreSeen ==
  \A v, w \in Workers :
    v # w /\ access[v].pc \in Writing /\ access[w].pc # "idle" => ~access[w].alone

\* What a call has done or read, if it is alone, is still so.
FrameHolds(w) ==
  LET f == access[w] IN
  /\ f.alone /\ f.pc \in {"stat", "describe"} =>
       content = [put |-> f.put, chunks |-> Chunks]
  /\ f.alone /\ f.pc = "unlink" => content = Files!NoFile
  /\ f.alone /\ f.pc = "open" => f.described = metadata
  /\ f.pc = "answered" =>
       f.body.chunks = Chunks /\ (f.alone /\ ~stale => f.described = f.body.put)

\* Content and metadata agree, unless a writer is between them, or one of the last ones
\* left them apart.
Agreed ==
  ~stale /\ (\A w \in Workers : access[w].pc \notin Replacing) => content.put = metadata

FileInv ==
  FileTyped /\ WritersAreSeen /\ Agreed /\ \A w \in Workers : FrameHolds(w)

\* A content has at least one chunk; no file has none, and a worker rests at first.
LEMMA FileAssumed ==
  /\ Chunks \in Nat \ {0}
  /\ Files!NoFile \in Bodies /\ Files!NoFile.put = 0 /\ Files!NoFile.chunks = 0
  /\ Files!Resting \in Accesses /\ Files!Resting.pc = "idle"
<1>1. /\ Chunks \in Nat \ {0}
      /\ Files!NoFile \in Bodies /\ Files!NoFile.put = 0 /\ Files!NoFile.chunks = 0
  BY ApplicationAssumption DEF Files!FileStorageAssumption, Files!NoFile, Files!NoPut, Bodies
<1>2. Files!Resting = [pc |-> "idle", put |-> 0, chunks |-> 0, described |-> 0,
                       body |-> Files!NoFile, alone |-> TRUE]
  BY DEF Files!Resting, Files!NoPut
<1>3. Files!Resting \in Accesses /\ Files!Resting.pc = "idle"
  BY <1>1, <1>2 DEF Accesses
<1> QED
  BY <1>1, <1>3

\* Nothing is stored at first, and nobody calls.
LEMMA FileInit == Init => FileInv
<1> SUFFICES ASSUME Init PROVE FileInv
  OBVIOUS
<1>1. /\ content = Files!NoFile /\ metadata = 0 /\ puts = 0 /\ stale = FALSE
      /\ access = [w \in Workers |-> Files!Resting]
  BY DEF Init, Files!StorageInit, Files!NoPut
<1>2. FileTyped
  BY <1>1, FileAssumed DEF FileTyped
<1>3. \A w \in Workers : access[w].pc = "idle"
  BY <1>1, FileAssumed
<1> QED
  BY <1>1, <1>2, <1>3, FileAssumed
    DEF FileInv, WritersAreSeen, Agreed, FrameHolds, Replacing, Writing

\* A worker goes on with its call, or ends it; only a writer changes something.
LEMMA CallMoves ==
  ASSUME FileInv, NEW w \in Workers, NEW f \in Accesses,
         access' = [access EXCEPT ![w] = f],
         f.pc # "idle" => access[w].pc # "idle" /\ f.alone = access[w].alone,
         f.pc \in Writing => access[w].pc \in Writing,
         content' \in Bodies, content' # Files!NoFile => content'.chunks = Chunks,
         metadata' \in Nat, stale' \in BOOLEAN, UNCHANGED puts,
         access[w].pc \in Writing \/ UNCHANGED <<content, metadata, stale>>,
         FrameHolds(w)', Agreed'
  PROVE  FileInv'
<1>1. \A v \in Workers : access'[v] = IF v = w THEN f ELSE access[v]
  BY DEF FileInv, FileTyped
<1>2. FileTyped'
  BY DEF FileInv, FileTyped, Files!NoFile
<1>3. WritersAreSeen'
  BY <1>1 DEF FileInv, WritersAreSeen
<1>4. ASSUME NEW v \in Workers
      PROVE  FrameHolds(v)'
  <2>1. CASE v = w
    BY <2>1
  <2>2. CASE v # w /\ access[w].pc \in Writing
    <3>1. access'[v] = access[v] /\ FrameHolds(v)
          /\ (access[v].pc # "idle" => ~access[v].alone)
      BY <1>1, <2>2 DEF FileInv, WritersAreSeen
    <3> QED
      BY <3>1 DEF FrameHolds
  <2>3. CASE v # w /\ UNCHANGED <<content, metadata, stale>>
    <3>1. access'[v] = access[v] /\ FrameHolds(v)
      BY <1>1, <2>3 DEF FileInv
    <3> QED
      BY <2>3, <3>1 DEF FrameHolds, Files!NoFile
  <2> QED
    BY <2>1, <2>2, <2>3
<1> QED
  BY <1>2, <1>3, <1>4 DEF FileInv

\* A reader goes on or ends.
LEMMA ReaderMoves ==
  ASSUME FileInv, NEW w \in Workers, NEW f \in Accesses,
         access' = [access EXCEPT ![w] = f],
         f.pc # "idle" => access[w].pc # "idle" /\ f.alone = access[w].alone,
         f.pc \notin Writing, access[w].pc \notin Replacing,
         UNCHANGED <<content, metadata, stale, puts>>, FrameHolds(w)'
  PROVE  FileInv'
<1>1. \A v \in Workers : access'[v] = IF v = w THEN f ELSE access[v]
  BY DEF FileInv, FileTyped
<1>2. Agreed'
  <2>1. (\A v \in Workers : access'[v].pc \notin Replacing)
          => \A v \in Workers : access[v].pc \notin Replacing
    BY <1>1
  <2> QED
    BY <2>1 DEF FileInv, Agreed
<1>3. /\ content' \in Bodies /\ (content' # Files!NoFile => content'.chunks = Chunks)
      /\ metadata' \in Nat /\ stale' \in BOOLEAN
  BY DEF FileInv, FileTyped, Files!NoFile
<1> QED
  BY <1>2, <1>3, CallMoves

\* A call begins: beside those that write, or as a writer beside all.
LEMMA CallBegins ==
  ASSUME FileInv, NEW w \in Workers, NEW frame \in Accesses, NEW writes \in BOOLEAN,
         access[w].pc = "idle",
         Files!Begin(w, frame, writes),
         frame.pc \in IF writes THEN {"stream", "unlink"} ELSE {"load"},
         content' = IF frame.pc = "unlink" THEN Files!NoFile ELSE content,
         puts' \in Nat, UNCHANGED <<metadata, stale>>
  PROVE  FileInv'
<1>1. PICK f : f = [frame EXCEPT !.alone =
                      ~\E o \in Files!Others(w) :
                         IF writes THEN Files!Active(o) ELSE Files!Writes(o)]
  OBVIOUS
<1>2. \A v \in Workers :
        access'[v] = IF v = w THEN f
                     ELSE [access[v] EXCEPT !.alone = @ /\ ~writes /\ ~Files!Writes(v)]
  BY <1>1 DEF Files!Begin
<1>3. PICK alone \in BOOLEAN :
        alone = ~\E o \in Files!Others(w) :
                  IF writes THEN Files!Active(o) ELSE Files!Writes(o)
  OBVIOUS
<1>4. f = [pc |-> frame.pc, put |-> frame.put, chunks |-> frame.chunks,
           described |-> frame.described, body |-> frame.body, alone |-> alone]
  BY <1>1, <1>3 DEF Accesses
<1>5. f \in Accesses /\ f.pc = frame.pc /\ f.alone = alone
  BY <1>4 DEF Accesses
<1>6. ASSUME NEW v \in Workers, v # w
      PROVE  /\ access'[v] \in Accesses /\ access'[v].pc = access[v].pc
             /\ access'[v].put = access[v].put /\ access'[v].body = access[v].body
             /\ access'[v].described = access[v].described
             /\ access'[v].alone =>
                  access[v].alone /\ ~writes /\ access[v].pc \notin Writing
  <2>1. access[v] \in Accesses
    BY DEF FileInv, FileTyped
  <2>2. PICK b \in BOOLEAN : b = (access[v].alone /\ ~writes /\ ~Files!Writes(v))
    BY <2>1 DEF Accesses
  <2>3. access'[v] = [access[v] EXCEPT !.alone = b]
    BY <1>2, <1>6, <2>2
  <2>4. access'[v] = [pc |-> access[v].pc, put |-> access[v].put,
                      chunks |-> access[v].chunks, described |-> access[v].described,
                      body |-> access[v].body, alone |-> b]
    BY <2>1, <2>3 DEF Accesses
  <2>5. b => access[v].alone /\ ~writes /\ access[v].pc \notin Writing
    BY <2>2 DEF Files!Writes, Writing, Replacing
  <2> QED
    BY <2>1, <2>4, <2>5 DEF Accesses
<1>7. access'[w] = f
  BY <1>2
<1>8. FileTyped'
  <2>1. access' \in [Workers -> Accesses]
    <3>1. access' = [v \in Workers |-> access'[v]]
      BY DEF Files!Begin
    <3>2. \A v \in Workers : access'[v] \in Accesses
      BY <1>5, <1>6, <1>7
    <3> QED
      BY <3>1, <3>2
  <2>2. content' \in Bodies /\ (content' # Files!NoFile => content'.chunks = Chunks)
    BY FileAssumed DEF FileInv, FileTyped, Files!NoFile
  <2> QED
    BY <2>1, <2>2 DEF FileInv, FileTyped, Files!NoFile
<1>9. WritersAreSeen'
  <2> SUFFICES ASSUME NEW u \in Workers, NEW v \in Workers, u # v,
                      access'[u].pc \in Writing, access'[v].pc # "idle", access'[v].alone
               PROVE  FALSE
    BY DEF WritersAreSeen
  <2>1. CASE v = w
    <3>1. access[u].pc \in Writing /\ alone
      BY <1>5, <1>6, <1>7, <2>1
    <3>2. u \in Files!Others(w) /\ Files!Active(u) /\ Files!Writes(u)
      BY <2>1, <3>1 DEF Files!Others, Files!Active, Files!Writes, Writing, Replacing
    <3> QED
      BY <1>3, <3>1, <3>2
  <2>2. CASE v # w /\ u = w
    BY <1>5, <1>6, <1>7, <2>2 DEF Writing, Replacing
  <2>3. CASE v # w /\ u # w
    BY <1>6, <2>3 DEF FileInv, WritersAreSeen
  <2> QED
    BY <2>1, <2>2, <2>3
<1>10. Agreed'
  <2> SUFFICES ASSUME ~stale', \A v \in Workers : access'[v].pc \notin Replacing
               PROVE  content'.put = metadata'
    BY DEF Agreed
  <2>1. frame.pc # "unlink"
    BY <1>5, <1>7 DEF Replacing
  <2>2. \A v \in Workers : access[v].pc \notin Replacing
    BY <1>6 DEF Replacing
  <2> QED
    BY <2>1, <2>2 DEF FileInv, Agreed
<1>11. ASSUME NEW v \in Workers
       PROVE  FrameHolds(v)'
  <2>1. CASE v = w
    <3>1. access'[v].pc \in {"stream", "unlink", "load"} /\ access'[v].pc = frame.pc
      BY <1>5, <1>7, <2>1
    <3> QED
      BY <3>1 DEF FrameHolds, Files!NoFile
  <2>2. CASE v # w
    <3>1. /\ access'[v].pc = access[v].pc /\ FrameHolds(v)
          /\ access'[v].put = access[v].put /\ access'[v].body = access[v].body
          /\ access'[v].described = access[v].described
          /\ access'[v].alone => access[v].alone /\ ~writes /\ access[v].pc \notin Writing
      BY <1>6, <2>2 DEF FileInv
    <3>2. ~writes => content' = content
      OBVIOUS
    <3> QED
      BY <3>1, <3>2 DEF FrameHolds, Writing, Replacing
  <2> QED
    BY <2>1, <2>2
<1> QED
  BY <1>8, <1>9, <1>10, <1>11 DEF FileInv
\* A writer goes on, fails or ends.
LEMMA WriterMoves ==
  ASSUME FileInv, NEW w \in Workers,
         \/ Files!WriteChunk(w) \/ Files!StreamRaises(w) \/ Files!ReplaceFile(w)
         \/ Files!StatReplaced(w) \/ Files!WriteMetadata(w) \/ Files!DeleteMetadata(w)
         \/ Files!WriterFails(w)
  PROVE  FileInv'
<1>1. /\ access[w] \in Accesses /\ content \in Bodies /\ FrameHolds(w)
      /\ stale \in BOOLEAN /\ metadata \in Nat /\ access \in [Workers -> Accesses]
      /\ (content # Files!NoFile => content.chunks = Chunks) /\ puts \in Nat
  BY DEF FileInv, FileTyped
<1>2. \A v \in Workers : v # w /\ access[v].pc \in Replacing /\ access[w].pc # "idle" =>
        ~access[w].alone
  BY DEF FileInv, WritersAreSeen, Writing
<1>3. CASE Files!WriteChunk(w)
  <2>1. PICK f : f = [access[w] EXCEPT !.chunks = @ + 1]
    OBVIOUS
  <2>2. f = [pc |-> access[w].pc, put |-> access[w].put, chunks |-> access[w].chunks + 1,
             described |-> access[w].described, body |-> access[w].body,
             alone |-> access[w].alone]
    BY <1>1, <2>1 DEF Accesses
  <2>3. f \in Accesses /\ f.pc = access[w].pc /\ f.alone = access[w].alone
    BY <1>1, <2>2 DEF Accesses
  <2>4. /\ access' = [access EXCEPT ![w] = f] /\ access[w].pc = "stream"
        /\ UNCHANGED <<content, metadata, stale, puts>>
    BY <1>3, <2>1 DEF Files!WriteChunk, Files!Doing
  <2>5. access'[w] = f /\ \A v \in Workers : access'[v].pc = access[v].pc
    BY <1>1, <2>3, <2>4
  <2>6. FrameHolds(w)' /\ Agreed'
    BY <2>3, <2>4, <2>5 DEF FrameHolds, FileInv, Agreed
  <2> QED
    BY <1>1, <2>3, <2>4, <2>6, CallMoves DEF Writing, Files!NoFile
<1>4. ASSUME access' = [access EXCEPT ![w] = Files!Resting], access[w].pc \in Writing,
             UNCHANGED content, metadata' \in Nat, stale' \in BOOLEAN, UNCHANGED puts,
             ~stale' /\ (\A v \in Workers : v # w => access[v].pc \notin Replacing) =>
               content.put = metadata'
      PROVE  FileInv'
  <2>1. access'[w] = Files!Resting /\ \A v \in Workers : v # w => access'[v] = access[v]
    BY <1>1, <1>4
  <2>2. FrameHolds(w)' /\ Agreed'
    BY <1>4, <2>1, FileAssumed DEF FrameHolds, Agreed
  <2> QED
    BY <1>1, <1>4, <2>2, FileAssumed, CallMoves DEF Files!NoFile, Writing
<1>5. CASE Files!StreamRaises(w)
  <2>1. access[w].pc = "stream" /\ UNCHANGED <<content, metadata, stale, puts>>
        /\ access' = [access EXCEPT ![w] = Files!Resting]
    BY <1>5 DEF Files!StreamRaises, Files!Doing
  <2>2. ~stale' /\ (\A v \in Workers : v # w => access[v].pc \notin Replacing) =>
          content.put = metadata'
    BY <2>1 DEF FileInv, Agreed, Replacing
  <2> QED
    BY <1>1, <1>4, <2>1, <2>2 DEF Writing
<1>6. CASE Files!WriterFails(w)
  <2>1. /\ access[w].pc \in Writing /\ UNCHANGED <<content, metadata, puts>>
        /\ access' = [access EXCEPT ![w] = Files!Resting]
        /\ stale' = (stale \/ access[w].pc # "stream")
    BY <1>6 DEF Files!WriterFails, Files!Writes, Files!Doing, Writing, Replacing
  <2>2. ~stale' /\ (\A v \in Workers : v # w => access[v].pc \notin Replacing) =>
          content.put = metadata'
    BY <2>1 DEF FileInv, Agreed, Replacing
  <2> QED
    BY <1>1, <1>4, <2>1, <2>2
<1>7. ASSUME NEW pc \in {"stat", "describe"}, Files!Turn(w, pc), access[w].pc \in Writing,
             content' \in Bodies, content' # Files!NoFile => content'.chunks = Chunks,
             access[w].alone => content' = [put |-> access[w].put, chunks |-> Chunks],
             UNCHANGED <<metadata, puts>>, stale' \in BOOLEAN
      PROVE  FileInv'
  <2>1. PICK f : f = [access[w] EXCEPT !.pc = pc]
    OBVIOUS
  <2>2. f = [pc |-> pc, put |-> access[w].put, chunks |-> access[w].chunks,
             described |-> access[w].described, body |-> access[w].body,
             alone |-> access[w].alone]
    BY <1>1, <2>1 DEF Accesses
  <2>3. f \in Accesses /\ f.pc = pc /\ f.alone = access[w].alone /\ f.put = access[w].put
    BY <1>1, <2>2 DEF Accesses
  <2>4. access' = [access EXCEPT ![w] = f]
    BY <1>7, <2>1 DEF Files!Turn
  <2>5. access'[w] = f
    BY <1>1, <2>4
  <2>6. FrameHolds(w)' /\ Agreed'
    BY <1>7, <2>3, <2>5 DEF FrameHolds, Agreed, Replacing
  <2> QED
    <3>1. access[w].pc \in Writing \/ UNCHANGED <<content, metadata, stale>>
      BY <1>7
    <3>2. access[w].pc # "idle" /\ metadata' \in Nat /\ f.pc \in Writing
      BY <1>1, <1>7, <2>3 DEF Writing, Replacing
    <3> QED
      BY <1>7, <2>3, <2>4, <2>6, <3>1, <3>2, CallMoves
<1>8. CASE Files!ReplaceFile(w)
  <2>1. /\ access[w].pc = "stream" /\ Files!Turn(w, "stat")
        /\ content' = [put |-> access[w].put, chunks |-> Chunks]
        /\ UNCHANGED <<metadata, stale, puts>>
    BY <1>8 DEF Files!ReplaceFile, Files!Doing
  <2>2. content' \in Bodies /\ content'.chunks = Chunks
    BY <1>1, <2>1, FileAssumed DEF Accesses, Bodies
  <2> QED
    BY <1>1, <1>7, <2>1, <2>2 DEF Writing
<1>9. CASE Files!StatReplaced(w)
  <2>1. /\ access[w].pc = "stat" /\ UNCHANGED <<content, metadata, puts>>
        /\ stale' = (stale \/ content = Files!NoFile)
        /\ IF content = Files!NoFile THEN access' = [access EXCEPT ![w] = Files!Resting]
           ELSE Files!Turn(w, "describe")
    BY <1>9 DEF Files!StatReplaced, Files!Doing
  <2>2. CASE content = Files!NoFile
    BY <1>1, <1>4, <2>1, <2>2 DEF Writing, Replacing
  <2>3. CASE content # Files!NoFile
    <3>1. access[w].alone => content' = [put |-> access[w].put, chunks |-> Chunks]
      BY <1>1, <2>1 DEF FrameHolds
    <3> QED
      BY <1>1, <1>7, <2>1, <2>3, <3>1 DEF Writing, Replacing
  <2> QED
    BY <2>2, <2>3
<1>10. CASE Files!WriteMetadata(w)
  <2>1. /\ access[w].pc = "describe" /\ metadata' = access[w].put
        /\ access' = [access EXCEPT ![w] = Files!Resting] /\ stale' = ~access[w].alone
        /\ UNCHANGED <<content, puts>>
    BY <1>10 DEF Files!WriteMetadata, Files!WriterEnds, Files!Doing
  <2>2. ~stale' => content.put = metadata'
    <3>1. access[w].alone => content = [put |-> access[w].put, chunks |-> Chunks]
      BY <1>1, <2>1 DEF FrameHolds
    <3>2. access[w].alone => content.put = access[w].put
      BY <3>1
    <3> QED
      BY <2>1, <3>2
  <2> QED
    BY <1>1, <1>4, <2>1, <2>2 DEF Writing, Replacing, Accesses
<1>11. CASE Files!DeleteMetadata(w)
  <2>1. /\ access[w].pc = "unlink" /\ metadata' = 0
        /\ access' = [access EXCEPT ![w] = Files!Resting] /\ stale' = ~access[w].alone
        /\ UNCHANGED <<content, puts>>
    BY <1>11 DEF Files!DeleteMetadata, Files!WriterEnds, Files!Doing, Files!NoPut
  <2>2. ~stale' => content.put = metadata'
    BY <1>1, <2>1, FileAssumed DEF FrameHolds
  <2> QED
    BY <1>1, <1>4, <2>1, <2>2 DEF Writing, Replacing, Accesses
<1> QED
  BY <1>3, <1>5, <1>6, <1>8, <1>9, <1>10, <1>11

\* A reader reads, is answered or ends.
LEMMA ReaderSteps ==
  ASSUME FileInv, NEW w \in Workers,
         Files!LoadMetadata(w) \/ Files!ReadBody(w) \/ Files!GetEnds(w)
  PROVE  FileInv'
<1>1. /\ access[w] \in Accesses /\ content \in Bodies /\ FrameHolds(w)
      /\ stale \in BOOLEAN /\ metadata \in Nat /\ access \in [Workers -> Accesses]
      /\ (content # Files!NoFile => content.chunks = Chunks)
  BY DEF FileInv, FileTyped
<1>2. UNCHANGED <<content, metadata, stale, puts>>
  BY DEF Files!LoadMetadata, Files!ReadBody, Files!GetEnds
<1>3. CASE access' = [access EXCEPT ![w] = Files!Resting]
  <2>1. access'[w] = Files!Resting
    BY <1>1, <1>3
  <2>2. FrameHolds(w)'
    BY <2>1, FileAssumed DEF FrameHolds
  <2>3. access[w].pc \notin Replacing
    BY DEF Files!LoadMetadata, Files!ReadBody, Files!GetEnds, Files!Doing, Replacing
  <2> QED
    BY <1>2, <1>3, <2>2, <2>3, FileAssumed, ReaderMoves DEF Writing, Replacing
<1>4. CASE Files!LoadMetadata(w)
  <2>1. PICK f : f = [access[w] EXCEPT !.pc = "open", !.described = metadata]
    OBVIOUS
  <2>2. f = [pc |-> "open", put |-> access[w].put, chunks |-> access[w].chunks,
             described |-> metadata, body |-> access[w].body, alone |-> access[w].alone]
    BY <1>1, <2>1 DEF Accesses
  <2>3. /\ f \in Accesses /\ f.pc = "open" /\ f.alone = access[w].alone
        /\ f.described = metadata
    BY <1>1, <2>2 DEF Accesses
  <2>4. access' = [access EXCEPT ![w].pc = "open", ![w].described = metadata]
        /\ access[w].pc = "load"
    BY <1>4 DEF Files!LoadMetadata, Files!Doing
  <2>5. access' = [access EXCEPT ![w] = f]
    BY <1>1, <2>1, <2>4 DEF Accesses
  <2>6. FrameHolds(w)'
    <3>1. access'[w] = f
      BY <1>1, <2>5
    <3> QED
      BY <1>2, <2>3, <3>1 DEF FrameHolds
  <2> QED
    BY <1>2, <2>3, <2>4, <2>5, <2>6, ReaderMoves DEF Writing, Replacing
<1>5. CASE Files!ReadBody(w) /\ content # Files!NoFile
  <2>1. PICK f : f = [access[w] EXCEPT !.pc = "answered", !.body = content]
    OBVIOUS
  <2>2. f = [pc |-> "answered", put |-> access[w].put, chunks |-> access[w].chunks,
             described |-> access[w].described, body |-> content,
             alone |-> access[w].alone]
    BY <1>1, <2>1 DEF Accesses
  <2>3. /\ f \in Accesses /\ f.pc = "answered" /\ f.alone = access[w].alone
        /\ f.described = access[w].described /\ f.body = content
    BY <1>1, <2>2 DEF Accesses
  <2>4. access' = [access EXCEPT ![w].pc = "answered", ![w].body = content]
        /\ access[w].pc = "open"
    BY <1>5 DEF Files!ReadBody, Files!Doing
  <2>5. access' = [access EXCEPT ![w] = f]
    BY <1>1, <2>1, <2>4 DEF Accesses
  <2>6. FrameHolds(w)'
    <3>1. access'[w] = f
      BY <1>1, <2>5
    <3>2. access[w].alone => \A v \in Workers : access[v].pc \notin Replacing
      BY <2>4 DEF FileInv, WritersAreSeen, Writing, Replacing
    <3>3. access[w].alone /\ ~stale => content.put = metadata
      BY <3>2 DEF FileInv, Agreed
    <3>4. access[w].alone => access[w].described = metadata
      BY <1>1, <2>4 DEF FrameHolds
    <3> QED
      BY <1>1, <1>2, <1>5, <2>3, <3>1, <3>3, <3>4 DEF FrameHolds
  <2> QED
    BY <1>2, <2>3, <2>4, <2>5, <2>6, ReaderMoves DEF Writing, Replacing
<1> QED
  BY <1>3, <1>4, <1>5 DEF Files!ReadBody, Files!GetEnds

\* Every call, whatever runs beside it, keeps what is known of the two files.
LEMMA FileNext == FileInv /\ [Next]_vars => FileInv'
<1> SUFFICES ASSUME FileInv, [Next]_vars PROVE FileInv'
  OBVIOUS
<1>1. CASE UNCHANGED fileVars
  BY <1>1 DEF fileVars, FileInv, FileTyped, WritersAreSeen, FrameHolds, Agreed, Files!NoFile
<1>2. ASSUME ~UNCHANGED fileVars
      PROVE  \E w \in Workers : Files!StorageStep(w)
  BY <1>2 DEF Next, OthersRest, vars
<1>3. ASSUME NEW w \in Workers, Files!StorageStep(w)
      PROVE  FileInv'
  <2>1. CASE Files!PutBegins(w)
    <3>1. PICK f : f = [Files!Resting EXCEPT !.pc = "stream", !.put = puts']
      OBVIOUS
    <3>2. puts' \in Nat
      BY <2>1 DEF Files!PutBegins, FileInv, FileTyped
    <3>3. f = [pc |-> "stream", put |-> puts', chunks |-> 0, described |-> 0,
               body |-> Files!NoFile, alone |-> TRUE]
      BY <3>1 DEF Files!Resting, Files!NoPut
    <3>4. f \in Accesses /\ f.pc = "stream"
      BY <3>2, <3>3, FileAssumed DEF Accesses
    <3>5. /\ access[w].pc = "idle" /\ Files!Begin(w, f, TRUE)
          /\ UNCHANGED <<content, metadata, stale>>
      BY <2>1, <3>1 DEF Files!PutBegins, Files!Doing
    <3> QED
      BY <3>2, <3>4, <3>5, CallBegins
  <2>2. CASE Files!DeleteContent(w)
    <3>1. PICK f : f = [Files!Resting EXCEPT !.pc = "unlink"]
      OBVIOUS
    <3>2. f = [pc |-> "unlink", put |-> 0, chunks |-> 0, described |-> 0,
               body |-> Files!NoFile, alone |-> TRUE]
      BY <3>1 DEF Files!Resting, Files!NoPut
    <3>3. f \in Accesses /\ f.pc = "unlink"
      BY <3>2, FileAssumed DEF Accesses
    <3>4. /\ access[w].pc = "idle" /\ Files!Begin(w, f, TRUE) /\ content' = Files!NoFile
          /\ UNCHANGED <<metadata, stale, puts>>
      BY <2>2, <3>1 DEF Files!DeleteContent, Files!Doing
    <3>5. puts' \in Nat
      BY <3>4 DEF FileInv, FileTyped
    <3> QED
      BY <3>3, <3>4, <3>5, CallBegins
  <2>3. CASE Files!GetBegins(w) /\ content # Files!NoFile
    <3>1. PICK f : f = [Files!Resting EXCEPT !.pc = "load"]
      OBVIOUS
    <3>2. f = [pc |-> "load", put |-> 0, chunks |-> 0, described |-> 0,
               body |-> Files!NoFile, alone |-> TRUE]
      BY <3>1 DEF Files!Resting, Files!NoPut
    <3>3. f \in Accesses /\ f.pc = "load"
      BY <3>2, FileAssumed DEF Accesses
    <3>4. /\ access[w].pc = "idle" /\ Files!Begin(w, f, FALSE)
          /\ UNCHANGED <<content, metadata, stale, puts>>
      BY <2>3, <3>1 DEF Files!GetBegins, Files!Doing
    <3>5. puts' \in Nat
      BY <3>4 DEF FileInv, FileTyped
    <3> QED
      BY <3>3, <3>4, <3>5, CallBegins
  <2>4. CASE Files!GetBegins(w) /\ content = Files!NoFile
    <3>1. UNCHANGED <<content, metadata, access, puts, stale>>
      BY <2>4 DEF Files!GetBegins
    <3> QED
      BY <3>1 DEF FileInv, FileTyped, WritersAreSeen, FrameHolds, Agreed, Files!NoFile
  <2> QED
    BY <1>3, <2>1, <2>2, <2>3, <2>4, WriterMoves, ReaderSteps DEF Files!StorageStep
<1> QED
  BY <1>1, <1>2, <1>3

\* FileInv holds in every state.
LEMMA FileInvariant == Spec => []FileInv
  BY FileInit, FileNext, PTL DEF Spec

\* A get reads one whole content, with its metadata where nothing was written beside.
LEMMA FilesAreWhole == FileInv => Files!GetsAreWhole
  BY DEF FileInv, FrameHolds, Files!GetsAreWhole, Files!Doing

-----------------------------------------------------------------------------
(* CloudStorage.                                                            *)

Transfers ==
  [pc : {"idle", "spool", "call", "properties", "download", "answered"},
   put : Nat, described : Nat, body : Nat, alone : BOOLEAN]
Uploading == {"spool", "call", "properties"}

CloudTyped ==
  /\ object \in Nat /\ started \in Nat /\ expected \in Nat /\ strays \subseteq Nat
  /\ transfer \in [Workers -> Transfers]

\* Whoever is there while another writes, or a call without its caller, is not alone.
UploadsAreSeen ==
  /\ \A v, w \in Workers :
       v # w /\ transfer[v].pc \in Uploading /\ transfer[w].pc # "idle" =>
         ~transfer[w].alone
  /\ strays # {} => \A w \in Workers : transfer[w].pc # "idle" => ~transfer[w].alone

\* What a call has done or read, if it is alone, is still so.
TransferHolds(w) ==
  LET f == transfer[w] IN
  /\ f.alone /\ f.pc = "properties" => object = f.put
  /\ f.alone /\ f.pc = "download" => f.described = object
  /\ f.pc = "answered" =>
       /\ provider # "azure" \/ f.alone => f.described = f.body
       /\ f.alone /\ expected # Clouds!Unsure => f.body = expected

\* The key has the put of its last writer, if it is known and has its answer.
Uploaded ==
  expected # Clouds!Unsure /\ (\A w \in Workers : transfer[w].pc # "properties") =>
    object = expected

CloudInv ==
  CloudTyped /\ UploadsAreSeen /\ Uploaded /\ \A w \in Workers : TransferHolds(w)

\* A worker rests at first, without a put of its own.
LEMMA CloudAssumed ==
  /\ Clouds!Unsure \in Nat
  /\ Clouds!AtRest \in Transfers /\ Clouds!AtRest.pc = "idle"
  /\ Clouds!AtRest = [pc |-> "idle", put |-> 0, described |-> 0, body |-> 0, alone |-> TRUE]
<1>1. Clouds!Unsure \in Nat
  BY ApplicationAssumption DEF Clouds!CloudStorageAssumption, Clouds!Unsure
<1>2. Clouds!AtRest = [pc |-> "idle", put |-> 0, described |-> 0, body |-> 0, alone |-> TRUE]
  BY DEF Clouds!AtRest, Clouds!NoObject
<1>3. Clouds!AtRest \in Transfers /\ Clouds!AtRest.pc = "idle"
  BY <1>2 DEF Transfers
<1> QED
  BY <1>1, <1>2, <1>3

\* Nothing is stored at first, and nobody calls.
LEMMA CloudInit == Init => CloudInv
<1> SUFFICES ASSUME Init PROVE CloudInv
  OBVIOUS
<1>1. /\ object = 0 /\ started = 0 /\ strays = {} /\ expected = 0
      /\ transfer = [w \in Workers |-> Clouds!AtRest]
  BY DEF Init, Clouds!CloudInit, Clouds!NoObject
<1>2. CloudTyped
  BY <1>1, CloudAssumed DEF CloudTyped
<1>3. \A w \in Workers : transfer[w].pc = "idle"
  BY <1>1, CloudAssumed
<1> QED
  BY <1>1, <1>2, <1>3
    DEF CloudInv, UploadsAreSeen, Uploaded, TransferHolds, Uploading

\* A worker goes on with its call, or ends it; only a writer changes something.
LEMMA TransferMoves ==
  ASSUME CloudInv, NEW w \in Workers, NEW f \in Transfers,
         transfer' = [transfer EXCEPT ![w] = f],
         f.pc # "idle" => transfer[w].pc # "idle" /\ f.alone = transfer[w].alone,
         f.pc \in Uploading => transfer[w].pc \in Uploading,
         object' \in Nat, expected' \in Nat, strays' \subseteq Nat,
         UNCHANGED <<provider, started>>,
         \/ transfer[w].pc \in Uploading /\ (f.pc = "idle" \/ UNCHANGED strays)
         \/ UNCHANGED <<object, expected, strays>>,
         TransferHolds(w)', Uploaded'
  PROVE  CloudInv'
<1>1. \A v \in Workers : transfer'[v] = IF v = w THEN f ELSE transfer[v]
  BY DEF CloudInv, CloudTyped
<1>2. CloudTyped'
  BY DEF CloudInv, CloudTyped
<1>3. UploadsAreSeen'
  <2>1. \A u, v \in Workers :
          u # v /\ transfer'[u].pc \in Uploading /\ transfer'[v].pc # "idle" =>
            ~transfer'[v].alone
    BY <1>1 DEF CloudInv, UploadsAreSeen
  <2>2. ASSUME strays' # {}, NEW v \in Workers, transfer'[v].pc # "idle"
        PROVE  ~transfer'[v].alone
    <3>1. CASE UNCHANGED strays
      BY <1>1, <2>2, <3>1 DEF CloudInv, UploadsAreSeen
    <3>2. CASE transfer[w].pc \in Uploading /\ f.pc = "idle"
      BY <1>1, <2>2, <3>2 DEF CloudInv, UploadsAreSeen
    <3> QED
      BY <3>1, <3>2
  <2> QED
    BY <2>1, <2>2 DEF UploadsAreSeen
<1>4. ASSUME NEW v \in Workers
      PROVE  TransferHolds(v)'
  <2>1. CASE v = w
    BY <2>1
  <2>2. CASE v # w /\ transfer[w].pc \in Uploading
    <3>1. transfer'[v] = transfer[v] /\ TransferHolds(v)
          /\ (transfer[v].pc # "idle" => ~transfer[v].alone)
      BY <1>1, <2>2 DEF CloudInv, UploadsAreSeen
    <3> QED
      BY <3>1 DEF TransferHolds
  <2>3. CASE v # w /\ UNCHANGED <<object, expected, strays>>
    <3>1. transfer'[v] = transfer[v] /\ TransferHolds(v)
      BY <1>1, <2>3 DEF CloudInv
    <3> QED
      BY <2>3, <3>1 DEF TransferHolds, Clouds!Unsure
  <2> QED
    BY <2>1, <2>2, <2>3
<1> QED
  BY <1>2, <1>3, <1>4 DEF CloudInv

\* A writer begins beside what is there, or a stray write lands: nobody who writes or
\* reads is alone any more, except a new writer.
LEMMA OthersNotice ==
  ASSUME CloudInv, NEW news \in SUBSET Workers,
         \A v \in Workers \ news :
           transfer'[v] = IF Clouds!Writing(v) \/ Clouds!Reading(v)
                          THEN [transfer[v] EXCEPT !.alone = FALSE] ELSE transfer[v],
         NEW v \in Workers \ news
  PROVE  /\ transfer'[v] \in Transfers
         /\ transfer'[v].pc = transfer[v].pc /\ transfer'[v].put = transfer[v].put
         /\ transfer'[v].described = transfer[v].described
         /\ transfer'[v].body = transfer[v].body
         /\ transfer'[v].pc # "idle" => ~transfer'[v].alone
<1>1. transfer[v] \in Transfers
  BY DEF CloudInv, CloudTyped
<1>2. CASE transfer[v].pc = "idle"
  BY <1>1, <1>2 DEF Clouds!Writing, Clouds!Reading
<1>3. CASE transfer[v].pc # "idle"
  <2>1. transfer'[v] = [transfer[v] EXCEPT !.alone = FALSE]
    BY <1>1, <1>3 DEF Clouds!Writing, Clouds!Reading, Transfers
  <2>2. transfer'[v] = [pc |-> transfer[v].pc, put |-> transfer[v].put,
                        described |-> transfer[v].described, body |-> transfer[v].body,
                        alone |-> FALSE]
    BY <1>1, <2>1 DEF Transfers
  <2> QED
    BY <1>1, <2>2 DEF Transfers
<1> QED
  BY <1>2, <1>3

\* A write begins.
LEMMA UploadBegins ==
  ASSUME CloudInv, NEW w \in Workers, NEW pc \in {"spool", "call"}, NEW put \in Nat,
         transfer[w].pc = "idle", Clouds!WriterBegins(w, pc, put),
         started' \in Nat, UNCHANGED <<provider, object, strays, expected>>
  PROVE  CloudInv'
<1>1. PICK alone \in BOOLEAN :
        alone = ~(strays # {} \/ \E o \in Workers \ {w} : Clouds!Writing(o))
  OBVIOUS
<1>2. transfer'[w] = [Clouds!AtRest EXCEPT !.pc = pc, !.put = put, !.alone = alone]
  BY <1>1 DEF Clouds!WriterBegins
<1>3. transfer'[w] = [pc |-> pc, put |-> put, described |-> 0, body |-> 0, alone |-> alone]
  BY <1>2, CloudAssumed
<1>4. transfer'[w] \in Transfers /\ transfer'[w].pc = pc /\ transfer'[w].alone = alone
  BY <1>3 DEF Transfers
<1>5. \A v \in Workers \ {w} :
        transfer'[v] = IF Clouds!Writing(v) \/ Clouds!Reading(v)
                       THEN [transfer[v] EXCEPT !.alone = FALSE] ELSE transfer[v]
  BY DEF Clouds!WriterBegins
<1>6. \A v \in Workers \ {w} :
         /\ transfer'[v] \in Transfers
         /\ transfer'[v].pc = transfer[v].pc /\ transfer'[v].put = transfer[v].put
         /\ transfer'[v].described = transfer[v].described
         /\ transfer'[v].body = transfer[v].body
         /\ transfer'[v].pc # "idle" => ~transfer'[v].alone
  BY <1>5, OthersNotice
<1>7. CloudTyped'
  <2>1. transfer' = [v \in Workers |-> transfer'[v]]
    BY DEF Clouds!WriterBegins
  <2>2. \A v \in Workers : transfer'[v] \in Transfers
    BY <1>4, <1>6
  <2>3. transfer' \in [Workers -> Transfers]
    BY <2>1, <2>2
  <2> QED
    BY <2>3 DEF CloudInv, CloudTyped
<1>8. UploadsAreSeen'
  <2>1. alone => strays = {} /\ \A v \in Workers \ {w} : transfer'[v].pc \notin Uploading
    BY <1>1, <1>6 DEF Clouds!Writing, Uploading
  <2> QED
    BY <1>4, <1>6, <2>1 DEF UploadsAreSeen
<1>9. Uploaded'
  <2>1. (\A v \in Workers : transfer'[v].pc # "properties")
          => \A v \in Workers : transfer[v].pc # "properties"
    BY <1>4, <1>6
  <2> QED
    BY <2>1 DEF CloudInv, Uploaded, Clouds!Unsure
<1>10. ASSUME NEW v \in Workers
       PROVE  TransferHolds(v)'
  <2>1. CASE v = w
    BY <1>4, <2>1 DEF TransferHolds
  <2>2. CASE v # w
    <3>1. TransferHolds(v)
      BY DEF CloudInv
    <3>2. /\ transfer'[v].pc = transfer[v].pc
          /\ transfer'[v].described = transfer[v].described
          /\ transfer'[v].body = transfer[v].body
          /\ transfer'[v].pc # "idle" => ~transfer'[v].alone
      BY <1>6, <2>2
    <3> QED
      BY <3>1, <3>2 DEF TransferHolds
  <2> QED
    BY <2>1, <2>2
<1> QED
  BY <1>7, <1>8, <1>9, <1>10 DEF CloudInv

\* A call whose caller has left lands, or fails.
LEMMA StrayKeeps ==
  ASSUME CloudInv, NEW put \in strays, Clouds!StrayEnds(put)
  PROVE  CloudInv'
<1>1. strays' \subseteq strays /\ put \in Nat /\ UNCHANGED <<provider, started>>
  BY DEF Clouds!StrayEnds, CloudInv, CloudTyped
<1>2. \A v \in Workers : transfer[v].pc # "idle" => ~transfer[v].alone
  BY DEF CloudInv, UploadsAreSeen
<1>3. CASE UNCHANGED <<object, transfer, expected>>
  BY <1>1, <1>2, <1>3 DEF CloudInv, CloudTyped, UploadsAreSeen, Uploaded, TransferHolds,
       Clouds!Unsure
<1>4. CASE ~UNCHANGED <<object, transfer, expected>>
  <2>1. /\ object' = put /\ expected' = Clouds!Unsure
        /\ transfer' = [v \in Workers |->
             IF Clouds!Writing(v) \/ Clouds!Reading(v)
             THEN [transfer[v] EXCEPT !.alone = FALSE] ELSE transfer[v]]
    BY <1>4 DEF Clouds!StrayEnds
  <2>2. \A v \in Workers \ {} :
           /\ transfer'[v] \in Transfers
           /\ transfer'[v].pc = transfer[v].pc /\ transfer'[v].put = transfer[v].put
           /\ transfer'[v].described = transfer[v].described
           /\ transfer'[v].body = transfer[v].body
           /\ transfer'[v].pc # "idle" => ~transfer'[v].alone
    <3>1. \A v \in Workers \ {} :
            transfer'[v] = IF Clouds!Writing(v) \/ Clouds!Reading(v)
                           THEN [transfer[v] EXCEPT !.alone = FALSE] ELSE transfer[v]
      BY <2>1
    <3> QED
      BY <3>1, OthersNotice
  <2>3. CloudTyped'
    <3>1. transfer' = [v \in Workers |-> transfer'[v]]
      BY <2>1
    <3>2. \A v \in Workers : transfer'[v] \in Transfers
      BY <2>2
    <3>3. transfer' \in [Workers -> Transfers]
      BY <3>1, <3>2
    <3> QED
      BY <1>1, <2>1, <3>3, CloudAssumed DEF CloudInv, CloudTyped
  <2>4. UploadsAreSeen' /\ Uploaded'
    BY <2>1, <2>2 DEF UploadsAreSeen, Uploaded, Clouds!Unsure
  <2>5. ASSUME NEW v \in Workers
        PROVE  TransferHolds(v)'
    <3>1. /\ transfer'[v].pc = transfer[v].pc /\ TransferHolds(v)
          /\ transfer'[v].described = transfer[v].described
          /\ transfer'[v].body = transfer[v].body
          /\ transfer'[v].pc # "idle" => ~transfer'[v].alone
      BY <2>2 DEF CloudInv
    <3> QED
      BY <1>1, <3>1 DEF TransferHolds
  <2> QED
    BY <2>3, <2>4, <2>5 DEF CloudInv
<1> QED
  BY <1>3, <1>4

\* A worker that goes on, or reads, or rests.
LEMMA TransferSteps ==
  ASSUME CloudInv, NEW w \in Workers,
         \/ Clouds!Spooled(w) \/ Clouds!CallReturns(w) \/ Clouds!BlobProperties(w)
         \/ Clouds!CallFails(w) \/ Clouds!CallerLeaves(w) \/ Clouds!DownloadBlob(w)
         \/ Clouds!ReadGeneration(w) \/ Clouds!BodyRead(w)
  PROVE  CloudInv'
<1>1. /\ transfer[w] \in Transfers /\ TransferHolds(w) /\ transfer \in [Workers -> Transfers]
      /\ object \in Nat /\ expected \in Nat /\ strays \subseteq Nat /\ started \in Nat
      /\ transfer[w].put \in Nat /\ Clouds!Unsure \in Nat
  BY CloudAssumed DEF CloudInv, CloudTyped, Transfers
<1>2. \A v \in Workers : v # w /\ transfer[v].pc \in Uploading /\ transfer[w].pc # "idle" =>
        ~transfer[w].alone
  BY DEF CloudInv, UploadsAreSeen
<1>3. UNCHANGED <<provider, started>> /\ Clouds!Unsure' = Clouds!Unsure
  BY DEF Clouds!Spooled, Clouds!CallReturns, Clouds!BlobProperties, Clouds!CallFails,
       Clouds!CallerLeaves, Clouds!DownloadBlob, Clouds!ReadGeneration, Clouds!BodyRead,
       Clouds!Unsure
\* The worker rests.
<1>4. ASSUME Clouds!Rests(w), object' \in Nat, expected' \in Nat, strays' \subseteq Nat,
             transfer[w].pc \in Uploading \/ UNCHANGED <<object, expected, strays>>,
             expected' # Clouds!Unsure
               /\ (\A v \in Workers : v # w => transfer[v].pc # "properties") =>
                 object' = expected'
      PROVE  CloudInv'
  <2>1. transfer' = [transfer EXCEPT ![w] = Clouds!AtRest]
    BY <1>4 DEF Clouds!Rests
  <2>2. transfer'[w] = Clouds!AtRest /\ \A v \in Workers : v # w => transfer'[v] = transfer[v]
    BY <1>1, <2>1
  <2>3. TransferHolds(w)' /\ Uploaded'
    BY <1>3, <1>4, <2>2, CloudAssumed DEF TransferHolds, Uploaded
  <2>4. Clouds!AtRest.pc = "idle" /\ Clouds!AtRest \in Transfers
        /\ Clouds!AtRest.pc \notin Uploading
    BY CloudAssumed DEF Uploading
  <2> QED
    BY <1>3, <1>4, <2>1, <2>3, <2>4, TransferMoves
<1>5. (\A v \in Workers : v # w => transfer[v].pc # "properties")
        /\ transfer[w].pc # "properties" /\ expected # Clouds!Unsure => object = expected
  BY DEF CloudInv, Uploaded
\* The worker goes on with its write.
<1>6. ASSUME NEW pc \in {"call", "properties"}, Clouds!To(w, pc), transfer[w].pc \in Uploading,
             object' \in Nat, UNCHANGED <<expected, strays>>,
             pc = "properties" => object' = transfer[w].put,
             pc = "call" => object' = object /\ transfer[w].pc # "properties"
      PROVE  CloudInv'
  <2>1. PICK f : f = [transfer[w] EXCEPT !.pc = pc]
    OBVIOUS
  <2>2. f = [pc |-> pc, put |-> transfer[w].put, described |-> transfer[w].described,
             body |-> transfer[w].body, alone |-> transfer[w].alone]
    BY <1>1, <2>1 DEF Transfers
  <2>3. f \in Transfers /\ f.pc = pc /\ f.alone = transfer[w].alone /\ f.put = transfer[w].put
    BY <1>1, <2>2 DEF Transfers
  <2>4. transfer' = [transfer EXCEPT ![w] = f]
    BY <1>6, <2>1 DEF Clouds!To
  <2>5. transfer'[w] = f /\ \A v \in Workers : v # w => transfer'[v] = transfer[v]
    BY <1>1, <2>4
  <2>6. TransferHolds(w)' /\ Uploaded'
    BY <1>3, <1>5, <1>6, <2>3, <2>5 DEF TransferHolds, Uploaded
  <2>7. transfer[w].pc # "idle" /\ expected' \in Nat /\ strays' \subseteq Nat
    BY <1>1, <1>6 DEF Uploading
  <2> QED
    BY <1>3, <1>6, <2>3, <2>4, <2>6, <2>7, TransferMoves
\* The worker has its body.
<1>7. ASSUME transfer[w].pc = "download",
             transfer' = [transfer EXCEPT ![w].pc = "answered", ![w].body = object],
             UNCHANGED <<object, expected, strays>>,
             provider # "azure" => object = transfer[w].described
      PROVE  CloudInv'
  <2>1. PICK f : f = [transfer[w] EXCEPT !.pc = "answered", !.body = object]
    OBVIOUS
  <2>2. f = [pc |-> "answered", put |-> transfer[w].put,
             described |-> transfer[w].described, body |-> object,
             alone |-> transfer[w].alone]
    BY <1>1, <2>1 DEF Transfers
  <2>3. /\ f \in Transfers /\ f.pc = "answered" /\ f.alone = transfer[w].alone
        /\ f.body = object /\ f.described = transfer[w].described
    BY <1>1, <2>2 DEF Transfers
  <2>4. transfer' = [transfer EXCEPT ![w] = f]
    BY <1>1, <1>7, <2>1 DEF Transfers
  <2>5. transfer'[w] = f /\ \A v \in Workers : v # w => transfer'[v] = transfer[v]
    BY <1>1, <2>4
  <2>6. TransferHolds(w)'
    <3>1. transfer[w].alone => \A v \in Workers : v # w => transfer[v].pc # "properties"
      BY <1>2, <1>7 DEF Uploading
    <3>2. transfer[w].alone /\ expected # Clouds!Unsure => object = expected
      BY <1>5, <1>7, <3>1
    <3>3. transfer[w].alone \/ provider # "azure" => transfer[w].described = object
      BY <1>1, <1>7 DEF TransferHolds
    <3> QED
      BY <1>3, <1>7, <2>3, <2>5, <3>2, <3>3 DEF TransferHolds
  <2>7. Uploaded'
    BY <1>3, <1>5, <1>7, <2>5 DEF Uploaded
  <2>8. object' \in Nat /\ expected' \in Nat /\ strays' \subseteq Nat
    BY <1>1, <1>7
  <2> QED
    BY <1>3, <1>7, <2>3, <2>4, <2>6, <2>7, <2>8, TransferMoves DEF Uploading
<1>8. CASE Clouds!Spooled(w)
  BY <1>1, <1>4, <1>5, <1>6, <1>8 DEF Clouds!Spooled, Clouds!Is, Uploading
<1>9. CASE Clouds!CallReturns(w)
  <2>1. transfer[w].pc = "call" /\ object' = transfer[w].put /\ UNCHANGED strays
    BY <1>9 DEF Clouds!CallReturns, Clouds!Is, Clouds!Lands
  <2>2. CASE Clouds!To(w, "properties") /\ UNCHANGED expected
    BY <1>1, <1>6, <2>1, <2>2 DEF Uploading
  <2>3. CASE Clouds!Wrote(w, TRUE)
    <3>1. /\ Clouds!Rests(w)
          /\ expected' = IF transfer[w].alone THEN transfer[w].put ELSE Clouds!Unsure
      BY <2>3 DEF Clouds!Wrote
    <3> QED
      BY <1>1, <1>4, <2>1, <3>1 DEF Uploading
  <2> QED
    BY <1>9, <2>2, <2>3 DEF Clouds!CallReturns
<1>10. CASE Clouds!BlobProperties(w)
  <2>1. /\ transfer[w].pc = "properties" /\ UNCHANGED <<object, strays>> /\ Clouds!Rests(w)
        /\ expected' = IF transfer[w].alone THEN transfer[w].put ELSE Clouds!Unsure
    BY <1>10 DEF Clouds!BlobProperties, Clouds!Is, Clouds!Wrote
  <2>2. transfer[w].alone => object = transfer[w].put
    BY <1>1, <2>1 DEF TransferHolds
  <2> QED
    BY <1>1, <1>4, <2>1, <2>2 DEF Uploading
<1>11. CASE Clouds!CallFails(w)
  <2>1. transfer[w].pc = "call" /\ UNCHANGED strays /\ Clouds!Rests(w)
        /\ (UNCHANGED <<object, expected>>
            \/ (object' = transfer[w].put /\ expected' = Clouds!Unsure))
    BY <1>11 DEF Clouds!CallFails, Clouds!Is, Clouds!Lands, Clouds!Wrote
  <2> QED
    BY <1>1, <1>4, <1>5, <2>1 DEF Uploading
<1>12. CASE Clouds!CallerLeaves(w)
  <2>1. /\ transfer[w].pc = "call" /\ strays' = strays \union {transfer[w].put}
        /\ Clouds!Rests(w) /\ expected' = Clouds!Unsure /\ object' = object
    BY <1>12 DEF Clouds!CallerLeaves, Clouds!Is
  <2> QED
    BY <1>1, <1>4, <2>1 DEF Uploading
<1>13. CASE Clouds!DownloadBlob(w) \/ Clouds!ReadGeneration(w) \/ Clouds!BodyRead(w)
  <2>1. UNCHANGED <<object, expected, strays>>
        /\ transfer[w].pc \in {"download", "answered"}
    BY <1>13 DEF Clouds!DownloadBlob, Clouds!ReadGeneration, Clouds!BodyRead, Clouds!Is
  <2>2. CASE Clouds!Rests(w)
    BY <1>1, <1>4, <1>5, <2>1, <2>2
  <2>3. CASE ~Clouds!Rests(w)
    BY <1>7, <1>13, <2>1, <2>3
      DEF Clouds!DownloadBlob, Clouds!ReadGeneration, Clouds!BodyRead, Clouds!Is
  <2> QED
    BY <2>2, <2>3
<1> QED
  BY <1>8, <1>9, <1>10, <1>11, <1>12, <1>13
\* A get takes the object, or what describes it.
LEMMA ReadBegins ==
  ASSUME CloudInv, NEW w \in Workers, Clouds!GetObject(w) \/ Clouds!GetProperties(w)
  PROVE  CloudInv'
<1>1. /\ transfer \in [Workers -> Transfers] /\ object \in Nat /\ transfer[w].pc = "idle"
      /\ UNCHANGED <<provider, object, started, strays, expected>>
      /\ Clouds!Unsure' = Clouds!Unsure
  BY DEF Clouds!GetObject, Clouds!GetProperties, Clouds!Is, CloudInv, CloudTyped,
       Clouds!Unsure
<1>2. PICK alone \in BOOLEAN :
        alone = (strays = {} /\ ~\E o \in Workers \ {w} : Clouds!Writing(o))
  OBVIOUS
<1>3. Clouds!ReaderFrame(w) = [pc |-> "idle", put |-> 0, described |-> object, body |-> 0,
                               alone |-> alone]
  <2>1. Clouds!ReaderFrame(w) = [Clouds!AtRest EXCEPT !.described = object, !.alone = alone]
    BY <1>2 DEF Clouds!ReaderFrame
  <2> QED
    BY <2>1, CloudAssumed
<1>4. PICK f : /\ transfer' = [transfer EXCEPT ![w] = f]
               /\ \/ f = [Clouds!ReaderFrame(w) EXCEPT !.pc = "answered", !.body = object]
                  \/ f = [Clouds!ReaderFrame(w) EXCEPT !.pc = "download"]
  BY DEF Clouds!GetObject, Clouds!GetProperties
<1>5. \/ f = [pc |-> "answered", put |-> 0, described |-> object, body |-> object,
              alone |-> alone]
      \/ f = [pc |-> "download", put |-> 0, described |-> object, body |-> 0,
              alone |-> alone]
  <2>1. PICK g : g = Clouds!ReaderFrame(w)
    OBVIOUS
  <2>2. g = [pc |-> "idle", put |-> 0, described |-> object, body |-> 0, alone |-> alone]
    BY <1>3, <2>1
  <2>3. f = [g EXCEPT !.pc = "answered", !.body = object] \/ f = [g EXCEPT !.pc = "download"]
    BY <1>4, <2>1
  <2>4. CASE f = [g EXCEPT !.pc = "answered", !.body = object]
    BY <2>2, <2>4
  <2>5. CASE f = [g EXCEPT !.pc = "download"]
    BY <2>2, <2>5
  <2> QED
    BY <2>3, <2>4, <2>5
<1>6. /\ f \in Transfers /\ f.pc \in {"download", "answered"} /\ f.alone = alone
      /\ f.described = object /\ (f.pc = "answered" => f.body = object)
  BY <1>1, <1>5 DEF Transfers
<1>7. transfer'[w] = f /\ \A v \in Workers : v # w => transfer'[v] = transfer[v]
  BY <1>1, <1>4
<1>8. CloudTyped'
  BY <1>1, <1>4, <1>6 DEF CloudInv, CloudTyped
<1>9. alone => strays = {} /\ \A v \in Workers : v # w => transfer[v].pc \notin Uploading
  BY <1>2 DEF Clouds!Writing, Uploading
<1>10. UploadsAreSeen'
  BY <1>1, <1>6, <1>7, <1>9 DEF CloudInv, UploadsAreSeen, Uploading
<1>11. Uploaded'
  BY <1>1, <1>6, <1>7 DEF CloudInv, Uploaded
<1>12. alone /\ expected # Clouds!Unsure => object = expected
  BY <1>1, <1>9 DEF CloudInv, Uploaded, Uploading
<1>13. ASSUME NEW v \in Workers
       PROVE  TransferHolds(v)'
  <2>1. CASE v = w
    BY <1>1, <1>6, <1>7, <1>12, <2>1 DEF TransferHolds
  <2>2. CASE v # w
    <3>1. TransferHolds(v) /\ transfer'[v] = transfer[v]
      BY <1>7, <2>2 DEF CloudInv
    <3> QED
      BY <1>1, <3>1 DEF TransferHolds
  <2> QED
    BY <2>1, <2>2
<1> QED
  BY <1>8, <1>10, <1>11, <1>13 DEF CloudInv

\* Every call, and every call without a caller, keeps what is known of the object.
LEMMA CloudNext == CloudInv /\ [Next]_vars => CloudInv'
<1> SUFFICES ASSUME CloudInv, [Next]_vars PROVE CloudInv'
  OBVIOUS
<1>1. CASE UNCHANGED cloudVars
  BY <1>1 DEF cloudVars, CloudInv, CloudTyped, UploadsAreSeen, Uploaded, TransferHolds,
       Clouds!Unsure
<1>2. ASSUME ~UNCHANGED cloudVars
      PROVE  \/ \E w \in Workers : Clouds!CloudStep(w)
             \/ \E put \in strays : Clouds!StrayEnds(put)
  BY <1>2 DEF Next, OthersRest, vars, Clouds!CloudNext
<1>3. ASSUME NEW w \in Workers, Clouds!CloudStep(w)
      PROVE  CloudInv'
  <2>1. CASE Clouds!PutSpools(w)
    <3>1. /\ transfer[w].pc = "idle" /\ started' \in Nat
          /\ Clouds!WriterBegins(w, "spool", started')
          /\ UNCHANGED <<provider, object, strays, expected>>
      BY <2>1 DEF Clouds!PutSpools, Clouds!Is, CloudInv, CloudTyped
    <3> QED
      BY <3>1, UploadBegins
  <2>2. CASE Clouds!DeleteBegins(w)
    <3>1. /\ transfer[w].pc = "idle" /\ started' \in Nat
          /\ Clouds!WriterBegins(w, "call", 0)
          /\ UNCHANGED <<provider, object, strays, expected>>
      BY <2>2 DEF Clouds!DeleteBegins, Clouds!Is, Clouds!NoObject, CloudInv, CloudTyped
    <3> QED
      BY <3>1, UploadBegins
  <2> QED
    BY <1>3, <2>1, <2>2, TransferSteps, ReadBegins DEF Clouds!CloudStep
<1> QED
  BY <1>1, <1>2, <1>3, StrayKeeps

\* CloudInv holds in every state.
LEMMA CloudInvariant == Spec => []CloudInv
  BY CloudInit, CloudNext, PTL DEF Spec

\* A get has the metadata of its body, and the last body that was surely written.
LEMMA CloudsAreCurrent == CloudInv => Clouds!GetsAreCurrent
  BY DEF CloudInv, TransferHolds, Clouds!GetsAreCurrent, Clouds!Is

-----------------------------------------------------------------------------
(* VectorIndex.                                                             *)

Servers == Tenants \union {"home"}
Points == (Servers \union {"absent"}) \X {0, 1, 2}
Vector == [id : Int, of : Int, dim : Nat]
Client == [server : Servers, state : {"open", "closed", "broken"}]
Called == {"calling", "creating"}
Closes == {"closing done", "closing failed"}
Operations == {"ensure", "upsert", "delete", "search"}
Lookups ==
  [pc : {"idle", "embedding", "done", "failed", "closing"} \union Called \union Closes,
   kind : {"none", "embed", "ensure", "upsert", "delete", "search", "close"},
   owner : Servers, client : Nat, points : SUBSET Points, dims : Nat,
   results : Seq(Vector)]

VectorTyped ==
  /\ indexing \in {"memory", "single", "tenants"}
  /\ collection \in [Servers -> SUBSET Points]
  /\ clients \in Seq(Client)
  /\ shared \in 0..Len(clients)
  /\ lookup \in [Indexers -> Lookups]

\* The vectors of the batches so far are those of the first texts.
Batched(op) ==
  /\ \A k \in 1..Len(op.results) :
       /\ op.results[k].id = k - 1 /\ op.results[k].of = k - 1
       /\ op.results[k].dim = op.dims
  /\ op.results # << >> => op.dims \in Dimensions
  /\ Len(op.results) <= Texts
  /\ op.pc = "done" => Len(op.results) = Texts
  /\ op.pc = "embedding" => Len(op.results) < Texts

LookupHolds(i) ==
  LET op == lookup[i] IN
  /\ op.pc \in Called \union Closes \union {"closing"} => op.client \in 1..Len(clients)
  /\ op.pc \in Called /\ indexing = "tenants" => clients[op.client].server = op.owner
  /\ op.pc \in Closes => indexing = "tenants"
  /\ op.pc = "closing" => indexing = "single"
  /\ op.pc \in Called => indexing # "memory" /\ op.kind \in Operations
  /\ op.pc = "creating" => op.kind = "ensure"
  /\ op.pc \in Closes \union {"closing"} => op.kind # "embed"
  /\ indexing = "tenants" => \A p \in op.points : p[1] = op.owner
  /\ op.kind = "embed" /\ op.pc \in {"embedding", "done"} => Batched(op)
  /\ op.kind # "embed" \/ op.pc = "failed" => op.results = << >>
  /\ op.pc = "embedding" => op.kind = "embed"

\* A server of a tenant holds nothing of others.
PointsBelong ==
  indexing = "tenants" =>
    \A s \in Servers : collection[s] # Vectors!Absent => \A p \in collection[s] : p[1] = s

\* The task that will close a client that is not shared.
Keeper(i, n) ==
  /\ lookup[i].client = n
  /\ lookup[i].pc \in IF indexing = "tenants" THEN Called \union Closes ELSE {"closing"}

ClientsAreKept ==
  \A n \in 1..Len(clients) :
    clients[n].state = "open" => n = shared \/ \E i \in Indexers : Keeper(i, n)

VectorInv ==
  VectorTyped /\ PointsBelong /\ ClientsAreKept /\ \A i \in Indexers : LookupHolds(i)

\* The elements of two sequences, one behind the other.
LEMMA Concatenated ==
  ASSUME NEW S, NEW s \in Seq(S), NEW t \in Seq(S)
  PROVE  /\ s \o t \in Seq(S) /\ Len(s \o t) = Len(s) + Len(t)
         /\ \A k \in 1..Len(s) : (s \o t)[k] = s[k]
         /\ \A k \in (Len(s) + 1)..(Len(s) + Len(t)) : (s \o t)[k] = t[k - Len(s)]
  OBVIOUS

\* There are texts, batches hold at least one, and vectors have a length.
LEMMA VectorAssumed ==
  /\ Texts \in Nat \ {0} /\ BatchSize \in Nat \ {0}
  /\ Dimensions \subseteq Nat \ {0} /\ Dimensions # {}
  BY ApplicationAssumption DEF Vectors!VectorAssumption

\* A task rests at first, with no client and no result.
LEMMA RestingLookup ==
  /\ Vectors!Resting = [pc |-> "idle", kind |-> "none", owner |-> "home", client |-> 0,
                        points |-> {}, dims |-> 0, results |-> << >>]
  /\ Vectors!Resting \in Lookups
<1>1. Vectors!Resting = [pc |-> "idle", kind |-> "none", owner |-> "home", client |-> 0,
                         points |-> {}, dims |-> 0, results |-> << >>]
  BY DEF Vectors!Resting, Vectors!Home, Vectors!NoClient, Vectors!Unsized
<1>2. << >> \in Seq(Vector) /\ {} \in SUBSET Points /\ "home" \in Servers
  BY DEF Servers
<1> QED
  BY <1>1, <1>2 DEF Lookups, Called, Closes

\* Nobody works at first, and no client is there.
LEMMA VectorInit == Init => VectorInv
<1> SUFFICES ASSUME Init PROVE VectorInv
  OBVIOUS
<1>1. /\ indexing \in {"memory", "single", "tenants"}
      /\ collection = [s \in Servers |-> Vectors!Absent]
      /\ shared = 0 /\ clients = << >>
      /\ lookup = [i \in Indexers |-> Vectors!Resting]
  BY DEF Init, Vectors!VectorInit, Vectors!NoClient, Vectors!Home, Servers
<1>2. Vectors!Absent \in SUBSET Points
  BY DEF Vectors!Absent, Points, Servers
<1>3. VectorTyped
  BY <1>1, <1>2, RestingLookup DEF VectorTyped
<1>4. PointsBelong /\ ClientsAreKept
  BY <1>1 DEF PointsBelong, ClientsAreKept
<1>5. ASSUME NEW i \in Indexers
      PROVE  LookupHolds(i)
  <2>1. /\ lookup[i].pc = "idle" /\ lookup[i].points = {} /\ lookup[i].kind = "none"
        /\ lookup[i].results = << >>
    BY <1>1, RestingLookup
  <2> QED
    BY <2>1 DEF LookupHolds, Called, Closes
<1> QED
  BY <1>3, <1>4, <1>5 DEF VectorInv

\* A task does something of its own; clients keep their servers, and none opens again.
LEMMA LookupMoves ==
  ASSUME VectorInv, NEW i \in Indexers, NEW op \in Lookups,
         lookup' = [lookup EXCEPT ![i] = op], indexing' = indexing,
         collection' \in [Servers -> SUBSET Points], PointsBelong',
         clients' \in Seq(Client), Len(clients) <= Len(clients'),
         shared' \in 0..Len(clients'),
         \A n \in 1..Len(clients) : clients'[n].server = clients[n].server,
         ClientsAreKept', LookupHolds(i)'
  PROVE  VectorInv'
<1>1. VectorTyped'
  BY DEF VectorInv, VectorTyped
<1>2. ASSUME NEW j \in Indexers
      PROVE  LookupHolds(j)'
  <2>1. CASE j = i
    BY <2>1
  <2>2. CASE j # i
    <3>1. lookup'[j] = lookup[j] /\ LookupHolds(j)
      BY <2>2 DEF VectorInv, VectorTyped
    <3>2. Len(clients) \in Nat /\ Len(clients') \in Nat
      BY DEF VectorInv, VectorTyped
    <3>3. lookup[j].client \in 1..Len(clients) =>
            /\ lookup[j].client \in 1..Len(clients')
            /\ clients'[lookup[j].client].server = clients[lookup[j].client].server
      BY <3>2
    <3> QED
      BY <3>1, <3>3 DEF LookupHolds, Batched
  <2> QED
    BY <2>1, <2>2
<1> QED
  BY <1>1, <1>2 DEF VectorInv

\* The servers and the clients stay.
LEMMA LookupGoesOn ==
  ASSUME VectorInv, NEW i \in Indexers, NEW op \in Lookups,
         lookup' = [lookup EXCEPT ![i] = op],
         UNCHANGED <<indexing, clients, shared>>,
         collection' \in [Servers -> SUBSET Points], PointsBelong',
         LookupHolds(i)',
         \A n \in 1..Len(clients) : Keeper(i, n) => Keeper(i, n)'
  PROVE  VectorInv'
<1>1. /\ clients' \in Seq(Client) /\ Len(clients) <= Len(clients')
      /\ shared' \in 0..Len(clients')
  BY DEF VectorInv, VectorTyped
<1>2. ClientsAreKept'
  <2>1. \A j \in Indexers : j # i => lookup'[j] = lookup[j]
    BY DEF VectorInv, VectorTyped
  <2>2. \A j \in Indexers, n \in 1..Len(clients) : Keeper(j, n) => Keeper(j, n)'
    BY <2>1 DEF Keeper
  <2>3. ClientsAreKept
    BY DEF VectorInv
  <2> QED
    BY <2>2, <2>3 DEF ClientsAreKept
<1> QED
  BY <1>1, <1>2, LookupMoves
\* The vectors of a valid answer, in the order of the texts.
LEMMA AnswerIsPlaced ==
  ASSUME NEW offset \in Nat, NEW n \in Nat \ {0}, NEW dims \in Nat,
         NEW answer \in Vectors!Answers(offset, n), Vectors!Valid(answer, n, dims)
  PROVE  /\ Vectors!Placed(answer, offset) \in Seq(Vector)
         /\ Len(Vectors!Placed(answer, offset)) = n
         /\ \A k \in 1..n :
              /\ Vectors!Placed(answer, offset)[k].id = offset + k - 1
              /\ Vectors!Placed(answer, offset)[k].of = offset + k - 1
              /\ Vectors!Placed(answer, offset)[k].dim = answer[1].dim
         /\ answer[1].dim \in Dimensions
         /\ dims # 0 => answer[1].dim = dims
<1> DEFINE Item == {[index |-> k, of |-> offset + k, dim |-> d] :
                      k \in 0..BatchSize, d \in Dimensions}
<1>1. PICK m \in 0..n : answer \in [1..m -> Item]
  BY DEF Vectors!Answers
<1>2. /\ Len(answer) = n
      /\ {item.index : item \in Vectors!Range(answer)} = 0..(n - 1)
      /\ \E d \in IF dims = 0 THEN Dimensions ELSE {dims} :
           \A item \in Vectors!Range(answer) : item.dim = d
  BY DEF Vectors!Valid, Vectors!Unsized
<1>3. m = n /\ answer \in [1..n -> Item] /\ DOMAIN answer = 1..n
  BY <1>1, <1>2
<1>4. Vectors!Range(answer) = {answer[k] : k \in 1..n}
  BY <1>3 DEF Vectors!Range
<1>5. \A item \in Vectors!Range(answer) :
        item.of = offset + item.index /\ item.dim \in Dimensions /\ item.index \in Nat
  <2>1. \A item \in Item :
          item.of = offset + item.index /\ item.dim \in Dimensions /\ item.index \in Nat
    OBVIOUS
  <2> QED
    BY <1>3, <1>4, <2>1
<1>6. answer[1] \in Vectors!Range(answer)
  BY <1>3, <1>4
<1>7. /\ \A item \in Vectors!Range(answer) : item.dim = answer[1].dim
      /\ answer[1].dim \in Dimensions
      /\ dims # 0 => answer[1].dim = dims
  BY <1>2, <1>5, <1>6
<1>8. ASSUME NEW k \in 1..n
      PROVE  /\ Vectors!Placed(answer, offset)[k].id = offset + k - 1
             /\ Vectors!Placed(answer, offset)[k].of = offset + k - 1
             /\ Vectors!Placed(answer, offset)[k].dim = answer[1].dim
             /\ Vectors!Placed(answer, offset)[k] \in Vector
  <2>1. PICK item : item = CHOOSE x \in Vectors!Range(answer) : x.index = k - 1
    OBVIOUS
  <2>2. k - 1 \in 0..(n - 1)
    OBVIOUS
  <2>3. \E x \in Vectors!Range(answer) : x.index = k - 1
    BY <1>2, <2>2
  <2>4. item \in Vectors!Range(answer) /\ item.index = k - 1
    BY <2>1, <2>3
  <2>5. Vectors!Placed(answer, offset)[k]
          = [id |-> offset + k - 1, of |-> item.of, dim |-> item.dim]
    BY <1>2, <2>1 DEF Vectors!Placed
  <2>6. item.of = offset + k - 1 /\ item.dim = answer[1].dim /\ item.dim \in Nat
    BY <1>5, <1>7, <2>4, VectorAssumed
  <2> QED
    BY <2>5, <2>6 DEF Vector
<1>9. Vectors!Placed(answer, offset) = [k \in 1..n |-> Vectors!Placed(answer, offset)[k]]
  BY <1>2 DEF Vectors!Placed
<1>10. Vectors!Placed(answer, offset) \in [1..n -> Vector]
  BY <1>8, <1>9
<1> QED
  BY <1>7, <1>8, <1>10
\* A frame that is put together from parts.
LEMMA LookupIs ==
  ASSUME NEW pc \in {"idle", "embedding", "done", "failed", "closing"}
                     \union Called \union Closes,
         NEW kind \in {"none", "embed", "ensure", "upsert", "delete", "search", "close"},
         NEW owner \in Servers, NEW client \in Nat, NEW points \in SUBSET Points,
         NEW dims \in Nat, NEW results \in Seq(Vector), NEW op,
         op = [pc |-> pc, kind |-> kind, owner |-> owner, client |-> client,
               points |-> points, dims |-> dims, results |-> results]
  PROVE  /\ op \in Lookups /\ op.pc = pc /\ op.kind = kind /\ op.owner = owner
         /\ op.client = client /\ op.points = points /\ op.dims = dims
         /\ op.results = results
  BY DEF Lookups

\* The parts of a frame.
LEMMA LookupParts ==
  ASSUME NEW op \in Lookups
  PROVE  /\ op = [pc |-> op.pc, kind |-> op.kind, owner |-> op.owner,
                  client |-> op.client, points |-> op.points, dims |-> op.dims,
                  results |-> op.results]
         /\ op.pc \in {"idle", "embedding", "done", "failed", "closing"}
                       \union Called \union Closes
         /\ op.kind \in {"none", "embed", "ensure", "upsert", "delete", "search", "close"}
         /\ op.owner \in Servers /\ op.client \in Nat /\ op.points \in SUBSET Points
         /\ op.dims \in Nat /\ op.results \in Seq(Vector)
  BY DEF Lookups

\* An embedding call begins, is answered for a batch, or fails.
LEMMA EmbeddingKeeps ==
  ASSUME VectorInv, NEW i \in Indexers, Vectors!BeginEmbedding(i) \/ Vectors!AnswerBatch(i)
  PROVE  VectorInv'
<1>1. /\ UNCHANGED <<indexing, collection, shared, clients>>
      /\ collection' \in [Servers -> SUBSET Points] /\ PointsBelong'
      /\ lookup \in [Indexers -> Lookups] /\ lookup[i] \in Lookups /\ LookupHolds(i)
      /\ lookup[i].pc \notin Called \union Closes \union {"closing"}
  <2>1. UNCHANGED <<indexing, collection, shared, clients>>
    BY DEF Vectors!BeginEmbedding, Vectors!AnswerBatch
  <2>2. lookup[i].pc \in {"idle", "embedding"}
    BY DEF Vectors!BeginEmbedding, Vectors!AnswerBatch
  <2> QED
    BY <2>1, <2>2 DEF VectorInv, VectorTyped, PointsBelong, Vectors!Absent, Called, Closes
<1>2. \A n \in 1..Len(clients) : ~Keeper(i, n)
  BY <1>1 DEF Keeper
<1>3. CASE Vectors!BeginEmbedding(i)
  <2>1. PICK dims \in Dimensions \union {0} :
          lookup' = [lookup EXCEPT ![i] = [Vectors!Resting EXCEPT
                       !.pc = "embedding", !.kind = "embed", !.dims = dims]]
    BY <1>3 DEF Vectors!BeginEmbedding, Vectors!Becomes, Vectors!Unsized
  <2>2. PICK op : op = [Vectors!Resting EXCEPT
                          !.pc = "embedding", !.kind = "embed", !.dims = dims]
    OBVIOUS
  <2>3. op = [pc |-> "embedding", kind |-> "embed", owner |-> "home", client |-> 0,
              points |-> {}, dims |-> dims, results |-> << >>]
    BY <2>2, RestingLookup
  <2>4. /\ op \in Lookups /\ op.pc = "embedding" /\ op.kind = "embed"
        /\ op.points = {} /\ op.results = << >>
    <3>1. dims \in Nat /\ "home" \in Servers /\ << >> \in Seq(Vector)
          /\ {} \in SUBSET Points
      BY VectorAssumed DEF Servers
    <3> QED
      BY <2>3, <3>1 DEF Lookups
  <2>5. lookup'[i] = op /\ lookup' = [lookup EXCEPT ![i] = op]
    BY <1>1, <2>1, <2>2
  <2>6. LookupHolds(i)'
    <3>1. Batched(op)
      BY <2>4, VectorAssumed DEF Batched
    <3> QED
      BY <2>4, <2>5, <3>1 DEF LookupHolds, Batched, Called, Closes
  <2> QED
    BY <1>1, <1>2, <2>4, <2>5, <2>6, LookupGoesOn
<1>4. CASE Vectors!AnswerBatch(i)
  <2>1. PICK offset : offset = Len(lookup[i].results)
    OBVIOUS
  <2>2. PICK n : n = IF Texts - offset < BatchSize THEN Texts - offset ELSE BatchSize
    OBVIOUS
  <2>3. PICK answer \in Vectors!Answers(offset, n) :
          IF Vectors!Valid(answer, n, lookup[i].dims)
          THEN lookup' = [lookup EXCEPT ![i] = [lookup[i] EXCEPT
                 !.results = @ \o Vectors!Placed(answer, offset),
                 !.dims = answer[1].dim,
                 !.pc = IF offset + n = Texts THEN "done" ELSE @]]
          ELSE lookup' = [lookup EXCEPT ![i] =
                 [lookup[i] EXCEPT !.pc = "failed", !.results = << >>]]
    BY <1>4, <2>1, <2>2 DEF Vectors!AnswerBatch, Vectors!Becomes
  <2>4. lookup[i].pc = "embedding" /\ lookup[i].kind = "embed" /\ Batched(lookup[i])
    BY <1>1, <1>4 DEF Vectors!AnswerBatch, LookupHolds
  <2>5. /\ lookup[i].results \in Seq(Vector) /\ lookup[i].dims \in Nat
        /\ lookup[i].owner \in Servers /\ lookup[i].client \in Nat
        /\ lookup[i].points \in SUBSET Points
    BY <1>1 DEF Lookups
  <2>6. offset \in Nat /\ n \in Nat \ {0} /\ offset + n <= Texts
    <3>1. offset \in Nat /\ offset < Texts
      BY <2>1, <2>4, <2>5 DEF Batched
    <3>2. Texts \in Nat /\ BatchSize \in Nat \ {0}
      BY VectorAssumed
    <3> QED
      BY ONLY <3>1, <3>2, <2>2
  <2>7. CASE Vectors!Valid(answer, n, lookup[i].dims)
    <3>1. PICK placed : placed = Vectors!Placed(answer, offset)
      OBVIOUS
    <3>2. PICK dim : dim = answer[1].dim
      OBVIOUS
    <3>3. PICK pc : pc = IF offset + n = Texts THEN "done" ELSE "embedding"
      OBVIOUS
    <3>4. PICK results : results = lookup[i].results \o placed
      OBVIOUS
    <3>5. /\ placed \in Seq(Vector) /\ Len(placed) = n
          /\ \A k \in 1..n : /\ placed[k].id = offset + k - 1
                              /\ placed[k].of = offset + k - 1
                              /\ placed[k].dim = dim
          /\ dim \in Dimensions /\ (lookup[i].dims # 0 => dim = lookup[i].dims)
      BY <2>3, <2>5, <2>6, <2>7, <3>1, <3>2, AnswerIsPlaced
    <3>6. dim \in Nat \ {0}
      BY <3>5, VectorAssumed
    <3>7. /\ results \in Seq(Vector) /\ Len(results) = offset + n
          /\ \A k \in 1..offset : results[k] = lookup[i].results[k]
          /\ \A k \in (offset + 1)..(offset + n) : results[k] = placed[k - offset]
      <4>1. PICK before \in Seq(Vector) : before = lookup[i].results
        BY <2>5
      <4>2. results = before \o placed /\ Len(before) = offset /\ Len(placed) = n
        BY <2>1, <3>4, <3>5, <4>1
      <4>3. /\ before \o placed \in Seq(Vector)
            /\ Len(before \o placed) = Len(before) + Len(placed)
            /\ \A k \in 1..Len(before) : (before \o placed)[k] = before[k]
            /\ \A k \in (Len(before) + 1)..(Len(before) + Len(placed)) :
                 (before \o placed)[k] = placed[k - Len(before)]
        <5>1. placed \in Seq(Vector)
          BY <3>5
        <5> QED
          BY ONLY <4>1, <5>1, Concatenated
      <4> QED
        BY <4>1, <4>2, <4>3
    <3>8. \A k \in 1..(offset + n) :
            results[k].id = k - 1 /\ results[k].of = k - 1 /\ results[k].dim = dim
      <4> SUFFICES ASSUME NEW k \in 1..(offset + n)
                   PROVE  results[k].id = k - 1 /\ results[k].of = k - 1
                          /\ results[k].dim = dim
        OBVIOUS
      <4>1. CASE k \in 1..offset
        <5>1. /\ lookup[i].results[k].id = k - 1 /\ lookup[i].results[k].of = k - 1
              /\ lookup[i].results[k].dim = lookup[i].dims
              /\ lookup[i].dims \in Dimensions
          <6>1. lookup[i].results # << >>
            BY <2>1, <2>5, <2>6, <4>1
          <6> QED
            BY <2>1, <2>4, <4>1, <6>1 DEF Batched
        <5>2. lookup[i].dims # 0
          BY <5>1, VectorAssumed
        <5> QED
          BY <3>5, <3>7, <4>1, <5>1, <5>2
      <4>2. CASE k \notin 1..offset
        <5>1. k \in (offset + 1)..(offset + n) /\ k - offset \in 1..n
          BY <2>6, <4>2
        <5>2. offset + (k - offset) - 1 = k - 1
          BY <2>6
        <5> QED
          BY <3>5, <3>7, <5>1, <5>2
      <4> QED
        BY <4>1, <4>2
    <3>9. PICK op : op = [lookup[i] EXCEPT !.results = results, !.dims = dim, !.pc = pc]
      OBVIOUS
    <3>10. lookup' = [lookup EXCEPT ![i] = op]
      BY <2>3, <2>4, <2>7, <3>1, <3>2, <3>3, <3>4, <3>9
    <3>11. op = [pc |-> pc, kind |-> lookup[i].kind, owner |-> lookup[i].owner,
                 client |-> lookup[i].client, points |-> lookup[i].points,
                 dims |-> dim, results |-> results]
      BY <1>1, <3>9 DEF Lookups
    <3>12. pc \in {"done", "embedding"}
      BY <3>3
    <3>13. /\ op \in Lookups /\ op.pc = pc /\ op.kind = "embed" /\ op.dims = dim
           /\ op.results = results /\ op.points = lookup[i].points
           /\ op.owner = lookup[i].owner
      BY <2>4, <2>5, <3>6, <3>7, <3>11, <3>12 DEF Lookups
    <3>14. lookup'[i] = op
      BY <1>1, <3>10
    <3>15. Batched(op)
      <4>1. \A k \in 1..Len(op.results) :
              /\ op.results[k].id = k - 1 /\ op.results[k].of = k - 1
              /\ op.results[k].dim = op.dims
        BY <3>7, <3>8, <3>13
      <4>2. Len(op.results) = offset + n /\ op.dims \in Dimensions
        BY <3>5, <3>7, <3>13
      <4>3. /\ op.pc = "done" => offset + n = Texts
            /\ op.pc = "embedding" => offset + n < Texts
        BY <2>6, <3>3, <3>13, VectorAssumed
      <4> QED
        BY <2>6, <4>1, <4>2, <4>3 DEF Batched
    <3>16. LookupHolds(i)'
      <4>1. indexing = "tenants" => \A p \in lookup[i].points : p[1] = lookup[i].owner
        BY <1>1 DEF LookupHolds
      <4> QED
        BY <1>1, <3>12, <3>13, <3>14, <3>15, <4>1 DEF LookupHolds, Batched, Called, Closes
    <3> QED
      BY <1>1, <1>2, <3>10, <3>13, <3>16, LookupGoesOn
  <2>8. CASE ~Vectors!Valid(answer, n, lookup[i].dims)
    <3>1. PICK op : op = [lookup[i] EXCEPT !.pc = "failed", !.results = << >>]
      OBVIOUS
    <3>2. op = [pc |-> "failed", kind |-> lookup[i].kind, owner |-> lookup[i].owner,
                client |-> lookup[i].client, points |-> lookup[i].points,
                dims |-> lookup[i].dims, results |-> << >>]
      BY <1>1, <3>1 DEF Lookups
    <3>3. /\ op \in Lookups /\ op.pc = "failed" /\ op.kind = lookup[i].kind
          /\ op.results = << >> /\ op.points = lookup[i].points
          /\ op.owner = lookup[i].owner
      <4>1. << >> \in Seq(Vector)
        OBVIOUS
      <4> QED
        BY <2>4, <2>5, <3>2, <4>1 DEF Lookups
    <3>4. lookup' = [lookup EXCEPT ![i] = op] /\ lookup'[i] = op
      BY <1>1, <2>3, <2>8, <3>1
    <3>5. LookupHolds(i)'
      BY <1>1, <3>3, <3>4 DEF LookupHolds, Called, Closes
    <3> QED
      BY <1>1, <1>2, <3>3, <3>4, <3>5, LookupGoesOn
  <2> QED
    BY <2>7, <2>8
<1> QED
  BY <1>3, <1>4
\* What an operation leaves of the points of a server.
LEMMA ApplyKeeps ==
  ASSUME NEW kind \in {"ensure", "upsert", "delete", "search"},
         NEW points \in SUBSET Points, NEW owner \in Servers
  PROVE  /\ Vectors!Apply(kind, points, owner) \in SUBSET Points
         /\ (kind = "ensure" \/ points # Vectors!Absent)
              /\ (points # Vectors!Absent => \A p \in points : p[1] = owner) =>
              \A p \in Vectors!Apply(kind, points, owner) : p[1] = owner
<1>1. PICK more : more = {<<owner, 1>>, <<owner, 2>>}
  OBVIOUS
<1>2. more \in SUBSET Points /\ \A p \in more : p[1] = owner
  BY <1>1 DEF Points
<1>3. Vectors!Apply(kind, points, owner)
        \in {{}, points, points \union more, points \ {<<owner, 1>>}}
  BY <1>1 DEF Vectors!Apply, Vectors!Upserted
<1>4. Vectors!Apply(kind, points, owner) \in SUBSET Points
  BY <1>2, <1>3
<1>5. points = Vectors!Absent /\ kind = "ensure" => Vectors!Apply(kind, points, owner) = {}
  BY DEF Vectors!Apply
<1>6. \A p \in Vectors!Apply(kind, points, owner) : p \in points \/ p[1] = owner
  BY <1>2, <1>3
<1> QED
  BY <1>4, <1>5, <1>6

\* An operation of the store in memory.
LEMMA MemoryKeeps ==
  ASSUME VectorInv, NEW i \in Indexers, Vectors!UseMemory(i)
  PROVE  VectorInv'
<1>1. /\ collection \in [Servers -> SUBSET Points] /\ lookup \in [Indexers -> Lookups]
      /\ indexing = "memory" /\ lookup[i].pc = "idle" /\ "home" \in Servers
      /\ UNCHANGED <<indexing, shared, clients>>
  BY DEF VectorInv, VectorTyped, Vectors!UseMemory, Servers
<1>2. PICK kind \in {"ensure", "upsert", "delete", "search"}, refused \in BOOLEAN :
        /\ collection' = IF refused THEN collection
             ELSE [collection EXCEPT !["home"] = Vectors!Apply(kind, @, "home")]
        /\ lookup' = [lookup EXCEPT ![i] = [Vectors!Resting EXCEPT
             !.kind = kind, !.pc = IF refused THEN "failed" ELSE "done",
             !.points = IF kind = "search" /\ ~refused THEN collection["home"] ELSE {}]]
  <2>1. PICK kind \in {"ensure", "upsert", "delete", "search"}, sized \in BOOLEAN :
          LET refused == (kind # "ensure" /\ collection["home"] = Vectors!Absent)
                           \/ (kind = "upsert" /\ ~sized)
          IN /\ collection' = IF refused THEN collection
                  ELSE [collection EXCEPT !["home"] = Vectors!Apply(kind, @, "home")]
             /\ lookup' = [lookup EXCEPT ![i] = [Vectors!Resting EXCEPT
                  !.kind = kind, !.pc = IF refused THEN "failed" ELSE "done",
                  !.points = IF kind = "search" /\ ~refused THEN collection["home"]
                             ELSE {}]]
    BY DEF Vectors!UseMemory, Vectors!Becomes, Vectors!Home
  <2>2. PICK refused \in BOOLEAN :
          refused = ((kind # "ensure" /\ collection["home"] = Vectors!Absent)
                       \/ (kind = "upsert" /\ ~sized))
    OBVIOUS
  <2> QED
    BY <2>1, <2>2
<1>3. PICK pc : pc = IF refused THEN "failed" ELSE "done"
  OBVIOUS
<1>4. PICK points : points = IF kind = "search" /\ ~refused THEN collection["home"] ELSE {}
  OBVIOUS
<1>5. PICK op : op = [Vectors!Resting EXCEPT !.kind = kind, !.pc = pc, !.points = points]
  OBVIOUS
<1>6. lookup' = [lookup EXCEPT ![i] = op]
  BY <1>2, <1>3, <1>4, <1>5
<1>7. op = [pc |-> pc, kind |-> kind, owner |-> "home", client |-> 0, points |-> points,
            dims |-> 0, results |-> << >>]
  BY <1>5, RestingLookup
<1>8. /\ op \in Lookups /\ op.pc \in {"failed", "done"} /\ op.kind = kind
      /\ op.results = << >>
  <2>1. points \in SUBSET Points /\ << >> \in Seq(Vector) /\ pc \in {"failed", "done"}
    BY <1>1, <1>3, <1>4
  <2> QED
    BY <1>1, <1>7, <2>1 DEF Lookups
<1>9. lookup'[i] = op
  BY <1>1, <1>6
<1>10. collection' \in [Servers -> SUBSET Points]
  BY <1>1, <1>2, ApplyKeeps
<1>11. LookupHolds(i)' /\ PointsBelong'
  BY <1>1, <1>8, <1>9 DEF LookupHolds, PointsBelong, Called, Closes
<1>12. \A n \in 1..Len(clients) : ~Keeper(i, n)
  BY <1>1 DEF Keeper, Called, Closes
<1> QED
  BY <1>1, <1>6, <1>8, <1>10, <1>11, <1>12, LookupGoesOn

\* A call of a remote store takes its client, or creates it.
LEMMA CallBeginsKeeps ==
  ASSUME VectorInv, NEW i \in Indexers, Vectors!BeginCall(i)
  PROVE  VectorInv'
<1>1. /\ collection \in [Servers -> SUBSET Points] /\ lookup \in [Indexers -> Lookups]
      /\ indexing # "memory" /\ lookup[i].pc = "idle"
      /\ clients \in Seq(Client) /\ shared \in 0..Len(clients)
      /\ UNCHANGED <<indexing, collection>>
  BY DEF VectorInv, VectorTyped, Vectors!BeginCall
<1>2. PICK kind \in {"ensure", "upsert", "delete", "search"},
           owner \in Vectors!Resolved, client \in Nat :
        /\ lookup' = [lookup EXCEPT ![i] = [[Vectors!Resting EXCEPT
                       !.kind = kind, !.owner = owner, !.pc = "calling"] EXCEPT
                         !.client = client]]
        /\ \/ /\ indexing # "tenants" /\ shared # 0 /\ client = shared
              /\ UNCHANGED <<clients, shared>>
           \/ /\ indexing = "tenants" \/ shared = 0
              /\ client = Len(clients) + 1
              /\ clients' = Append(clients, [server |-> owner, state |-> "open"])
              /\ shared' = IF indexing = "tenants" THEN shared ELSE client
  <2>1. PICK kind \in {"ensure", "upsert", "delete", "search"}, owner \in Vectors!Resolved :
          LET op == [Vectors!Resting EXCEPT
                       !.kind = kind, !.owner = owner, !.pc = "calling"] IN
          IF ~Vectors!Transient /\ shared # 0
          THEN /\ lookup' = [lookup EXCEPT ![i] = [op EXCEPT !.client = shared]]
               /\ UNCHANGED <<clients, shared>>
          ELSE /\ clients' = Append(clients, [server |-> owner, state |-> "open"])
               /\ lookup' = [lookup EXCEPT ![i] = [op EXCEPT !.client = Vectors!Newest]]
               /\ shared' = IF Vectors!Transient THEN shared ELSE Vectors!Newest
    BY DEF Vectors!BeginCall, Vectors!Becomes, Vectors!NoClient, Vectors!Create
  <2>2. Vectors!Newest = Len(clients) + 1 /\ (Vectors!Transient <=> indexing = "tenants")
    BY DEF Vectors!Newest, Vectors!Transient
  <2>3. shared \in Nat /\ Len(clients) + 1 \in Nat
    BY <1>1
  <2>4. CASE ~Vectors!Transient /\ shared # 0
    BY <2>1, <2>2, <2>3, <2>4
  <2>5. CASE ~(~Vectors!Transient /\ shared # 0)
    BY <2>1, <2>2, <2>3, <2>5
  <2> QED
    BY <2>4, <2>5
<1>3. owner \in Servers
  BY DEF Vectors!Resolved, Vectors!Home, Servers
<1>4. /\ client \in 1..Len(clients') /\ clients' \in Seq(Client)
      /\ Len(clients) <= Len(clients') /\ shared' \in 0..Len(clients')
      /\ \A n \in 1..Len(clients) : clients'[n] = clients[n]
      /\ indexing = "tenants" => clients'[client].server = owner
  <2>1. CASE UNCHANGED <<clients, shared>> /\ shared # 0 /\ client = shared
             /\ indexing # "tenants"
    BY <1>1, <2>1
  <2>2. CASE /\ client = Len(clients) + 1
             /\ clients' = Append(clients, [server |-> owner, state |-> "open"])
             /\ shared' = IF indexing = "tenants" THEN shared ELSE client
    <3>1. PICK new : new = [server |-> owner, state |-> "open"]
      OBVIOUS
    <3>2. new \in Client /\ new.server = owner
      BY <1>3, <3>1 DEF Client
    <3>3. clients' = Append(clients, new)
      BY <2>2, <3>1
    <3>4. /\ clients' \in Seq(Client) /\ Len(clients') = Len(clients) + 1
          /\ Len(clients) \in Nat /\ clients'[Len(clients) + 1] = new
          /\ \A n \in 1..Len(clients) : clients'[n] = clients[n]
      BY <1>1, <3>2, <3>3
    <3> QED
      BY <1>1, <2>2, <3>2, <3>4
  <2> QED
    BY <1>2, <2>1, <2>2
<1>5. PICK op : op = [[Vectors!Resting EXCEPT
                       !.kind = kind, !.owner = owner, !.pc = "calling"] EXCEPT
                         !.client = client]
  OBVIOUS
<1>6. op = [pc |-> "calling", kind |-> kind, owner |-> owner, client |-> client,
            points |-> {}, dims |-> 0, results |-> << >>]
  BY <1>5, RestingLookup
<1>7. /\ op \in Lookups /\ op.pc = "calling" /\ op.kind = kind /\ op.owner = owner
      /\ op.client = client /\ op.points = {} /\ op.results = << >>
  <2>1. client \in Nat /\ {} \in SUBSET Points /\ << >> \in Seq(Vector)
    BY <1>4
  <2> QED
    BY <1>3, <1>6, <2>1 DEF Lookups, Called
<1>8. lookup' = [lookup EXCEPT ![i] = op] /\ lookup'[i] = op
  BY <1>1, <1>2, <1>5
<1>9. LookupHolds(i)'
  BY <1>1, <1>4, <1>7, <1>8 DEF LookupHolds, Called, Closes, Operations
<1>10. PointsBelong'
  BY <1>1 DEF VectorInv, PointsBelong, Vectors!Absent
<1>11. ClientsAreKept'
  <2> SUFFICES ASSUME NEW n \in 1..Len(clients'), clients'[n].state = "open"
               PROVE  n = shared' \/ \E j \in Indexers : Keeper(j, n)'
    BY DEF ClientsAreKept
  <2>1. CASE n \in 1..Len(clients)
    <3>1. n = shared \/ \E j \in Indexers : Keeper(j, n)
      BY <1>4, <2>1 DEF VectorInv, ClientsAreKept
    <3>2. \A j \in Indexers : Keeper(j, n) => Keeper(j, n)'
      BY <1>1, <1>8 DEF Keeper, Called, Closes
    <3>3. n = shared => n = shared'
      BY <1>1, <1>2, <2>1
    <3> QED
      BY <3>1, <3>2, <3>3
  <2>2. CASE n \notin 1..Len(clients)
    <3>1. n = client /\ (indexing = "tenants" \/ n = shared')
      BY <1>1, <1>2, <2>2
    <3>2. indexing = "tenants" => Keeper(i, n)'
      BY <1>1, <1>7, <1>8, <3>1 DEF Keeper, Called, Closes
    <3> QED
      BY <3>1, <3>2
  <2> QED
    BY <2>1, <2>2
<1>12. \A n \in 1..Len(clients) : clients'[n].server = clients[n].server
  BY <1>4
<1> QED
  BY <1>1, <1>4, <1>7, <1>8, <1>9, <1>10, <1>11, <1>12, LookupMoves
\* What is left of the scope after a call.
LEMMA CallEnds ==
  ASSUME VectorInv, NEW i \in Indexers, lookup[i].pc \in Called,
         NEW pc \in {"done", "failed"}, NEW points \in SUBSET Points,
         lookup' = [lookup EXCEPT ![i] = [Vectors!AfterCall(i, pc) EXCEPT !.points = points]],
         UNCHANGED <<indexing, clients, shared>>,
         collection' \in [Servers -> SUBSET Points], PointsBelong',
         indexing = "tenants" => \A p \in points : p[1] = lookup[i].owner
  PROVE  VectorInv'
<1>1. /\ lookup[i] \in Lookups /\ lookup \in [Indexers -> Lookups] /\ LookupHolds(i)
      /\ indexing # "memory" /\ lookup[i].client \in 1..Len(clients)
  BY DEF VectorInv, VectorTyped, LookupHolds
<1>2. PICK after : after = IF indexing = "tenants" THEN Vectors!Closing(pc) ELSE pc
  OBVIOUS
<1>3. \/ indexing = "tenants" /\ after \in Closes
      \/ indexing # "tenants" /\ after \in {"done", "failed"}
  BY <1>2 DEF Vectors!Closing, Closes
<1>4. Vectors!AfterCall(i, pc) = [lookup[i] EXCEPT !.pc = after]
  BY <1>2 DEF Vectors!AfterCall, Vectors!Transient
<1>5. PICK op : op = [[lookup[i] EXCEPT !.pc = after] EXCEPT !.points = points]
  OBVIOUS
<1>6. op = [pc |-> after, kind |-> lookup[i].kind, owner |-> lookup[i].owner,
            client |-> lookup[i].client, points |-> points, dims |-> lookup[i].dims,
            results |-> lookup[i].results]
  BY <1>1, <1>5 DEF Lookups
<1>7. /\ op \in Lookups /\ op.pc = after /\ op.kind = lookup[i].kind
      /\ op.owner = lookup[i].owner /\ op.client = lookup[i].client /\ op.points = points
      /\ op.results = lookup[i].results
  <2>1. after \in {"idle", "embedding", "done", "failed", "closing"}
                     \union Called \union Closes
    BY <1>3
  <2>2. /\ lookup[i].client \in Nat /\ lookup[i].owner \in Servers
        /\ lookup[i].dims \in Nat /\ lookup[i].results \in Seq(Vector)
        /\ lookup[i].kind \in {"none", "embed", "ensure", "upsert", "delete", "search", "close"}
    BY <1>1 DEF Lookups
  <2>3. /\ op.pc = after /\ op.kind = lookup[i].kind
        /\ op.owner = lookup[i].owner /\ op.client = lookup[i].client
        /\ op.points = points /\ op.results = lookup[i].results
    BY <1>6
  <2>4. points \in SUBSET Points
    OBVIOUS
  <2>5. op \in Lookups
    BY <1>6, <2>1, <2>2, <2>4 DEF Lookups
  <2> QED
    BY <2>3, <2>5
<1>8. lookup' = [lookup EXCEPT ![i] = op] /\ lookup'[i] = op
  BY <1>1, <1>4, <1>5
<1>9. lookup[i].kind # "embed" /\ lookup[i].results = << >>
  BY <1>1 DEF LookupHolds, Operations
<1>10. LookupHolds(i)'
  BY <1>1, <1>3, <1>7, <1>8, <1>9 DEF LookupHolds, Called, Closes
<1>11. \A n \in 1..Len(clients) : Keeper(i, n) => Keeper(i, n)'
  <2>1. CASE indexing = "tenants"
    BY <1>3, <1>7, <1>8, <2>1 DEF Keeper
  <2>2. CASE indexing # "tenants"
    BY <2>2 DEF Keeper, Called
  <2> QED
    BY <2>1, <2>2
<1> QED
  BY <1>7, <1>8, <1>10, <1>11, LookupGoesOn

\* A call of a remote store goes on, is served or fails.
LEMMA CallKeeps ==
  ASSUME VectorInv, NEW i \in Indexers,
         \/ Vectors!CollectionExists(i) \/ Vectors!CallServed(i) \/ Vectors!CallFails(i)
         \/ Vectors!AnswerIsLost(i)
  PROVE  VectorInv'
<1>1. /\ lookup[i] \in Lookups /\ lookup \in [Indexers -> Lookups] /\ LookupHolds(i)
      /\ collection \in [Servers -> SUBSET Points] /\ clients \in Seq(Client)
      /\ lookup[i].points \in SUBSET Points /\ lookup[i].owner \in Servers
  BY DEF VectorInv, VectorTyped, Lookups
<1>2. lookup[i].pc \in Called /\ UNCHANGED <<indexing, shared, clients>>
  BY DEF Vectors!CollectionExists, Vectors!CallServed, Vectors!CallFails,
       Vectors!AnswerIsLost, Called
<1>3. /\ lookup[i].client \in 1..Len(clients) /\ lookup[i].kind \in Operations
      /\ indexing = "tenants" =>
           /\ clients[lookup[i].client].server = lookup[i].owner
           /\ \A p \in lookup[i].points : p[1] = lookup[i].owner
  BY <1>1, <1>2 DEF LookupHolds
<1>4. PICK server : server = Vectors!Server(i)
  OBVIOUS
<1>5. server \in Servers /\ (indexing = "tenants" => server = lookup[i].owner)
  <2>1. clients[lookup[i].client] \in Client
    BY <1>1, <1>3
  <2>2. server = clients[lookup[i].client].server
    BY <1>4 DEF Vectors!Server
  <2> QED
    BY <1>3, <2>1, <2>2 DEF Client
<1>6. \A pc : Vectors!AfterCall(i, pc)
                = [Vectors!AfterCall(i, pc) EXCEPT !.points = lookup[i].points]
  <2> SUFFICES ASSUME NEW pc
               PROVE  Vectors!AfterCall(i, pc)
                        = [Vectors!AfterCall(i, pc) EXCEPT !.points = lookup[i].points]
    OBVIOUS
  <2>1. PICK after : after = IF indexing = "tenants" THEN Vectors!Closing(pc) ELSE pc
    OBVIOUS
  <2>2. Vectors!AfterCall(i, pc) = [lookup[i] EXCEPT !.pc = after]
    BY <2>1 DEF Vectors!AfterCall, Vectors!Transient
  <2>3. PICK op : op = [lookup[i] EXCEPT !.pc = after]
    OBVIOUS
  <2>4. op = [pc |-> after, kind |-> lookup[i].kind, owner |-> lookup[i].owner,
              client |-> lookup[i].client, points |-> lookup[i].points,
              dims |-> lookup[i].dims, results |-> lookup[i].results]
    BY <1>1, <2>3 DEF Lookups
  <2>5. op = [op EXCEPT !.points = lookup[i].points]
    BY <2>4
  <2> QED
    BY <2>2, <2>3, <2>5
<1>7. ASSUME collection' = [collection EXCEPT ![server] =
                              Vectors!Apply(lookup[i].kind, @, lookup[i].owner)],
             lookup[i].kind = "ensure" \/ collection[server] # Vectors!Absent
      PROVE  collection' \in [Servers -> SUBSET Points] /\ PointsBelong'
  <2>1. PICK after : after = Vectors!Apply(lookup[i].kind, collection[server],
                                           lookup[i].owner)
    OBVIOUS
  <2>2. /\ after \in SUBSET Points
        /\ (lookup[i].kind = "ensure" \/ collection[server] # Vectors!Absent)
             /\ (collection[server] # Vectors!Absent =>
                   \A p \in collection[server] : p[1] = lookup[i].owner) =>
             \A p \in after : p[1] = lookup[i].owner
    BY <1>1, <1>3, <1>5, <2>1, ApplyKeeps DEF Operations
  <2>3. collection' = [collection EXCEPT ![server] = after]
    BY <1>7, <2>1
  <2>4. collection' \in [Servers -> SUBSET Points]
    BY <1>1, <2>2, <2>3
  <2>5. indexing = "tenants" => \A p \in after : p[1] = server
    BY <1>5, <1>7, <2>2 DEF VectorInv, PointsBelong
  <2>6. PointsBelong'
    BY <1>1, <1>2, <1>5, <2>3, <2>5 DEF VectorInv, PointsBelong, Vectors!Absent
  <2> QED
    BY <2>4, <2>6
<1>8. UNCHANGED collection =>
        collection' \in [Servers -> SUBSET Points] /\ PointsBelong'
  BY <1>1, <1>2 DEF VectorInv, PointsBelong, Vectors!Absent
<1>9. ASSUME NEW pc \in {"done", "failed"},
             lookup' = [lookup EXCEPT ![i] = Vectors!AfterCall(i, pc)],
             collection' \in [Servers -> SUBSET Points], PointsBelong'
      PROVE  VectorInv'
  <2>1. PICK points : points = lookup[i].points
    OBVIOUS
  <2>2. lookup' = [lookup EXCEPT ![i] = [Vectors!AfterCall(i, pc) EXCEPT !.points = points]]
    BY <1>6, <1>9, <2>1
  <2>3. points \in SUBSET Points
        /\ (indexing = "tenants" => \A p \in points : p[1] = lookup[i].owner)
    BY <1>1, <1>3, <2>1
  <2> QED
    BY <1>2, <1>9, <2>2, <2>3, CallEnds
<1>10. CASE Vectors!CallFails(i)
  <2>1. UNCHANGED collection
        /\ lookup' = [lookup EXCEPT ![i] = Vectors!AfterCall(i, "failed")]
    BY <1>10 DEF Vectors!CallFails, Vectors!Becomes
  <2>2. collection' \in [Servers -> SUBSET Points] /\ PointsBelong'
    BY <1>8, <2>1
  <2>3. lookup' = [lookup EXCEPT ![i] = Vectors!AfterCall(i, "failed")]
    BY <2>1
  <2>4. "failed" \in {"done", "failed"}
    OBVIOUS
  <2> QED
    BY <1>9, <2>2, <2>3, <2>4
<1>11. CASE Vectors!AnswerIsLost(i)
  <2>1. lookup[i].kind = "ensure" \/ collection[server] # Vectors!Absent
    BY <1>1, <1>2, <1>4, <1>11 DEF Vectors!AnswerIsLost, LookupHolds
  <2>2. /\ lookup' = [lookup EXCEPT ![i] = Vectors!AfterCall(i, "failed")]
        /\ collection' = [collection EXCEPT ![server] =
                            Vectors!Apply(lookup[i].kind, @, lookup[i].owner)]
    BY <1>4, <1>11 DEF Vectors!AnswerIsLost, Vectors!Becomes
  <2> QED
    BY <1>7, <1>9, <2>1, <2>2
<1>12. CASE Vectors!CallServed(i)
  <2>1. lookup[i].kind = "ensure" \/ collection[server] # Vectors!Absent
    BY <1>1, <1>2, <1>4, <1>12 DEF Vectors!CallServed, LookupHolds
  <2>2. PICK points : points = IF lookup[i].kind = "search" THEN collection[server] ELSE {}
    OBVIOUS
  <2>3. lookup' = [lookup EXCEPT ![i] =
                     [Vectors!AfterCall(i, "done") EXCEPT !.points = points]]
    BY <1>4, <1>12, <2>2 DEF Vectors!CallServed, Vectors!Becomes
  <2>4. collection' = [collection EXCEPT ![server] =
                         Vectors!Apply(lookup[i].kind, @, lookup[i].owner)]
    BY <1>4, <1>12 DEF Vectors!CallServed
  <2>5. points \in SUBSET Points
    BY <1>1, <1>5, <2>2
  <2>6. indexing = "tenants" => \A p \in points : p[1] = lookup[i].owner
    BY <1>5, <2>1, <2>2 DEF VectorInv, PointsBelong
  <2>7. collection' \in [Servers -> SUBSET Points] /\ PointsBelong'
    BY <1>7, <2>1, <2>4
  <2> QED
    BY <1>2, <2>3, <2>4, <2>5, <2>6, <2>7, CallEnds
<1>13. CASE Vectors!CollectionExists(i)
  <2>1. UNCHANGED collection /\ lookup[i].pc = "calling" /\ lookup[i].kind = "ensure"
        /\ lookup' = [lookup EXCEPT ![i] =
              IF collection[server] # Vectors!Absent THEN Vectors!AfterCall(i, "done")
              ELSE [lookup[i] EXCEPT !.pc = "creating"]]
    BY <1>4, <1>13 DEF Vectors!CollectionExists, Vectors!Becomes
  <2>2. collection' \in [Servers -> SUBSET Points] /\ PointsBelong'
    BY <1>8, <2>1
  <2>3. CASE collection[server] # Vectors!Absent
    <3>1. lookup' = [lookup EXCEPT ![i] = Vectors!AfterCall(i, "done")]
      BY <2>1, <2>3
    <3>2. "done" \in {"done", "failed"}
      OBVIOUS
    <3> QED
      BY <1>9, <2>2, <3>1, <3>2
  <2>4. CASE collection[server] = Vectors!Absent
    <3>1. PICK op : op = [lookup[i] EXCEPT !.pc = "creating"]
      OBVIOUS
    <3>2. op = [pc |-> "creating", kind |-> lookup[i].kind, owner |-> lookup[i].owner,
                client |-> lookup[i].client, points |-> lookup[i].points,
                dims |-> lookup[i].dims, results |-> lookup[i].results]
      BY <1>1, <3>1 DEF Lookups
    <3>3. /\ op \in Lookups /\ op.pc = "creating" /\ op.kind = lookup[i].kind
          /\ op.owner = lookup[i].owner /\ op.client = lookup[i].client
          /\ op.points = lookup[i].points /\ op.results = lookup[i].results
      BY <1>1, <3>2 DEF Lookups, Called
    <3>4. lookup' = [lookup EXCEPT ![i] = op] /\ lookup'[i] = op
      BY <1>1, <2>1, <2>4, <3>1
    <3>5. LookupHolds(i)'
      BY <1>1, <1>2, <2>1, <3>3, <3>4 DEF LookupHolds, Called, Closes, Operations
    <3>6. \A n \in 1..Len(clients) : Keeper(i, n) => Keeper(i, n)'
      BY <1>2, <2>1, <3>3, <3>4 DEF Keeper, Called, Closes
    <3> QED
      BY <1>2, <2>2, <3>3, <3>4, <3>5, <3>6, LookupGoesOn
  <2> QED
    BY <2>3, <2>4
<1> QED
  BY <1>10, <1>11, <1>12, <1>13
\* A task that changes its program counter only.
LEMMA OnlyPc ==
  ASSUME VectorInv, NEW i \in Indexers,
         NEW pc \in {"idle", "embedding", "done", "failed", "closing"}
                     \union Called \union Closes
  PROVE  \E op \in Lookups :
           /\ op = [lookup[i] EXCEPT !.pc = pc]
           /\ op.pc = pc /\ op.kind = lookup[i].kind /\ op.owner = lookup[i].owner
           /\ op.client = lookup[i].client /\ op.points = lookup[i].points
           /\ op.results = lookup[i].results
<1>1. lookup[i] \in Lookups
  BY DEF VectorInv, VectorTyped
<1>2. PICK op : op = [lookup[i] EXCEPT !.pc = pc]
  OBVIOUS
<1>3. op = [pc |-> pc, kind |-> lookup[i].kind, owner |-> lookup[i].owner,
            client |-> lookup[i].client, points |-> lookup[i].points,
            dims |-> lookup[i].dims, results |-> lookup[i].results]
  BY <1>1, <1>2 DEF Lookups
<1>4. op \in Lookups
  BY <1>1, <1>3 DEF Lookups
<1> QED
  BY <1>2, <1>3, <1>4

\* The client of a call, or the one that was shared, is closed.
LEMMA ClosingKeeps ==
  ASSUME VectorInv, NEW i \in Indexers, NEW state \in {"closed", "broken"},
         NEW pc \in {"done", "failed"},
         lookup[i].pc \in Closes \union {"closing"},
         clients' = [clients EXCEPT ![lookup[i].client].state = state],
         lookup' = [lookup EXCEPT ![i] = [lookup[i] EXCEPT !.pc = pc]],
         UNCHANGED <<indexing, collection, shared>>
  PROVE  VectorInv'
<1>1. /\ lookup[i] \in Lookups /\ lookup \in [Indexers -> Lookups] /\ LookupHolds(i)
      /\ clients \in Seq(Client) /\ shared \in 0..Len(clients)
      /\ collection \in [Servers -> SUBSET Points]
  BY DEF VectorInv, VectorTyped
<1>2. PICK c : c = lookup[i].client
  OBVIOUS
<1>3. c \in 1..Len(clients) /\ lookup[i].kind # "embed" /\ lookup[i].results = << >>
  BY <1>1, <1>2 DEF LookupHolds
<1>4. PICK new : new = [clients[c] EXCEPT !.state = state]
  OBVIOUS
<1>5. clients[c] \in Client
  BY <1>1, <1>3
<1>6. new = [server |-> clients[c].server, state |-> state]
  BY <1>4, <1>5 DEF Client
<1>7. new \in Client /\ new.server = clients[c].server /\ new.state = state
  BY <1>5, <1>6 DEF Client
<1>8. clients' = [clients EXCEPT ![c] = new]
  BY <1>2, <1>4
<1>9. /\ clients' \in Seq(Client) /\ Len(clients') = Len(clients)
      /\ \A n \in 1..Len(clients) : clients'[n] = IF n = c THEN new ELSE clients[n]
  <2>1. clients \in [1..Len(clients) -> Client] /\ Len(clients) \in Nat
    BY <1>1
  <2>2. /\ clients' \in [1..Len(clients) -> Client]
        /\ \A n \in 1..Len(clients) : clients'[n] = IF n = c THEN new ELSE clients[n]
    BY <1>3, <1>7, <1>8, <2>1
  <2>3. clients' \in Seq(Client) /\ Len(clients') = Len(clients)
    BY <2>1, <2>2
  <2> QED
    BY <2>2, <2>3
<1>10. PICK op \in Lookups :
         /\ op = [lookup[i] EXCEPT !.pc = pc]
         /\ op.pc = pc /\ op.kind = lookup[i].kind /\ op.owner = lookup[i].owner
         /\ op.client = lookup[i].client /\ op.points = lookup[i].points
         /\ op.results = lookup[i].results
  BY OnlyPc
<1>11. lookup' = [lookup EXCEPT ![i] = op] /\ lookup'[i] = op
  BY <1>1, <1>10
<1>12. LookupHolds(i)'
  <2>1. indexing = "tenants" => \A p \in op.points : p[1] = op.owner
    BY <1>1, <1>10 DEF LookupHolds
  <2>2. op.kind # "embed" /\ op.results = << >> /\ op.pc \in {"done", "failed"}
    BY <1>3, <1>10
  <2>3. op.pc \notin Called \union Closes \union {"closing", "embedding", "creating"}
    BY <2>2 DEF Called, Closes
  <2> QED
    BY <1>11, <2>1, <2>2, <2>3 DEF LookupHolds
<1>13. PointsBelong'
  BY DEF VectorInv, PointsBelong, Vectors!Absent
<1>14. ClientsAreKept'
  <2> SUFFICES ASSUME NEW n \in 1..Len(clients), clients'[n].state = "open"
               PROVE  n = shared' \/ \E j \in Indexers : Keeper(j, n)'
    BY <1>9 DEF ClientsAreKept
  <2>1. n # c /\ clients'[n] = clients[n]
    BY <1>7, <1>9
  <2>2. n = shared \/ \E j \in Indexers : Keeper(j, n)
    BY <2>1 DEF VectorInv, ClientsAreKept
  <2>3. \A j \in Indexers : Keeper(j, n) => Keeper(j, n)'
    BY <1>1, <1>2, <1>11, <2>1 DEF Keeper
  <2> QED
    BY <2>2, <2>3
<1>15. Len(clients) <= Len(clients') /\ shared' \in 0..Len(clients')
       /\ collection' \in [Servers -> SUBSET Points]
       /\ \A n \in 1..Len(clients) : clients'[n].server = clients[n].server
  BY <1>1, <1>7, <1>9
<1> QED
  BY <1>9, <1>11, <1>12, <1>13, <1>14, <1>15, LookupMoves

\* The shared client is let go.
LEMMA BeginCloseKeeps ==
  ASSUME VectorInv, NEW i \in Indexers, Vectors!BeginClose(i)
  PROVE  VectorInv'
<1>1. /\ lookup \in [Indexers -> Lookups] /\ lookup[i].pc = "idle"
      /\ clients \in Seq(Client) /\ shared \in 1..Len(clients) /\ shared' = 0
      /\ collection \in [Servers -> SUBSET Points] /\ indexing = "single"
      /\ UNCHANGED <<indexing, collection, clients>>
  BY DEF VectorInv, VectorTyped, Vectors!BeginClose, Vectors!NoClient
<1>2. PICK op : op = [Vectors!Resting EXCEPT
                        !.kind = "close", !.client = shared, !.pc = "closing"]
  OBVIOUS
<1>3. op = [pc |-> "closing", kind |-> "close", owner |-> "home", client |-> shared,
            points |-> {}, dims |-> 0, results |-> << >>]
  BY <1>2, RestingLookup
<1>4. /\ op \in Lookups /\ op.pc = "closing" /\ op.kind = "close" /\ op.client = shared
      /\ op.results = << >>
  <2>1. shared \in Nat /\ "home" \in Servers /\ << >> \in Seq(Vector)
        /\ {} \in SUBSET Points
    BY <1>1 DEF Servers
  <2> QED
    BY <1>3, <2>1 DEF Lookups
<1>5. lookup' = [lookup EXCEPT ![i] = op] /\ lookup'[i] = op
  BY <1>1, <1>2 DEF Vectors!BeginClose, Vectors!Becomes
<1>6. LookupHolds(i)'
  BY <1>1, <1>4, <1>5 DEF LookupHolds, Called, Closes
<1>7. PointsBelong'
  BY <1>1 DEF PointsBelong
<1>8. ClientsAreKept'
  <2> SUFFICES ASSUME NEW n \in 1..Len(clients), clients[n].state = "open"
               PROVE  \E j \in Indexers : Keeper(j, n)'
    BY <1>1 DEF ClientsAreKept
  <2>1. n = shared \/ \E j \in Indexers : Keeper(j, n)
    BY DEF VectorInv, ClientsAreKept
  <2>3. \A j \in Indexers : Keeper(j, n) => Keeper(j, n)'
    BY <1>1, <1>5 DEF Keeper
  <2>4. n = shared => \E j \in Indexers : Keeper(j, n)'
    BY <1>1, <1>4, <1>5 DEF Keeper
  <2> QED
    BY <2>1, <2>3, <2>4
<1>9. Len(clients) <= Len(clients') /\ shared' \in 0..Len(clients')
       /\ collection' \in [Servers -> SUBSET Points] /\ clients' \in Seq(Client)
       /\ \A n \in 1..Len(clients) : clients'[n].server = clients[n].server
  BY <1>1
<1> QED
  BY <1>1, <1>4, <1>5, <1>6, <1>7, <1>8, <1>9, LookupMoves

\* A task is done with what it did.
LEMMA EndLookupKeeps ==
  ASSUME VectorInv, NEW i \in Indexers, Vectors!EndLookup(i)
  PROVE  VectorInv'
<1>1. /\ lookup \in [Indexers -> Lookups] /\ lookup[i].pc \in {"done", "failed"}
      /\ lookup' = [lookup EXCEPT ![i] = Vectors!Resting]
      /\ UNCHANGED <<indexing, collection, shared, clients>>
      /\ collection' \in [Servers -> SUBSET Points] /\ PointsBelong'
  BY DEF VectorInv, VectorTyped, Vectors!EndLookup, Vectors!Becomes, PointsBelong,
       Vectors!Absent
<1>2. lookup'[i] = Vectors!Resting
  BY <1>1
<1>3. LookupHolds(i)'
  <2>1. /\ Vectors!Resting.pc = "idle" /\ Vectors!Resting.kind = "none"
        /\ Vectors!Resting.points = {} /\ Vectors!Resting.results = << >>
    BY RestingLookup
  <2> QED
    BY <1>2, <2>1 DEF LookupHolds, Called, Closes
<1>4. \A n \in 1..Len(clients) : ~Keeper(i, n)
  BY <1>1 DEF Keeper, Called, Closes
<1> QED
  BY <1>1, <1>3, <1>4, RestingLookup, LookupGoesOn

\* Every step of a task keeps what is known of vectors, servers and clients.
LEMMA VectorNext == VectorInv /\ [Next]_vars => VectorInv'
<1> SUFFICES ASSUME VectorInv, [Next]_vars PROVE VectorInv'
  OBVIOUS
<1>1. CASE UNCHANGED vectorVars
  <2>1. UNCHANGED <<indexing, collection, shared, clients, lookup>>
    BY <1>1 DEF vectorVars
  <2>2. VectorTyped'
    BY <2>1 DEF VectorInv, VectorTyped
  <2>3. PointsBelong' /\ ClientsAreKept'
    BY <2>1 DEF VectorInv, PointsBelong, ClientsAreKept, Keeper, Vectors!Absent
  <2>4. ASSUME NEW i \in Indexers PROVE LookupHolds(i)'
    BY <2>1 DEF VectorInv, LookupHolds, Batched
  <2> QED
    BY <2>2, <2>3, <2>4 DEF VectorInv
<1>2. ASSUME ~UNCHANGED vectorVars
      PROVE  \E i \in Indexers : Vectors!VectorStep(i)
  BY <1>2 DEF Next, OthersRest, vars
<1>3. ASSUME NEW i \in Indexers, Vectors!VectorStep(i)
      PROVE  VectorInv'
  <2>1. CASE Vectors!CloseTransient(i)
    <3>1. PICK state \in {"closed", "broken"} :
            clients' = [clients EXCEPT ![lookup[i].client].state = state]
      BY <2>1 DEF Vectors!CloseTransient
    <3>2. PICK pc \in {"done", "failed"} :
            lookup' = [lookup EXCEPT ![i] = [lookup[i] EXCEPT !.pc = pc]]
      BY <2>1 DEF Vectors!CloseTransient, Vectors!Ends, Vectors!Becomes
    <3>3. lookup[i].pc \in Closes \union {"closing"}
          /\ UNCHANGED <<indexing, collection, shared>>
      BY <2>1 DEF Vectors!CloseTransient, Closes
    <3> QED
      BY <3>1, <3>2, <3>3, ClosingKeeps
  <2>2. CASE Vectors!EndClose(i)
    <3>1. PICK state \in {"closed", "broken"} :
            /\ clients' = [clients EXCEPT ![lookup[i].client].state = state]
            /\ Vectors!Ends(i, IF state = "closed" THEN "done" ELSE "failed")
      BY <2>2 DEF Vectors!EndClose
    <3>2. PICK pc \in {"done", "failed"} :
            lookup' = [lookup EXCEPT ![i] = [lookup[i] EXCEPT !.pc = pc]]
      BY <3>1 DEF Vectors!Ends, Vectors!Becomes
    <3>3. lookup[i].pc \in Closes \union {"closing"}
          /\ UNCHANGED <<indexing, collection, shared>>
      BY <2>2 DEF Vectors!EndClose
    <3> QED
      BY <3>1, <3>2, <3>3, ClosingKeeps
  <2> QED
    BY <1>3, <2>1, <2>2, EmbeddingKeeps, MemoryKeeps, CallBeginsKeeps, CallKeeps,
       BeginCloseKeeps, EndLookupKeeps DEF Vectors!VectorStep
<1> QED
  BY <1>1, <1>2, <1>3

\* VectorInv holds in every state.
LEMMA VectorInvariant == Spec => []VectorInv
  BY VectorInit, VectorNext, PTL DEF Spec

\* Each input has its own vector, and all have one dimension.
LEMMA VectorsAreTheirOwn == VectorInv => Vectors!VectorsBelong
<1> SUFFICES ASSUME VectorInv, NEW i \in Indexers
             PROVE  /\ (lookup[i].kind = "embed" /\ lookup[i].pc = "done") =>
                          /\ Len(lookup[i].results) = Texts
                          /\ \A k \in 1..Texts :
                               /\ lookup[i].results[k].id = k - 1
                               /\ lookup[i].results[k].of = k - 1
                               /\ lookup[i].results[k].dim = lookup[i].results[1].dim
                    /\ lookup[i].pc = "failed" => lookup[i].results = << >>
  BY DEF Vectors!VectorsBelong
<1>1. LookupHolds(i)
  BY DEF VectorInv
<1>2. ASSUME lookup[i].kind = "embed", lookup[i].pc = "done"
      PROVE  /\ Len(lookup[i].results) = Texts
             /\ \A k \in 1..Texts :
                  /\ lookup[i].results[k].id = k - 1
                  /\ lookup[i].results[k].of = k - 1
                  /\ lookup[i].results[k].dim = lookup[i].results[1].dim
  <2>1. Len(lookup[i].results) = Texts
        /\ \A k \in 1..Texts :
             /\ lookup[i].results[k].id = k - 1 /\ lookup[i].results[k].of = k - 1
             /\ lookup[i].results[k].dim = lookup[i].dims
    BY <1>1, <1>2 DEF LookupHolds, Batched
  <2>2. 1 \in 1..Texts
    BY VectorAssumed
  <2> QED
    BY <2>1, <2>2
<1> QED
  BY <1>1, <1>2 DEF LookupHolds

\* On the server of a tenant are its points only.
LEMMA PointsStayApart == VectorInv => Vectors!IndexesStayApart
  BY DEF VectorInv, PointsBelong, LookupHolds, Vectors!IndexesStayApart, Servers,
       Vectors!Home

\* A client that is open is shared, or its call will close it.
LEMMA EveryClientIsClosed == VectorInv => Vectors!ClientsAreClosed
<1> SUFFICES ASSUME VectorInv, NEW n \in DOMAIN clients, clients[n].state = "open"
             PROVE  \/ n = shared
                    \/ \E i \in Indexers : lookup[i].client = n
                         /\ lookup[i].pc \notin {"idle", "done", "failed"}
  BY DEF Vectors!ClientsAreClosed
<1>1. n \in 1..Len(clients)
  BY DEF VectorInv, VectorTyped
<1>2. n = shared \/ \E i \in Indexers : Keeper(i, n)
  BY <1>1 DEF VectorInv, ClientsAreKept
<1>3. \A i \in Indexers : Keeper(i, n) =>
        lookup[i].client = n /\ lookup[i].pc \notin {"idle", "done", "failed"}
  BY DEF Keeper, Called, Closes
<1> QED
  BY <1>2, <1>3

-----------------------------------------------------------------------------
(* ManagedRuntime.                                                          *)

ChildWorkers ==
  [pc : {"new", "spawn", "stream", "stop", "ended"}, cancelled : BOOLEAN]

CockpitTyped ==
  /\ worker \in [Launches -> ChildWorkers]
  /\ child \in [Launches -> {"none", "alive", "dead"}]
  /\ process \in Launches \union {NoLaunch}
  /\ stops \in [Cockpit!Stoppers ->
       [pc : {"idle", "grace", "reap", "over"}, of : Launches \union {NoLaunch},
        restart : BOOLEAN]]

\* Each start cancels the one before.
OneIsWanted ==
  \A l, m \in Launches :
    /\ worker[l].pc \in {"spawn", "stream"} /\ ~worker[l].cancelled
    /\ worker[m].pc \in {"spawn", "stream"} /\ ~worker[m].cancelled
    => l = m

\* A child that is streamed is owned, and no start comes by it; a worker ends after it.
WorkerHolds(l) ==
  /\ worker[l].pc = "new" => child[l] = "none"
  /\ worker[l].pc = "stop" => worker[l].cancelled
  /\ worker[l].pc = "ended" => child[l] # "alive"
  /\ worker[l].pc = "stream" /\ child[l] = "alive" =>
       /\ process = l
       /\ \A m \in Launches : worker[m].pc = "spawn" => worker[m].cancelled

\* A worker stops its own child.
StopHolds(l) == stops[l].pc \in {"grace", "reap"} => stops[l].of = l

CockpitInv ==
  CockpitTyped /\ OneIsWanted /\ \A l \in Launches : WorkerHolds(l) /\ StopHolds(l)

\* The names of the workers and of the stoppers are distinct.
LEMMA CockpitAssumed ==
  /\ NoLaunch \notin Launches /\ "control" \notin Launches /\ "unmount" \notin Launches
  /\ Cockpit!Stoppers = Launches \union {"control", "unmount"}
  /\ Cockpit!NoStop = [pc |-> "idle", of |-> NoLaunch, restart |-> FALSE]
<1>1. {NoLaunch, "control", "unmount"} \intersect Launches = {}
  BY ApplicationAssumption
    DEF Cockpit!ManagedAssumption, Cockpit!Control, Cockpit!Unmount
<1>2. Cockpit!Stoppers = Launches \union {"control", "unmount"}
  BY DEF Cockpit!Stoppers, Cockpit!Control, Cockpit!Unmount
<1> QED
  BY <1>1, <1>2 DEF Cockpit!NoStop

\* Nothing was started at first.
LEMMA CockpitInit == Init => CockpitInv
<1> SUFFICES ASSUME Init PROVE CockpitInv
  OBVIOUS
<1>1. /\ process = NoLaunch
      /\ worker = [l \in Launches |-> [pc |-> "new", cancelled |-> FALSE]]
      /\ child = [l \in Launches |-> "none"]
      /\ stops = [s \in Cockpit!Stoppers |-> Cockpit!NoStop]
  BY DEF Init, Cockpit!ManagedInit
<1>2. CockpitTyped
  BY <1>1, CockpitAssumed DEF CockpitTyped, ChildWorkers
<1>3. \A l \in Launches : worker[l].pc = "new" /\ child[l] = "none" /\ stops[l].pc = "idle"
  BY <1>1, CockpitAssumed
<1> QED
  BY <1>2, <1>3 DEF CockpitInv, OneIsWanted, WorkerHolds, StopHolds

\* The workers of the group are cancelled.
LEMMA CancelledWorkers ==
  ASSUME CockpitInv, NEW l \in Launches
  PROVE  /\ Cockpit!Cancelled(worker)[l] \in ChildWorkers
         /\ Cockpit!Cancelled(worker)[l].pc = worker[l].pc
         /\ worker[l].cancelled => Cockpit!Cancelled(worker)[l].cancelled
         /\ worker[l].pc \in {"spawn", "stream"} => Cockpit!Cancelled(worker)[l].cancelled
<1>1. worker[l] \in ChildWorkers
  BY DEF CockpitInv, CockpitTyped
<1>2. Cockpit!Cancelled(worker)[l] =
        IF worker[l].pc \in {"spawn", "stream"}
        THEN [worker[l] EXCEPT !.cancelled = TRUE] ELSE worker[l]
  BY DEF Cockpit!Cancelled
<1> QED
  BY <1>1, <1>2 DEF ChildWorkers

\* A launch becomes the only one that is wanted, if nothing that is owned runs.
LEMMA LaunchKeeps ==
  ASSUME CockpitInv, NEW l \in Launches, Cockpit!Launched(l),
         UNCHANGED <<process, child>>,
         stops' \in [Cockpit!Stoppers ->
           [pc : {"idle", "grace", "reap", "over"}, of : Launches \union {NoLaunch},
            restart : BOOLEAN]],
         \A m \in Launches : stops'[m] = stops[m]
  PROVE  CockpitInv'
<1>1. /\ ~(process # NoLaunch /\ child[process] = "alive") /\ worker[l].pc = "new"
      /\ worker' = [Cockpit!Cancelled(worker) EXCEPT ![l].pc = "spawn"]
  BY DEF Cockpit!Launched, Cockpit!IsRunning, Cockpit!Works
<1>2. Cockpit!Cancelled(worker) \in [Launches -> ChildWorkers]
  <2>1. Cockpit!Cancelled(worker)
          = [m \in Launches |-> Cockpit!Cancelled(worker)[m]]
    BY DEF Cockpit!Cancelled
  <2> QED
    BY <2>1, CancelledWorkers
<1>3. PICK w : w = [Cockpit!Cancelled(worker)[l] EXCEPT !.pc = "spawn"]
  OBVIOUS
<1>4. worker' = [Cockpit!Cancelled(worker) EXCEPT ![l] = w]
  BY <1>1, <1>3
<1>5. w = [pc |-> "spawn", cancelled |-> Cockpit!Cancelled(worker)[l].cancelled]
  BY <1>2, <1>3 DEF ChildWorkers
<1>6. w \in ChildWorkers /\ w.pc = "spawn"
  BY <1>2, <1>5 DEF ChildWorkers
<1>7. \A m \in Launches :
        /\ m = l => worker'[m] = w
        /\ m # l => /\ worker'[m].pc = worker[m].pc
                    /\ worker[m].cancelled => worker'[m].cancelled
                    /\ worker[m].pc \in {"spawn", "stream"} => worker'[m].cancelled
  BY <1>2, <1>4, CancelledWorkers
<1>8. CockpitTyped'
  BY <1>2, <1>4, <1>6 DEF CockpitInv, CockpitTyped
<1>9. OneIsWanted'
  BY <1>7 DEF OneIsWanted
<1>10. ASSUME NEW m \in Launches
       PROVE  WorkerHolds(m)' /\ StopHolds(m)'
  <2>1. WorkerHolds(m) /\ StopHolds(m)
    BY DEF CockpitInv
  <2>2. StopHolds(m)'
    BY <2>1 DEF StopHolds
  <2>3. ~(worker[m].pc = "stream" /\ child[m] = "alive")
    BY <1>1, <2>1, CockpitAssumed DEF WorkerHolds
  <2>4. WorkerHolds(m)'
    BY <1>1, <1>6, <1>7, <2>1, <2>3 DEF WorkerHolds
  <2> QED
    BY <2>2, <2>4
<1> QED
  BY <1>8, <1>9, <1>10 DEF CockpitInv

\* Nothing of the workers changes, and children die only.
LEMMA ChildrenDie ==
  ASSUME CockpitInv, UNCHANGED worker, process' \in Launches \union {NoLaunch},
         \A l \in Launches : child'[l] = "alive" /\ process = l => process' = l,
         child' \in [Launches -> {"none", "alive", "dead"}],
         \A l \in Launches : child'[l] \in {child[l], "dead"},
         \A l \in Launches : child[l] = "none" => child'[l] = "none",
         stops' \in [Cockpit!Stoppers ->
           [pc : {"idle", "grace", "reap", "over"}, of : Launches \union {NoLaunch},
            restart : BOOLEAN]],
         \A l \in Launches : StopHolds(l)'
  PROVE  CockpitInv'
<1>1. CockpitTyped' /\ OneIsWanted'
  BY DEF CockpitInv, CockpitTyped, OneIsWanted
<1>2. ASSUME NEW l \in Launches
      PROVE  WorkerHolds(l)'
  <2>1. WorkerHolds(l) /\ worker'[l] = worker[l] /\ child'[l] \in {child[l], "dead"}
    BY DEF CockpitInv
  <2>2. child'[l] = "alive" => child[l] = "alive"
    BY <2>1
  <2>3. child[l] = "none" => child'[l] = "none"
    OBVIOUS
  <2>4. child[l] # "alive" => child'[l] # "alive"
    BY <2>2
  <2> QED
    BY <2>1, <2>2, <2>3, <2>4 DEF WorkerHolds
<1> QED
  BY <1>1, <1>2 DEF CockpitInv

\* A worker goes on to another state.
LEMMA WorkerEnters ==
  ASSUME CockpitInv, NEW l \in Launches, NEW pc \in {"stream", "stop", "ended"},
         Cockpit!Enters(l, pc), worker[l].pc # "new",
         process' \in Launches \union {NoLaunch},
         child' \in [Launches -> {"none", "alive", "dead"}],
         \A m \in Launches : m # l => child'[m] = child[m],
         stops' \in [Cockpit!Stoppers ->
           [pc : {"idle", "grace", "reap", "over"}, of : Launches \union {NoLaunch},
            restart : BOOLEAN]],
         \A m \in Launches : StopHolds(m)',
         pc = "stop" => worker[l].cancelled,
         pc = "ended" => child'[l] # "alive",
         pc = "stream" => worker[l].pc = "spawn" /\ ~worker[l].cancelled /\ process' = l,
         pc # "stream" => \A m \in Launches :
           worker[m].pc = "stream" /\ child[m] = "alive" /\ m # l => process' = process
  PROVE  CockpitInv'
<1>1. PICK w : w = [worker[l] EXCEPT !.pc = pc]
  OBVIOUS
<1>2. worker[l] \in ChildWorkers /\ worker \in [Launches -> ChildWorkers]
  BY DEF CockpitInv, CockpitTyped
<1>3. w = [pc |-> pc, cancelled |-> worker[l].cancelled]
  BY <1>1, <1>2 DEF ChildWorkers
<1>4. w \in ChildWorkers /\ w.pc = pc /\ w.cancelled = worker[l].cancelled
  BY <1>2, <1>3 DEF ChildWorkers
<1>5. worker' = [worker EXCEPT ![l] = w]
  BY <1>1 DEF Cockpit!Enters
<1>6. \A m \in Launches : worker'[m] = IF m = l THEN w ELSE worker[m]
  BY <1>2, <1>5
<1>7. CockpitTyped'
  BY <1>2, <1>4, <1>5 DEF CockpitInv, CockpitTyped
<1>8. OneIsWanted'
  BY <1>4, <1>6 DEF CockpitInv, OneIsWanted
<1>9. ASSUME NEW m \in Launches
      PROVE  WorkerHolds(m)'
  <2>1. WorkerHolds(m)
    BY DEF CockpitInv
  <2>2. CASE m = l
    <3>1. worker'[m].pc = pc /\ worker'[m].cancelled = worker[l].cancelled
      BY <1>4, <1>6, <2>2
    <3>2. pc = "stream" => \A k \in Launches : worker'[k].pc = "spawn" => worker'[k].cancelled
      BY <1>4, <1>6 DEF CockpitInv, OneIsWanted
    <3> QED
      BY <2>2, <3>1, <3>2 DEF WorkerHolds
  <2>3. CASE m # l
    <3>1. worker'[m] = worker[m] /\ child'[m] = child[m]
      BY <1>6, <2>3
    <3>2. ASSUME worker[m].pc = "stream", child[m] = "alive"
          PROVE  /\ process' = m
                 /\ \A k \in Launches : worker'[k].pc = "spawn" => worker'[k].cancelled
      <4>1. process = m /\ \A k \in Launches : worker[k].pc = "spawn" => worker[k].cancelled
        BY <2>1, <3>2 DEF WorkerHolds
      <4>2. pc # "stream"
        BY <4>1
      <4> QED
        BY <1>4, <1>6, <2>3, <3>2, <4>1, <4>2
    <3> QED
      BY <2>1, <3>1, <3>2 DEF WorkerHolds
  <2> QED
    BY <2>2, <2>3
<1> QED
  BY <1>7, <1>8, <1>9 DEF CockpitInv

\* A call of stop that is not a worker's changes.
LEMMA OtherStops ==
  ASSUME CockpitInv, NEW s \in Cockpit!Stoppers \ Launches,
         NEW st \in [pc : {"idle", "grace", "reap", "over"},
                     of : Launches \union {NoLaunch}, restart : BOOLEAN],
         stops' = [stops EXCEPT ![s] = st]
  PROVE  /\ stops' \in [Cockpit!Stoppers ->
              [pc : {"idle", "grace", "reap", "over"}, of : Launches \union {NoLaunch},
               restart : BOOLEAN]]
         /\ \A m \in Launches : stops'[m] = stops[m]
         /\ \A m \in Launches : StopHolds(m)'
<1>1. /\ stops \in [Cockpit!Stoppers ->
           [pc : {"idle", "grace", "reap", "over"}, of : Launches \union {NoLaunch},
            restart : BOOLEAN]]
      /\ Launches \subseteq Cockpit!Stoppers
  BY CockpitAssumed DEF CockpitInv, CockpitTyped
<1>2. \A m \in Launches : stops'[m] = stops[m]
  BY <1>1
<1>3. \A m \in Launches : StopHolds(m)'
  BY <1>2 DEF CockpitInv, StopHolds
<1> QED
  BY <1>1, <1>2, <1>3

\* The child is there before the call that spawns it returns.
LEMMA SpawnKeeps ==
  ASSUME CockpitInv, NEW l \in Launches, Cockpit!Spawn(l)
  PROVE  CockpitInv'
<1>1. /\ worker[l].pc = "spawn" /\ child[l] = "none" /\ ~worker[l].cancelled
      /\ child' = [child EXCEPT ![l] = "alive"]
      /\ process' = process /\ worker' = worker /\ stops' = stops
  BY DEF Cockpit!Spawn, Cockpit!Works
<1>2. CockpitTyped' /\ OneIsWanted'
  BY <1>1 DEF CockpitInv, CockpitTyped, OneIsWanted
<1>3. \A m \in Launches : WorkerHolds(m)' /\ StopHolds(m)'
  BY <1>1 DEF CockpitInv, CockpitTyped, WorkerHolds, StopHolds
<1> QED
  BY <1>2, <1>3 DEF CockpitInv

\* The worker whose child it does not own ends.
LEMMA SpawnFailsKeeps ==
  ASSUME CockpitInv, NEW l \in Launches, Cockpit!SpawnFails(l)
  PROVE  CockpitInv'
<1>1. /\ worker[l].pc = "spawn" /\ child' = [child EXCEPT ![l] = "dead"]
      /\ Cockpit!Enters(l, "ended") /\ process' = process /\ stops' = stops
  BY DEF Cockpit!SpawnFails, Cockpit!Works
<1>2. CockpitTyped /\ \A m \in Launches : StopHolds(m)
  BY DEF CockpitInv
<1>3. /\ child' \in [Launches -> {"none", "alive", "dead"}] /\ child'[l] = "dead"
      /\ \A m \in Launches : m # l => child'[m] = child[m]
  BY <1>1, <1>2 DEF CockpitTyped
<1>4. \A m \in Launches : StopHolds(m)'
  BY <1>1, <1>2 DEF StopHolds
<1> QED
  BY <1>1, <1>2, <1>3, <1>4, WorkerEnters DEF CockpitTyped

\* The worker that was not cancelled becomes the owner.
LEMMA OwnKeeps ==
  ASSUME CockpitInv, NEW l \in Launches, Cockpit!Own(l)
  PROVE  CockpitInv'
<1>1. /\ worker[l].pc = "spawn" /\ ~worker[l].cancelled /\ process' = l
      /\ Cockpit!Enters(l, "stream") /\ child' = child /\ stops' = stops
  BY DEF Cockpit!Own, Cockpit!Works
<1>2. CockpitTyped /\ \A m \in Launches : StopHolds(m)
  BY DEF CockpitInv
<1>3. \A m \in Launches : StopHolds(m)'
  BY <1>1, <1>2 DEF StopHolds
<1> QED
  BY <1>1, <1>2, <1>3, WorkerEnters DEF CockpitTyped

\* The worker stops its child, or gives up what is its own.
LEMMA FinishKeeps ==
  ASSUME CockpitInv, NEW l \in Launches, Cockpit!Finish(l)
  PROVE  CockpitInv'
<1>1. worker[l].pc = "stream" /\ child' = child
  BY DEF Cockpit!Finish, Cockpit!Works
<1>2. /\ CockpitTyped /\ l \in Cockpit!Stoppers
      /\ \A m \in Launches : StopHolds(m) /\ WorkerHolds(m)
  BY CockpitAssumed DEF CockpitInv
<1>3. CASE process = l /\ child[l] = "alive"
  <2>1. PICK st : st = [Cockpit!NoStop EXCEPT !.pc = "grace", !.of = l]
    OBVIOUS
  <2>2. /\ worker[l].cancelled /\ Cockpit!Enters(l, "stop") /\ process' = process
        /\ stops' = [stops EXCEPT ![l] = st]
    BY <1>3, <2>1 DEF Cockpit!Finish
  <2>3. st = [pc |-> "grace", of |-> l, restart |-> FALSE]
    BY <2>1, CockpitAssumed
  <2>4. /\ st.of = l
        /\ st \in [pc : {"idle", "grace", "reap", "over"},
                   of : Launches \union {NoLaunch}, restart : BOOLEAN]
    BY <2>3
  <2>5. /\ stops' \in [Cockpit!Stoppers ->
             [pc : {"idle", "grace", "reap", "over"}, of : Launches \union {NoLaunch},
              restart : BOOLEAN]]
        /\ stops'[l] = st /\ \A m \in Launches : m # l => stops'[m] = stops[m]
    BY <1>2, <2>2, <2>4, CockpitAssumed DEF CockpitTyped
  <2>6. \A m \in Launches : StopHolds(m)'
    BY <1>2, <2>4, <2>5 DEF StopHolds
  <2> QED
    BY <1>1, <1>2, <2>2, <2>5, <2>6, WorkerEnters DEF CockpitTyped
<1>4. CASE ~(process = l /\ child[l] = "alive")
  <2>1. /\ process' = IF process = l THEN NoLaunch ELSE process
        /\ Cockpit!Enters(l, "ended") /\ stops' = stops
    BY <1>4 DEF Cockpit!Finish, Cockpit!Disowns
  <2>2. child[l] # "alive"
    BY <1>1, <1>2, <1>4 DEF WorkerHolds
  <2>3. \A m \in Launches : StopHolds(m)'
    BY <1>2, <2>1 DEF StopHolds
  <2>4. \A m \in Launches :
          worker[m].pc = "stream" /\ child[m] = "alive" /\ m # l => process' = process
    BY <1>2, <2>1 DEF WorkerHolds
  <2>5. process' \in Launches \union {NoLaunch}
    BY <1>2, <2>1 DEF CockpitTyped
  <2>6. PICK pc \in {"stream", "stop", "ended"} : pc = "ended"
    OBVIOUS
  <2> QED
    BY <1>1, <1>2, <2>1, <2>2, <2>3, <2>4, <2>5, <2>6, WorkerEnters DEF CockpitTyped
<1> QED
  BY <1>3, <1>4

\* What a stopper owns no more is dead.
LEMMA StoppedKeeps ==
  ASSUME CockpitInv, NEW s \in Cockpit!Stoppers, Cockpit!Stopped(s)
  PROVE  CockpitInv'
<1>1. /\ stops[s].pc \in {"grace", "reap"} /\ child[stops[s].of] = "dead"
      /\ process' = IF process = stops[s].of THEN NoLaunch ELSE process
      /\ child' = child
  BY DEF Cockpit!Stopped, Cockpit!Disowns
<1>2. PICK st : st = [stops[s] EXCEPT !.pc = "over"]
  OBVIOUS
<1>3. stops' = [stops EXCEPT ![s] = st]
  BY <1>2 DEF Cockpit!Stopped
<1>4. /\ CockpitTyped /\ \A m \in Launches : StopHolds(m) /\ WorkerHolds(m)
      /\ Launches \subseteq Cockpit!Stoppers
  BY CockpitAssumed DEF CockpitInv
<1>5. st = [pc |-> "over", of |-> stops[s].of, restart |-> stops[s].restart]
  BY <1>2, <1>4 DEF CockpitTyped
<1>6. /\ st.pc = "over"
      /\ st \in [pc : {"idle", "grace", "reap", "over"},
                 of : Launches \union {NoLaunch}, restart : BOOLEAN]
  BY <1>4, <1>5 DEF CockpitTyped
<1>7. /\ stops' \in [Cockpit!Stoppers ->
           [pc : {"idle", "grace", "reap", "over"}, of : Launches \union {NoLaunch},
            restart : BOOLEAN]]
      /\ stops'[s] = st /\ \A m \in Launches : m # s => stops'[m] = stops[m]
  BY <1>3, <1>4, <1>6 DEF CockpitTyped
<1>8. \A m \in Launches : StopHolds(m)'
  BY <1>4, <1>6, <1>7 DEF StopHolds
<1>9. process' \in Launches \union {NoLaunch}
  BY <1>1, <1>4 DEF CockpitTyped
<1>10. \A m \in Launches : child[m] = "alive" /\ process = m => process' = m
  BY <1>1
<1>11. CASE s \in Launches
  <2>1. Cockpit!Enters(s, "ended")
    BY <1>11 DEF Cockpit!Stopped
  <2>2. child[s] = "dead" /\ worker[s].pc # "new"
    BY <1>1, <1>4, <1>11 DEF StopHolds, WorkerHolds
  <2>3. \A m \in Launches :
          worker[m].pc = "stream" /\ child[m] = "alive" /\ m # s => process' = process
    BY <1>4, <1>10 DEF WorkerHolds
  <2>4. PICK pc \in {"stream", "stop", "ended"} : pc = "ended"
    OBVIOUS
  <2> QED
    BY <1>1, <1>4, <1>7, <1>8, <1>9, <1>11, <2>1, <2>2, <2>3, <2>4, WorkerEnters
      DEF CockpitTyped
<1>12. CASE s \notin Launches
  <2>1. worker' = worker
    BY <1>12 DEF Cockpit!Stopped
  <2>2. \A l \in Launches : child'[l] \in {child[l], "dead"}
    BY <1>1
  <2> QED
    BY <1>1, <1>4, <1>7, <1>8, <1>9, <1>10, <2>1, <2>2, ChildrenDie DEF CockpitTyped
<1> QED
  BY <1>11, <1>12

\* The signal that nobody can ignore.
LEMMA EscalateKeeps ==
  ASSUME CockpitInv, NEW s \in Cockpit!Stoppers, Cockpit!Escalate(s)
  PROVE  CockpitInv'
<1>1. /\ stops[s].pc = "grace" /\ child[stops[s].of] = "alive"
      /\ child' = [child EXCEPT ![stops[s].of] = "dead"]
      /\ process' = process /\ worker' = worker
  BY DEF Cockpit!Escalate
<1>2. PICK st : st = [stops[s] EXCEPT !.pc = "reap"]
  OBVIOUS
<1>3. stops' = [stops EXCEPT ![s] = st]
  BY <1>2 DEF Cockpit!Escalate
<1>4. /\ CockpitTyped /\ \A m \in Launches : StopHolds(m)
      /\ Launches \subseteq Cockpit!Stoppers
  BY CockpitAssumed DEF CockpitInv
<1>5. st = [pc |-> "reap", of |-> stops[s].of, restart |-> stops[s].restart]
  BY <1>2, <1>4 DEF CockpitTyped
<1>6. /\ st.of = stops[s].of
      /\ st \in [pc : {"idle", "grace", "reap", "over"},
                 of : Launches \union {NoLaunch}, restart : BOOLEAN]
  BY <1>4, <1>5 DEF CockpitTyped
<1>7. /\ stops' \in [Cockpit!Stoppers ->
           [pc : {"idle", "grace", "reap", "over"}, of : Launches \union {NoLaunch},
            restart : BOOLEAN]]
      /\ stops'[s] = st /\ \A m \in Launches : m # s => stops'[m] = stops[m]
  BY <1>3, <1>4, <1>6 DEF CockpitTyped
<1>8. \A m \in Launches : StopHolds(m)'
  BY <1>1, <1>4, <1>6, <1>7 DEF StopHolds
<1>9. /\ child' \in [Launches -> {"none", "alive", "dead"}]
      /\ \A l \in Launches : child'[l] \in {child[l], "dead"}
      /\ \A l \in Launches : child[l] = "none" => child'[l] = "none"
  BY <1>1, <1>4 DEF CockpitTyped
<1> QED
  BY <1>1, <1>4, <1>7, <1>8, <1>9, ChildrenDie DEF CockpitTyped

\* A child ends by itself.
LEMMA ExitKeeps ==
  ASSUME CockpitInv, NEW l \in Launches, Cockpit!Exit(l)
  PROVE  CockpitInv'
<1>1. /\ child[l] = "alive" /\ child' = [child EXCEPT ![l] = "dead"]
      /\ process' = process /\ worker' = worker /\ stops' = stops
  BY DEF Cockpit!Exit
<1>2. CockpitTyped /\ \A m \in Launches : StopHolds(m)
  BY DEF CockpitInv
<1>3. \A m \in Launches : StopHolds(m)'
  BY <1>1, <1>2 DEF StopHolds
<1>4. /\ child' \in [Launches -> {"none", "alive", "dead"}]
      /\ \A m \in Launches : child'[m] \in {child[m], "dead"}
      /\ \A m \in Launches : child[m] = "none" => child'[m] = "none"
  BY <1>1, <1>2 DEF CockpitTyped
<1> QED
  BY <1>1, <1>2, <1>3, <1>4, ChildrenDie DEF CockpitTyped

\* A control worker, or a screen that leaves, interrupts what is owned.
LEMMA InterruptKeeps ==
  ASSUME CockpitInv, NEW s \in Cockpit!Stoppers \ Launches, NEW restart \in BOOLEAN,
         Cockpit!Interrupt(s, restart)
  PROVE  /\ stops' \in [Cockpit!Stoppers ->
              [pc : {"idle", "grace", "reap", "over"}, of : Launches \union {NoLaunch},
               restart : BOOLEAN]]
         /\ \A m \in Launches : StopHolds(m)'
<1>1. PICK st : st = [pc |-> IF Cockpit!IsRunning THEN "grace" ELSE "over",
                      of |-> process, restart |-> restart]
  OBVIOUS
<1>2. stops' = [stops EXCEPT ![s] = st]
  BY <1>1 DEF Cockpit!Interrupt
<1>3. st \in [pc : {"idle", "grace", "reap", "over"}, of : Launches \union {NoLaunch},
              restart : BOOLEAN]
  BY <1>1 DEF CockpitInv, CockpitTyped
<1> QED
  BY <1>2, <1>3, OtherStops

\* The workers of the screen are cancelled.
LEMMA LeaveKeeps ==
  ASSUME CockpitInv, Cockpit!Leave
  PROVE  CockpitInv'
<1>1. /\ worker' = Cockpit!Cancelled(worker) /\ Cockpit!Interrupt("unmount", FALSE)
      /\ process' = process /\ child' = child
  BY DEF Cockpit!Leave, Cockpit!Unmount
<1>2. /\ stops' \in [Cockpit!Stoppers ->
           [pc : {"idle", "grace", "reap", "over"}, of : Launches \union {NoLaunch},
            restart : BOOLEAN]]
      /\ \A m \in Launches : StopHolds(m)'
  BY <1>1, CockpitAssumed, InterruptKeeps
<1>3. worker' \in [Launches -> ChildWorkers]
  <2>1. worker' = [m \in Launches |-> Cockpit!Cancelled(worker)[m]]
    BY <1>1 DEF Cockpit!Cancelled
  <2> QED
    BY <2>1, CancelledWorkers
<1>4. \A m \in Launches :
        /\ worker'[m].pc = worker[m].pc
        /\ worker[m].cancelled => worker'[m].cancelled
        /\ worker[m].pc \in {"spawn", "stream"} => worker'[m].cancelled
  BY <1>1, CancelledWorkers
<1>5. CockpitTyped' /\ OneIsWanted'
  BY <1>1, <1>2, <1>3, <1>4 DEF CockpitInv, CockpitTyped, OneIsWanted
<1>6. \A m \in Launches : WorkerHolds(m)'
  BY <1>1, <1>4 DEF CockpitInv, WorkerHolds
<1> QED
  BY <1>2, <1>5, <1>6 DEF CockpitInv

\* A stopper that returns may start another run.
LEMMA ReturnKeeps ==
  ASSUME CockpitInv, NEW s \in Cockpit!Stoppers, Cockpit!Return(s)
  PROVE  CockpitInv'
<1>1. /\ s \notin Launches /\ stops' = [stops EXCEPT ![s] = Cockpit!NoStop]
      /\ process' = process /\ child' = child
  BY DEF Cockpit!Return
<1>2. Cockpit!NoStop \in [pc : {"idle", "grace", "reap", "over"},
                          of : Launches \union {NoLaunch}, restart : BOOLEAN]
  BY CockpitAssumed
<1>3. /\ stops' \in [Cockpit!Stoppers ->
           [pc : {"idle", "grace", "reap", "over"}, of : Launches \union {NoLaunch},
            restart : BOOLEAN]]
      /\ \A m \in Launches : stops'[m] = stops[m]
      /\ \A m \in Launches : StopHolds(m)'
  BY <1>1, <1>2, OtherStops
<1>4. (\E l \in Launches : Cockpit!Launched(l)) \/ worker' = worker
  BY DEF Cockpit!Return
<1>5. CASE \E l \in Launches : Cockpit!Launched(l)
  BY <1>1, <1>3, <1>5, LaunchKeeps
<1>6. CASE worker' = worker
  BY <1>1, <1>3, <1>6, ChildrenDie DEF CockpitInv, CockpitTyped
<1> QED
  BY <1>4, <1>5, <1>6

\* A step of the whole keeps CockpitInv.
LEMMA CockpitNext == CockpitInv /\ [Next]_vars => CockpitInv'
<1> SUFFICES ASSUME CockpitInv, [Next]_vars PROVE CockpitInv'
  OBVIOUS
<1>1. CASE UNCHANGED cockpitVars
  BY <1>1 DEF cockpitVars, CockpitInv, CockpitTyped, OneIsWanted, WorkerHolds, StopHolds
<1>2. CASE Cockpit!CockpitNext
  <2>1. ASSUME NEW l \in Launches, Cockpit!StartRuntime(l)
        PROVE  CockpitInv'
    <3>1. /\ Cockpit!Launched(l) /\ process' = process /\ child' = child
          /\ stops' = stops
      BY <2>1 DEF Cockpit!StartRuntime
    <3> QED
      BY <3>1, LaunchKeeps DEF CockpitInv, CockpitTyped
  <2>2. ASSUME NEW restart \in BOOLEAN, Cockpit!AskStop(restart)
        PROVE  CockpitInv'
    <3>1. /\ Cockpit!Interrupt("control", restart)
          /\ process' = process /\ worker' = worker /\ child' = child
      BY <2>2 DEF Cockpit!AskStop, Cockpit!Control
    <3>2. /\ stops' \in [Cockpit!Stoppers ->
               [pc : {"idle", "grace", "reap", "over"}, of : Launches \union {NoLaunch},
                restart : BOOLEAN]]
          /\ \A m \in Launches : StopHolds(m)'
      BY <3>1, CockpitAssumed, InterruptKeeps
    <3> QED
      BY <3>1, <3>2, ChildrenDie DEF CockpitInv, CockpitTyped
  <2> QED
    BY <1>2, <2>1, <2>2, SpawnKeeps, SpawnFailsKeeps, OwnKeeps, ExitKeeps, FinishKeeps,
      EscalateKeeps, StoppedKeeps, ReturnKeeps, LeaveKeeps DEF Cockpit!CockpitNext
<1> QED
  BY <1>1, <1>2 DEF Next, OthersRest, vars, cockpitVars

\* CockpitInv holds in every state.
LEMMA CockpitInvariant == Spec => []CockpitInv
  BY CockpitInit, CockpitNext, PTL DEF Spec

\* The instance counts as the library does.
LEMMA CardinalityInCockpit ==
  ASSUME NEW S
  PROVE  Cockpit!Cardinality(S) = Cardinality(S)
  BY DEF Cockpit!Cardinality, Cardinality

\* One child at most runs for a worker that nobody cancelled, and it is owned.
LEMMA ChildrenAreOwned == CockpitInv => Cockpit!OneChildIsOwned
<1> SUFFICES ASSUME CockpitInv PROVE Cockpit!OneChildIsOwned
  OBVIOUS
<1> DEFINE Wanted == {l \in Launches : child[l] = "alive" /\ ~worker[l].cancelled}
<1>2. /\ CockpitTyped /\ OneIsWanted /\ \A l \in Launches : WorkerHolds(l)
  BY DEF CockpitInv
<1>3. \A l \in Wanted : worker[l].pc \in {"spawn", "stream"} /\ ~worker[l].cancelled
  BY <1>2 DEF WorkerHolds, CockpitTyped, ChildWorkers
<1>4. \A l, m \in Wanted : l = m
  BY <1>2, <1>3 DEF OneIsWanted
<1>5. Cockpit!Cardinality(Wanted) <= 1
  <2>1. PICK W : W = Wanted
    OBVIOUS
  <2>2. Cardinality(W) <= 1
    <3>1. CASE W = {}
      BY <3>1, FS_EmptySet
    <3>2. CASE W # {}
      <4>1. PICK l : W = {l}
        BY <1>4, <2>1, <3>2
      <4> HIDE DEF Wanted
      <4>2. Cardinality({l}) = 1
        BY FS_Singleton
      <4> QED
        BY <4>1, <4>2
    <3> QED
      BY <3>1, <3>2
  <2>3. Cockpit!Cardinality(W) = Cardinality(W)
    BY CardinalityInCockpit
  <2> QED
    BY <2>1, <2>2, <2>3
<1>6. \A l \in Wanted : worker[l].pc = "stream" => process = l
  BY <1>2 DEF WorkerHolds
<1>7. \A l \in Launches : worker[l].pc = "ended" => child[l] # "alive"
  BY <1>2 DEF WorkerHolds
<1> QED
  BY <1>5, <1>6, <1>7 DEF Cockpit!OneChildIsOwned, Cockpit!Works

-----------------------------------------------------------------------------
(* ProcessLifecycle.                                                        *)

Threads ==
  [kind : {"server", "bus"}, got : Runners \union {NoRuntime}, bus : BOOLEAN,
   pc : {"idle", "store", "start", "serve", "leave", "close", "ended"}]
Compiled ==
  [pc : {"idle", "build", "compile", "instrument", "ready", "failed"},
   open : SUBSET Process!Resources, wanted : SUBSET Process!Resources]
Serving == {"serve", "leave", "close"}

ProcessTyped ==
  /\ enabled \subseteq Process!Parts
  /\ cached \in Runners \union {NoRuntime}
  /\ telemetry \in [Runners -> [Process!Parts -> {"new", "open", "closed"}]]
  /\ runner \in [Runners -> Threads]
  /\ graph \in [Graphs -> Compiled]
  /\ kept \in Seq(Graphs) /\ closing \in Seq(Graphs)
  /\ leaked \in BOOLEAN

\* Past the start all share the runtime that is cached; a bus is open while it serves.
ThreadHolds(r) ==
  /\ runner[r].pc = "store" => runner[r].got = r
  /\ runner[r].pc \in Serving \union {"start"} =>
       runner[r].got = cached /\ cached \in Runners
  /\ runner[r].bus => runner[r].pc \in {"serve", "leave"} /\ runner[r].kind = "bus"

\* What is open of the telemetry will be closed by a thread that serves.
TelemetryIsServed ==
  \A s \in Runners, p \in Process!Parts : telemetry[s][p] = "open" =>
    s = cached /\ p \in enabled /\ \E r \in Runners : runner[r].pc \in Serving

\* A graph holds open what it wanted, while it is built and once it is kept.
CompiledHolds(g) ==
  /\ graph[g].open \subseteq graph[g].wanted
  /\ graph[g].pc = "idle" => graph[g].open = {}
  /\ ~leaked /\ graph[g].open # {} =>
       Process!Building(g) \/ g \in Process!Range(kept) \/ g \in Process!Range(closing)

ProcessInv ==
  /\ ProcessTyped
  /\ ~leaked => TelemetryIsServed /\ \A r \in Runners : ThreadHolds(r)
  /\ \A g \in Graphs : CompiledHolds(g)

\* Nothing is open at first.
LEMMA ProcessInit == Init => ProcessInv
<1> SUFFICES ASSUME Init PROVE ProcessInv
  OBVIOUS
<1>1. /\ enabled \subseteq Process!Parts /\ cached = NoRuntime
      /\ telemetry = [r \in Runners |-> [p \in Process!Parts |-> "new"]]
      /\ \E kinds \in [Runners -> {"server", "bus"}] :
           runner = [r \in Runners |->
             [kind |-> kinds[r], got |-> NoRuntime, bus |-> FALSE, pc |-> "idle"]]
      /\ graph = [g \in Graphs |-> [pc |-> "idle", open |-> {}, wanted |-> {}]]
      /\ kept = << >> /\ closing = << >> /\ leaked = FALSE
  BY DEF Init, Process!ProcessInit
<1>2. ProcessTyped
  <2>1. PICK kinds \in [Runners -> {"server", "bus"}] :
          runner = [r \in Runners |->
            [kind |-> kinds[r], got |-> NoRuntime, bus |-> FALSE, pc |-> "idle"]]
    BY <1>1
  <2>2. \A r \in Runners :
          [kind |-> kinds[r], got |-> NoRuntime, bus |-> FALSE, pc |-> "idle"] \in Threads
    BY <2>1 DEF Threads
  <2>3. runner \in [Runners -> Threads]
    BY <2>1, <2>2
  <2>4. graph \in [Graphs -> Compiled]
    BY <1>1 DEF Compiled
  <2>5. telemetry \in [Runners -> [Process!Parts -> {"new", "open", "closed"}]]
    BY <1>1
  <2>6. kept \in Seq(Graphs) /\ closing \in Seq(Graphs)
    BY <1>1
  <2>7. cached \in Runners \union {NoRuntime} /\ leaked \in BOOLEAN
    BY <1>1
  <2> QED
    BY <1>1, <2>3, <2>4, <2>5, <2>6, <2>7 DEF ProcessTyped
<1>3. TelemetryIsServed
  BY <1>1 DEF TelemetryIsServed
<1>4. \A r \in Runners : ThreadHolds(r)
  BY <1>1 DEF ThreadHolds, Serving
<1>5. \A g \in Graphs : CompiledHolds(g)
  BY <1>1 DEF CompiledHolds
<1> QED
  BY <1>2, <1>3, <1>4, <1>5 DEF ProcessInv

-----------------------------------------------------------------------------
(* The threads.                                                             *)

\* A thread is all that changes, but for the telemetry and what is cached.
LEMMA ThreadKeeps ==
  ASSUME ProcessInv, NEW r \in Runners, NEW t \in Threads,
         runner' = [runner EXCEPT ![r] = t],
         UNCHANGED <<enabled, graph, kept, closing>>,
         cached' \in Runners \union {NoRuntime},
         telemetry' \in [Runners -> [Process!Parts -> {"new", "open", "closed"}]],
         leaked' \in BOOLEAN, leaked => leaked',
         ~leaked' => ThreadHolds(r)' /\ TelemetryIsServed',
         ~leaked' => \A s \in Runners :
           runner[s].pc \in Serving \union {"start"} => cached' = cached
  PROVE  ProcessInv'
<1>1. ProcessTyped'
  BY DEF ProcessInv, ProcessTyped
<1>2. ASSUME ~leaked', NEW s \in Runners
      PROVE  ThreadHolds(s)'
  <2>1. CASE s = r
    BY <1>2, <2>1
  <2>2. CASE s # r
    <3>1. runner'[s] = runner[s]
      BY <2>2 DEF ProcessInv, ProcessTyped
    <3>2. ~leaked
      BY <1>2
    <3>3. ThreadHolds(s)
      BY <3>2 DEF ProcessInv
    <3> QED
      BY <1>2, <3>1, <3>3 DEF ThreadHolds
  <2> QED
    BY <2>1, <2>2
<1>3. ASSUME NEW g \in Graphs
      PROVE  CompiledHolds(g)'
  BY DEF ProcessInv, CompiledHolds, Process!Building, Process!Range
<1> QED
  BY <1>1, <1>2, <1>3 DEF ProcessInv

\* The parts of the runtime that a thread opens.
LEMMA OpenedParts ==
  ASSUME ProcessInv, NEW r \in Runners, NEW parts \in SUBSET enabled,
         Process!Opened(r, parts)
  PROVE  /\ telemetry' \in [Runners -> [Process!Parts -> {"new", "open", "closed"}]]
         /\ \A s \in Runners, p \in Process!Parts :
              \/ telemetry'[s][p] = telemetry[s][p]
              \/ s = runner[r].got /\ p \in parts
<1>1. PICK o : o = [p \in Process!Parts |->
        IF p \in parts /\ telemetry[runner[r].got][p] = "new"
        THEN "open" ELSE telemetry[runner[r].got][p]]
  OBVIOUS
<1>2. telemetry' = [telemetry EXCEPT ![runner[r].got] = o]
  BY <1>1 DEF Process!Opened
<1>3. telemetry \in [Runners -> [Process!Parts -> {"new", "open", "closed"}]]
  BY DEF ProcessInv, ProcessTyped
<1>4. CASE runner[r].got \in Runners
  <2>1. o \in [Process!Parts -> {"new", "open", "closed"}]
    BY <1>1, <1>3, <1>4
  <2>2. \A p \in Process!Parts : o[p] = telemetry[runner[r].got][p] \/ p \in parts
    BY <1>1
  <2> QED
    BY <1>2, <1>3, <1>4, <2>1, <2>2
<1>5. CASE runner[r].got \notin Runners
  <2>1. telemetry' = telemetry
    BY <1>2, <1>3, <1>5
  <2> QED
    BY <1>3, <2>1
<1> QED
  BY <1>4, <1>5

\* Nothing of the threads, the telemetry and the cache changes for the others.
LEMMA FetchKeeps ==
  ASSUME ProcessInv, NEW r \in Runners, Process!Fetch(r)
  PROVE  ProcessInv'
<1>1. runner[r].pc = "idle"
  BY DEF Process!Fetch, Process!Runs
<1>2. PICK pc : pc = IF cached = NoRuntime THEN "store" ELSE "start"
  OBVIOUS
<1>a. PICK got : got = IF cached = NoRuntime THEN r ELSE cached
  OBVIOUS
<1>3. runner \in [Runners -> Threads] /\ cached \in Runners \union {NoRuntime}
  BY DEF ProcessInv, ProcessTyped
<1>4. PICK u : u = [runner[r] EXCEPT !.pc = pc, !.got = got]
  OBVIOUS
<1>c. PICK u1 : u1 = [runner[r] EXCEPT !.pc = pc]
  OBVIOUS
<1>d. u1 = [kind |-> runner[r].kind, got |-> runner[r].got, bus |-> runner[r].bus, pc |-> pc]
  BY <1>3, <1>c DEF Threads
<1>e. u = [u1 EXCEPT !.got = got]
  BY <1>c, <1>4
<1>5. PICK t : t = [kind |-> runner[r].kind, got |-> got, bus |-> runner[r].bus, pc |-> pc]
  OBVIOUS
<1>b. u = t
  BY <1>d, <1>e, <1>5
<1>6. runner' = [runner EXCEPT ![r] = u]
  BY <1>2, <1>a, <1>3, <1>4 DEF Process!Fetch, Threads
<1>7. /\ t \in Threads /\ t.bus = runner[r].bus
      /\ t.pc = "start" => t.got = cached /\ cached \in Runners
      /\ t.pc \in {"start", "store"} /\ (t.pc = "store" => t.got = r)
  BY <1>2, <1>a, <1>3, <1>5 DEF Threads
<1>8. /\ UNCHANGED <<enabled, graph, kept, closing>> /\ cached' = cached
      /\ telemetry' = telemetry /\ leaked' = leaked
  BY DEF Process!Fetch, Process!graphVars
<1>9. runner' = [runner EXCEPT ![r] = t]
  BY <1>b, <1>6
<1>10. runner'[r] = t /\ \A s \in Runners : s # r => runner'[s] = runner[s]
  BY <1>3, <1>9
<1>11. ASSUME ~leaked'
       PROVE  ThreadHolds(r)' /\ TelemetryIsServed'
  <2>1. ThreadHolds(r) /\ TelemetryIsServed
    BY <1>8, <1>11 DEF ProcessInv
  <2>2. ThreadHolds(r)'
    BY <1>1, <1>7, <1>8, <1>10, <2>1 DEF ThreadHolds, Serving
  <2>3. TelemetryIsServed'
    BY <1>1, <1>8, <1>10, <2>1 DEF TelemetryIsServed, Serving
  <2> QED
    BY <2>2, <2>3
<1> QED
  BY <1>3, <1>7, <1>8, <1>9, <1>11, ThreadKeeps DEF ProcessInv, ProcessTyped

\* A thread goes to another place, and keeps the rest.
LEMMA ThreadGoes ==
  ASSUME ProcessInv, NEW r \in Runners,
         NEW pc \in {"idle", "store", "start", "serve", "leave", "close", "ended"},
         Process!Goto(r, pc)
  PROVE  \E t \in Threads :
           /\ runner' = [runner EXCEPT ![r] = t]
           /\ t.pc = pc /\ t.got = runner[r].got /\ t.bus = runner[r].bus
           /\ t.kind = runner[r].kind
<1>1. runner \in [Runners -> Threads]
  BY DEF ProcessInv, ProcessTyped
<1>2. PICK t : t = [runner[r] EXCEPT !.pc = pc]
  OBVIOUS
<1>3. t = [kind |-> runner[r].kind, got |-> runner[r].got, bus |-> runner[r].bus,
           pc |-> pc]
  BY <1>1, <1>2 DEF Threads
<1>4. runner' = [runner EXCEPT ![r] = t]
  BY <1>2 DEF Process!Goto
<1>5. t \in Threads
  BY <1>1, <1>3 DEF Threads
<1>6. t.pc = pc /\ t.got = runner[r].got /\ t.bus = runner[r].bus /\ t.kind = runner[r].kind
  BY <1>3
<1> QED
  BY <1>4, <1>5, <1>6

\* Its runtime becomes the one that is cached: the only one, unless one is lost.
LEMMA StoreRuntimeKeeps ==
  ASSUME ProcessInv, NEW r \in Runners, Process!Store(r)
  PROVE  ProcessInv'
<1>1. /\ runner[r].pc = "store" /\ leaked' = (leaked \/ cached # NoRuntime)
      /\ cached' = r /\ Process!Goto(r, "start")
      /\ UNCHANGED <<enabled, graph, kept, closing>> /\ telemetry' = telemetry
  BY DEF Process!Store, Process!Runs, Process!graphVars
<1>2. PICK t \in Threads :
        /\ runner' = [runner EXCEPT ![r] = t]
        /\ t.pc = "start" /\ t.got = runner[r].got /\ t.bus = runner[r].bus
  BY <1>1, ThreadGoes
<1>3. /\ ProcessTyped /\ NoRuntime \notin Runners
      /\ ~leaked => TelemetryIsServed /\ \A s \in Runners : ThreadHolds(s)
  BY ApplicationAssumption DEF ProcessInv, Process!ProcessAssumption
<1>4. runner'[r] = t /\ \A s \in Runners : s # r => runner'[s] = runner[s]
  BY <1>2, <1>3 DEF ProcessTyped
<1>5. ASSUME ~leaked'
      PROVE  /\ ThreadHolds(r)' /\ TelemetryIsServed'
             /\ \A s \in Runners :
                  runner[s].pc \in Serving \union {"start"} => cached' = cached
  <2>1. ~leaked /\ cached = NoRuntime
    BY <1>1, <1>5, <1>3 DEF ProcessTyped
  <2>2. \A s \in Runners : runner[s].pc \notin Serving \union {"start"}
    BY <1>3, <2>1 DEF ThreadHolds
  <2>3. \A s \in Runners, p \in Process!Parts : telemetry[s][p] # "open"
    BY <1>3, <2>1 DEF TelemetryIsServed
  <2>4. TelemetryIsServed'
    BY <1>1, <2>3 DEF TelemetryIsServed
  <2>5. ThreadHolds(r)
    BY <1>3, <2>1
  <2>6. ThreadHolds(r)'
    BY <1>1, <1>2, <1>4, <2>5 DEF ThreadHolds, Serving
  <2> QED
    BY <2>2, <2>4, <2>6
<1>6. leaked' \in BOOLEAN /\ (leaked => leaked')
  BY <1>1, <1>3 DEF ProcessTyped
<1> QED
  BY <1>1, <1>2, <1>3, <1>5, <1>6, ThreadKeeps DEF ProcessTyped

\* The thread serves what it opens.
LEMMA StartKeeps ==
  ASSUME ProcessInv, NEW r \in Runners, Process!Start(r)
  PROVE  ProcessInv'
<1>1. /\ runner[r].pc = "start" /\ Process!Opened(r, enabled) /\ Process!Goto(r, "serve")
      /\ UNCHANGED <<enabled, graph, kept, closing>> /\ cached' = cached /\ leaked' = leaked
  BY DEF Process!Start, Process!Runs, Process!graphVars
<1>2. PICK t \in Threads :
        /\ runner' = [runner EXCEPT ![r] = t]
        /\ t.pc = "serve" /\ t.got = runner[r].got /\ t.bus = runner[r].bus
  BY <1>1, ThreadGoes
<1>3. /\ ProcessTyped
      /\ ~leaked => TelemetryIsServed /\ \A s \in Runners : ThreadHolds(s)
  BY DEF ProcessInv
<1>4. runner'[r] = t /\ \A s \in Runners : s # r => runner'[s] = runner[s]
  BY <1>2, <1>3 DEF ProcessTyped
<1>5. /\ telemetry' \in [Runners -> [Process!Parts -> {"new", "open", "closed"}]]
      /\ \A s \in Runners, p \in Process!Parts :
           \/ telemetry'[s][p] = telemetry[s][p]
           \/ s = runner[r].got /\ p \in enabled
  BY <1>1, OpenedParts
<1>6. ASSUME ~leaked'
      PROVE  ThreadHolds(r)' /\ TelemetryIsServed'
  <2>1. ThreadHolds(r) /\ TelemetryIsServed
    BY <1>1, <1>3, <1>6
  <2>2. ThreadHolds(r)'
    BY <1>1, <1>2, <1>4, <2>1 DEF ThreadHolds, Serving
  <2>3. runner[r].got = cached
    BY <1>1, <2>1 DEF ThreadHolds
  <2>4. \A s \in Runners, p \in Process!Parts :
          telemetry'[s][p] = "open" => s = cached /\ p \in enabled
    BY <1>5, <2>1, <2>3 DEF TelemetryIsServed
  <2>5. runner'[r].pc \in Serving
    BY <1>2, <1>4 DEF Serving
  <2> QED
    BY <1>1, <2>2, <2>4, <2>5 DEF TelemetryIsServed
<1> QED
  BY <1>1, <1>2, <1>3, <1>5, <1>6, ThreadKeeps DEF ProcessTyped

\* A start that is refused opens nothing, or what it opened is lost.
LEMMA StartRefusedKeeps ==
  ASSUME ProcessInv, NEW r \in Runners, Process!StartRefused(r)
  PROVE  ProcessInv'
<1>1. /\ runner[r].pc = "start" /\ Process!Goto(r, "ended")
      /\ UNCHANGED <<enabled, graph, kept, closing>> /\ cached' = cached
  BY DEF Process!StartRefused, Process!Runs, Process!graphVars
<1>2. PICK t \in Threads :
        /\ runner' = [runner EXCEPT ![r] = t]
        /\ t.pc = "ended" /\ t.got = runner[r].got /\ t.bus = runner[r].bus
  BY <1>1, ThreadGoes
<1>3. /\ ProcessTyped
      /\ ~leaked => TelemetryIsServed /\ \A s \in Runners : ThreadHolds(s)
  BY DEF ProcessInv
<1>4. runner'[r] = t /\ \A s \in Runners : s # r => runner'[s] = runner[s]
  BY <1>2, <1>3 DEF ProcessTyped
<1>5. /\ telemetry' \in [Runners -> [Process!Parts -> {"new", "open", "closed"}]]
      /\ leaked' \in BOOLEAN /\ (leaked => leaked')
      /\ ~leaked' => \A s \in Runners, p \in Process!Parts :
                       telemetry'[s][p] = telemetry[s][p]
  <2>1. CASE telemetry' = telemetry /\ leaked' = leaked
    BY <1>3, <2>1 DEF ProcessTyped
  <2>2. ASSUME NEW done \in {{}, enabled \ {"langsmith"}},
               Process!Opened(r, done), leaked' = (leaked \/ done # {})
        PROVE  /\ telemetry' \in [Runners -> [Process!Parts -> {"new", "open", "closed"}]]
               /\ leaked' \in BOOLEAN /\ (leaked => leaked')
               /\ ~leaked' => \A s \in Runners, p \in Process!Parts :
                                telemetry'[s][p] = telemetry[s][p]
    <3>1. done \in SUBSET enabled
      OBVIOUS
    <3>2. /\ telemetry' \in [Runners -> [Process!Parts -> {"new", "open", "closed"}]]
          /\ \A s \in Runners, p \in Process!Parts :
               \/ telemetry'[s][p] = telemetry[s][p]
               \/ s = runner[r].got /\ p \in done
      BY <2>2, <3>1, OpenedParts
    <3>3. leaked' \in BOOLEAN /\ (leaked => leaked') /\ (~leaked' => done = {})
      BY <1>3, <2>2 DEF ProcessTyped
    <3> QED
      BY <3>2, <3>3
  <2> QED
    BY <2>1, <2>2 DEF Process!StartRefused
<1>6. ASSUME ~leaked'
      PROVE  ThreadHolds(r)' /\ TelemetryIsServed'
  <2>1. ThreadHolds(r) /\ TelemetryIsServed
    BY <1>3, <1>5, <1>6
  <2>2. ThreadHolds(r)'
    BY <1>1, <1>2, <1>4, <2>1 DEF ThreadHolds, Serving
  <2>3. \A s \in Runners : runner[s].pc \in Serving => runner'[s].pc \in Serving
    BY <1>1, <1>4 DEF Serving
  <2> QED
    BY <1>1, <1>5, <1>6, <2>1, <2>2, <2>3 DEF TelemetryIsServed
<1> QED
  BY <1>1, <1>2, <1>3, <1>5, <1>6, ThreadKeeps DEF ProcessTyped

\* A worker of the bus has connected.
LEMMA ConnectKeeps ==
  ASSUME ProcessInv, NEW r \in Runners, Process!Connect(r)
  PROVE  ProcessInv'
<1>1. /\ runner[r].pc = "serve" /\ runner[r].kind = "bus"
      /\ UNCHANGED <<enabled, graph, kept, closing>> /\ cached' = cached
      /\ telemetry' = telemetry /\ leaked' = leaked
  BY DEF Process!Connect, Process!Runs, Process!graphVars
<1>2. /\ ProcessTyped
      /\ ~leaked => TelemetryIsServed /\ \A s \in Runners : ThreadHolds(s)
  BY DEF ProcessInv
<1>3. PICK t : t = [runner[r] EXCEPT !.bus = TRUE]
  OBVIOUS
<1>4. t = [kind |-> runner[r].kind, got |-> runner[r].got, bus |-> TRUE,
           pc |-> runner[r].pc]
  BY <1>2, <1>3 DEF ProcessTyped, Threads
<1>5. /\ t \in Threads /\ t.pc = "serve" /\ t.kind = "bus" /\ t.got = runner[r].got
  BY <1>1, <1>2, <1>4 DEF ProcessTyped, Threads
<1>6. runner' = [runner EXCEPT ![r] = t]
  BY <1>3 DEF Process!Connect
<1>7. runner'[r] = t /\ \A s \in Runners : s # r => runner'[s] = runner[s]
  BY <1>2, <1>6 DEF ProcessTyped
<1>8. ASSUME ~leaked'
      PROVE  ThreadHolds(r)' /\ TelemetryIsServed'
  <2>1. ThreadHolds(r) /\ TelemetryIsServed
    BY <1>1, <1>2, <1>8
  <2>2. ThreadHolds(r)'
    BY <1>1, <1>5, <1>7, <2>1 DEF ThreadHolds, Serving
  <2>3. TelemetryIsServed'
    BY <1>1, <1>5, <1>7, <2>1 DEF TelemetryIsServed, Serving
  <2> QED
    BY <2>2, <2>3
<1> QED
  BY <1>1, <1>2, <1>5, <1>6, <1>8, ThreadKeeps DEF ProcessTyped

\* The finally of a thread comes to the bus first, if it has one.
LEMMA LeaveServingKeeps ==
  ASSUME ProcessInv, NEW r \in Runners, Process!Leave(r)
  PROVE  ProcessInv'
<1>1. PICK pc : pc = IF runner[r].kind = "bus" THEN "leave" ELSE "close"
  OBVIOUS
<1>2. /\ runner[r].pc = "serve" /\ Process!Goto(r, pc)
      /\ UNCHANGED <<enabled, graph, kept, closing>> /\ cached' = cached
      /\ telemetry' = telemetry /\ leaked' = leaked
  BY <1>1 DEF Process!Leave, Process!Runs, Process!graphVars
<1>3. pc \in {"leave", "close"} /\ (runner[r].kind = "bus" => pc = "leave")
  BY <1>1
<1>4. PICK t \in Threads :
        /\ runner' = [runner EXCEPT ![r] = t]
        /\ t.pc = pc /\ t.got = runner[r].got /\ t.bus = runner[r].bus
        /\ t.kind = runner[r].kind
  BY <1>2, <1>3, ThreadGoes
<1>5. /\ ProcessTyped
      /\ ~leaked => TelemetryIsServed /\ \A s \in Runners : ThreadHolds(s)
  BY DEF ProcessInv
<1>6. runner'[r] = t /\ \A s \in Runners : s # r => runner'[s] = runner[s]
  BY <1>4, <1>5 DEF ProcessTyped
<1>7. ASSUME ~leaked'
      PROVE  ThreadHolds(r)' /\ TelemetryIsServed'
  <2>1. ThreadHolds(r) /\ TelemetryIsServed
    BY <1>2, <1>5, <1>7
  <2>2. ThreadHolds(r)'
    BY <1>2, <1>3, <1>4, <1>6, <2>1 DEF ThreadHolds, Serving
  <2>3. TelemetryIsServed'
    BY <1>2, <1>3, <1>4, <1>6, <2>1 DEF TelemetryIsServed, Serving
  <2> QED
    BY <2>2, <2>3
<1> QED
  BY <1>2, <1>4, <1>5, <1>7, ThreadKeeps DEF ProcessTyped

\* The bus is closed, or its error is the last thing that happens to the thread.
LEMMA CloseBusKeeps ==
  ASSUME ProcessInv, NEW r \in Runners, Process!CloseBus(r)
  PROVE  ProcessInv'
<1>1. /\ runner[r].pc = "leave"
      /\ UNCHANGED <<enabled, graph, kept, closing>> /\ cached' = cached
      /\ telemetry' = telemetry
  BY DEF Process!CloseBus, Process!Runs, Process!graphVars
<1>2. /\ ProcessTyped
      /\ ~leaked => TelemetryIsServed /\ \A s \in Runners : ThreadHolds(s)
  BY DEF ProcessInv
<1>3. ASSUME leaked', Process!Goto(r, "ended")
      PROVE  ProcessInv'
  <2>1. PICK t \in Threads : runner' = [runner EXCEPT ![r] = t]
    BY <1>3, ThreadGoes
  <2>3. leaked' \in BOOLEAN
    BY DEF Process!CloseBus, ProcessInv, ProcessTyped
  <2> QED
    BY <1>1, <1>2, <1>3, <2>1, <2>3, ThreadKeeps DEF ProcessTyped
<1>4. ASSUME runner' = [runner EXCEPT ![r].pc = "close", ![r].bus = FALSE],
             leaked' = leaked
      PROVE  ProcessInv'
  <2>1. PICK u : u = [runner[r] EXCEPT !.pc = "close"]
    OBVIOUS
  <2>2. u = [kind |-> runner[r].kind, got |-> runner[r].got, bus |-> runner[r].bus,
             pc |-> "close"]
    BY <1>2, <2>1 DEF ProcessTyped, Threads
  <2>3. PICK t : t = [u EXCEPT !.bus = FALSE]
    OBVIOUS
  <2>4. t = [kind |-> runner[r].kind, got |-> runner[r].got, bus |-> FALSE, pc |-> "close"]
    BY <2>2, <2>3
  <2>5. t \in Threads /\ t.pc = "close" /\ t.got = runner[r].got /\ t.bus = FALSE
    BY <1>2, <2>4 DEF ProcessTyped, Threads
  <2>6. runner' = [runner EXCEPT ![r] = t]
    BY <1>2, <1>4, <2>1, <2>3 DEF ProcessTyped, Threads
  <2>7. runner'[r] = t /\ \A s \in Runners : s # r => runner'[s] = runner[s]
    BY <1>2, <2>6 DEF ProcessTyped
  <2>8. ASSUME ~leaked'
        PROVE  ThreadHolds(r)' /\ TelemetryIsServed'
    <3>1. ThreadHolds(r) /\ TelemetryIsServed
      BY <1>2, <1>4, <2>8
    <3>2. ThreadHolds(r)'
      BY <1>1, <2>5, <2>7, <3>1 DEF ThreadHolds, Serving
    <3>3. TelemetryIsServed'
      BY <1>1, <2>5, <2>7, <3>1 DEF TelemetryIsServed, Serving
    <3> QED
      BY <3>2, <3>3
  <2> QED
    BY <1>1, <1>2, <1>4, <2>5, <2>6, <2>8, ThreadKeeps DEF ProcessTyped
<1> QED
  BY <1>3, <1>4 DEF Process!CloseBus

\* What every thread has opened is closed.
LEMMA CloseTelemetryKeeps ==
  ASSUME ProcessInv, NEW r \in Runners, Process!CloseTelemetry(r)
  PROVE  ProcessInv'
<1>1. /\ runner[r].pc = "close" /\ Process!Goto(r, "ended")
      /\ UNCHANGED <<enabled, graph, kept, closing>> /\ cached' = cached
      /\ leaked' = leaked
  BY DEF Process!CloseTelemetry, Process!Runs, Process!graphVars
<1>2. PICK t \in Threads :
        /\ runner' = [runner EXCEPT ![r] = t]
        /\ t.pc = "ended" /\ t.got = runner[r].got /\ t.bus = runner[r].bus
  BY <1>1, ThreadGoes
<1>3. /\ ProcessTyped
      /\ ~leaked => TelemetryIsServed /\ \A s \in Runners : ThreadHolds(s)
  BY DEF ProcessInv
<1>4. runner'[r] = t /\ \A s \in Runners : s # r => runner'[s] = runner[s]
  BY <1>2, <1>3 DEF ProcessTyped
<1>5. PICK o : o = [p \in Process!Parts |->
        IF p = "langsmith" /\ telemetry[cached][p] = "new" THEN telemetry[cached][p]
        ELSE IF p \in enabled THEN "closed" ELSE telemetry[cached][p]]
  OBVIOUS
<1>6. telemetry' = [telemetry EXCEPT ![cached] = o]
  BY <1>5 DEF Process!CloseTelemetry
<1>7. /\ telemetry' \in [Runners -> [Process!Parts -> {"new", "open", "closed"}]]
      /\ \A s \in Runners : s # cached => telemetry'[s] = telemetry[s]
      /\ cached \in Runners => telemetry'[cached] = o
  <2>1. CASE cached \in Runners
    <3>1. o \in [Process!Parts -> {"new", "open", "closed"}]
      BY <1>3, <1>5, <2>1 DEF ProcessTyped
    <3> QED
      BY <1>3, <1>6, <3>1 DEF ProcessTyped
  <2>2. CASE cached \notin Runners
    BY <1>3, <1>6, <2>2 DEF ProcessTyped
  <2> QED
    BY <2>1, <2>2
<1>8. ASSUME ~leaked'
      PROVE  ThreadHolds(r)' /\ TelemetryIsServed'
  <2>1. ThreadHolds(r) /\ TelemetryIsServed
    BY <1>1, <1>3, <1>8
  <2>2. ThreadHolds(r)'
    BY <1>1, <1>2, <1>4, <2>1 DEF ThreadHolds, Serving
  <2>3. \A p \in Process!Parts : telemetry[cached][p] = "open" /\ cached \in Runners
                                   => p \in enabled
    BY <2>1 DEF TelemetryIsServed
  <2>4. \A s \in Runners, p \in Process!Parts : telemetry'[s][p] # "open"
    <3> SUFFICES ASSUME NEW s \in Runners, NEW p \in Process!Parts,
                        telemetry'[s][p] = "open"
                 PROVE  FALSE
      OBVIOUS
    <3>1. CASE s = cached
      BY <1>5, <1>7, <2>3, <3>1
    <3>2. CASE s # cached
      BY <1>7, <2>1, <3>2 DEF TelemetryIsServed
    <3> QED
      BY <3>1, <3>2
  <2> QED
    BY <2>2, <2>4 DEF TelemetryIsServed
<1> QED
  BY <1>1, <1>2, <1>3, <1>7, <1>8, ThreadKeeps DEF ProcessTyped

-----------------------------------------------------------------------------
(* Graphs.                                                                  *)

\* One graph changes, and the others are still kept or being closed if they were.
LEMMA GraphKeeps ==
  ASSUME ProcessInv, NEW g \in Graphs, NEW c \in Compiled,
         graph' = [graph EXCEPT ![g] = c],
         UNCHANGED <<enabled, cached, telemetry, runner>>,
         kept' \in Seq(Graphs), closing' \in Seq(Graphs),
         leaked' \in BOOLEAN, leaked => leaked',
         ~leaked' => \A h \in Graphs :
           h # g /\ h \in Process!Range(kept) \union Process!Range(closing) =>
             h \in Process!Range(kept') \union Process!Range(closing'),
         CompiledHolds(g)'
  PROVE  ProcessInv'
<1>1. ProcessTyped /\ \A h \in Graphs : CompiledHolds(h)
  BY DEF ProcessInv
<1>2. ProcessTyped'
  BY <1>1 DEF ProcessTyped
<1>3. ~leaked' => TelemetryIsServed' /\ \A r \in Runners : ThreadHolds(r)'
  BY DEF ProcessInv, TelemetryIsServed, ThreadHolds
<1>4. ASSUME NEW h \in Graphs
      PROVE  CompiledHolds(h)'
  <2>1. CASE h = g
    BY <2>1
  <2>2. CASE h # g
    <3>1. graph'[h] = graph[h]
      BY <1>1, <2>2 DEF ProcessTyped
    <3>2. Process!Building(h)' <=> Process!Building(h)
      BY <3>1 DEF Process!Building
    <3>3. CompiledHolds(h)
      BY <1>1
    <3>4. ~leaked' /\ graph[h].open # {} =>
            Process!Building(h) \/ h \in Process!Range(kept) \union Process!Range(closing)
      BY <3>3 DEF CompiledHolds
    <3>5. ~leaked' /\ graph'[h].open # {} =>
            Process!Building(h)' \/ h \in Process!Range(kept')
            \/ h \in Process!Range(closing')
      BY <2>2, <3>1, <3>2, <3>4
    <3>6. Process!Range(kept') = Process!Range(kept)'
          /\ Process!Range(closing') = Process!Range(closing)'
      BY DEF Process!Range
    <3> QED
      BY <3>1, <3>3, <3>5, <3>6 DEF CompiledHolds
  <2> QED
    BY <2>1, <2>2
<1> QED
  BY <1>2, <1>3, <1>4 DEF ProcessInv

\* A step of a graph keeps ProcessInv.
LEMMA GraphStepKeeps ==
  ASSUME ProcessInv, NEW g \in Graphs, Process!GraphStep(g)
  PROVE  ProcessInv'
<1>1. /\ ProcessTyped /\ graph \in [Graphs -> Compiled] /\ graph[g] \in Compiled
      /\ CompiledHolds(g) /\ leaked \in BOOLEAN
      /\ kept \in Seq(Graphs) /\ closing \in Seq(Graphs)
  BY DEF ProcessInv, ProcessTyped
<1>2. ASSUME NEW c \in Compiled, graph' = [graph EXCEPT ![g] = c],
             UNCHANGED <<enabled, cached, telemetry, runner, kept, closing>>,
             leaked' \in BOOLEAN, leaked => leaked',
             c.open \subseteq c.wanted, c.pc = "idle" => c.open = {},
             ~leaked' /\ c.open # {} => c.pc \in {"build", "compile", "instrument"}
                                        \/ (c.pc = graph[g].pc /\ c.open = graph[g].open)
      PROVE  ProcessInv'
  <2>1. graph'[g] = c
    BY <1>1, <1>2
  <2>2. CompiledHolds(g)'
    BY <1>1, <1>2, <2>1 DEF CompiledHolds, Process!Building, Process!Range
  <2> QED
    BY <1>1, <1>2, <2>2, GraphKeeps
<1>3. CASE Process!Compose(g)
  <2>1. PICK wanted \in SUBSET Process!Resources :
          graph' = [graph EXCEPT ![g].pc = "build", ![g].wanted = wanted]
    BY <1>3 DEF Process!Compose
  <2>2. PICK d : d = [graph[g] EXCEPT !.pc = "build"]
    OBVIOUS
  <2>3. d = [pc |-> "build", open |-> graph[g].open, wanted |-> graph[g].wanted]
    BY <1>1, <2>2 DEF Compiled
  <2>4. PICK c : c = [d EXCEPT !.wanted = wanted]
    OBVIOUS
  <2>5. c = [pc |-> "build", open |-> graph[g].open, wanted |-> wanted]
    BY <2>3, <2>4
  <2>6. graph' = [graph EXCEPT ![g] = c]
    BY <1>1, <2>1, <2>2, <2>4
  <2>7. graph[g].open = {}
    BY <1>1, <1>3 DEF Process!Compose, CompiledHolds
  <2>8. c \in Compiled /\ c.open = {} /\ c.pc = "build"
    BY <1>1, <2>5, <2>7 DEF Compiled
  <2>9. UNCHANGED <<enabled, cached, telemetry, runner, kept, closing>> /\ leaked' = leaked
    BY <1>3 DEF Process!Compose, Process!runnerVars
  <2> QED
    BY <1>1, <1>2, <2>6, <2>8, <2>9
<1>4. CASE Process!Enter(g)
  <2>1. /\ UNCHANGED <<enabled, cached, telemetry, runner, kept, closing>>
        /\ leaked' = leaked /\ graph[g].pc = "build"
    BY <1>4 DEF Process!Enter, Process!runnerVars
  <2>2. CASE graph[g].open = graph[g].wanted
    <3>1. PICK c : c = [graph[g] EXCEPT !.pc = "compile"]
      OBVIOUS
    <3>2. graph' = [graph EXCEPT ![g] = c]
      BY <1>4, <2>2, <3>1 DEF Process!Enter
    <3>3. c \in Compiled /\ c.pc = "compile" /\ c.open = graph[g].open
          /\ c.wanted = graph[g].wanted
      <4>1. c = [pc |-> "compile", open |-> graph[g].open, wanted |-> graph[g].wanted]
        BY <1>1, <3>1 DEF Compiled
      <4> QED
        BY <1>1, <3>1, <4>1 DEF Compiled
    <3> QED
      BY <1>1, <1>2, <2>1, <3>2, <3>3 DEF CompiledHolds
  <2>3. CASE graph[g].open # graph[g].wanted
    <3>1. PICK opened : opened = graph[g].open \union {Process!NextResource(g)}
      OBVIOUS
    <3>2. PICK c : c = [graph[g] EXCEPT !.open = opened]
      OBVIOUS
    <3>3. graph' = [graph EXCEPT ![g] = c]
      BY <1>4, <2>3, <3>1, <3>2 DEF Process!Enter
    <3>4. Process!NextResource(g) \in graph[g].wanted
      <4>1. graph[g].wanted \ graph[g].open # {}
        BY <1>1, <2>3 DEF CompiledHolds
      <4>2. \E p \in graph[g].wanted \ graph[g].open :
              "checkpointer" \in graph[g].wanted \ graph[g].open => p = "checkpointer"
        BY <4>1
      <4> QED
        BY <4>2 DEF Process!NextResource
    <3>5. opened \subseteq graph[g].wanted /\ opened \in SUBSET Process!Resources
      BY <1>1, <3>1, <3>4 DEF CompiledHolds, Compiled
    <3>6. c \in Compiled /\ c.pc = "build" /\ c.open = opened /\ c.wanted = graph[g].wanted
      <4>1. c = [pc |-> "build", open |-> opened, wanted |-> graph[g].wanted]
        BY <1>1, <2>1, <3>2, <3>5 DEF Compiled
      <4> QED
        BY <1>1, <2>1, <3>2, <3>5, <4>1 DEF Compiled
    <3> QED
      BY <1>1, <1>2, <2>1, <3>3, <3>5, <3>6
  <2> QED
    BY <2>2, <2>3
<1>5. CASE Process!BuildFails(g)
  <2>1. PICK d : d = [graph[g] EXCEPT !.pc = "failed"]
    OBVIOUS
  <2>2. PICK c : c = [d EXCEPT !.open = {}]
    OBVIOUS
  <2>3. graph' = [graph EXCEPT ![g] = c]
    BY <1>1, <1>5, <2>1, <2>2 DEF Process!BuildFails
  <2>4. d = [pc |-> "failed", open |-> graph[g].open, wanted |-> graph[g].wanted]
    BY <1>1, <2>1 DEF Compiled
  <2>5. c \in Compiled /\ c.pc = "failed" /\ c.open = {}
    <3>1. c = [pc |-> "failed", open |-> {}, wanted |-> graph[g].wanted]
      BY <2>2, <2>4
    <3> QED
      BY <1>1, <3>1 DEF Compiled
  <2>6. UNCHANGED <<enabled, cached, telemetry, runner, kept, closing>> /\ leaked' = leaked
    BY <1>5 DEF Process!BuildFails, Process!runnerVars
  <2> QED
    BY <1>1, <1>2, <2>3, <2>5, <2>6
<1>6. CASE Process!Compile(g)
  <2>1. PICK c : c = [graph[g] EXCEPT !.pc = "instrument"]
    OBVIOUS
  <2>2. graph' = [graph EXCEPT ![g] = c]
    BY <1>6, <2>1 DEF Process!Compile, Process!Step
  <2>3. c \in Compiled /\ c.pc = "instrument" /\ c.open = graph[g].open
        /\ c.wanted = graph[g].wanted
    <3>1. c = [pc |-> "instrument", open |-> graph[g].open, wanted |-> graph[g].wanted]
      BY <1>1, <2>1 DEF Compiled
    <3> QED
      BY <1>1, <2>1, <3>1 DEF Compiled
  <2>4. UNCHANGED <<enabled, cached, telemetry, runner, kept, closing>> /\ leaked' = leaked
    BY <1>6 DEF Process!Compile, Process!runnerVars
  <2> QED
    BY <1>1, <1>2, <2>2, <2>3, <2>4 DEF CompiledHolds
<1>7. CASE Process!Remember(g)
  <2>1. PICK c : c = [graph[g] EXCEPT !.pc = "ready"]
    OBVIOUS
  <2>2. /\ graph' = [graph EXCEPT ![g] = c] /\ leaked' = leaked /\ closing' = closing
        /\ UNCHANGED <<enabled, cached, telemetry, runner>>
    BY <1>7, <2>1 DEF Process!Remember, Process!Step, Process!runnerVars
  <2>3. c \in Compiled /\ c.pc = "ready" /\ c.open = graph[g].open
        /\ c.wanted = graph[g].wanted
    <3>1. c = [pc |-> "ready", open |-> graph[g].open, wanted |-> graph[g].wanted]
      BY <1>1, <2>1 DEF Compiled
    <3> QED
      BY <1>1, <2>1, <3>1 DEF Compiled
  <2>4. graph'[g] = c
    BY <1>1, <2>2
  <2>5. CASE graph[g].wanted = {}
    <3>1. kept' = kept /\ c.open = {}
      BY <1>1, <1>7, <2>3, <2>5 DEF Process!Remember, CompiledHolds
    <3> QED
      BY <1>1, <1>2, <2>2, <2>3, <3>1
  <2>6. CASE graph[g].wanted # {}
    <3>1. kept' = Append(kept, g)
      BY <1>7, <2>6 DEF Process!Remember
    <3>2. kept' \in Seq(Graphs)
      BY <1>1, <3>1
    <3>3. g \in Process!Range(kept')
      <4>1. kept'[Len(kept) + 1] = g /\ Len(kept) + 1 \in DOMAIN kept'
        BY <1>1, <3>1
      <4> QED
        BY <4>1 DEF Process!Range
    <3>4. Process!Range(kept) \subseteq Process!Range(kept')
      <4>1. \A i \in DOMAIN kept : i \in DOMAIN kept' /\ kept'[i] = kept[i]
        BY <1>1, <3>1
      <4> QED
        BY <4>1 DEF Process!Range
    <3>5. CompiledHolds(g)'
      <4>1. Process!Range(kept') = Process!Range(kept)'
        BY DEF Process!Range
      <4> QED
        BY <1>1, <2>3, <2>4, <3>3, <4>1 DEF CompiledHolds
    <3>6. Process!Range(closing') = Process!Range(closing)
      BY <2>2 DEF Process!Range
    <3> QED
      BY <1>1, <2>2, <2>3, <3>2, <3>4, <3>5, <3>6, GraphKeeps
  <2> QED
    BY <2>5, <2>6
<1>8. CASE Process!InstrumentFails(g)
  <2>1. PICK c : c = [graph[g] EXCEPT !.pc = "failed"]
    OBVIOUS
  <2>2. /\ graph' = [graph EXCEPT ![g] = c]
        /\ leaked' = (leaked \/ graph[g].open # {})
        /\ UNCHANGED <<enabled, cached, telemetry, runner, kept, closing>>
    BY <1>8, <2>1 DEF Process!InstrumentFails, Process!Step, Process!runnerVars
  <2>3. c \in Compiled /\ c.pc = "failed" /\ c.open = graph[g].open
        /\ c.wanted = graph[g].wanted
    <3>1. c = [pc |-> "failed", open |-> graph[g].open, wanted |-> graph[g].wanted]
      BY <1>1, <2>1 DEF Compiled
    <3> QED
      BY <1>1, <2>1, <3>1 DEF Compiled
  <2>4. leaked' \in BOOLEAN /\ (leaked => leaked') /\ (~leaked' => c.open = {})
    BY <1>1, <2>2, <2>3
  <2> QED
    BY <1>1, <1>2, <2>2, <2>3, <2>4 DEF CompiledHolds
<1> QED
  BY <1>3, <1>4, <1>5, <1>6, <1>7, <1>8 DEF Process!GraphStep

\* What was kept is about to be closed.
LEMMA PopKeeps ==
  ASSUME ProcessInv, Process!PopKept
  PROVE  ProcessInv'
<1>1. /\ closing = << >> /\ closing' = Process!Reverse(kept) /\ kept' = << >>
      /\ UNCHANGED <<enabled, cached, telemetry, runner>>
      /\ graph' = graph /\ leaked' = leaked
  BY DEF Process!PopKept, Process!runnerVars
<1>2. ProcessTyped /\ \A g \in Graphs : CompiledHolds(g)
  BY DEF ProcessInv
<1>3. closing' = [i \in 1..Len(kept) |-> kept[(Len(kept) - i) + 1]]
  BY <1>1 DEF Process!Reverse
<1>4. kept \in Seq(Graphs) /\ Len(kept) \in Nat
  BY <1>2 DEF ProcessTyped
<1>5. closing' \in Seq(Graphs) /\ DOMAIN closing' = 1..Len(kept)
  <2>1. \A i \in 1..Len(kept) : kept[(Len(kept) - i) + 1] \in Graphs
    BY <1>4
  <2>2. closing' \in [1..Len(kept) -> Graphs]
    BY <1>3, <2>1
  <2> QED
    BY <1>4, <2>2
<1>6. ASSUME NEW h \in Process!Range(kept) \union Process!Range(closing)
      PROVE  h \in Process!Range(closing')
  <2>1. PICK i \in 1..Len(kept) : h = kept[i]
    BY <1>1, <1>4, <1>6 DEF Process!Range
  <2>2. (Len(kept) - i) + 1 \in 1..Len(kept)
        /\ (Len(kept) - ((Len(kept) - i) + 1)) + 1 = i
    BY <1>4, <2>1
  <2>3. closing'[(Len(kept) - i) + 1] = h
    BY <1>3, <2>1, <2>2
  <2> QED
    BY <1>5, <2>2, <2>3 DEF Process!Range
<1>7. ProcessTyped'
  BY <1>1, <1>2, <1>5 DEF ProcessTyped
<1>8. ~leaked' => TelemetryIsServed' /\ \A r \in Runners : ThreadHolds(r)'
  BY <1>1 DEF ProcessInv, TelemetryIsServed, ThreadHolds
<1>9. ASSUME NEW g \in Graphs
      PROVE  CompiledHolds(g)'
  <2>1. CompiledHolds(g)
    BY <1>2
  <2>2. Process!Range(closing') = Process!Range(closing)'
    BY DEF Process!Range
  <2>3. Process!Building(g)' <=> Process!Building(g)
    BY <1>1 DEF Process!Building
  <2> QED
    BY <1>1, <1>6, <2>1, <2>2, <2>3 DEF CompiledHolds
<1> QED
  BY <1>7, <1>8, <1>9 DEF ProcessInv

\* The first in line is closed, or an error makes the rest forgotten.
LEMMA CloseGraphKeeps ==
  ASSUME ProcessInv, Process!CloseGraph
  PROVE  ProcessInv'
<1>1. /\ closing # << >> /\ kept' = kept
      /\ UNCHANGED <<enabled, cached, telemetry, runner>>
  BY DEF Process!CloseGraph, Process!runnerVars
<1>2. /\ ProcessTyped /\ kept \in Seq(Graphs) /\ closing \in Seq(Graphs)
      /\ graph \in [Graphs -> Compiled] /\ leaked \in BOOLEAN
      /\ \A g \in Graphs : CompiledHolds(g)
  BY DEF ProcessInv, ProcessTyped
<1>3. PICK g \in Graphs : g = Head(closing)
  BY <1>1, <1>2
<1>4. ASSUME graph' = [graph EXCEPT ![Head(closing)].open = {}],
             closing' = Tail(closing), leaked' = leaked
      PROVE  ProcessInv'
  <2>1. PICK c : c = [graph[g] EXCEPT !.open = {}]
    OBVIOUS
  <2>2. graph' = [graph EXCEPT ![g] = c]
    BY <1>3, <1>4, <2>1
  <2>3. c \in Compiled /\ c.pc = graph[g].pc /\ c.open = {} /\ c.wanted = graph[g].wanted
    <3>1. c = [pc |-> graph[g].pc, open |-> {}, wanted |-> graph[g].wanted]
      BY <1>2, <2>1 DEF Compiled
    <3> QED
      BY <1>2, <2>1, <3>1 DEF Compiled
  <2>4. closing' \in Seq(Graphs)
    BY <1>1, <1>2, <1>4
  <2>5. ASSUME NEW h \in Process!Range(closing), h # g
        PROVE  h \in Process!Range(closing')
    <3>1. PICK i \in 1..Len(closing) : h = closing[i]
      BY <1>2, <2>5 DEF Process!Range
    <3>2. i # 1
      BY <1>1, <1>2, <1>3, <2>5, <3>1
    <3>3. i - 1 \in DOMAIN closing' /\ closing'[i - 1] = h
      BY <1>1, <1>2, <1>4, <3>1, <3>2
    <3> QED
      BY <3>3 DEF Process!Range
  <2>6. Process!Range(kept') = Process!Range(kept)
    BY <1>1
  <2>7. graph'[g] = c
    BY <1>2, <2>2
  <2>8. CompiledHolds(g)'
    BY <2>3, <2>7 DEF CompiledHolds
  <2> QED
    BY <1>1, <1>2, <1>4, <2>2, <2>3, <2>4, <2>5, <2>6, <2>8, GraphKeeps
<1>5. ASSUME leaked' = TRUE, closing' = << >>, graph' = graph
      PROVE  ProcessInv'
  <2>1. ProcessTyped'
    BY <1>1, <1>2, <1>5 DEF ProcessTyped
  <2>2. \A h \in Graphs : CompiledHolds(h)'
    BY <1>2, <1>5 DEF CompiledHolds
  <2> QED
    BY <1>5, <2>1, <2>2 DEF ProcessInv
<1> QED
  BY <1>4, <1>5 DEF Process!CloseGraph

-----------------------------------------------------------------------------
\* A step of the whole keeps ProcessInv.
LEMMA ProcessNext == ProcessInv /\ [Next]_vars => ProcessInv'
<1> SUFFICES ASSUME ProcessInv, [Next]_vars PROVE ProcessInv'
  OBVIOUS
<1>1. CASE UNCHANGED processVars
  <2>1. ProcessTyped' /\ (~leaked' => TelemetryIsServed' /\ \A r \in Runners : ThreadHolds(r)')
    BY <1>1 DEF processVars, ProcessInv, ProcessTyped, TelemetryIsServed, ThreadHolds
  <2>2. \A g \in Graphs : CompiledHolds(g)'
    BY <1>1 DEF processVars, ProcessInv, CompiledHolds, Process!Building, Process!Range
  <2> QED
    BY <2>1, <2>2 DEF ProcessInv
<1>2. ASSUME NEW r \in Runners, Process!RunnerStep(r)
      PROVE  ProcessInv'
  BY <1>2, FetchKeeps, StoreRuntimeKeeps, StartKeeps, StartRefusedKeeps, ConnectKeeps,
    LeaveServingKeeps, CloseBusKeeps, CloseTelemetryKeeps DEF Process!RunnerStep
<1>3. CASE Process!GraphsNext
  BY <1>3, GraphStepKeeps, PopKeeps, CloseGraphKeeps DEF Process!GraphsNext
<1> QED
  BY <1>1, <1>2, <1>3 DEF Next, OthersRest, vars, processVars

\* ProcessInv holds in every state.
LEMMA ProcessInvariant == Spec => []ProcessInv
  BY ProcessInit, ProcessNext, PTL DEF Spec

\* Nobody serves once all threads have ended, and a graph that is ready is kept.
LEMMA ProcessesClose == ProcessInv => Process!NothingIsLeftOpen
<1> SUFFICES ASSUME ProcessInv, ~leaked
             PROVE  /\ (\A r \in Runners : runner[r].pc = "ended") =>
                         /\ \A r \in Runners : ~runner[r].bus
                         /\ \A r \in Runners, p \in Process!Parts : telemetry[r][p] # "open"
                    /\ \A g \in Graphs :
                         graph[g].open # {} =>
                           Process!Building(g)
                           \/ g \in Process!Range(kept) \union Process!Range(closing)
  BY DEF Process!NothingIsLeftOpen, Process!Runs
<1>1. /\ TelemetryIsServed /\ \A r \in Runners : ThreadHolds(r)
      /\ \A g \in Graphs : CompiledHolds(g)
  BY DEF ProcessInv
<1>2. ASSUME \A r \in Runners : runner[r].pc = "ended"
      PROVE  /\ \A r \in Runners : ~runner[r].bus
             /\ \A r \in Runners, p \in Process!Parts : telemetry[r][p] # "open"
  BY <1>1, <1>2 DEF TelemetryIsServed, ThreadHolds, Serving
<1>3. \A g \in Graphs :
        graph[g].open # {} =>
          Process!Building(g) \/ g \in Process!Range(kept) \union Process!Range(closing)
  BY <1>1 DEF CompiledHolds
<1> QED
  BY <1>2, <1>3

-----------------------------------------------------------------------------
(* TenantRequests and TenantResources.                                      *)

Steps ==
  {"idle", "lookup", "fetch", "store", "served", "wait", "exists", "create",
   "statement", "ended"}
Working == {"served", "wait", "exists", "create", "statement"}
Revised == [of : Tenancy!Subjects, revision : 0..MaxRevision]
Visited ==
  [pc : Steps, tenant : Tenants, key : 0..MaxRevision, subject : Tenancy!Subjects,
   found : Revised, moved : BOOLEAN]

TenancyTyped ==
  /\ revisions \in [Tenancy!Subjects -> 1..MaxRevision]
  /\ remembered \in [Tenancy!Subjects -> Revised]
  /\ visit \in [Visitors -> Visited]
  /\ settled \subseteq Tenants
  /\ store \in {"postgresql", "mariadb", "mongodb", "qdrant", "bucket"}
  /\ DOMAIN reached = Visitors /\ reached = [v \in Visitors |-> reached[v]]

\* What was read of a subject is one of its revisions, the current one once settled.
IsRevision(value, subject) ==
  /\ value.of = subject /\ value.revision \in 1..revisions[subject]
  /\ subject \in settled => value = Tenancy!Current(subject)
SubjectHolds(s) == remembered[s] = Tenancy!Unknown \/ IsRevision(remembered[s], s)

\* A request goes to where the coordinates of its tenant say.
VisitHolds(v) ==
  LET f == visit[v] IN
  /\ f.subject \in {"jwks", f.tenant}
  /\ f.moved => f.tenant \in settled
  /\ f.pc = "store" => IsRevision(f.found, f.subject)
  /\ f.pc \in Working => /\ f.found.of = f.tenant
                         /\ f.found.revision \in 1..revisions[f.tenant]
                         /\ f.moved => f.found = Tenancy!Current(f.tenant)
  /\ f.pc \in Working \ {"served"} => reached[v] = Tenancy!PlaceInContext(v)
  /\ f.pc = "statement" /\ store \notin {"mongodb", "bucket"} => reached[v] \in tables

\* What is kept for a server leads to it, and what is ready is there.
ResourcesHold ==
  /\ \A k \in DOMAIN pools : pools[k] = k
  /\ ready \subseteq tables

TenancyInv ==
  /\ TenancyTyped /\ ResourcesHold
  /\ \A s \in Tenancy!Subjects : SubjectHolds(s)
  /\ \A v \in Visitors : VisitHolds(v)

\* Tenants and signing keys are cached apart, and nothing is known at first.
LEMMA TenancyAssumed ==
  /\ "jwks" \notin Tenants /\ MaxRevision \in Nat \ {0}
  /\ Tenancy!Subjects = Tenants \union {"jwks"}
  /\ Tenancy!CacheKeys = Tenancy!Subjects
  /\ Tenancy!Unknown = [of |-> "jwks", revision |-> 0]
BY ApplicationAssumption
  DEF Tenancy!TenantResourcesAssumption, Tenancy!TenantRequestsAssumption,
      Tenancy!SigningKeys, Tenancy!Subjects, Tenancy!CacheKeys, Tenancy!CacheKey,
      Tenancy!Unknown

\* A visit that has found nothing yet.
LEMMA VisitRecord ==
  ASSUME NEW pc \in Steps, NEW t \in Tenants, NEW k \in 0..MaxRevision
  PROVE  /\ Tenancy!Visit(pc, t, k)
              = [pc |-> pc, tenant |-> t, key |-> k, subject |-> "jwks",
                 found |-> Tenancy!Unknown, moved |-> FALSE]
         /\ Tenancy!Visit(pc, t, k) \in Visited
<1>1. Tenancy!Visit(pc, t, k)
        = [pc |-> pc, tenant |-> t, key |-> k, subject |-> "jwks",
           found |-> Tenancy!Unknown, moved |-> FALSE]
  BY DEF Tenancy!Visit, Tenancy!SigningKeys
<1>2. Tenancy!Unknown \in Revised /\ "jwks" \in Tenancy!Subjects
  BY TenancyAssumed DEF Revised
<1> QED
  BY <1>1, <1>2 DEF Visited

\* The place that a secret names is a server and a space.
LEMMA PlaceRecord ==
  ASSUME NEW c
  PROVE  Tenancy!Place(c) =
           [server |-> Tenancy!Place(c).server, space |-> Tenancy!Place(c).space]
<1>1. PICK m : m = Tenancy!Merged(c)
  OBVIOUS
<1>2. PICK space : space = IF store = "mariadb" THEN Configured.space ELSE m.space
  OBVIOUS
<1>3. m = [server |-> m.server, space |-> m.space]
  BY <1>1 DEF Tenancy!Merged
<1>4. Tenancy!Place(c) = [m EXCEPT !.space = space]
  BY <1>1, <1>2 DEF Tenancy!Place
<1> QED
  BY <1>3, <1>4

\* At first there are no requests and no resources.
LEMMA TenancyInit == Init => TenancyInv
<1> SUFFICES ASSUME Init PROVE TenancyInv
  OBVIOUS
<1>1. /\ revisions = [s \in Tenancy!Subjects |-> 1]
      /\ remembered = [k \in Tenancy!CacheKeys |-> Tenancy!Unknown]
      /\ visit \in {[v \in Visitors |-> Tenancy!Visit("idle", t[v], 0)] :
                      t \in [Visitors -> Tenants]}
      /\ settled = {}
      /\ store \in {"postgresql", "mariadb", "mongodb", "qdrant", "bucket"}
      /\ reached = [v \in Visitors |-> Configured]
      /\ DOMAIN pools = {} /\ tables = {} /\ ready = {}
  BY DEF Init, Tenancy!TenancyInit, Tenancy!RequestsInit, Tenancy!ResourcesInit
<1>2. PICK t \in [Visitors -> Tenants] :
        visit = [v \in Visitors |-> Tenancy!Visit("idle", t[v], 0)]
  BY <1>1
<1>3. \A v \in Visitors :
        /\ visit[v] \in Visited /\ visit[v].pc = "idle" /\ visit[v].subject = "jwks"
        /\ ~visit[v].moved
  <2> SUFFICES ASSUME NEW v \in Visitors
               PROVE  /\ visit[v] \in Visited /\ visit[v].pc = "idle"
                      /\ visit[v].subject = "jwks" /\ ~visit[v].moved
    OBVIOUS
  <2>1. visit[v] = Tenancy!Visit("idle", t[v], 0) /\ t[v] \in Tenants /\ 0 \in 0..MaxRevision
    BY <1>2, TenancyAssumed
  <2>2. "idle" \in Steps
    BY DEF Steps
  <2> QED
    BY <2>1, <2>2, VisitRecord
<1>4. Tenancy!Unknown \in Revised
  BY TenancyAssumed DEF Revised
<1>5. visit \in [Visitors -> Visited]
  BY <1>2, <1>3
<1>6. TenancyTyped
  BY <1>1, <1>4, <1>5, TenancyAssumed DEF TenancyTyped
<1>7. \A v \in Visitors : VisitHolds(v)
  BY <1>3 DEF VisitHolds, Working
<1>8. \A s \in Tenancy!Subjects : SubjectHolds(s)
  BY <1>1, TenancyAssumed DEF SubjectHolds
<1>9. ResourcesHold
  BY <1>1 DEF ResourcesHold
<1> QED
  BY <1>6, <1>7, <1>8, <1>9 DEF TenancyInv

\* A request goes on; what it holds ends with it.
LEMMA VisitGoes ==
  ASSUME TenancyInv, NEW v \in Visitors, NEW pc \in Steps, Tenancy!Goes(v, pc)
  PROVE  \E f \in Visited :
           /\ visit' = [visit EXCEPT ![v] = f]
           /\ f.pc = pc /\ f.tenant = visit[v].tenant
           /\ pc # "ended" => /\ f.subject = visit[v].subject
                              /\ f.found = visit[v].found /\ f.moved = visit[v].moved
           /\ pc = "ended" => f.subject = "jwks" /\ ~f.moved
<1>1. visit \in [Visitors -> Visited] /\ visit[v] \in Visited
  BY DEF TenancyInv, TenancyTyped
<1>2. CASE pc = "ended"
  <2>1. PICK f : f = Tenancy!Visit(pc, visit[v].tenant, 0)
    OBVIOUS
  <2>2. visit' = [visit EXCEPT ![v] = f]
    BY <1>2, <2>1 DEF Tenancy!Goes
  <2>3. visit[v].tenant \in Tenants /\ 0 \in 0..MaxRevision
    BY <1>1, TenancyAssumed DEF Visited
  <2>4. f = [pc |-> pc, tenant |-> visit[v].tenant, key |-> 0, subject |-> "jwks",
             found |-> Tenancy!Unknown, moved |-> FALSE] /\ f \in Visited
    BY <2>1, <2>3, VisitRecord
  <2> QED
    BY <1>2, <2>2, <2>4
<1>3. CASE pc # "ended"
  <2>1. PICK f : f = [visit[v] EXCEPT !.pc = pc]
    OBVIOUS
  <2>2. visit' = [visit EXCEPT ![v] = f]
    BY <1>3, <2>1 DEF Tenancy!Goes
  <2>3. f = [pc |-> pc, tenant |-> visit[v].tenant, key |-> visit[v].key,
             subject |-> visit[v].subject, found |-> visit[v].found,
             moved |-> visit[v].moved]
    BY <1>1, <2>1 DEF Visited
  <2>4. f \in Visited
    BY <1>1, <2>3 DEF Visited
  <2> QED
    BY <1>3, <2>2, <2>3, <2>4
<1> QED
  BY <1>2, <1>3

\* The place of a request depends on what it found.
LEMMA PlaceStays ==
  ASSUME NEW w, store' = store, visit'[w].found = visit[w].found
  PROVE  Tenancy!PlaceInContext(w)' = Tenancy!PlaceInContext(w)
<1>1. PICK c : c = Coordinates[visit[w].found.of][visit[w].found.revision]
  OBVIOUS
<1>2. Coordinates[visit'[w].found.of][visit'[w].found.revision] = c
  BY <1>1
<1>3. Tenancy!PlaceInContext(w) = Tenancy!Place(c)
  BY <1>1 DEF Tenancy!PlaceInContext
<1>4. Tenancy!Place(c)' = Tenancy!Place(c)
  BY DEF Tenancy!Place, Tenancy!Merged, Tenancy!Or
<1>5. Tenancy!PlaceInContext(w)' = Tenancy!Place(c)'
  BY <1>2 DEF Tenancy!PlaceInContext, Tenancy!Place, Tenancy!Merged, Tenancy!Or
<1> QED
  BY <1>3, <1>4, <1>5

\* One request changes; the tables only grow, and no subject changes.
LEMMA VisitKeeps ==
  ASSUME TenancyInv, NEW v \in Visitors, NEW f \in Visited,
         visit' = [visit EXCEPT ![v] = f],
         UNCHANGED <<revisions, settled, store>>,
         remembered' \in [Tenancy!Subjects -> Revised],
         \A s \in Tenancy!Subjects : SubjectHolds(s)',
         DOMAIN reached' = Visitors, reached' = [w \in Visitors |-> reached'[w]],
         \A w \in Visitors : w # v => reached'[w] = reached[w],
         ResourcesHold', tables \subseteq tables', VisitHolds(v)'
  PROVE  TenancyInv'
<1>1. TenancyTyped'
  BY DEF TenancyInv, TenancyTyped
<1>2. ASSUME NEW w \in Visitors
      PROVE  VisitHolds(w)'
  <2>1. CASE w = v
    BY <2>1
  <2>2. CASE w # v
    <3>1. visit'[w] = visit[w] /\ VisitHolds(w) /\ reached'[w] = reached[w]
      BY <2>2 DEF TenancyInv, TenancyTyped
    <3>2. Tenancy!PlaceInContext(w)' = Tenancy!PlaceInContext(w)
      BY <3>1, PlaceStays
    <3>3. \A value, s : IsRevision(value, s)' <=> IsRevision(value, s)
      BY DEF IsRevision, Tenancy!Current
    <3>4. Tenancy!Current(visit[w].tenant)' = Tenancy!Current(visit[w].tenant)
      BY <3>1 DEF Tenancy!Current
    <3> QED
      BY <3>1, <3>2, <3>3, <3>4 DEF VisitHolds, IsRevision, Tenancy!Current
  <2> QED
    BY <2>1, <2>2
<1> QED
  BY <1>1, <1>2 DEF TenancyInv

-----------------------------------------------------------------------------
(* A request is let in.                                                     *)

\* The cache is as it was.
LEMMA NothingForgotten ==
  ASSUME TenancyInv, UNCHANGED <<remembered, revisions, settled>>
  PROVE  /\ remembered' \in [Tenancy!Subjects -> Revised]
         /\ \A s \in Tenancy!Subjects : SubjectHolds(s)'
BY DEF TenancyInv, TenancyTyped, SubjectHolds, IsRevision, Tenancy!Current

\* A request that is not working yet changes.
LEMMA VisitWaits ==
  ASSUME TenancyInv, NEW v \in Visitors, NEW f \in Visited,
         visit' = [visit EXCEPT ![v] = f],
         UNCHANGED <<revisions, settled, store, reached, pools, tables, ready>>,
         remembered' \in [Tenancy!Subjects -> Revised],
         \A s \in Tenancy!Subjects : SubjectHolds(s)',
         f.subject \in {"jwks", f.tenant}, f.moved => f.tenant \in settled,
         f.pc = "store" => IsRevision(f.found, f.subject),
         f.pc \in Working => /\ f.pc = "served" /\ f.found.of = f.tenant
                             /\ f.found.revision \in 1..revisions[f.tenant]
                             /\ f.moved => f.found = Tenancy!Current(f.tenant)
  PROVE  TenancyInv'
<1>1. /\ visit'[v] = f /\ DOMAIN reached' = Visitors
      /\ reached' = [w \in Visitors |-> reached'[w]]
  BY DEF TenancyInv, TenancyTyped
<1>2. VisitHolds(v)'
  <2>1. IsRevision(f.found, f.subject)' <=> IsRevision(f.found, f.subject)
    BY DEF IsRevision, Tenancy!Current
  <2>2. Tenancy!Current(f.tenant)' = Tenancy!Current(f.tenant)
    BY DEF Tenancy!Current
  <2>3. f.pc # "statement" /\ f.pc \notin Working \ {"served"}
    BY DEF Working
  <2> QED
    BY <1>1, <2>1, <2>2, <2>3 DEF VisitHolds, IsRevision, Tenancy!Current
<1>3. ResourcesHold'
  BY DEF TenancyInv, ResourcesHold
<1> QED
  BY <1>1, <1>2, <1>3, VisitKeeps

\* What is found lets a request in, or shows that its token is not valid.
LEMMA AnsweredKeeps ==
  ASSUME TenancyInv, NEW v \in Visitors, NEW value \in Revised,
         Tenancy!Answered(v, value), IsRevision(value, visit[v].subject),
         visit[v].pc \in {"lookup", "store"},
         UNCHANGED <<revisions, settled, store, reached, pools, tables, ready>>,
         remembered' \in [Tenancy!Subjects -> Revised],
         \A s \in Tenancy!Subjects : SubjectHolds(s)'
  PROVE  TenancyInv'
<1>1. /\ visit \in [Visitors -> Visited] /\ visit[v] \in Visited
      /\ VisitHolds(v) /\ visit[v].tenant \in Tenants
  BY DEF TenancyInv, TenancyTyped, Visited
<1>2. CASE Tenancy!Goes(v, "ended")
  <2>1. "ended" \in Steps
    BY DEF Steps
  <2>2. PICK f \in Visited :
          /\ visit' = [visit EXCEPT ![v] = f]
          /\ f.pc = "ended" /\ f.subject = "jwks" /\ ~f.moved
    BY <1>2, <2>1, VisitGoes
  <2>3. f.pc \notin Working /\ f.pc # "store"
    BY <2>2 DEF Working
  <2> QED
    BY <2>2, <2>3, VisitWaits
<1>3. CASE visit[v].subject = "jwks" /\ ~Tenancy!Goes(v, "ended")
  <2>1. PICK n : n = Tenancy!Visit("lookup", visit[v].tenant, 0)
    OBVIOUS
  <2>2. PICK f : f = [n EXCEPT !.subject = visit[v].tenant, !.moved = visit[v].moved]
    OBVIOUS
  <2>3. visit' = [visit EXCEPT ![v] = f]
    BY <1>3, <2>1, <2>2
      DEF Tenancy!Answered, Tenancy!Verified, Tenancy!SigningKeys
  <2>4. "lookup" \in Steps /\ 0 \in 0..MaxRevision
    BY TenancyAssumed DEF Steps
  <2>5. n = [pc |-> "lookup", tenant |-> visit[v].tenant, key |-> 0, subject |-> "jwks",
             found |-> Tenancy!Unknown, moved |-> FALSE]
    BY <1>1, <2>1, <2>4, VisitRecord
  <2>6. PICK m : m = [n EXCEPT !.subject = visit[v].tenant]
    OBVIOUS
  <2>7. m = [pc |-> "lookup", tenant |-> visit[v].tenant, key |-> 0,
             subject |-> visit[v].tenant, found |-> Tenancy!Unknown, moved |-> FALSE]
    BY <2>5, <2>6
  <2>8. f = [m EXCEPT !.moved = visit[v].moved]
    BY <2>2, <2>6
  <2>9. f = [pc |-> "lookup", tenant |-> visit[v].tenant, key |-> 0,
             subject |-> visit[v].tenant, found |-> Tenancy!Unknown,
             moved |-> visit[v].moved]
    BY <2>7, <2>8
  <2>10. f \in Visited
    BY <1>1, <2>4, <2>9, TenancyAssumed DEF Visited, Revised
  <2>11. /\ f.pc = "lookup" /\ f.subject = f.tenant /\ f.tenant = visit[v].tenant
         /\ f.moved = visit[v].moved
    BY <2>9
  <2>12. f.moved => f.tenant \in settled
    BY <1>1, <2>11 DEF VisitHolds
  <2>13. f.pc \notin Working /\ f.pc # "store" /\ f.subject \in {"jwks", f.tenant}
    BY <2>11 DEF Working
  <2> QED
    BY <2>3, <2>10, <2>12, <2>13, VisitWaits
<1>4. CASE visit[v].subject # "jwks"
  <2>1. PICK m : m = [visit[v] EXCEPT !.pc = "served"]
    OBVIOUS
  <2>2. m = [pc |-> "served", tenant |-> visit[v].tenant, key |-> visit[v].key,
             subject |-> visit[v].subject, found |-> visit[v].found,
             moved |-> visit[v].moved]
    BY <1>1, <2>1 DEF Visited
  <2>3. PICK f : f = [m EXCEPT !.found = value]
    OBVIOUS
  <2>4. f = [pc |-> "served", tenant |-> visit[v].tenant, key |-> visit[v].key,
             subject |-> visit[v].subject, found |-> value, moved |-> visit[v].moved]
    BY <2>2, <2>3
  <2>5. visit' = [visit EXCEPT ![v].pc = "served", ![v].found = value]
    BY <1>4 DEF Tenancy!Answered, Tenancy!SigningKeys, Tenancy!InContext
  <2>6. visit' = [visit EXCEPT ![v] = f]
    BY <1>1, <2>1, <2>3, <2>5
  <2>7. f \in Visited
    BY <1>1, <2>4 DEF Visited, Steps
  <2>8. /\ f.pc = "served" /\ f.tenant = visit[v].tenant /\ f.subject = f.tenant
        /\ f.found = value /\ f.moved = visit[v].moved
    BY <1>1, <1>4, <2>4 DEF VisitHolds
  <2>9. f.moved => f.tenant \in settled
    BY <1>1, <2>8 DEF VisitHolds
  <2>10. /\ f.found.of = f.tenant /\ f.found.revision \in 1..revisions[f.tenant]
         /\ f.moved => f.found = Tenancy!Current(f.tenant)
    <3>1. visit[v].subject = f.tenant
      BY <2>2, <2>4, <2>8
    <3>2. IsRevision(f.found, f.tenant)
      BY <2>8, <3>1
    <3> QED
      BY <2>9, <3>2 DEF IsRevision
  <2> QED
    BY <2>6, <2>7, <2>8, <2>9, <2>10, VisitWaits
<1> QED
  BY <1>2, <1>3, <1>4

\* A request arrives with a token of its tenant.
LEMMA ArrivesKeeps ==
  ASSUME TenancyInv, NEW v \in Visitors, Tenancy!Arrives(v),
         UNCHANGED <<store, reached, pools, tables, ready>>
  PROVE  TenancyInv'
<1>1. /\ visit \in [Visitors -> Visited] /\ visit[v].tenant \in Tenants
      /\ revisions["jwks"] \in 1..MaxRevision
  BY TenancyAssumed DEF TenancyInv, TenancyTyped, Visited
<1>2. UNCHANGED <<revisions, remembered, settled>>
  BY DEF Tenancy!Arrives
<1>3. PICK key \in 1..revisions["jwks"] :
        visit' = [visit EXCEPT
          ![v] = [Tenancy!Visit("lookup", visit[v].tenant, key)
                    EXCEPT !.moved = visit[v].tenant \in settled]]
  BY DEF Tenancy!Arrives, Tenancy!SigningKeys
<1>4. PICK moved : moved = (visit[v].tenant \in settled)
  OBVIOUS
<1>5. PICK n : n = Tenancy!Visit("lookup", visit[v].tenant, key)
  OBVIOUS
<1>6. PICK f : f = [n EXCEPT !.moved = moved]
  OBVIOUS
<1>7. visit' = [visit EXCEPT ![v] = f]
  BY <1>3, <1>4, <1>5, <1>6
<1>8. "lookup" \in Steps /\ key \in 0..MaxRevision
  BY <1>1, <1>3, TenancyAssumed DEF Steps
<1>9. n = [pc |-> "lookup", tenant |-> visit[v].tenant, key |-> key, subject |-> "jwks",
           found |-> Tenancy!Unknown, moved |-> FALSE]
  BY <1>1, <1>5, <1>8, VisitRecord
<1>10. f = [pc |-> "lookup", tenant |-> visit[v].tenant, key |-> key, subject |-> "jwks",
            found |-> Tenancy!Unknown, moved |-> moved]
  BY <1>6, <1>9
<1>11. f \in Visited
  <2>1. moved \in BOOLEAN
    BY <1>4
  <2> QED
    BY <1>1, <1>8, <1>10, <2>1, TenancyAssumed DEF Visited, Revised
<1>12. /\ f.pc \notin Working /\ f.pc # "store" /\ f.subject = "jwks"
       /\ f.moved => f.tenant \in settled
  BY <1>4, <1>10 DEF Working
<1> QED
  BY <1>2, <1>7, <1>11, <1>12, NothingForgotten, VisitWaits

\* The cache is asked first.
LEMMA LooksUpKeeps ==
  ASSUME TenancyInv, NEW v \in Visitors, Tenancy!LooksUp(v),
         UNCHANGED <<store, reached, pools, tables, ready>>
  PROVE  TenancyInv'
<1>1. /\ visit \in [Visitors -> Visited] /\ visit[v].tenant \in Tenants
      /\ visit[v].subject \in Tenancy!Subjects /\ VisitHolds(v)
      /\ remembered[visit[v].subject] \in Revised
  BY DEF TenancyInv, TenancyTyped, Visited
<1>2. /\ UNCHANGED <<revisions, remembered, settled>> /\ visit[v].pc = "lookup"
  BY DEF Tenancy!LooksUp, Tenancy!At
<1>3. CASE remembered[visit[v].subject] = Tenancy!Unknown
  <2>1. Tenancy!Goes(v, "fetch") /\ "fetch" \in Steps
    BY <1>3 DEF Tenancy!LooksUp, Tenancy!CacheKey, Steps
  <2>2. PICK f \in Visited :
          /\ visit' = [visit EXCEPT ![v] = f]
          /\ f.pc = "fetch" /\ f.tenant = visit[v].tenant
          /\ f.subject = visit[v].subject /\ f.moved = visit[v].moved
    BY <2>1, VisitGoes
  <2>3. /\ f.pc \notin Working /\ f.pc # "store" /\ f.subject \in {"jwks", f.tenant}
        /\ f.moved => f.tenant \in settled
    BY <1>1, <2>2 DEF Working, VisitHolds
  <2> QED
    BY <1>2, <2>2, <2>3, NothingForgotten, VisitWaits
<1>4. CASE remembered[visit[v].subject] # Tenancy!Unknown
  <2>1. Tenancy!Answered(v, remembered[visit[v].subject])
    BY <1>4 DEF Tenancy!LooksUp, Tenancy!CacheKey
  <2>2. IsRevision(remembered[visit[v].subject], visit[v].subject)
    BY <1>1, <1>4 DEF TenancyInv, SubjectHolds
  <2> QED
    BY <1>1, <1>2, <2>1, <2>2, NothingForgotten, AnsweredKeeps
<1> QED
  BY <1>3, <1>4

\* The current keys, or the current secret, are read.
LEMMA FetchesKeeps ==
  ASSUME TenancyInv, NEW v \in Visitors, Tenancy!Fetches(v),
         UNCHANGED <<store, reached, pools, tables, ready>>
  PROVE  TenancyInv'
<1>1. /\ visit \in [Visitors -> Visited] /\ visit[v] \in Visited /\ VisitHolds(v)
      /\ visit[v].subject \in Tenancy!Subjects
      /\ revisions[visit[v].subject] \in 1..MaxRevision
  BY DEF TenancyInv, TenancyTyped, Visited
<1>2. UNCHANGED <<revisions, remembered, settled>>
  BY DEF Tenancy!Fetches
<1>3. PICK m : m = [visit[v] EXCEPT !.pc = "store"]
  OBVIOUS
<1>4. m = [pc |-> "store", tenant |-> visit[v].tenant, key |-> visit[v].key,
           subject |-> visit[v].subject, found |-> visit[v].found,
           moved |-> visit[v].moved]
  BY <1>1, <1>3 DEF Visited
<1>5. PICK value : value = Tenancy!Current(visit[v].subject)
  OBVIOUS
<1>6. PICK f : f = [m EXCEPT !.found = value]
  OBVIOUS
<1>7. visit' = [visit EXCEPT ![v].pc = "store", ![v].found = value]
  BY <1>5 DEF Tenancy!Fetches
<1>8. visit' = [visit EXCEPT ![v] = f]
  BY <1>1, <1>3, <1>6, <1>7
<1>9. f = [pc |-> "store", tenant |-> visit[v].tenant, key |-> visit[v].key,
           subject |-> visit[v].subject, found |-> value, moved |-> visit[v].moved]
  BY <1>4, <1>6
<1>10. /\ value = [of |-> visit[v].subject, revision |-> revisions[visit[v].subject]]
       /\ value \in Revised
  BY <1>1, <1>5 DEF Tenancy!Current, Revised
<1>11. f \in Visited
  BY <1>1, <1>9, <1>10 DEF Visited, Steps
<1>12. /\ f.pc = "store" /\ f.tenant = visit[v].tenant /\ f.subject = visit[v].subject
       /\ f.found = value /\ f.moved = visit[v].moved
  BY <1>9
<1>13. IsRevision(f.found, f.subject)
  <2>1. f.found.of = f.subject /\ f.found.revision = revisions[f.subject]
    BY <1>10, <1>12
  <2>2. revisions[f.subject] \in 1..revisions[f.subject]
    BY <1>1, <1>12, TenancyAssumed
  <2>3. f.found = Tenancy!Current(f.subject)
    BY <1>5, <1>12
  <2> QED
    BY <2>1, <2>2, <2>3 DEF IsRevision
<1>14. /\ f.pc \notin Working /\ f.subject \in {"jwks", f.tenant}
       /\ f.moved => f.tenant \in settled
  BY <1>1, <1>12 DEF VisitHolds, Working
<1> QED
  BY <1>2, <1>8, <1>11, <1>13, <1>14, NothingForgotten, VisitWaits

\* What was read is remembered, and answers.
LEMMA RemembersKeeps ==
  ASSUME TenancyInv, NEW v \in Visitors, Tenancy!Remembers(v),
         UNCHANGED <<store, reached, pools, tables, ready>>
  PROVE  TenancyInv'
<1>1. /\ visit[v].pc = "store" /\ UNCHANGED <<revisions, settled>>
      /\ remembered' = [remembered EXCEPT ![visit[v].subject] = visit[v].found]
      /\ Tenancy!Answered(v, visit[v].found)
  BY DEF Tenancy!Remembers, Tenancy!At, Tenancy!CacheKey
<1>2. /\ remembered \in [Tenancy!Subjects -> Revised] /\ visit[v].found \in Revised
      /\ visit[v].subject \in Tenancy!Subjects
      /\ \A s \in Tenancy!Subjects : SubjectHolds(s)
  BY DEF TenancyInv, TenancyTyped, Visited
<1>3. IsRevision(visit[v].found, visit[v].subject)
  BY <1>1 DEF TenancyInv, VisitHolds
<1>4. remembered' \in [Tenancy!Subjects -> Revised]
  BY <1>1, <1>2
<1>5. ASSUME NEW s \in Tenancy!Subjects
      PROVE  SubjectHolds(s)'
  <2>1. CASE s = visit[v].subject
    <3>1. remembered'[s] = visit[v].found
      BY <1>1, <1>2, <2>1
    <3> QED
      BY <1>1, <1>3, <2>1, <3>1 DEF SubjectHolds, IsRevision, Tenancy!Current
  <2>2. CASE s # visit[v].subject
    <3>1. remembered'[s] = remembered[s] /\ SubjectHolds(s)
      BY <1>1, <1>2, <2>2
    <3> QED
      BY <1>1, <3>1 DEF SubjectHolds, IsRevision, Tenancy!Current
  <2> QED
    BY <2>1, <2>2
<1> QED
  BY <1>1, <1>2, <1>3, <1>4, <1>5, AnsweredKeeps

\* A request that gets no answer ends.
LEMMA ResolutionFailsKeeps ==
  ASSUME TenancyInv, NEW v \in Visitors, Tenancy!ResolutionFails(v),
         UNCHANGED <<store, reached, pools, tables, ready>>
  PROVE  TenancyInv'
<1>1. /\ UNCHANGED <<revisions, remembered, settled>>
      /\ Tenancy!Goes(v, "ended") /\ "ended" \in Steps
  BY DEF Tenancy!ResolutionFails, Steps
<1>2. PICK f \in Visited :
        /\ visit' = [visit EXCEPT ![v] = f]
        /\ f.pc = "ended" /\ f.subject = "jwks" /\ ~f.moved
  BY <1>1, VisitGoes
<1>3. f.pc \notin Working /\ f.pc # "store"
  BY <1>2 DEF Working
<1> QED
  BY <1>1, <1>2, <1>3, NothingForgotten, VisitWaits

-----------------------------------------------------------------------------
(* A request works.                                                         *)

\* It goes on with what it found, at the place that says, and finds its table there.
LEMMA WorkKeeps ==
  ASSUME TenancyInv, NEW v \in Visitors, NEW pc \in Working \union {"ended"},
         Tenancy!Goes(v, pc), visit[v].pc \in Working,
         UNCHANGED <<revisions, remembered, settled, store>>,
         DOMAIN reached' = Visitors, reached' = [w \in Visitors |-> reached'[w]],
         \A w \in Visitors : w # v => reached'[w] = reached[w],
         pc \in Working \ {"served"} => reached'[v] = Tenancy!PlaceInContext(v),
         ResourcesHold', tables \subseteq tables',
         pc = "statement" /\ store \notin {"mongodb", "bucket"} => reached'[v] \in tables'
  PROVE  TenancyInv'
<1>1. pc \in Steps
  BY DEF Working, Steps
<1>2. PICK f \in Visited :
        /\ visit' = [visit EXCEPT ![v] = f]
        /\ f.pc = pc /\ f.tenant = visit[v].tenant
        /\ pc # "ended" => /\ f.subject = visit[v].subject
                           /\ f.found = visit[v].found /\ f.moved = visit[v].moved
        /\ pc = "ended" => f.subject = "jwks" /\ ~f.moved
  BY <1>1, VisitGoes
<1>3. visit \in [Visitors -> Visited] /\ VisitHolds(v)
  BY DEF TenancyInv, TenancyTyped
<1>4. visit'[v] = f
  BY <1>2, <1>3
<1>5. VisitHolds(v)'
  <2>1. CASE pc = "ended"
    BY <1>2, <1>4, <2>1 DEF VisitHolds, Working
  <2>2. CASE pc \in Working
    <3>1. pc # "ended" /\ pc # "store"
      BY <2>2 DEF Working
    <3>2. Tenancy!PlaceInContext(v)' = Tenancy!PlaceInContext(v)
      BY <1>2, <1>4, <3>1, PlaceStays
    <3>3. Tenancy!Current(f.tenant)' = Tenancy!Current(f.tenant)
      BY DEF Tenancy!Current
    <3>4. /\ f.found.of = f.tenant /\ f.found.revision \in 1..revisions[f.tenant]
          /\ f.moved => f.found = Tenancy!Current(f.tenant)
          /\ f.moved => f.tenant \in settled
          /\ f.subject \in {"jwks", f.tenant}
      BY <1>2, <1>3, <3>1 DEF VisitHolds
    <3> QED
      BY <1>2, <1>4, <3>1, <3>2, <3>3, <3>4 DEF VisitHolds
  <2> QED
    BY <2>1, <2>2
<1> QED
  BY <1>2, <1>5, NothingForgotten, VisitKeeps

\* The next place is the one of the context.
LEMMA ReachesPlace ==
  ASSUME TenancyInv, NEW v \in Visitors,
         Tenancy!Reaches(v, Tenancy!PlaceInContext(v).server)
  PROVE  /\ DOMAIN reached' = Visitors /\ reached' = [w \in Visitors |-> reached'[w]]
         /\ \A w \in Visitors : w # v => reached'[w] = reached[w]
         /\ reached'[v] = Tenancy!PlaceInContext(v)
<1>1. PICK p : p = Tenancy!PlaceInContext(v)
  OBVIOUS
<1>2. p = [server |-> p.server, space |-> p.space]
  BY <1>1, PlaceRecord DEF Tenancy!PlaceInContext
<1>3. PICK q : q = [p EXCEPT !.server = p.server]
  OBVIOUS
<1>4. q = p
  BY <1>2, <1>3
<1>5. reached' = [reached EXCEPT ![v] = q]
  BY <1>1, <1>3 DEF Tenancy!Reaches
<1>6. DOMAIN reached = Visitors
  BY DEF TenancyInv, TenancyTyped
<1> QED
  BY <1>1, <1>4, <1>5, <1>6

\* Connections are kept under the server they lead to.
LEMMA PoolsLead ==
  ASSUME TenancyInv, NEW server, Tenancy!Pool(server, server)
  PROVE  pools'[server] = server /\ \A k \in DOMAIN pools' : pools'[k] = k
<1>1. \A k \in DOMAIN pools : pools[k] = k
  BY DEF TenancyInv, ResourcesHold
<1>2. pools' = [k \in DOMAIN pools \union {server} |->
                  IF k \in DOMAIN pools THEN pools[k] ELSE server]
  BY DEF Tenancy!Pool
<1> QED
  BY <1>1, <1>2

\* A step of a request that works keeps TenancyInv.
LEMMA WorksKeeps ==
  ASSUME TenancyInv, NEW v \in Visitors, Tenancy!Works(v)
  PROVE  TenancyInv'
<1>1. /\ VisitHolds(v) /\ ResourcesHold /\ DOMAIN reached = Visitors
      /\ reached = [w \in Visitors |-> reached[w]]
      /\ store \in {"postgresql", "mariadb", "mongodb", "qdrant", "bucket"}
  BY DEF TenancyInv, TenancyTyped
<1>2. CASE Tenancy!RelationalConnects(v)
  <2>1. PICK place : place = Tenancy!PlaceInContext(v)
    OBVIOUS
  <2>2. PICK pc : pc = IF reached'[v] \in ready THEN "statement" ELSE "wait"
    OBVIOUS
  <2>3. /\ visit[v].pc = "served" /\ Tenancy!Pool(place.server, place.server)
        /\ Tenancy!Reaches(v, pools'[place.server]) /\ Tenancy!Goes(v, pc)
        /\ UNCHANGED <<revisions, remembered, settled, store>>
        /\ tables' = tables /\ ready' = ready
    BY <1>2, <2>1, <2>2
      DEF Tenancy!RelationalConnects, Tenancy!Using, Tenancy!At, Tenancy!EngineKey,
          Tenancy!ReadyKey
  <2>4. pools'[place.server] = place.server /\ \A k \in DOMAIN pools' : pools'[k] = k
    BY <2>3, PoolsLead
  <2>5. /\ DOMAIN reached' = Visitors /\ reached' = [w \in Visitors |-> reached'[w]]
        /\ \A w \in Visitors : w # v => reached'[w] = reached[w]
        /\ reached'[v] = Tenancy!PlaceInContext(v)
    BY <2>1, <2>3, <2>4, ReachesPlace
  <2>6. ResourcesHold'
    BY <1>1, <2>3, <2>4 DEF ResourcesHold
  <2>7. /\ pc \in Working \union {"ended"} /\ visit[v].pc \in Working
        /\ pc = "statement" => reached'[v] \in ready
    BY <2>2, <2>3 DEF Working
  <2>8. pc = "statement" => reached'[v] \in tables'
    BY <1>1, <2>3, <2>7 DEF ResourcesHold
  <2> QED
    BY <2>3, <2>5, <2>6, <2>7, <2>8, WorkKeeps
<1>3. CASE Tenancy!TakesLock(v)
  <2>1. PICK pc : pc = IF reached[v] \in ready THEN "statement" ELSE "create"
    OBVIOUS
  <2>2. /\ visit[v].pc = "wait" /\ Tenancy!Goes(v, pc)
        /\ UNCHANGED <<revisions, remembered, settled, store>> /\ reached' = reached
        /\ pools' = pools /\ tables' = tables /\ ready' = ready
    BY <1>3, <2>1
      DEF Tenancy!TakesLock, Tenancy!At, Tenancy!ReadyKey, Tenancy!resourceVars
  <2>3. /\ pc \in Working \union {"ended"} /\ visit[v].pc \in Working
        /\ pc = "statement" => reached'[v] \in ready
    BY <2>1, <2>2 DEF Working
  <2>4. reached'[v] = Tenancy!PlaceInContext(v)
    BY <1>1, <2>2 DEF VisitHolds, Working
  <2>5. ResourcesHold' /\ (pc = "statement" => reached'[v] \in tables')
    BY <1>1, <2>2, <2>3 DEF ResourcesHold
  <2> QED
    BY <1>1, <2>2, <2>3, <2>4, <2>5, WorkKeeps
<1>4. CASE Tenancy!CreatesTables(v)
  <2>1. /\ visit[v].pc = "create" /\ Tenancy!Goes(v, "statement")
        /\ tables' = tables \union {reached[v]} /\ ready' = ready \union {reached[v]}
        /\ UNCHANGED <<revisions, remembered, settled, store>> /\ reached' = reached
        /\ pools' = pools
    BY <1>4 DEF Tenancy!CreatesTables, Tenancy!At, Tenancy!ReadyKey
  <2>2. reached'[v] = Tenancy!PlaceInContext(v) /\ reached'[v] \in tables'
    BY <1>1, <2>1 DEF VisitHolds, Working
  <2>3. ResourcesHold' /\ tables \subseteq tables'
    BY <1>1, <2>1 DEF ResourcesHold
  <2>4. "statement" \in Working \union {"ended"} /\ visit[v].pc \in Working
    BY <2>1 DEF Working
  <2> QED
    BY <1>1, <2>1, <2>2, <2>3, <2>4, WorkKeeps
<1>5. CASE Tenancy!MongoDBAcquires(v)
  <2>1. PICK place : place = Tenancy!PlaceInContext(v)
    OBVIOUS
  <2>2. /\ visit[v].pc = "served" /\ store = "mongodb"
        /\ Tenancy!Pool(place.server, place.server)
        /\ Tenancy!Reaches(v, pools'[place.server]) /\ Tenancy!Goes(v, "statement")
        /\ UNCHANGED <<revisions, remembered, settled, store>>
        /\ tables' = tables /\ ready' = ready
    BY <1>5, <2>1 DEF Tenancy!MongoDBAcquires, Tenancy!Using, Tenancy!At
  <2>3. pools'[place.server] = place.server /\ \A k \in DOMAIN pools' : pools'[k] = k
    BY <2>2, PoolsLead
  <2>4. /\ DOMAIN reached' = Visitors /\ reached' = [w \in Visitors |-> reached'[w]]
        /\ \A w \in Visitors : w # v => reached'[w] = reached[w]
        /\ reached'[v] = Tenancy!PlaceInContext(v)
    BY <2>1, <2>2, <2>3, ReachesPlace
  <2>5. ResourcesHold'
    BY <1>1, <2>2, <2>3 DEF ResourcesHold
  <2>6. "statement" \in Working \union {"ended"} /\ visit[v].pc \in Working
    BY <2>2 DEF Working
  <2> QED
    BY <2>2, <2>4, <2>5, <2>6, WorkKeeps
<1>6. CASE Tenancy!BucketClient(v)
  <2>1. /\ visit[v].pc = "served" /\ store = "bucket"
        /\ Tenancy!Reaches(v, Tenancy!PlaceInContext(v).server)
        /\ Tenancy!Goes(v, "statement")
        /\ UNCHANGED <<revisions, remembered, settled, store>>
        /\ pools' = pools /\ tables' = tables /\ ready' = ready
    BY <1>6 DEF Tenancy!BucketClient, Tenancy!Using, Tenancy!At
  <2>2. /\ DOMAIN reached' = Visitors /\ reached' = [w \in Visitors |-> reached'[w]]
        /\ \A w \in Visitors : w # v => reached'[w] = reached[w]
        /\ reached'[v] = Tenancy!PlaceInContext(v)
    BY <2>1, ReachesPlace
  <2>3. ResourcesHold'
    BY <1>1, <2>1 DEF ResourcesHold
  <2>4. "statement" \in Working \union {"ended"} /\ visit[v].pc \in Working
    BY <2>1 DEF Working
  <2> QED
    BY <2>1, <2>2, <2>3, <2>4, WorkKeeps
<1>7. CASE Tenancy!QdrantScope(v)
  <2>1. /\ visit[v].pc = "served"
        /\ Tenancy!Reaches(v, Tenancy!PlaceInContext(v).server)
        /\ Tenancy!Goes(v, "exists")
        /\ UNCHANGED <<revisions, remembered, settled, store>>
        /\ pools' = pools /\ tables' = tables /\ ready' = ready
    BY <1>7 DEF Tenancy!QdrantScope, Tenancy!Using, Tenancy!At
  <2>2. /\ DOMAIN reached' = Visitors /\ reached' = [w \in Visitors |-> reached'[w]]
        /\ \A w \in Visitors : w # v => reached'[w] = reached[w]
        /\ reached'[v] = Tenancy!PlaceInContext(v)
    BY <2>1, ReachesPlace
  <2>3. ResourcesHold'
    BY <1>1, <2>1 DEF ResourcesHold
  <2>4. "exists" \in Working \union {"ended"} /\ visit[v].pc \in Working
    BY <2>1 DEF Working
  <2> QED
    BY <2>1, <2>2, <2>3, <2>4, WorkKeeps
<1>8. CASE Tenancy!CollectionExists(v)
  <2>1. PICK pc : pc = IF reached[v] \in tables THEN "statement" ELSE "create"
    OBVIOUS
  <2>2. /\ visit[v].pc = "exists" /\ Tenancy!Goes(v, pc)
        /\ UNCHANGED <<revisions, remembered, settled, store>> /\ reached' = reached
        /\ pools' = pools /\ tables' = tables /\ ready' = ready
    BY <1>8, <2>1 DEF Tenancy!CollectionExists, Tenancy!At, Tenancy!resourceVars
  <2>3. /\ pc \in Working \union {"ended"} /\ visit[v].pc \in Working
        /\ pc = "statement" => reached'[v] \in tables'
    BY <2>1, <2>2 DEF Working
  <2>4. reached'[v] = Tenancy!PlaceInContext(v)
    BY <1>1, <2>2 DEF VisitHolds, Working
  <2>5. ResourcesHold'
    BY <1>1, <2>2 DEF ResourcesHold
  <2> QED
    BY <1>1, <2>2, <2>3, <2>4, <2>5, WorkKeeps
<1>9. CASE Tenancy!CreatesCollection(v)
  <2>1. PICK pc : pc = IF reached[v] \in tables THEN "ended" ELSE "statement"
    OBVIOUS
  <2>2. /\ visit[v].pc = "create" /\ Tenancy!Goes(v, pc)
        /\ tables' = tables \union {reached[v]} /\ ready' = ready
        /\ UNCHANGED <<revisions, remembered, settled, store>> /\ reached' = reached
        /\ pools' = pools
    BY <1>9, <2>1 DEF Tenancy!CreatesCollection, Tenancy!At
  <2>3. pc \in Working \union {"ended"} /\ visit[v].pc \in Working
    BY <2>1, <2>2 DEF Working
  <2>4. reached'[v] = Tenancy!PlaceInContext(v) /\ reached'[v] \in tables'
    BY <1>1, <2>2 DEF VisitHolds, Working
  <2>5. ResourcesHold' /\ tables \subseteq tables'
    BY <1>1, <2>2 DEF ResourcesHold
  <2> QED
    BY <1>1, <2>2, <2>3, <2>4, <2>5, WorkKeeps
<1>10. CASE Tenancy!Statement(v)
  <2>1. PICK pc \in {"served", "ended"} : Tenancy!Goes(v, pc)
    BY <1>10 DEF Tenancy!Statement
  <2>2. /\ visit[v].pc = "statement"
        /\ UNCHANGED <<revisions, remembered, settled, store>> /\ reached' = reached
        /\ pools' = pools /\ tables' = tables /\ ready' = ready
    BY <1>10 DEF Tenancy!Statement, Tenancy!At, Tenancy!resourceVars
  <2>3. /\ pc \in Working \union {"ended"} /\ visit[v].pc \in Working
        /\ pc \notin Working \ {"served"} /\ pc # "statement"
    BY <2>1, <2>2 DEF Working
  <2>4. ResourcesHold'
    BY <1>1, <2>2 DEF ResourcesHold
  <2> QED
    BY <1>1, <2>1, <2>2, <2>3, <2>4, WorkKeeps
<1>11. CASE Tenancy!OperationFails(v)
  <2>1. /\ visit[v].pc \in {"wait", "exists", "create", "statement"}
        /\ Tenancy!Goes(v, "ended")
        /\ tables' = tables \/ tables' = tables \union {reached[v]}
        /\ UNCHANGED <<revisions, remembered, settled, store>> /\ reached' = reached
        /\ pools' = pools /\ ready' = ready
    BY <1>11 DEF Tenancy!OperationFails
  <2>2. /\ visit[v].pc \in Working /\ "ended" \in Working \union {"ended"}
        /\ "ended" \notin Working
    BY <2>1 DEF Working
  <2>3. ResourcesHold' /\ tables \subseteq tables'
    BY <1>1, <2>1 DEF ResourcesHold
  <2> QED
    BY <1>1, <2>1, <2>2, <2>3, WorkKeeps
<1> QED
  BY <1>2, <1>3, <1>4, <1>5, <1>6, <1>7, <1>8, <1>9, <1>10, <1>11 DEF Tenancy!Works

-----------------------------------------------------------------------------
(* Outside.                                                                 *)

\* A revision more, of a subject that nothing is settled about.
LEMMA ChangesKeeps ==
  ASSUME TenancyInv, NEW subject \in Tenancy!Subjects, Tenancy!Changes(subject),
         UNCHANGED <<store, reached, pools, tables, ready>>
  PROVE  TenancyInv'
<1>1. /\ revisions[subject] < MaxRevision /\ settled' = settled \ {subject}
      /\ revisions' = [revisions EXCEPT ![subject] = revisions[subject] + 1]
      /\ visit' = [v \in Visitors |->
           [visit[v] EXCEPT !.moved = visit[v].moved /\ visit[v].tenant # subject]]
      /\ remembered' = remembered
  BY DEF Tenancy!Changes
<1>2. /\ TenancyTyped /\ revisions \in [Tenancy!Subjects -> 1..MaxRevision]
      /\ \A s \in Tenancy!Subjects : SubjectHolds(s)
      /\ \A v \in Visitors : VisitHolds(v)
  BY DEF TenancyInv, TenancyTyped
<1>3. /\ revisions' \in [Tenancy!Subjects -> 1..MaxRevision]
      /\ \A s \in Tenancy!Subjects : 1..revisions[s] \subseteq 1..revisions'[s]
      /\ \A s \in Tenancy!Subjects : s # subject => revisions'[s] = revisions[s]
  BY <1>1, <1>2, TenancyAssumed
<1>4. ASSUME NEW v \in Visitors
      PROVE  /\ visit'[v] \in Visited
             /\ visit'[v].pc = visit[v].pc /\ visit'[v].tenant = visit[v].tenant
             /\ visit'[v].subject = visit[v].subject /\ visit'[v].found = visit[v].found
             /\ visit'[v].moved => visit[v].moved /\ visit[v].tenant # subject
  <2>1. PICK moved : moved = (visit[v].moved /\ visit[v].tenant # subject)
    OBVIOUS
  <2>2. moved \in BOOLEAN
    BY <2>1
  <2>3. PICK f : f = [visit[v] EXCEPT !.moved = moved]
    OBVIOUS
  <2>4. visit[v] \in Visited
    BY <1>2 DEF TenancyTyped
  <2>5. f = [pc |-> visit[v].pc, tenant |-> visit[v].tenant, key |-> visit[v].key,
             subject |-> visit[v].subject, found |-> visit[v].found, moved |-> moved]
    BY <2>3, <2>4 DEF Visited
  <2>6. visit'[v] = f
    BY <1>1, <2>1, <2>3
  <2>7. f \in Visited
    BY <2>2, <2>4, <2>5 DEF Visited
  <2>8. /\ f.pc = visit[v].pc /\ f.tenant = visit[v].tenant
        /\ f.subject = visit[v].subject /\ f.found = visit[v].found
    BY <2>5
  <2>9. f.moved = moved
    BY <2>5
  <2>10. f.moved => visit[v].moved /\ visit[v].tenant # subject
    BY <2>1, <2>9
  <2> QED
    BY <2>6, <2>7, <2>8, <2>10
<1>5. visit' \in [Visitors -> Visited]
  BY <1>1, <1>4
<1>6. TenancyTyped'
  BY <1>1, <1>2, <1>3, <1>5 DEF TenancyTyped
<1>7. ASSUME NEW s \in Tenancy!Subjects, NEW value, IsRevision(value, s)
      PROVE  /\ value.of = s /\ value.revision \in 1..revisions'[s]
             /\ s \in settled' => value = [of |-> s, revision |-> revisions'[s]]
  BY <1>1, <1>3, <1>7 DEF IsRevision, Tenancy!Current
<1>8. ASSUME NEW s \in Tenancy!Subjects
      PROVE  SubjectHolds(s)'
  BY <1>1, <1>2, <1>7 DEF SubjectHolds, IsRevision, Tenancy!Current
<1>9. ASSUME NEW v \in Visitors
      PROVE  VisitHolds(v)'
  <2>1. VisitHolds(v) /\ visit[v].subject \in Tenancy!Subjects
        /\ visit[v].tenant \in Tenancy!Subjects
    BY <1>2, TenancyAssumed DEF TenancyTyped, Visited
  <2>2. Tenancy!PlaceInContext(v)' = Tenancy!PlaceInContext(v)
    BY <1>4, PlaceStays
  <2>3. visit'[v].moved => visit'[v].tenant \in settled'
    BY <1>1, <1>4, <2>1 DEF VisitHolds
  <2>4. visit'[v].pc = "store" => IsRevision(visit[v].found, visit[v].subject)
    BY <1>4, <2>1 DEF VisitHolds
  <2>5. visit'[v].pc = "store" =>
          /\ visit'[v].found.of = visit'[v].subject
          /\ visit'[v].found.revision \in 1..revisions'[visit'[v].subject]
          /\ visit'[v].subject \in settled' =>
               visit'[v].found = [of |-> visit'[v].subject,
                                  revision |-> revisions'[visit'[v].subject]]
    BY <1>4, <1>7, <2>1, <2>4
  <2>6. visit'[v].pc \in Working =>
          /\ visit'[v].found.of = visit'[v].tenant
          /\ visit'[v].found.revision \in 1..revisions'[visit'[v].tenant]
          /\ visit'[v].moved =>
               visit'[v].found = [of |-> visit'[v].tenant,
                                  revision |-> revisions'[visit'[v].tenant]]
    BY <1>3, <1>4, <2>1 DEF VisitHolds, Tenancy!Current
  <2>7. /\ visit'[v].subject \in {"jwks", visit'[v].tenant}
        /\ visit'[v].pc \in Working \ {"served"} =>
             reached'[v] = Tenancy!PlaceInContext(v)'
        /\ visit'[v].pc = "statement" /\ store' \notin {"mongodb", "bucket"} =>
             reached'[v] \in tables'
    BY <1>4, <2>1, <2>2 DEF VisitHolds
  <2> QED
    BY <2>3, <2>5, <2>6, <2>7 DEF VisitHolds, IsRevision, Tenancy!Current
<1>10. ResourcesHold'
  BY DEF TenancyInv, ResourcesHold
<1> QED
  BY <1>6, <1>8, <1>9, <1>10 DEF TenancyInv

\* An entry of the cache ends; its subject is settled if nobody will store an old one.
LEMMA ForgetsKeeps ==
  ASSUME TenancyInv, NEW subject \in Tenancy!Subjects, Tenancy!Forgets(subject),
         UNCHANGED <<store, reached, pools, tables, ready>>
  PROVE  TenancyInv'
<1>1. /\ remembered' = [remembered EXCEPT ![subject] = Tenancy!Unknown]
      /\ revisions' = revisions /\ visit' = visit
  BY DEF Tenancy!Forgets
<1>2. /\ TenancyTyped /\ \A s \in Tenancy!Subjects : SubjectHolds(s)
      /\ \A v \in Visitors : VisitHolds(v)
  BY DEF TenancyInv
<1>3. /\ settled \subseteq settled' /\ settled' \subseteq Tenants
      /\ \A s \in settled' \ settled : s = subject /\
           \A v \in Visitors : visit[v].pc = "store" /\ visit[v].subject = subject =>
             visit[v].found = Tenancy!Current(subject)
  BY <1>2 DEF Tenancy!Forgets, Tenancy!At, TenancyTyped
<1>4. Tenancy!Unknown \in Revised
  BY TenancyAssumed DEF Revised
<1>5. TenancyTyped'
  BY <1>1, <1>2, <1>3, <1>4 DEF TenancyTyped
<1>6. ASSUME NEW s \in Tenancy!Subjects
      PROVE  SubjectHolds(s)'
  <2>1. CASE s = subject
    <3>1. remembered'[s] = Tenancy!Unknown
      BY <1>1, <1>2, <2>1 DEF TenancyTyped
    <3> QED
      BY <3>1 DEF SubjectHolds, Tenancy!Unknown
  <2>2. CASE s # subject
    <3>1. remembered'[s] = remembered[s] /\ (s \in settled' => s \in settled)
      BY <1>1, <1>2, <1>3, <2>2 DEF TenancyTyped
    <3> QED
      BY <1>1, <1>2, <3>1
        DEF SubjectHolds, IsRevision, Tenancy!Current, Tenancy!Unknown
  <2> QED
    BY <2>1, <2>2
<1>7. ASSUME NEW v \in Visitors
      PROVE  VisitHolds(v)'
  <2>1. VisitHolds(v)
    BY <1>2
  <2>2. Tenancy!PlaceInContext(v)' = Tenancy!PlaceInContext(v)
    BY <1>1, PlaceStays
  <2>3. visit[v].pc = "store" => IsRevision(visit[v].found, visit[v].subject)
    BY <2>1 DEF VisitHolds
  <2>4. visit[v].pc = "store" => IsRevision(visit[v].found, visit[v].subject)'
    BY <1>1, <1>3, <2>3 DEF IsRevision, Tenancy!Current
  <2> QED
    BY <1>1, <1>3, <2>1, <2>2, <2>4 DEF VisitHolds, IsRevision, Tenancy!Current
<1>8. ResourcesHold'
  BY DEF TenancyInv, ResourcesHold
<1> QED
  BY <1>5, <1>6, <1>7, <1>8 DEF TenancyInv

\* A step of the whole keeps TenancyInv.
LEMMA TenancyNext == TenancyInv /\ [Next]_vars => TenancyInv'
<1> SUFFICES ASSUME TenancyInv, [Next]_vars PROVE TenancyInv'
  OBVIOUS
<1>1. CASE UNCHANGED tenancyVars
  <2>1. TenancyTyped' /\ ResourcesHold'
    BY <1>1 DEF tenancyVars, TenancyInv, TenancyTyped, ResourcesHold
  <2>2. \A s \in Tenancy!Subjects : SubjectHolds(s)'
    BY <1>1 DEF tenancyVars, TenancyInv, SubjectHolds, IsRevision, Tenancy!Current
  <2>3. ASSUME NEW v \in Visitors
        PROVE  VisitHolds(v)'
    <3>1. VisitHolds(v)
      BY DEF TenancyInv
    <3>2. Tenancy!PlaceInContext(v)' = Tenancy!PlaceInContext(v)
      BY <1>1, PlaceStays DEF tenancyVars
    <3> QED
      BY <1>1, <3>1, <3>2 DEF tenancyVars, VisitHolds, IsRevision, Tenancy!Current
  <2> QED
    BY <2>1, <2>2, <2>3 DEF TenancyInv
<1>2. CASE Tenancy!TenancyNext
  <2>1. ASSUME NEW v \in Visitors, Tenancy!Visits(v),
               UNCHANGED <<store, reached, pools, tables, ready>>
        PROVE  TenancyInv'
    BY <2>1, ArrivesKeeps, LooksUpKeeps, FetchesKeeps, RemembersKeeps,
      ResolutionFailsKeeps DEF Tenancy!Visits
  <2>2. ASSUME NEW s \in Tenancy!Subjects, Tenancy!Changes(s) \/ Tenancy!Forgets(s),
               UNCHANGED <<store, reached, pools, tables, ready>>
        PROVE  TenancyInv'
    BY <2>2, ChangesKeeps, ForgetsKeeps
  <2> QED
    BY <1>2, <2>1, <2>2, WorksKeeps
      DEF Tenancy!TenancyNext, Tenancy!Surroundings, Tenancy!resourceVars
<1> QED
  BY <1>1, <1>2 DEF Next, OthersRest, vars, tenancyVars

\* TenancyInv holds in every state.
LEMMA TenancyInvariant == Spec => []TenancyInv
  BY TenancyInit, TenancyNext, PTL DEF Spec

\* A statement runs where a secret of the tenant says, and where it says now once moved.
LEMMA RequestsStayApart == TenancyInv => Tenancy!TenantsStayApart
<1> SUFFICES ASSUME TenancyInv, NEW v \in Visitors, visit[v].pc = "statement"
             PROVE  /\ reached[v] \in Tenancy!PlacesOf(visit[v].tenant)
                    /\ visit[v].moved =>
                         reached[v] = Tenancy!PlaceNow(visit[v].tenant)
  BY DEF Tenancy!TenantsStayApart, Tenancy!At
<1>1. /\ visit[v].found.of = visit[v].tenant
      /\ visit[v].found.revision \in 1..revisions[visit[v].tenant]
      /\ visit[v].moved => visit[v].found = Tenancy!Current(visit[v].tenant)
      /\ reached[v] = Tenancy!PlaceInContext(v)
  BY DEF TenancyInv, VisitHolds, Working
<1>2. reached[v] = Tenancy!Place(Coordinates[visit[v].tenant][visit[v].found.revision])
  BY <1>1 DEF Tenancy!PlaceInContext
<1>3. reached[v] \in Tenancy!PlacesOf(visit[v].tenant)
  BY <1>1, <1>2 DEF Tenancy!PlacesOf
<1>4. visit[v].moved => visit[v].found.revision = revisions[visit[v].tenant]
  BY <1>1 DEF Tenancy!Current
<1> QED
  BY <1>2, <1>3, <1>4 DEF Tenancy!PlaceNow

\* A statement finds the table of its place.
LEMMA RequestsFindTables == TenancyInv => Tenancy!StatementsFindTables
  BY DEF TenancyInv, VisitHolds, Tenancy!StatementsFindTables, Tenancy!At

-----------------------------------------------------------------------------
(* TelemetryLifecycle.                                                      *)

InUse == {"instrument", "started", "release"}
Held ==
  [pc : InUse \union {"new", "closed"}, holds : BOOLEAN, keys : Nat,
   instrumented : BOOLEAN]

TelemetryTyped ==
  /\ profile \in [Runtimes -> Telemetry!Profiles]
  /\ runtime \in [Runtimes -> Held]
  /\ managed \in [set : BOOLEAN, references : Int, closed : BOOLEAN, down : BOOLEAN]
  /\ attached \in [references : Int, up : BOOLEAN]
  /\ httpx \in [references : Int, on : BOOLEAN]
  /\ spoiled \in BOOLEAN

\* Who uses the providers, the processor and the instrumentation.
ManagedUsers == {r \in Runtimes : profile[r].mode = "managed" /\ runtime[r].pc \in InUse}
AttachUsers == {r \in Runtimes : profile[r].mode = "attach" /\ runtime[r].pc \in InUse}
HttpxUsers == {r \in Runtimes : runtime[r].instrumented}

\* The references are as many as the users; what was shut down has none.
ManagedHolds ==
  /\ IsFiniteSet(ManagedUsers) /\ managed.references = Cardinality(ManagedUsers)
  /\ managed.down <=> managed.closed
  /\ managed.down => ManagedUsers = {}
  /\ managed.set /\ ManagedUsers = {} => managed.down
  /\ ~managed.set => ManagedUsers = {}
AttachHolds ==
  /\ IsFiniteSet(AttachUsers) /\ attached.references = Cardinality(AttachUsers)
  /\ attached.up <=> AttachUsers # {}
HttpxHolds ==
  /\ IsFiniteSet(HttpxUsers) /\ httpx.references = Cardinality(HttpxUsers)
  /\ httpx.on <=> HttpxUsers # {}
RuntimeHolds(r) ==
  /\ r \in AttachUsers => runtime[r].keys = 1
  /\ r \notin AttachUsers => runtime[r].keys = 0
  /\ runtime[r].instrumented => runtime[r].pc = "started"

TelemetryInv ==
  /\ TelemetryTyped
  /\ ~spoiled => /\ ManagedHolds /\ AttachHolds /\ HttpxHolds
                 /\ \A r \in Runtimes : RuntimeHolds(r)

\* One user more.
LEMMA UserAdded ==
  ASSUME NEW S, IsFiniteSet(S), NEW r, r \notin S
  PROVE  /\ IsFiniteSet(S \union {r}) /\ Cardinality(S \union {r}) = Cardinality(S) + 1
         /\ Cardinality(S) \in Nat
BY FS_AddElement, FS_CardinalityType

\* One user less.
LEMMA UserRemoved ==
  ASSUME NEW S, IsFiniteSet(S), NEW r \in S
  PROVE  /\ IsFiniteSet(S \ {r}) /\ Cardinality(S \ {r}) = Cardinality(S) - 1
         /\ Cardinality(S) \in Nat /\ Cardinality(S) > 0
         /\ Cardinality(S) <= 1 <=> S \ {r} = {}
<1>1. /\ IsFiniteSet(S \ {r}) /\ Cardinality(S \ {r}) = Cardinality(S) - 1
      /\ Cardinality(S) \in Nat /\ Cardinality(S \ {r}) \in Nat
  BY FS_RemoveElement, FS_CardinalityType
<1>2. Cardinality(S \ {r}) = 0 <=> S \ {r} = {}
  BY <1>1, FS_EmptySet
<1> QED
  BY <1>1, <1>2

\* Nobody uses anything at first.
LEMMA TelemetryInit == Init => TelemetryInv
<1> SUFFICES ASSUME Init PROVE TelemetryInv
  OBVIOUS
<1>1. /\ profile \in [Runtimes -> Telemetry!Profiles]
      /\ runtime = [r \in Runtimes |-> Telemetry!New]
      /\ managed = Telemetry!Unset /\ attached = Telemetry!Detached
      /\ httpx = [references |-> 0, on |-> FALSE] /\ spoiled = FALSE
  BY DEF Init, Telemetry!TelemetryInit
<1>2. Telemetry!New \in Held
  BY DEF Telemetry!New, Held, InUse
<1>3. TelemetryTyped
  <2>1. managed \in [set : BOOLEAN, references : Int, closed : BOOLEAN, down : BOOLEAN]
    BY <1>1 DEF Telemetry!Unset
  <2>2. attached \in [references : Int, up : BOOLEAN]
    BY <1>1 DEF Telemetry!Detached
  <2>3. httpx \in [references : Int, on : BOOLEAN]
    BY <1>1
  <2>4. runtime \in [Runtimes -> Held] /\ spoiled \in BOOLEAN
    BY <1>1, <1>2
  <2> QED
    BY <1>1, <2>1, <2>2, <2>3, <2>4 DEF TelemetryTyped
<1>4. ManagedUsers = {} /\ AttachUsers = {} /\ HttpxUsers = {}
  BY <1>1 DEF ManagedUsers, AttachUsers, HttpxUsers, Telemetry!New, InUse
<1>5. IsFiniteSet({}) /\ Cardinality({}) = 0
  BY FS_EmptySet
<1>6. ManagedHolds /\ AttachHolds /\ HttpxHolds
  BY <1>1, <1>4, <1>5
    DEF ManagedHolds, AttachHolds, HttpxHolds, Telemetry!Unset, Telemetry!Detached
<1>7. \A r \in Runtimes : RuntimeHolds(r)
  BY <1>1, <1>4 DEF RuntimeHolds, Telemetry!New
<1> QED
  BY <1>3, <1>6, <1>7 DEF TelemetryInv

\* What a step of one runtime makes of the users.
LEMMA UsersAfter ==
  ASSUME TelemetryInv, NEW r \in Runtimes, NEW f \in Held,
         runtime' = [runtime EXCEPT ![r] = f], profile' = profile
  PROVE  /\ (f.pc \in InUse <=> runtime[r].pc \in InUse) =>
              ManagedUsers' = ManagedUsers /\ AttachUsers' = AttachUsers
         /\ profile[r].mode = "managed" => AttachUsers' = AttachUsers
         /\ profile[r].mode = "attach" => ManagedUsers' = ManagedUsers
         /\ profile[r].mode = "managed" /\ runtime[r].pc \notin InUse /\ f.pc \in InUse =>
              ManagedUsers' = ManagedUsers \union {r} /\ r \notin ManagedUsers
         /\ profile[r].mode = "managed" /\ runtime[r].pc \in InUse /\ f.pc \notin InUse =>
              ManagedUsers' = ManagedUsers \ {r} /\ r \in ManagedUsers
         /\ profile[r].mode = "attach" /\ runtime[r].pc \notin InUse /\ f.pc \in InUse =>
              AttachUsers' = AttachUsers \union {r} /\ r \notin AttachUsers
         /\ profile[r].mode = "attach" /\ runtime[r].pc \in InUse /\ f.pc \notin InUse =>
              AttachUsers' = AttachUsers \ {r} /\ r \in AttachUsers
         /\ (f.instrumented <=> runtime[r].instrumented) => HttpxUsers' = HttpxUsers
         /\ f.instrumented /\ ~runtime[r].instrumented =>
              HttpxUsers' = HttpxUsers \union {r} /\ r \notin HttpxUsers
         /\ ~f.instrumented /\ runtime[r].instrumented =>
              HttpxUsers' = HttpxUsers \ {r} /\ r \in HttpxUsers
<1>1. \A s \in Runtimes : runtime'[s] = IF s = r THEN f ELSE runtime[s]
  BY DEF TelemetryInv, TelemetryTyped
<1>2. /\ ManagedUsers' = {s \in Runtimes : profile[s].mode = "managed"
                                           /\ runtime'[s].pc \in InUse}
      /\ AttachUsers' = {s \in Runtimes : profile[s].mode = "attach"
                                          /\ runtime'[s].pc \in InUse}
      /\ HttpxUsers' = {s \in Runtimes : runtime'[s].instrumented}
  BY DEF ManagedUsers, AttachUsers, HttpxUsers
<1> QED
  BY <1>1, <1>2 DEF ManagedUsers, AttachUsers, HttpxUsers

\* One runtime changes, and what is shared with it.
LEMMA RuntimeKeeps ==
  ASSUME TelemetryInv, NEW r \in Runtimes, NEW f \in Held,
         runtime' = [runtime EXCEPT ![r] = f], profile' = profile,
         managed' \in [set : BOOLEAN, references : Int, closed : BOOLEAN, down : BOOLEAN],
         attached' \in [references : Int, up : BOOLEAN],
         httpx' \in [references : Int, on : BOOLEAN],
         spoiled' \in BOOLEAN, spoiled => spoiled',
         ~spoiled' => ManagedHolds' /\ AttachHolds' /\ HttpxHolds' /\ RuntimeHolds(r)'
  PROVE  TelemetryInv'
<1>1. TelemetryTyped'
  BY DEF TelemetryInv, TelemetryTyped
<1>2. ASSUME ~spoiled', NEW s \in Runtimes
      PROVE  RuntimeHolds(s)'
  <2>1. CASE s = r
    BY <1>2, <2>1
  <2>2. CASE s # r
    <3>1. runtime'[s] = runtime[s]
      BY <2>2 DEF TelemetryInv, TelemetryTyped
    <3>2. s \in AttachUsers' <=> s \in AttachUsers
      BY <3>1 DEF AttachUsers
    <3>3. RuntimeHolds(s)
      BY <1>2 DEF TelemetryInv
    <3> QED
      BY <3>1, <3>2, <3>3 DEF RuntimeHolds
  <2> QED
    BY <2>1, <2>2
<1> QED
  BY <1>1, <1>2 DEF TelemetryInv

\* A runtime goes to another place with what it holds.
LEMMA RuntimeBecomes ==
  ASSUME TelemetryInv, NEW r \in Runtimes, NEW pc \in InUse \union {"new", "closed"},
         Telemetry!Becomes(r, pc)
  PROVE  \E f \in Held : /\ runtime' = [runtime EXCEPT ![r] = f]
                         /\ f.pc = pc /\ f.keys = runtime[r].keys
                         /\ f.instrumented = runtime[r].instrumented
<1>1. runtime[r] \in Held
  BY DEF TelemetryInv, TelemetryTyped
<1>2. PICK f : f = [runtime[r] EXCEPT !.pc = pc]
  OBVIOUS
<1>3. runtime' = [runtime EXCEPT ![r] = f]
  BY <1>2 DEF Telemetry!Becomes
<1>4. f = [pc |-> pc, holds |-> runtime[r].holds, keys |-> runtime[r].keys,
           instrumented |-> runtime[r].instrumented]
  BY <1>1, <1>2 DEF Held
<1>5. f \in Held
  BY <1>1, <1>4 DEF Held
<1>6. f.pc = pc /\ f.keys = runtime[r].keys
  BY <1>4
<1>7. f.instrumented = runtime[r].instrumented
  BY <1>4
<1> QED
  BY <1>3, <1>5, <1>6, <1>7

\* The first start makes the providers, the others count one more reference.
LEMMA StartManagedKeeps ==
  ASSUME TelemetryInv, NEW r \in Runtimes, Telemetry!StartManaged(r)
  PROVE  TelemetryInv'
<1>1. /\ runtime[r].pc = "new" /\ profile[r].mode = "managed" /\ ~managed.closed
      /\ managed' = Telemetry!Adopted /\ profile' = profile /\ attached' = attached
      /\ httpx' = httpx /\ spoiled' = spoiled
  BY DEF Telemetry!StartManaged, Telemetry!Is, Telemetry!Uses
<1>2. TelemetryTyped /\ runtime[r] \in Held
  BY DEF TelemetryInv, TelemetryTyped
<1>3. PICK g : g = [runtime[r] EXCEPT !.pc = "instrument"]
  OBVIOUS
<1>4. g = [pc |-> "instrument", holds |-> runtime[r].holds, keys |-> runtime[r].keys,
           instrumented |-> runtime[r].instrumented]
  BY <1>2, <1>3 DEF Held
<1>5. PICK f : f = [g EXCEPT !.holds = TRUE]
  OBVIOUS
<1>6. f = [pc |-> "instrument", holds |-> TRUE, keys |-> runtime[r].keys,
           instrumented |-> runtime[r].instrumented]
  BY <1>4, <1>5
<1>7. runtime' = [runtime EXCEPT ![r] = f]
  BY <1>2, <1>3, <1>5 DEF Telemetry!StartManaged, TelemetryTyped
<1>8. f \in Held
  BY <1>2, <1>6 DEF Held, InUse
<1>9. f.pc = "instrument" /\ f.keys = runtime[r].keys
  BY <1>6
<1>10. f.instrumented = runtime[r].instrumented
  BY <1>6
<1>11. runtime'[r] = f
  BY <1>2, <1>7 DEF TelemetryTyped
<1>12. /\ managed' \in [set : BOOLEAN, references : Int, closed : BOOLEAN, down : BOOLEAN]
       /\ managed'.set /\ ~managed'.closed
       /\ managed.set => managed'.references = managed.references + 1
                         /\ (managed'.down <=> managed.down)
       /\ ~managed.set => managed'.references = 1 /\ ~managed'.down
  <2>1. CASE managed.set
    <3>1. PICK n : n = managed.references + 1
      OBVIOUS
    <3>2. managed' = [managed EXCEPT !.references = n]
      BY <1>1, <2>1, <3>1 DEF Telemetry!Adopted
    <3>3. managed' = [set |-> managed.set, references |-> n, closed |-> managed.closed,
                      down |-> managed.down]
      BY <1>2, <3>2 DEF TelemetryTyped
    <3> QED
      BY <1>1, <1>2, <2>1, <3>1, <3>3 DEF TelemetryTyped
  <2>2. CASE ~managed.set
    <3>1. managed' = [Telemetry!Unset EXCEPT !.set = TRUE, !.references = 1]
      BY <1>1, <2>2 DEF Telemetry!Adopted
    <3>2. managed' = [set |-> TRUE, references |-> 1, closed |-> FALSE, down |-> FALSE]
      BY <3>1 DEF Telemetry!Unset
    <3> QED
      BY <2>2, <3>2
  <2> QED
    BY <2>1, <2>2
<1>13. ASSUME ~spoiled'
       PROVE  ManagedHolds' /\ AttachHolds' /\ HttpxHolds' /\ RuntimeHolds(r)'
  <2>1. ManagedHolds /\ AttachHolds /\ HttpxHolds /\ RuntimeHolds(r)
    BY <1>1, <1>13 DEF TelemetryInv
  <2>2. /\ AttachUsers' = AttachUsers /\ HttpxUsers' = HttpxUsers
        /\ ManagedUsers' = ManagedUsers \union {r} /\ r \notin ManagedUsers
    BY <1>1, <1>7, <1>8, <1>9, <1>10, UsersAfter DEF InUse
  <2>3. AttachHolds' /\ HttpxHolds'
    BY <1>1, <2>1, <2>2 DEF AttachHolds, HttpxHolds
  <2>4. /\ IsFiniteSet(ManagedUsers')
        /\ Cardinality(ManagedUsers') = managed.references + 1
    BY <2>1, <2>2, UserAdded DEF ManagedHolds
  <2>5. ~managed.set => managed.references = 0
    BY <2>1, FS_EmptySet DEF ManagedHolds
  <2>6. ManagedHolds'
    BY <1>1, <1>12, <2>1, <2>2, <2>4, <2>5 DEF ManagedHolds
  <2>7. RuntimeHolds(r)'
    BY <1>1, <1>9, <1>10, <1>11, <2>1, <2>2 DEF RuntimeHolds
  <2> QED
    BY <2>3, <2>6, <2>7
<1> QED
  BY <1>1, <1>2, <1>7, <1>8, <1>12, <1>13, RuntimeKeeps DEF TelemetryTyped

\* A processor is attached, or one reference more counted.
LEMMA StartAttachKeeps ==
  ASSUME TelemetryInv, NEW r \in Runtimes, Telemetry!StartAttach(r)
  PROVE  TelemetryInv'
<1>1. /\ runtime[r].pc = "new" /\ profile[r].mode = "attach"
      /\ attached' = [references |-> attached.references + 1, up |-> TRUE]
      /\ profile' = profile /\ managed' = managed /\ httpx' = httpx /\ spoiled' = spoiled
  BY DEF Telemetry!StartAttach, Telemetry!Is, Telemetry!Uses
<1>2. TelemetryTyped /\ runtime[r] \in Held
  BY DEF TelemetryInv, TelemetryTyped
<1>3. PICK g : g = [runtime[r] EXCEPT !.pc = "instrument"]
  OBVIOUS
<1>4. g = [pc |-> "instrument", holds |-> runtime[r].holds, keys |-> runtime[r].keys,
           instrumented |-> runtime[r].instrumented]
  BY <1>2, <1>3 DEF Held
<1>5. PICK keys : keys = runtime[r].keys + 1
  OBVIOUS
<1>6. PICK f : f = [g EXCEPT !.keys = keys]
  OBVIOUS
<1>7. f = [pc |-> "instrument", holds |-> runtime[r].holds, keys |-> keys,
           instrumented |-> runtime[r].instrumented]
  BY <1>4, <1>6
<1>8. runtime' = [runtime EXCEPT ![r] = f]
  BY <1>2, <1>3, <1>5, <1>6 DEF Telemetry!StartAttach, TelemetryTyped, Held
<1>9. f \in Held
  BY <1>2, <1>5, <1>7 DEF Held, InUse
<1>10. f.pc = "instrument" /\ f.keys = runtime[r].keys + 1
  BY <1>5, <1>7
<1>11. f.instrumented = runtime[r].instrumented
  BY <1>7
<1>12. runtime'[r] = f
  BY <1>2, <1>8 DEF TelemetryTyped
<1>13. ASSUME ~spoiled'
       PROVE  ManagedHolds' /\ AttachHolds' /\ HttpxHolds' /\ RuntimeHolds(r)'
  <2>1. ManagedHolds /\ AttachHolds /\ HttpxHolds /\ RuntimeHolds(r)
    BY <1>1, <1>13 DEF TelemetryInv
  <2>2. /\ ManagedUsers' = ManagedUsers /\ HttpxUsers' = HttpxUsers
        /\ AttachUsers' = AttachUsers \union {r} /\ r \notin AttachUsers
    BY <1>1, <1>8, <1>9, <1>10, <1>11, UsersAfter DEF InUse
  <2>3. ManagedHolds' /\ HttpxHolds'
    BY <1>1, <2>1, <2>2 DEF ManagedHolds, HttpxHolds
  <2>4. /\ IsFiniteSet(AttachUsers')
        /\ Cardinality(AttachUsers') = attached.references + 1
    BY <2>1, <2>2, UserAdded DEF AttachHolds
  <2>5. AttachHolds'
    BY <1>1, <2>2, <2>4 DEF AttachHolds
  <2>6. r \in AttachUsers' /\ runtime'[r].keys = 1
    BY <1>2, <1>10, <1>12, <2>1, <2>2 DEF RuntimeHolds
  <2>7. ~runtime'[r].instrumented
    BY <1>1, <1>11, <1>12, <2>1 DEF RuntimeHolds
  <2>8. RuntimeHolds(r)'
    BY <2>6, <2>7 DEF RuntimeHolds
  <2> QED
    BY <2>3, <2>5, <2>8
<1>14. attached' \in [references : Int, up : BOOLEAN]
  BY <1>1, <1>2 DEF TelemetryTyped
<1> QED
  BY <1>1, <1>2, <1>8, <1>9, <1>13, <1>14, RuntimeKeeps DEF TelemetryTyped

\* The first runtime instruments HTTPX, the others count one more reference.
LEMMA InstrumentKeeps ==
  ASSUME TelemetryInv, NEW r \in Runtimes, Telemetry!InstrumentHttpx(r)
  PROVE  TelemetryInv'
<1>1. /\ runtime[r].pc = "instrument"
      /\ httpx' = [references |-> httpx.references + 1, on |-> TRUE]
      /\ profile' = profile /\ managed' = managed /\ attached' = attached
      /\ spoiled' = spoiled
  BY DEF Telemetry!InstrumentHttpx, Telemetry!Is
<1>2. TelemetryTyped /\ runtime[r] \in Held
  BY DEF TelemetryInv, TelemetryTyped
<1>3. PICK g : g = [runtime[r] EXCEPT !.pc = "started"]
  OBVIOUS
<1>4. g = [pc |-> "started", holds |-> runtime[r].holds, keys |-> runtime[r].keys,
           instrumented |-> runtime[r].instrumented]
  BY <1>2, <1>3 DEF Held
<1>5. PICK f : f = [g EXCEPT !.instrumented = TRUE]
  OBVIOUS
<1>6. f = [pc |-> "started", holds |-> runtime[r].holds, keys |-> runtime[r].keys,
           instrumented |-> TRUE]
  BY <1>4, <1>5
<1>7. runtime' = [runtime EXCEPT ![r] = f]
  BY <1>2, <1>3, <1>5 DEF Telemetry!InstrumentHttpx, TelemetryTyped
<1>8. f \in Held
  BY <1>2, <1>6 DEF Held, InUse
<1>9. f.pc = "started" /\ f.keys = runtime[r].keys /\ f.instrumented
  BY <1>6
<1>10. runtime'[r] = f
  BY <1>2, <1>7 DEF TelemetryTyped
<1>11. ASSUME ~spoiled'
       PROVE  ManagedHolds' /\ AttachHolds' /\ HttpxHolds' /\ RuntimeHolds(r)'
  <2>1. ManagedHolds /\ AttachHolds /\ HttpxHolds /\ RuntimeHolds(r)
    BY <1>1, <1>11 DEF TelemetryInv
  <2>2. ~runtime[r].instrumented
    BY <1>1, <2>1 DEF RuntimeHolds
  <2>3. /\ ManagedUsers' = ManagedUsers /\ AttachUsers' = AttachUsers
        /\ HttpxUsers' = HttpxUsers \union {r} /\ r \notin HttpxUsers
    BY <1>1, <1>7, <1>8, <1>9, <2>2, UsersAfter DEF InUse
  <2>4. ManagedHolds' /\ AttachHolds'
    BY <1>1, <2>1, <2>3 DEF ManagedHolds, AttachHolds
  <2>5. /\ IsFiniteSet(HttpxUsers')
        /\ Cardinality(HttpxUsers') = httpx.references + 1
    BY <2>1, <2>3, UserAdded DEF HttpxHolds
  <2>6. HttpxHolds'
    BY <1>1, <2>3, <2>5 DEF HttpxHolds
  <2>7. RuntimeHolds(r)'
    BY <1>9, <1>10, <2>1, <2>3 DEF RuntimeHolds
  <2> QED
    BY <2>4, <2>6, <2>7
<1>12. httpx' \in [references : Int, on : BOOLEAN]
  BY <1>1, <1>2 DEF TelemetryTyped
<1> QED
  BY <1>1, <1>2, <1>7, <1>8, <1>11, <1>12, RuntimeKeeps DEF TelemetryTyped

\* What a start that fails took is not given back.
LEMMA InstrumentFailsKeeps ==
  ASSUME TelemetryInv, NEW r \in Runtimes, Telemetry!InstrumentFails(r)
  PROVE  TelemetryInv'
<1>1. /\ Telemetry!Becomes(r, "new") /\ spoiled' = TRUE
      /\ profile' = profile /\ managed' = managed /\ attached' = attached
      /\ httpx' = httpx
  BY DEF Telemetry!InstrumentFails
<1>2. PICK f \in Held : runtime' = [runtime EXCEPT ![r] = f]
  BY <1>1, RuntimeBecomes
<1> QED
  BY <1>1, <1>2, RuntimeKeeps DEF TelemetryInv, TelemetryTyped

\* A runtime that did not start, or whose start was refused, has nothing to give back.
LEMMA UnstartedKeeps ==
  ASSUME TelemetryInv, NEW r \in Runtimes, Telemetry!ShutdownUnstarted(r)
  PROVE  TelemetryInv'
<1>1. /\ runtime[r].pc = "new" /\ Telemetry!Becomes(r, "closed") /\ spoiled' = spoiled
      /\ profile' = profile /\ managed' = managed /\ attached' = attached
      /\ httpx' = httpx
  BY DEF Telemetry!ShutdownUnstarted, Telemetry!Is
<1>2. PICK f \in Held : /\ runtime' = [runtime EXCEPT ![r] = f]
                        /\ f.pc = "closed" /\ f.keys = runtime[r].keys
                        /\ f.instrumented = runtime[r].instrumented
  BY <1>1, RuntimeBecomes
<1>3. /\ TelemetryTyped /\ runtime'[r] = f
  BY <1>2 DEF TelemetryInv, TelemetryTyped
<1>4. ASSUME ~spoiled'
      PROVE  ManagedHolds' /\ AttachHolds' /\ HttpxHolds' /\ RuntimeHolds(r)'
  <2>1. ManagedHolds /\ AttachHolds /\ HttpxHolds /\ RuntimeHolds(r)
    BY <1>1, <1>4 DEF TelemetryInv
  <2>2. /\ ManagedUsers' = ManagedUsers /\ AttachUsers' = AttachUsers
        /\ HttpxUsers' = HttpxUsers
    BY <1>1, <1>2, UsersAfter DEF InUse
  <2>3. RuntimeHolds(r)'
    BY <1>1, <1>2, <1>3, <2>1, <2>2 DEF RuntimeHolds
  <2> QED
    BY <1>1, <2>1, <2>2, <2>3 DEF ManagedHolds, AttachHolds, HttpxHolds
<1> QED
  BY <1>1, <1>2, <1>3, <1>4, RuntimeKeeps DEF TelemetryTyped

\* The instrumentation ends with its last user.
LEMMA UninstrumentKeeps ==
  ASSUME TelemetryInv, NEW r \in Runtimes, Telemetry!UninstrumentHttpx(r)
  PROVE  TelemetryInv'
<1>1. /\ runtime[r].pc = "started"
      /\ profile' = profile /\ managed' = managed /\ attached' = attached
  BY DEF Telemetry!UninstrumentHttpx, Telemetry!Is
<1>2. TelemetryTyped /\ runtime[r] \in Held
  BY DEF TelemetryInv, TelemetryTyped
<1>3. CASE ~runtime[r].instrumented
  <2>1. /\ Telemetry!Becomes(r, "release") /\ httpx' = httpx /\ spoiled' = spoiled
    BY <1>3 DEF Telemetry!UninstrumentHttpx
  <2>2. "release" \in InUse \union {"new", "closed"}
    BY DEF InUse
  <2>3. PICK f \in Held : /\ runtime' = [runtime EXCEPT ![r] = f]
                          /\ f.pc = "release" /\ f.keys = runtime[r].keys
                          /\ f.instrumented = runtime[r].instrumented
    BY <2>1, <2>2, RuntimeBecomes
  <2>4. runtime'[r] = f
    BY <1>2, <2>3 DEF TelemetryTyped
  <2>5. ASSUME ~spoiled'
        PROVE  ManagedHolds' /\ AttachHolds' /\ HttpxHolds' /\ RuntimeHolds(r)'
    <3>1. ManagedHolds /\ AttachHolds /\ HttpxHolds /\ RuntimeHolds(r)
      BY <2>1, <2>5 DEF TelemetryInv
    <3>2. /\ ManagedUsers' = ManagedUsers /\ AttachUsers' = AttachUsers
          /\ HttpxUsers' = HttpxUsers
      BY <1>1, <2>3, UsersAfter, <1>1 DEF InUse
    <3>3. RuntimeHolds(r)'
      BY <1>3, <2>3, <2>4, <3>1, <3>2 DEF RuntimeHolds
    <3> QED
      BY <1>1, <2>1, <3>1, <3>2, <3>3 DEF ManagedHolds, AttachHolds, HttpxHolds
  <2> QED
    BY <1>1, <1>2, <2>1, <2>3, <2>5, RuntimeKeeps DEF TelemetryTyped
<1>4. CASE runtime[r].instrumented
  <2>1. PICK err \in BOOLEAN :
          /\ httpx' = [references |-> IF httpx.references = 0 THEN 0
                                      ELSE httpx.references - 1,
                       on |-> IF Telemetry!LastUser /\ ~err THEN FALSE ELSE httpx.on]
          /\ IF err /\ Telemetry!Reraises(r)
             THEN UNCHANGED runtime
             ELSE runtime' = [runtime EXCEPT ![r].pc = "release",
                                             ![r].instrumented = FALSE]
          /\ spoiled' = (spoiled \/ err)
    BY <1>4 DEF Telemetry!UninstrumentHttpx
  <2>2. httpx' \in [references : Int, on : BOOLEAN]
    <3>1. PICK n : n = IF httpx.references = 0 THEN 0 ELSE httpx.references - 1
      OBVIOUS
    <3>2. PICK on : on = IF Telemetry!LastUser /\ ~err THEN FALSE ELSE httpx.on
      OBVIOUS
    <3>3. n \in Int
      BY <1>2, <3>1 DEF TelemetryTyped
    <3>4. on \in BOOLEAN
      BY <1>2, <3>2 DEF TelemetryTyped
    <3>5. httpx' = [references |-> n, on |-> on]
      BY <2>1, <3>1, <3>2
    <3> QED
      BY <3>3, <3>4, <3>5
  <2>3. spoiled' \in BOOLEAN /\ (spoiled => spoiled') /\ (~spoiled' => ~err)
    BY <1>2, <2>1 DEF TelemetryTyped
  <2>4. CASE runtime' = runtime /\ err
    <3>1. runtime' = [runtime EXCEPT ![r] = runtime[r]]
      BY <1>2, <2>4 DEF TelemetryTyped
    <3>2. spoiled' \in BOOLEAN /\ (spoiled => spoiled') /\ spoiled'
      BY <2>3, <2>4
    <3> QED
      BY <1>1, <1>2, <2>2, <3>1, <3>2, RuntimeKeeps DEF TelemetryTyped
  <2>5. CASE runtime' = [runtime EXCEPT ![r].pc = "release", ![r].instrumented = FALSE]
    <3>1. PICK g : g = [runtime[r] EXCEPT !.pc = "release"]
      OBVIOUS
    <3>2. g = [pc |-> "release", holds |-> runtime[r].holds, keys |-> runtime[r].keys,
               instrumented |-> runtime[r].instrumented]
      BY <1>2, <3>1 DEF Held
    <3>3. PICK f : f = [g EXCEPT !.instrumented = FALSE]
      OBVIOUS
    <3>4. f = [pc |-> "release", holds |-> runtime[r].holds, keys |-> runtime[r].keys,
               instrumented |-> FALSE]
      BY <3>2, <3>3
    <3>5. runtime' = [runtime EXCEPT ![r] = f]
      BY <1>2, <2>5, <3>1, <3>3 DEF TelemetryTyped
    <3>6. f \in Held
      BY <1>2, <3>4 DEF Held, InUse
    <3>7. f.pc = "release" /\ f.keys = runtime[r].keys /\ ~f.instrumented
      BY <3>4
    <3>8. runtime'[r] = f
      BY <1>2, <3>5 DEF TelemetryTyped
    <3>9. ASSUME ~spoiled'
          PROVE  ManagedHolds' /\ AttachHolds' /\ HttpxHolds' /\ RuntimeHolds(r)'
      <4>1. /\ ManagedHolds /\ AttachHolds /\ HttpxHolds /\ RuntimeHolds(r)
            /\ ~err
        BY <2>3, <3>9 DEF TelemetryInv
      <4>2. /\ ManagedUsers' = ManagedUsers /\ AttachUsers' = AttachUsers
            /\ HttpxUsers' = HttpxUsers \ {r} /\ r \in HttpxUsers
        BY <1>1, <1>4, <3>5, <3>6, <3>7, UsersAfter DEF InUse
      <4>3. ManagedHolds' /\ AttachHolds'
        BY <1>1, <4>1, <4>2 DEF ManagedHolds, AttachHolds
      <4>4. /\ IsFiniteSet(HttpxUsers')
            /\ Cardinality(HttpxUsers') = httpx.references - 1
            /\ httpx.references \in Nat /\ httpx.references > 0
            /\ httpx.references <= 1 <=> HttpxUsers' = {}
        BY <4>1, <4>2, UserRemoved DEF HttpxHolds
      <4>5. /\ httpx'.references = httpx.references - 1
            /\ httpx'.on <=> ~(httpx.references <= 1)
        <5>1. httpx'.references = httpx.references - 1
          BY <2>1, <4>4
        <5>2. httpx'.on = IF httpx.references <= 1 THEN FALSE ELSE httpx.on
          BY <2>1, <4>1 DEF Telemetry!LastUser
        <5>3. httpx.on
          BY <4>1, <4>2 DEF HttpxHolds
        <5> QED
          BY <5>1, <5>2, <5>3
      <4>6. HttpxHolds'
        BY <4>4, <4>5 DEF HttpxHolds
      <4>7. RuntimeHolds(r)'
        BY <3>7, <3>8, <4>1, <4>2 DEF RuntimeHolds
      <4> QED
        BY <4>3, <4>6, <4>7
    <3> QED
      BY <1>1, <1>2, <2>2, <2>3, <3>5, <3>6, <3>9, RuntimeKeeps DEF TelemetryTyped
  <2> QED
    BY <2>1, <2>4, <2>5
<1> QED
  BY <1>3, <1>4

\* The providers are shut down with the last reference.
LEMMA ReleaseManagedKeeps ==
  ASSUME TelemetryInv, NEW r \in Runtimes, Telemetry!ReleaseManaged(r)
  PROVE  TelemetryInv'
<1>1. /\ runtime[r].pc = "release" /\ profile[r].mode = "managed"
      /\ profile' = profile /\ attached' = attached /\ httpx' = httpx
  BY DEF Telemetry!ReleaseManaged, Telemetry!Is, Telemetry!Uses
<1>2. TelemetryTyped /\ runtime[r] \in Held
  BY DEF TelemetryInv, TelemetryTyped
<1>3. PICK last : last = (managed.references <= 1)
  OBVIOUS
<1>4. PICK err \in BOOLEAN :
        /\ managed' = [managed EXCEPT !.references = managed.references - 1,
             !.down = managed.down \/ last,
             !.closed = managed.closed \/ (last /\ ~(err /\ Telemetry!Reraises(r)))]
        /\ Telemetry!Becomes(r, IF err /\ Telemetry!Reraises(r)
                                THEN "started" ELSE "closed")
        /\ spoiled' = (spoiled \/ (err /\ Telemetry!Reraises(r)))
  BY <1>3 DEF Telemetry!ReleaseManaged
<1>5. PICK back : back = (err /\ Telemetry!Reraises(r))
  OBVIOUS
<1>6. PICK down : down = (managed.down \/ last)
  OBVIOUS
<1>7. PICK closed : closed = (managed.closed \/ (last /\ ~back))
  OBVIOUS
<1>8. last \in BOOLEAN /\ back \in BOOLEAN /\ down \in BOOLEAN /\ closed \in BOOLEAN
  BY <1>3, <1>5, <1>6, <1>7
<1>9. PICK n \in Int : n = managed.references - 1
  BY <1>2 DEF TelemetryTyped
<1>10. managed' = [managed EXCEPT !.references = n, !.down = down, !.closed = closed]
  BY <1>4, <1>5, <1>6, <1>7, <1>9
<1>11. managed' = [set |-> managed.set, references |-> n, closed |-> closed,
                   down |-> down]
  <2>1. managed = [set |-> managed.set, references |-> managed.references,
                   closed |-> managed.closed, down |-> managed.down]
    BY <1>2 DEF TelemetryTyped
  <2> QED
    BY <1>10, <2>1
<1>12. managed' \in [set : BOOLEAN, references : Int, closed : BOOLEAN, down : BOOLEAN]
  BY <1>2, <1>8, <1>11 DEF TelemetryTyped
<1>13. PICK pc : pc = IF back THEN "started" ELSE "closed"
  OBVIOUS
<1>14. /\ Telemetry!Becomes(r, pc) /\ pc \in InUse \union {"new", "closed"}
       /\ ~back => pc = "closed"
  BY <1>4, <1>5, <1>13 DEF InUse
<1>15. PICK f \in Held : /\ runtime' = [runtime EXCEPT ![r] = f]
                         /\ f.pc = pc /\ f.keys = runtime[r].keys
                         /\ f.instrumented = runtime[r].instrumented
  BY <1>14, RuntimeBecomes
<1>16. runtime'[r] = f
  BY <1>2, <1>15 DEF TelemetryTyped
<1>17. spoiled' \in BOOLEAN /\ (spoiled => spoiled') /\ (~spoiled' => ~back)
  BY <1>2, <1>4, <1>5 DEF TelemetryTyped
<1>18. ASSUME ~spoiled'
       PROVE  ManagedHolds' /\ AttachHolds' /\ HttpxHolds' /\ RuntimeHolds(r)'
  <2>1. ManagedHolds /\ AttachHolds /\ HttpxHolds /\ RuntimeHolds(r)
    BY <1>17, <1>18 DEF TelemetryInv
  <2>2. ~back /\ f.pc = "closed"
    BY <1>14, <1>15, <1>17, <1>18
  <2>3. /\ AttachUsers' = AttachUsers /\ HttpxUsers' = HttpxUsers
        /\ ManagedUsers' = ManagedUsers \ {r} /\ r \in ManagedUsers
    BY <1>1, <1>15, <2>2, UsersAfter DEF InUse
  <2>4. AttachHolds' /\ HttpxHolds'
    BY <1>1, <2>1, <2>3 DEF AttachHolds, HttpxHolds
  <2>5. /\ IsFiniteSet(ManagedUsers')
        /\ Cardinality(ManagedUsers') = managed.references - 1
        /\ managed.references <= 1 <=> ManagedUsers' = {}
    BY <2>1, <2>3, UserRemoved DEF ManagedHolds
  <2>6. ~managed.down /\ ~managed.closed /\ managed.set
    BY <2>1, <2>3 DEF ManagedHolds
  <2>7. (down <=> last) /\ (closed <=> last) /\ (last <=> ManagedUsers' = {})
    BY <1>3, <1>6, <1>7, <2>2, <2>5, <2>6
  <2>8. /\ managed'.set = managed.set /\ managed'.references = managed.references - 1
        /\ managed'.down = down /\ managed'.closed = closed
    BY <1>9, <1>11
  <2>9. ManagedHolds'
    BY <2>5, <2>6, <2>7, <2>8 DEF ManagedHolds
  <2>10. RuntimeHolds(r)'
    BY <1>1, <1>15, <1>16, <2>1, <2>2, <2>3 DEF RuntimeHolds
  <2> QED
    BY <2>4, <2>9, <2>10
<1> QED
  BY <1>1, <1>2, <1>12, <1>15, <1>17, <1>18, RuntimeKeeps DEF TelemetryTyped

\* The processor is shut down with the last reference.
LEMMA ReleaseAttachmentsKeeps ==
  ASSUME TelemetryInv, NEW r \in Runtimes, Telemetry!ReleaseAttachments(r)
  PROVE  TelemetryInv'
<1>1. /\ runtime[r].pc = "release" /\ profile[r].mode = "attach"
      /\ profile' = profile /\ managed' = managed /\ httpx' = httpx
  BY DEF Telemetry!ReleaseAttachments, Telemetry!Is, Telemetry!Uses
<1>2. TelemetryTyped /\ runtime[r] \in Held
  BY DEF TelemetryInv, TelemetryTyped
<1>3. PICK last : last = (attached.up /\ attached.references <= runtime[r].keys)
  OBVIOUS
<1>4. \E err \in BOOLEAN :
        LET back == err /\ Telemetry!Reraises(r) IN
        /\ attached' =
             IF last /\ ~back THEN Telemetry!Detached
             ELSE IF back
             THEN [attached EXCEPT !.references =
                     IF attached.references > 0 THEN 0 ELSE attached.references - 1]
             ELSE IF attached.up
             THEN [attached EXCEPT !.references = attached.references - runtime[r].keys]
             ELSE attached
        /\ runtime' = IF back THEN [runtime EXCEPT ![r].pc = "started"]
                      ELSE [runtime EXCEPT ![r].pc = "closed", ![r].keys = 0]
        /\ spoiled' = (spoiled \/ back)
  BY <1>2, <1>3 DEF Telemetry!ReleaseAttachments, TelemetryTyped
<1>5. PICK back \in BOOLEAN :
        /\ attached' =
             IF last /\ ~back THEN Telemetry!Detached
             ELSE IF back
             THEN [attached EXCEPT !.references =
                     IF attached.references > 0 THEN 0 ELSE attached.references - 1]
             ELSE IF attached.up
             THEN [attached EXCEPT !.references = attached.references - runtime[r].keys]
             ELSE attached
        /\ runtime' = IF back THEN [runtime EXCEPT ![r].pc = "started"]
                      ELSE [runtime EXCEPT ![r].pc = "closed", ![r].keys = 0]
        /\ spoiled' = (spoiled \/ back)
  BY <1>4
<1>6. spoiled' \in BOOLEAN /\ (spoiled => spoiled') /\ (~spoiled' => ~back)
  BY <1>2, <1>5 DEF TelemetryTyped
<1>7. attached' \in [references : Int, up : BOOLEAN]
  <2>1. attached \in [references : Int, up : BOOLEAN]
    BY <1>2 DEF TelemetryTyped
  <2>2. Telemetry!Detached \in [references : Int, up : BOOLEAN]
    BY DEF Telemetry!Detached
  <2>3. ASSUME NEW n \in Int
        PROVE  [attached EXCEPT !.references = n] \in [references : Int, up : BOOLEAN]
    BY <2>1
  <2>4. PICK m \in Int : m = IF attached.references > 0 THEN 0 ELSE attached.references - 1
    BY <2>1
  <2>5. PICK k \in Int : k = attached.references - runtime[r].keys
    BY <1>2, <2>1 DEF Held
  <2> QED
    BY <1>5, <2>1, <2>2, <2>3, <2>4, <2>5
<1>8. CASE back
  <2>1. Telemetry!Becomes(r, "started") /\ "started" \in InUse \union {"new", "closed"}
    BY <1>5, <1>8 DEF Telemetry!Becomes, InUse
  <2>2. PICK f \in Held : runtime' = [runtime EXCEPT ![r] = f]
    BY <2>1, RuntimeBecomes
  <2> QED
    BY <1>1, <1>2, <1>6, <1>7, <1>8, <2>2, RuntimeKeeps DEF TelemetryTyped
<1>9. CASE ~back
  <2>1. PICK g : g = [runtime[r] EXCEPT !.pc = "closed"]
    OBVIOUS
  <2>2. g = [pc |-> "closed", holds |-> runtime[r].holds, keys |-> runtime[r].keys,
             instrumented |-> runtime[r].instrumented]
    BY <1>2, <2>1 DEF Held
  <2>3. PICK f : f = [g EXCEPT !.keys = 0]
    OBVIOUS
  <2>4. f = [pc |-> "closed", holds |-> runtime[r].holds, keys |-> 0,
             instrumented |-> runtime[r].instrumented]
    BY <2>2, <2>3
  <2>5. runtime' = [runtime EXCEPT ![r] = f]
    BY <1>2, <1>5, <1>9, <2>1, <2>3 DEF TelemetryTyped
  <2>6. f \in Held
    BY <1>2, <2>4 DEF Held
  <2>7. f.pc = "closed" /\ f.keys = 0
    BY <2>4
  <2>8. f.instrumented = runtime[r].instrumented
    BY <2>4
  <2>9. runtime'[r] = f
    BY <1>2, <2>5 DEF TelemetryTyped
  <2>10. ASSUME ~spoiled'
         PROVE  ManagedHolds' /\ AttachHolds' /\ HttpxHolds' /\ RuntimeHolds(r)'
    <3>1. ManagedHolds /\ AttachHolds /\ HttpxHolds /\ RuntimeHolds(r)
      BY <1>6, <2>10 DEF TelemetryInv
    <3>2. ~runtime[r].instrumented
      BY <1>1, <3>1 DEF RuntimeHolds
    <3>3. /\ ManagedUsers' = ManagedUsers /\ HttpxUsers' = HttpxUsers
          /\ AttachUsers' = AttachUsers \ {r} /\ r \in AttachUsers
      BY <1>1, <2>5, <2>6, <2>7, <2>8, UsersAfter DEF InUse
    <3>4. ManagedHolds' /\ HttpxHolds'
      BY <1>1, <3>1, <3>3 DEF ManagedHolds, HttpxHolds
    <3>5. /\ IsFiniteSet(AttachUsers')
          /\ Cardinality(AttachUsers') = attached.references - 1
          /\ attached.references \in Nat /\ attached.references > 0
          /\ attached.references <= 1 <=> AttachUsers' = {}
      <4>1. IsFiniteSet(AttachUsers) /\ attached.references = Cardinality(AttachUsers)
        BY <3>1 DEF AttachHolds
      <4>2. /\ IsFiniteSet(AttachUsers \ {r})
            /\ Cardinality(AttachUsers \ {r}) = Cardinality(AttachUsers) - 1
            /\ Cardinality(AttachUsers) \in Nat /\ Cardinality(AttachUsers) > 0
            /\ Cardinality(AttachUsers) <= 1 <=> AttachUsers \ {r} = {}
        BY <3>3, <4>1, UserRemoved
      <4> QED
        BY <3>3, <4>1, <4>2
    <3>6. runtime[r].keys = 1 /\ attached.up
      BY <3>1, <3>3 DEF RuntimeHolds, AttachHolds
    <3>7. last <=> attached.references <= 1
      BY <1>3, <3>6
    <3>8. AttachHolds'
      <4>1. CASE last
        <5>1. attached' = [references |-> 0, up |-> FALSE]
          BY <1>5, <1>9, <4>1 DEF Telemetry!Detached
        <5> QED
          BY <3>5, <3>7, <4>1, <5>1 DEF AttachHolds
      <4>2. CASE ~last
        <5>1. PICK n : n = attached.references - 1
          OBVIOUS
        <5>2. attached' = [attached EXCEPT !.references = n]
          BY <1>5, <1>9, <3>6, <4>2, <5>1
        <5>3. attached' = [references |-> n, up |-> attached.up]
          BY <1>2, <5>2 DEF TelemetryTyped
        <5>4. attached'.references = n
          BY <5>3
        <5>5. attached'.up
          BY <3>6, <5>3
        <5> QED
          BY <3>5, <3>7, <4>2, <5>1, <5>4, <5>5 DEF AttachHolds
      <4> QED
        BY <1>3, <4>1, <4>2
    <3>9. RuntimeHolds(r)'
      BY <2>7, <2>8, <2>9, <3>2, <3>3 DEF RuntimeHolds
    <3> QED
      BY <3>4, <3>8, <3>9
  <2> QED
    BY <1>1, <1>2, <1>6, <1>7, <2>5, <2>6, <2>10, RuntimeKeeps DEF TelemetryTyped
<1> QED
  BY <1>8, <1>9

\* A step of the whole keeps TelemetryInv.
LEMMA TelemetryNext == TelemetryInv /\ [Next]_vars => TelemetryInv'
<1> SUFFICES ASSUME TelemetryInv, [Next]_vars PROVE TelemetryInv'
  OBVIOUS
<1>1. CASE UNCHANGED telemetryVars
  BY <1>1
    DEF telemetryVars, TelemetryInv, TelemetryTyped, ManagedHolds, AttachHolds,
        HttpxHolds, RuntimeHolds, ManagedUsers, AttachUsers, HttpxUsers
<1>2. ASSUME NEW r \in Runtimes, Telemetry!RuntimeStep(r)
      PROVE  TelemetryInv'
  BY <1>2, StartManagedKeeps, StartAttachKeeps, InstrumentKeeps, InstrumentFailsKeeps,
    UnstartedKeeps, UninstrumentKeeps, ReleaseManagedKeeps, ReleaseAttachmentsKeeps
    DEF Telemetry!RuntimeStep
<1> QED
  BY <1>1, <1>2 DEF Next, OthersRest, vars, telemetryVars

\* What is shared is there for each of its users, and goes with the last of them, in
\* whatever order any number of runtimes start and stop.
THEOREM SharedIsThereWhileUsed == Spec => []SharedWhileUsed
<1>1. TelemetryInv => SharedWhileUsed
  <2> SUFFICES ASSUME TelemetryInv, ~spoiled
               PROVE  /\ \A r \in Runtimes : runtime[r].pc \in InUse =>
                           /\ profile[r].mode = "managed" => ~managed.down
                           /\ profile[r].mode = "attach" /\ runtime[r].keys > 0 =>
                                attached.up
                           /\ runtime[r].instrumented => httpx.on
                      /\ (\A r \in Runtimes : runtime[r].pc = "closed") =>
                           ~httpx.on /\ ~attached.up /\ (managed.set => managed.down)
    BY DEF SharedWhileUsed, Telemetry!SharedWhileUsed, Telemetry!Uses, Telemetry!Is,
         InUse
  <2>1. ManagedHolds /\ AttachHolds /\ HttpxHolds /\ \A r \in Runtimes : RuntimeHolds(r)
    BY DEF TelemetryInv
  <2>2. \A r \in Runtimes : runtime[r].pc \in InUse =>
          /\ profile[r].mode = "managed" => ~managed.down
          /\ profile[r].mode = "attach" /\ runtime[r].keys > 0 => attached.up
          /\ runtime[r].instrumented => httpx.on
    BY <2>1 DEF ManagedHolds, AttachHolds, HttpxHolds, ManagedUsers, AttachUsers,
         HttpxUsers
  <2>3. ASSUME \A r \in Runtimes : runtime[r].pc = "closed"
        PROVE  ~httpx.on /\ ~attached.up /\ (managed.set => managed.down)
    <3>1. ManagedUsers = {} /\ AttachUsers = {} /\ HttpxUsers = {}
      BY <2>1, <2>3 DEF ManagedUsers, AttachUsers, HttpxUsers, RuntimeHolds, InUse
    <3> QED
      BY <2>1, <3>1 DEF ManagedHolds, AttachHolds, HttpxHolds
  <2> QED
    BY <2>2, <2>3
<1> QED
  BY <1>1, TelemetryInit, TelemetryNext, PTL DEF Spec

-----------------------------------------------------------------------------
(* Application.                                                             *)

\* A get answers a whole content of a file, or the current one of an object in a cloud,
\* with its own metadata; an embedding call answers the vectors of its own texts.
THEOREM AnswersAreAlwaysWhole == Spec => []AnswersAreWhole
<1>1. FileInv /\ CloudInv /\ VectorInv => AnswersAreWhole
  BY FilesAreWhole, CloudsAreCurrent, VectorsAreTheirOwn DEF AnswersAreWhole
<1> QED
  BY <1>1, FileInvariant, CloudInvariant, VectorInvariant, PTL

\* What a process opened is closed when its runners have ended, unless a failure after
\* which nothing is cleaned up came first; the cockpit owns the one child it wants; and a
\* client of an index of vectors is shared, or in use by the call that closes it.
THEOREM NothingIsEverLeftOpen == Spec => []NothingIsLeftOpen
<1>1. ProcessInv /\ CockpitInv /\ VectorInv => NothingIsLeftOpen
  BY ProcessesClose, ChildrenAreOwned, EveryClientIsClosed DEF NothingIsLeftOpen
<1> QED
  BY <1>1, ProcessInvariant, CockpitInvariant, VectorInvariant, PTL

\* A request reaches the place of its own tenant, the new one once the old coordinates
\* are forgotten, and never the points of another tenant.
THEOREM TenantsAlwaysStayApart == Spec => []TenantsStayApart
<1>1. TenancyInv /\ VectorInv => TenantsStayApart
  BY RequestsStayApart, PointsStayApart DEF TenantsStayApart
<1> QED
  BY <1>1, TenancyInvariant, VectorInvariant, PTL

\* A statement finds its table, whatever creations failed, raced or were repeated.
THEOREM StatementsAlwaysFindTables == Spec => []StatementsFindTables
<1>1. TenancyInv => StatementsFindTables
  BY RequestsFindTables DEF StatementsFindTables
<1> QED
  BY <1>1, TenancyInvariant, PTL
=============================================================================
