------------------------------- MODULE Gateway -------------------------------
(***************************************************************************)
(* The chat and messages endpoints of one process (zerocache-http: main.rs,*)
(* completion.rs, messages.rs, semantic.rs; zerocache-adapters-anthropic,  *)
(* -openai): what concurrent requests are asked of upstream, store, find,  *)
(* share and delete, over a store that outlives restarts under other       *)
(* settings.  Both endpoints share one in-flight map.  The cross-replica   *)
(* protocol is Coalesce, the bytes of a stream are StreamTee, clients that *)
(* disconnect are Completion, peers' indexes are SemanticFeed.             *)
(*                                                                         *)
(* A request is [method, wire, auth, provider, json, body, versions,       *)
(* betas], auth being the tokens of its Authorization header, versions and *)
(* betas the values of its anthropic-* headers.  What an upstream answers  *)
(* is [call, status].  A status is a string, as are all other tokens.      *)
(***************************************************************************)
EXTENDS Bodies, Registry

CONSTANTS
  Slot,         \* where requests are served; bounds how many at a time
  Settings,     \* [chat, messages, semantic, match_unit]: what a process may
                \* be started with
  Requests,
  MaxEvents,    \* bound: requests and restarts in a behaviour
  Near,         \* pairs of texts whose vectors clear the threshold
  Statuses,     \* what upstreams answer with
  Faults

ASSUME FaultsAssumption == Faults \subseteq {"store", "upstream", "stream"}
ASSUME BoundAssumption == MaxEvents \in Nat
ASSUME RequestsAssumption ==
  /\ Requests # {}
  /\ \A r \in Requests :
       /\ r.method \in {"POST", "DELETE"} /\ r.wire \in Wires /\ r.provider \in STRING
       /\ r.auth \in Seq(STRING) /\ r.versions \in Seq(STRING) /\ r.betas \in Seq(STRING)
\* Settings come from environment variables, which hold no NUL.
ASSUME SettingsAssumption ==
  \A raw \in Settings, wire \in Wires :
    \A p \in DOMAIN Configured(raw)[wire] :
      Configured(raw)[wire][p] \in Seq(STRING \ {NUL})

Version == "0.1.0"
DefaultVersion == "2023-06-01"
Ok(status) == status = "200"

VARIABLES
  cfg,      \* the providers by wire, and the match unit or "off"
  store,    \* completion_store: a function from keys to what upstreams answered
  vectors,  \* the persisted vector records: [scope, key, coarse, text]
  index,    \* the semantic index, without the nodes that have a tombstone
  flight,   \* completion_in_flight: a function from keys to slots
  slot,     \* the request at each slot: [phase, req, key, ride, near, reply,
            \* counted], the last being what it has added to the metrics
  run,      \* the shared future or tee of its claim: [at, got]
  left,     \* events still to come
  deleted   \* history: keys deleted while nobody was at work on them, and not
            \* claimed since

caches == <<store, vectors, index>>
vars == <<cfg, caches, flight, slot, run, left, deleted>>

-----------------------------------------------------------------------------
With(f, key, a) == [k \in DOMAIN f \cup {key} |-> IF k = key THEN a ELSE f[k]]
Without(f, key) == [k \in DOMAIN f \ {key} |-> f[k]]

(* Requests. *)

Streams(r) == Has(r.body, "stream", {"true"})

\* extract_bearer_token
Bearer(r) == IF Len(r.auth) = 2 /\ r.auth[1] = "Bearer " THEN {r.auth[2]} ELSE {}
Owner(r) == CHOOSE k \in Bearer(r) : TRUE

\* messages_headers_from: the first version, every beta value
Headers(r) ==
  [version |-> IF r.versions = <<>> THEN {} ELSE {r.versions[1]},
   beta    |-> IF r.betas = <<>> THEN {} ELSE {r.betas}]

SentVersion(headers) ==
  IF headers.version = {} THEN DefaultVersion ELSE CHOOSE v \in headers.version : TRUE

Cacheable(r) ==
  IF r.wire = "chat" THEN ChatIsCacheable(r.body) ELSE MessagesIsCacheable(r.body)

\* The handlers' early returns, in their order.
Refusal(r, c) ==
  CASE ~r.json -> {"400"}
    [] r.json /\ Bearer(r) = {} -> {"401"}
    [] r.json /\ Bearer(r) # {} /\ r.provider \notin DOMAIN c[r.wire] -> {"404"}
    [] r.json /\ Bearer(r) # {} /\ r.provider \in DOMAIN c[r.wire]
         /\ "model" \notin DOMAIN r.body -> {"422"}
    [] OTHER -> {}

\* cache_scope of both adapters
Scope(r, c) == c[r.wire][r.provider]

\* chat_completion, chat_completion_stream: the body that they are given
ChatCall(r, c, body) ==
  [wire |-> "chat", url |-> Append(Scope(r, c), Endpoint.chat), owner |-> Owner(r),
   headers |-> <<>>, body |-> body]

\* messages, messages_stream_passthrough
AnthropicCall(r, c) ==
  [wire |-> "messages", url |-> Append(Scope(r, c), Endpoint.messages), owner |-> Owner(r),
   headers |-> <<SentVersion(Headers(r)), Headers(r).beta>>, body |-> r.body]

Call(r, c) == IF r.wire = "chat" THEN ChatCall(r, c, r.body) ELSE AnthropicCall(r, c)

\* patch_stream_options: options that are no object stay.
Patched(body) ==
  IF Has(body, "stream_options", {"include_usage", "null"}) THEN body
  ELSE With(body, "stream_options", "include_usage")

\* what a streaming claimer asks
StreamCall(r, c) == ChatCall(r, c, Patched(r.body))

Prefix(r, c) == KeyPrefix(Owner(r), r.provider, Scope(r, c), <<r.body.model>>, Version)

ChatKey(r, c) == CompletionKey(Prefix(r, c), <<CanonicalChat(r.body)>>)

\* derive_messages_key
AnthropicKey(r, headers, c) ==
  MessagesKey(Prefix(r, c),
    <<CanonicalMessages(r.body), NUL, "anthropic-version:", SentVersion(headers)>>
      \o (IF headers.beta = {} THEN <<>>
          ELSE <<NUL, "anthropic-beta:">> \o CHOOSE b \in headers.beta : TRUE))

PostKey(r, c) ==
  IF r.wire = "chat" THEN ChatKey(r, c) ELSE AnthropicKey(r, Headers(r), c)

\* mutant of DeleteKey: without the request's headers
DeleteKeyBare(r, c) ==
  IF r.wire = "chat" THEN ChatKey(r, c)
  ELSE AnthropicKey(r, [version |-> {}, beta |-> {}], c)

DeleteKey(r, c) ==
  IF r.wire = "chat" THEN ChatKey(r, c) ELSE AnthropicKey(r, Headers(r), c)

-----------------------------------------------------------------------------
(* The semantic tier's view of a chat request. *)

SemanticScope(r, c) == <<Owner(r), r.provider, Scope(r, c), r.body.model>>

\* semantic_inputs
IsFuzzy(r, c) ==
  r.wire = "chat" /\ c.unit # "off" /\ FuzzyText(r.body.messages, c.unit) # {}

Node(r, key, c) ==
  [scope |-> SemanticScope(r, c), key |-> key, coarse |-> CoarseKey(r.body, c.unit),
   text |-> CHOOSE t \in FuzzyText(r.body.messages, c.unit) : TRUE]

Close(a, b) == a = b \/ <<a, b>> \in Near \/ <<b, a>> \in Near

\* mutant of Neighbours: the coarse hash is not compared
NeighboursByText(n) == {m \in index : m.scope = n.scope /\ Close(m.text, n.text)}

Neighbours(n) ==
  {m \in index : m.scope = n.scope /\ m.coarse = n.coarse /\ Close(m.text, n.text)}

Dropped(nodes, scope, key) == {n \in nodes : n.scope # scope \/ n.key # key}

-----------------------------------------------------------------------------
(* Slots, replies and runs. *)

NoReply == [status |-> "", kind |-> "", got |-> {}]
NoRun == [at |-> "none", got |-> {}]

AtRest == [phase |-> "idle", req |-> CHOOSE r \in Requests : TRUE, key |-> <<>>,
           ride |-> CHOOSE s \in Slot : TRUE, near |-> <<>>, reply |-> NoReply,
           counted |-> <<>>]

Req(s) == slot[s].req
Key(s) == slot[s].key
In(s, phase) == slot[s].phase = phase

Goto(s, phase) == slot' = [slot EXCEPT ![s].phase = phase]

(* Metrics: counters of completions, which start at zero with the process.   *)
Hit == <<"hit">>
Miss == <<"miss">>
SemanticHit == Hit \o <<"semantic">>

Reply(s, status, kind, got, counted) ==
  slot' = [slot EXCEPT ![s] =
             [@ EXCEPT !.phase = "answered",
                       !.reply = [status |-> status, kind |-> kind, got |-> got],
                       !.counted = slot[s].counted \o counted]]

\* AppError::Provider and AppError::Store
Fail(s, status) == Reply(s, status, "error", {}, <<>>)

Forward(s, kind, got, counted) ==
  Reply(s, (CHOOSE a \in got : TRUE).status, kind, got, counted)

Count(s, counted) == slot' = [slot EXCEPT ![s].counted = @ \o counted]

Put(key, a) == store' = With(store, key, a)

PassesThrough(r) == ~Cacheable(r) \/ (r.wire = "messages" /\ Streams(r))

(* What a handler does first; a refused request has its answer.              *)
FirstPhase(r) ==
  CASE r.method = "DELETE" -> "erase"
    [] r.method = "POST" /\ PassesThrough(r) -> "pass"
    [] r.method = "POST" /\ ~PassesThrough(r) -> "lookup"

Received(r, c) ==
  IF Refusal(r, c) # {}
  THEN [AtRest EXCEPT !.phase = "answered", !.req = r,
                      !.reply = [status |-> CHOOSE x \in Refusal(r, c) : TRUE,
                                 kind |-> "refused", got |-> {}]]
  ELSE [AtRest EXCEPT !.phase = FirstPhase(r), !.req = r,
                      !.key = IF r.method = "POST" THEN PostKey(r, c) ELSE DeleteKey(r, c)]

Init ==
  /\ cfg \in {Configured(raw) : raw \in Settings}
  /\ store = <<>>
  /\ vectors = {} /\ index = {}
  /\ flight = <<>>
  /\ slot = [s \in Slot |-> AtRest]
  /\ run = [s \in Slot |-> NoRun]
  /\ left = MaxEvents
  /\ deleted = {}

\* A slot is reused when nobody awaits its future or its tee any more.
Free(s) ==
  /\ slot[s].phase \in {"idle", "answered"}
  /\ run[s].at \in {"none", "settled"}
  /\ \A t \in Slot : slot[t].phase \in {"ride", "reread"} => slot[t].ride # s

Arrive(s) ==
  /\ left > 0 /\ Free(s)
  /\ left' = left - 1
  /\ \E r \in Requests : slot' = [slot EXCEPT ![s] = Received(r, cfg)]
  /\ run' = [run EXCEPT ![s] = NoRun]
  /\ UNCHANGED <<cfg, caches, flight, deleted>>

(***************************************************************************)
(* What is not cacheable is asked upstream and not stored: plain answers,  *)
(* stream_passthrough and messages_stream_passthrough.                     *)
(***************************************************************************)
Pass(s) ==
  /\ In(s, "pass")
  /\ \/ \E st \in Statuses :
          Reply(s, st, "passed", {[call |-> Call(Req(s), cfg), status |-> st]}, <<>>)
     \/ "upstream" \in Faults /\ Fail(s, "502")
  /\ UNCHANGED <<cfg, caches, flight, run, left, deleted>>

-----------------------------------------------------------------------------
(* The store, then the semantic index. *)

LookupHit(s) ==
  /\ In(s, "lookup")
  /\ Key(s) \in DOMAIN store
  /\ Reply(s, "200", "hit", {store[Key(s)]}, Hit)
  /\ UNCHANGED <<cfg, caches, flight, run, left, deleted>>

LookupMiss(s) ==
  /\ In(s, "lookup")
  /\ Key(s) \notin DOMAIN store
  /\ Goto(s, IF IsFuzzy(Req(s), cfg) THEN "probe" ELSE "claim")
  /\ UNCHANGED <<cfg, caches, flight, run, left, deleted>>

\* The store fails or does not answer in time: at the lookups, the write-back
\* and the delete.
StoreFails(s) ==
  /\ "store" \in Faults
  /\ slot[s].phase \in {"lookup", "neighbour", "writeback", "reread", "erase"}
  /\ Fail(s, "500")
  /\ UNCHANGED <<cfg, caches, flight, run, left, deleted>>

\* semantic_probe: the search is approximate and the embedder may fail.
Probe(s) ==
  /\ In(s, "probe")
  /\ \/ \E n \in Neighbours(Node(Req(s), Key(s), cfg)) :
          slot' = [slot EXCEPT ![s] = [@ EXCEPT !.phase = "neighbour", !.near = n.key]]
     \/ Goto(s, "claim")
  /\ UNCHANGED <<cfg, caches, flight, run, left, deleted>>

NeighbourHit(s) ==
  /\ In(s, "neighbour")
  /\ slot[s].near \in DOMAIN store
  /\ Reply(s, "200", "semantic", {store[slot[s].near]}, SemanticHit)
  /\ UNCHANGED <<cfg, caches, flight, run, left, deleted>>

Heal(s) ==
  /\ In(s, "neighbour")
  /\ slot[s].near \notin DOMAIN store
  /\ index' = Dropped(index, SemanticScope(Req(s), cfg), slot[s].near)
  /\ vectors' = Dropped(vectors, SemanticScope(Req(s), cfg), slot[s].near)
  /\ Goto(s, "claim")
  /\ UNCHANGED <<cfg, store, flight, run, left, deleted>>

-----------------------------------------------------------------------------
(* Claims. *)

Claim(s) ==
  /\ In(s, "claim")
  /\ Key(s) \notin DOMAIN flight
  /\ flight' = With(flight, Key(s), s)
  /\ run' = [run EXCEPT ![s] = [at |-> "calling", got |-> {}]]
  /\ deleted' = deleted \ {Key(s)}
  /\ Goto(s, "own")
  /\ UNCHANGED <<cfg, caches, left>>

Ride(s) ==
  /\ In(s, "claim")
  /\ Key(s) \in DOMAIN flight
  /\ slot' = [slot EXCEPT ![s] = [@ EXCEPT !.phase = "ride", !.ride = flight[Key(s)]]]
  /\ UNCHANGED <<cfg, caches, flight, run, left, deleted>>

IsTee(s) == Req(s).wire = "chat" /\ Streams(Req(s))

Settle(s, got) == run' = [run EXCEPT ![s] = [at |-> "settled", got |-> got]]
Advance(s, at, got) == run' = [run EXCEPT ![s] = [at |-> at, got |-> got]]

\* mutant of PlainAnswered: an error is stored too
PlainAnsweredAnyhow(s) ==
  /\ run[s].at = "calling" /\ ~IsTee(s)
  /\ \E st \in Statuses :
       Advance(s, "filing", {[call |-> Call(Req(s), cfg), status |-> st]})
  /\ UNCHANGED <<cfg, caches, flight, slot, left, deleted>>

\* A plain future: it stores what is a success, and its result is what it got.
PlainAnswered(s) ==
  /\ run[s].at = "calling" /\ ~IsTee(s)
  /\ \E st \in Statuses :
       Advance(s, IF Ok(st) THEN "filing" ELSE "settled",
               {[call |-> Call(Req(s), cfg), status |-> st]})
  /\ UNCHANGED <<cfg, caches, flight, slot, left, deleted>>

PlainFails(s) ==
  /\ "upstream" \in Faults
  /\ run[s].at = "calling" /\ ~IsTee(s)
  /\ Settle(s, {})
  /\ UNCHANGED <<cfg, caches, flight, slot, left, deleted>>

PlainFiled(s) ==
  /\ run[s].at = "filing" /\ ~IsTee(s)
  /\ \/ Put(Key(s), CHOOSE a \in run[s].got : TRUE)
     \/ "store" \in Faults /\ UNCHANGED store
  /\ Settle(s, run[s].got)
  /\ UNCHANGED <<cfg, vectors, index, flight, slot, left, deleted>>

(* The claimer leaves the map, whatever the future resolved to.              *)
Leave(s) ==
  /\ In(s, "own") /\ ~IsTee(s)
  /\ run[s].at = "settled"
  /\ flight' = Without(flight, Key(s))
  /\ IF run[s].got = {} THEN Fail(s, "502")
     ELSE IF \E a \in run[s].got : Ok(a.status) THEN Goto(s, "writeback")
     ELSE Forward(s, "own", run[s].got, Miss)
  /\ UNCHANGED <<cfg, caches, run, left, deleted>>

WriteBack(s) ==
  /\ In(s, "writeback")
  /\ Put(Key(s), CHOOSE a \in run[s].got : TRUE)
  /\ IF IsFuzzy(Req(s), cfg) THEN Goto(s, "record")
     ELSE Forward(s, "own", run[s].got, Miss)
  /\ UNCHANGED <<cfg, vectors, index, flight, run, left, deleted>>

\* record_vector: what is not persisted is not indexed.
Recorded(s) ==
  \/ LET n == Node(Req(s), Key(s), cfg)
     IN  vectors' = vectors \cup {n} /\ index' = index \cup {n}
  \/ UNCHANGED <<vectors, index>>

Record(s) ==
  /\ In(s, "record")
  /\ Recorded(s)
  /\ Forward(s, "own", run[s].got, Miss)
  /\ UNCHANGED <<cfg, store, flight, run, left, deleted>>

RiderReturns(s) ==
  /\ In(s, "ride") /\ ~IsTee(s)
  /\ run[slot[s].ride].at = "settled"
  /\ IF run[slot[s].ride].got = {} THEN Fail(s, "502")
     ELSE Forward(s, "ride", run[slot[s].ride].got, Miss)
  /\ UNCHANGED <<cfg, caches, flight, run, left, deleted>>

-----------------------------------------------------------------------------
(* Streaming claims: until the stream opens the handler drives, then the tee. *)

StreamRefused(s) ==
  /\ run[s].at = "calling" /\ IsTee(s)
  /\ \E st \in Statuses :
       LET got == {[call |-> StreamCall(Req(s), cfg), status |-> st]}
       IN  ~Ok(st) /\ Settle(s, got) /\ Forward(s, "own", got, Miss)
  /\ flight' = Without(flight, Key(s))
  /\ UNCHANGED <<cfg, caches, left, deleted>>

StreamFails(s) ==
  /\ "upstream" \in Faults
  /\ run[s].at = "calling" /\ IsTee(s)
  /\ Settle(s, {}) /\ Fail(s, "502")
  /\ flight' = Without(flight, Key(s))
  /\ UNCHANGED <<cfg, caches, left, deleted>>

StreamOpens(s) ==
  /\ run[s].at = "calling" /\ IsTee(s)
  /\ LET got == {[call |-> StreamCall(Req(s), cfg), status |-> "200"]}
     IN  Advance(s, "filing", got) /\ Forward(s, "own", got, <<>>)
  /\ UNCHANGED <<cfg, caches, flight, left, deleted>>

\* The verdict is Complete: stored, recorded if it was stored.  The tee counts
\* its claimer's miss, whatever the verdict.
TeeStores(s) ==
  /\ run[s].at = "filing" /\ IsTee(s)
  /\ \/ /\ Put(Key(s), CHOOSE a \in run[s].got : TRUE)
        /\ Advance(s, IF IsFuzzy(Req(s), cfg) THEN "recording" ELSE "leaving", run[s].got)
     \/ /\ "store" \in Faults
        /\ Advance(s, "leaving", run[s].got)
        /\ UNCHANGED store
  /\ UNCHANGED <<cfg, vectors, index, flight, slot, left, deleted>>

TeeRecords(s) ==
  /\ run[s].at = "recording"
  /\ Recorded(s)
  /\ Advance(s, "leaving", run[s].got)
  /\ UNCHANGED <<cfg, store, flight, slot, left, deleted>>

TeeLeaves(s) ==
  /\ run[s].at = "leaving"
  /\ flight' = Without(flight, Key(s))
  /\ Settle(s, run[s].got) /\ Count(s, Miss)
  /\ UNCHANGED <<cfg, caches, left, deleted>>

\* mutant of TeeGivesUp: it stays in the map
TeeGivesUpInTheMap(s) ==
  /\ "stream" \in Faults
  /\ run[s].at = "filing" /\ IsTee(s)
  /\ Settle(s, {}) /\ Count(s, Miss)
  /\ UNCHANGED <<cfg, caches, flight, left, deleted>>

\* The verdict is Incomplete.
TeeGivesUp(s) ==
  /\ "stream" \in Faults
  /\ run[s].at = "filing" /\ IsTee(s)
  /\ flight' = Without(flight, Key(s))
  /\ Settle(s, {}) /\ Count(s, Miss)
  /\ UNCHANGED <<cfg, caches, left, deleted>>

StreamingRider(s) ==
  /\ In(s, "ride") /\ IsTee(s)
  /\ run[slot[s].ride].at = "settled"
  /\ Goto(s, "reread")
  /\ UNCHANGED <<cfg, caches, flight, run, left, deleted>>

\* mutant of Reread: what was found in the store counts as a hit
RereadAsHit(s) ==
  LET fallback == run[slot[s].ride].got
  IN  /\ In(s, "reread")
      /\ IF Key(s) \in DOMAIN store THEN Reply(s, "200", "ride", {store[Key(s)]}, Hit)
         ELSE IF fallback = {} THEN Fail(s, "502") ELSE Forward(s, "ride", fallback, Miss)
      /\ UNCHANGED <<cfg, caches, flight, run, left, deleted>>

Reread(s) ==
  LET fallback == run[slot[s].ride].got
  IN  /\ In(s, "reread")
      /\ IF Key(s) \in DOMAIN store THEN Reply(s, "200", "ride", {store[Key(s)]}, Miss)
         ELSE IF fallback = {} THEN Fail(s, "502") ELSE Forward(s, "ride", fallback, Miss)
      /\ UNCHANGED <<cfg, caches, flight, run, left, deleted>>

-----------------------------------------------------------------------------
(* DELETE. *)

AtWork(key) ==
  \E t \in Slot :
    /\ Key(t) = key
    /\ (run[t].at \notin {"none", "settled"} \/ slot[t].phase \in {"own", "writeback"})

Erase(s) ==
  /\ In(s, "erase")
  /\ store' = Without(store, Key(s))
  /\ IF Req(s).wire = "chat" /\ cfg.unit # "off" THEN Goto(s, "forget")
     ELSE Reply(s, "200", "deleted", {}, <<>>)
  /\ LET key == PostKey(Req(s), cfg)
     IN  deleted' = IF AtWork(key) THEN deleted ELSE deleted \cup {key}
  /\ UNCHANGED <<cfg, vectors, index, flight, run, left>>

\* A vector record that cannot be dropped is logged.
Forget(s) ==
  /\ In(s, "forget")
  /\ index' = Dropped(index, SemanticScope(Req(s), cfg), Key(s))
  /\ \/ vectors' = Dropped(vectors, SemanticScope(Req(s), cfg), Key(s))
     \/ "store" \in Faults /\ UNCHANGED vectors
  /\ Reply(s, "200", "deleted", {}, <<>>)
  /\ UNCHANGED <<cfg, store, flight, run, left, deleted>>

(* The process dies and starts with other settings: rebuild_index.           *)
Restart ==
  /\ left > 0
  /\ left' = left - 1
  /\ cfg' \in {Configured(raw) : raw \in Settings}
  /\ index' = IF cfg'.unit = "off" THEN {} ELSE vectors
  /\ flight' = <<>>
  /\ slot' = [s \in Slot |-> AtRest]
  /\ run' = [s \in Slot |-> NoRun]
  /\ UNCHANGED <<store, vectors, deleted>>

Serve(s) ==
  \/ Arrive(s) \/ Pass(s)
  \/ LookupHit(s) \/ LookupMiss(s) \/ StoreFails(s)
  \/ Probe(s) \/ NeighbourHit(s) \/ Heal(s)
  \/ Claim(s) \/ Ride(s) \/ Leave(s) \/ WriteBack(s) \/ Record(s)
  \/ RiderReturns(s) \/ StreamingRider(s) \/ Reread(s)
  \/ Erase(s) \/ Forget(s)

Work(s) ==
  \/ PlainAnswered(s) \/ PlainFails(s) \/ PlainFiled(s)
  \/ StreamRefused(s) \/ StreamFails(s) \/ StreamOpens(s)
  \/ TeeStores(s) \/ TeeRecords(s) \/ TeeLeaves(s) \/ TeeGivesUp(s)

Next == (\E s \in Slot : Serve(s) \/ Work(s)) \/ Restart

Spec == Init /\ [][Next]_vars

-----------------------------------------------------------------------------
CONSTANT Cosmetic  \* Cosmetic[wire]: the fields that no answer depends on
ASSUME CosmeticAssumption ==
  /\ ChatDropped \subseteq Cosmetic["chat"] \cup {"model"}
  /\ MessagesDropped \subseteq Cosmetic["messages"] \cup {"model"}
  /\ \A wire \in Wires : "messages" \notin Cosmetic[wire]

Phases == {"idle", "answered", "pass", "lookup", "probe", "neighbour", "claim", "own",
           "ride", "writeback", "record", "reread", "erase", "forget"}

TypeOK ==
  /\ left \in 0..MaxEvents
  /\ \A s \in Slot : slot[s].phase \in Phases /\ slot[s].req \in Requests
  /\ \A s \in Slot : run[s].at \in {"none", "calling", "filing", "recording", "leaving", "settled"}
  /\ \A k \in DOMAIN flight :
       Key(flight[k]) = k /\ run[flight[k]].at # "none"
  /\ \A s \in Slot : (In(s, "own") \/ run[s].at \notin {"none", "settled"}) =>
       Key(s) \in DOMAIN flight /\ flight[Key(s)] = s

\* What an upstream makes of a body.
Meaning(call) ==
  [f \in DOMAIN call.body \ Cosmetic[call.wire] |->
     IF f # "messages" /\ call.body[f] \in DOMAIN AsInteger
     THEN AsInteger[call.body[f]] ELSE call.body[f]]

SameAddressee(a, b) ==
  a.wire = b.wire /\ a.url = b.url /\ a.owner = b.owner /\ a.headers = b.headers

WithoutMessages(f) == [x \in DOMAIN f \ {"messages"} |-> f[x]]

TextsAreClose(a, b) ==
  \E t \in FuzzyText(a.messages, cfg.unit), u \in FuzzyText(b.messages, cfg.unit) :
    Close(t, u)

(***************************************************************************)
(* Whatever a client is answered with was said by the upstream its request *)
(* goes to under the settings in force, with its credentials and headers,  *)
(* to a request that means the same: from the store, from another's call   *)
(* or from its own.  A semantic hit differs in the messages alone, and     *)
(* their text is close.                                                    *)
(***************************************************************************)
AnswersAreForTheRequest ==
  \A s \in Slot : \A a \in slot[s].reply.got :
    \E asked \in {Call(Req(s), cfg)} :
      /\ SameAddressee(a.call, asked)
      /\ a.status = slot[s].reply.status
      /\ IF slot[s].reply.kind = "semantic"
         THEN /\ WithoutMessages(Meaning(a.call)) = WithoutMessages(Meaning(asked))
              /\ TextsAreClose(a.call.body, asked.body)
         ELSE Meaning(a.call) = Meaning(asked)

(***************************************************************************)
(* Only successes are stored, and only of requests whose answer does not   *)
(* change when they are repeated: an error or a sampled answer is never    *)
(* replayed, whichever of the three writers (future, claimer, tee) put it. *)
(***************************************************************************)
Repeatable(call) ==
  /\ call.body.messages # <<>>
  /\ IF call.wire = "chat"
     THEN /\ IsZero(call.body, "temperature") \/ "seed" \in DOMAIN call.body
          /\ "n" \in DOMAIN call.body => call.body.n \in {"null", "1"}
     ELSE /\ IsZero(call.body, "temperature")
          /\ ~Has(call.body, "thinking", {"enabled"})

StoreIsRepeatable ==
  \A k \in DOMAIN store : Ok(store[k].status) /\ Repeatable(store[k].call)

(***************************************************************************)
(* An entry deleted while nobody was at work on its key stays deleted until*)
(* a later request claims the key: DELETE derives the key that POST would, *)
(* and no rider, semantic hit or restart stores the old answer again.      *)
(***************************************************************************)
DeletesLast == deleted \cap DOMAIN store = {}

(***************************************************************************)
(* The metrics add up: when a request is answered and its tee is over, it  *)
(* has counted one hit, one semantic hit as well or one miss, as it was    *)
(* answered; a rider's answer is a miss wherever it comes from, and what   *)
(* was refused, passed through, deleted or failed counts nothing           *)
(* (completion.rs:288-290, 644, 722, 918-921, 1154, 1173).                 *)
(***************************************************************************)
Owed(kind) ==
  CASE kind = "hit" -> Hit
    [] kind = "semantic" -> SemanticHit
    [] kind \in {"own", "ride"} -> Miss
    [] OTHER -> <<>>

CountedAsAnswered ==
  \A s \in Slot :
    In(s, "answered") /\ run[s].at \in {"none", "settled"} =>
      slot[s].counted = Owed(slot[s].reply.kind)

(***************************************************************************)
(* "Which span of a chat request the semantic tier embeds as 'fuzzy';      *)
(* everything outside it is still matched exactly" (zerocache-core,        *)
(* completion.rs:81-82).                                                   *)
(***************************************************************************)
NotEmbedded(body) ==
  [i \in 1..Len(body.messages) |->
     IF InSpan(body.messages, i, cfg.unit)
     THEN SelectSeq(body.messages[i].parts, LAMBDA p : p.type \notin {"string", "text"})
     ELSE body.messages[i].parts]

SemanticHitsMatchTheRest ==
  \A s \in Slot : slot[s].reply.kind = "semantic" =>
    \A a \in slot[s].reply.got : NotEmbedded(a.call.body) = NotEmbedded(Req(s).body)
=============================================================================
