# ZeroCache: TLA+ models, model checking and proofs

ZeroCache is a self-hosted proxy that answers embedding, chat-completion and
messages requests from a cache and calls the provider on a miss. Two things are hard
about it. Identical requests miss together, inside one process and on several replicas
that share a Redis, while clients disconnect, streams outlive their handlers, locks
expire and messages are lost. And an answer may be reused only for a request that means
the same to the same upstream, although keys are derived in several places, entries
outlive restarts under other settings, and a semantic tier reuses answers on purpose.
This directory models both.

## 1. Inventory

Paths are relative to `src/`.

| Part | State | Operations | Correct when |
|---|---|---|---|
| Redis coordinator (`zerocache-adapters-redis/src/coordinator.rs`) | one lock, one pub/sub channel and one per-replica slot (generation + condvar) per key | `try_lead` (SET NX PX), `complete` (check-and-delete, then PUBLISH), `follow` (wait on the slot), reader thread | at most one leader per lock; `complete` spares a successor's lock; a lost message costs a poll, never an answer |
| Cross-replica single-flight (`zerocache-http/src/coalesce.rs`, and spelled out again in `completion.rs` and `messages.rs`) | where each run is, its role, its deadline | lead, follow, poll, promote, fall back, fetch, store, complete | followers answer from the leader's fill; every run ends; a failure releases the lock |
| Completions (`zerocache-http/src/completion.rs`, `main.rs`) | `completion_in_flight`: key to shared future | refuse, pass through, look up, probe, claim or ride, drive, write back, stream through a tee, delete | one run in flight per replica and key; riders are answered whoever leaves; a client gets an answer to what it asked; only repeatable answers are stored |
| Messages endpoint (`messages.rs`) | the same map | as a plain completion; its streams pass through | as a plain completion; its headers are part of its key |
| Embedding and image requests (`app.rs`, `main.rs`) | `in_flight`: key to shared future of a batch's claim | look up, claim the missing keys in one call, wait for the rest, write back, delete | no key fetched twice at a time; no batch waits forever; every input gets its own vector |
| Semantic tier (`zerocache-http/src/semantic.rs`, `zerocache-semantic`, `zerocache-adapters-redis/src/vector.rs`) | Redis stream of vector records, an index per replica with tombstones, a poll cursor | probe, record, self-heal, delete, poll, rebuild | an index entry leads to a record, or heals; indexes converge on the stream; what is outside the fuzzy span matches exactly |
| Sled stores (`zerocache-adapters-sled`) | three trees of values with an expiry | get (read, test, remove), load_all, put, delete | an expired value is never served, a deleted one does not return, a live one is not lost |
| Redis stores (`zerocache-adapters-redis/src/lib.rs`) | values with a TTL | GET, SET, DEL, one command each; Redis drops what expired | an expired value is never served, a deleted one does not return |
| Server-sent events (`sse.rs`) and the tee (`completion.rs`, `spawn_tee`) | frame buffer, delta assembler, captured bytes | push, flush, verdict, re-chunk, replay | nothing depends on read boundaries; only whole answers are stored; a replay tells the answer |
| Keys and canonical forms (`zerocache-core`) | none | derive, normalise, canonicalise, cacheability, fuzzy span | equal keys only for requests that mean the same |
| Provider adapters (`zerocache-adapters-*`) | none | resolve a model to an address, chunk, send, check a reply | the scope tells configurations apart; vectors are placed by input |
| Configuration (`config.rs`) | none after start | provider tables, URLs | as documented |
| Readiness, metrics, dashboard, tracing | counters | output | the counters say how requests were answered |

How they interact. A handler runs on tokio. It reads the store on a blocking thread, then
takes its process's in-flight map. The request that finds no entry claims the key:
it inserts a shared future, which moves only while somebody polls it, either the claimer or
those that ride on it. The future runs the cross-replica protocol, which calls the
coordinator (on blocking threads), the store and the provider. A streaming
completion is different: its handler drives the protocol itself, and once the provider's headers
are 2xx it hands the body to a detached task, the tee, which stores, leaves the
map, resolves those that wait, and completes. A client that disconnects
drops its handler's future at whatever await it has reached.

The hard behaviours, each at its line, are the `hazards` of `PROJECT.json`: steps
of two replicas or two requests in an untested order, a lookup that is stale when the key is
claimed, `complete` as two commands, late or lost done messages, expiring locks,
Redis errors that make everyone a leader, dropped futures, errors returned
before a clean-up, store tasks that outlive their callers, streams that break around their
last frame, replies that do not pair inputs and vectors, keys that a DELETE derives by itself, and
entries that outlive the settings they were fetched under.

## 2. Modules and the code they model

### Protocols

| Module | Models | Correspondence |
|---|---|---|
| `Coordinator` | `coordinator.rs` | `lock` is the Redis lock. It names the run that took it, and `LockValue` is the replica id, all that `complete_inner` can compare. `inbox` is the channel as each replica's reader sees it. `follow` is a run's place on its slot's condvar: entering snapshots the generation, so only a message read later wakes it. Operators, conjoined into `Coalesce`'s actions. |
| `Coalesce` | `coalesce_cross_replica`; for runs in `Streaming`, `fetch_completion_coalesced_streaming` and `spawn_tee` | one action per step between two awaits: `Lead`/`BecomeFollower` (first `try_lead`), `ReadHit`/`ReadMiss`, `Wait`/`Signalled`/`WaitElapsed`, `Promote`/`FallBack` (second `try_lead`), `StreamOpens`, `UpstreamOk`/`UpstreamFails`, `Put`/`PutFails`, `Settle` (the tee leaves the map), `Release`/`Announce`/`CompleteFails` (the two commands of `complete`), `WriteBack` |
| `SingleFlight` | the promise | one led call at a time, solo calls by those that gave up, an entry that is only what a finished call returned; a crash, a dropped handler or a failing store may lose a led call (`Drop`), and an entry may go (`Evict`), where `Faults` allows it |
| `Completion` | `complete`, `complete_streaming`, the in-flight map, disconnects | extends `Coalesce`: `Claim` inserts the map entry and starts the run, `Drive` moves a run only while it is polled or detached, `OwnerReturns`, `RiderReturns`, `StreamingReturns`, `Replay` answer, `Disconnect` drops a handler |
| `EmbedBatch` | `embed_batch`, `fetch_coalesced` | `Claim` takes all unclaimed missing keys under the map's mutex with one `fetch`, `OwnFetched`/`OwnFailed` are the two sides of the `?` after the claimer's await, `AllFetched` the waits, `WriteKey` the write-back key by key. `kind` is the path: texts (`in_flight`, and the coordinator for a lone key) or images (`image_in_flight`, no coordinator). `PeerFills` is the end of a lone text's cross-replica run that followed; `usage` is what each batch reports of what was `billed` |
| `SemanticFeed` | the semantic tier of several replicas: `semantic.rs`, `index.rs`, `vector.rs`, and its part of `complete` and `delete_completion` | `log` from `first` on is the Redis stream, `index[p][k]` the node of a key in a replica's graph (none, live, tombstoned), `cursor` what the poll task has applied, `page` what it has read and not applied. `Search`, `Get`, `Heal`, `Drop` are the probe, `Put`, `Add`, `Insert` the write-back and `record_vector`, `Erase`, `Tomb`, `AppendDel` a DELETE, `Trim` its XTRIM, `Read`, `Apply` the poll task. `Restart` ends a replica's requests and has it boot: `BootRead` is one XRANGE of `xrange_fold`, `slots` what it has folded so far, `BootFails` a page that could not be read; peers go on between two pages, and the replica serves and polls from when it is no longer `booting` |
| `ExpiringStore` | one key of a sled tree (`adapters-sled/src/lib.rs`) under `run_store_task`, or of Redis (`adapters-redis/src/lib.rs`), as `kind` says | Sled: `GetRow`, `GetTest`, `RemoveExpired` are the three steps of `get`; `LoadReadsClock`, `LoadRow` those of `load_all`; `PutReadsClock`, `PutLands` those of `put`; `Ttl` is the parsed setting, `Expiry` the whole-second rounding. Redis: `SetLands`, `GetLands` are one command each, `RedisDrops` is the server's own expiry. `DeleteLands` is either's. `TimeOut` ends a caller's wait and leaves its call at work |
| `Sse`, `StreamTee` | `sse.rs`, `spawn_tee`, `replay_body` | A stream is a sequence of bytes, a payload being two halves and a line end one byte, so that a read can end inside either. `Cut` is `SseFrameParser::feed` (what is held and a read in, frames and the rest out), `Ingest` the delta assembler, `Complete` its verdict. `Read` brings any number of bytes, `StreamBreaks` may come at any of them, `Flush` is what follows the loop, `PlainWriteBack` the late write of a plain claimer, `Replay` what a later client is told |

### Requests and answers

| Module | Models | Correspondence |
|---|---|---|
| `Keys` | `cache_key.rs`, `normalize.rs`, `canonicalize.rs` | A string is a sequence of tokens; a key is the string that is hashed, separators included, so that what the separators fail to keep apart, the model fails to keep apart. `Canonical` folds, normalises and trims as the code does; `FoldAssumption` says what folding a character never does: make a word white space, white space a word, or a NUL |
| `Bodies` | `zerocache-core`: `completion.rs`, `messages.rs`, `canonical.rs` | A body is a function from fields to tokens. Cacheability with its type checks (`as_u64`, `is_i64` refuse `1.0`), canonical forms, fuzzy text and coarse key of each match unit |
| `Registry` | `config.rs`, `main.rs` | provider tables from settings: what is skipped, what is normalised, what wins; when the semantic tier is on, and its match unit |
| `Adapters` | the seven embedding adapters, the cloud driver | `Call` resolves a provider and a model under a `Config` to what is sent: scope, URL, model, qualifier, wire, batch size and retries; no result is the adapter's error. `Fixed` is an adapter with a wire of its own, `Resolved` and `Strategy` are what the cloud routers hand to the driver. The grammars of Azure, Bedrock and Vertex model names are spelled out |
| `EmbedRequests` | `embed_batch`, `embed_image_batch`, `delete_batch`, `delete_image_batch`, the adapters' `embed_batch` | `Items` is a request's inputs, alone or in a list; `DataUri` parses an image's, its mime type being one token; `Receive` looks up the whole request; `ChunkRetried` is the HTTP client's retry of a chunk; `ChunkAnswered` takes one reply, placed as the wire places it (`AnyPlace`, `EveryPlaceOnce`, `AsMany`); `StoreKey` the write-back; `DeleteKey` the delete; `Restart` starts the program with other variables over the same store |
| `Gateway` | the chat and messages handlers of one process | `Arrive` is the handler up to its first await, refusals in their order; `Pass` a request that is not cacheable; `LookupHit` to `Heal` lookup and probe; `Claim`, `Ride`; `PlainAnswered` to `RiderReturns` a plain claim; `StreamRefused` to `Reread` a streaming one; `Erase`, `Forget` a DELETE; `Restart` starts the process under other settings (`Configured`); `counted` is the completion metrics |

`MCCoalesce`, `MCCompletion`, `MCEmbedBatch`, `MCSemanticFeed`, `MCExpiringStore`,
`MCStreamTee`, `MCEmbedRequests` and `MCGateway` are the instances for TLC.
The theorems are in modules of their own, each on top of the component it is about:
`CompletionProofs` (first `Coalesce`, then `Completion`), `EmbedBatchProofs`, `ExpiringStoreProofs`,
`SemanticFeedProofs`, `EmbedRequestsProofs`, `GatewayProofs` and `StreamTeeProofs`. `Folding` has what a
fold over a sequence computes, with the operator as a constant; `StreamTeeProofs` takes it by INSTANCE for
each of the folds of `Sse`.

How they fit together. Keys share nothing in the coordinator and the
completion map, so `Coalesce` and `Completion` have one key, and a response is the name of the run that
fetched it: enough to tell whose answer a client got and whether the
store holds what a finished call returned. `Gateway` has many keys and what is in
them, and takes the other side of each seam as one step: a cross-replica run is a call (`Coalesce` has it),
a stream is whole or broken off (`StreamTee`), clients stay (`Completion`), and there are no peers
(`SemanticFeed`). `EmbedRequests` and `EmbedBatch` divide the embedding path in the same way:
the first has texts, replies and placement for one request at a time, the second the interleaving.

`Coalesce` abstracts the in-flight map as a guard on `Begin` (one run in flight
per replica). `Completion` has the real maps and shows (`Coalesced`, proved as `MapsCoalesce`) that
they imply that guard, so what `Coalesce` shows of its runs (safety) holds of the
runs that requests drive. Its liveness does not carry over, because a plain run stops when nobody
polls it; `RequestsAnswered` is therefore stated for `Completion` itself.

`Faults` names what an instance allows: `ttl` a lock outlives its 60 s, `redis`
commands fail, `loss` done messages are lost, `late` deadlines pass, `upstream`
calls fail, `store` reads and writes fail, `evict` entries are deleted or expire,
`crash` a replica dies, `cancel` clients disconnect, `provider` is `upstream`
for batches, `timeout` callers of the store give up, `stream` streams are incomplete. In
`SemanticFeed`, `expire` completions expire, `trim` the stream is
trimmed, oldest entries first, `feed` appends fail, and `boot` a page of the
stream cannot be read at boot. `StreamTee` and `EmbedRequests` have their faults in their actions.

## 3. Runs

| Run | Instance | Shows |
|---|---|---|
| `coalesce_one_leader` | 3 replicas, 1 run each, one streaming; loss, late, upstream | `OneLeader`, `PromotionNeedsAFailure` (a follower goes upstream only after its deadline or a failed call), `LockIsReleased`, `ImplementsSingleFlight` |
| `coalesce_faults` | 2 plain runs of one replica and a streaming run of a peer; every fault of `Coalesce` | `ReleaseSparesOthers`, `RunsEnd` |
| `completion_requests` | 1 plain and 1 streaming request of one replica, 1 plain one of a peer; late, cancel, store | `Coalesced`, `RiderFailsForACause`, `RequestsAnswered`, `TendedEntryLeavesMap` (a run whose claimer stays leaves the map) |
| `embed_batches` | 3 batches over 2 keys, overlapping; every fault | `OneFetchPerKey`, `EveryKeyIsFetched`, `BilledOnce` (a shared fetch is reported by its claimer alone), `BatchesFinish` |
| `semantic_feed` | a completion and a DELETE of one key on two replicas, a neighbour, 2 restarts, pages of 2 to poll and to boot; every fault | `CaughtUpAgrees`, `BootRevivesOnlyTheTorn` (a boot revives a deleted vector only if the stream was trimmed between two of its pages) |
| `expiring_store` | 2 puts, a DELETE, 2 reads of one key of either sled tree or of Redis; a life of one second of two ticks, 7 ticks; both faults | `NeverServesExpired`, `AckedPutStaysDeleted`, `LiveRowLostOnlyToARace` |
| `stream_tee` | 14 streams: answers, tool calls, keep-alives, errors, junk, missing ends, CRLF; read and broken off anywhere; a client that leaves; a plain write-back | `CaptureIgnoresReads`, `StoredAnswerIsWhole`, `InjectedUsageIsHidden`, `ReplayTellsTheAnswer`, `TeeEnds` |
| `embed_requests` | 2 requests to any provider, texts that mean the same, chunks of 2, one retry, every reply of the right size or less; 3 settings | `AnswersTellTheirInputs`, `DeleteEvictsWhatPostHits`, `UsageNeverUnderstated` |
| `gateway` | 3 requests or restarts, 2 at a time, of 17 kinds; 3 settings; every fault | `AnswersAreForTheRequest`, `StoreIsRepeatable`, `DeletesLast`, `CountedAsAnswered` (hits and misses say which answers came from the cache; a rider counts as a miss) |
| `embed_error`, `completion_cancel`, `semantic_pictures` | as small as the case allows | findings 1 to 3 below |

Bounds. In `Coalesce`, `Completion` and `EmbedBatch` every instance is finite without a
counter bound: a run or batch executes once and
publishes at most once, so `inbox` never exceeds the number of runs. Three runs
are what the interesting cases need: a leader, a follower that may become its
successor, and a third that follows the successor or shares a replica with
one of them. Two would never show a late message or a lock taken by a sibling.
Three batches with two keys allow a batch that owns one key and waits for the
other, and a chain of waits. `SemanticFeed` starts with a stream an earlier deployment
left, and its requests add at most four entries, so pages of two are cut off, and a boot on the
untrimmed stream reads at least two: the code's pages are of 1000, and what matters is that
there is a step between them. `Restarts` bounds the boots, and two let one replica boot twice or
both at the same time.

`ExpiringStore`: the clock's grain of two ticks makes a moment fall inside a second, which is what
the rounding is about; `MaxClock` lets a row of the first second expire, and its
successor as well. Two readers are needed for one to remove what a second put stored
after both had read the first. `StreamTee` has no bound but its scripts: TLC reads
each at every split. `EmbedRequests`: one request fills the cache and the next one meets what
it left, after a restart or not; restarts are not counted. Lists of three texts with chunks of two have a second chunk;
`MaxRetries` is 1 in place of 3, and Vertex's batch limit equals the others', as in the code;
`TokenMax` is the width of the counter, 3 in place of 2^32 - 1. `Gateway`: three events are a
write, a restart or a DELETE, and a read, two of them at a time where they are requests.
`CHECK_DEADLOCK FALSE` everywhere, since runs and
requests execute once and a finished instance stops.

### What the code does against its own words

1. **A failed embedding fetch stays in the map** (`embed_error`). `app.rs:989`
   returns the provider's error before the removal at `app.rs:996-999`, so every
   later request for a key of that batch gets the old error until the process
   restarts. The comment above the removal says the opposite. The image path has
   the same order.
2. **A disconnected claimer leaves its entry** (`completion_cancel`). The removal
   at `completion.rs:497` belongs to the claiming handler. If its client leaves
   while others ride on the run, the run finishes and stays in the map.
   `TendedEntryLeavesMap` is what does hold.
3. **The semantic tier does not compare pictures** (`semantic_pictures`).
   `blank_content` takes a message's whole content out of the coarse hash, image parts included, and
   `message_text` gives the embedder its text parts only. Two requests with the same caption and
   different pictures are an exact match to the tier, and the second is answered about the first one's
   picture. `zerocache-core/src/completion.rs:81-82` says that everything outside the embedded span is
   still matched exactly.

Seven more things met while modelling, without a run of their own:

- A streaming run leaves the map, then calls `complete` whether or not it led
  (`completion.rs:890`). The lock's value names the replica, so a sibling elected in between loses
  its lock while its call runs. With plain runs this cannot happen, which is
  proved (`PlainReleaseSparesOthers`). The runs keep streaming runs alone on their replicas, and
  state nothing of a streaming run with a sibling.
- The lock is deleted before the message is published, so the message of one leader
  can wake the followers of the next, which then promote early (`coalesce.rs:126`).
  It takes a first call that stored nothing (`PromotionNeedsAFailure` holds).
- The claim does not read the store again (`completion.rs:408`), so a request whose lookup missed
  before the write, and which claims after the entry left the map, calls upstream a second time.
  `README.md:216` promises a single call for concurrent identical misses. The second answer is as
  good as the first (`AnswersAreForTheRequest`).
- `record_vector` inserts into the local index after the record is in the stream
  (`semantic.rs:107`); a DELETE applied in between is undone for good. The node costs a probe that heals,
  and no wrong answer follows. `CaughtUpAgrees` excludes such nodes by name (`astray`, a history variable).
- Tokens are reported by the batch that claimed the fetch, and only when it is answered. If the
  claimer's client leaves, or its write-back or another fetch it waits for fails, the requests that rode on
  its fetch are answered with no usage and the tokens are in no counter; the tests' "exactly once"
  (`app.rs:2173`) is about requests that all succeed. `BilledOnce` says what holds.
- OpenAI's and Mistral's embedding adapters take any reply: slots left unfilled are cached as empty
  vectors, and an index beyond the request panics inside the shared future. The checked wires refuse both.
  `AnswersTellTheirInputs` excepts those two adapters once such a reply was taken.
- A replay appends `[DONE]` to raw bytes that lack it; if they end in no blank line, the
  two are glued into one payload. And tool calls that carry no index are
  re-chunked without one, so that clients cannot tell two apart. `ReplayTellsTheAnswer` excepts both by name.

`decisions.md:133` considers a record that survives trimming while its later tombstone does not, so
that a replica boots with a deleted vector. MAXLEN and MINID both trim from the oldest end, so a boot
that begins after the trimming reads no record whose tombstone is gone. But `xrange_fold` reads
page by page (`vector.rs:136-162`), and a peer may trim between two pages: a record read on
an early page then outlives a tombstone that was trimmed before its page was read. The shortest behaviour has
twelve states: one replica boots and reads both earlier records on its first page, the other drops the neighbour it found
gone, appends a record of its own, and that append trims the tombstone. `BootRevivesOnlyTheTorn` says that there is no
other way: when a boot finds a vector that was deleted, the stream was trimmed between two of that boot's pages (`torn`) and
holds no record of the key any more. The probe finds the completion gone and sets the tombstone again, as the document
says. A poll task that lags behind the trimming may miss a tombstone too, also after a boot that could not read
the stream. `CaughtUpAgrees` names all of these (`gap`), and holds even then for every key that the stream still
has a record of.

An upstream error after the finishing frame breaks the tee's loop and not its verdict
(`completion.rs:1077`): the log says that the stream is not cached and it is. `StoredAnswerIsWhole` shows that
what is stored is still the whole answer.

## 4. Fairness

Weak fairness only, per run, request or batch. A run's next step is taken because
the runtime polls a future that can move and every call it awaits returns:
the provider within `PROVIDER_TIMEOUT` (30 s), the store within `STORE_TIMEOUT`
(5 s), Redis within `SOCKET_TIMEOUT` (5 s), the slot wait within its 250 ms poll.
`PassDeadline` is fair because clocks advance: the 30 s deadline is checked at
every poll. `RunsEnd` and `RequestsAnswered` rest on it, and their instances include
`late` for that reason: without it, the followers of a streaming claimer whose client left
(its lock stays until its TTL ends) would poll for as long as the lock stands. Nothing is assumed of
the pub/sub reader, of crashes, of evictions, or of clients. In
`Completion` the fairness of `Drive` is weak because `Polled` is part of its
guard, so a run that nobody polls is not assumed to move. `StreamTee` assumes fairness of
the tee's own steps alone: it is a detached task, and it takes its next step whether its
client is there or not.

One assumption is the environment's: a stream ends or breaks. The streaming HTTP client has
a timeout per read, not for the whole body, so a provider that trickles bytes
forever keeps its tee alive; `WF(RunStep)` and `WF(TeeStep)` exclude that.
`SemanticFeed`, `ExpiringStore`, `EmbedRequests` and `Gateway` have no fairness, as only
safety is stated of them.

## 5. Proofs

For all values of the constants:

| Theorem | Statement |
|---|---|
| `CompletionProofs!TypeCorrect` | `Spec => []TypeOK` |
| `CompletionProofs!PlainReleaseSparesOthers` | if `Streaming = {}`, `Spec => ReleaseSparesOthers`, under every fault |
| `CompletionProofs!LeaderIsUnique` | if no lock expires and no Redis command fails, and streaming runs are alone on their replicas, `Spec => []OneLeader` |
| `CompletionProofs!PromotionHasReason` | if the store answers and keeps what it holds, `Spec => []PromotionNeedsAFailure` |
| `CompletionProofs!OneFlight` | under the assumptions of `LeaderIsUnique`, `Spec => ImplementsSingleFlight` |
| `CompletionProofs!RequestsTyped` | `CompletionSpec => []CompletionTypeOK` |
| `CompletionProofs!MapsCoalesce` | `CompletionSpec => Coalesced`: requests and their maps implement `Coalesce` |
| `CompletionProofs!RequestsFlyOnce` | so, under the assumptions of `OneFlight`, `CompletionSpec => ImplementsSingleFlight` |
| `CompletionProofs!RidersFailForACause` | `CompletionSpec => []RiderFailsForACause`, under every fault |
| `EmbedBatchProofs!TypeCorrect` | `Spec => []TypeOK` |
| `EmbedBatchProofs!FetchesAreDisjoint` | `Spec => []OneFetchPerKey` |
| `EmbedBatchProofs!WriteBackIsComplete` | `Spec => []EveryKeyIsFetched` |
| `EmbedBatchProofs!UsageIsAttributedOnce` | `Spec => []BilledOnce` |
| `ExpiringStoreProofs!TypeCorrect` | `Spec => []TypeOK` |
| `ExpiringStoreProofs!ExpiredIsNeverServed` | `Spec => []NeverServesExpired`, for every kind of store, with or without a time to live and for every grain of the clock |
| `ExpiringStoreProofs!DeleteIsFinal` | `Spec => []AckedPutStaysDeleted` |
| `ExpiringStoreProofs!LiveRowsAreKept` | `Spec => LiveRowLostOnlyToARace` |
| `SemanticFeedProofs!TypeCorrect` | `Spec => []TypeOK` |
| `SemanticFeedProofs!IndexesFollowTheStream` | `Spec => []CaughtUpAgrees`, whatever is trimmed, lost or restarted, for pages of every size |
| `SemanticFeedProofs!BootsReviveOnlyTheTorn` | `Spec => BootRevivesOnlyTheTorn`, likewise |
| `GatewayProofs!TypeCorrect` | `Spec => []TypeOK` |
| `GatewayProofs!OnlyRepeatableIsStored` | `Spec => []StoreIsRepeatable` |
| `GatewayProofs!DeleteLasts` | `Spec => []DeletesLast` |
| `GatewayProofs!CountsAddUp` | `Spec => []CountedAsAnswered` |
| `GatewayProofs!KeysTellApart` | equal cache keys of two admitted requests, under any two settings, are of one wire, owner, scope, model, canonical body, version and betas |
| `GatewayProofs!AnswersFollowRequests` | `Spec => []AnswersAreForTheRequest`, across restarts under other settings |
| `EmbedRequestsProofs!TypeCorrect` | `Spec => []TypeOK` |
| `EmbedRequestsProofs!DeletedIsGone` | `Spec => []DeleteEvictsWhatPostHits` |
| `EmbedRequestsProofs!UsageSaturates` | `Spec => []UsageNeverUnderstated` |
| `EmbedRequestsProofs!ScopeTellsTheCall` | equal cache scopes of one provider, for one model, are of equal calls, under any two settings |
| `EmbedRequestsProofs!KeysTellApart` | if `NoNul`, equal cache keys of two admitted inputs are of one kind, of equal calls and of one meaning |
| `EmbedRequestsProofs!AnswersTell` | if `NoNul`, `Spec => []AnswersTellTheirInputs`, across restarts under other settings |
| `StreamTeeProofs!TypeCorrect` | `Spec => []TypeOK` |
| `StreamTeeProofs!ReadsDoNotMatter` | `Spec => []CaptureIgnoresReads` |
| `StreamTeeProofs!UsageStaysHidden` | `Spec => []InjectedUsageIsHidden` |
| `StreamTeeProofs!StoredIsWhole` | `Spec => []StoredAnswerIsWhole` |
| `StreamTeeProofs!ReplayTells` | `Spec => []ReplayTellsTheAnswer` |

`PlainReleaseSparesOthers`. That the value in Redis names a replica is harmless
because two runs of one replica are never in flight together (`OneInFlight`).
`OneInFlight` is inductive with `TypeOK`: only `Begin` puts a run in flight
(`OnlyBeginPutsInFlight`), and its guard is the map. A run that releases and the
working run that holds the lock would be two in flight on one replica.

`LeaderIsUnique`. The inductive invariant is `HoldInv`: every leading run holds
the lock (`LeaderHoldsLock`), and roles fit places (`RolesFit`: a plain run that
releases has led, a run before its fetch leads nothing). `OneLeader` alone is not
inductive, because nothing in it says that the lock of a leader is taken. An election needs a free
lock, hence no leader. A release deletes the releasing run's lock, or nobody's;
here the assumption on streaming runs is needed, as the first of the observations shows.
The assumptions on faults are needed too: an expired lock elects a
second leader by design.

`PromotionHasReason`. Whether a follower is right to go upstream is decided long before it does:
when the leader it followed completed, possibly not even that one, since the message of one leader wakes the
followers of the next. `PromotionInv` follows the reason along that way, one conjunct per place it is
in: a run that completes has filled the entry or failed (`CompletionHasCause`), so has whoever
sent a message on the channel or raised a signal (`SignalHasCause`), and a run that promotes was past its deadline or
saw neither (`PromotionHasCause`). The assumption that no store fault or eviction occurs is needed: with either, a
signalled follower finds nothing although nobody failed.

`OneFlight`. Every step of `Coalesce` is a step of `SingleFlight` or a stutter, action by action, under
`HoldInv`, `Unanswered` (a run answers once) and `CallersFit` (the role says which calls are
led and which solo). `Caller` of the mapping is chosen among the runs that lead a call; `CallerIs` is what
`HoldInv` gives: there is at most one. `SingleFlight` allows a led call to be lost only where `Faults` has a
cause for it, so the theorem says that nothing else loses one. The run has the faults under which all of its
properties hold; the theorem adds crashes, dropped handlers, failing stores and evictions.

`MapsCoalesce`. Here the guard of `Begin` (nobody of my replica is in flight) must follow from
the map. `MapHolds` is the reason: whatever is in flight, or was dropped, or belongs to a plain claimer that has not
returned, is its replica's entry. It speaks of dropped runs as well, because a
streaming claimer that leaves never removes its entry, and of claimers, because the entry of a finished run
is removed by them. `RidersFailForACause` needs `RunsFit` (what is over has an answer unless it was a dropped
streaming claim) and `RidesFit`. `RequestsFlyOnce` composes `MapsCoalesce` with `OneFlight`.

`EmbedBatchProofs`. `IInv` ties claims to the map: the keys of a claim whose
fetch is open are mapped to it, a mapped key is a claimed one, every missing key is
claimed or covered by a wait, and waits that are over succeeded. Two open fetches
that share a key would both be the map's entry for it. `IInv` must follow a key after its
claim left the map, which is why it speaks of `claimed` and `waits` and not of the map
alone. For `UsageIsAttributedOnce` it adds `UsageIsOwn`: a batch past its own fetch reports that fetch if the
provider charged for it, and never another's; that the fetch is over by then keeps the two in step.

`ExpiredIsNeverServed`. What a reader returns was tested against an expiry that some put
computed from a clock of its own, perhaps long gone from the row. `ServeInv` follows it:
the clock only runs (`ClockRuns`), and every row, in the store or in a reader's hands, carries
the expiry of the put that wrote it (`EntriesWritten`). The rest is arithmetic, `ExpiryIsEarly`:
sled's whole seconds round down and Redis counts exactly, so a row that is not past its
expiry is not past its life.

`DeleteIsFinal`. `AckInv` says that a put which a finished DELETE knew as stored is done.
A done put never lands again, and nothing else writes a row; the caller that gave up was told
that its put failed, so its late landing is no counterexample, and `told` never turns to
success afterwards.

`LiveRowsAreKept`. sled's reads remove what they found expired, in a step of its own: `RemoversFit` says that
a reader about to remove has tested some row against a clock that has passed since. If the row it removes is live, it is
not the one it tested (`StepLoses`); the theorem is an action property, so it says this of every step.

`SemanticFeedProofs`. `FeedInv` relates a replica's index to the stream it is behind on: for a key
of which the stream says nothing after the cursor, the index has what the stream says last before it
(`Agrees`), unless the replica or the key is set apart by `gap`, `astray` or a tombstone not told yet. A page in hand is the
stream up to the target, from the cursor on or from where it was trimmed to (`PagesFit`), and a task that is to
insert has its record in the stream (`InsertsAdded`). A gap spares the keys of which the replica has applied a record that
the stream still holds (`Known`): whatever it missed of them is older. `BootFits` says the same of the slots of a
boot under way, and, for a boot that was not torn, that no slot holds what the stream says is deleted: what was trimmed
before its first page is older than all it reads. That is what `BootsReviveOnlyTheTorn` needs when the last page
comes, and it is not a consequence of `CaughtUpAgrees`, which sets such a boot apart as `gap`.
What a key's last entry is cannot be had by induction on the stream here. `LeastOfNaturals`
takes its place: every nonempty set of naturals has a least member, which the library's theorem on the strict subsets of a
finite set gives without an operator parameter; the last entry of a key is the least distance
from the end (`LastOfPositions`). With it, `FoldTells` says what the folds compute, and `PageTells`, `EntriesTell` and
`BootTells` what a page adds to them.

`GatewayProofs`. `GatewayInv` is about one process's map and those that work under it: `MapFits` (the map is
exactly the runs open and the plain claimers not yet returned), `WritersFit` (a key somebody is at work on is not in
`deleted`), and `SlotsFit`, one formula per slot: which answers a phase may have in hand, and what it has added to the
counters. `StoreIsRepeatable` follows the answers into the store, `DeletesLast` the three writers, and
`CountedAsAnswered` is the last part of `SlotFits` read at the end.

`AnswersFollowRequests`. The argument has two halves. `KeysTellApart` is about operators: a key is the string that is
hashed, so equal keys are equal strings, and the separators take them apart again field by
field. It rests on `SettingsAssumption` (a scope is made of environment variables, which hold no
NUL byte) and on the form of owners and models. The other half is the invariant `AnswersInv`: whatever is in the store under a
key was said to a call that some settings admit under that key (`ToldTo`, `StoreTells`), so is what a run has in
hand, a rider rides on a run of its own key, and a vector's node is that of a request some settings
admit (`NodesFit`). It quantifies over settings, because entries and vectors outlive restarts. Its
steps use `GatewayInv`: without the map's agreement, a rider could find another key's run.

`EmbedRequestsProofs`. `Inv` holds what the code never writes down between the lookup of a
request and its answer. `Fetches`: the missing keys are distinct, each stands for an input, and each input that was no hit has
one. `Fits`: the first `asked` of the vectors fetched are those of the first `asked` texts, whichever of the three ways of
placing replies the wire has (`TakenFits`, for every reply). From these come the types,
`DeletedIsGone` and `UsageSaturates`.

`AnswersTell` needs more, in four parts. `ScopeTellsTheCall`: what a scope says
of a configuration determines what the adapter asks (for the clouds, the base URL determines it once
the model is given, although the canonical name alone would not). `KeysTellApart`: the separators take
a key apart from its end, as only the scope may contain one (`SplitAtLastNul`); a text's key is no image's,
because the image route's provider has a scope without NULs (`KindsApart`). `AskedMeansTheSame`: the text that is sent is the
normalised one and the key has the canonical one, so a vector answers its key only if folding commutes with
normalising and normalising twice is normalising once (`FoldCommutes`, `NormalizedIsNormal`). `Telling`, the
invariant: every vector in the cache is what some request under some settings stored there (`CacheTells`), and so
are the hits a request has in hand. `NoNul` (no model name and no text holds a NUL character) is a hypothesis because the code
does not enforce it: JSON can spell the character, and `CacheKey::derive` would then hash one string for two requests.

`StreamTeeProofs`. One invariant, `TeeInv`, carries all five theorems. While the tee reads (`Reading`), there is a number n
such that it has captured what of the first n frames is not hidden, has assembled all they say, and holds
the bytes between the n-th frame's end and the last byte read; afterwards (`Ended`) it has taken those bytes as well.
`CaptureIgnoresReads` alone is not inductive: it says nothing of the assembler, nor that what is held has no blank line in it.
`Held` says this: the buffer is a proper part of one frame (`Rests`), which is what a read may append to.

- A read. The bytes read so far are always whole frames and a rest (`Place`), wherever the read ends, and the parser's loop
  gives exactly these back: no blank line begins inside a payload, nor across two frames,
  so the first boundary in the buffer is the end of the first frame, of whichever kind.
- The client. What it was sent is whole frames that are no hidden usage, and part of a frame (`CleanBytes`), whether it left or
  not; a frame that is whole in these bytes is one of them.
- The stored answer. A connection that breaks leaves a prefix of the stream, whose verdict was "complete".
  Nothing that follows adds to it, by `QuietAssumption`: once all choices have finished, or `[DONE]` came, a provider sends no
  choices and no errors. Without it, the code's verdict is no more than a guess, since a stream cut off
  after the finishing frame is stored.
- The replay of a stream. The hidden usage frame leaves the answer as it was (`Alike`: usage and its tokens aside, the same). The
  test in `replay_body` splits at "\n\n" alone and finds a `[DONE]` in its last piece although
  frames may end in CRLF: the pieces' bytes are the record's, so if the last piece holds the payload, the stream said it;
  if it does not, `EndsClean` leaves only a blank line for the record to end in, and the `[DONE]` appended is a frame of its own.
- The replay of a plain response. Each choice of the body becomes two chunks, which the assembler puts at the choice's
  index; the calls of a choice go where `BodiesAssumption` puts them. The proof follows the fold chunk by chunk.

The folds are over recursive functions on sets of positions, and induction is out of the prover's reach; as in
`SemanticFeedProofs`, the least-number principle does instead. `Folding` states it once: the values that a fold goes
through (`FoldSteps`), what every step keeps (`FoldTyped`), and that a fold over a concatenation is two folds (`FoldConcat`).

The constants' assumptions are those named in the modules; the proofs use no others. Those of the tee are about
the provider: `EventsAssumption` (JSON is read into deltas of these types, anything else being "bad"),
`ScriptsAssumption` (all frames but the last end in a blank line, else they were one frame), `QuietAssumption` (above; it is
OpenAI's protocol, which `AllFinished` relies on), and `BodiesAssumption` (the calls of a plain response are numbered
in order or not at all). TLC evaluates them on the streams and bodies of the run.

Only model-checked: liveness (`RunsEnd`, `LockIsReleased`, `RequestsAnswered`,
`TendedEntryLeavesMap`, `BatchesFinish`, `TeeEnds`), which is out of the prover's reach. Every invariant and
action property of a passing run is proved.

## 6. Not modelled, and why

- Readiness, dashboard, tracing and the counters other than those of completions: output that nothing
  reads back. A completion whose write-back fails is billed and counts nothing, as any request that ends in an error.
- The graph of the semantic index, its recall and its distances. A search may return any node within the
  threshold or none, which covers it. The ONNX embedder is a relation between texts (`Near`).
- Request signing and token minting: no request sees their state. The parsing of JSON
  bodies below the fields that decide something.
- Slot garbage collection: a slot
  outlives every wait on it by far. Vector records of another index version.
- Numeric limits other than the time to live, ports, Redis and telemetry settings: read once and handed on.
- Process crashes in `Completion` and `EmbedBatch`: the maps die with the process,
  so what is left is `Coalesce`'s `Crash` and the restarts of `Gateway`.
- `Gateway` has one successful status, 200, for the code's 200 to 299, and `Sse` looks for `[DONE]` as an
  event where the code looks for its bytes (`completion.rs:1214-1217`), which an answer's text may hold as well.
- `ExpiringStore` has one key. Keys share nothing in a tree or in Redis; key prefixes and Redis's
  connection pool are left out.

More than half of the lines of the Rust sources are unit tests inside the same files. Of the rest, the map
names about three fifths; what it leaves out is mostly the list above, logging, headers that report
cache status, and type declarations.

## 7. Plan

Done, in this order: `Coordinator`, `Coalesce` with `SingleFlight`, `Completion`
on top of `Coalesce`, `EmbedBatch`; proofs for `Coalesce` and `EmbedBatch`;
`SemanticFeed`; `ExpiringStore` with its proofs; `Sse` and `StreamTee`; `Keys`, `Bodies`, `Adapters`,
`Registry`, `EmbedRequests`, `Gateway`; proofs for `SemanticFeed`, `Gateway`, `EmbedRequests` and `StreamTee`.

Left:

1. `SemanticFeed`: that self-heal drops only stale vectors or what races it, and
   convergence under fairness.
2. The embedding counters, as `Gateway` has those of completions.
