--------------------------- MODULE EmbedRequests ----------------------------
(***************************************************************************)
(* Embedding requests from end to end, one at a time (zerocache-http,      *)
(* app.rs: embed_batch, embed_image_batch, delete_batch,                   *)
(* delete_image_batch; the providers' embed_batch), over a cache that      *)
(* outlives restarts under other settings.  EmbedBatch has the interleaving*)
(* of batches; this module has what they ask, get, place and store.  A     *)
(* vector is [url, model, qual, of]: what an upstream was asked for.       *)
(***************************************************************************)
EXTENDS Adapters

CONSTANTS
  Settings,     \* the sets of variables an operator may start the program with
  Requests,     \* [method, kind, owner, provider, model, input], the input
                \* being [one] or [many]
  MaxRequests,  \* bound: requests in a behaviour
  TokenCounts,  \* token counts a chunk's reply may report
  TokenMax      \* the largest count of the counters' type, u32 in the code

ASSUME BoundsAssumption ==
  MaxRequests \in Nat /\ TokenMax \in Nat /\ TokenCounts \subseteq Nat
\* Environment variables hold no NUL.
ASSUME SettingsAssumption ==
  \A raw \in Settings : \A s \in DOMAIN raw : raw[s] \in Seq(STRING \ {NUL})
ASSUME RequestsAssumption ==
  \A r \in Requests :
    /\ r.method \in {"POST", "DELETE"} /\ r.kind \in {"text", "image"}
    /\ r.owner \in STRING /\ r.provider \in STRING /\ r.model \in Seq(STRING)
    /\ IF "one" \in DOMAIN r.input
       THEN r.input.one \in Seq(STRING) ELSE r.input.many \in Seq(Seq(STRING))

Version == "0.1.0"
Unchecked == {"openai", "mistral"}
Cloud == {"azure", "bedrock", "vertexai"}
Garbage == <<"garbage">>

VARIABLES
  cfg,       \* the Config the process was started with
  cache,     \* the store: a function from the keys it holds to vectors
  left,      \* requests still to come
  phase,     \* "idle", "call", "store", "delete"; then "answered",
             \* "deleted", "failed" or "panicked"
  job,       \* the request at work: its call, keys, and missing texts
  got,       \* the vectors fetched so far, one per missing text
  asked,     \* how many missing texts were sent
  tries,     \* how often the chunk at hand was asked anew
  done,      \* how many keys were stored or deleted
  usage,     \* the token count to report
  billed,    \* the tokens that replies have reported
  answer,    \* the vectors the client was sent
  garbled    \* a reply that did not pair every text with one vector was taken

fetch == <<got, asked, tries, usage, billed, garbled>>
vars == <<cfg, cache, left, phase, job, fetch, done, answer>>

(***************************************************************************)
(* A lone string is a list of one (wire.rs).                               *)
(***************************************************************************)
Items(r) == IF "one" \in DOMAIN r.input THEN <<r.input.one>> ELSE r.input.many

(***************************************************************************)
(* Keys.  DELETE derives its own.                                          *)
(***************************************************************************)
Prefix(r, c) == KeyPrefix(r.owner, r.provider, c.scope, r.model, Version)

\* parse_data_uri: "data:<mime>;base64,<data>", a mime type being one token
DataUri(t) ==
  IF Len(t) >= 3 /\ t[1] = "data:" /\ t[2] # ";base64," /\ t[3] = ";base64,"
  THEN {[mime |-> t[2], data |-> SubSeq(t, 4, Len(t))]} ELSE {}

Image(t) == CHOOSE i \in DataUri(t) : TRUE

TextKeys(r, c) ==
  [i \in 1..Len(Items(r)) |-> TextKey(Prefix(r, c), Canonical(Items(r)[i]))]

ImageKeys(r, c) ==
  [i \in 1..Len(Items(r)) |->
     ImageKey(Prefix(r, c), Image(Items(r)[i]).mime, Image(Items(r)[i]).data)]

\* mutant of DeleteKeys: the text as it came
DeleteKeysRaw(r, c) ==
  [i \in 1..Len(Items(r)) |-> TextKey(Prefix(r, c), Items(r)[i])]

DeleteKeys(r, c) ==
  [i \in 1..Len(Items(r)) |-> TextKey(Prefix(r, c), Canonical(Items(r)[i]))]

DeleteImageKeys(r, c) ==
  [i \in 1..Len(Items(r)) |->
     ImageKey(Prefix(r, c), Image(Items(r)[i]).mime, Image(Items(r)[i]).data)]

KeysOf(r, c) == IF r.kind = "image" THEN ImageKeys(r, c) ELSE TextKeys(r, c)

\* The image routes know one provider, and refuse what is no data URI.
Admitted(r) ==
  r.kind = "image" =>
    r.provider = "gemini" /\ \A i \in 1..Len(Items(r)) : DataUri(Items(r)[i]) # {}

\* what the provider is asked to embed
Asked(r, item) == IF r.kind = "image" THEN item ELSE Normalized(item)

Vector(c, text) == [url |-> c.url, model |-> c.model, qual |-> c.qual, of |-> text]
Unfilled == [url |-> <<>>, model |-> <<>>, qual |-> {}, of |-> <<>>]

Init ==
  /\ \E s \in Settings : cfg = Config(s)
  /\ cache = <<>>
  /\ left = MaxRequests
  /\ phase = "idle"
  /\ job = <<>>
  /\ got = <<>> /\ asked = 0 /\ tries = 0 /\ done = 0
  /\ usage = 0 /\ billed = 0 /\ garbled = FALSE
  /\ answer = <<>>

Free == phase \in {"idle", "answered", "deleted", "refused", "failed", "panicked"}

(***************************************************************************)
(* A request is looked up as a whole.  What is missing is fetched once per *)
(* key, by the text that came first.                                       *)
(***************************************************************************)
\* mutant of Firsts: equal texts are one, equal keys are not
FirstTexts(r, keys) ==
  {i \in 1..Len(keys) : keys[i] \notin DOMAIN cache
                        /\ \A j \in 1..(i - 1) : Items(r)[j] # Items(r)[i]}

Firsts(r, keys) ==
  {i \in 1..Len(keys) : keys[i] \notin DOMAIN cache
                        /\ \A j \in 1..(i - 1) : keys[j] # keys[i]}

Job(r, c) ==
  LET keys == KeysOf(r, c)
      at == InOrder(Firsts(r, keys))
  IN  [req |-> r, call |-> c, keys |-> keys,
       hits |-> [i \in 1..Len(keys) |->
                   IF keys[i] \in DOMAIN cache THEN {cache[keys[i]]} ELSE {}],
       missing |-> [n \in 1..Len(at) |-> keys[at[n]]],
       texts |-> [n \in 1..Len(at) |-> Asked(r, Items(r)[at[n]])]]

Results(j, vectors) ==
  [i \in 1..Len(j.keys) |->
     IF j.hits[i] # {} THEN CHOOSE v \in j.hits[i] : TRUE
     ELSE vectors[SelectInSeq(j.missing, LAMBDA k : k = j.keys[i])]]

Embed(r, c) ==
  \E j \in {Job(r, c)} :
    /\ job' = j
    /\ IF j.missing = <<>>
       THEN phase' = "answered" /\ answer' = Results(j, <<>>)
       ELSE phase' = "call" /\ answer' = <<>>
    /\ got' = IF c.wire = "unchecked" THEN [n \in 1..Len(j.texts) |-> Unfilled] ELSE <<>>
    /\ done' = 0

Delete(r, c) ==
  LET keys == IF r.kind = "image" THEN DeleteImageKeys(r, c) ELSE DeleteKeys(r, c)
  IN  /\ job' = [req |-> r, call |-> c, keys |-> keys]
      /\ phase' = (IF keys = <<>> THEN "deleted" ELSE "delete") /\ done' = 0 /\ got' = <<>> /\ answer' = <<>>

Refuse ==
  /\ phase' = "refused"
  /\ job' = <<>> /\ got' = <<>> /\ done' = 0 /\ answer' = <<>>

Receive(r) ==
  /\ Free /\ left > 0
  /\ left' = left - 1
  /\ IF Admitted(r) /\ Call(cfg, r.provider, r.model) # {}
     THEN \E c \in Call(cfg, r.provider, r.model) :
            IF r.method = "POST" THEN Embed(r, c) ELSE Delete(r, c)
     ELSE Refuse
  /\ asked' = 0 /\ tries' = 0 /\ usage' = 0 /\ billed' = 0
  /\ UNCHANGED <<cfg, cache, garbled>>

(***************************************************************************)
(* One request to the upstream per chunk.  A reply is the sequence of the  *)
(* indices of its items; wires without indices go by position, and Titan's *)
(* reply is one vector by its form.                                        *)
(***************************************************************************)
Chunk == SubSeq(job.texts, asked + 1, Min({asked + job.call.batch, Len(job.texts)}))

Replies(wire, n) ==
  CASE wire \in {"unchecked", "checked"} -> UNION {[1..k -> 0..n] : k \in 0..n}
    [] wire = "counted" -> {[i \in 1..k |-> i - 1] : k \in 0..(n + 1)}
    [] wire = "single" -> {<<0>>}

\* every text of the chunk has one vector
Pairs(reply, n) == ToSet(reply) = 0..(n - 1) /\ Len(reply) = n

Embedding(index) ==
  Vector(job.call, IF index < Len(Chunk) THEN Chunk[index + 1] ELSE Garbage)

\* ordered[base_index + item.index]
Slot(index) == asked + index + 1

\* OpenAiProvider, MistralProvider: an index beyond the request panics, any
\* other is taken.
AnyPlace(reply) ==
  IF \E i \in 1..Len(reply) : Slot(reply[i]) > Len(got) THEN {}
  ELSE {[n \in 1..Len(got) |->
           LET i == SelectLastInSeq(reply, LAMBDA x : Slot(x) = n)
           IN  IF i = 0 THEN got[n] ELSE Embedding(reply[i])]}

\* parse_openai_shaped: as many items as texts, every index in range and once
EveryPlaceOnce(reply) ==
  IF Pairs(reply, Len(Chunk))
  THEN {got \o [n \in 1..Len(Chunk) |-> Embedding(n - 1)]} ELSE {}

\* the other wires: as many vectors as texts
AsMany(reply) ==
  IF Len(reply) = Len(Chunk)
  THEN {got \o [n \in 1..Len(reply) |-> Embedding(reply[n])]} ELSE {}

Taken(reply) ==
  CASE job.call.wire = "unchecked" -> AnyPlace(reply)
    [] job.call.wire = "checked" -> EveryPlaceOnce(reply)
    [] OTHER -> AsMany(reply)

\* mutant of Total: the driver's counters wrap as well
TotalWraps(sum) == sum % (TokenMax + 1)

\* the cloud driver saturates; += wraps in a release build
Total(sum) ==
  IF job.req.provider \in Cloud THEN Min({sum, TokenMax}) ELSE sum % (TokenMax + 1)

\* Gemini, HuggingFace and Cohere replies report no tokens.
Reported == IF job.call.wire = "counted" /\ job.req.provider # "vertexai" THEN {0} ELSE TokenCounts

Put(k, v) == [x \in DOMAIN cache \cup {k} |-> IF x = k THEN v ELSE cache[x]]

ChunkAnswered(reply, tokens) ==
  /\ phase = "call"
  /\ \E vectors \in Taken(reply) :
       /\ got' = vectors
       /\ IF asked + Len(Chunk) < Len(job.texts)
          THEN phase' = "call" /\ UNCHANGED cache
          ELSE \* a lone text's fetch stores its vector itself, if the store lets it
               /\ phase' = "store"
               /\ \/ UNCHANGED cache
                  \/ /\ Len(job.texts) = 1 /\ job.req.kind = "text"
                     /\ cache' = Put(job.missing[1], vectors[1])
  /\ asked' = asked + Len(Chunk) /\ tries' = 0
  /\ usage' = Total(usage + tokens)
  /\ billed' = billed + tokens
  /\ garbled' = (garbled \/ ~Pairs(reply, Len(Chunk)))
  /\ UNCHANGED <<cfg, left, job, done, answer>>

ChunkRejected(reply) ==
  /\ phase = "call"
  /\ Taken(reply) = {}
  /\ phase' = IF job.call.wire = "unchecked" THEN "panicked" ELSE "failed"
  /\ UNCHANGED <<cfg, cache, left, job, fetch, done, answer>>

\* 5xx, 408, 429 and lost connections, of which the client tells nobody
ChunkRetried ==
  /\ phase = "call"
  /\ tries < job.call.retries
  /\ tries' = tries + 1
  /\ UNCHANGED <<cfg, cache, left, phase, job, got, asked, usage, billed, garbled, done, answer>>

\* another error, or the last retry's
ChunkFails ==
  /\ phase = "call"
  /\ phase' = "failed"
  /\ UNCHANGED <<cfg, cache, left, job, fetch, done, answer>>

(***************************************************************************)
(* The write-back and DELETE: one store task, key by key.                  *)
(***************************************************************************)
Step(last, there) ==
  /\ done' = done + 1
  /\ phase' = IF done + 1 = last THEN there ELSE phase

StoreKey ==
  /\ phase = "store"
  /\ cache' = Put(job.missing[done + 1], got[done + 1])
  /\ Step(Len(job.missing), "answered")
  /\ answer' = IF done + 1 = Len(job.missing) THEN Results(job, got) ELSE <<>>
  /\ UNCHANGED <<cfg, left, job, fetch>>

DeleteKey ==
  /\ phase = "delete"
  /\ cache' = [k \in DOMAIN cache \ {job.keys[done + 1]} |-> cache[k]]
  /\ Step(Len(job.keys), "deleted")
  /\ UNCHANGED <<cfg, left, job, fetch, answer>>

StoreFails ==
  /\ phase \in {"store", "delete"}
  /\ phase' = "failed"
  /\ UNCHANGED <<cfg, cache, left, job, fetch, done, answer>>

\* The process is started anew over the same store; one that died in the
\* middle of a request has failed it first.
Restart(s) ==
  /\ Free /\ left > 0
  /\ cfg' = Config(s)
  /\ phase' = "idle"
  /\ job' = <<>> /\ got' = <<>> /\ asked' = 0 /\ tries' = 0 /\ done' = 0
  /\ usage' = 0 /\ billed' = 0 /\ answer' = <<>>
  /\ UNCHANGED <<cache, left, garbled>>

Next ==
  \/ \E r \in Requests : Receive(r)
  \/ /\ phase = "call"
     /\ \E reply \in Replies(job.call.wire, Len(Chunk)) :
          \/ \E t \in Reported : ChunkAnswered(reply, t)
          \/ ChunkRejected(reply)
  \/ ChunkRetried \/ ChunkFails
  \/ StoreKey \/ DeleteKey \/ StoreFails
  \/ \E s \in Settings : Restart(s)

Spec == Init /\ [][Next]_vars

-----------------------------------------------------------------------------
Phases == {"idle", "call", "store", "delete",
           "answered", "deleted", "refused", "failed", "panicked"}

\* Types; while a request is at work every missing key has a text, the keys
\* stored so far are in the cache with the vectors that were fetched, and
\* nothing is sent twice (app.rs:540-546, 571-582).
TypeOK ==
  /\ phase \in Phases /\ left \in 0..MaxRequests
  /\ usage \in 0..TokenMax /\ billed \in Nat /\ garbled \in BOOLEAN
  /\ phase \in {"call", "store"} => asked <= Len(job.texts)
  /\ phase = "store" => /\ Len(got) = Len(job.texts) /\ asked = Len(got)
                        /\ done < Len(got)
                        /\ \A n \in 1..done : cache[job.missing[n]] = got[n]
  /\ phase = "call" => /\ asked < Len(job.texts) /\ tries <= job.call.retries
                       /\ IsInjective(job.missing)
                       /\ ToSet(job.missing) \cap DOMAIN cache = {}
  /\ phase = "delete" => \A n \in 1..done : job.keys[n] \notin DOMAIN cache

\* v is what the upstream of c gives for an input that has item's meaning
Tells(v, kind, c, item) ==
  /\ <<v.url, v.model, v.qual>> = <<c.url, c.model, c.qual>>
  /\ IF kind = "image" THEN v.of = item ELSE Canonical(v.of) = Canonical(item)

\* Each input is answered, from the cache or not, with the vector that the
\* upstream, model and qualifier of this very request give for a text of the
\* same meaning: whatever settings the vector was stored under (ports lib.rs:
\* two configurations that could differ "MUST return different strings" as
\* their cache_scope), whatever hits, misses and duplicates the request mixes,
\* and however the replies are ordered.  OpenAI's and Mistral's adapters take
\* any reply: for them it holds while replies pair texts and vectors.
AnswersTellTheirInputs ==
  phase = "answered" =>
    /\ Len(answer) = Len(Items(job.req))
    /\ \A i \in 1..Len(answer) :
         \/ Tells(answer[i], job.req.kind, job.call, Items(job.req)[i])
         \/ garbled /\ job.call.wire = "unchecked"

\* A DELETE that succeeded leaves nothing that the POST of the same inputs
\* would hit.
DeleteEvictsWhatPostHits ==
  phase = "deleted" => ToSet(KeysOf(job.req, job.call)) \cap DOMAIN cache = {}

\* An absurd token count never makes a cloud provider's usage wrap to less
\* than was billed (driver.rs:90-94).
UsageNeverUnderstated ==
  phase = "answered" /\ job.req.provider \in Cloud => usage = Min({billed, TokenMax})
=============================================================================
