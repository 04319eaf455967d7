------------------------------ MODULE Adapters ------------------------------
(***************************************************************************)
(* What the embedding providers are asked, and what a cache key says of it *)
(* (zerocache-adapters-openai, -mistral, -gemini, -huggingface, -cloud,    *)
(* -azure, -bedrock, -vertexai; config.rs).  A call is                     *)
(*   [scope, url, model, qual, wire, batch, retries]                       *)
(* : the cache scope, the address and body of the request save its texts,  *)
(* the shape of the reply, the size of a chunk and how often the client    *)
(* asks anew.  A model name that is refused has no call: what may be absent*)
(* or fail is a set of at most one element.                                *)
(***************************************************************************)
EXTENDS Keys

CONSTANTS
  Default,        \* Default[s]: the value of the setting s that has one
  PlainNames,     \* tokens of lower case letters, digits and hyphens
  CohereModels,   \* tokens that begin with "cohere.embed"
  TitanModels,    \* tokens that begin with "amazon.titan-embed"
  MaxBatch,       \* texts per request of most wires
  GeminiBatch,    \* texts per request of Vertex's gemini-embedding-001
  MaxRetries      \* how often a client asks anew after a transient failure

ASSUME LimitsAssumption == MaxBatch \in Nat /\ GeminiBatch \in Nat /\ MaxRetries \in Nat
\* Settings are environment variables or literals of the code, which hold no NUL.
ASSUME DefaultAssumption ==
  /\ {"openai", "mistral", "gemini", "huggingface", "azure_version", "region",
      "bedrock_template", "location", "vertex_template"} \subseteq DOMAIN Default
  /\ \A s \in DOMAIN Default : Default[s] \in Seq(STRING \ {NUL})

(***************************************************************************)
(* Settings: raw maps the variables that are set to their values, <<>>     *)
(* being the empty string (config.rs, Config::from_env).                   *)
(***************************************************************************)
EnvOrDefault(raw, s) ==
  IF s \in DOMAIN raw /\ raw[s] # <<>> THEN raw[s] ELSE Default[s]

OptionalEnv(raw, s) ==
  IF s \in DOMAIN raw /\ raw[s] # <<>> THEN {raw[s]} ELSE {}

Optional == {"azure_openai", "azure_foundry", "vertex_project"}

Config(raw) ==
  [s \in DOMAIN Default \cup Optional |->
     IF s \in Optional THEN OptionalEnv(raw, s) ELSE EnvOrDefault(raw, s)]

(***************************************************************************)
(* Model names: "<model>#<qualifier>", the cloud adapters'.                *)
(***************************************************************************)
FirstOf(t, token) == SelectInSeq(t, LAMBDA c : c = token)
Before(t, token) == SubSeq(t, 1, FirstOf(t, token) - 1)
After(t, token) == SubSeq(t, FirstOf(t, token) + 1, Len(t))

Qualified(model) ==
  IF ~Contains(model, "#") THEN {[head |-> model, qual |-> {}]}
  ELSE IF After(model, "#") = <<>> THEN {}
  ELSE {[head |-> Before(model, "#"), qual |-> {After(model, "#")}]}

\* what a canonical name ends in
Suffix(qual) == IF qual = {} THEN <<>> ELSE <<"#">> \o CHOOSE q \in qual : TRUE

Plain(name) == \A i \in 1..Len(name) : name[i] \in PlainNames
InvalidId(id) == {"/", "?", "#"} \cap ToSet(id) # {}

\* template.replace("{place}", value)
Filled(template, place, value) ==
  FlattenSeq([i \in 1..Len(template) |->
                IF template[i] = place THEN value ELSE <<template[i]>>])

(***************************************************************************)
(* The four adapters with a wire of their own: the scope is the base URL.  *)
(***************************************************************************)
Fixed(base, url, model, wire) ==
  {[scope |-> base, url |-> url, model |-> model, qual |-> {}, wire |-> wire,
    batch |-> MaxBatch, retries |-> MaxRetries]}

OpenAiCall(cfg, model) ==
  Fixed(cfg.openai, cfg.openai \o <<"/v1/embeddings">>, model, "unchecked")

MistralCall(cfg, model) ==
  Fixed(cfg.mistral, cfg.mistral \o <<"/v1/embeddings">>, model, "unchecked")

GeminiCall(cfg, model) ==
  Fixed(cfg.gemini, cfg.gemini \o <<"/v1beta/models/">> \o model \o <<":batchEmbedContents">>,
        <<"models/">> \o model, "counted")

HuggingFaceCall(cfg, model) ==
  Fixed(cfg.huggingface,
        cfg.huggingface \o <<"/models/">> \o model \o <<"/pipeline/feature-extraction">>,
        <<>>, "counted")

(***************************************************************************)
(* What a cloud's router makes of a model name.  Its canonical form is all *)
(* that a cache key learns of the qualifier.                               *)
(***************************************************************************)
Resolved(base, canonical, id, qual) ==
  [base |-> base, canonical |-> canonical, id |-> id, qual |-> qual]

(***************************************************************************)
(* Azure: "[foundry:]<deployment>[#<input_type>]"                          *)
(***************************************************************************)
AzureParts(model) ==
  {p \in {[foundry |-> q.head # <<>> /\ Head(q.head) = "foundry:",
           deployment |-> IF q.head # <<>> /\ Head(q.head) = "foundry:"
                          THEN Tail(q.head) ELSE q.head,
           qual |-> q.qual] : q \in Qualified(model)} : p.deployment # <<>>}

AzureFoundry(cfg, p) ==
  {Resolved(b \o <<"/models/embeddings?api-version=">> \o cfg.azure_version,
            <<"foundry:">> \o p.deployment \o <<"@">> \o cfg.azure_version \o Suffix(p.qual),
            p.deployment, p.qual) : b \in cfg.azure_foundry}

AzureOpenAi(cfg, p) ==
  {Resolved(b \o <<"/openai/v1/embeddings">>, <<"openai:">> \o p.deployment, p.deployment, {})
     : b \in {c \in cfg.azure_openai : p.qual = {}}}

AzureResolve(cfg, model) ==
  UNION {IF p.foundry THEN AzureFoundry(cfg, p) ELSE AzureOpenAi(cfg, p)
           : p \in AzureParts(model)}

(***************************************************************************)
(* Bedrock: "[<region>/]<model>[#<input_type>]"                            *)
(***************************************************************************)
BedrockParts(cfg, model) ==
  {p \in {[region |-> IF Contains(q.head, "/") THEN Before(q.head, "/") ELSE cfg.region,
           id |-> IF Contains(q.head, "/") THEN After(q.head, "/") ELSE q.head,
           qual |-> q.qual] : q \in Qualified(model)}
     : p.region # <<>> /\ p.id # <<>> /\ Plain(p.region) /\ ~InvalidId(p.id)}

DefaultInputType == {<<"search_document">>}

BedrockResolve(cfg, model) ==
  LET cohere(p) == Head(p.id) \in CohereModels
      titan(p) == Head(p.id) \in TitanModels
      qual(p) == IF ~cohere(p) THEN {}
                 ELSE IF p.qual = {} THEN DefaultInputType ELSE p.qual
  IN  {Resolved(Filled(cfg.bedrock_template, "{region}", p.region),
                p.region \o <<"/">> \o p.id \o Suffix(qual(p)), p.id, qual(p))
          : p \in {o \in BedrockParts(cfg, model) : cohere(o) \/ (titan(o) /\ o.qual = {})}}

(***************************************************************************)
(* Vertex: "[<location>/<project>/]<model>[#<task_type>]"                  *)
(***************************************************************************)
VertexParts(cfg, model) ==
  LET slashes(h) == Cardinality({i \in 1..Len(h) : h[i] = "/"})
      short(q) == {[location |-> cfg.location, project |-> p, id |-> q.head, qual |-> q.qual]
                      : p \in cfg.vertex_project}
      long(q) == LET rest == After(q.head, "/")
                 IN  {[location |-> Before(q.head, "/"), project |-> Before(rest, "/"),
                       id |-> After(rest, "/"), qual |-> q.qual]}
      split(q) == CASE slashes(q.head) = 0 -> short(q)
                    [] slashes(q.head) = 2 -> long(q)
                    [] OTHER -> {}
  IN  {p \in UNION {split(q) : q \in Qualified(model)}
         : /\ <<>> \notin {p.location, p.project, p.id}
           /\ Plain(p.location) /\ Plain(p.project) /\ ~InvalidId(p.id)}

\* resolve_host: three locations have hosts of their own, unless an operator
\* has set the template.
VertexHost(cfg, location) ==
  CASE cfg.vertex_template = Default.vertex_template /\ location = <<"global">>
         -> <<"https://aiplatform.googleapis.com">>
    [] cfg.vertex_template = Default.vertex_template /\ location \in {<<"us">>, <<"eu">>}
         -> <<"https://aiplatform.">> \o location \o <<".rep.googleapis.com">>
    [] OTHER -> Filled(cfg.vertex_template, "{location}", location)

VertexResolve(cfg, model) ==
  {Resolved(VertexHost(cfg, p.location) \o <<"/v1/projects/">> \o p.project
              \o <<"/locations/">> \o p.location \o <<"/publishers/google/models">>,
            p.location \o <<"/">> \o p.project \o <<"/">> \o p.id \o Suffix(p.qual),
            p.id, p.qual) : p \in VertexParts(cfg, model)}

(***************************************************************************)
(* The strategies: what they send, what they take for a reply and how many *)
(* texts they send at once; and the cloud driver.                          *)
(***************************************************************************)
Strategy(url, model, qual, wire, batch) ==
  [url |-> url, model |-> model, qual |-> qual, wire |-> wire, batch |-> batch]

AzureOpenAiWire(r) ==
  Strategy(r.base, r.id, {}, "checked", MaxBatch)

AzureFoundryWire(r) ==
  Strategy(r.base, r.id, r.qual, "checked", MaxBatch)

AzureWire(r) ==
  IF Head(r.canonical) = "foundry:" THEN AzureFoundryWire(r) ELSE AzureOpenAiWire(r)

Invoke(r) == r.base \o <<"/model/">> \o r.id \o <<"/invoke">>

TitanWire(r) ==
  Strategy(Invoke(r), <<>>, {}, "single", 1)

CohereWire(r) ==
  Strategy(Invoke(r), <<>>, r.qual, "counted", MaxBatch)

BedrockWire(r) == IF Head(r.id) \in TitanModels THEN TitanWire(r) ELSE CohereWire(r)

VertexLimit(r) == IF r.id = <<"gemini-embedding-001">> THEN GeminiBatch ELSE MaxBatch

VertexWire(r) ==
  Strategy(r.base \o <<"/">> \o r.id \o <<":predict">>, <<>>, r.qual, "counted",
           VertexLimit(r))

\* mutant of CloudScope: the address is left out
CanonicalScope(r) == r.canonical \o <<NUL, "kit">>

\* CloudProvider::cache_scope
CloudScope(r) == r.base \o <<NUL>> \o r.canonical \o <<NUL, "kit">>

\* CloudProvider::embed_batch up to its first chunk
CloudCall(wire) ==
  {[scope |-> CloudScope(r), url |-> wire[r].url, model |-> wire[r].model,
    qual |-> wire[r].qual, wire |-> wire[r].wire, batch |-> wire[r].batch,
    retries |-> MaxRetries] : r \in {x \in DOMAIN wire : wire[x].batch # 0}}

Call(cfg, provider, model) ==
  CASE provider = "openai" -> OpenAiCall(cfg, model)
    [] provider = "mistral" -> MistralCall(cfg, model)
    [] provider = "gemini" -> GeminiCall(cfg, model)
    [] provider = "huggingface" -> HuggingFaceCall(cfg, model)
    [] provider = "azure" -> CloudCall([r \in AzureResolve(cfg, model) |-> AzureWire(r)])
    [] provider = "bedrock" -> CloudCall([r \in BedrockResolve(cfg, model) |-> BedrockWire(r)])
    [] provider = "vertexai" -> CloudCall([r \in VertexResolve(cfg, model) |-> VertexWire(r)])
    [] OTHER -> {}
=============================================================================
