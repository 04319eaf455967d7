-------------------------- MODULE MCEmbedRequests ---------------------------
EXTENDS EmbedRequests

TheBlanks == {"space", "nl"}
TheStops == {".", ","}
TheFold == [c \in {"A", "curly"} |-> IF c = "A" THEN "a" ELSE "quote"]

TheDefault ==
  [openai |-> <<"api.openai">>, mistral |-> <<"api.mistral">>, gemini |-> <<"api.gemini">>,
   huggingface |-> <<"api.hf">>, azure_version |-> <<"v1">>, region |-> <<"us-east-1">>,
   bedrock_template |-> <<"bedrock.", "{region}">>, location |-> <<"us-central1">>,
   vertex_template |-> <<"{location}", "-vertex">>]

\* as shipped with every optional service; everything repointed; half set
TheSettings ==
  {[s \in {"azure_openai", "azure_foundry", "vertex_project"} |-> <<s>>],
   [s \in DOMAIN TheDefault \cup {"azure_openai", "azure_foundry", "vertex_project"}
      |-> CASE s = "bedrock_template" -> <<"proxy">>
            [] s = "vertex_template" -> <<"proxy.", "{location}">>
            [] s \in {"region", "location"} -> <<"eu">>
            [] OTHER -> <<"own.", s>>],
   [s \in {"openai", "azure_version", "azure_foundry", "vertex_project"}
      |-> IF s = "openai" THEN <<>> ELSE <<s, "2">>]}

Cat == <<"space", "A", "space", "nl", "b", ".">>   \* means the same as Cat2
Cat2 == <<"a", "space", "b">>
Dog == <<"curly", "a">>
Ox == <<"a", "b">>

Embeds(provider, model, lists) ==
  {[method |-> "POST", kind |-> "text", owner |-> "o1", provider |-> provider,
    model |-> model, input |-> IF Len(l) = 1 THEN [one |-> l[1]] ELSE [many |-> l]]
     : l \in lists}

Long == <<Cat, Dog, Cat2, Ox>>
Png == <<"data:", "png", ";base64,", "AA">>
Jpg == <<"data:", "jpg", ";base64,", "AA">>

ThePosts ==
  UNION {
    Embeds("openai", <<"m">>, {Long, <<Cat2>>}),
    Embeds("mistral", <<"m">>, {<<Dog, Cat>>}),
    Embeds("gemini", <<"m">>, {Long}),
    Embeds("huggingface", <<"m">>, {<<Cat>>}),
    Embeds("azure", <<"m">>, {Long}),
    Embeds("azure", <<"m", "#", "query">>, {<<Cat>>}),
    Embeds("azure", <<"foundry:", "m">>, {<<Cat>>}),
    Embeds("azure", <<"foundry:", "m", "#", "query">>, {<<Cat, Dog>>}),
    Embeds("bedrock", <<"titan">>, {<<Cat, Dog>>}),
    Embeds("bedrock", <<"eu", "/", "cohere">>, {<<Cat>>}),
    Embeds("bedrock", <<"cohere", "#", "query">>, {<<Cat2>>}),
    Embeds("bedrock", <<"other">>, {<<Cat>>}),
    Embeds("vertexai", <<"m">>, {Long}),
    Embeds("vertexai", <<"gemini-embedding-001">>, {<<Cat, Dog>>}),
    Embeds("vertexai", <<"eu", "/", "p", "/", "m", "#", "query">>, {<<Cat>>}),
    Embeds("vertexai", <<"global", "/", "vertex_project", "/", "m">>, {<<Cat>>}),
    {[method |-> "POST", kind |-> "image", owner |-> "o1", provider |-> "gemini",
      model |-> <<"m">>, input |-> [many |-> l]] : l \in {<<Png, Jpg, Png>>, <<Cat>>}},
    {[method |-> "POST", kind |-> "text", owner |-> "o2", provider |-> "openai",
      model |-> <<"m">>, input |-> [many |-> <<Cat>>]]}}

TheRequests == ThePosts \cup {[r EXCEPT !.method = "DELETE"] : r \in ThePosts}
=============================================================================
