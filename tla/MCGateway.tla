----------------------------- MODULE MCGateway ------------------------------
(* Instances of Gateway for TLC. *)
EXTENDS Gateway, TLC

CONSTANTS s1, s2

Slots == {s1, s2}
SlotSymmetry == Permutations(Slots)

TheBuiltin ==
  [chat     |-> "openai" :> <<"https://api.openai.com", "/v1">>,
   messages |-> "anthropic" :> <<"https://api.anthropic.com">>]
TheFold == "OpenAI" :> "openai"
TheIntegers == ("0.0" :> "0") @@ ("1.0" :> "1")
TheCosmetic ==
  [chat     |-> {"user", "stream", "stream_options", "store", "metadata"},
   messages |-> {"stream", "metadata"}]

(* The program as it comes, with the semantic tier in two match units; and   *)
(* with an override of OpenAI's URL among pieces that are skipped, and with  *)
(* Anthropic's URL as pasted.                                                *)
AsShipped == [chat |-> <<>>, messages |-> <<>>, semantic |-> "1", match_unit |-> ""]
Proxied ==
  [chat |-> << <<"https://x">>, <<"No", "=", "https://x">>, <<"openai", "=", "/">>,
               <<"space", "OpenAI", "=", "space", "https://proxy", "/", "/chat/completions", "/">> >>,
   messages |-> << <<"anthropic", "=", "https://api.anthropic.com", "/v1/messages">> >>,
   semantic |-> "on", match_unit |-> "last-user"]
TheSettings == {AsShipped, [AsShipped EXCEPT !.match_unit = "full-conversation"], Proxied}
Shipped == {AsShipped}

Says(role, type, value) == [role |-> role, parts |-> <<[type |-> type, value |-> value]>>]
Hi == <<Says("user", "string", "hi")>>
Hello == <<Says("user", "string", "hello")>>
TheNear == {<< <<"hi">>, <<"hello">> >>}
Base(ms) == ("model" :> "m") @@ ("messages" :> ms) @@ ("temperature" :> "0")

Request(method, wire, body, versions, betas) ==
  [method |-> method, wire |-> wire, auth |-> <<"Bearer ", "k1">>,
   provider |-> IF wire = "chat" THEN "openai" ELSE "anthropic",
   json |-> TRUE, body |-> body, versions |-> versions, betas |-> betas]

Chat(body) == Request("POST", "chat", body, <<>>, <<>>)
Ask(body, versions, betas) == Request("POST", "messages", body, versions, betas)

Plain == Chat(Base(Hi))
Streamed == Chat(("temperature" :> "0.0") @@ ("stream" :> "true") @@ ("user" :> "u") @@ Base(Hi))

Refused ==
  {[Plain EXCEPT !.json = FALSE], [Plain EXCEPT !.auth = <<"k1">>],
   [Plain EXCEPT !.provider = "other"], [Plain EXCEPT !.body = "messages" :> Hi]}

ChatRequests ==
  {Plain, Streamed, [Plain EXCEPT !.auth = <<"Bearer ", "k2">>], Chat(Base(Hello)),
   Chat(("temperature" :> "1.0") @@ ("seed" :> "7") @@ Base(Hi)),
   Chat(("n" :> "2") @@ Base(Hi)),
   Request("DELETE", "chat", Base(Hi), <<>>, <<>>)}

MessagesRequests ==
  {Ask(Base(Hi), <<>>, <<>>), Ask(("metadata" :> "x") @@ Base(Hi), <<"2023-06-01">>, <<>>),
   Ask(Base(Hi), <<"2024">>, <<"b1", "b2">>),
   Ask(("thinking" :> "enabled") @@ Base(Hi), <<>>, <<>>),
   Ask(("stream" :> "true") @@ Base(Hi), <<>>, <<>>),
   Request("DELETE", "messages", Base(Hi), <<"2024">>, <<"b1", "b2">>)}

TheRequests == Refused \cup ChatRequests \cup MessagesRequests

(* Two pictures with the same caption. *)
Picture(p) ==
  Chat(Base(<<[role |-> "user", parts |-> <<[type |-> "text", value |-> "hi"],
                                            [type |-> "image_url", value |-> p]>>]>>))
Pictures == {Picture("cat"), Picture("dog")}
=============================================================================
