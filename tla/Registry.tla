------------------------------ MODULE Registry ------------------------------
(***************************************************************************)
(* The chat and messages providers and the semantic tier that a process    *)
(* starts with (zerocache-http: config.rs, main.rs).  A provider setting   *)
(* is a sequence of pieces, which commas separate; a piece, a name and a   *)
(* URL are sequences of tokens.                                            *)
(***************************************************************************)
EXTENDS Keys

CONSTANTS
  Builtin,     \* Builtin[wire]: the names that come with a URL, and the URLs
  ValidNames   \* the tokens that are one path segment of [a-z0-9][a-z0-9_-]*

Wires == {"chat", "messages"}

Trimmed(t) ==
  SubSeq(t, SelectInSeq(t \o <<NUL>>, LAMBDA c : c \notin Blank),
            SelectLastInSeq(t, LAMBDA c : c \notin Blank))

NoSlashes(t) == SubSeq(t, 1, SelectLastInSeq(t, LAMBDA c : c # "/"))

\* The endpoints that operators paste with a URL, and what a request adds to it.
Pasted == [chat |-> {"/chat/completions"}, messages |-> {"/v1/messages", "/v1"}]
Endpoint == [chat |-> "/chat/completions", messages |-> "/v1/messages"]

\* normalize_chat_url, normalize_messages_url
NormalizedUrl(wire, raw) ==
  LET url == NoSlashes(Trimmed(raw))
  IN  IF url # <<>> /\ Last(url) \in Pasted[wire] THEN NoSlashes(Front(url)) ELSE url

\* parse_chat_providers, parse_messages_providers: a piece without "=", a name
\* that is no path segment and an empty URL are skipped; a later piece wins.
Entry(wire, piece) ==
  LET eq == SelectInSeq(piece, LAMBDA c : c = "=")
      name == Trimmed(SubSeq(piece, 1, eq - 1))
      url == NormalizedUrl(wire, SubSeq(piece, eq + 1, Len(piece)))
  IN  IF eq = 0 \/ url = <<>> \/ Len(name) # 1 \/ Folded(name[1]) \notin ValidNames
      THEN <<>> ELSE Folded(name[1]) :> url

Providers(wire, pieces) ==
  FoldLeft(LAMBDA known, piece : Entry(wire, piece) @@ known, Builtin[wire], pieces)

(***************************************************************************)
(* The semantic tier is on for three words alone, and a match unit that is *)
(* not recognised is the default one.                                      *)
(***************************************************************************)
SemanticEnabled(raw) == raw \in {"1", "true", "yes"}

MatchUnit(raw) ==
  CASE raw = "system-and-last-user" -> "system_and_last_user"
    [] raw = "full-conversation" -> "full_conversation"
    [] OTHER -> "last_user"

Configured(raw) ==
  [chat |-> Providers("chat", raw.chat),
   messages |-> Providers("messages", raw.messages),
   unit |-> IF SemanticEnabled(raw.semantic) THEN MatchUnit(raw.match_unit) ELSE "off"]
=============================================================================
