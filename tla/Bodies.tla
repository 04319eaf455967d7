------------------------------- MODULE Bodies -------------------------------
(***************************************************************************)
(* What the gateway reads in a chat or messages request (zerocache-core:   *)
(* completion.rs, messages.rs, canonical.rs).  A body is a function from   *)
(* its fields to values; body.messages is a sequence of [role, parts], a   *)
(* part being [type, value], and a content that is a bare string one part  *)
(* of type "string".  Any other value is a token as it was written.        *)
(***************************************************************************)
EXTENDS Keys

CONSTANTS
  AsInteger,  \* the integer that a token such as "1.0" is worth
  Integers    \* the tokens that are integers as written

Has(body, f, values) == f \in DOMAIN body /\ body[f] \in values
Absent(body, f) == f \notin DOMAIN body \/ body[f] = "null"
HasMessages(body) == "messages" \in DOMAIN body /\ body.messages # <<>>

\* canonical_number leaves integers alone and writes integral floats as integers.
CanonicalNumber(t) == IF t \in DOMAIN AsInteger THEN AsInteger[t] ELSE t

\* canonical_value of what remains without the dropped fields: the order of
\* fields does not tell two functions apart.
CanonicalBody(body, dropped) ==
  [f \in DOMAIN body \ dropped |->
     IF f = "messages" THEN body[f] ELSE CanonicalNumber(body[f])]

-----------------------------------------------------------------------------
ChatDropped == {"model", "user", "stream", "stream_options", "store", "metadata"}
MessagesDropped == {"model", "stream", "metadata"}

CanonicalChat(body) == CanonicalBody(body, ChatDropped)
CanonicalMessages(body) == CanonicalBody(body, MessagesDropped)

\* as_f64() == 0.0
IsZero(body, f) == f \in DOMAIN body /\ CanonicalNumber(body[f]) = "0"

\* completion_request_is_cacheable; as_u64 and is_i64 refuse 1.0 and 7.0
ChatIsCacheable(body) ==
  /\ HasMessages(body)
  /\ Absent(body, "n") \/ body.n = "1"
  /\ IsZero(body, "temperature") \/ Has(body, "seed", Integers)

\* messages_request_is_cacheable
MessagesIsCacheable(body) ==
  /\ HasMessages(body)
  /\ IsZero(body, "temperature")
  /\ Absent(body, "thinking") \/ body.thinking = "disabled"

-----------------------------------------------------------------------------
(***************************************************************************)
(* The fuzzy span, by match unit: its text is what the semantic tier       *)
(* embeds, the rest is hashed.  A text that is absent is an empty set.     *)
(***************************************************************************)
MatchUnits == {"last_user", "system_and_last_user", "full_conversation"}

Texts(m) == SelectSeq(m.parts, LAMBDA p : p.type \in {"string", "text"})
MessageText(m) ==
  IF Texts(m) = <<>> THEN {} ELSE {[i \in 1..Len(Texts(m)) |-> Texts(m)[i].value]}

LastUser(ms) == SelectLastInSeq(ms, LAMBDA m : m.role = "user")

LastUserText(ms) ==
  IF LastUser(ms) = 0 THEN {} ELSE MessageText(ms[LastUser(ms)])

SystemText(ms) ==
  FlattenSeq([i \in 1..Len(ms) |->
                IF ms[i].role = "system" /\ MessageText(ms[i]) # {}
                THEN CHOOSE t \in MessageText(ms[i]) : TRUE ELSE <<>>])

ConversationText(ms) ==
  FlattenSeq([i \in 1..Len(ms) |->
                IF MessageText(ms[i]) = {} THEN <<>>
                ELSE <<ms[i].role>> \o CHOOSE t \in MessageText(ms[i]) : TRUE])

IsBlank(text) == \A i \in 1..Len(text) : text[i] \in Blank

\* completion_fuzzy_text
FuzzyText(ms, unit) ==
  LET text ==
        CASE unit = "last_user" -> LastUserText(ms)
          [] unit = "system_and_last_user" ->
               {SystemText(ms) \o t : t \in LastUserText(ms)}
          [] unit = "full_conversation" -> {ConversationText(ms)}
  IN  {t \in text : ~IsBlank(t)}

\* blank_content
Blanked(m) == [m EXCEPT !.parts = <<[type |-> "string", value |-> ""]>>]

InSpan(ms, i, unit) ==
  \/ i = LastUser(ms)
  \/ unit = "system_and_last_user" /\ ms[i].role = "system"

\* canonicalize_completion_request_coarse, and the unit that is hashed with it
CoarseKey(body, unit) ==
  LET ms == body.messages
      kept == IF unit = "full_conversation" THEN CanonicalBody(body, ChatDropped \cup {"messages"})
              ELSE [CanonicalChat(body) EXCEPT
                      !.messages = [i \in 1..Len(ms) |->
                                      IF InSpan(ms, i, unit) THEN Blanked(ms[i]) ELSE ms[i]]]
  IN  <<unit, kept>>
=============================================================================
