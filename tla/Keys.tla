-------------------------------- MODULE Keys --------------------------------
(***************************************************************************)
(* Cache keys and the canonical forms of texts (zerocache-core:            *)
(* cache_key.rs, normalize.rs, canonicalize.rs).  A string is a sequence   *)
(* of tokens.  A key is the string that is hashed: BLAKE3 is taken to be   *)
(* injective, so what the separators fail to keep apart, the model fails   *)
(* to keep apart.                                                          *)
(***************************************************************************)
EXTENDS Naturals, Sequences, FiniteSets, SequencesExt

CONSTANTS
  Blank,  \* the tokens that are white space
  Stop,   \* the tokens that are sentence punctuation
  Fold    \* Fold[c]: c in lower case, composed, with straight quotes and dashes

NUL == "NUL"
Space == "space"

\* Folding keeps words words, white space white space and a space a space, and
\* makes no NUL.
ASSUME FoldAssumption ==
  /\ Space \in Blank \ DOMAIN Fold
  /\ \A c \in DOMAIN Fold :
       (Fold[c] \in Blank <=> c \in Blank) /\ Fold[c] \in STRING \ {NUL}

\* A finite set of numbers as an ascending sequence.
InOrder(S) ==
  [n \in 1..Cardinality(S) |-> CHOOSE i \in S : Cardinality({j \in S : j <= i}) = n]

\* A token that has no other form stands for itself.
Folded(c) == IF c \in DOMAIN Fold THEN Fold[c] ELSE c

\* normalize_text: the words of t, with one space between them.
Normalized(t) ==
  LET word(i) == t[i] \notin Blank
      kept == {i \in 1..Len(t) :
                 \/ word(i)
                 \/ i > 1 /\ word(i - 1) /\ \E j \in i..Len(t) : word(j)}
      at == InOrder(kept)
  IN  [n \in 1..Len(at) |-> IF word(at[n]) THEN t[at[n]] ELSE Space]

\* trim_end_matches over the stops and white space
TrimmedEnd(t) ==
  SubSeq(t, 1, SelectLastInSeq(t, LAMBDA c : c \notin Stop \cup Blank))

\* canonicalize_text
Canonical(t) == TrimmedEnd(Normalized([i \in 1..Len(t) |-> Folded(t[i])]))

\* What every kind of key begins with.  owner, provider and version are tokens.
KeyPrefix(owner, provider, scope, model, version) ==
  <<owner, NUL, provider, NUL>> \o scope \o <<NUL>> \o model \o <<NUL, version, NUL>>

\* CacheKey::derive, derive_image, derive_completion, derive_messages
TextKey(prefix, text) == prefix \o text
ImageKey(prefix, mime, data) == prefix \o <<"image", NUL, mime, NUL>> \o data
CompletionKey(prefix, canonical) == prefix \o <<"chat-completion", NUL>> \o canonical
MessagesKey(prefix, canonical) == prefix \o <<"anthropic-messages", NUL>> \o canonical
=============================================================================
