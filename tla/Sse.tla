-------------------------------- MODULE Sse --------------------------------
(***************************************************************************)
(* Framing and assembly of streamed completions (zerocache-http, sse.rs).  *)
(* The bytes of a frame are the two halves of its event's line and the     *)
(* line ends: enough for a read to split a payload or a blank line.        *)
(***************************************************************************)
EXTENDS Integers, SequencesExt

CONSTANTS
  Kind,   \* Kind[e]: "data", "done", "bad" (not JSON) or "none" (a comment)
  Chunk,  \* Chunk[e]: the content of a data event
  None

(* What a provider's JSON is read into: deltas of choices and of tool calls. *)
CallDeltas ==
  [index : Nat \cup {None}, name : STRING \cup {None}, args : Seq(STRING)]
ChoiceDeltas ==
  [index : Nat, content : Seq(STRING), tools : Seq(CallDeltas), finish : BOOLEAN]
Chunks ==
  [error : BOOLEAN, usage : Nat \cup {None}, choices : Seq(ChoiceDeltas)]

ASSUME EventsAssumption ==
  /\ None \notin Nat
  /\ \A e \in DOMAIN Kind :
       /\ Kind[e] \in {"data", "done", "bad", "none"}
       /\ Kind[e] = "data" => Chunk[e] \in Chunks

LF == [b |-> "lf"]
CR == [b |-> "cr"]
Half(e, n) == [b |-> "half", of |-> e, part |-> n]
Payload(e) == <<Half(e, 1), Half(e, 2)>>
Unix == <<LF, LF>>
Dos == <<CR, LF, CR, LF>>

-----------------------------------------------------------------------------
(* Where a blank line begins, and its length.                                *)
At(buf, end) ==
  {i \in 1..(Len(buf) - Len(end) + 1) : SubSeq(buf, i, i + Len(end) - 1) = end}

Boundaries(buf) == (At(buf, Unix) \X {2}) \cup (At(buf, Dos) \X {4})

FindBoundary(buf) ==
  CHOOSE x \in Boundaries(buf) : \A y \in Boundaries(buf) : x[1] <= y[1]

Split(cut, end) ==
  [frames |-> Append(cut.frames, SubSeq(cut.buf, 1, end)),
   buf |-> SubSeq(cut.buf, end + 1, Len(cut.buf))]

CutOne(cut) ==
  IF Boundaries(cut.buf) = {}
  THEN cut
  ELSE LET at == FindBoundary(cut.buf) IN Split(cut, at[1] + at[2] - 1)

(* The parser's loop: the frames with their blank lines, and what stays in   *)
(* the buffer.  As many rounds as there are bytes are enough, whatever the   *)
(* bytes; the singleton has TLC evaluate what it is given once.              *)
CutAgain(cut, byte) == CHOOSE next \in {CutOne(now) : now \in {cut}} : TRUE

Cut(bytes) == FoldLeft(CutAgain, [frames |-> <<>>, buf |-> bytes], bytes)

(* What is left when the stream ends: a last frame, unless it is blank.      *)
Trailing(buf) == IF \E i \in 1..Len(buf) : buf[i].b = "half" THEN <<buf>> ELSE <<>>

(* What one frame says.  Half a line, or two lines as one, is not JSON.      *)
Event(is, chunk) == [is |-> is, chunk |-> chunk]

Says(e) == Event(Kind[e], IF Kind[e] = "data" THEN Chunk[e] ELSE None)

Parse(frame) ==
  LET halves == {i \in 1..Len(frame) : frame[i].b = "half"}
      first == Min(halves)
      last == Max(halves)
      e == frame[first].of
  IN  IF \A i \in halves : Kind[frame[i].of] = "none" THEN Event("none", None)
      ELSE IF /\ halves = {first, last}
              /\ frame[first] = Half(e, 1) /\ frame[last] = Half(e, 2)
           THEN Says(e)
           ELSE Event("bad", None)

Events(frames) == [i \in 1..Len(frames) |-> Parse(frames[i])]

(* completion.rs: the trailing chunk that include_usage asks for.            *)
IsUsageOnly(ev) ==
  ev.is = "data" /\ ev.chunk.choices = <<>> /\ ev.chunk.usage # None

-----------------------------------------------------------------------------
(***************************************************************************)
(* The delta assembler.                                                    *)
(***************************************************************************)
NoTool == [name |-> None, args |-> <<>>]
NoChoice == [content |-> <<>>, finished |-> FALSE, tools |-> <<>>]
NoDeltas ==
  [done |-> FALSE, error |-> FALSE, bad |-> FALSE, usage |-> 0, choices |-> <<>>]

Widened(s, n, blank) ==
  IF Len(s) >= n THEN s ELSE s \o [i \in 1..(n - Len(s)) |-> blank]

IngestTool(tools, t) ==
  LET k == IF t.index = None THEN 1 ELSE t.index + 1
      old == Widened(tools, k, NoTool)[k]
  IN  [Widened(tools, k, NoTool) EXCEPT ![k] =
         [name |-> IF old.name = None THEN t.name ELSE old.name,
          args |-> old.args \o t.args]]

IngestChoice(choices, c) ==
  LET k == c.index + 1
      old == Widened(choices, k, NoChoice)[k]
  IN  [Widened(choices, k, NoChoice) EXCEPT ![k] =
         [content |-> old.content \o c.content,
          finished |-> old.finished \/ c.finish,
          tools |-> FoldLeft(IngestTool, old.tools, c.tools)]]

Ingest(acc, ev) ==
  CASE ev.is = "none" -> acc
    [] ev.is = "done" -> [acc EXCEPT !.done = TRUE]
    [] ev.is = "bad"  -> [acc EXCEPT !.bad = TRUE]
    [] ev.is = "data" /\ ev.chunk.error -> [acc EXCEPT !.error = TRUE]
    [] ev.is = "data" /\ ~ev.chunk.error ->
         [acc EXCEPT
            !.usage = IF ev.chunk.usage \in {None, 0} THEN @ ELSE ev.chunk.usage,
            !.choices = FoldLeft(IngestChoice, @, ev.chunk.choices)]

Assemble(events) == FoldLeft(Ingest, NoDeltas, events)

HasPayload(acc) ==
  \E i \in 1..Len(acc.choices) :
    \/ acc.choices[i].content # <<>>
    \/ \E j \in 1..Len(acc.choices[i].tools) : acc.choices[i].tools[j].name # None

AllFinished(acc) ==
  acc.choices # <<>> /\ \A i \in 1..Len(acc.choices) : acc.choices[i].finished

\* mutant of Complete: any finished choice or [DONE] will do, errors aside
CompleteSoon(acc) ==
  /\ ~acc.error /\ ~acc.bad
  /\ HasPayload(acc)

Complete(acc) ==
  /\ ~acc.error /\ ~acc.bad
  /\ acc.done \/ AllFinished(acc)
  /\ HasPayload(acc)

(* The body of the assembled response; its tool calls carry an index.        *)
Body(acc) ==
  [choices |-> [i \in 1..Len(acc.choices) |->
      [content |-> acc.choices[i].content,
       finished |-> acc.choices[i].finished,
       tools |-> [j \in 1..Len(acc.choices[i].tools) |->
                    [index |-> j - 1, name |-> acc.choices[i].tools[j].name,
                     args |-> acc.choices[i].tools[j].args]]]],
   usage |-> acc.usage]

-----------------------------------------------------------------------------
(***************************************************************************)
(* Replay.  A record with raw bytes is split at "\n\n" alone and gets a    *)
(* [DONE] if its last frame has none; one without is cut into chunks anew, *)
(* with its tool calls as the body spells them.                            *)
(***************************************************************************)
SplitOne(cut) ==
  IF At(cut.buf, Unix) = {} THEN cut ELSE Split(cut, Min(At(cut.buf, Unix)) + 1)

SplitAgain(cut, byte) == CHOOSE next \in {SplitOne(now) : now \in {cut}} : TRUE

SplitFrames(raw) ==
  LET all == FoldLeft(SplitAgain, [frames |-> <<>>, buf |-> raw], raw)
  IN  IF all.buf = <<>> THEN all.frames ELSE Append(all.frames, all.buf)

Rechunk(body) ==
  LET chunk(choices, usage) ==
        Event("data", [error |-> FALSE, usage |-> usage, choices |-> choices])
      of(i, content, tools, finish) ==
        <<[index |-> i - 1, content |-> content, tools |-> tools, finish |-> finish]>>
      two(i) == LET c == body.choices[i]
                IN  <<chunk(of(i, c.content, c.tools, FALSE), None),
                      chunk(of(i, <<>>, <<>>, c.finished), None)>>
  IN  FlattenSeq([i \in 1..Len(body.choices) |-> two(i)])
      \o <<chunk(<<>>, body.usage), Event("done", None)>>
=============================================================================
