----------------------------- MODULE StreamTee -----------------------------
(***************************************************************************)
(* The detached task that reads a provider's stream to its end             *)
(* (zerocache-http, completion.rs: spawn_tee), the record it stores, the   *)
(* record a plain claimer's write-back may put over it, and what a replay  *)
(* of the record tells a later client.  Reads may end anywhere in the      *)
(* bytes and the connection may break anywhere.                            *)
(***************************************************************************)
EXTENDS Sse

CONSTANTS
  Scripts,      \* streams a provider sends: sequences of [ev, end], end being
                \* the bytes of the blank line
  PlainBodies,  \* bodies of plain responses to the same request
  DoneEvent     \* the event "[DONE]"

FrameBytes(f) == Payload(f.ev) \o f.end
ScriptBytes(s) == FlattenSeq([i \in 1..Len(s) |-> FrameBytes(s[i])])

(* Only the last frame may lack its blank line.                              *)
ASSUME ScriptsAssumption ==
  /\ DoneEvent \in DOMAIN Kind /\ Kind[DoneEvent] = "done"
  /\ \A s \in Scripts :
       /\ s \in Seq([ev : DOMAIN Kind, end : {Unix, Dos, <<>>}])
       /\ \A i \in 1..(Len(s) - 1) : s[i].end # <<>>

(* What the first n frames of a stream say, and an event that changes it.    *)
Said(s, n) == Assemble([i \in 1..n |-> Parse(Payload(s[i].ev))])

Adds(ev) ==
  \/ ev.is = "bad"
  \/ ev.is = "data" /\ (ev.chunk.error \/ ev.chunk.choices # <<>>)

(* Once all choices have finished, or [DONE] is said, a provider adds none:  *)
(* the usage, comments and [DONE] are what may follow.                       *)
ASSUME QuietAssumption ==
  \A s \in Scripts : \A n \in 0..Len(s) :
    Said(s, n).done \/ AllFinished(Said(s, n)) =>
      \A i \in (n + 1)..Len(s) : ~Adds(Parse(Payload(s[i].ev)))

(* Providers number the calls of a choice in order, or not at all.           *)
ASSUME BodiesAssumption ==
  \A body \in PlainBodies :
    /\ body \in [usage : Nat,
                 choices : Seq([content : Seq(STRING), finished : BOOLEAN,
                                tools : Seq(CallDeltas)])]
    /\ \A i \in 1..Len(body.choices) :
         LET tools == body.choices[i].tools
         IN  \/ \A j \in 1..Len(tools) : tools[j].index = None
             \/ \A j \in 1..Len(tools) : tools[j].index = j - 1

VARIABLES
  script,    \* what the provider sends
  injected,  \* the tee's request asked for the usage that its client did not
  pos,       \* how many bytes have been read
  buf,       \* SseFrameParser.buf
  asm,       \* the DeltaAssembler
  capture,   \* raw_capture
  sent,      \* what the client was sent
  here,      \* the client is still there
  broken,    \* the connection broke
  phase,     \* "open", "flush", "store" or "over"
  cell,      \* the stored record, or None
  plain      \* a plain claimer has its write-back to do

upstream == <<script, injected, pos, broken>>
taken == <<buf, asm, capture, sent>>
vars == <<upstream, taken, here, phase, cell, plain>>

TypeOK ==
  /\ script \in Scripts /\ injected \in BOOLEAN
  /\ pos \in 0..Len(ScriptBytes(script))
  /\ here \in BOOLEAN /\ broken \in BOOLEAN /\ plain \in BOOLEAN
  /\ phase \in {"open", "flush", "store", "over"}
  /\ phase # "open" /\ ~broken => pos = Len(ScriptBytes(script))
  /\ Len(buf) <= pos
  /\ here => sent = capture

Init ==
  /\ script \in Scripts
  /\ injected \in BOOLEAN
  /\ pos = 0 /\ buf = <<>> /\ asm = NoDeltas
  /\ capture = <<>> /\ sent = <<>>
  /\ here = TRUE /\ broken = FALSE
  /\ phase = "open"
  /\ cell = None
  /\ plain \in BOOLEAN

Forward(bytes) ==
  /\ capture' = capture \o bytes
  /\ sent' = IF here THEN sent \o bytes ELSE sent

(***************************************************************************)
(* A read brings the next n bytes.  Each whole frame is assembled and      *)
(* forwarded, the injected usage frame excepted.                           *)
(***************************************************************************)
Withheld(frame) == injected /\ IsUsageOnly(Parse(frame))

\* mutant of Shown: a read with the usage frame is held back as a whole
ShownReads(frames) ==
  IF \E i \in 1..Len(frames) : Withheld(frames[i]) THEN <<>> ELSE frames
\* mutant of Shown: nothing is held back
ShownAll(frames) == frames

Shown(frames) ==
  [i \in 1..Len(frames) |-> IF Withheld(frames[i]) THEN <<>> ELSE frames[i]]

Read ==
  /\ phase = "open"
  /\ \E n \in 1..(Len(ScriptBytes(script)) - pos) :
       \E cut \in {Cut(buf \o SubSeq(ScriptBytes(script), pos + 1, pos + n))} :
         /\ pos' = pos + n
         /\ buf' = cut.buf
         /\ asm' = FoldLeft(Ingest, asm, Events(cut.frames))
         /\ Forward(FlattenSeq(Shown(cut.frames)))
  /\ UNCHANGED <<script, injected, here, broken, phase, cell, plain>>

StreamEnds ==
  /\ phase = "open"
  /\ pos = Len(ScriptBytes(script))
  /\ phase' = "flush"
  /\ UNCHANGED <<upstream, taken, here, cell, plain>>

StreamBreaks ==
  /\ phase = "open"
  /\ broken' = TRUE
  /\ phase' = "flush"
  /\ UNCHANGED <<script, injected, pos, taken, here, cell, plain>>

(***************************************************************************)
(* The loop is over: a last frame without its blank line is assembled and  *)
(* forwarded (white space alone is dropped), and the verdict is given.     *)
(***************************************************************************)
\* mutants of Flush: the last frame is not sent; a tee without client waits
FlushSilently ==
  LET last == Trailing(buf)
      all == FoldLeft(Ingest, asm, Events(last))
  IN  /\ phase = "flush"
      /\ buf' = <<>>
      /\ asm' = all
      /\ capture' = capture \o FlattenSeq(last)
      /\ phase' = IF Complete(all) THEN "store" ELSE "over"
      /\ UNCHANGED <<upstream, sent, here, cell, plain>>
FlushWhileHere ==
  /\ phase = "flush" /\ here
  /\ buf' = <<>>
  /\ phase' = "over"
  /\ UNCHANGED <<upstream, asm, capture, sent, here, cell, plain>>

Flush ==
  LET last == Trailing(buf)
      all == FoldLeft(Ingest, asm, Events(last))
  IN  /\ phase = "flush"
      /\ buf' = <<>>
      /\ asm' = all
      /\ Forward(FlattenSeq(last))
      /\ phase' = IF Complete(all) THEN "store" ELSE "over"
      /\ UNCHANGED <<upstream, here, cell, plain>>

(* CachedCompletion, of a stream and of a plain response.                    *)
StreamedRecord(raw, body) == [streamed |-> TRUE, raw |-> raw, body |-> body]
PlainRecord(body) == [streamed |-> FALSE, raw |-> <<>>, body |-> body]

(* The record of a complete stream is stored; an error of the store is       *)
(* logged.  Then the tee leaves the map (Coalesce: Settle and what follows). *)
\* mutant of Put: the record keeps what the client was sent
PutSent ==
  /\ phase = "store"
  /\ cell' = StreamedRecord(sent, Body(asm))
  /\ phase' = "over"
  /\ UNCHANGED <<upstream, taken, here, plain>>

Put ==
  /\ phase = "store"
  /\ cell' = StreamedRecord(capture, Body(asm))
  /\ phase' = "over"
  /\ UNCHANGED <<upstream, taken, here, plain>>

PutFails ==
  /\ phase = "store"
  /\ phase' = "over"
  /\ UNCHANGED <<upstream, taken, here, cell, plain>>

ClientLeaves ==
  /\ here
  /\ here' = FALSE
  /\ UNCHANGED <<upstream, taken, phase, cell, plain>>

(* A plain claimer's write-back, of a call that succeeded before or after.   *)
PlainWriteBack ==
  /\ plain
  /\ plain' = FALSE
  /\ \E body \in PlainBodies : cell' = PlainRecord(body)
  /\ UNCHANGED <<upstream, taken, here, phase>>

TeeStep == Read \/ StreamEnds \/ StreamBreaks \/ Flush \/ Put \/ PutFails

Next == TeeStep \/ ClientLeaves \/ PlainWriteBack

(* The tee is a task of its own; its upstream delivers or breaks.            *)
Spec == Init /\ [][Next]_vars /\ WF_vars(TeeStep)

-----------------------------------------------------------------------------
(***************************************************************************)
(* replay_body: the events a client is told.  The bytes of a record that   *)
(* was streamed are followed by a [DONE] frame unless their last frame     *)
(* holds one; the client takes a last frame without a blank line as well.  *)
(***************************************************************************)
Replay(record) ==
  IF ~record.streamed
  THEN Rechunk(record.body)
  ELSE LET frames == SplitFrames(record.raw)
           done == frames # <<>> /\ \E i \in 1..(Len(Last(frames)) - 1) :
                     SubSeq(Last(frames), i, i + 1) = Payload(DoneEvent)
           cut == Cut(IF done THEN record.raw
                              ELSE record.raw \o Payload(DoneEvent) \o Unix)
       IN  Events(cut.frames \o (IF cut.buf = <<>> THEN <<>> ELSE <<cut.buf>>))

(* What an answer says: contents and calls, whatever numbers the calls.      *)
Meaning(choices) ==
  [i \in 1..Len(choices) |->
     <<choices[i].content, choices[i].finished,
       [j \in 1..Len(choices[i].tools) |->
          <<choices[i].tools[j].name, choices[i].tools[j].args>>]>>]

Told(record) == Assemble(Replay(record))

ReplayIsFaithful(record) ==
  LET told == Told(record)
  IN  /\ ~told.bad /\ ~told.error /\ told.done
      /\ Meaning(told.choices) = Meaning(record.body.choices)

Frame(i) == FrameBytes(script[i])
Whole(n) == FlattenSeq([i \in 1..n |-> Frame(i)])
Visible(n) ==
  FlattenSeq([i \in 1..n |-> IF Withheld(Frame(i)) THEN <<>> ELSE Frame(i)])

(***************************************************************************)
(* However reads cut the stream, what is captured is the provider's bytes  *)
(* frame by frame, without the injected usage frame, and the buffer holds  *)
(* what is left of the bytes read (sse.rs:47-60, completion.rs:1042-1081). *)
(***************************************************************************)
CaptureIgnoresReads ==
  phase = "open" =>
    \E n \in 0..Len(script) :
      /\ Len(Whole(n)) + Len(buf) = pos
      /\ n < Len(script) => Len(buf) < Len(Frame(n + 1)) \/ script[n + 1].end = <<>>
      /\ capture = Visible(n)
      /\ buf = SubSeq(ScriptBytes(script), Len(Whole(n)) + 1, pos)

(***************************************************************************)
(* "An incomplete or error-carrying stream stores nothing": what the tee   *)
(* stores is the answer the provider would have given to the end, although *)
(* the connection may break anywhere, after the finishing frame too        *)
(* (completion.rs:1077 breaks the loop and leaves the verdict alone).      *)
(***************************************************************************)
StoredAnswerIsWhole ==
  cell # None /\ cell.streamed =>
    LET whole == Said(script, Len(script))
    IN  /\ ~whole.error /\ ~whole.bad
        /\ Meaning(cell.body.choices) = Meaning(Body(whole).choices)

(***************************************************************************)
(* A client that did not ask for usage is not sent a usage frame (but what *)
(* a stream that stops inside the frame leaves of it: its blank line is    *)
(* missing then), wherever reads end (completion.rs:1043-1048).            *)
(***************************************************************************)
InjectedUsageIsHidden ==
  LET cut == Cut(sent)
  IN  \A i \in 1..Len(cut.frames) : ~Withheld(cut.frames[i])

(***************************************************************************)
(* Whichever record is left, a replay tells the answer it holds and ends   *)
(* it.  Excepted are a body with two tool calls that carry no index, which *)
(* clients cannot tell apart, and raw bytes that end in neither a [DONE]   *)
(* nor a blank line, to which the replay's [DONE] is glued.                *)
(***************************************************************************)
Unnumbered(record) ==
  \E i \in 1..Len(record.body.choices) :
    LET tools == record.body.choices[i].tools
    IN  Len(tools) > 1 /\ \E j \in 1..Len(tools) : tools[j].index = None

EndsClean(record) ==
  record.raw # <<>> =>
    \E end \in {Unix, Dos, Payload(DoneEvent)} : IsSuffix(end, record.raw)

ReplayTellsTheAnswer ==
  cell # None /\ ~Unnumbered(cell) /\ EndsClean(cell) => ReplayIsFaithful(cell)

(***************************************************************************)
(* The tee outlives its client and gives its verdict, and stores the       *)
(* complete answer if the store lets it.                                   *)
(***************************************************************************)
TeeEnds == <>(phase = "over")
=============================================================================
