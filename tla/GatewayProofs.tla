---------------------------- MODULE GatewayProofs ----------------------------
(***************************************************************************)
(* Theorems about Gateway, for every set of slots, requests and settings,  *)
(* every store that fails and every upstream.                              *)
(***************************************************************************)
EXTENDS Gateway, TLAPS

RunStates == {"none", "calling", "filing", "recording", "leaving", "settled"}
Tees(r) == r.wire = "chat" /\ Streams(r)

Open(w) == w.at \notin {"none", "settled"}
Busy(x, w) == x.phase = "own" \/ Open(w)

(* A request and the run of its claim, x being a slot and w its run.        *)
SlotTyped(x, w) ==
  /\ x = [phase |-> x.phase, req |-> x.req, key |-> x.key, ride |-> x.ride,
          near |-> x.near, reply |-> x.reply, counted |-> x.counted]
  /\ w = [at |-> w.at, got |-> w.got]
  /\ x.phase \in Phases /\ x.req \in Requests /\ w.at \in RunStates

(* Who claimed nothing has no run.  The claimer of a plain run waits for   *)
(* its end, and that of a stream is answered while its tee works.          *)
PlacesFit(x, w) ==
  /\ x.phase \notin {"own", "writeback", "record", "answered"} => w.at = "none"
  /\ x.phase = "own" =>
       /\ w.at \in {"calling", "filing", "settled"}
       /\ Tees(x.req) => w.at = "calling"
  /\ x.phase \in {"writeback", "record"} => w.at = "settled"
  /\ x.phase = "answered" /\ Open(w) =>
       Tees(x.req) /\ w.at \in {"filing", "recording", "leaving"}

(* A run gets one answer, and only a success is filed.                     *)
AnswersFit(x, w) ==
  /\ x.phase \in {"lookup", "probe", "neighbour", "claim", "own"} => Cacheable(x.req)
  /\ \A a, b \in w.got : a = b
  /\ \A a \in w.got : Repeatable(a.call)
  /\ w.at \in {"filing", "recording", "leaving"} \/ x.phase = "writeback" =>
       w.got # {} /\ \A a \in w.got : Ok(a.status)

CountsFit(x, w) ==
  /\ x.phase # "answered" => x.counted = <<>>
  /\ x.phase = "answered" /\ ~Open(w) => x.counted = Owed(x.reply.kind)
  /\ x.phase = "answered" /\ Open(w) => x.counted = <<>> /\ x.reply.kind = "own"

KeysFit(x, c) == x.phase = "erase" => x.key = PostKey(x.req, c)

SlotFits(x, w, c) ==
  /\ SlotTyped(x, w)
  /\ PlacesFit(x, w)
  /\ AnswersFit(x, w)
  /\ CountsFit(x, w)
  /\ KeysFit(x, c)

SlotsFit ==
  /\ DOMAIN slot = Slot /\ DOMAIN run = Slot
  /\ \A s \in Slot : SlotFits(slot[s], run[s], cfg)

(* The in-flight map is the map of those at work.                          *)
MapFits ==
  /\ \A k \in DOMAIN flight :
       flight[k] \in Slot /\ Key(flight[k]) = k /\ Busy(slot[flight[k]], run[flight[k]])
  /\ \A s \in Slot : Busy(slot[s], run[s]) =>
       Key(s) \in DOMAIN flight /\ flight[Key(s)] = s

(* Who may yet store has a key that was not deleted behind its back.       *)
WritersFit ==
  \A s \in Slot :
    Busy(slot[s], run[s]) \/ In(s, "writeback") => Key(s) \notin deleted

GatewayInv ==
  /\ left \in 0..MaxEvents
  /\ SlotsFit
  /\ MapFits
  /\ WritersFit
  /\ StoreIsRepeatable
  /\ DeletesLast
-----------------------------------------------------------------------------
(***************************************************************************)
(* The operators.                                                          *)
(***************************************************************************)

(* What is cacheable is repeatable, also with the options that a streaming *)
(* claimer adds.                                                           *)
LEMMA CallsRepeat ==
  ASSUME NEW r, NEW c, Cacheable(r)
  PROVE  /\ Repeatable(Call(r, c))
         /\ r.wire = "chat" => Repeatable(StreamCall(r, c))
<1> USE DEF Repeatable, HasMessages, IsZero, Has, Absent
<1>1. CASE r.wire = "chat"
  <2>1. ChatIsCacheable(r.body)
    BY <1>1 DEF Cacheable
  <2>2. \A f \in {"messages", "n", "temperature", "seed"} :
          /\ f \in DOMAIN r.body <=> f \in DOMAIN Patched(r.body)
          /\ f \in DOMAIN r.body => Patched(r.body)[f] = r.body[f]
    BY DEF Patched, With
  <2> QED BY <1>1, <2>1, <2>2
          DEF ChatIsCacheable, Call, ChatCall, StreamCall
<1>2. CASE r.wire # "chat"
  <2>1. MessagesIsCacheable(r.body)
    BY <1>2 DEF Cacheable
  <2> QED BY <1>2, <2>1 DEF MessagesIsCacheable, Call, AnthropicCall
<1> QED BY <1>1, <1>2

LEMMA Counting ==
  /\ <<>> \o Hit = Hit /\ <<>> \o Miss = Miss
  /\ <<>> \o SemanticHit = SemanticHit /\ <<>> \o <<>> = <<>>
BY DEF Hit, Miss, SemanticHit

LEMMA Owing ==
  /\ Owed("hit") = Hit /\ Owed("semantic") = SemanticHit
  /\ Owed("own") = Miss /\ Owed("ride") = Miss
  /\ \A kind \in {"error", "refused", "passed", "deleted"} : Owed(kind) = <<>>
BY DEF Owed

LEMMA FirstPhases ==
  ASSUME NEW r \in Requests
  PROVE  /\ FirstPhase(r) \in {"erase", "pass", "lookup"}
         /\ FirstPhase(r) = "erase" => r.method = "DELETE"
         /\ FirstPhase(r) = "lookup" => Cacheable(r)
BY RequestsAssumption DEF FirstPhase, PassesThrough

LEMMA DeleteMirrorsPost ==
  ASSUME NEW r, NEW c
  PROVE  DeleteKey(r, c) = PostKey(r, c)
BY DEF DeleteKey, PostKey

-----------------------------------------------------------------------------
(***************************************************************************)
(* What a step does to its slot.                                           *)
(***************************************************************************)

(* The other slots and their runs stay as they are.                        *)
OthersStay(s) ==
  /\ cfg' = cfg
  /\ DOMAIN slot' = Slot /\ DOMAIN run' = Slot
  /\ \A t \in Slot \ {s} : slot'[t] = slot[t] /\ run'[t] = run[t]

LEMMA ReplyTells ==
  ASSUME SlotsFit, NEW s \in Slot, NEW status, NEW kind, NEW got, NEW counted,
         Reply(s, status, kind, got, counted)
  PROVE  /\ DOMAIN slot' = Slot
         /\ \A t \in Slot \ {s} : slot'[t] = slot[t]
         /\ slot'[s] = [phase |-> "answered", req |-> slot[s].req, key |-> slot[s].key,
                        ride |-> slot[s].ride, near |-> slot[s].near,
                        reply |-> [status |-> status, kind |-> kind, got |-> got],
                        counted |-> slot[s].counted \o counted]
<1> DEFINE x == slot[s]
           y == [x EXCEPT !.phase = "answered",
                          !.reply = [status |-> status, kind |-> kind, got |-> got],
                          !.counted = x.counted \o counted]
<1>1. slot' = [slot EXCEPT ![s] = y]
  BY DEF Reply
<1>2. DOMAIN slot = Slot /\ SlotTyped(x, run[s])
  BY DEF SlotsFit, SlotFits
<1>3. DOMAIN slot' = Slot /\ slot'[s] = y /\ \A t \in Slot \ {s} : slot'[t] = slot[t]
  <2> HIDE DEF y
  <2> QED BY <1>1, <1>2
<1>4. y = [phase |-> "answered", req |-> x.req, key |-> x.key,
           ride |-> x.ride, near |-> x.near,
           reply |-> [status |-> status, kind |-> kind, got |-> got],
           counted |-> x.counted \o counted]
  <2> DEFINE reply == [status |-> status, kind |-> kind, got |-> got]
             total == x.counted \o counted
             x1 == [phase |-> "answered", req |-> x.req, key |-> x.key, ride |-> x.ride,
                    near |-> x.near, reply |-> x.reply, counted |-> x.counted]
             x2 == [phase |-> "answered", req |-> x.req, key |-> x.key, ride |-> x.ride,
                    near |-> x.near, reply |-> reply, counted |-> x.counted]
  <2>1. y = [[[x EXCEPT !.phase = "answered"] EXCEPT !.reply = reply]
               EXCEPT !.counted = total]
    OBVIOUS
  <2> HIDE DEF x, total, reply
  <2>2. [x EXCEPT !.phase = "answered"] = x1
    BY <1>2 DEF SlotTyped
  <2>3. [x1 EXCEPT !.reply = reply] = x2
    OBVIOUS
  <2>4. [x2 EXCEPT !.counted = total]
         = [phase |-> "answered", req |-> x.req, key |-> x.key, ride |-> x.ride,
            near |-> x.near, reply |-> reply, counted |-> total]
    OBVIOUS
  <2> HIDE DEF x1, x2, y
  <2> QED BY <2>1, <2>2, <2>3, <2>4 DEF total, reply
<1> QED BY <1>3, <1>4

LEMMA GotoTells ==
  ASSUME SlotsFit, NEW s \in Slot, NEW phase, Goto(s, phase)
  PROVE  /\ DOMAIN slot' = Slot
         /\ \A t \in Slot \ {s} : slot'[t] = slot[t]
         /\ slot'[s] = [phase |-> phase, req |-> slot[s].req, key |-> slot[s].key,
                        ride |-> slot[s].ride, near |-> slot[s].near,
                        reply |-> slot[s].reply, counted |-> slot[s].counted]
<1> DEFINE x == slot[s]
           y == [x EXCEPT !.phase = phase]
<1>1. slot' = [slot EXCEPT ![s] = y]
  BY DEF Goto
<1>2. DOMAIN slot = Slot /\ SlotTyped(x, run[s])
  BY DEF SlotsFit, SlotFits
<1>3. DOMAIN slot' = Slot /\ slot'[s] = y /\ \A t \in Slot \ {s} : slot'[t] = slot[t]
  <2> HIDE DEF y
  <2> QED BY <1>1, <1>2
<1>4. y = [phase |-> phase, req |-> x.req, key |-> x.key, ride |-> x.ride,
           near |-> x.near, reply |-> x.reply, counted |-> x.counted]
  <2> HIDE DEF x
  <2> QED BY <1>2 DEF SlotTyped
<1> QED BY <1>3, <1>4

LEMMA NearTells ==
  ASSUME SlotsFit, NEW s \in Slot, NEW near,
         slot' = [slot EXCEPT ![s] = [slot[s] EXCEPT !.phase = "neighbour", !.near = near]]
  PROVE  /\ DOMAIN slot' = Slot
         /\ \A t \in Slot \ {s} : slot'[t] = slot[t]
         /\ slot'[s] = [phase |-> "neighbour", req |-> slot[s].req, key |-> slot[s].key,
                        ride |-> slot[s].ride, near |-> near,
                        reply |-> slot[s].reply, counted |-> slot[s].counted]
<1> DEFINE x == slot[s]
           x1 == [phase |-> "neighbour", req |-> x.req, key |-> x.key, ride |-> x.ride,
                  near |-> x.near, reply |-> x.reply, counted |-> x.counted]
           y == [phase |-> "neighbour", req |-> x.req, key |-> x.key, ride |-> x.ride,
                 near |-> near, reply |-> x.reply, counted |-> x.counted]
<1>1. DOMAIN slot = Slot /\ SlotTyped(x, run[s])
  BY DEF SlotsFit, SlotFits
<1> HIDE DEF x
<1>2. [x EXCEPT !.phase = "neighbour"] = x1
  BY <1>1 DEF SlotTyped
<1>3. [x1 EXCEPT !.near = near] = y
  OBVIOUS
<1>4. slot' = [slot EXCEPT ![s] = y]
  <2>1. slot' = [slot EXCEPT ![s] = [x EXCEPT !.phase = "neighbour", !.near = near]]
    BY DEF x
  <2> HIDE DEF x1, y
  <2> QED BY <1>2, <1>3, <2>1
<1>5. DOMAIN slot' = Slot /\ slot'[s] = y /\ \A t \in Slot \ {s} : slot'[t] = slot[t]
  <2> HIDE DEF y
  <2> QED BY <1>1, <1>4
<1> QED BY <1>5 DEF x

LEMMA RideTells ==
  ASSUME SlotsFit, NEW s \in Slot, NEW ride,
         slot' = [slot EXCEPT ![s] = [slot[s] EXCEPT !.phase = "ride", !.ride = ride]]
  PROVE  /\ DOMAIN slot' = Slot
         /\ \A t \in Slot \ {s} : slot'[t] = slot[t]
         /\ slot'[s] = [phase |-> "ride", req |-> slot[s].req, key |-> slot[s].key,
                        ride |-> ride, near |-> slot[s].near,
                        reply |-> slot[s].reply, counted |-> slot[s].counted]
<1> DEFINE x == slot[s]
           x1 == [phase |-> "ride", req |-> x.req, key |-> x.key, ride |-> x.ride,
                  near |-> x.near, reply |-> x.reply, counted |-> x.counted]
           y == [phase |-> "ride", req |-> x.req, key |-> x.key, ride |-> ride,
                 near |-> x.near, reply |-> x.reply, counted |-> x.counted]
<1>1. DOMAIN slot = Slot /\ SlotTyped(x, run[s])
  BY DEF SlotsFit, SlotFits
<1> HIDE DEF x
<1>2. [x EXCEPT !.phase = "ride"] = x1
  BY <1>1 DEF SlotTyped
<1>3. [x1 EXCEPT !.ride = ride] = y
  OBVIOUS
<1>4. slot' = [slot EXCEPT ![s] = y]
  <2>1. slot' = [slot EXCEPT ![s] = [x EXCEPT !.phase = "ride", !.ride = ride]]
    BY DEF x
  <2> HIDE DEF x1, y
  <2> QED BY <1>2, <1>3, <2>1
<1>5. DOMAIN slot' = Slot /\ slot'[s] = y /\ \A t \in Slot \ {s} : slot'[t] = slot[t]
  <2> HIDE DEF y
  <2> QED BY <1>1, <1>4
<1> QED BY <1>5 DEF x

LEMMA CountTells ==
  ASSUME SlotsFit, NEW s \in Slot, NEW counted, Count(s, counted)
  PROVE  /\ DOMAIN slot' = Slot
         /\ \A t \in Slot \ {s} : slot'[t] = slot[t]
         /\ slot'[s] = [phase |-> slot[s].phase, req |-> slot[s].req, key |-> slot[s].key,
                        ride |-> slot[s].ride, near |-> slot[s].near,
                        reply |-> slot[s].reply, counted |-> slot[s].counted \o counted]
<1> DEFINE x == slot[s]
           total == x.counted \o counted
           y == [x EXCEPT !.counted = total]
<1>1. slot' = [slot EXCEPT ![s] = y]
  BY DEF Count
<1>2. DOMAIN slot = Slot /\ SlotTyped(x, run[s])
  BY DEF SlotsFit, SlotFits
<1>3. DOMAIN slot' = Slot /\ slot'[s] = y /\ \A t \in Slot \ {s} : slot'[t] = slot[t]
  <2> HIDE DEF y
  <2> QED BY <1>1, <1>2
<1>4. y = [phase |-> x.phase, req |-> x.req, key |-> x.key, ride |-> x.ride,
           near |-> x.near, reply |-> x.reply, counted |-> total]
  <2> HIDE DEF x, total
  <2> QED BY <1>2 DEF SlotTyped
<1> QED BY <1>3, <1>4

LEMMA RunMoves ==
  ASSUME SlotsFit, NEW s \in Slot, NEW at, NEW got, Advance(s, at, got)
  PROVE  /\ DOMAIN run' = Slot
         /\ \A t \in Slot \ {s} : run'[t] = run[t]
         /\ run'[s] = [at |-> at, got |-> got]
BY DEF SlotsFit, Advance

(* A request that was received has no run.                                 *)
LEMMA ReceivedFits ==
  ASSUME NEW r \in Requests, NEW c
  PROVE  /\ SlotFits(Received(r, c), NoRun, c)
         /\ Received(r, c).phase \in {"answered", "erase", "pass", "lookup"}
<1> USE DEF NoRun, SlotFits, SlotTyped, PlacesFit, AnswersFit, CountsFit, KeysFit,
            Open, RunStates, Phases, AtRest, NoReply
<1>1. CASE Refusal(r, c) # {}
  BY <1>1, Owing DEF Received
<1>2. CASE Refusal(r, c) = {}
  BY <1>2, FirstPhases, DeleteMirrorsPost DEF Received
<1> QED BY <1>1, <1>2

(* What is answered while no run is open owes what it counts.              *)
LEMMA ReplyFits ==
  ASSUME SlotsFit, NEW s \in Slot, NEW status, NEW kind, NEW got, NEW counted,
         Reply(s, status, kind, got, counted), slot[s].phase # "answered",
         counted \in {Hit, Miss, SemanticHit, <<>>}, Owed(kind) = counted,
         cfg' = cfg, DOMAIN run' = Slot, \A t \in Slot \ {s} : run'[t] = run[t],
         ~Open(run'[s]), SlotTyped(slot[s], run'[s]),
         \A a, b \in run'[s].got : a = b, \A a \in run'[s].got : Repeatable(a.call)
  PROVE  /\ OthersStay(s) /\ SlotFits(slot'[s], run'[s], cfg)
         /\ slot'[s].phase = "answered"
<1>1. slot[s].counted = <<>> /\ SlotTyped(slot[s], run'[s])
  BY DEF SlotsFit, SlotFits, CountsFit
<1>2. slot'[s] = [phase |-> "answered", req |-> slot[s].req, key |-> slot[s].key,
                  ride |-> slot[s].ride, near |-> slot[s].near,
                  reply |-> [status |-> status, kind |-> kind, got |-> got],
                  counted |-> counted]
  <2>1. slot[s].counted \o counted = counted
    BY <1>1, Counting, Zenon
  <2>2. slot'[s] = [phase |-> "answered", req |-> slot[s].req, key |-> slot[s].key,
                    ride |-> slot[s].ride, near |-> slot[s].near,
                    reply |-> [status |-> status, kind |-> kind, got |-> got],
                    counted |-> slot[s].counted \o counted]
    BY ReplyTells
  <2> QED BY <2>1, <2>2
<1>3. OthersStay(s)
  BY ReplyTells DEF OthersStay
<1>4. SlotTyped(slot'[s], run'[s])
  BY <1>1, <1>2 DEF SlotTyped, Phases
<1>5. PlacesFit(slot'[s], run'[s]) /\ AnswersFit(slot'[s], run'[s])
  BY <1>1, <1>2 DEF PlacesFit, AnswersFit, SlotTyped, Open, RunStates
<1>6. CountsFit(slot'[s], run'[s]) /\ KeysFit(slot'[s], cfg)
  BY <1>2 DEF CountsFit, KeysFit
<1> QED BY <1>2, <1>3, <1>4, <1>5, <1>6 DEF SlotFits

(* What moves on before its answer must fit its new place.                 *)
LEMMA GotoFits ==
  ASSUME SlotsFit, NEW s \in Slot, NEW phase \in Phases \ {"answered", "erase"},
         Goto(s, phase), slot[s].phase # "answered",
         phase \in {"lookup", "probe", "neighbour", "claim", "own"} => Cacheable(slot[s].req),
         phase \notin {"own", "writeback", "record"} => run'[s].at = "none",
         phase = "own" =>
           run'[s].at \in {"calling", "filing", "settled"}
             /\ (Tees(slot[s].req) => run'[s].at = "calling"),
         phase \in {"writeback", "record"} => run'[s].at = "settled",
         phase = "writeback" => run'[s].got # {} /\ \A a \in run'[s].got : Ok(a.status),
         run'[s].at = "filing" => run'[s].got # {} /\ \A a \in run'[s].got : Ok(a.status),
         cfg' = cfg, DOMAIN run' = Slot, \A t \in Slot \ {s} : run'[t] = run[t],
         SlotTyped(slot[s], run'[s]),
         \A a, b \in run'[s].got : a = b, \A a \in run'[s].got : Repeatable(a.call)
  PROVE  /\ OthersStay(s) /\ SlotFits(slot'[s], run'[s], cfg)
         /\ slot'[s].phase = phase /\ slot'[s].key = slot[s].key
<1>1. slot[s].counted = <<>> /\ SlotTyped(slot[s], run'[s])
  BY DEF SlotsFit, SlotFits, CountsFit
<1>2. slot'[s] = [phase |-> phase, req |-> slot[s].req, key |-> slot[s].key,
                  ride |-> slot[s].ride, near |-> slot[s].near,
                  reply |-> slot[s].reply, counted |-> <<>>]
  BY <1>1, GotoTells
<1>3. OthersStay(s)
  BY GotoTells DEF OthersStay
<1>4. SlotTyped(slot'[s], run'[s])
  BY <1>1, <1>2 DEF SlotTyped
<1>5. PlacesFit(slot'[s], run'[s])
  BY <1>2 DEF PlacesFit
<1>6. AnswersFit(slot'[s], run'[s])
  BY <1>2 DEF AnswersFit
<1>7. CountsFit(slot'[s], run'[s]) /\ KeysFit(slot'[s], cfg)
  BY <1>2 DEF CountsFit, KeysFit
<1> QED BY <1>2, <1>3, <1>4, <1>5, <1>6, <1>7 DEF SlotFits

-----------------------------------------------------------------------------
(***************************************************************************)
(* What a step of a slot is to the map, to the store and to the history.   *)
(***************************************************************************)
Writer(x, w) == Busy(x, w) \/ x.phase = "writeback"

OnMap(s) ==
  \/ /\ flight' = flight
     /\ Busy(slot'[s], run'[s]) <=> Busy(slot[s], run[s])
     /\ Busy(slot[s], run[s]) => slot'[s].key = Key(s)
  \/ /\ flight' = With(flight, Key(s), s)
     /\ Key(s) \notin DOMAIN flight
     /\ Busy(slot'[s], run'[s]) /\ slot'[s].key = Key(s)
  \/ /\ flight' = Without(flight, Key(s))
     /\ Busy(slot[s], run[s]) /\ ~Busy(slot'[s], run'[s])

OnStore(s) ==
  \/ store' = store /\ deleted' \subseteq deleted
  \/ /\ Writer(slot[s], run[s]) /\ deleted' = deleted
     /\ \E a \in run[s].got :
          Ok(a.status) /\ Repeatable(a.call) /\ store' = With(store, Key(s), a)
  \/ /\ store' = Without(store, Key(s))
     /\ deleted' \subseteq deleted \cup {Key(s)}
     /\ \/ deleted' = deleted
        \/ \A t \in Slot : Writer(slot[t], run[t]) => Key(t) # Key(s)

(* A writer has been one, or has claimed a key that is not deleted.        *)
OnWriters(s) ==
  Writer(slot'[s], run'[s]) =>
    /\ slot'[s].key = Key(s)
    /\ Writer(slot[s], run[s]) \/ Key(s) \notin deleted'

FitsOn(s) ==
  /\ OthersStay(s) /\ SlotFits(slot'[s], run'[s], cfg)
  /\ OnMap(s) /\ OnStore(s) /\ OnWriters(s)

(* Steps that answer or move on what claimed nothing, and touch neither    *)
(* the map nor the store.                                                  *)
LEMMA QuietFits ==
  ASSUME SlotsFit, NEW s \in Slot,
         OthersStay(s), SlotFits(slot'[s], run'[s], cfg),
         UNCHANGED <<store, flight, deleted>>,
         ~Busy(slot[s], run[s]), ~Writer(slot'[s], run'[s])
  PROVE  FitsOn(s)
BY DEF FitsOn, OnMap, OnStore, OnWriters, Writer

LEMMA AnswerFits ==
  ASSUME SlotsFit, NEW s \in Slot, NEW status, NEW kind, NEW got, NEW counted,
         Reply(s, status, kind, got, counted), slot[s].phase # "answered",
         ~Busy(slot[s], run[s]),
         counted \in {Hit, Miss, SemanticHit, <<>>}, Owed(kind) = counted,
         UNCHANGED <<cfg, store, flight, run, deleted>>
  PROVE  FitsOn(s)
<1>1. /\ DOMAIN run = Slot /\ SlotTyped(slot[s], run[s])
      /\ \A a, b \in run[s].got : a = b
      /\ \A a \in run[s].got : Repeatable(a.call)
  BY DEF SlotsFit, SlotFits, AnswersFit
<1>2. ~Open(run'[s])
  BY DEF Busy
<1>3. /\ OthersStay(s) /\ SlotFits(slot'[s], run'[s], cfg)
      /\ slot'[s].phase = "answered"
  BY <1>1, <1>2, ReplyFits
<1> QED BY <1>2, <1>3, QuietFits DEF Writer, Busy

LEMMA MoveFits ==
  ASSUME SlotsFit, NEW s \in Slot, NEW phase \in {"probe", "claim", "reread", "forget"},
         Goto(s, phase), slot[s].phase \in {"lookup", "probe", "neighbour", "ride", "erase"},
         phase \in {"probe", "claim"} => slot[s].phase \in {"lookup", "probe", "neighbour"},
         UNCHANGED <<cfg, run>>
  PROVE  /\ OthersStay(s) /\ SlotFits(slot'[s], run'[s], cfg)
         /\ ~Busy(slot[s], run[s]) /\ ~Writer(slot'[s], run'[s])
<1>1. /\ DOMAIN run = Slot /\ SlotTyped(slot[s], run[s])
      /\ \A a, b \in run[s].got : a = b
      /\ \A a \in run[s].got : Repeatable(a.call)
      /\ run[s].at = "none"
      /\ phase \in {"probe", "claim"} => Cacheable(slot[s].req)
  BY DEF SlotsFit, SlotFits, AnswersFit, PlacesFit
<1>2. phase \in Phases \ {"answered", "erase"}
  BY DEF Phases
<1>3. /\ OthersStay(s) /\ SlotFits(slot'[s], run'[s], cfg)
      /\ slot'[s].phase = phase
  BY <1>1, <1>2, GotoFits
<1> QED BY <1>1, <1>3 DEF Writer, Busy, Open

-----------------------------------------------------------------------------
(***************************************************************************)
(* Handlers that have no run, or one that is over.                         *)
(***************************************************************************)
LEMMA NotBusy ==
  ASSUME SlotsFit, NEW s \in Slot,
         slot[s].phase \notin {"own", "answered"}
  PROVE  ~Busy(slot[s], run[s])
BY DEF SlotsFit, SlotFits, PlacesFit, Busy, Open

LEMMA LookupsFit ==
  ASSUME SlotsFit, NEW s \in Slot,
         Pass(s) \/ LookupHit(s) \/ LookupMiss(s) \/ StoreFails(s)
  PROVE  FitsOn(s)
<1> USE DEF In, caches
<1>1. CASE Pass(s)
  <2>1. \E kind \in {"passed", "error"} : \E status, got : Reply(s, status, kind, got, <<>>)
    BY <1>1 DEF Pass, Fail
  <2> QED BY <1>1, <2>1, NotBusy, AnswerFits, Owing DEF Pass
<1>2. CASE LookupHit(s)
  BY <1>2, NotBusy, AnswerFits, Owing DEF LookupHit
<1>3. CASE LookupMiss(s)
  BY <1>3, MoveFits, QuietFits DEF LookupMiss
<1>4. CASE StoreFails(s)
  BY <1>4, NotBusy, AnswerFits, Owing DEF StoreFails, Fail
<1> QED BY <1>1, <1>2, <1>3, <1>4

LEMMA ProbesFit ==
  ASSUME SlotsFit, NEW s \in Slot,
         Probe(s) \/ NeighbourHit(s) \/ Heal(s)
  PROVE  FitsOn(s)
<1> USE DEF In, caches
<1>1. ASSUME Probe(s), ~Goto(s, "claim")
      PROVE  FitsOn(s)
  <2> DEFINE x == slot[s]
  <2>1. PICK near : slot' = [slot EXCEPT ![s] = [x EXCEPT !.phase = "neighbour", !.near = near]]
    BY <1>1 DEF Probe
  <2> DEFINE y == [phase |-> "neighbour", req |-> x.req, key |-> x.key, ride |-> x.ride,
                   near |-> near, reply |-> x.reply, counted |-> x.counted]
  <2>2. SlotFits(x, run[s], cfg) /\ DOMAIN run = Slot /\ x.phase = "probe"
    BY <1>1 DEF SlotsFit, Probe
  <2>3. slot'[s] = y /\ OthersStay(s)
    BY <1>1, <2>1, <2>2, NearTells DEF OthersStay, Probe
  <2>4. SlotFits(y, run[s], cfg)
    BY <2>2 DEF SlotFits, SlotTyped, PlacesFit, AnswersFit, CountsFit, KeysFit, Phases
  <2>5. run' = run /\ ~Busy(slot[s], run[s]) /\ ~Busy(y, run[s])
    BY <1>1, <2>4, NotBusy DEF Probe, SlotFits, PlacesFit, Busy, Open
  <2>6. UNCHANGED <<store, flight, deleted>>
    BY <1>1 DEF Probe
  <2>7. ~Writer(y, run[s])
    BY <2>5 DEF Writer
  <2> HIDE DEF y
  <2> QED BY <2>3, <2>4, <2>5, <2>6, <2>7, QuietFits
<1>2. CASE Probe(s) /\ Goto(s, "claim")
  BY <1>2, MoveFits, QuietFits DEF Probe
<1>3. CASE NeighbourHit(s)
  BY <1>3, NotBusy, AnswerFits, Owing DEF NeighbourHit
<1>4. CASE Heal(s)
  BY <1>4, MoveFits, QuietFits DEF Heal
<1> QED BY <1>1, <1>2, <1>3, <1>4

LEMMA RidersFit ==
  ASSUME SlotsFit, NEW s \in Slot,
         Ride(s) \/ RiderReturns(s) \/ StreamingRider(s) \/ Reread(s)
  PROVE  FitsOn(s)
<1> USE DEF In, caches
<1>1. CASE Ride(s)
  <2> DEFINE x == slot[s]
             ride == flight[Key(s)]
             y == [phase |-> "ride", req |-> x.req, key |-> x.key, ride |-> ride,
                   near |-> x.near, reply |-> x.reply, counted |-> x.counted]
  <2>1. slot' = [slot EXCEPT ![s] = [x EXCEPT !.phase = "ride", !.ride = ride]]
    BY <1>1 DEF Ride
  <2>2. SlotFits(x, run[s], cfg) /\ DOMAIN run = Slot /\ x.phase = "claim"
    BY <1>1 DEF SlotsFit, Ride
  <2> HIDE DEF ride
  <2>3. slot'[s] = y /\ OthersStay(s)
    BY <1>1, <2>1, <2>2, RideTells DEF OthersStay, Ride
  <2>4. SlotFits(y, run[s], cfg)
    BY <2>2 DEF SlotFits, SlotTyped, PlacesFit, AnswersFit, CountsFit, KeysFit, Phases
  <2>5. run' = run /\ ~Busy(slot[s], run[s]) /\ ~Busy(y, run[s])
    BY <1>1, <2>4, NotBusy DEF Ride, SlotFits, PlacesFit, Busy, Open
  <2>6. UNCHANGED <<store, flight, deleted>>
    BY <1>1 DEF Ride
  <2>7. ~Writer(y, run[s])
    BY <2>5 DEF Writer
  <2> HIDE DEF y
  <2> QED BY <2>3, <2>4, <2>5, <2>6, <2>7, QuietFits
<1>2. CASE RiderReturns(s)
  BY <1>2, NotBusy, AnswerFits, Owing DEF RiderReturns, Forward, Fail
<1>3. CASE StreamingRider(s)
  BY <1>3, MoveFits, QuietFits DEF StreamingRider
<1>4. CASE Reread(s)
  BY <1>4, NotBusy, AnswerFits, Owing DEF Reread, Forward, Fail
<1> QED BY <1>1, <1>2, <1>3, <1>4

LEMMA RecordFits ==
  ASSUME SlotsFit, NEW s \in Slot, Record(s) \/ Forget(s)
  PROVE  FitsOn(s)
<1> USE DEF In, caches
<1>1. CASE Record(s)
  BY <1>1, NotBusy, AnswerFits, Owing DEF Record, Forward
<1>2. CASE Forget(s)
  BY <1>2, NotBusy, AnswerFits, Owing DEF Forget
<1> QED BY <1>1, <1>2

-----------------------------------------------------------------------------
(***************************************************************************)
(* Claims and their runs.                                                  *)
(***************************************************************************)

(* A run moves while its slot stays as it is.                              *)
LEMMA AdvanceTells ==
  ASSUME SlotsFit, NEW s \in Slot, NEW at, NEW got, Advance(s, at, got),
         UNCHANGED <<cfg, slot>>
  PROVE  OthersStay(s) /\ run'[s] = [at |-> at, got |-> got] /\ slot'[s] = slot[s]
BY RunMoves DEF OthersStay, SlotsFit

LEMMA ClaimFits ==
  ASSUME SlotsFit, NEW s \in Slot, Claim(s)
  PROVE  FitsOn(s)
<1> USE DEF In, caches
<1>1. /\ Advance(s, "calling", {}) /\ Goto(s, "own") /\ cfg' = cfg
      /\ slot[s].phase = "claim" /\ Cacheable(slot[s].req)
  BY DEF Claim, Advance, SlotsFit, SlotFits, AnswersFit
<1>2. /\ DOMAIN run' = Slot
      /\ \A t \in Slot \ {s} : run'[t] = run[t]
      /\ run'[s] = [at |-> "calling", got |-> {}]
  BY <1>1, RunMoves
<1>3. SlotTyped(slot[s], run'[s])
  BY <1>2 DEF SlotsFit, SlotFits, SlotTyped, RunStates
<1>4. "own" \in Phases \ {"answered", "erase"}
  BY DEF Phases
<1>5. /\ OthersStay(s) /\ SlotFits(slot'[s], run'[s], cfg)
      /\ slot'[s].phase = "own" /\ slot'[s].key = slot[s].key
  BY <1>1, <1>2, <1>3, <1>4, GotoFits
<1>6. Busy(slot'[s], run'[s])
  BY <1>5 DEF Busy
<1>7. OnMap(s) /\ OnStore(s) /\ OnWriters(s)
  BY <1>5, <1>6 DEF OnMap, OnStore, OnWriters, Claim, Key
<1> QED BY <1>5, <1>7 DEF FitsOn

LEMMA PlainRunFits ==
  ASSUME SlotsFit, NEW s \in Slot, PlainAnswered(s) \/ PlainFails(s) \/ PlainFiled(s)
  PROVE  FitsOn(s)
<1> USE DEF In, caches
<1> DEFINE x == slot[s]
           w == run[s]
<1>1. SlotFits(x, w, cfg) /\ ~Tees(x.req) /\ UNCHANGED <<cfg, slot, flight, deleted>>
  BY DEF SlotsFit, PlainAnswered, PlainFails, PlainFiled, IsTee, Tees, Req
<1>2. x.phase = "own"
  BY <1>1 DEF SlotFits, PlacesFit, SlotTyped, Open, Phases,
              PlainAnswered, PlainFails, PlainFiled
<1>3. PICK at, got :
        /\ at \in {"filing", "settled"} /\ Advance(s, at, got)
        /\ \A a, b \in got : a = b
        /\ \A a \in got : Repeatable(a.call)
        /\ at = "filing" => got # {} /\ \A a \in got : Ok(a.status)
  <2>1. Repeatable(Call(x.req, cfg))
    BY <1>1, <1>2, CallsRepeat DEF SlotFits, AnswersFit
  <2>2. CASE PlainAnswered(s)
    <3>1. PICK st \in Statuses :
            Advance(s, IF Ok(st) THEN "filing" ELSE "settled",
                    {[call |-> Call(Req(s), cfg), status |-> st]})
      BY <2>2 DEF PlainAnswered
    <3> DEFINE answer == [call |-> Call(Req(s), cfg), status |-> st]
    <3>2. Repeatable(answer.call) /\ answer.status = st
      BY <2>1 DEF Req
    <3>3. CASE Ok(st)
      <4>1. Advance(s, "filing", {answer})
        BY <3>1, <3>3
      <4> HIDE DEF answer
      <4> QED BY <4>1, <3>2, <3>3
    <3>4. CASE ~Ok(st)
      <4>1. Advance(s, "settled", {answer})
        BY <3>1, <3>4
      <4> HIDE DEF answer
      <4> QED BY <4>1, <3>2
    <3> QED BY <3>3, <3>4
  <2>3. CASE PlainFails(s)
    <3>1. Advance(s, "settled", {})
      BY <2>3 DEF PlainFails, Settle, Advance
    <3> QED BY <3>1
  <2>4. CASE PlainFiled(s)
    <3>1. Advance(s, "settled", w.got)
      BY <2>4 DEF PlainFiled, Settle, Advance
    <3> QED BY <1>1, <3>1 DEF SlotFits, AnswersFit
  <2> QED BY <2>2, <2>3, <2>4
<1>4. OthersStay(s) /\ run'[s] = [at |-> at, got |-> got] /\ slot'[s] = x
  BY <1>1, <1>3, AdvanceTells
<1>5. SlotFits(x, run'[s], cfg)
  BY <1>1, <1>2, <1>3, <1>4
     DEF SlotFits, SlotTyped, PlacesFit, AnswersFit, CountsFit, KeysFit, RunStates, Open
<1>6. OnMap(s) /\ OnWriters(s)
  BY <1>1, <1>2, <1>4 DEF OnMap, OnWriters, Writer, Busy, Key
<1>7. OnStore(s)
  <2>1. CASE PlainAnswered(s) \/ PlainFails(s)
    BY <1>1, <2>1 DEF PlainAnswered, PlainFails, OnStore
  <2>2. CASE PlainFiled(s)
    <3>1. \A a \in w.got : Ok(a.status) /\ Repeatable(a.call)
      BY <1>1, <2>2 DEF SlotFits, AnswersFit, PlainFiled
    <3>2. (CHOOSE a \in w.got : TRUE) \in w.got
      BY <1>1, <2>2 DEF SlotFits, AnswersFit, PlainFiled
    <3> QED BY <1>1, <1>2, <2>2, <3>1, <3>2 DEF PlainFiled, OnStore, Put, Writer, Busy
  <2> QED BY <2>1, <2>2
<1> QED BY <1>4, <1>5, <1>6, <1>7 DEF FitsOn

(* The claimer of a plain run leaves the map once, then writes back.       *)
LEMMA LeaveFits ==
  ASSUME SlotsFit, NEW s \in Slot, Leave(s)
  PROVE  FitsOn(s)
<1> USE DEF In, caches
<1> DEFINE x == slot[s]
           w == run[s]
<1>1. /\ SlotFits(x, w, cfg) /\ x.phase = "own" /\ w.at = "settled"
      /\ DOMAIN run = Slot /\ UNCHANGED <<cfg, run, store, deleted>>
      /\ flight' = Without(flight, Key(s))
  BY DEF SlotsFit, Leave
<1>2. /\ SlotTyped(x, run'[s]) /\ ~Open(run'[s])
      /\ \A a, b \in run'[s].got : a = b
      /\ \A a \in run'[s].got : Repeatable(a.call)
  BY <1>1 DEF SlotFits, AnswersFit, Open
<1>3. /\ OthersStay(s) /\ SlotFits(slot'[s], run'[s], cfg)
      /\ slot'[s].phase # "own"
      /\ slot'[s].phase = "writeback" => slot'[s].key = x.key
  <2>1. CASE \E a \in w.got : Ok(a.status)
    <3>1. Goto(s, "writeback") /\ w.got # {}
      BY <2>1 DEF Leave
    <3>2. \A a \in w.got : Ok(a.status)
      BY <1>1, <1>2, <2>1
    <3>3. "writeback" \in Phases \ {"answered", "erase"}
      BY DEF Phases
    <3> QED BY <1>1, <1>2, <3>1, <3>2, <3>3, GotoFits
  <2>2. CASE ~\E a \in w.got : Ok(a.status)
    BY <1>1, <1>2, <2>2, ReplyFits, Owing DEF Leave, Fail, Forward
  <2> QED BY <2>1, <2>2
<1>4. OnMap(s) /\ OnStore(s) /\ OnWriters(s)
  BY <1>1, <1>2, <1>3 DEF OnMap, OnStore, OnWriters, Writer, Busy, Open, Key
<1> QED BY <1>3, <1>4 DEF FitsOn

LEMMA WriteBackFits ==
  ASSUME SlotsFit, NEW s \in Slot, WriteBack(s)
  PROVE  FitsOn(s)
<1> USE DEF In, caches
<1> DEFINE x == slot[s]
           w == run[s]
<1>1. /\ SlotFits(x, w, cfg) /\ x.phase = "writeback" /\ w.at = "settled"
      /\ DOMAIN run = Slot /\ UNCHANGED <<cfg, run, flight, deleted>>
      /\ Put(Key(s), CHOOSE a \in w.got : TRUE)
  BY DEF SlotsFit, WriteBack, SlotFits, PlacesFit
<1>2. /\ SlotTyped(x, run'[s]) /\ ~Open(run'[s])
      /\ \A a, b \in run'[s].got : a = b
      /\ \A a \in w.got : Ok(a.status) /\ Repeatable(a.call)
      /\ w.got # {}
  BY <1>1 DEF SlotFits, AnswersFit, Open
<1>3. /\ OthersStay(s) /\ SlotFits(slot'[s], run'[s], cfg)
      /\ slot'[s].phase \in {"record", "answered"}
  <2>1. CASE Goto(s, "record")
    <3>1. "record" \in Phases \ {"answered", "erase"}
      BY DEF Phases
    <3> QED BY <1>1, <1>2, <2>1, <3>1, GotoFits
  <2>2. CASE ~Goto(s, "record")
    BY <1>1, <1>2, <2>2, ReplyFits, Owing DEF WriteBack, Forward
  <2> QED BY <2>1, <2>2
<1>4. OnMap(s) /\ OnWriters(s)
  BY <1>1, <1>2, <1>3 DEF OnMap, OnWriters, Writer, Busy, Open
<1>5. OnStore(s)
  <2>1. (CHOOSE a \in w.got : TRUE) \in w.got
    BY <1>2
  <2> QED BY <1>1, <1>2, <2>1 DEF OnStore, Writer, Put
<1> QED BY <1>3, <1>4, <1>5 DEF FitsOn

(* Before its stream opens, the claimer itself leaves the map.             *)
LEMMA StreamFits ==
  ASSUME SlotsFit, NEW s \in Slot, StreamRefused(s) \/ StreamFails(s) \/ StreamOpens(s)
  PROVE  FitsOn(s)
<1> USE DEF In, caches
<1> DEFINE x == slot[s]
           w == run[s]
<1>1. /\ SlotFits(x, w, cfg) /\ Tees(x.req) /\ w.at = "calling"
      /\ UNCHANGED <<cfg, store, deleted>>
  BY DEF SlotsFit, StreamRefused, StreamFails, StreamOpens, IsTee, Tees, Req
<1>2. x.phase = "own"
  BY <1>1 DEF SlotFits, PlacesFit, SlotTyped, Open, Phases
<1>3. Repeatable(StreamCall(x.req, cfg))
  BY <1>1, <1>2, CallsRepeat DEF SlotFits, AnswersFit, Tees
<1>4. CASE StreamOpens(s)
  <2> DEFINE answer == [call |-> StreamCall(x.req, cfg), status |-> "200"]
  <2>1. /\ Advance(s, "filing", {answer}) /\ flight' = flight
        /\ Reply(s, (CHOOSE a \in {answer} : TRUE).status, "own", {answer}, <<>>)
    BY <1>4 DEF StreamOpens, Forward, Req
  <2>2. Repeatable(answer.call) /\ Ok(answer.status)
    BY <1>3 DEF Ok
  <2> HIDE DEF answer
  <2> DEFINE got == {answer}
             status == (CHOOSE a \in got : TRUE).status
             reply == [status |-> status, kind |-> "own", got |-> got]
             none == <<>>
  <2>3. Reply(s, status, "own", got, none) /\ Advance(s, "filing", got)
    BY <2>1
  <2>4. \A a \in got : a = answer
    OBVIOUS
  <2>5. got # {}
    OBVIOUS
  <2> HIDE DEF status, none, got
  <2>6. /\ DOMAIN slot' = Slot /\ \A t \in Slot \ {s} : slot'[t] = slot[t]
        /\ slot'[s] = [phase |-> "answered", req |-> x.req, key |-> x.key, ride |-> x.ride,
                       near |-> x.near, reply |-> reply, counted |-> x.counted \o none]
    BY <2>3, ReplyTells
  <2>7. OthersStay(s) /\ run'[s] = [at |-> "filing", got |-> got] /\ reply.kind = "own"
    <3>1. reply.kind = "own"
      OBVIOUS
    <3>2. /\ DOMAIN run' = Slot /\ \A t \in Slot \ {s} : run'[t] = run[t]
          /\ run'[s] = [at |-> "filing", got |-> got]
      BY <2>3, RunMoves
    <3> HIDE DEF reply, x, w
    <3> QED BY <1>1, <2>6, <3>1, <3>2 DEF OthersStay
  <2> HIDE DEF reply
  <2>8. x.counted \o none = <<>>
    BY <1>1, <1>2, Counting, Zenon DEF SlotFits, CountsFit, none
  <2>9. slot'[s] = [phase |-> "answered", req |-> x.req, key |-> x.key, ride |-> x.ride,
                    near |-> x.near, reply |-> reply, counted |-> <<>>]
    BY <2>6, <2>8
  <2>10. SlotFits(slot'[s], run'[s], cfg)
    BY <1>1, <2>2, <2>7, <2>9, <2>4, <2>5
       DEF SlotFits, SlotTyped, PlacesFit, AnswersFit, CountsFit, KeysFit, RunStates,
           Open, Phases
  <2>11. OnMap(s) /\ OnStore(s) /\ OnWriters(s)
    BY <1>1, <1>2, <2>1, <2>7, <2>9
       DEF OnMap, OnStore, OnWriters, Writer, Busy, Open, Key
  <2> QED BY <2>7, <2>10, <2>11 DEF FitsOn
<1>5. CASE StreamRefused(s) \/ StreamFails(s)
  <2>1. PICK got :
          /\ Advance(s, "settled", got) /\ flight' = Without(flight, Key(s))
          /\ \A a, b \in got : a = b
          /\ \A a \in got : Repeatable(a.call)
          /\ \/ \E st : Reply(s, st, "own", got, Miss)
             \/ \E st : Reply(s, st, "error", {}, <<>>)
    <3>1. CASE StreamFails(s)
      <4>1. /\ Advance(s, "settled", {}) /\ flight' = Without(flight, Key(s))
            /\ Reply(s, "502", "error", {}, <<>>)
        BY <3>1 DEF StreamFails, Settle, Advance, Fail
      <4> QED BY <4>1
    <3>2. CASE StreamRefused(s)
      <4>1. PICK st \in Statuses :
              LET got == {[call |-> StreamCall(Req(s), cfg), status |-> st]}
              IN  Settle(s, got) /\ Forward(s, "own", got, Miss)
        BY <3>2 DEF StreamRefused
      <4> DEFINE answer == [call |-> StreamCall(Req(s), cfg), status |-> st]
      <4>2. Repeatable(answer.call)
        BY <1>3 DEF Req
      <4>3. Advance(s, "settled", {answer}) /\ \E c : Reply(s, c, "own", {answer}, Miss)
        BY <4>1 DEF Settle, Advance, Forward
      <4>4. flight' = Without(flight, Key(s))
        BY <3>2 DEF StreamRefused
      <4> HIDE DEF answer
      <4> QED BY <4>2, <4>3, <4>4
    <3> QED BY <1>5, <3>1, <3>2
  <2>2. /\ DOMAIN run' = Slot /\ \A t \in Slot \ {s} : run'[t] = run[t]
        /\ run'[s] = [at |-> "settled", got |-> got]
    BY <2>1, RunMoves
  <2>3. SlotTyped(x, run'[s]) /\ ~Open(run'[s])
    BY <1>1, <2>2 DEF SlotFits, SlotTyped, RunStates, Open
  <2>4. OthersStay(s) /\ SlotFits(slot'[s], run'[s], cfg) /\ slot'[s].phase = "answered"
    BY <1>1, <1>2, <2>1, <2>2, <2>3, ReplyFits, Owing
  <2>5. OnMap(s) /\ OnStore(s) /\ OnWriters(s)
    BY <1>1, <1>2, <2>1, <2>3, <2>4 DEF OnMap, OnStore, OnWriters, Writer, Busy
  <2> QED BY <2>4, <2>5 DEF FitsOn
<1> QED BY <1>4, <1>5

(* The tee works for an answered claimer.                                  *)
LEMMA TeeIsAnswered ==
  ASSUME SlotsFit, NEW s \in Slot,
         \/ run[s].at = "filing" /\ IsTee(s)
         \/ run[s].at \in {"recording", "leaving"}
  PROVE  /\ slot[s].phase = "answered" /\ Open(run[s])
         /\ Tees(slot[s].req) /\ slot[s].reply.kind = "own"
BY DEF SlotsFit, SlotFits, PlacesFit, CountsFit, Open, IsTee, Tees, Req

LEMMA TeeWorkFits ==
  ASSUME SlotsFit, NEW s \in Slot, TeeStores(s) \/ TeeRecords(s)
  PROVE  FitsOn(s)
<1> USE DEF caches
<1> DEFINE x == slot[s]
           w == run[s]
<1>1. /\ SlotFits(x, w, cfg) /\ x.phase = "answered" /\ Open(w) /\ Tees(x.req)
      /\ x.reply.kind = "own" /\ w.at \in {"filing", "recording"}
      /\ UNCHANGED <<cfg, slot, flight, deleted>>
  BY TeeIsAnswered DEF SlotsFit, TeeStores, TeeRecords
<1>2. PICK at \in {"recording", "leaving"} : Advance(s, at, w.got)
  <2>1. Advance(s, "recording", w.got) \/ Advance(s, "leaving", w.got)
    BY DEF TeeStores, TeeRecords
  <2> QED BY <2>1
<1>3. OthersStay(s) /\ run'[s] = [at |-> at, got |-> w.got] /\ slot'[s] = x
  BY <1>1, <1>2, AdvanceTells
<1>4. SlotFits(x, run'[s], cfg)
  BY <1>1, <1>3
     DEF SlotFits, SlotTyped, PlacesFit, AnswersFit, CountsFit, KeysFit, RunStates, Open
<1>5. OnMap(s) /\ OnWriters(s)
  BY <1>1, <1>3 DEF OnMap, OnWriters, Writer, Busy, Open, Key
<1>6. OnStore(s)
  <2>1. store' = store \/ Put(Key(s), CHOOSE a \in w.got : TRUE)
    BY DEF TeeStores, TeeRecords
  <2>2. /\ \A a \in w.got : Ok(a.status) /\ Repeatable(a.call)
        /\ (CHOOSE a \in w.got : TRUE) \in w.got
    BY <1>1 DEF SlotFits, AnswersFit
  <2> QED BY <1>1, <2>1, <2>2 DEF OnStore, Put, Writer, Busy
<1> QED BY <1>3, <1>4, <1>5, <1>6 DEF FitsOn

LEMMA TeeEndsFit ==
  ASSUME SlotsFit, NEW s \in Slot, TeeLeaves(s) \/ TeeGivesUp(s)
  PROVE  FitsOn(s)
<1> USE DEF caches
<1> DEFINE x == slot[s]
           w == run[s]
           miss == Miss
           y == [phase |-> "answered", req |-> x.req, key |-> x.key, ride |-> x.ride,
                 near |-> x.near, reply |-> x.reply, counted |-> miss]
<1>1. /\ SlotFits(x, w, cfg) /\ x.phase = "answered" /\ Open(w)
      /\ x.reply.kind = "own" /\ x.counted = <<>>
      /\ UNCHANGED <<cfg, store, deleted>> /\ flight' = Without(flight, Key(s))
  BY TeeIsAnswered DEF SlotsFit, SlotFits, CountsFit, TeeLeaves, TeeGivesUp
<1>2. PICK got : /\ Advance(s, "settled", got)
                 /\ \A a, b \in got : a = b
                 /\ \A a \in got : Repeatable(a.call)
  <2>1. Advance(s, "settled", w.got) \/ Advance(s, "settled", {})
    BY DEF TeeLeaves, TeeGivesUp, Settle, Advance
  <2> QED BY <1>1, <2>1 DEF SlotFits, AnswersFit
<1>3. /\ DOMAIN run' = Slot /\ \A t \in Slot \ {s} : run'[t] = run[t]
      /\ run'[s] = [at |-> "settled", got |-> got]
  BY <1>2, RunMoves
<1>4. OthersStay(s) /\ slot'[s] = y
  <2>1. Count(s, Miss)
    BY DEF TeeLeaves, TeeGivesUp
  <2>2. slot[s].counted \o Miss = Miss
    BY <1>1, Counting, Zenon
  <2>3. /\ DOMAIN slot' = Slot
        /\ \A t \in Slot \ {s} : slot'[t] = slot[t]
        /\ slot'[s] = [phase |-> x.phase, req |-> x.req, key |-> x.key, ride |-> x.ride,
                       near |-> x.near, reply |-> x.reply, counted |-> x.counted \o Miss]
    BY <2>1, CountTells
  <2> QED BY <1>1, <1>3, <2>2, <2>3 DEF OthersStay
<1>5. SlotFits(slot'[s], run'[s], cfg)
  BY <1>1, <1>2, <1>3, <1>4, Owing
     DEF SlotFits, SlotTyped, PlacesFit, AnswersFit, CountsFit, KeysFit, RunStates, Open
<1>6. OnMap(s) /\ OnStore(s) /\ OnWriters(s)
  BY <1>1, <1>3, <1>4 DEF OnMap, OnStore, OnWriters, Writer, Busy, Open
<1> QED BY <1>4, <1>5, <1>6 DEF FitsOn

-----------------------------------------------------------------------------
(***************************************************************************)
(* DELETE.  The key that it erases is the one that a POST would write.     *)
(***************************************************************************)
LEMMA EraseFits ==
  ASSUME SlotsFit, NEW s \in Slot, Erase(s)
  PROVE  FitsOn(s)
<1> USE DEF In, caches
<1>1. /\ slot[s].phase = "erase" /\ Key(s) = PostKey(Req(s), cfg)
      /\ DOMAIN run = Slot /\ SlotTyped(slot[s], run[s]) /\ run[s].at = "none"
      /\ \A a, b \in run[s].got : a = b
      /\ \A a \in run[s].got : Repeatable(a.call)
      /\ UNCHANGED <<cfg, flight, run>> /\ store' = Without(store, Key(s))
  BY DEF SlotsFit, SlotFits, AnswersFit, PlacesFit, KeysFit, Erase, Key, Req
<1>2. /\ OthersStay(s) /\ SlotFits(slot'[s], run'[s], cfg)
      /\ slot'[s].phase \in {"forget", "answered"}
  <2>1. CASE Goto(s, "forget")
    <3>1. "forget" \in Phases \ {"answered", "erase"}
      BY DEF Phases
    <3> QED BY <1>1, <2>1, <3>1, GotoFits
  <2>2. CASE ~Goto(s, "forget")
    <3>1. Reply(s, "200", "deleted", {}, <<>>)
      BY <2>2 DEF Erase
    <3>2. ~Open(run'[s])
      BY <1>1 DEF Open
    <3> QED BY <1>1, <3>1, <3>2, ReplyFits, Owing
  <2> QED BY <2>1, <2>2
<1>3. OnMap(s) /\ OnWriters(s)
  BY <1>1, <1>2 DEF OnMap, OnWriters, Writer, Busy, Open
<1>4. OnStore(s)
  <2>1. deleted' = IF AtWork(Key(s)) THEN deleted ELSE deleted \cup {Key(s)}
    BY <1>1 DEF Erase
  <2>2. AtWork(Key(s)) <=> \E t \in Slot : Writer(slot[t], run[t]) /\ Key(t) = Key(s)
    BY DEF AtWork, Writer, Busy, Open
  <2> QED BY <1>1, <2>1, <2>2 DEF OnStore
<1> QED BY <1>2, <1>3, <1>4 DEF FitsOn

LEMMA ArriveFits ==
  ASSUME SlotsFit, NEW s \in Slot, Arrive(s)
  PROVE  FitsOn(s)
<1> USE DEF caches
<1>1. PICK r \in Requests : slot' = [slot EXCEPT ![s] = Received(r, cfg)]
  BY DEF Arrive
<1>2. /\ OthersStay(s) /\ slot'[s] = Received(r, cfg) /\ run'[s] = NoRun
  BY <1>1 DEF SlotsFit, OthersStay, Arrive
<1>3. SlotFits(slot'[s], run'[s], cfg)
  BY <1>2, ReceivedFits
<1>4. ~Writer(slot'[s], run'[s]) /\ ~Busy(slot[s], run[s])
  BY <1>2, ReceivedFits DEF Writer, Busy, Open, NoRun, Arrive, Free
<1> QED BY <1>2, <1>3, <1>4, QuietFits DEF Arrive

-----------------------------------------------------------------------------
(***************************************************************************)
(* The invariant is inductive: what fits a slot fits the whole.            *)
(***************************************************************************)
LEMMA MapStaysFit ==
  ASSUME MapFits, NEW s \in Slot, OthersStay(s), OnMap(s)
  PROVE  MapFits'
<1> DEFINE busy(t) == Busy(slot[t], run[t])
           later(t) == Busy(slot'[t], run'[t])
<1>1. \A t \in Slot \ {s} : (later(t) <=> busy(t)) /\ slot'[t].key = Key(t)
  BY DEF OthersStay, Key
<1>2. /\ \A k \in DOMAIN flight : flight[k] \in Slot /\ Key(flight[k]) = k /\ busy(flight[k])
      /\ \A t \in Slot : busy(t) => Key(t) \in DOMAIN flight /\ flight[Key(t)] = t
  BY DEF MapFits
<1> SUFFICES /\ \A k \in DOMAIN flight' :
                  flight'[k] \in Slot /\ slot'[flight'[k]].key = k /\ later(flight'[k])
             /\ \A t \in Slot : later(t) =>
                  slot'[t].key \in DOMAIN flight' /\ flight'[slot'[t].key] = t
  BY DEF MapFits, Key
<1> USE DEF OnMap
<1> HIDE DEF busy, later
<1>3. CASE /\ flight' = flight
           /\ later(s) <=> busy(s)
           /\ busy(s) => slot'[s].key = Key(s)
  BY <1>1, <1>2, <1>3
<1>4. CASE /\ flight' = With(flight, Key(s), s)
           /\ Key(s) \notin DOMAIN flight
           /\ later(s) /\ slot'[s].key = Key(s)
  BY <1>1, <1>2, <1>4 DEF With
<1>5. CASE /\ flight' = Without(flight, Key(s))
           /\ busy(s) /\ ~later(s)
  BY <1>1, <1>2, <1>5 DEF Without
<1> QED BY <1>3, <1>4, <1>5 DEF busy, later

LEMMA StoreStaysFit ==
  ASSUME WritersFit, StoreIsRepeatable, DeletesLast,
         NEW s \in Slot, OthersStay(s), OnStore(s), OnWriters(s)
  PROVE  WritersFit' /\ StoreIsRepeatable' /\ DeletesLast'
<1>1. /\ \A t \in Slot : Writer(slot[t], run[t]) => Key(t) \notin deleted
      /\ WritersFit' <=>
           \A t \in Slot : Writer(slot'[t], run'[t]) => slot'[t].key \notin deleted'
  BY DEF WritersFit, Writer, In, Key
<1>2. \A t \in Slot \ {s} :
        /\ Writer(slot'[t], run'[t]) <=> Writer(slot[t], run[t])
        /\ slot'[t].key = Key(t)
  BY DEF OthersStay, Key
<1>3. CASE store' = store /\ deleted' \subseteq deleted
  BY <1>1, <1>2, <1>3 DEF StoreIsRepeatable, DeletesLast, OnWriters
<1>4. CASE /\ Writer(slot[s], run[s]) /\ deleted' = deleted
           /\ \E a \in run[s].got :
                Ok(a.status) /\ Repeatable(a.call) /\ store' = With(store, Key(s), a)
  BY <1>1, <1>2, <1>4 DEF StoreIsRepeatable, DeletesLast, OnWriters, With
<1>5. CASE /\ store' = Without(store, Key(s))
           /\ deleted' \subseteq deleted \cup {Key(s)}
           /\ \/ deleted' = deleted
              \/ \A t \in Slot : Writer(slot[t], run[t]) => Key(t) # Key(s)
  BY <1>1, <1>2, <1>5 DEF StoreIsRepeatable, DeletesLast, OnWriters, Without
<1> QED BY <1>3, <1>4, <1>5 DEF OnStore

LEMMA SlotsStayFit ==
  ASSUME SlotsFit, NEW s \in Slot, OthersStay(s), SlotFits(slot'[s], run'[s], cfg)
  PROVE  SlotsFit'
BY DEF SlotsFit, OthersStay

LEMMA SlotStepFits ==
  ASSUME SlotsFit, NEW s \in Slot, Serve(s) \/ Work(s)
  PROVE  FitsOn(s)
BY ArriveFits, LookupsFit, ProbesFit, RidersFit, RecordFits, ClaimFits, PlainRunFits,
   LeaveFits, WriteBackFits, StreamFits, TeeWorkFits, TeeEndsFit, EraseFits
DEF Serve, Work

LEMMA NobodyFits ==
  ASSUME NEW c
  PROVE  SlotFits(AtRest, NoRun, c) /\ ~Writer(AtRest, NoRun)
<1>1. (CHOOSE r \in Requests : TRUE) \in Requests
  BY RequestsAssumption
<1> QED BY <1>1
    DEF AtRest, NoRun, NoReply, SlotFits, SlotTyped, PlacesFit, AnswersFit, CountsFit,
        KeysFit, Open, Busy, Writer, RunStates, Phases

LEMMA InitFits == Init => GatewayInv
<1> SUFFICES ASSUME Init PROVE GatewayInv
  OBVIOUS
<1>1. /\ left \in 0..MaxEvents
      /\ DOMAIN slot = Slot /\ DOMAIN run = Slot /\ DOMAIN flight = {}
      /\ DOMAIN store = {} /\ deleted = {}
      /\ \A s \in Slot : slot[s] = AtRest /\ run[s] = NoRun
  BY BoundAssumption DEF Init
<1> QED BY <1>1, NobodyFits
    DEF GatewayInv, SlotsFit, MapFits, WritersFit, StoreIsRepeatable, DeletesLast, In,
        Writer

LEMMA RestartFits ==
  ASSUME GatewayInv, Restart
  PROVE  GatewayInv'
<1>1. /\ left' \in 0..MaxEvents
      /\ DOMAIN slot' = Slot /\ DOMAIN run' = Slot /\ DOMAIN flight' = {}
      /\ store' = store /\ deleted' = deleted
      /\ \A s \in Slot : slot'[s] = AtRest /\ run'[s] = NoRun
  BY BoundAssumption DEF GatewayInv, Restart
<1>2. SlotsFit' /\ MapFits' /\ WritersFit'
  BY <1>1, NobodyFits DEF SlotsFit, MapFits, WritersFit, In, Writer
<1>3. StoreIsRepeatable' /\ DeletesLast'
  BY <1>1 DEF GatewayInv, StoreIsRepeatable, DeletesLast
<1> QED BY <1>1, <1>2, <1>3 DEF GatewayInv

LEMMA StepFits == GatewayInv /\ [Next]_vars => GatewayInv'
<1> SUFFICES ASSUME GatewayInv, [Next]_vars PROVE GatewayInv'
  OBVIOUS
<1>1. ASSUME NEW s \in Slot, Serve(s) \/ Work(s)
      PROVE  GatewayInv'
  <2>1. FitsOn(s)
    BY <1>1, SlotStepFits DEF GatewayInv
  <2>2. SlotsFit' /\ MapFits' /\ WritersFit' /\ StoreIsRepeatable' /\ DeletesLast'
    BY <2>1, SlotsStayFit, MapStaysFit, StoreStaysFit DEF GatewayInv, FitsOn
  <2>3. left' = left \/ (left > 0 /\ left' = left - 1)
    BY <1>1 DEF Serve, Work, Arrive, Pass, LookupHit, LookupMiss, StoreFails, Probe,
       NeighbourHit, Heal, Claim, Ride, Leave, WriteBack, Record, RiderReturns,
       StreamingRider, Reread, Erase, Forget, PlainAnswered, PlainFails, PlainFiled,
       StreamRefused, StreamFails, StreamOpens, TeeStores, TeeRecords, TeeLeaves,
       TeeGivesUp
  <2>4. left' \in 0..MaxEvents
    BY <2>3, BoundAssumption DEF GatewayInv
  <2> QED BY <2>2, <2>4 DEF GatewayInv
<1>2. CASE Restart
  BY <1>2, RestartFits
<1>3. CASE UNCHANGED vars
  BY <1>3 DEF vars, caches, GatewayInv, SlotsFit, MapFits, WritersFit, StoreIsRepeatable,
     DeletesLast, In, Key
<1> QED BY <1>1, <1>2, <1>3 DEF Next

LEMMA AlwaysFits == Spec => []GatewayInv
BY InitFits, StepFits, PTL DEF Spec

-----------------------------------------------------------------------------
LEMMA InvTyped == GatewayInv => TypeOK
<1> SUFFICES ASSUME GatewayInv PROVE TypeOK
  OBVIOUS
<1>1. \A s \in Slot :
        /\ slot[s].phase \in Phases /\ slot[s].req \in Requests
        /\ run[s].at \in RunStates
        /\ Busy(slot[s], run[s]) => run[s].at # "none"
  BY DEF GatewayInv, SlotsFit, SlotFits, SlotTyped, PlacesFit, Busy, Open
<1>2. \A k \in DOMAIN flight : Key(flight[k]) = k /\ run[flight[k]].at # "none"
  BY <1>1 DEF GatewayInv, MapFits
<1>3. \A s \in Slot : (In(s, "own") \/ run[s].at \notin {"none", "settled"}) =>
        Key(s) \in DOMAIN flight /\ flight[Key(s)] = s
  BY DEF GatewayInv, MapFits, Busy, Open, In
<1> QED BY <1>1, <1>2, <1>3 DEF TypeOK, GatewayInv, RunStates

(***************************************************************************)
(* Every reachable state is typed, and the in-flight map is exactly the    *)
(* map of those at work.                                                   *)
(***************************************************************************)
THEOREM TypeCorrect == Spec => []TypeOK
BY AlwaysFits, InvTyped, PTL

(***************************************************************************)
(* Whatever upstreams answer and wherever the store fails, an error or an  *)
(* answer that is not repeatable is never stored, by any of the three      *)
(* writers.                                                                *)
(***************************************************************************)
THEOREM OnlyRepeatableIsStored == Spec => []StoreIsRepeatable
<1>1. GatewayInv => StoreIsRepeatable
  BY DEF GatewayInv
<1> QED BY <1>1, AlwaysFits, PTL

(***************************************************************************)
(* A DELETE lasts until its key is claimed again.                          *)
(***************************************************************************)
THEOREM DeleteLasts == Spec => []DeletesLast
<1>1. GatewayInv => DeletesLast
  BY DEF GatewayInv
<1> QED BY <1>1, AlwaysFits, PTL

(***************************************************************************)
(* Every answered request has counted what its answer owes, once.          *)
(***************************************************************************)
THEOREM CountsAddUp == Spec => []CountedAsAnswered
<1>1. GatewayInv => CountedAsAnswered
  BY DEF GatewayInv, SlotsFit, SlotFits, CountsFit, CountedAsAnswered, In, Open
<1> QED BY <1>1, AlwaysFits, PTL

-----------------------------------------------------------------------------
(***************************************************************************)
(* Gateway answers every request with what was said to it: for every set   *)
(* of requests, settings and slots, every fault and every restart under    *)
(* other settings.                                                         *)
(***************************************************************************)
Tells(call, r, c) ==
  SameAddressee(call, Call(r, c)) /\ Meaning(call) = Meaning(Call(r, c))

Admits(c, r) == Refusal(r, c) = {}

ToldTo(call, key) ==
  \A r \in Requests, raw \in Settings :
    LET c == Configured(raw)
    IN  Admits(c, r) /\ PostKey(r, c) = key => Tells(call, r, c)

TextsClose(m, n, unit) ==
  \E t \in FuzzyText(m, unit), u \in FuzzyText(n, unit) : Close(t, u)

Suits(a, status, kind, r, c) ==
  /\ SameAddressee(a.call, Call(r, c))
  /\ a.status = status
  /\ IF kind = "semantic"
     THEN /\ WithoutMessages(Meaning(a.call)) = WithoutMessages(Meaning(Call(r, c)))
          /\ TextsClose(a.call.body.messages, r.body.messages, c.unit)
     ELSE Meaning(a.call) = Meaning(Call(r, c))

Embedded(r, c) == Admits(c, r) /\ HasMessages(r.body) /\ IsFuzzy(r, c)

IsNear(key, r, c) ==
  \E q \in Requests, raw \in Settings :
    LET d == Configured(raw)
    IN  /\ Embedded(q, d) /\ key = PostKey(q, d)
        /\ SemanticScope(q, d) = SemanticScope(r, c)
        /\ CoarseKey(q.body, d.unit) = CoarseKey(r.body, c.unit)
        /\ TextsClose(q.body.messages, r.body.messages, c.unit)

Lookups == {"lookup", "probe", "neighbour", "claim", "own", "writeback", "record"}
KeyIsOf(x, w, c) ==
  x.phase \notin {"idle", "answered"} \/ w.at # "none" =>
    Admits(c, x.req) /\ x.key = PostKey(x.req, c)
MeansFit(x, w, c) ==
  /\ KeyIsOf(x, w, c)
  /\ \A a \in w.got : ToldTo(a.call, x.key)
  /\ x.phase \in Lookups \/ w.at # "none" => HasMessages(x.req.body)
  /\ x.phase \in {"probe", "neighbour", "record"} \/ w.at = "recording" => IsFuzzy(x.req, c)
  /\ x.phase = "neighbour" => IsNear(x.near, x.req, c)
  /\ \A a \in x.reply.got : Suits(a, x.reply.status, x.reply.kind, x.req, c)
SlotsMean == \A s \in Slot : MeansFit(slot[s], run[s], cfg)
RidesFit ==
  \A s \in Slot : slot[s].phase \in {"ride", "reread"} =>
    /\ slot[s].ride \in Slot /\ Key(slot[s].ride) = Key(s)
    /\ run[slot[s].ride].at # "none"
StoreTells == \A k \in DOMAIN store : ToldTo(store[k].call, k)
NodesFit ==
  \A n \in vectors \cup index : \E r \in Requests, raw \in Settings :
    LET c == Configured(raw) IN Embedded(r, c) /\ n = Node(r, PostKey(r, c), c)
AnswersInv ==
  /\ cfg \in {Configured(raw) : raw \in Settings}
  /\ SlotsMean /\ RidesFit /\ StoreTells /\ NodesFit

-----------------------------------------------------------------------------
LEMMA SameItems ==
  ASSUME NEW T, NEW u \in Seq(T), NEW v \in Seq(T),
         Len(u) = Len(v), \A i \in 1..Len(u) : u[i] = v[i]
  PROVE  u = v
OBVIOUS

LEMMA Cat ==
  ASSUME NEW T, NEW a \in Seq(T), NEW b \in Seq(T)
  PROVE  /\ a \o b \in Seq(T)
         /\ Len(a \o b) = Len(a) + Len(b)
         /\ \A i \in 1..Len(a) : (a \o b)[i] = a[i]
         /\ \A i \in 1..Len(b) : (a \o b)[Len(a) + i] = b[i]
OBVIOUS

Begins(p, T, owner, provider, scope, model) ==
  /\ p \in Seq(T) /\ Len(p) = Len(scope) + 9
  /\ p[1] = owner /\ p[3] = provider
  /\ \A i \in 1..Len(scope) : p[4 + i] = scope[i]
  /\ p[Len(scope) + 5] = NUL /\ p[Len(scope) + 6] = model

LEMMA PrefixShape ==
  ASSUME NEW T, NEW owner \in T, NEW provider \in T, NEW model \in T, NEW version \in T,
         NUL \in T, NEW scope \in Seq(T),
         NEW p, p = KeyPrefix(owner, provider, scope, <<model>>, version)
  PROVE  Begins(p, T, owner, provider, scope, model)
<1> DEFINE q1 == <<owner, NUL, provider, NUL>>
           t3 == <<NUL>>
           t4 == <<model>>
           t5 == <<NUL, version, NUL>>
           q2 == q1 \o scope
           q3 == q2 \o t3
           q4 == q3 \o t4
           q5 == q4 \o t5
<1>1. q1 \in Seq(T)
  OBVIOUS
<1>2. t3 \in Seq(T) /\ t4 \in Seq(T) /\ t5 \in Seq(T)
  OBVIOUS
<1>10. /\ Len(q1) = 4 /\ q1[1] = owner /\ q1[3] = provider
       /\ Len(t3) = 1 /\ t3[1] = NUL /\ Len(t4) = 1 /\ t4[1] = model /\ Len(t5) = 3
  OBVIOUS
<1>11. KeyPrefix(owner, provider, scope, <<model>>, version) = q5
  BY DEF KeyPrefix
<1> HIDE DEF q1, t3, t4, t5
<1>3. q2 \in Seq(T) /\ q3 \in Seq(T) /\ q4 \in Seq(T) /\ q5 \in Seq(T)
  <2>1. q2 \in Seq(T)
    <3> HIDE DEF q1
    <3> QED BY <1>1, Cat
  <2>2. q3 \in Seq(T)
    <3> HIDE DEF q2
    <3> QED BY <1>2, <2>1, Cat
  <2>3. q4 \in Seq(T)
    <3> HIDE DEF q3
    <3> QED BY <1>2, <2>2, Cat
  <2>4. q5 \in Seq(T)
    <3> HIDE DEF q4
    <3> QED BY <1>2, <2>3, Cat
  <2> QED BY <2>1, <2>2, <2>3, <2>4
<1>4. /\ Len(q2) = Len(q1) + Len(scope)
      /\ \A i \in 1..Len(q1) : q2[i] = q1[i]
      /\ \A i \in 1..Len(scope) : q2[Len(q1) + i] = scope[i]
  <2> HIDE DEF q1
  <2> QED BY <1>1, <1>2, <1>3, Cat
<1>5. /\ Len(q3) = Len(q2) + Len(t3)
      /\ \A i \in 1..Len(q2) : q3[i] = q2[i]
      /\ \A i \in 1..Len(t3) : q3[Len(q2) + i] = t3[i]
  <2> HIDE DEF q2
  <2> QED BY <1>1, <1>2, <1>3, Cat
<1>6. /\ Len(q4) = Len(q3) + Len(t4)
      /\ \A i \in 1..Len(q3) : q4[i] = q3[i]
      /\ \A i \in 1..Len(t4) : q4[Len(q3) + i] = t4[i]
  <2> HIDE DEF q3
  <2> QED BY <1>1, <1>2, <1>3, Cat
<1>7. /\ Len(q5) = Len(q4) + Len(t5)
      /\ \A i \in 1..Len(q4) : q5[i] = q4[i]
      /\ \A i \in 1..Len(t5) : q5[Len(q4) + i] = t5[i]
  <2> HIDE DEF q4
  <2> QED BY <1>1, <1>2, <1>3, Cat
<1> HIDE DEF q2, q3, q4, q5
<1>8. /\ Len(scope) \in Nat /\ Len(q2) = Len(scope) + 4 /\ Len(q3) = Len(scope) + 5
      /\ Len(q4) = Len(scope) + 6 /\ Len(q5) = Len(scope) + 9
  BY <1>10, <1>4, <1>5, <1>6, <1>7
<1>9. /\ q5[1] = owner /\ q5[3] = provider
      /\ \A i \in 1..Len(scope) : q5[4 + i] = scope[i]
      /\ q5[Len(scope) + 5] = NUL /\ q5[Len(scope) + 6] = model
  <2>1. q2[1] = owner /\ q2[3] = provider /\ \A i \in 1..Len(scope) : q2[4 + i] = scope[i]
    BY <1>10, <1>4
  <2>2. \A i \in 1..Len(scope) + 4 : q3[i] = q2[i]
    BY <1>8, <1>5
  <2>3. \A i \in 1..Len(scope) + 5 : q4[i] = q3[i]
    BY <1>8, <1>6
  <2>4. \A i \in 1..Len(scope) + 6 : q5[i] = q4[i]
    BY <1>8, <1>7
  <2>5. q3[Len(scope) + 5] = NUL
    BY <1>10, <1>8, <1>5
  <2>6. q4[Len(scope) + 6] = model
    BY <1>10, <1>8, <1>6
  <2>7. \A i \in 1..Len(scope) + 4 : q5[i] = q2[i]
    BY <1>8, <2>2, <2>3, <2>4
  <2>8. q5[1] = owner /\ q5[3] = provider
    BY <1>8, <2>1, <2>7
  <2>9. ASSUME NEW i \in 1..Len(scope) PROVE q5[4 + i] = scope[i]
    <3>1. 4 + i \in 1..Len(scope) + 4
      BY <1>8
    <3> QED BY <2>1, <2>7, <3>1
  <2>10. q5[Len(scope) + 5] = NUL /\ q5[Len(scope) + 6] = model
    BY <1>8, <2>3, <2>4, <2>5, <2>6
  <2> QED BY <2>8, <2>9, <2>10
<1> QED BY <1>3, <1>8, <1>9, <1>11 DEF Begins

LEMMA TaggedShape ==
  ASSUME NEW T, NEW p \in Seq(T), NEW tag \in T, NUL \in T, NEW rest \in Seq(T),
         NEW key, key = p \o <<tag, NUL>> \o rest
  PROVE  /\ Len(key) = Len(p) + 2 + Len(rest)
         /\ \A i \in 1..Len(p) : key[i] = p[i]
         /\ key[Len(p) + 1] = tag
         /\ \A i \in 1..Len(rest) : key[Len(p) + 2 + i] = rest[i]
<1> DEFINE t == <<tag, NUL>>
           q == p \o t
           k == q \o rest
<1>1. t \in Seq(T) /\ Len(t) = 2 /\ t[1] = tag
  OBVIOUS
<1>2. t \in Seq(T)
  OBVIOUS
<1> HIDE DEF t
<1>3. /\ q \in Seq(T) /\ Len(q) = Len(p) + Len(t)
      /\ \A i \in 1..Len(p) : q[i] = p[i]
      /\ \A i \in 1..Len(t) : q[Len(p) + i] = t[i]
  BY <1>2, Cat
<1>4. q \in Seq(T)
  BY <1>3
<1> HIDE DEF q
<1>5. /\ k \in Seq(T) /\ Len(k) = Len(q) + Len(rest)
      /\ \A i \in 1..Len(q) : k[i] = q[i]
      /\ \A i \in 1..Len(rest) : k[Len(q) + i] = rest[i]
  BY <1>4, Cat
<1>6. key = k
  BY DEF q, t
<1>7. Len(p) \in Nat /\ Len(rest) \in Nat
  OBVIOUS
<1> HIDE DEF k
<1>8. Len(q) = Len(p) + 2 /\ Len(k) = Len(p) + 2 + Len(rest)
  BY <1>1, <1>3, <1>5, <1>7
<1>9. \A i \in 1..Len(p) : k[i] = p[i]
  BY <1>3, <1>5, <1>7, <1>8
<1>10. k[Len(p) + 1] = tag
  BY <1>1, <1>3, <1>5, <1>7, <1>8
<1>11. \A i \in 1..Len(rest) : k[Len(p) + 2 + i] = rest[i]
  BY <1>5, <1>8
<1> QED BY <1>5, <1>6, <1>8, <1>9, <1>10, <1>11

TheKey(owner, provider, scope, model, tag, rest) ==
  KeyPrefix(owner, provider, scope, <<model>>, Version) \o <<tag, NUL>> \o rest

Spells(k, owner, provider, scope, model, tag, rest) ==
  /\ Len(k) = Len(scope) + 11 + Len(rest)
  /\ k[1] = owner /\ k[3] = provider
  /\ \A i \in 1..Len(scope) : k[4 + i] = scope[i]
  /\ k[Len(scope) + 5] = NUL /\ k[Len(scope) + 6] = model /\ k[Len(scope) + 10] = tag
  /\ \A i \in 1..Len(rest) : k[Len(scope) + 11 + i] = rest[i]

LEMMA KeyShape ==
  ASSUME NEW T, NUL \in T, Version \in T, NEW owner \in T, NEW provider \in T,
         NEW scope \in Seq(T), NEW model \in T, NEW tag \in T, NEW rest \in Seq(T),
         NEW k, k = TheKey(owner, provider, scope, model, tag, rest)
  PROVE  Spells(k, owner, provider, scope, model, tag, rest)
<1> DEFINE p == KeyPrefix(owner, provider, scope, <<model>>, Version)
           n == Len(scope)
<1>1. k = p \o <<tag, NUL>> \o rest
  BY DEF TheKey
<1>2. /\ p \in Seq(T) /\ Len(p) = n + 9
      /\ p[1] = owner /\ p[3] = provider
      /\ \A i \in 1..n : p[4 + i] = scope[i]
      /\ p[n + 5] = NUL /\ p[n + 6] = model
  <2>1. p = KeyPrefix(owner, provider, scope, <<model>>, Version)
    OBVIOUS
  <2> HIDE DEF p
  <2>2. Begins(p, T, owner, provider, scope, model)
    BY <2>1, PrefixShape
  <2> QED BY <2>2 DEF Begins
<1>3. p \in Seq(T)
  BY <1>2
<1> HIDE DEF p
<1>4. /\ Len(k) = Len(p) + 2 + Len(rest)
      /\ \A i \in 1..Len(p) : k[i] = p[i]
      /\ k[Len(p) + 1] = tag
      /\ \A i \in 1..Len(rest) : k[Len(p) + 2 + i] = rest[i]
  BY <1>1, <1>3, TaggedShape
<1>5. n \in Nat /\ Len(rest) \in Nat
  OBVIOUS
<1> HIDE DEF n
<1>7. Len(k) = n + 11 + Len(rest) /\ k[n + 10] = tag
  BY <1>2, <1>4, <1>5
<1>8. \A i \in 1..Len(rest) : k[n + 11 + i] = rest[i]
  BY <1>2, <1>4, <1>5
<1>9. k[1] = owner /\ k[3] = provider /\ k[n + 5] = NUL /\ k[n + 6] = model
  BY <1>2, <1>4, <1>5
<1>10. ASSUME NEW i \in 1..n PROVE k[4 + i] = scope[i]
  <2>1. 4 + i \in 1..Len(p)
    BY <1>2, <1>5
  <2> QED BY <1>2, <1>4, <2>1
<1> QED BY <1>7, <1>8, <1>9, <1>10 DEF n, Spells

NoNul(u) == \A i \in 1..Len(u) : u[i] # NUL

KeyParts(T, owner, provider, scope, model, tag, rest) ==
  /\ owner \in T /\ provider \in T /\ scope \in Seq(T) /\ NoNul(scope)
  /\ model \in T /\ tag \in T /\ rest \in Seq(T)

LEMMA KeysSplit ==
  ASSUME NEW T, NUL \in T, Version \in T,
         NEW o1, NEW p1, NEW s1, NEW m1, NEW t1, NEW r1, KeyParts(T, o1, p1, s1, m1, t1, r1),
         NEW o2, NEW p2, NEW s2, NEW m2, NEW t2, NEW r2, KeyParts(T, o2, p2, s2, m2, t2, r2),
         TheKey(o1, p1, s1, m1, t1, r1) = TheKey(o2, p2, s2, m2, t2, r2)
  PROVE  o1 = o2 /\ p1 = p2 /\ s1 = s2 /\ m1 = m2 /\ t1 = t2 /\ r1 = r2
<1> DEFINE k == TheKey(o1, p1, s1, m1, t1, r1)
           a == Len(s1)
           b == Len(s2)
<1> USE DEF KeyParts
<1>e. k = TheKey(o1, p1, s1, m1, t1, r1) /\ k = TheKey(o2, p2, s2, m2, t2, r2)
  OBVIOUS
<1> HIDE DEF k
<1>s. Spells(k, o1, p1, s1, m1, t1, r1)
  BY <1>e, KeyShape
<1>t. Spells(k, o2, p2, s2, m2, t2, r2)
  BY <1>e, KeyShape
<1>1. /\ Len(k) = a + 11 + Len(r1)
      /\ k[1] = o1 /\ k[3] = p1
      /\ \A i \in 1..a : k[4 + i] = s1[i]
      /\ k[a + 5] = NUL /\ k[a + 6] = m1 /\ k[a + 10] = t1
      /\ \A i \in 1..Len(r1) : k[a + 11 + i] = r1[i]
  BY <1>s DEF Spells
<1>2. /\ Len(k) = b + 11 + Len(r2)
      /\ k[1] = o2 /\ k[3] = p2
      /\ \A i \in 1..b : k[4 + i] = s2[i]
      /\ k[b + 5] = NUL /\ k[b + 6] = m2 /\ k[b + 10] = t2
      /\ \A i \in 1..Len(r2) : k[b + 11 + i] = r2[i]
  BY <1>t DEF Spells
<1>3. a \in Nat /\ b \in Nat /\ Len(r1) \in Nat /\ Len(r2) \in Nat
  OBVIOUS
<1> HIDE DEF k
<1>4. a = b
  <2>1. ~(a < b)
    <3> SUFFICES ASSUME a < b PROVE FALSE
      OBVIOUS
    <3>1. a + 1 \in 1..b /\ 4 + (a + 1) = a + 5
      BY <1>3
    <3>2. k[4 + (a + 1)] = s2[a + 1] /\ s2[a + 1] # NUL
      BY <1>2, <3>1 DEF NoNul
    <3> QED BY <1>1, <3>1, <3>2
  <2>2. ~(b < a)
    <3> SUFFICES ASSUME b < a PROVE FALSE
      OBVIOUS
    <3>1. b + 1 \in 1..a /\ 4 + (b + 1) = b + 5
      BY <1>3
    <3>2. k[4 + (b + 1)] = s1[b + 1] /\ s1[b + 1] # NUL
      BY <1>1, <3>1 DEF NoNul
    <3> QED BY <1>2, <3>1, <3>2
  <2> QED BY <1>3, <2>1, <2>2
<1>5. Len(r1) = Len(r2)
  BY <1>1, <1>2, <1>3, <1>4
<1>6. \A i \in 1..a : s1[i] = s2[i]
  BY <1>1, <1>2, <1>4
<1>7. ASSUME NEW i \in 1..Len(r1) PROVE r1[i] = r2[i]
  <2>1. k[a + 11 + i] = r1[i] /\ k[b + 11 + i] = r2[i]
    BY <1>1, <1>2, <1>5
  <2> QED BY <1>4, <2>1
<1>8. s1 = s2
  BY <1>4, <1>6, SameItems
<1>9. r1 = r2
  BY <1>5, <1>7, SameItems
<1> QED BY <1>1, <1>2, <1>4, <1>8, <1>9

-----------------------------------------------------------------------------
(***************************************************************************)
(* Requests with one key mean one thing.                                   *)
(***************************************************************************)
Tag(r) == IF r.wire = "chat" THEN "chat-completion" ELSE "anthropic-messages"

BetaTail(betas) == IF betas = <<>> THEN <<>> ELSE <<NUL, "anthropic-beta:">> \o betas

Head4(r) == <<CanonicalMessages(r.body), NUL, "anthropic-version:", SentVersion(Headers(r))>>

Rest(r) ==
  IF r.wire = "chat" THEN <<CanonicalChat(r.body)>> ELSE Head4(r) \o BetaTail(r.betas)

LEMMA PostKeySpelled ==
  ASSUME NEW r, NEW c
  PROVE  PostKey(r, c) =
           TheKey(Owner(r), r.provider, Scope(r, c), r.body.model, Tag(r), Rest(r))
<1>1. CASE r.wire = "chat"
  BY <1>1 DEF PostKey, ChatKey, CompletionKey, Prefix, TheKey, Tag, Rest
<1>2. CASE r.wire # "chat"
  <2>1. (IF Headers(r).beta = {} THEN <<>>
         ELSE <<NUL, "anthropic-beta:">> \o CHOOSE b \in Headers(r).beta : TRUE)
          = BetaTail(r.betas)
    <3>1. CASE r.betas = <<>>
      BY <3>1 DEF Headers, BetaTail
    <3>2. CASE r.betas # <<>>
      <4>1. Headers(r).beta = {r.betas}
        BY <3>2 DEF Headers
      <4>2. (CHOOSE b \in Headers(r).beta : TRUE) = r.betas
        BY <4>1
      <4> QED BY <3>2, <4>1, <4>2 DEF BetaTail
    <3> QED BY <3>1, <3>2
  <2> QED BY <1>2, <2>1 DEF PostKey, AnthropicKey, MessagesKey, Prefix, TheKey, Tag, Rest, Head4
<1> QED BY <1>1, <1>2

LEMMA AdmittedFacts ==
  ASSUME NEW r \in Requests, NEW raw \in Settings, Admits(Configured(raw), r)
  PROVE  /\ r.wire \in Wires /\ r.provider \in STRING /\ r.betas \in Seq(STRING)
         /\ Owner(r) \in STRING
         /\ "model" \in DOMAIN r.body
         /\ Scope(r, Configured(raw)) \in Seq(STRING \ {NUL})
<1> DEFINE c == Configured(raw)
<1>1. /\ r.wire \in Wires /\ r.provider \in STRING /\ r.betas \in Seq(STRING)
      /\ r.auth \in Seq(STRING)
  BY RequestsAssumption
<1>2. /\ r.json /\ Bearer(r) # {} /\ r.provider \in DOMAIN c[r.wire]
      /\ "model" \in DOMAIN r.body
  BY DEF Admits, Refusal
<1>3. Owner(r) \in STRING
  <2>1. Bearer(r) = {r.auth[2]} /\ Len(r.auth) = 2
    BY <1>2 DEF Bearer
  <2>2. r.auth[2] \in STRING
    BY <1>1, <2>1
  <2> QED BY <2>1, <2>2 DEF Owner
<1>4. Scope(r, c) \in Seq(STRING \ {NUL})
  BY <1>1, <1>2, SettingsAssumption DEF Scope
<1> QED BY <1>1, <1>2, <1>3, <1>4

LEMMA SeqGrows ==
  ASSUME NEW S, NEW T, S \subseteq T, NEW u \in Seq(S)
  PROVE  u \in Seq(T)
OBVIOUS

Joins(p, a, b) ==
  /\ Len(p) = Len(a) + Len(b)
  /\ \A i \in 1..Len(a) : p[i] = a[i]
  /\ \A i \in 1..Len(b) : p[Len(a) + i] = b[i]

LEMMA CatJoins ==
  ASSUME NEW T, NEW a \in Seq(T), NEW b \in Seq(T)
  PROVE  Joins(a \o b, a, b)
BY Cat DEF Joins

LEMMA HeadsSplit ==
  ASSUME NEW T, NEW u \in Seq(T), NEW v \in Seq(T), NEW g \in Seq(T), NEW h \in Seq(T),
         Len(u) = Len(v), u \o g = v \o h
  PROVE  u = v /\ g = h
<1> DEFINE p == u \o g
<1>1. Joins(u \o g, u, g) /\ Joins(v \o h, v, h)
  BY CatJoins
<1>2. Joins(p, u, g) /\ Joins(p, v, h)
  BY <1>1
<1> HIDE DEF p
<1>3. Len(u) \in Nat /\ Len(g) \in Nat /\ Len(h) \in Nat
  OBVIOUS
<1>4. Len(g) = Len(h)
  BY <1>2, <1>3 DEF Joins
<1>5. u = v
  BY <1>2, SameItems DEF Joins
<1>6. \A i \in 1..Len(g) : g[i] = h[i]
  BY <1>2, <1>4 DEF Joins
<1> QED BY <1>4, <1>6, <1>5, SameItems

LEMMA TailIsSeq ==
  ASSUME NEW T, NUL \in T, "anthropic-beta:" \in T, NEW u \in Seq(T)
  PROVE  BetaTail(u) \in Seq(T)
<1> DEFINE h == <<NUL, "anthropic-beta:">>
           none == <<>>
<1>1. h \in Seq(T) /\ none \in Seq(T)
  OBVIOUS
<1>2. BetaTail(u) \in {none, h \o u}
  BY DEF BetaTail
<1> HIDE DEF h, none
<1> QED BY <1>1, <1>2, Cat

LEMMA TailsSplit ==
  ASSUME NEW T, NUL \in T, "anthropic-beta:" \in T, NEW u \in Seq(T), NEW v \in Seq(T),
         BetaTail(u) = BetaTail(v)
  PROVE  u = v
<1> DEFINE h == <<NUL, "anthropic-beta:">>
<1>1. h \in Seq(T)
  OBVIOUS
<1>2. Len(h) = 2
  OBVIOUS
<1> HIDE DEF h
<1>3. ASSUME NEW x \in Seq(T)
      PROVE  /\ h \o x \in Seq(T) /\ Len(h \o x) = 2 + Len(x)
             /\ \A i \in 1..Len(x) : (h \o x)[2 + i] = x[i]
  <2> DEFINE q == h \o x
  <2>1. /\ q \in Seq(T) /\ Len(q) = Len(h) + Len(x)
        /\ \A i \in 1..Len(x) : q[Len(h) + i] = x[i]
    BY <1>1, Cat
  <2> HIDE DEF q
  <2>2. q \in Seq(T) /\ Len(q) = 2 + Len(x) /\ \A i \in 1..Len(x) : q[2 + i] = x[i]
    BY <1>2, <2>1
  <2> QED BY <2>2 DEF q
<1>4. \A x \in Seq(T) : BetaTail(x) = IF x = <<>> THEN <<>> ELSE h \o x
  BY DEF BetaTail, h
<1>5. CASE u = <<>> \/ v = <<>>
  <2>1. ASSUME NEW x \in Seq(T), x # <<>> PROVE BetaTail(x) # <<>>
    <3>1. Len(BetaTail(x)) = 2 + Len(x) /\ Len(x) \in Nat
      BY <1>3, <1>4, <2>1
    <3>2. Len(<<>>) = 0
      OBVIOUS
    <3> QED BY <3>1, <3>2
  <2>2. BetaTail(<<>>) = <<>>
    BY DEF BetaTail
  <2> QED BY <1>5, <2>1, <2>2
<1>6. CASE u # <<>> /\ v # <<>>
  <2>1. h \o u = h \o v
    BY <1>4, <1>6
  <2>2. Len(u) = Len(v)
    <3>1. Len(h \o u) = 2 + Len(u) /\ Len(h \o v) = 2 + Len(v)
      BY <1>3
    <3> QED BY <2>1, <3>1
  <2>3. \A i \in 1..Len(u) : u[i] = v[i]
    <3>1. /\ \A i \in 1..Len(u) : (h \o u)[2 + i] = u[i]
          /\ \A i \in 1..Len(v) : (h \o v)[2 + i] = v[i]
      BY <1>3
    <3> QED BY <2>1, <2>2, <3>1
  <2> QED BY <2>2, <2>3, SameItems
<1> QED BY <1>5, <1>6

(* What of two requests is the same when their keys are.                   *)
SameQuestion(q, d, r, c) ==
  /\ q.wire = r.wire /\ Owner(q) = Owner(r) /\ Scope(q, d) = Scope(r, c)
  /\ q.body.model = r.body.model
  /\ r.wire = "chat" => CanonicalChat(q.body) = CanonicalChat(r.body)
  /\ r.wire # "chat" =>
       /\ CanonicalMessages(q.body) = CanonicalMessages(r.body)
       /\ SentVersion(Headers(q)) = SentVersion(Headers(r))
       /\ Headers(q).beta = Headers(r).beta

(***************************************************************************)
(* Equal keys are of equal questions: two admitted requests whose cache    *)
(* keys are the same string, under whichever settings, are of one wire,    *)
(* owner, scope and model, and of one canonical body, version and betas.   *)
(***************************************************************************)
THEOREM KeysTellApart ==
  ASSUME NEW q \in Requests, NEW d, \E raw \in Settings : d = Configured(raw), Admits(d, q),
         NEW r \in Requests, NEW c, \E raw \in Settings : c = Configured(raw), Admits(c, r),
         PostKey(q, d) = PostKey(r, c)
  PROVE  SameQuestion(q, d, r, c)
<1> DEFINE T == STRING \cup {NUL, Version, "chat-completion", "anthropic-messages",
                             "anthropic-version:", "anthropic-beta:",
                             q.body.model, CanonicalChat(q.body), CanonicalMessages(q.body),
                             SentVersion(Headers(q)),
                             r.body.model, CanonicalChat(r.body), CanonicalMessages(r.body),
                             SentVersion(Headers(r))}
<1>1. /\ NUL \in T /\ Version \in T /\ STRING \subseteq T
      /\ "anthropic-version:" \in T /\ "anthropic-beta:" \in T
      /\ Tag(q) \in T /\ Tag(r) \in T /\ q.body.model \in T /\ r.body.model \in T
      /\ CanonicalChat(q.body) \in T /\ CanonicalMessages(q.body) \in T
      /\ SentVersion(Headers(q)) \in T
      /\ CanonicalChat(r.body) \in T /\ CanonicalMessages(r.body) \in T
      /\ SentVersion(Headers(r)) \in T
  BY DEF Tag
<1> HIDE DEF T
<1>2. ASSUME NEW x \in Requests, NEW e, \E raw \in Settings : e = Configured(raw),
             Admits(e, x), x = q \/ x = r
      PROVE  /\ x.wire \in Wires /\ x.betas \in Seq(T)
             /\ Owner(x) \in T /\ x.provider \in T /\ x.body.model \in T /\ Tag(x) \in T
             /\ Scope(x, e) \in Seq(T)
             /\ NoNul(Scope(x, e))
             /\ Head4(x) \in Seq(T) /\ Rest(x) \in Seq(T)
  <2>1. /\ x.wire \in Wires /\ x.provider \in STRING /\ x.betas \in Seq(STRING)
        /\ Owner(x) \in STRING /\ Scope(x, e) \in Seq(STRING \ {NUL})
    BY <1>2, AdmittedFacts
  <2>2. x.betas \in Seq(T) /\ Scope(x, e) \in Seq(T)
    <3>1. STRING \ {NUL} \subseteq T
      BY <1>1
    <3> QED BY <1>1, <2>1, <3>1, SeqGrows
  <2>3. NoNul(Scope(x, e))
    <3> DEFINE u == Scope(x, e)
    <3> HIDE DEF u
    <3>1. u \in Seq(STRING \ {NUL}) => NoNul(u)
      BY DEF NoNul
    <3> QED BY <2>1, <3>1 DEF u
  <2>4. /\ CanonicalMessages(x.body) \in T /\ SentVersion(Headers(x)) \in T
        /\ CanonicalChat(x.body) \in T
    BY <1>1, <1>2
  <2>5. Head4(x) \in Seq(T) /\ <<CanonicalChat(x.body)>> \in Seq(T)
    BY <1>1, <2>4 DEF Head4
  <2>6. BetaTail(x.betas) \in Seq(T)
    BY <1>1, <2>2, TailIsSeq
  <2>7. Rest(x) \in Seq(T)
    <3>1. Head4(x) \o BetaTail(x.betas) \in Seq(T)
      BY <2>5, <2>6, Cat
    <3> QED BY <2>5, <3>1 DEF Rest
  <2>8. Owner(x) \in T /\ x.provider \in T /\ x.body.model \in T /\ Tag(x) \in T
    BY <1>1, <1>2, <2>1
  <2> QED BY <2>1, <2>2, <2>3, <2>5, <2>7, <2>8
<1>3. /\ Owner(q) = Owner(r) /\ Scope(q, d) = Scope(r, c) /\ q.body.model = r.body.model
      /\ Tag(q) = Tag(r) /\ Rest(q) = Rest(r)
  <2>1. TheKey(Owner(q), q.provider, Scope(q, d), q.body.model, Tag(q), Rest(q))
         = TheKey(Owner(r), r.provider, Scope(r, c), r.body.model, Tag(r), Rest(r))
    BY PostKeySpelled
  <2>2. /\ KeyParts(T, Owner(q), q.provider, Scope(q, d), q.body.model, Tag(q), Rest(q))
        /\ KeyParts(T, Owner(r), r.provider, Scope(r, c), r.body.model, Tag(r), Rest(r))
        /\ NUL \in T /\ Version \in T
    BY <1>1, <1>2 DEF KeyParts
  <2> QED BY <2>1, <2>2, KeysSplit
<1>4. q.wire = r.wire
  BY <1>2, <1>3 DEF Tag, Wires
<1>5. ASSUME r.wire = "chat" PROVE CanonicalChat(q.body) = CanonicalChat(r.body)
  BY <1>3, <1>4, <1>5 DEF Rest
<1>6. ASSUME r.wire # "chat"
      PROVE  /\ CanonicalMessages(q.body) = CanonicalMessages(r.body)
             /\ SentVersion(Headers(q)) = SentVersion(Headers(r))
             /\ Headers(q).beta = Headers(r).beta
  <2> DEFINE g == BetaTail(q.betas)
             h == BetaTail(r.betas)
  <2>1. Head4(q) \o g = Head4(r) \o h
    BY <1>3, <1>4, <1>6 DEF Rest
  <2>2. /\ Head4(q) \in Seq(T) /\ Head4(r) \in Seq(T)
        /\ g \in Seq(T) /\ h \in Seq(T)
    <3>1. q.betas \in Seq(T) /\ r.betas \in Seq(T) /\ Head4(q) \in Seq(T) /\ Head4(r) \in Seq(T)
      BY <1>2
    <3> QED BY <1>1, <3>1, TailIsSeq
  <2>3. Len(Head4(q)) = Len(Head4(r))
    BY DEF Head4
  <2> HIDE DEF g, h
  <2>4. Head4(q) = Head4(r) /\ g = h
    BY <2>1, <2>2, <2>3, HeadsSplit
  <2>5. q.betas = r.betas
    <3>1. q.betas \in Seq(T) /\ r.betas \in Seq(T)
      BY <1>2
    <3>2. BetaTail(q.betas) = BetaTail(r.betas)
      BY <2>4 DEF g, h
    <3> QED BY <1>1, <3>1, <3>2, TailsSplit
  <2>6. Headers(q).beta = Headers(r).beta
    BY <2>5 DEF Headers
  <2> QED BY <2>4, <2>6 DEF Head4
<1> QED BY <1>3, <1>4, <1>5, <1>6 DEF SameQuestion

(* What a body means, but for the fields cos.                              *)
Meant(body, cos) ==
  [f \in DOMAIN body \ cos |->
     IF f # "messages" /\ body[f] \in DOMAIN AsInteger THEN AsInteger[body[f]] ELSE body[f]]

LEMMA MeaningIsMeant ==
  ASSUME NEW call
  PROVE  Meaning(call) = Meant(call.body, Cosmetic[call.wire])
BY DEF Meaning, Meant

LEMMA SameBodies ==
  ASSUME NEW b, NEW e, NEW dropped, NEW cos, dropped \subseteq cos \cup {"model"},
         CanonicalBody(b, dropped) = CanonicalBody(e, dropped),
         "model" \in DOMAIN b, "model" \in DOMAIN e, b.model = e.model
  PROVE  Meant(b, cos) = Meant(e, cos)
<1> DEFINE said(x, f) ==
             IF f # "messages" /\ x[f] \in DOMAIN AsInteger THEN AsInteger[x[f]] ELSE x[f]
           kept(x) == [f \in DOMAIN x \ dropped |-> said(x, f)]
<1>1. \A x : CanonicalBody(x, dropped) = kept(x)
  <2> TAKE x
  <2>1. ASSUME NEW f
        PROVE  (IF f = "messages" THEN x[f] ELSE CanonicalNumber(x[f])) = said(x, f)
    BY DEF CanonicalNumber
  <2> HIDE DEF said
  <2> QED BY <2>1, Zenon DEF CanonicalBody
<1>2. kept(b) = kept(e)
  BY <1>1
<1>3. DOMAIN b \ dropped = DOMAIN e \ dropped
  <2> HIDE DEF said
  <2>1. DOMAIN kept(b) = DOMAIN b \ dropped /\ DOMAIN kept(e) = DOMAIN e \ dropped
    OBVIOUS
  <2> QED BY <1>2, <2>1
<1>4. \A f \in DOMAIN b \ dropped : said(b, f) = said(e, f)
  <2> HIDE DEF said
  <2>1. /\ \A f \in DOMAIN b \ dropped : kept(b)[f] = said(b, f)
        /\ \A f \in DOMAIN e \ dropped : kept(e)[f] = said(e, f)
    OBVIOUS
  <2> QED BY <1>2, <1>3, <2>1
<1>5. DOMAIN b \ cos = DOMAIN e \ cos
  BY <1>3
<1>6. \A f \in DOMAIN b \ cos : said(b, f) = said(e, f)
  <2>1. said(b, "model") = said(e, "model")
    OBVIOUS
  <2> HIDE DEF said
  <2> QED BY <1>4, <2>1
<1>7. \A x : Meant(x, cos) = [f \in DOMAIN x \ cos |-> said(x, f)]
  BY DEF Meant
<1> HIDE DEF said
<1> QED BY <1>5, <1>6, <1>7

(* The options that a streaming claimer adds mean nothing.                 *)
LEMMA PatchedMeansTheSame ==
  ASSUME NEW b, NEW cos, "stream_options" \in cos
  PROVE  Meant(Patched(b), cos) = Meant(b, cos)
<1>1. /\ DOMAIN Patched(b) \ cos = DOMAIN b \ cos
      /\ \A f \in DOMAIN b \ cos : Patched(b)[f] = b[f]
  BY DEF Patched, With
<1> QED BY <1>1 DEF Meant

LEMMA SameQuestionTells ==
  ASSUME NEW q \in Requests, NEW d, NEW r \in Requests, NEW c,
         "model" \in DOMAIN q.body, "model" \in DOMAIN r.body, SameQuestion(q, d, r, c)
  PROVE  /\ Tells(Call(q, d), r, c)
         /\ q.wire = "chat" => Tells(StreamCall(q, d), r, c)
<1>1. q.wire = r.wire /\ q.wire \in Wires
  BY RequestsAssumption DEF SameQuestion
<1>2. CASE r.wire = "chat"
  <2> DEFINE cos == Cosmetic["chat"]
  <2>1. Meant(q.body, cos) = Meant(r.body, cos)
    BY <1>2, CosmeticAssumption, SameBodies DEF SameQuestion, CanonicalChat
  <2>2. Meant(Patched(q.body), cos) = Meant(q.body, cos)
    <3>1. "stream_options" \in cos
      BY CosmeticAssumption DEF ChatDropped
    <3> QED BY <3>1, PatchedMeansTheSame
  <2>3. /\ Call(q, d).wire = "chat" /\ Call(q, d).body = q.body
        /\ Call(r, c).wire = "chat" /\ Call(r, c).body = r.body
        /\ StreamCall(q, d).wire = "chat" /\ StreamCall(q, d).body = Patched(q.body)
        /\ SameAddressee(Call(q, d), Call(r, c)) /\ SameAddressee(StreamCall(q, d), Call(r, c))
    BY <1>1, <1>2 DEF SameQuestion, Call, StreamCall, ChatCall, SameAddressee
  <2> QED BY <2>1, <2>2, <2>3, MeaningIsMeant DEF Tells
<1>3. CASE r.wire # "chat"
  <2> DEFINE cos == Cosmetic["messages"]
  <2>1. Meant(q.body, cos) = Meant(r.body, cos)
    BY <1>3, CosmeticAssumption, SameBodies DEF SameQuestion, CanonicalMessages
  <2>2. /\ Call(q, d).wire = "messages" /\ Call(q, d).body = q.body
        /\ Call(r, c).wire = "messages" /\ Call(r, c).body = r.body
        /\ SameAddressee(Call(q, d), Call(r, c))
    BY <1>1, <1>3 DEF SameQuestion, Call, AnthropicCall, SameAddressee
  <2> QED BY <1>1, <1>3, <2>1, <2>2, MeaningIsMeant DEF Tells
<1> QED BY <1>2, <1>3

(* What is asked for a request is told to all that have its key.           *)
LEMMA CallsAreToldTo ==
  ASSUME NEW q \in Requests, NEW d, \E raw \in Settings : d = Configured(raw), Admits(d, q)
  PROVE  /\ ToldTo(Call(q, d), PostKey(q, d))
         /\ q.wire = "chat" => ToldTo(StreamCall(q, d), PostKey(q, d))
<1>1. ASSUME NEW r \in Requests, NEW raw \in Settings,
             Admits(Configured(raw), r), PostKey(r, Configured(raw)) = PostKey(q, d)
      PROVE  /\ Tells(Call(q, d), r, Configured(raw))
             /\ q.wire = "chat" => Tells(StreamCall(q, d), r, Configured(raw))
  <2> DEFINE c == Configured(raw)
  <2>1. \E x \in Settings : c = Configured(x)
    OBVIOUS
  <2>2. "model" \in DOMAIN q.body /\ "model" \in DOMAIN r.body
    BY <1>1, AdmittedFacts
  <2>3. Admits(c, r) /\ PostKey(q, d) = PostKey(r, c)
    BY <1>1
  <2> HIDE DEF c
  <2>4. SameQuestion(q, d, r, c)
    BY <2>1, <2>3, KeysTellApart
  <2>5. /\ Tells(Call(q, d), r, c)
        /\ q.wire = "chat" => Tells(StreamCall(q, d), r, c)
    BY <2>2, <2>4, SameQuestionTells
  <2> QED BY <2>5 DEF c
<1> QED BY <1>1 DEF ToldTo

(* Bodies of one coarse key differ in their messages alone.                *)
LEMMA CoarseSplits ==
  ASSUME NEW b, NEW u, NEW e, NEW v, CoarseKey(b, u) = CoarseKey(e, v)
  PROVE  /\ u = v
         /\ CanonicalBody(b, ChatDropped \cup {"messages"})
              = CanonicalBody(e, ChatDropped \cup {"messages"})
<1> DEFINE most(x) == CanonicalBody(x, ChatDropped \cup {"messages"})
           all(x) == CanonicalChat(x)
           blank(x, w) == [i \in 1..Len(x.messages) |->
                             IF InSpan(x.messages, i, w) THEN Blanked(x.messages[i])
                             ELSE x.messages[i]]
           kept(x, w) == IF w = "full_conversation" THEN most(x)
                         ELSE [all(x) EXCEPT !.messages = blank(x, w)]
<1>1. \A x, w : CoarseKey(x, w) = <<w, kept(x, w)>>
  BY DEF CoarseKey
<1>2. \A x : /\ DOMAIN most(x) = DOMAIN all(x) \ {"messages"}
             /\ \A f \in DOMAIN most(x) : most(x)[f] = all(x)[f]
             /\ most(x) = [f \in DOMAIN most(x) |-> most(x)[f]]
             /\ all(x) = [f \in DOMAIN all(x) |-> all(x)[f]]
  BY DEF CanonicalChat, CanonicalBody
<1> HIDE DEF most, all, blank
<1>3. u = v /\ kept(b, u) = kept(e, u)
  <2> HIDE DEF kept
  <2>1. <<u, kept(b, u)>> = <<v, kept(e, v)>>
    BY <1>1
  <2> QED BY <2>1
<1>4. CASE u = "full_conversation"
  BY <1>3, <1>4 DEF most
<1>5. CASE u # "full_conversation"
  <2>1. [all(b) EXCEPT !.messages = blank(b, u)] = [all(e) EXCEPT !.messages = blank(e, u)]
    BY <1>3, <1>5
  <2>2. \A x, y : LET g == [all(x) EXCEPT !.messages = y]
                  IN  /\ DOMAIN g = DOMAIN all(x)
                      /\ \A f \in DOMAIN all(x) \ {"messages"} : g[f] = all(x)[f]
    BY <1>2
  <2>3. /\ DOMAIN all(b) = DOMAIN all(e)
        /\ \A f \in DOMAIN all(b) \ {"messages"} : all(b)[f] = all(e)[f]
    BY <2>1, <2>2
  <2>4. most(b) = most(e)
    <3> DEFINE f == most(b)
               g == most(e)
    <3>1. DOMAIN f = DOMAIN g /\ \A x \in DOMAIN f : f[x] = g[x]
      BY <1>2, <2>3
    <3>2. f = [x \in DOMAIN f |-> f[x]] /\ g = [x \in DOMAIN g |-> g[x]]
      BY <1>2
    <3> HIDE DEF f, g
    <3>3. f = g
      BY <3>1, <3>2
    <3> QED BY <3>3 DEF f, g
  <2> QED BY <1>3, <2>4 DEF most
<1> QED BY <1>4, <1>5

LEMMA MeantWithoutMessages ==
  ASSUME NEW b, NEW cos
  PROVE  WithoutMessages(Meant(b, cos)) = Meant(b, cos \cup {"messages"})
<1> DEFINE f == Meant(b, cos)
           g == Meant(b, cos \cup {"messages"})
<1>1. /\ DOMAIN g = DOMAIN f \ {"messages"}
      /\ \A x \in DOMAIN g : g[x] = f[x]
      /\ g = [x \in DOMAIN g |-> g[x]]
  BY DEF Meant
<1> HIDE DEF f, g
<1>2. WithoutMessages(f) = g
  BY <1>1 DEF WithoutMessages
<1> QED BY <1>2 DEF f, g

(* The answer of a neighbour suits a request.                              *)
LEMMA NeighboursSuit ==
  ASSUME NEW q \in Requests, NEW raw \in Settings, Embedded(q, Configured(raw)),
         NEW r, NEW c, r.wire = "chat", "model" \in DOMAIN r.body,
         SemanticScope(q, Configured(raw)) = SemanticScope(r, c),
         CoarseKey(q.body, Configured(raw).unit) = CoarseKey(r.body, c.unit),
         TextsClose(q.body.messages, r.body.messages, c.unit),
         NEW a, Tells(a.call, q, Configured(raw))
  PROVE  Suits(a, a.status, "semantic", r, c)
<1> DEFINE d == Configured(raw)
           cos == Cosmetic["chat"]
<1>1. /\ q.wire = "chat" /\ "model" \in DOMAIN q.body
      /\ "messages" \in DOMAIN q.body /\ "messages" \notin cos
  BY AdmittedFacts, CosmeticAssumption DEF Embedded, IsFuzzy, HasMessages, Wires
<1> HIDE DEF d
<1>2. Owner(q) = Owner(r) /\ Scope(q, d) = Scope(r, c) /\ q.body.model = r.body.model
  BY DEF SemanticScope, d
<1>3. /\ Call(q, d).wire = "chat" /\ Call(q, d).body = q.body
      /\ Call(r, c).wire = "chat" /\ Call(r, c).body = r.body
      /\ SameAddressee(Call(q, d), Call(r, c))
  BY <1>1, <1>2 DEF Call, ChatCall, SameAddressee
<1>4. SameAddressee(a.call, Call(q, d)) /\ Meaning(a.call) = Meaning(Call(q, d))
  BY DEF Tells, d
<1>5. SameAddressee(a.call, Call(r, c)) /\ a.call.wire = "chat"
  BY <1>3, <1>4 DEF SameAddressee
<1>6. /\ Meaning(a.call) = Meant(a.call.body, cos)
      /\ Meaning(Call(q, d)) = Meant(q.body, cos)
      /\ Meaning(Call(r, c)) = Meant(r.body, cos)
  BY <1>3, <1>5, MeaningIsMeant
<1>7. WithoutMessages(Meaning(a.call)) = WithoutMessages(Meaning(Call(r, c)))
  <2> DEFINE dropped == ChatDropped \cup {"messages"}
             most == cos \cup {"messages"}
  <2>1. dropped \subseteq most \cup {"model"}
    BY CosmeticAssumption
  <2>2. CanonicalBody(q.body, dropped) = CanonicalBody(r.body, dropped)
    BY CoarseSplits
  <2> HIDE DEF dropped
  <2>3. Meant(q.body, most) = Meant(r.body, most)
    <3> HIDE DEF most
    <3> QED BY <1>1, <1>2, <2>1, <2>2, SameBodies
  <2>4. /\ WithoutMessages(Meant(q.body, cos)) = Meant(q.body, most)
        /\ WithoutMessages(Meant(r.body, cos)) = Meant(r.body, most)
    BY MeantWithoutMessages
  <2>5. WithoutMessages(Meant(q.body, cos)) = WithoutMessages(Meant(r.body, cos))
    BY <2>3, <2>4
  <2> QED BY <1>4, <1>6, <2>5
<1>8. a.call.body.messages = q.body.messages
  <2>1. Meant(a.call.body, cos) = Meant(q.body, cos)
    BY <1>4, <1>6
  <2>2. "messages" \in DOMAIN Meant(q.body, cos) /\ Meant(q.body, cos).messages = q.body.messages
    BY <1>1 DEF Meant
  <2>3. "messages" \in DOMAIN Meant(a.call.body, cos) =>
          Meant(a.call.body, cos).messages = a.call.body.messages
    BY DEF Meant
  <2> QED BY <2>1, <2>2, <2>3
<1> QED BY <1>5, <1>7, <1>8 DEF Suits

-----------------------------------------------------------------------------
(***************************************************************************)
(* What a step does to its slot, to the riders and to the index.           *)
(***************************************************************************)
CfgFits == cfg \in {Configured(raw) : raw \in Settings}

(* A claim that is ridden keeps its key and its run.                       *)
Stays(s) == slot'[s].key = Key(s) /\ (run[s].at # "none" => run'[s].at # "none")

StepMeans(s) ==
  /\ MeansFit(slot'[s], run'[s], cfg)
  /\ Stays(s) \/ (Free(s) /\ slot'[s].phase \notin {"ride", "reread"})
  /\ slot'[s].phase \in {"ride", "reread"} =>
       /\ slot'[s].ride \in Slot /\ Key(slot'[s].ride) = slot'[s].key
       /\ run[slot'[s].ride].at # "none"

NodesOn(s) ==
  \/ vectors' \cup index' \subseteq vectors \cup index
  \/ /\ vectors' \cup index' \subseteq vectors \cup index \cup {Node(Req(s), Key(s), cfg)}
     /\ Key(s) = PostKey(Req(s), cfg) /\ Embedded(Req(s), cfg)

LEMMA ToldSuits ==
  ASSUME CfgFits, NEW r \in Requests, Admits(cfg, r),
         NEW a, ToldTo(a.call, PostKey(r, cfg)), NEW kind, kind # "semantic"
  PROVE  Suits(a, a.status, kind, r, cfg)
BY DEF CfgFits, ToldTo, Tells, Suits

LEMMA OwnSuits ==
  ASSUME NEW r, NEW c, NEW a, a.call = Call(r, c), NEW kind, kind # "semantic"
  PROVE  Suits(a, a.status, kind, r, c)
BY DEF Suits, SameAddressee

(* A request that is being served, with what its claim has been told.      *)
Served(s) == slot[s].phase \notin {"idle", "answered"} \/ run[s].at # "none"

LEMMA ServedFits ==
  ASSUME SlotsFit, SlotsMean, NEW s \in Slot, Served(s)
  PROVE  /\ Req(s) \in Requests /\ Admits(cfg, Req(s)) /\ Key(s) = PostKey(Req(s), cfg)
         /\ \A a \in run[s].got : ToldTo(a.call, Key(s))
BY DEF SlotsFit, SlotFits, SlotTyped, SlotsMean, MeansFit, KeyIsOf, Served, Req, Key

RunMeans(s, w) ==
  /\ \A a \in w.got : ToldTo(a.call, Key(s))
  /\ w.at # "none" => HasMessages(Req(s).body)
  /\ w.at = "recording" => IsFuzzy(Req(s), cfg)

LEMMA ReplyMeans ==
  ASSUME SlotsFit, SlotsMean, NEW s \in Slot, NEW status, NEW kind, NEW got, NEW counted,
         Reply(s, status, kind, got, counted), Served(s), RunMeans(s, run'[s]),
         run[s].at # "none" => run'[s].at # "none",
         \A a \in got : Suits(a, status, kind, Req(s), cfg)
  PROVE  StepMeans(s)
<1>1. slot'[s] = [phase |-> "answered", req |-> slot[s].req, key |-> slot[s].key,
                  ride |-> slot[s].ride, near |-> slot[s].near,
                  reply |-> [status |-> status, kind |-> kind, got |-> got],
                  counted |-> slot[s].counted \o counted]
  BY ReplyTells
<1> DEFINE total == slot[s].counted \o counted
<1> HIDE DEF total
<1>2. slot'[s] = [phase |-> "answered", req |-> slot[s].req, key |-> slot[s].key,
                  ride |-> slot[s].ride, near |-> slot[s].near,
                  reply |-> [status |-> status, kind |-> kind, got |-> got],
                  counted |-> total]
  BY <1>1 DEF total
<1>3. /\ slot'[s].phase = "answered" /\ slot'[s].req = Req(s) /\ slot'[s].key = Key(s)
      /\ slot'[s].reply.status = status /\ slot'[s].reply.kind = kind
      /\ slot'[s].reply.got = got
  BY <1>2 DEF Req, Key
<1>4. Admits(cfg, Req(s)) /\ Key(s) = PostKey(Req(s), cfg)
  BY ServedFits
<1>5. MeansFit(slot'[s], run'[s], cfg)
  BY <1>3, <1>4 DEF MeansFit, KeyIsOf, RunMeans, Lookups
<1> QED BY <1>3, <1>5 DEF StepMeans, Stays

LEMMA GotoMeans ==
  ASSUME SlotsFit, SlotsMean, RidesFit, NEW s \in Slot, NEW phase, Goto(s, phase),
         slot[s].phase \notin {"idle", "answered"}, RunMeans(s, run'[s]),
         run[s].at # "none" => run'[s].at # "none",
         phase \notin {"neighbour", "ride"},
         phase = "reread" => slot[s].phase = "ride",
         phase \in Lookups => HasMessages(Req(s).body),
         phase \in {"probe", "record"} => IsFuzzy(Req(s), cfg)
  PROVE  StepMeans(s)
<1>1. /\ slot'[s].phase = phase /\ slot'[s].req = Req(s) /\ slot'[s].key = Key(s)
      /\ slot'[s].reply = slot[s].reply /\ slot'[s].ride = slot[s].ride
  <2>1. slot'[s] = [phase |-> phase, req |-> slot[s].req, key |-> slot[s].key,
                    ride |-> slot[s].ride, near |-> slot[s].near,
                    reply |-> slot[s].reply, counted |-> slot[s].counted]
    BY GotoTells
  <2> QED BY <2>1 DEF Req, Key
<1>2. Admits(cfg, Req(s)) /\ Key(s) = PostKey(Req(s), cfg)
  BY ServedFits DEF Served
<1>3. \A a \in slot[s].reply.got : Suits(a, slot[s].reply.status, slot[s].reply.kind, Req(s), cfg)
  BY DEF SlotsMean, MeansFit, Req
<1>4. MeansFit(slot'[s], run'[s], cfg)
  BY <1>1, <1>2, <1>3 DEF MeansFit, KeyIsOf, RunMeans
<1>5. slot'[s].phase \in {"ride", "reread"} =>
        /\ slot'[s].ride \in Slot /\ Key(slot'[s].ride) = slot'[s].key
        /\ run[slot'[s].ride].at # "none"
  BY <1>1 DEF RidesFit
<1> QED BY <1>1, <1>4, <1>5 DEF StepMeans, Stays

LEMMA AdvanceMeans ==
  ASSUME SlotsFit, SlotsMean, NEW s \in Slot, slot' = slot, run[s].at # "none",
         run'[s].at # "none", RunMeans(s, run'[s]),
         slot[s].phase \notin {"ride", "reread"}
  PROVE  StepMeans(s)
<1>1. MeansFit(slot[s], run[s], cfg)
  BY DEF SlotsMean
<1>2. MeansFit(slot'[s], run'[s], cfg)
  BY <1>1 DEF MeansFit, KeyIsOf, RunMeans, Req, Key
<1> QED BY <1>2 DEF StepMeans, Stays, Key

LEMMA CountMeans ==
  ASSUME SlotsFit, SlotsMean, NEW s \in Slot, NEW counted, Count(s, counted), Served(s),
         run'[s].at # "none", RunMeans(s, run'[s]),
         slot[s].phase \notin {"ride", "reread"}
  PROVE  StepMeans(s)
<1> DEFINE total == slot[s].counted \o counted
<1>1. slot'[s] = [phase |-> slot[s].phase, req |-> slot[s].req, key |-> slot[s].key,
                  ride |-> slot[s].ride, near |-> slot[s].near,
                  reply |-> slot[s].reply, counted |-> total]
  BY CountTells
<1> HIDE DEF total
<1>2. /\ slot'[s].phase = slot[s].phase /\ slot'[s].req = Req(s) /\ slot'[s].key = Key(s)
      /\ slot'[s].reply = slot[s].reply /\ slot'[s].near = slot[s].near
  BY <1>1 DEF Req, Key
<1>3. MeansFit(slot[s], run[s], cfg) /\ Admits(cfg, Req(s)) /\ Key(s) = PostKey(Req(s), cfg)
  BY ServedFits DEF SlotsMean
<1>4. MeansFit(slot'[s], run'[s], cfg)
  BY <1>2, <1>3 DEF MeansFit, KeyIsOf, RunMeans, Req, Key
<1> QED BY <1>2, <1>4 DEF StepMeans, Stays

(* A run that stays as it is still means what it meant.                    *)
LEMMA RunStillMeans ==
  ASSUME SlotsMean, NEW s \in Slot
  PROVE  RunMeans(s, run[s])
BY DEF SlotsMean, MeansFit, RunMeans, Req, Key

LEMMA AnswerMeans ==
  ASSUME SlotsFit, SlotsMean, NEW s \in Slot, NEW status, NEW kind, NEW got, NEW counted,
         Reply(s, status, kind, got, counted), slot[s].phase \notin {"idle", "answered"},
         run' = run, \A a \in got : Suits(a, status, kind, Req(s), cfg)
  PROVE  StepMeans(s)
<1>1. Served(s) /\ RunMeans(s, run'[s])
  BY RunStillMeans DEF Served
<1> QED BY <1>1, ReplyMeans

LEMMA FailMeans ==
  ASSUME SlotsFit, SlotsMean, NEW s \in Slot, NEW status,
         Fail(s, status), slot[s].phase \notin {"idle", "answered"}, run' = run
  PROVE  StepMeans(s)
<1> DEFINE none == <<>>
           nobody == {}
<1>1. Reply(s, status, "error", nobody, none)
  BY DEF Fail
<1>2. \A a \in nobody : Suits(a, status, "error", Req(s), cfg)
  OBVIOUS
<1> HIDE DEF none, nobody
<1> QED BY <1>1, <1>2, AnswerMeans

(* What its claim got is the answer of a request: its own, or a rider's.   *)
LEMMA ForwardMeans ==
  ASSUME SlotsFit, SlotsMean, CfgFits, NEW s \in Slot, NEW u \in Slot, NEW kind \in {"own", "ride"},
         Forward(s, kind, run[u].got, Miss),
         slot[s].phase \notin {"idle", "answered"}, run' = run,
         Key(u) = Key(s), run[u].at # "none"
  PROVE  StepMeans(s)
<1> DEFINE got == run[u].got
           status == (CHOOSE a \in got : TRUE).status
<1>1. Reply(s, status, kind, got, Miss)
  BY DEF Forward
<1>2. \A a \in got : a.status = status
  BY DEF SlotsFit, SlotFits, AnswersFit
<1>3. \A a \in got : ToldTo(a.call, Key(s))
  BY ServedFits DEF Served
<1>4. Req(s) \in Requests /\ Admits(cfg, Req(s)) /\ Key(s) = PostKey(Req(s), cfg)
  BY ServedFits DEF Served
<1>5. \A a \in got : Suits(a, status, kind, Req(s), cfg)
  <2> TAKE a \in got
  <2>1. kind # "semantic"
    OBVIOUS
  <2>2. Suits(a, a.status, kind, Req(s), cfg)
    <3> HIDE DEF got, status
    <3> QED BY <1>3, <1>4, <2>1, ToldSuits
  <2> QED BY <1>2, <2>2
<1> HIDE DEF got, status
<1> QED BY <1>1, <1>5, AnswerMeans

LEMMA StoredSuits ==
  ASSUME SlotsFit, SlotsMean, CfgFits, StoreTells, StoreIsRepeatable, NEW s \in Slot,
         slot[s].phase \notin {"idle", "answered"}, Key(s) \in DOMAIN store,
         NEW kind \in {"hit", "ride"}
  PROVE  Suits(store[Key(s)], "200", kind, Req(s), cfg)
<1> DEFINE a == store[Key(s)]
<1>1. Req(s) \in Requests /\ Admits(cfg, Req(s)) /\ Key(s) = PostKey(Req(s), cfg)
  BY ServedFits DEF Served
<1>2. ToldTo(a.call, PostKey(Req(s), cfg)) /\ a.status = "200"
  BY <1>1 DEF StoreTells, StoreIsRepeatable, Ok
<1>3. kind # "semantic"
  OBVIOUS
<1> HIDE DEF a
<1>4. Suits(a, a.status, kind, Req(s), cfg)
  BY <1>1, <1>2, <1>3, ToldSuits
<1> QED BY <1>2, <1>4 DEF a
-----------------------------------------------------------------------------
(***************************************************************************)
(* The actions.                                                            *)
(***************************************************************************)
Before == GatewayInv /\ AnswersInv

LEMMA BeforeGives ==
  ASSUME Before
  PROVE  /\ SlotsFit /\ MapFits /\ StoreIsRepeatable
         /\ CfgFits /\ SlotsMean /\ RidesFit /\ StoreTells /\ NodesFit
BY DEF Before, GatewayInv, AnswersInv, CfgFits

LEMMA LookupsMean ==
  ASSUME Before, NEW s \in Slot,
         Pass(s) \/ LookupHit(s) \/ LookupMiss(s) \/ StoreFails(s)
  PROVE  StepMeans(s) /\ NodesOn(s)
<1> USE DEF In, caches
<1>1. NodesOn(s) /\ run' = run
  BY DEF NodesOn, Pass, LookupHit, LookupMiss, StoreFails
<1>2. CASE Pass(s)
  <2>1. CASE Fail(s, "502")
    BY <1>1, <1>2, <2>1, BeforeGives, FailMeans DEF Pass
  <2>2. CASE ~Fail(s, "502")
    <3>1. PICK st \in Statuses :
            Reply(s, st, "passed", {[call |-> Call(Req(s), cfg), status |-> st]}, <<>>)
      BY <1>2, <2>2 DEF Pass
    <3> DEFINE answer == [call |-> Call(Req(s), cfg), status |-> st]
               none == <<>>
    <3>2. answer.call = Call(Req(s), cfg) /\ answer.status = st
      OBVIOUS
    <3>3. Reply(s, st, "passed", {answer}, none)
      BY <3>1
    <3> HIDE DEF answer, none
    <3>4. \A a \in {answer} : Suits(a, st, "passed", Req(s), cfg)
      BY <3>2, OwnSuits
    <3>5. slot[s].phase = "pass"
      BY <1>2 DEF Pass
    <3> QED BY <1>1, <3>3, <3>4, <3>5, BeforeGives, AnswerMeans
  <2> QED BY <1>1, <2>1, <2>2
<1>3. CASE LookupHit(s)
  <2>1. /\ Reply(s, "200", "hit", {store[Key(s)]}, Hit) /\ slot[s].phase = "lookup"
        /\ Key(s) \in DOMAIN store
    BY <1>3 DEF LookupHit
  <2>2. \A a \in {store[Key(s)]} : Suits(a, "200", "hit", Req(s), cfg)
    BY <2>1, BeforeGives, StoredSuits
  <2> QED BY <1>1, <2>1, <2>2, BeforeGives, AnswerMeans
<1>4. CASE LookupMiss(s)
  <2>1. /\ slot[s].phase = "lookup"
        /\ \/ Goto(s, "probe") /\ IsFuzzy(Req(s), cfg)
           \/ Goto(s, "claim")
    BY <1>4 DEF LookupMiss
  <2>2. RunMeans(s, run'[s]) /\ HasMessages(Req(s).body)
    BY <1>1, <2>1, BeforeGives, RunStillMeans DEF SlotsMean, MeansFit, Lookups, Req
  <2> QED BY <1>1, <2>1, <2>2, BeforeGives, GotoMeans
<1>5. CASE StoreFails(s)
  BY <1>1, <1>5, BeforeGives, FailMeans DEF StoreFails
<1> QED BY <1>1, <1>2, <1>3, <1>4, <1>5

(* What the search finds is the node of a request that is near.            *)
LEMMA NeighboursAreNear ==
  ASSUME NodesFit, NEW r, IsFuzzy(r, cfg), NEW key,
         NEW n \in Neighbours(Node(r, key, cfg))
  PROVE  IsNear(n.key, r, cfg)
<1> DEFINE m == Node(r, key, cfg)
<1>1. /\ n \in index /\ n.scope = SemanticScope(r, cfg)
      /\ n.coarse = CoarseKey(r.body, cfg.unit) /\ Close(n.text, m.text)
      /\ m.text \in FuzzyText(r.body.messages, cfg.unit)
  BY DEF Neighbours, Node, IsFuzzy
<1>2. PICK q \in Requests, raw \in Settings :
        /\ Embedded(q, Configured(raw))
        /\ n = Node(q, PostKey(q, Configured(raw)), Configured(raw))
  BY <1>1 DEF NodesFit
<1> DEFINE d == Configured(raw)
<1>3. /\ n.key = PostKey(q, d) /\ n.scope = SemanticScope(q, d)
      /\ n.coarse = CoarseKey(q.body, d.unit)
      /\ n.text \in FuzzyText(q.body.messages, d.unit)
  BY <1>2 DEF Node, Embedded, IsFuzzy
<1> HIDE DEF m
<1>4. d.unit = cfg.unit
  <2> HIDE DEF d
  <2> DEFINE b == q.body
             e == r.body
             u == d.unit
             v == cfg.unit
  <2>1. CoarseKey(b, u) = CoarseKey(e, v)
    BY <1>1, <1>3
  <2> HIDE DEF b, e, u, v
  <2>2. u = v
    BY <2>1, CoarseSplits
  <2> QED BY <2>2 DEF u, v
<1>5. TextsClose(q.body.messages, r.body.messages, cfg.unit)
  BY <1>1, <1>3, <1>4 DEF TextsClose
<1> QED BY <1>1, <1>2, <1>3, <1>5 DEF IsNear

LEMMA NeighboursMean ==
  ASSUME Before, NEW s \in Slot,
         Probe(s) \/ NeighbourHit(s) \/ Heal(s)
  PROVE  StepMeans(s) /\ NodesOn(s)
<1> USE DEF In, caches
<1>1. NodesOn(s) /\ run' = run
  BY DEF NodesOn, Dropped, Probe, NeighbourHit, Heal
<1>2. MeansFit(slot[s], run[s], cfg) /\ slot[s].phase \in {"probe", "neighbour"}
  BY BeforeGives DEF SlotsMean, Probe, NeighbourHit, Heal
<1>3. /\ Req(s) \in Requests /\ Admits(cfg, Req(s)) /\ Key(s) = PostKey(Req(s), cfg)
      /\ HasMessages(Req(s).body) /\ IsFuzzy(Req(s), cfg) /\ RunMeans(s, run'[s])
  BY <1>1, <1>2, BeforeGives, ServedFits, RunStillMeans DEF Served, MeansFit, Lookups, Req
<1>4. ASSUME Goto(s, "claim") PROVE StepMeans(s)
  BY <1>1, <1>2, <1>3, <1>4, BeforeGives, GotoMeans
<1>5. ASSUME Probe(s), ~Goto(s, "claim") PROVE StepMeans(s)
  <2>1. PICK n \in Neighbours(Node(Req(s), Key(s), cfg)) :
          slot' = [slot EXCEPT ![s] = [slot[s] EXCEPT !.phase = "neighbour", !.near = n.key]]
    BY <1>5 DEF Probe
  <2> DEFINE near == n.key
  <2>2. IsNear(near, Req(s), cfg)
    BY <1>3, BeforeGives, NeighboursAreNear
  <2> HIDE DEF near
  <2>3. slot'[s] = [phase |-> "neighbour", req |-> slot[s].req, key |-> slot[s].key,
                    ride |-> slot[s].ride, near |-> near,
                    reply |-> slot[s].reply, counted |-> slot[s].counted]
    BY <2>1, BeforeGives, NearTells DEF near
  <2>4. /\ slot'[s].phase = "neighbour" /\ slot'[s].req = Req(s) /\ slot'[s].key = Key(s)
        /\ slot'[s].near = near /\ slot'[s].reply = slot[s].reply
    BY <2>3 DEF Req, Key
  <2>5. MeansFit(slot'[s], run'[s], cfg)
    BY <1>1, <1>2, <1>3, <2>2, <2>4 DEF MeansFit, KeyIsOf, RunMeans, Req, Key
  <2> QED BY <1>1, <2>4, <2>5 DEF StepMeans, Stays
<1>6. ASSUME NeighbourHit(s) PROVE StepMeans(s)
  <2> DEFINE a == store[slot[s].near]
  <2>1. /\ Reply(s, "200", "semantic", {a}, SemanticHit) /\ slot[s].phase = "neighbour"
        /\ slot[s].near \in DOMAIN store
    BY <1>6 DEF NeighbourHit
  <2>2. PICK q \in Requests, raw \in Settings :
          /\ Embedded(q, Configured(raw)) /\ slot[s].near = PostKey(q, Configured(raw))
          /\ SemanticScope(q, Configured(raw)) = SemanticScope(Req(s), cfg)
          /\ CoarseKey(q.body, Configured(raw).unit) = CoarseKey(Req(s).body, cfg.unit)
          /\ TextsClose(q.body.messages, Req(s).body.messages, cfg.unit)
    BY <1>2, <2>1 DEF MeansFit, IsNear, Req
  <2>3. ToldTo(a.call, slot[s].near) /\ a.status = "200"
    BY <2>1, BeforeGives DEF StoreTells, StoreIsRepeatable, Ok
  <2>4. Tells(a.call, q, Configured(raw))
    BY <2>2, <2>3 DEF ToldTo, Embedded
  <2>5. Req(s).wire = "chat" /\ "model" \in DOMAIN Req(s).body
    BY <1>3, BeforeGives, AdmittedFacts DEF IsFuzzy, CfgFits
  <2> HIDE DEF a
  <2>6. Suits(a, a.status, "semantic", Req(s), cfg)
    BY <2>2, <2>4, <2>5, NeighboursSuit
  <2>7. Suits(a, "200", "semantic", Req(s), cfg)
    BY <2>3, <2>6
  <2> QED BY <1>1, <2>1, <2>7, BeforeGives, AnswerMeans
<1> QED BY <1>1, <1>4, <1>5, <1>6 DEF Probe, Heal

LEMMA RidersMean ==
  ASSUME Before, NEW s \in Slot,
         Ride(s) \/ RiderReturns(s) \/ StreamingRider(s) \/ Reread(s)
  PROVE  StepMeans(s) /\ NodesOn(s)
<1> USE DEF In, caches
<1> DEFINE u == slot[s].ride
<1>1. NodesOn(s) /\ run' = run
  BY DEF NodesOn, Ride, RiderReturns, StreamingRider, Reread
<1>2. MeansFit(slot[s], run[s], cfg) /\ RunMeans(s, run'[s])
  BY <1>1, BeforeGives, RunStillMeans DEF SlotsMean
<1>3. slot[s].phase \in {"ride", "reread"} =>
        u \in Slot /\ Key(u) = Key(s) /\ run[u].at # "none"
  BY BeforeGives DEF RidesFit
<1>4. CASE Ride(s)
  <2> DEFINE ride == flight[Key(s)]
  <2>1. /\ slot' = [slot EXCEPT ![s] = [slot[s] EXCEPT !.phase = "ride", !.ride = ride]]
        /\ slot[s].phase = "claim"
    BY <1>4 DEF Ride
  <2>2. ride \in Slot /\ Key(ride) = Key(s) /\ run[ride].at # "none"
    BY <1>4, BeforeGives DEF Ride, MapFits, Busy, Open, SlotsFit, SlotFits, PlacesFit
  <2> HIDE DEF ride
  <2>3. slot'[s] = [phase |-> "ride", req |-> slot[s].req, key |-> slot[s].key,
                    ride |-> ride, near |-> slot[s].near,
                    reply |-> slot[s].reply, counted |-> slot[s].counted]
    BY <2>1, BeforeGives, RideTells
  <2>4. /\ slot'[s].phase = "ride" /\ slot'[s].req = Req(s) /\ slot'[s].key = Key(s)
        /\ slot'[s].ride = ride /\ slot'[s].reply = slot[s].reply
    BY <2>3 DEF Req, Key
  <2>5. MeansFit(slot'[s], run'[s], cfg)
    BY <1>1, <1>2, <2>1, <2>4 DEF MeansFit, KeyIsOf, RunMeans, Req, Key, Lookups
  <2> QED BY <1>1, <2>2, <2>4, <2>5 DEF StepMeans, Stays
<1>5. CASE RiderReturns(s)
  <2>1. /\ slot[s].phase = "ride"
        /\ Fail(s, "502") \/ Forward(s, "ride", run[u].got, Miss)
    BY <1>5 DEF RiderReturns
  <2> QED BY <1>1, <1>3, <2>1, BeforeGives, FailMeans, ForwardMeans
<1>6. CASE StreamingRider(s)
  <2>1. Goto(s, "reread") /\ slot[s].phase = "ride"
    BY <1>6 DEF StreamingRider
  <2> QED BY <1>1, <1>2, <2>1, BeforeGives, GotoMeans DEF Lookups
<1>7. CASE Reread(s)
  <2>1. slot[s].phase = "reread"
    BY <1>7 DEF Reread
  <2>2. CASE Key(s) \in DOMAIN store
    <3>1. Reply(s, "200", "ride", {store[Key(s)]}, Miss)
      BY <1>7, <2>2 DEF Reread
    <3>2. \A a \in {store[Key(s)]} : Suits(a, "200", "ride", Req(s), cfg)
      BY <2>1, <2>2, BeforeGives, StoredSuits
    <3> QED BY <1>1, <2>1, <3>1, <3>2, BeforeGives, AnswerMeans
  <2>3. CASE Key(s) \notin DOMAIN store
    <3>1. Fail(s, "502") \/ Forward(s, "ride", run[u].got, Miss)
      BY <1>7, <2>3 DEF Reread
    <3> QED BY <1>1, <1>3, <2>1, <3>1, BeforeGives, FailMeans, ForwardMeans
  <2> QED BY <2>2, <2>3
<1> QED BY <1>1, <1>4, <1>5, <1>6, <1>7

LEMMA ClaimMeans ==
  ASSUME Before, NEW s \in Slot, Claim(s)
  PROVE  StepMeans(s) /\ NodesOn(s)
<1> USE DEF In, caches
<1>1. /\ Advance(s, "calling", {}) /\ Goto(s, "own") /\ slot[s].phase = "claim"
      /\ NodesOn(s)
  BY DEF Claim, Advance, NodesOn
<1>2. run'[s] = [at |-> "calling", got |-> {}]
  BY <1>1, BeforeGives, RunMoves
<1>3. HasMessages(Req(s).body)
  BY <1>1, BeforeGives DEF SlotsMean, MeansFit, Lookups, Req
<1>4. RunMeans(s, run'[s]) /\ run'[s].at # "none"
  BY <1>2, <1>3 DEF RunMeans
<1> QED BY <1>1, <1>3, <1>4, BeforeGives, GotoMeans

(* A run that is at work was claimed, and what it has got is told to all   *)
(* that have its key.                                                      *)
LEMMA AtWorkMeans ==
  ASSUME Before, NEW s \in Slot, run[s].at # "none"
  PROVE  /\ Req(s) \in Requests /\ Admits(cfg, Req(s)) /\ Key(s) = PostKey(Req(s), cfg)
         /\ HasMessages(Req(s).body) /\ RunMeans(s, run[s])
         /\ ToldTo(Call(Req(s), cfg), Key(s))
         /\ Req(s).wire = "chat" => ToldTo(StreamCall(Req(s), cfg), Key(s))
         /\ Served(s) /\ slot[s].phase \notin {"idle", "ride", "reread"}
<1>1. /\ Req(s) \in Requests /\ Admits(cfg, Req(s)) /\ Key(s) = PostKey(Req(s), cfg)
      /\ Served(s)
  BY BeforeGives, ServedFits DEF Served
<1>2. HasMessages(Req(s).body) /\ RunMeans(s, run[s])
  BY BeforeGives, RunStillMeans DEF SlotsMean, MeansFit, Req
<1>3. \E raw \in Settings : cfg = Configured(raw)
  BY BeforeGives DEF CfgFits
<1>4. /\ ToldTo(Call(Req(s), cfg), Key(s))
      /\ Req(s).wire = "chat" => ToldTo(StreamCall(Req(s), cfg), Key(s))
  BY <1>1, <1>3, CallsAreToldTo
<1>5. slot[s].phase \notin {"idle", "ride", "reread"}
  BY BeforeGives DEF SlotsFit, SlotFits, PlacesFit
<1> QED BY <1>1, <1>2, <1>4, <1>5

LEMMA PlainRunMeans ==
  ASSUME Before, NEW s \in Slot, PlainAnswered(s) \/ PlainFails(s) \/ PlainFiled(s)
  PROVE  StepMeans(s) /\ NodesOn(s)
<1> USE DEF caches
<1>1. NodesOn(s) /\ slot' = slot /\ run[s].at # "none"
  BY DEF NodesOn, PlainAnswered, PlainFails, PlainFiled
<1>2. PICK at \in {"filing", "settled"} : \E got :
        Advance(s, at, got) /\ \A a \in got : ToldTo(a.call, Key(s))
  <2>1. CASE PlainAnswered(s)
    <3>1. PICK st \in Statuses :
            Advance(s, IF Ok(st) THEN "filing" ELSE "settled",
                    {[call |-> Call(Req(s), cfg), status |-> st]})
      BY <2>1 DEF PlainAnswered
    <3> DEFINE answer == [call |-> Call(Req(s), cfg), status |-> st]
               got == {answer}
    <3>2. ToldTo(answer.call, Key(s))
      BY <1>1, AtWorkMeans
    <3>3. Advance(s, "filing", got) \/ Advance(s, "settled", got)
      BY <3>1
    <3> HIDE DEF answer
    <3> QED BY <3>2, <3>3
  <2>2. CASE PlainFails(s)
    <3>1. Advance(s, "settled", {})
      BY <2>2 DEF PlainFails, Settle, Advance
    <3> QED BY <3>1
  <2>3. CASE PlainFiled(s)
    <3>1. Advance(s, "settled", run[s].got)
      BY <2>3 DEF PlainFiled, Settle, Advance
    <3>2. \A a \in run[s].got : ToldTo(a.call, Key(s))
      BY <1>1, AtWorkMeans DEF RunMeans
    <3> QED BY <3>1, <3>2
  <2> QED BY <2>1, <2>2, <2>3
<1>3. PICK got : Advance(s, at, got) /\ \A a \in got : ToldTo(a.call, Key(s))
  BY <1>2
<1>4. run'[s] = [at |-> at, got |-> got]
  BY <1>3, BeforeGives, RunMoves
<1>5. RunMeans(s, run'[s]) /\ run'[s].at # "none"
  BY <1>1, <1>3, <1>4, AtWorkMeans DEF RunMeans
<1> QED BY <1>1, <1>5, BeforeGives, AtWorkMeans, AdvanceMeans

(* The claimer of a plain run leaves, writes back and records.             *)
LEMMA ClaimersMean ==
  ASSUME Before, NEW s \in Slot, Leave(s) \/ WriteBack(s) \/ Record(s)
  PROVE  StepMeans(s) /\ NodesOn(s)
<1> USE DEF In, caches
<1>1. /\ run' = run /\ slot[s].phase \in {"own", "writeback", "record"}
      /\ run[s].at # "none"
  BY BeforeGives DEF Leave, WriteBack, Record, SlotsFit, SlotFits, PlacesFit
<1>2. RunMeans(s, run'[s]) /\ HasMessages(Req(s).body) /\ Req(s) \in Requests
  BY <1>1, AtWorkMeans
<1>3. StepMeans(s)
  <2>1. \/ Fail(s, "502")
        \/ Goto(s, "writeback")
        \/ Goto(s, "record") /\ IsFuzzy(Req(s), cfg)
        \/ Forward(s, "own", run[s].got, Miss)
    BY DEF Leave, WriteBack, Record
  <2>2. CASE Fail(s, "502")
    BY <1>1, <2>2, BeforeGives, FailMeans
  <2>3. CASE Goto(s, "writeback")
    BY <1>1, <1>2, <2>3, BeforeGives, GotoMeans
  <2>4. CASE Goto(s, "record") /\ IsFuzzy(Req(s), cfg)
    BY <1>1, <1>2, <2>4, BeforeGives, GotoMeans
  <2>5. CASE Forward(s, "own", run[s].got, Miss)
    BY <1>1, <2>5, BeforeGives, ForwardMeans
  <2> QED BY <2>1, <2>2, <2>3, <2>4, <2>5
<1>4. NodesOn(s)
  <2>1. CASE Leave(s) \/ WriteBack(s)
    BY <2>1 DEF Leave, WriteBack, NodesOn
  <2>2. CASE Record(s)
    <3>1. IsFuzzy(Req(s), cfg)
      BY <2>2, BeforeGives DEF Record, SlotsMean, MeansFit, Req
    <3>2. Embedded(Req(s), cfg) /\ Key(s) = PostKey(Req(s), cfg)
      BY <1>1, <1>2, <3>1, AtWorkMeans DEF Embedded
    <3> QED BY <2>2, <3>2 DEF Record, Recorded, NodesOn
  <2> QED BY <2>1, <2>2
<1> QED BY <1>3, <1>4

(* Before its stream opens, the claimer answers for its run.               *)
LEMMA StreamsMean ==
  ASSUME Before, NEW s \in Slot, StreamRefused(s) \/ StreamFails(s) \/ StreamOpens(s)
  PROVE  StepMeans(s) /\ NodesOn(s)
<1> USE DEF caches
<1>1. /\ NodesOn(s) /\ run[s].at = "calling" /\ Req(s).wire = "chat"
  BY DEF NodesOn, StreamRefused, StreamFails, StreamOpens, IsTee
<1>2. /\ ToldTo(StreamCall(Req(s), cfg), Key(s)) /\ HasMessages(Req(s).body)
      /\ Req(s) \in Requests /\ Admits(cfg, Req(s)) /\ Key(s) = PostKey(Req(s), cfg)
      /\ Served(s)
  BY <1>1, AtWorkMeans
<1>3. ASSUME NEW at \in {"filing", "settled"}, NEW got, NEW status, NEW kind, NEW counted,
             Advance(s, at, got), Reply(s, status, kind, got, counted),
             \A a \in got : ToldTo(a.call, Key(s)) /\ Suits(a, status, kind, Req(s), cfg)
      PROVE  StepMeans(s)
  <2>1. run'[s] = [at |-> at, got |-> got]
    BY <1>3, BeforeGives, RunMoves
  <2>2. RunMeans(s, run'[s]) /\ run'[s].at # "none"
    BY <1>2, <1>3, <2>1 DEF RunMeans
  <2> QED BY <1>2, <1>3, <2>2, BeforeGives, ReplyMeans
<1>4. CASE StreamFails(s)
  <2>1. Advance(s, "settled", {}) /\ Reply(s, "502", "error", {}, <<>>)
    BY <1>4 DEF StreamFails, Settle, Advance, Fail
  <2> DEFINE none == <<>>
  <2> HIDE DEF none
  <2>2. Reply(s, "502", "error", {}, none)
    BY <2>1 DEF none
  <2> QED BY <1>1, <1>3, <2>1, <2>2
<1>5. ASSUME NEW at \in {"filing", "settled"}, NEW answer, NEW counted,
             answer.call = StreamCall(Req(s), cfg),
             Advance(s, at, {answer}), Forward(s, "own", {answer}, counted)
      PROVE  StepMeans(s)
  <2> DEFINE got == {answer}
             status == (CHOOSE a \in got : TRUE).status
  <2>1. ToldTo(answer.call, Key(s))
    BY <1>2, <1>5
  <2>2. Advance(s, at, got) /\ Reply(s, status, "own", got, counted)
    BY <1>5 DEF Forward
  <2>3. \A a \in got : a = answer /\ a.status = status
    OBVIOUS
  <2>4. Suits(answer, answer.status, "own", Req(s), cfg)
    <3> DEFINE kind == "own"
    <3>1. kind # "semantic"
      OBVIOUS
    <3> HIDE DEF kind
    <3>2. Suits(answer, answer.status, kind, Req(s), cfg)
      BY <1>2, <2>1, <3>1, BeforeGives, ToldSuits
    <3> QED BY <3>2 DEF kind
  <2> HIDE DEF got, status
  <2> QED BY <1>3, <2>1, <2>2, <2>3, <2>4
<1>6. CASE StreamOpens(s)
  <2> DEFINE answer == [call |-> StreamCall(Req(s), cfg), status |-> "200"]
             none == <<>>
  <2>1. /\ Advance(s, "filing", {answer}) /\ Forward(s, "own", {answer}, none)
        /\ answer.call = StreamCall(Req(s), cfg)
    BY <1>6 DEF StreamOpens
  <2> HIDE DEF none, answer
  <2> QED BY <1>1, <1>5, <2>1
<1>7. CASE StreamRefused(s)
  <2>1. PICK st :
          /\ Advance(s, "settled", {[call |-> StreamCall(Req(s), cfg), status |-> st]})
          /\ Forward(s, "own", {[call |-> StreamCall(Req(s), cfg), status |-> st]}, Miss)
    BY <1>7 DEF StreamRefused, Settle, Advance
  <2> DEFINE answer == [call |-> StreamCall(Req(s), cfg), status |-> st]
  <2>2. /\ Advance(s, "settled", {answer}) /\ Forward(s, "own", {answer}, Miss)
        /\ answer.call = StreamCall(Req(s), cfg)
    BY <2>1
  <2> HIDE DEF answer
  <2> QED BY <1>1, <1>5, <2>2
<1> QED BY <1>1, <1>4, <1>6, <1>7

LEMMA TeesMean ==
  ASSUME Before, NEW s \in Slot,
         TeeStores(s) \/ TeeRecords(s) \/ TeeLeaves(s) \/ TeeGivesUp(s)
  PROVE  StepMeans(s) /\ NodesOn(s)
<1> USE DEF caches
<1>1. run[s].at \in {"filing", "recording", "leaving"}
  BY DEF TeeStores, TeeRecords, TeeLeaves, TeeGivesUp
<1>2. /\ Req(s) \in Requests /\ Admits(cfg, Req(s)) /\ Key(s) = PostKey(Req(s), cfg)
      /\ HasMessages(Req(s).body) /\ RunMeans(s, run[s]) /\ Served(s)
      /\ slot[s].phase \notin {"idle", "ride", "reread"}
  BY <1>1, AtWorkMeans
<1>3. ASSUME NEW at \in {"recording", "leaving", "settled"}, NEW got,
             Advance(s, at, got), got = run[s].got \/ got = {},
             at = "recording" => IsFuzzy(Req(s), cfg)
      PROVE  RunMeans(s, run'[s]) /\ run'[s].at # "none"
  <2>1. run'[s] = [at |-> at, got |-> got]
    BY <1>3, BeforeGives, RunMoves
  <2> QED BY <1>2, <1>3, <2>1 DEF RunMeans
<1>4. CASE TeeStores(s) \/ TeeRecords(s)
  <2>1. /\ slot' = slot
        /\ \/ Advance(s, "recording", run[s].got) /\ IsFuzzy(Req(s), cfg)
           \/ Advance(s, "leaving", run[s].got)
    BY <1>4 DEF TeeStores, TeeRecords
  <2>2. RunMeans(s, run'[s]) /\ run'[s].at # "none"
    BY <1>3, <2>1
  <2>3. StepMeans(s)
    BY <1>1, <1>2, <2>1, <2>2, BeforeGives, AdvanceMeans
  <2>4. NodesOn(s)
    <3>1. CASE TeeStores(s)
      BY <3>1 DEF TeeStores, NodesOn
    <3>2. CASE TeeRecords(s)
      <4>1. Embedded(Req(s), cfg)
        BY <1>2, <3>2 DEF TeeRecords, RunMeans, Embedded
      <4> QED BY <1>2, <3>2, <4>1 DEF TeeRecords, Recorded, NodesOn
    <3> QED BY <1>4, <3>1, <3>2
  <2> QED BY <2>3, <2>4
<1>5. CASE TeeLeaves(s) \/ TeeGivesUp(s)
  <2>1. /\ Advance(s, "settled", run[s].got) \/ Advance(s, "settled", {})
        /\ Count(s, Miss) /\ NodesOn(s)
    BY <1>5 DEF TeeLeaves, TeeGivesUp, Settle, Advance, NodesOn
  <2>2. RunMeans(s, run'[s]) /\ run'[s].at # "none"
    BY <1>3, <2>1
  <2> QED BY <1>2, <2>1, <2>2, BeforeGives, CountMeans
<1> QED BY <1>4, <1>5

LEMMA ErasesMean ==
  ASSUME Before, NEW s \in Slot, Erase(s) \/ Forget(s)
  PROVE  StepMeans(s) /\ NodesOn(s)
<1> USE DEF In, caches
<1>1. NodesOn(s) /\ run' = run /\ slot[s].phase \in {"erase", "forget"}
  BY DEF NodesOn, Dropped, Erase, Forget
<1>2. RunMeans(s, run'[s])
  BY <1>1, BeforeGives, RunStillMeans
<1>3. CASE Goto(s, "forget")
  BY <1>1, <1>2, <1>3, BeforeGives, GotoMeans DEF Lookups
<1>4. CASE Reply(s, "200", "deleted", {}, <<>>)
  <2> DEFINE none == <<>>
             nobody == {}
  <2>1. Reply(s, "200", "deleted", nobody, none)
    BY <1>4
  <2>2. \A a \in nobody : Suits(a, "200", "deleted", Req(s), cfg)
    OBVIOUS
  <2> HIDE DEF none, nobody
  <2> QED BY <1>1, <2>1, <2>2, BeforeGives, AnswerMeans
<1> QED BY <1>3, <1>4 DEF Erase, Forget

LEMMA ReceivedMeans ==
  ASSUME NEW r \in Requests, NEW c
  PROVE  MeansFit(Received(r, c), NoRun, c)
<1> USE DEF NoRun, AtRest, NoReply, MeansFit, KeyIsOf, Lookups, Admits
<1>1. CASE Refusal(r, c) # {}
  BY <1>1 DEF Received
<1>2. CASE Refusal(r, c) = {}
  <2>1. FirstPhase(r) = "lookup" => HasMessages(r.body)
    BY FirstPhases DEF Cacheable, ChatIsCacheable, MessagesIsCacheable
  <2> QED BY <1>2, <2>1, FirstPhases, DeleteMirrorsPost DEF Received
<1> QED BY <1>1, <1>2

LEMMA ArriveMeans ==
  ASSUME Before, NEW s \in Slot, Arrive(s)
  PROVE  StepMeans(s) /\ NodesOn(s)
<1> USE DEF caches
<1>1. PICK r \in Requests : slot' = [slot EXCEPT ![s] = Received(r, cfg)]
  BY DEF Arrive
<1>2. slot'[s] = Received(r, cfg) /\ run'[s] = NoRun
  BY <1>1, BeforeGives DEF SlotsFit, Arrive
<1>3. MeansFit(slot'[s], run'[s], cfg)
  BY <1>2, ReceivedMeans
<1>4. slot'[s].phase \notin {"ride", "reread"} /\ Free(s) /\ NodesOn(s)
  BY <1>2, ReceivedFits DEF Arrive, NodesOn
<1> QED BY <1>3, <1>4 DEF StepMeans

LEMMA SlotStepMeans ==
  ASSUME Before, NEW s \in Slot, Serve(s) \/ Work(s)
  PROVE  StepMeans(s) /\ NodesOn(s)
BY ArriveMeans, LookupsMean, NeighboursMean, RidersMean, ClaimMeans, PlainRunMeans,
   ClaimersMean, StreamsMean, TeesMean, ErasesMean
DEF Serve, Work

-----------------------------------------------------------------------------
(***************************************************************************)
(* The invariant is inductive.                                             *)
(***************************************************************************)
LEMMA StepStillMeans ==
  ASSUME Before, NEW s \in Slot, FitsOn(s), StepMeans(s), NodesOn(s)
  PROVE  AnswersInv'
<1>1. /\ cfg' = cfg /\ \A t \in Slot \ {s} : slot'[t] = slot[t] /\ run'[t] = run[t]
      /\ OnStore(s)
  BY DEF FitsOn, OthersStay
<1>2. cfg' \in {Configured(raw) : raw \in Settings}
  BY <1>1, BeforeGives DEF CfgFits
<1>3. SlotsMean'
  BY <1>1, BeforeGives DEF SlotsMean, StepMeans
<1>4. RidesFit'
  <2> SUFFICES ASSUME NEW t \in Slot, slot'[t].phase \in {"ride", "reread"}
               PROVE  LET u == slot'[t].ride
                      IN  u \in Slot /\ slot'[u].key = slot'[t].key /\ run'[u].at # "none"
    BY DEF RidesFit, Key
  <2> DEFINE u == slot'[t].ride
  <2>1. u \in Slot /\ Key(u) = slot'[t].key /\ run[u].at # "none"
    <3>1. CASE t = s
      BY <3>1 DEF StepMeans
    <3>2. CASE t # s
      BY <1>1, <3>2, BeforeGives DEF RidesFit, Key
    <3> QED BY <3>1, <3>2
  <2>2. slot'[u].key = Key(u) /\ run'[u].at # "none"
    <3>1. CASE u # s
      BY <1>1, <2>1, <3>1 DEF Key
    <3>2. CASE u = s
      <4>1. Stays(s)
        <5>1. CASE t = s
          BY <5>1 DEF StepMeans
        <5>2. CASE t # s
          BY <1>1, <3>2, <5>2 DEF StepMeans, Free
        <5> QED BY <5>1, <5>2
      <4> QED BY <2>1, <3>2, <4>1 DEF Stays
    <3> QED BY <3>1, <3>2
  <2> QED BY <2>1, <2>2
<1>5. StoreTells'
  <2>1. StoreTells
    BY BeforeGives
  <2>2. ASSUME NEW a \in run[s].got, Writer(slot[s], run[s])
        PROVE  ToldTo(a.call, Key(s))
    <3>1. Served(s)
      BY <2>2 DEF Writer, Busy, Open, Served
    <3> QED BY <3>1, BeforeGives, ServedFits
  <2> QED BY <1>1, <2>1, <2>2 DEF OnStore, StoreTells, With, Without
<1>6. NodesFit'
  <2>1. NodesFit /\ CfgFits
    BY BeforeGives
  <2>2. CASE vectors' \cup index' \subseteq vectors \cup index
    BY <2>1, <2>2 DEF NodesFit
  <2>3. CASE /\ vectors' \cup index' \subseteq vectors \cup index \cup {Node(Req(s), Key(s), cfg)}
             /\ Key(s) = PostKey(Req(s), cfg) /\ Embedded(Req(s), cfg)
    <3>1. \E raw \in Settings : cfg = Configured(raw)
      BY <2>1 DEF CfgFits
    <3>2. Req(s) \in Requests
      BY BeforeGives DEF SlotsFit, SlotFits, SlotTyped, Req
    <3>3. \E r \in Requests, raw \in Settings :
            /\ Embedded(r, Configured(raw))
            /\ Node(Req(s), Key(s), cfg) = Node(r, PostKey(r, Configured(raw)), Configured(raw))
      BY <2>3, <3>1, <3>2
    <3> QED BY <2>1, <2>3, <3>3 DEF NodesFit
  <2> QED BY <2>2, <2>3 DEF NodesOn
<1> QED BY <1>2, <1>3, <1>4, <1>5, <1>6 DEF AnswersInv

LEMMA IdleAtRest == AtRest.phase \notin {"ride", "reread"}
BY DEF AtRest

LEMMA NobodyMeans ==
  ASSUME NEW c
  PROVE  MeansFit(AtRest, NoRun, c)
BY DEF AtRest, NoRun, NoReply, MeansFit, KeyIsOf, Lookups

LEMMA RestartMeans ==
  ASSUME Before, Restart
  PROVE  AnswersInv'
<1>1. /\ cfg' \in {Configured(raw) : raw \in Settings}
      /\ store' = store /\ vectors' \cup index' \subseteq vectors
      /\ \A s \in Slot : slot'[s] = AtRest /\ run'[s] = NoRun
  BY DEF Restart
<1>2. SlotsMean'
  BY <1>1, NobodyMeans DEF SlotsMean
<1>3. RidesFit'
  BY <1>1, IdleAtRest DEF RidesFit
<1>4. StoreTells' /\ NodesFit'
  BY <1>1, BeforeGives DEF StoreTells, NodesFit
<1> QED BY <1>1, <1>2, <1>3, <1>4 DEF AnswersInv

LEMMA AnswersInit == Init => AnswersInv
<1> SUFFICES ASSUME Init PROVE AnswersInv
  OBVIOUS
<1>1. \A s \in Slot : slot[s] = AtRest /\ run[s] = NoRun
  BY DEF Init
<1>2. SlotsMean
  BY <1>1, NobodyMeans DEF SlotsMean
<1>3. RidesFit
  BY <1>1, IdleAtRest DEF RidesFit
<1>4. DOMAIN store = {} /\ vectors \cup index = {}
  BY DEF Init
<1>5. StoreTells /\ NodesFit /\ cfg \in {Configured(raw) : raw \in Settings}
  BY <1>4 DEF Init, StoreTells, NodesFit
<1> QED BY <1>2, <1>3, <1>5 DEF AnswersInv

LEMMA AnswersStep == GatewayInv /\ AnswersInv /\ [Next]_vars => AnswersInv'
<1> SUFFICES ASSUME Before, [Next]_vars PROVE AnswersInv'
  BY DEF Before
<1>1. ASSUME NEW s \in Slot, Serve(s) \/ Work(s)
      PROVE  AnswersInv'
  <2>1. FitsOn(s)
    BY <1>1, BeforeGives, SlotStepFits
  <2> QED BY <1>1, <2>1, SlotStepMeans, StepStillMeans
<1>2. CASE Restart
  BY <1>2, RestartMeans
<1>3. CASE UNCHANGED vars
  <2>1. UNCHANGED <<cfg, store, vectors, index, slot, run>>
    BY <1>3 DEF vars, caches
  <2>2. SlotsMean' /\ RidesFit'
    BY <2>1, BeforeGives DEF SlotsMean, RidesFit, Key
  <2>3. StoreTells' /\ NodesFit'
    BY <2>1, BeforeGives DEF StoreTells, NodesFit
  <2> QED BY <2>1, <2>2, <2>3, BeforeGives DEF AnswersInv, CfgFits
<1> QED BY <1>1, <1>2, <1>3 DEF Next

LEMMA AnswersAlwaysFit == Spec => []AnswersInv
<1>1. Spec => []GatewayInv
  BY AlwaysFits
<1> QED BY <1>1, AnswersInit, AnswersStep, PTL DEF Spec

-----------------------------------------------------------------------------
(***************************************************************************)
(* What a client is answered with was said to its request: whatever its    *)
(* handler found in the store, in the semantic index or in another's call, *)
(* and whichever settings wrote it there.                                  *)
(***************************************************************************)
THEOREM AnswersFollowRequests == Spec => []AnswersAreForTheRequest
<1>1. AnswersInv => AnswersAreForTheRequest
  <2> SUFFICES ASSUME AnswersInv, NEW s \in Slot, NEW a \in slot[s].reply.got
               PROVE  LET asked == Call(Req(s), cfg)
                      IN  /\ SameAddressee(a.call, asked)
                          /\ a.status = slot[s].reply.status
                          /\ IF slot[s].reply.kind = "semantic"
                             THEN /\ WithoutMessages(Meaning(a.call))
                                       = WithoutMessages(Meaning(asked))
                                  /\ TextsAreClose(a.call.body, asked.body)
                             ELSE Meaning(a.call) = Meaning(asked)
    BY DEF AnswersAreForTheRequest
  <2>1. Suits(a, slot[s].reply.status, slot[s].reply.kind, Req(s), cfg)
    BY DEF AnswersInv, SlotsMean, MeansFit, Req
  <2>2. Call(Req(s), cfg).body = Req(s).body
    BY DEF Call, ChatCall, AnthropicCall
  <2> QED BY <2>1, <2>2 DEF Suits, TextsClose, TextsAreClose
<1> QED BY <1>1, AnswersAlwaysFit, PTL
=============================================================================
