----------------------------- MODULE Completion -----------------------------
(***************************************************************************)
(* Requests for one cacheable chat completion (zerocache-http,             *)
(* completion.rs): the store lookup, the in-process in-flight map that     *)
(* makes a request claim a run of Coalesce or ride on one, the claimer's   *)
(* write-back, and clients that disconnect.  A request has the name of the *)
(* run it would drive; a request in Streaming asks for stream:true.        *)
(*                                                                         *)
(* A handler's future is dropped when its client disconnects, and with it  *)
(* the handler's share of the run's future.  A plain run is polled by the  *)
(* requests that await it and by nobody else; a streaming run belongs to   *)
(* its claimer until spawn_tee detaches it.                                *)
(***************************************************************************)
EXTENDS Coalesce

VARIABLES
  rpc,      \* where each request is
  entry,    \* entry[p]: completion_in_flight of replica p for this key
  ride,     \* ride[r]: the run that request r awaits, its own included
  reply     \* whose response the client of r was sent, Bad, or None yet

reqVars == <<rpc, ride, reply>>
compVars == <<vars, reqVars, entry>>

CompletionTypeOK ==
  /\ TypeOK
  /\ rpc \in [Run -> {"new", "missed", "own", "ride", "writeback", "reread",
                      "answered", "gone"}]
  /\ entry \in [Replica -> Run \cup {None}]
  /\ ride \in [Run -> Run \cup {None}]
  /\ reply \in [Run -> Run \cup {None, Bad}]
  /\ \A r \in Run : rpc[r] = "answered" => reply[r] # None

CompletionInit ==
  /\ Init
  /\ rpc = [r \in Run |-> "new"]
  /\ entry = [p \in Replica |-> None]
  /\ ride = [r \in Run |-> None]
  /\ reply = [r \in Run |-> None]

Step(r, there) == rpc' = [rpc EXCEPT ![r] = there]

Answer(r, a) == Step(r, "answered") /\ reply' = [reply EXCEPT ![r] = a]

InMap(r) == entry[Home[r]]

(***************************************************************************)
(* The store lookup that precedes everything.  A store error ends the      *)
(* request; a miss leads to the map, and the store is not looked at again. *)
(***************************************************************************)
LookupHit(r) ==
  /\ rpc[r] = "new"
  /\ store # None
  /\ Answer(r, store)
  /\ UNCHANGED <<vars, entry, ride>>

LookupMiss(r) ==
  /\ rpc[r] = "new"
  /\ store = None
  /\ Step(r, "missed")
  /\ UNCHANGED <<vars, entry, ride, reply>>

LookupFails(r) ==
  /\ "store" \in Faults
  /\ rpc[r] = "new"
  /\ Answer(r, Bad)
  /\ UNCHANGED <<vars, entry, ride>>

(* Under the map's mutex: insert a run of one's own, or clone what is there. *)
\* mutant of Claim: the lookup in the map and the insertion are not one step
ClaimUnchecked(r) ==
  /\ rpc[r] = "missed"
  /\ entry' = [entry EXCEPT ![Home[r]] = r]
  /\ ride' = [ride EXCEPT ![r] = r]
  /\ Step(r, "own")
  /\ Goto(r, "elect")
  /\ UNCHANGED <<coordVars, role, late, outcome, store, reply>>

Claim(r) ==
  /\ rpc[r] = "missed"
  /\ InMap(r) = None
  /\ entry' = [entry EXCEPT ![Home[r]] = r]
  /\ ride' = [ride EXCEPT ![r] = r]
  /\ Step(r, "own")
  /\ Goto(r, "elect")
  /\ UNCHANGED <<coordVars, role, late, outcome, store, reply>>

Piggyback(r) ==
  /\ rpc[r] = "missed"
  /\ InMap(r) # None
  /\ ride' = [ride EXCEPT ![r] = InMap(r)]
  /\ Step(r, "ride")
  /\ UNCHANGED <<vars, entry, reply>>

(***************************************************************************)
(* A run moves while someone polls it.  The tee, and the coordinator calls *)
(* that a streaming run ends with, run in tasks of their own.              *)
(***************************************************************************)
Detached(q) ==
  q \in Streaming /\ pc[q] \in {"tee", "put", "settle", "release", "announce"}

\* mutant of Polled: riders wait for a run that only its claimer polls
PolledByOwner(q) == rpc[q] = "own"

Polled(q) ==
  \/ rpc[q] = "own"
  \/ q \notin Streaming /\ \E r \in Run : rpc[r] = "ride" /\ ride[r] = q

\* mutant of Drive: a streaming run resolves its riders and stays in the map
DriveKeepsEntry(q) ==
  /\ Detached(q) \/ Polled(q)
  /\ RunStep(q)
  /\ IF pc'[q] = "tee" /\ pc[q] # "tee"
     THEN Answer(q, q)
     ELSE UNCHANGED <<rpc, reply>>
  /\ UNCHANGED <<entry, ride>>

Drive(q) ==
  /\ Detached(q) \/ Polled(q)
  /\ RunStep(q)
  /\ entry' = IF pc[q] = "settle" THEN [entry EXCEPT ![Home[q]] = None] ELSE entry
  /\ IF pc'[q] = "tee" /\ pc[q] # "tee"
     THEN Answer(q, q)
     ELSE UNCHANGED <<rpc, reply>>
  /\ UNCHANGED ride

-----------------------------------------------------------------------------
(***************************************************************************)
(* What the awaited future resolved to.  A streaming run resolves its      *)
(* oneshot when it leaves the map, or with an error when it is dropped.    *)
(***************************************************************************)
Resolved(q) ==
  pc[q] \in {"done", "filed"} \cup
            (IF q \in Streaming THEN {"release", "announce", "dead"} ELSE {})

\* mutant of Result: a dropped streaming claim is not an error
ResultOfDropped(q) == outcome[q]

Result(q) == IF pc[q] = "dead" THEN Bad ELSE outcome[q]

(* The plain claimer clears the map, then looks at the result: its own 2xx   *)
(* is written back, an error or a peer's response is the answer.             *)
OwnerReturns(r) ==
  /\ rpc[r] = "own"
  /\ r \notin Streaming
  /\ Resolved(r)
  /\ entry' = [entry EXCEPT ![Home[r]] = None]
  /\ IF outcome[r] = r
     THEN Step(r, "writeback") /\ UNCHANGED reply
     ELSE Answer(r, outcome[r])
  /\ UNCHANGED <<vars, ride>>

RequestWritesBack(r) ==
  /\ rpc[r] = "writeback"
  /\ WriteBack(r)
  /\ Answer(r, r)
  /\ UNCHANGED <<entry, ride>>

WriteBackFails(r) ==
  /\ "store" \in Faults
  /\ rpc[r] = "writeback"
  /\ Answer(r, Bad)
  /\ UNCHANGED <<vars, entry, ride>>

(* A plain rider answers with what the run resolved to and stores nothing.   *)
\* mutant of RiderReturns: riders store the response too and surface the error
RiderStoresToo(r) ==
  /\ rpc[r] = "ride"
  /\ r \notin Streaming
  /\ Resolved(ride[r])
  /\ \/ Answer(r, Result(ride[r]))
     \/ "store" \in Faults /\ Answer(r, Bad)
  /\ UNCHANGED <<vars, entry, ride>>

RiderReturns(r) ==
  /\ rpc[r] = "ride"
  /\ r \notin Streaming
  /\ Resolved(ride[r])
  /\ Answer(r, Result(ride[r]))
  /\ UNCHANGED <<vars, entry, ride>>

(* A streaming request whose run ended before any tee, or a streaming rider, *)
(* reads the store again; a streaming claimer's error needs no read.         *)
StreamingReturns(r) ==
  /\ r \in Streaming
  /\ \/ rpc[r] = "own" /\ pc[r] = "done"
     \/ rpc[r] = "ride" /\ Resolved(ride[r])
  /\ IF rpc[r] = "own" /\ outcome[r] = Bad
     THEN Answer(r, Bad)
     ELSE Step(r, "reread") /\ UNCHANGED reply
  /\ UNCHANGED <<vars, entry, ride>>

(* An absent record falls back to what the run resolved to.                  *)
Replay(r) ==
  /\ rpc[r] = "reread"
  /\ Answer(r, IF store # None THEN store ELSE Result(ride[r]))
  /\ UNCHANGED <<vars, entry, ride>>

ReplayFails(r) ==
  /\ "store" \in Faults
  /\ rpc[r] = "reread"
  /\ Answer(r, Bad)
  /\ UNCHANGED <<vars, entry, ride>>

RequestStep(r) ==
  \/ LookupHit(r) \/ LookupMiss(r) \/ LookupFails(r)
  \/ Claim(r) \/ Piggyback(r)
  \/ OwnerReturns(r) \/ RequestWritesBack(r) \/ WriteBackFails(r)
  \/ RiderReturns(r)
  \/ StreamingReturns(r) \/ Replay(r) \/ ReplayFails(r)

-----------------------------------------------------------------------------
(***************************************************************************)
(* The client of r goes away.  The claim of a streaming request dies with  *)
(* it, unless the tee owns it by now; a plain run stays in the map, and    *)
(* whoever rides on it polls it.  Nobody removes the entry.                *)
(***************************************************************************)
Disconnect(r) ==
  /\ "cancel" \in Faults
  /\ rpc[r] \notin {"answered", "gone"}
  /\ Step(r, "gone")
  /\ IF rpc[r] = "own" /\ r \in Streaming /\ pc[r] \in BeforeTee
     THEN Abandon(r)
     ELSE UNCHANGED vars
  /\ UNCHANGED <<entry, ride, reply>>

Environment ==
  /\ \/ CoordStep
     \/ Evict
     \/ \E r \in Run : PassDeadline(r)
  /\ UNCHANGED <<reqVars, entry>>

CompletionNext ==
  \/ \E r \in Run : RequestStep(r) \/ Drive(r) \/ Disconnect(r)
  \/ Environment

(* Tasks that can move are polled, and the deadlines of Coalesce pass.       *)
CompletionFairness ==
  \A r \in Run :
    /\ WF_compVars(RequestStep(r))
    /\ WF_compVars(Drive(r))
    /\ WF_compVars(PassDeadline(r) /\ UNCHANGED <<reqVars, entry>>)

CompletionSpec ==
  CompletionInit /\ [][CompletionNext]_compVars /\ CompletionFairness

-----------------------------------------------------------------------------
(***************************************************************************)
(* The map is what keeps the runs of one replica apart: with it, requests  *)
(* drive their runs only as Coalesce lets them, one in flight per replica  *)
(* (completion.rs:402-490 and 812-833, and the removals at 497 and 878).   *)
(***************************************************************************)
Coalesced == Init /\ [][Next]_vars

(***************************************************************************)
(* Every request is answered or has lost its own client; the client of a   *)
(* request it rides on may go at any moment.                               *)
(***************************************************************************)
RequestsAnswered ==
  []<>(\A r \in Run : rpc[r] \in {"answered", "gone"})

(***************************************************************************)
(* A plain request that rides on another's run fails only because an       *)
(* upstream call failed, or because the run was a streaming claim whose    *)
(* client left before the stream opened.  The store's failures and the     *)
(* disconnect of a plain claimer never reach those that ride on its run.   *)
(***************************************************************************)
RiderFailsForACause ==
  \A r \in Run \ Streaming :
    ride[r] \notin {None, r} /\ reply[r] = Bad =>
      \/ \E q \in Run : outcome[q] = Bad
      \/ ride[r] \in Streaming /\ pc[ride[r]] = "dead"

(***************************************************************************)
(* A run that is over leaves the map, so that a later miss starts a fresh  *)
(* fetch, as long as the client that claimed it stays for the answer       *)
(* (completion.rs:494-501 and the removals of the streaming claimer).      *)
(***************************************************************************)
TendedEntryLeavesMap ==
  []<>(\A p \in Replica :
         entry[p] # None => Working(entry[p]) \/ rpc[entry[p]] = "gone")

(***************************************************************************)
(* "Drop the completed future from the map so a later, genuinely new miss  *)
(* for this key starts a fresh fetch" (completion.rs:495-496): said of     *)
(* every run that is over.                                                 *)
(***************************************************************************)
EntryLeavesMap ==
  \A r \in Run : entry[Home[r]] = r /\ ~Working(r) ~> entry[Home[r]] # r
=============================================================================
