------------------------------ MODULE Coalesce ------------------------------
(***************************************************************************)
(* Cross-replica single-flight of one cache key.  A run is one execution   *)
(* of coalesce_cross_replica (coalesce.rs: embeddings, completions and     *)
(* messages), or, for a run in Streaming, of the same protocol as written  *)
(* out in fetch_completion_coalesced_streaming and spawn_tee.              *)
(*                                                                         *)
(* The two differ in what happens at the end.  coalesce_cross_replica      *)
(* calls complete only when try_lead said Leader, and its entry in the     *)
(* in-flight map outlives it.  The streaming claimer leaves the map first, *)
(* then calls complete whether or not it ever held the lock.               *)
(***************************************************************************)
EXTENDS Coordinator, FiniteSets

CONSTANTS
  Streaming,    \* the runs that belong to stream:true completions
  Bad           \* a non-2xx response or a transport error

ASSUME StreamingAssumption == Streaming \subseteq Run
ASSUME BadAssumption == Bad \notin Run \cup {None}

VARIABLES
  pc,        \* where each run is
  role,      \* what its try_lead calls have answered
  late,      \* the followers whose deadline has passed
  outcome,   \* outcome[r]: the run whose response r returns, Bad, or None yet
  store      \* the run whose response the shared store holds, or None

runVars == <<pc, role, late, outcome>>
vars == <<coordVars, runVars, store>>

FollowerStates == {"read", "gap", "follow", "reread"}

\* where the handler of a streaming run still drives it
BeforeTee == FollowerStates \cup {"elect", "promote", "fetch"}

Working(r) == pc[r] \notin {"idle", "done", "filed", "dead"}

TypeOK ==
  /\ CoordTypeOK
  /\ pc \in [Run -> {"idle", "elect", "promote", "fetch", "tee", "put", "settle",
                     "release", "announce", "done", "filed", "dead"} \cup FollowerStates]
  /\ role \in [Run -> {"none", "leader", "follower", "promoted", "fallback"}]
  /\ late \subseteq Run
  /\ outcome \in [Run -> Run \cup {None, Bad}]
  /\ store \in Run \cup {None}

Init ==
  /\ CoordInit
  /\ pc = [r \in Run |-> "idle"]
  /\ role = [r \in Run |-> "none"]
  /\ late = {}
  /\ outcome = [r \in Run |-> None]
  /\ store = None

Goto(r, there) == pc' = [pc EXCEPT ![r] = there]

Become(r, what) == role' = [role EXCEPT ![r] = what]

(***************************************************************************)
(* The in-process in-flight map admits one run per replica: the request    *)
(* that finds no entry claims the key, any other piggybacks.  The entry    *)
(* covers the whole of a non-streaming run (the shared future awaits       *)
(* complete before it resolves); a streaming claimer removes it first, and *)
(* one that is dropped before its tee starts leaves it behind.             *)
(***************************************************************************)
InFlight(r) ==
  Working(r) /\ ~(r \in Streaming /\ pc[r] \in {"release", "announce"})

Begin(r) ==
  /\ pc[r] = "idle"
  /\ \A q \in Run : Home[q] = Home[r] => ~InFlight(q) /\ pc[q] # "dead"
  /\ Goto(r, "elect")
  /\ UNCHANGED <<coordVars, role, late, outcome, store>>

(* The first try_lead. *)
Lead(r) ==
  /\ pc[r] = "elect"
  /\ Elected(r) \/ ElectedBlind
  /\ Goto(r, "fetch")
  /\ Become(r, "leader")
  /\ UNCHANGED <<inbox, follow, late, outcome, store>>

BecomeFollower(r) ==
  /\ pc[r] = "elect"
  /\ Refused
  /\ Goto(r, "read")
  /\ Become(r, "follower")
  /\ UNCHANGED <<inbox, follow, late, outcome, store>>

(***************************************************************************)
(* Where a run goes once it has an answer: a streaming claimer leaves the  *)
(* map and completes always, coalesce_cross_replica completes what it led. *)
(***************************************************************************)
Leads(r) == role[r] \in {"leader", "promoted"}

AfterFetch(r) ==
  CASE r \in Streaming                 -> "settle"
    [] r \notin Streaming /\ Leads(r) -> "release"
    [] OTHER                           -> "done"

(***************************************************************************)
(* The follower loop.  A read error counts as absent.  An absent entry     *)
(* ends the loop when it was the read after a signal, or when the deadline *)
(* has passed; otherwise the run waits on its slot.                        *)
(***************************************************************************)
ReadHit(r) ==
  /\ pc[r] \in {"read", "reread"}
  /\ store # None
  /\ outcome' = [outcome EXCEPT ![r] = store]
  /\ Goto(r, AfterFetch(r))
  /\ UNCHANGED <<coordVars, role, late, store>>

\* mutant of ReadMiss: the loop never looks at its deadline
ReadMissForever(r) ==
  /\ pc[r] \in {"read", "reread"}
  /\ store = None \/ "store" \in Faults
  /\ Goto(r, IF pc[r] = "reread" THEN "promote" ELSE "gap")
  /\ UNCHANGED <<coordVars, role, late, outcome, store>>

ReadMiss(r) ==
  /\ pc[r] \in {"read", "reread"}
  /\ store = None \/ "store" \in Faults
  /\ Goto(r, IF pc[r] = "reread" \/ r \in late THEN "promote" ELSE "gap")
  /\ UNCHANGED <<coordVars, role, late, outcome, store>>

Wait(r) ==
  /\ pc[r] = "gap"
  /\ EnterFollow(r)
  /\ Goto(r, "follow")
  /\ UNCHANGED <<lock, inbox, role, late, outcome, store>>

Signalled(r) ==
  /\ pc[r] = "follow"
  /\ follow[r] = "woken"
  /\ LeaveFollow(r)
  /\ Goto(r, "reread")
  /\ UNCHANGED <<lock, inbox, role, late, outcome, store>>

\* mutant of WaitElapsed: a poll that elapsed counts as a signal
WaitElapsedSignals(r) ==
  /\ pc[r] = "follow"
  /\ LeaveFollow(r)
  /\ Goto(r, "reread")
  /\ UNCHANGED <<lock, inbox, role, late, outcome, store>>

WaitElapsed(r) ==
  /\ pc[r] = "follow"
  /\ follow[r] = "waiting"
  /\ LeaveFollow(r)
  /\ Goto(r, "read")
  /\ UNCHANGED <<lock, inbox, role, late, outcome, store>>

PassDeadline(r) ==
  /\ "late" \in Faults
  /\ pc[r] \in FollowerStates
  /\ r \notin late
  /\ late' = late \cup {r}
  /\ UNCHANGED <<coordVars, pc, role, outcome, store>>

(***************************************************************************)
(* The second try_lead: promoted to leader, or, when some other run holds  *)
(* the lock, a fetch of its own without any lock.                          *)
(***************************************************************************)
Promote(r) ==
  /\ pc[r] = "promote"
  /\ Elected(r) \/ ElectedBlind
  /\ Goto(r, "fetch")
  /\ Become(r, "promoted")
  /\ UNCHANGED <<inbox, follow, late, outcome, store>>

FallBack(r) ==
  /\ pc[r] = "promote"
  /\ Refused
  /\ Goto(r, "fetch")
  /\ Become(r, "fallback")
  /\ UNCHANGED <<inbox, follow, late, outcome, store>>

(***************************************************************************)
(* The upstream call.  A streaming run whose headers are 2xx hands the     *)
(* body to a detached tee and answers its client at once; whether there is *)
(* anything to store is known when the stream ends.  Only a complete 2xx   *)
(* is stored, before complete; a failed or timed-out write is ignored (one  *)
(* that lands after its timeout is not modelled).                          *)
(***************************************************************************)
StreamOpens(r) ==
  /\ r \in Streaming
  /\ pc[r] = "fetch"
  /\ Goto(r, "tee")
  /\ UNCHANGED <<coordVars, role, late, outcome, store>>

UpstreamOk(r) ==
  /\ pc[r] = IF r \in Streaming THEN "tee" ELSE "fetch"
  /\ outcome' = [outcome EXCEPT ![r] = r]
  /\ Goto(r, "put")
  /\ UNCHANGED <<coordVars, role, late, store>>

\* mutant of UpstreamFails: the error is returned before complete
UpstreamFailsEarly(r) ==
  /\ "upstream" \in Faults
  /\ pc[r] \in {"fetch", "tee"}
  /\ outcome' = [outcome EXCEPT ![r] = Bad]
  /\ Goto(r, "done")
  /\ UNCHANGED <<coordVars, role, late, store>>

UpstreamFails(r) ==
  /\ "upstream" \in Faults
  /\ pc[r] \in {"fetch", "tee"}
  /\ outcome' = [outcome EXCEPT ![r] = Bad]
  /\ Goto(r, AfterFetch(r))
  /\ UNCHANGED <<coordVars, role, late, store>>

Put(r) ==
  /\ pc[r] = "put"
  /\ store' = r
  /\ Goto(r, AfterFetch(r))
  /\ UNCHANGED <<coordVars, role, late, outcome>>

PutFails(r) ==
  /\ "store" \in Faults
  /\ pc[r] = "put"
  /\ Goto(r, AfterFetch(r))
  /\ UNCHANGED <<coordVars, role, late, outcome, store>>

(* A streaming claimer leaves the map and resolves those that ride on it. *)
Settle(r) ==
  /\ pc[r] = "settle"
  /\ Goto(r, "release")
  /\ UNCHANGED <<coordVars, role, late, outcome, store>>

(* complete: two Redis commands, the first failure ends the call. *)
Release(r) ==
  /\ pc[r] = "release"
  /\ ReleaseLock(r)
  /\ Goto(r, "announce")
  /\ UNCHANGED <<inbox, follow, role, late, outcome, store>>

Announce(r) ==
  /\ pc[r] = "announce"
  /\ PublishDone
  /\ Goto(r, "done")
  /\ UNCHANGED <<lock, follow, role, late, outcome, store>>

CompleteFails(r) ==
  /\ CommandFails
  /\ pc[r] \in {"release", "announce"}
  /\ Goto(r, "done")
  /\ UNCHANGED <<coordVars, role, late, outcome, store>>

(* The request that claimed a non-streaming run stores a 2xx that the run    *)
(* itself fetched once more, when the run is over and out of the map.        *)
WriteBack(r) ==
  /\ r \notin Streaming
  /\ pc[r] = "done"
  /\ outcome[r] = r
  /\ store' = r
  /\ Goto(r, "filed")
  /\ UNCHANGED <<coordVars, role, late, outcome>>

RunStep(r) ==
  \/ Lead(r) \/ BecomeFollower(r)
  \/ ReadHit(r) \/ ReadMiss(r)
  \/ Wait(r) \/ Signalled(r) \/ WaitElapsed(r)
  \/ Promote(r) \/ FallBack(r)
  \/ StreamOpens(r) \/ UpstreamOk(r) \/ UpstreamFails(r)
  \/ Put(r) \/ PutFails(r) \/ Settle(r)
  \/ Release(r) \/ Announce(r) \/ CompleteFails(r)

-----------------------------------------------------------------------------
(* What the runs' environment does. *)

(* A DELETE of the entry, or the end of its time to live. *)
Evict ==
  /\ "evict" \in Faults
  /\ store # None
  /\ store' = None
  /\ UNCHANGED <<coordVars, runVars>>

(* A replica dies with its runs; the lock of one of them stays in Redis. *)
Crash(p) ==
  /\ "crash" \in Faults
  /\ \E r \in Run : Home[r] = p /\ Working(r)
  /\ pc' = [r \in Run |-> IF Home[r] = p THEN "dead" ELSE pc[r]]
  /\ follow' = [r \in Run |-> IF Home[r] = p THEN "out" ELSE follow[r]]
  /\ UNCHANGED <<lock, inbox, role, late, outcome, store>>

(* The client of a streaming claimer disconnects before the tee is spawned:  *)
(* the handler's future is dropped, with the lock and the map entry it has.  *)
Abandon(r) ==
  /\ "cancel" \in Faults
  /\ r \in Streaming
  /\ pc[r] \in BeforeTee
  /\ Goto(r, "dead")
  /\ follow' = [follow EXCEPT ![r] = "out"]
  /\ UNCHANGED <<lock, inbox, role, late, outcome, store>>

CoordStep ==
  /\ \/ LockExpires
     \/ \E p \in Replica : ReadDone(p) \/ LoseDone(p)
  /\ UNCHANGED <<runVars, store>>

Next ==
  \/ \E r \in Run : Begin(r) \/ RunStep(r) \/ WriteBack(r) \/ PassDeadline(r) \/ Abandon(r)
  \/ CoordStep
  \/ Evict
  \/ \E p \in Replica : Crash(p)

(***************************************************************************)
(* The runtime polls a run that can move, every call a run awaits returns  *)
(* (PROVIDER_TIMEOUT, STORE_TIMEOUT, SOCKET_TIMEOUT, the 250 ms poll) and  *)
(* clocks advance: deadlines pass.  Nothing is assumed of done messages.   *)
(***************************************************************************)
Fairness ==
  \A r \in Run : WF_vars(RunStep(r)) /\ WF_vars(PassDeadline(r))

Spec == Init /\ [][Next]_vars /\ Fairness

-----------------------------------------------------------------------------
(***************************************************************************)
(* While locks do not outlive their TTL and Redis answers, two runs never  *)
(* lead at once: the second upstream call of a led run cannot start before *)
(* the first leader released (coordinator.rs, try_lead_inner and the       *)
(* GET-guarded delete of complete_inner).                                  *)
(***************************************************************************)
Leading(r) == Leads(r) /\ pc[r] \in {"fetch", "tee", "put", "settle", "release"}

OneLeader == \A r, s \in Run : Leading(r) /\ Leading(s) => r = s

(***************************************************************************)
(* The value in Redis names a replica, not a run, so complete could delete *)
(* a lock that another run of the same replica took.  It does not, as long *)
(* as the run that took it still works (coalesce.rs:110-115, 137-141).     *)
(***************************************************************************)
ReleaseSparesOthers ==
  [][\A r \in Run :
       Release(r) /\ lock # None /\ lock # r /\ Working(lock) => lock' = lock]_vars

(***************************************************************************)
(* A follower goes upstream only because its deadline passed or because    *)
(* some leader stored nothing: done implies a readable entry               *)
(* (completion.rs:453-464, app.rs:929-941), and a lost or early done       *)
(* message costs polls, never an upstream call.                            *)
(***************************************************************************)
PromotionNeedsAFailure ==
  \A r \in Run :
    role[r] \in {"promoted", "fallback"} =>
      r \in late \/ \E q \in Run \ {r} : outcome[q] = Bad

(***************************************************************************)
(* A leader releases on failure too, or the lock would sit for its full    *)
(* TTL (coalesce.rs:111-112).                                              *)
(***************************************************************************)
LockIsReleased == \A r \in Run : []<>(lock # r)

(***************************************************************************)
(* Every run ends, whatever is lost, late, crashed or failing, unless its  *)
(* own replica dies: the deadline bounds the follower loop.                *)
(***************************************************************************)
RunsEnd == \A r \in Run : []<>~Working(r)

-----------------------------------------------------------------------------
(***************************************************************************)
(* The led calls are one flight: SingleFlight's caller is the leader whose *)
(* upstream call or store write is not over, its solo runs those that fell *)
(* back to a call without the lock.                                        *)
(***************************************************************************)
Calling(r) == Leads(r) /\ pc[r] \in {"fetch", "tee", "put"}

Caller ==
  IF \E r \in Run : Calling(r) THEN CHOOSE r \in Run : Calling(r) ELSE None

Flight == INSTANCE SingleFlight
            WITH caller <- Caller,
                 solo <- {r \in Run : role[r] = "fallback"},
                 entry <- store,
                 answer <- outcome

(***************************************************************************)
(* Under lossy messages, passing deadlines and failing upstreams, every    *)
(* step of the protocol is a step of one flight at a time.                 *)
(***************************************************************************)
ImplementsSingleFlight == Flight!Spec
=============================================================================
