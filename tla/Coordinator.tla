---------------------------- MODULE Coordinator ----------------------------
(***************************************************************************)
(* The Redis coordinator of one cache key (zerocache-adapters-redis,       *)
(* coordinator.rs): a SET NX PX lock that elects a leader, a PUBLISH that  *)
(* announces its end, and the per-replica slot on which followers wait.    *)
(*                                                                         *)
(* Keys share nothing (each has its own lock, channel and slot), so one    *)
(* key is modelled.  The operators below are parts of actions: Coalesce    *)
(* conjoins them with the control of the run that makes the call.          *)
(***************************************************************************)
EXTENDS Naturals

CONSTANTS
  Replica,  \* replicas; a restarted process draws a new id, hence is a new one
  Run,      \* cross-replica runs: one claimed fetch of the key each
  Home,     \* Home[r]: the replica a run lives on
  None,     \* "no run"
  Faults    \* the faults this instance allows

\* "ttl":   a lock outlives LOCK_TTL (60 s)
\* "redis": a command fails and the coordinator degrades
\* "loss":  a done message published while the reader reconnects is lost
\* "late":  a follower reaches its 30 s deadline
\* "upstream", "store", "evict", "crash", "cancel": see Coalesce
FaultKinds == {"ttl", "redis", "loss", "late", "upstream", "store", "evict",
               "crash", "cancel"}

ASSUME HomeAssumption == Home \in [Run -> Replica]
ASSUME NoneAssumption == None \notin Run
ASSUME FaultsAssumption == Faults \subseteq FaultKinds

VARIABLES
  lock,     \* the run whose SET NX took the lock, or None.  Redis holds only
            \* its replica's id: LockValue is all that the code can compare
  inbox,    \* inbox[p]: done messages published and not yet read by replica p
  follow    \* follow[r]: where r is with respect to the condvar of its slot

coordVars == <<lock, inbox, follow>>

CoordTypeOK ==
  /\ lock \in Run \cup {None}
  /\ inbox \in [Replica -> Nat]
  /\ follow \in [Run -> {"out", "waiting", "woken"}]

CoordInit ==
  /\ lock = None
  /\ inbox = [p \in Replica |-> 0]
  /\ follow = [r \in Run |-> "out"]

(***************************************************************************)
(* try_lead: SET NX answers Leader on a free lock, Follower on a held one; *)
(* on any Redis error the run leads without coordination.                  *)
(***************************************************************************)
\* mutant of Elected: SET without NX
ElectedAnyway(r) == lock' = r

Elected(r) == lock = None /\ lock' = r

Refused == lock # None /\ UNCHANGED lock

ElectedBlind == "redis" \in Faults /\ UNCHANGED lock

(***************************************************************************)
(* complete: a check-and-delete that compares the stored replica id with   *)
(* the caller's, then a PUBLISH whether or not the delete happened.  Two   *)
(* commands, so other runs act in between.  A failed command ends the call.*)
(***************************************************************************)
LockValue == Home[lock]

\* mutant of ReleaseLock: DEL without the GET guard
ReleaseUnguarded(r) == lock' = None

ReleaseLock(r) ==
  lock' = IF lock # None /\ LockValue = Home[r] THEN None ELSE lock

PublishDone == inbox' = [p \in Replica |-> inbox[p] + 1]

CommandFails == "redis" \in Faults

LockExpires ==
  /\ "ttl" \in Faults
  /\ lock # None
  /\ lock' = None
  /\ UNCHANGED <<inbox, follow>>

(***************************************************************************)
(* The pub/sub reader thread of replica p: one message bumps the slot's    *)
(* generation, which wakes exactly the runs already waiting on it.  A run  *)
(* snapshots the generation when it enters follow, so an earlier message   *)
(* never wakes it.                                                         *)
(***************************************************************************)
\* mutant of ReadDone: the reader bumps the slot when it has read nothing
ReadNothing(p) ==
  /\ inbox' = [inbox EXCEPT ![p] = @ - 1]
  /\ UNCHANGED <<lock, follow>>

ReadDone(p) ==
  /\ inbox[p] > 0
  /\ inbox' = [inbox EXCEPT ![p] = @ - 1]
  /\ follow' = [r \in Run |->
                  IF Home[r] = p /\ follow[r] = "waiting" THEN "woken"
                                                          ELSE follow[r]]
  /\ UNCHANGED lock

LoseDone(p) ==
  /\ "loss" \in Faults
  /\ inbox[p] > 0
  /\ inbox' = [inbox EXCEPT ![p] = @ - 1]
  /\ UNCHANGED <<lock, follow>>

\* follow: enter the slot; leave it Signalled, or WaitElapsed with no signal.
EnterFollow(r) == follow' = [follow EXCEPT ![r] = "waiting"]

LeaveFollow(r) == follow' = [follow EXCEPT ![r] = "out"]
=============================================================================
