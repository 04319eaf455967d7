---------------------------- MODULE SingleFlight ----------------------------
(***************************************************************************)
(* What coalescing one cache key promises.  At most one led upstream call  *)
(* is under way; a run that gave up waiting may call on its own; the entry *)
(* is only ever what a finished call returned; and a run answers with what *)
(* its own call returned or with an entry that was there when it looked.   *)
(* Only a crash, a handler that is dropped or a store that fails ends a    *)
(* led call without an error or an entry.                                  *)
(***************************************************************************)
CONSTANTS Run, None, Bad, Faults

VARIABLES
  caller,   \* the run whose led call is under way, or None
  solo,     \* the runs that called, or call, without leading
  entry,    \* the run whose response is cached, or None
  answer    \* answer[r]: whose response r returns, Bad, or None yet

vars == <<caller, solo, entry, answer>>

Init ==
  /\ caller = None
  /\ solo = {}
  /\ entry = None
  /\ answer = [r \in Run |-> None]

Answer(r, a) == answer[r] = None /\ answer' = [answer EXCEPT ![r] = a]

Lead(r) ==
  /\ caller = None
  /\ answer[r] = None
  /\ r \notin solo
  /\ caller' = r
  /\ UNCHANGED <<solo, entry, answer>>

GoAlone(r) ==
  /\ answer[r] = None
  /\ caller # r
  /\ solo' = solo \cup {r}
  /\ UNCHANGED <<caller, entry, answer>>

(* A call returns a response to store, or nothing that may be stored. *)
Return(r) ==
  /\ r = caller \/ r \in solo
  /\ Answer(r, r)
  /\ UNCHANGED <<caller, solo, entry>>

Fail(r) ==
  /\ r = caller \/ r \in solo
  /\ Answer(r, Bad)
  /\ caller' = IF r = caller THEN None ELSE caller
  /\ UNCHANGED <<solo, entry>>

(* The response becomes the entry, possibly more than once; a led call ends  *)
(* with the first of these writes and not before.                            *)
Fill(r) ==
  /\ answer[r] = r
  /\ entry' = r
  /\ caller' = IF r = caller THEN None ELSE caller
  /\ UNCHANGED <<solo, answer>>

Serve(r) ==
  /\ entry # None
  /\ r # caller /\ r \notin solo
  /\ Answer(r, entry)
  /\ UNCHANGED <<caller, solo, entry>>

(* The led call is lost, or what it returned is not stored. *)
Drop ==
  /\ Faults \cap {"crash", "cancel", "store"} # {}
  /\ caller' = None
  /\ UNCHANGED <<solo, entry, answer>>

Evict ==
  /\ "evict" \in Faults
  /\ entry' = None
  /\ UNCHANGED <<caller, solo, answer>>

Next ==
  \/ \E r \in Run :
       Lead(r) \/ GoAlone(r) \/ Return(r) \/ Fail(r) \/ Fill(r) \/ Serve(r)
  \/ Drop
  \/ Evict

Spec == Init /\ [][Next]_vars
=============================================================================
