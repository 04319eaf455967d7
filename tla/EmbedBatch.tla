----------------------------- MODULE EmbedBatch -----------------------------
(***************************************************************************)
(* Embedding batches on one replica (zerocache-http, app.rs): embed_batch  *)
(* with fetch_coalesced, and embed_image_batch with fetch_image_coalesced, *)
(* which has an in-flight map of its own.  A batch looks its keys up,      *)
(* claims the missing keys that nobody fetches with a single provider      *)
(* call, waits for the fetches that others have claimed, and writes every  *)
(* missing key back.  The fetch of a batch bears its name.                 *)
(***************************************************************************)
EXTENDS Naturals, FiniteSets

CONSTANTS
  Batch,    \* the requests
  Key,      \* cache keys
  Wants,    \* Wants[b]: the keys of b's texts, duplicates removed
  None,
  Faults

BatchFaults == {"provider", "store", "cancel", "evict"}

ASSUME WantsAssumption == Wants \in [Batch -> SUBSET Key]
ASSUME NoneAssumption == None \notin Batch
ASSUME FaultsAssumption == Faults \subseteq BatchFaults

VARIABLES
  kind,       \* what the batches hold
  pc,         \* where each batch is
  missing,    \* missing[b]: the keys its lookup did not find
  claimed,    \* claimed[b]: the keys whose fetch it claimed
  waits,      \* waits[b]: the batches whose fetch it waits for
  fetch,      \* fetch[b]: the shared future of b's claim
  inflight,   \* inflight[k]: the fetch that AppState.in_flight holds for k
  unwritten,  \* unwritten[b]: the keys its write-back has still to store
  store,      \* the keys that are cached
  billed,     \* the fetches that the provider has charged for
  usage       \* usage[b]: the fetches whose tokens b reports

plan == <<kind, missing, claimed, waits>>
bill == <<billed, usage>>
vars == <<pc, plan, fetch, inflight, unwritten, store, bill>>

Kinds == {"texts", "images"}

TypeOK ==
  /\ kind \in Kinds
  /\ pc \in [Batch -> {"new", "missed", "own", "wait", "write",
                       "answered", "failed", "gone"}]
  /\ missing \in [Batch -> SUBSET Key]
  /\ claimed \in [Batch -> SUBSET Key]
  /\ waits \in [Batch -> SUBSET Batch]
  /\ fetch \in [Batch -> {"none", "pending", "ok", "error"}]
  /\ inflight \in [Key -> Batch \cup {None}]
  /\ unwritten \in [Batch -> SUBSET Key]
  /\ \A b \in Batch : unwritten[b] \subseteq missing[b]
  /\ store \subseteq Key
  /\ billed \subseteq Batch
  /\ usage \in [Batch -> SUBSET Batch]

Init ==
  /\ kind \in Kinds
  /\ pc = [b \in Batch |-> "new"]
  /\ missing = [b \in Batch |-> {}]
  /\ claimed = [b \in Batch |-> {}]
  /\ waits = [b \in Batch |-> {}]
  /\ fetch = [b \in Batch |-> "none"]
  /\ inflight = [k \in Key |-> None]
  /\ unwritten = [b \in Batch |-> {}]
  /\ store = {}
  /\ billed = {}
  /\ usage = [b \in Batch |-> {}]

Goto(b, there) == pc' = [pc EXCEPT ![b] = there]

(***************************************************************************)
(* The lookup: one store task over all keys.  Nothing missing, no fetch.   *)
(***************************************************************************)
Lookup(b) ==
  /\ pc[b] = "new"
  /\ missing' = [missing EXCEPT ![b] = Wants[b] \ store]
  /\ Goto(b, IF Wants[b] \subseteq store THEN "answered" ELSE "missed")
  /\ UNCHANGED <<kind, claimed, waits, fetch, inflight, unwritten, store>>
  /\ UNCHANGED bill

LookupFails(b) ==
  /\ "store" \in Faults
  /\ pc[b] = "new"
  /\ Goto(b, "failed")
  /\ UNCHANGED <<plan, fetch, inflight, unwritten, store, bill>>

(***************************************************************************)
(* Under the map's mutex: keys in flight are waited for, the others are    *)
(* claimed together and fetched by one call.                               *)
(***************************************************************************)
\* mutant of Unclaimed: the map is not consulted
EveryOne(keys) == keys

Unclaimed(keys) == {k \in keys : inflight[k] = None}

Claim(b) ==
  LET mine == Unclaimed(missing[b])
  IN  /\ pc[b] = "missed"
      /\ claimed' = [claimed EXCEPT ![b] = mine]
      /\ waits' = [waits EXCEPT ![b] = {inflight[k] : k \in missing[b] \ mine}]
      /\ inflight' = [k \in Key |-> IF k \in mine THEN b ELSE inflight[k]]
      /\ IF mine = {}
         THEN Goto(b, "wait") /\ UNCHANGED fetch
         ELSE Goto(b, "own") /\ fetch' = [fetch EXCEPT ![b] = "pending"]
      /\ UNCHANGED <<kind, missing, unwritten, store, bill>>

(***************************************************************************)
(* The shared future moves while its claimer or a waiter polls it.  The    *)
(* fetch of a lone text goes through coalesce_cross_replica, which stores  *)
(* the vector before it returns and ignores a store error, or takes the    *)
(* vector that a peer stored, which bills nothing; images know no          *)
(* coordinator.                                                            *)
(***************************************************************************)
\* mutant of Polled: waiters rely on the claimer to drive its fetch
PolledByClaimer(q) == pc[q] = "own"

Polled(q) ==
  \/ pc[q] = "own"
  \/ \E b \in Batch : pc[b] = "wait" /\ q \in waits[b]

Coordinated(q) == kind = "texts" /\ Cardinality(claimed[q]) = 1

Stored(q) == IF Coordinated(q) THEN store \cup claimed[q] ELSE store

ProviderReturns(q) ==
  /\ fetch[q] = "pending" /\ Polled(q)
  /\ fetch' = [fetch EXCEPT ![q] = "ok"]
  /\ \/ store' = Stored(q)
     \/ "store" \in Faults /\ UNCHANGED store
  /\ billed' = billed \cup {q}
  /\ UNCHANGED <<pc, plan, inflight, unwritten, usage>>

PeerFills(q) ==
  /\ fetch[q] = "pending" /\ Polled(q) /\ Coordinated(q)
  /\ fetch' = [fetch EXCEPT ![q] = "ok"]
  /\ store' = Stored(q)
  /\ UNCHANGED <<pc, plan, inflight, unwritten, bill>>

ProviderFails(q) ==
  /\ "provider" \in Faults
  /\ fetch[q] = "pending" /\ Polled(q)
  /\ fetch' = [fetch EXCEPT ![q] = "error"]
  /\ UNCHANGED <<pc, plan, inflight, unwritten, store, bill>>

(***************************************************************************)
(* A batch awaits its own fetch first, and reports its tokens.  Its claim  *)
(* leaves the map after a success; an error returns before the removal.    *)
(***************************************************************************)
OwnFetched(b) ==
  /\ pc[b] = "own"
  /\ fetch[b] = "ok"
  /\ inflight' = [k \in Key |-> IF k \in claimed[b] THEN None ELSE inflight[k]]
  /\ usage' = [usage EXCEPT ![b] = billed \cap {b}]
  /\ Goto(b, "wait")
  /\ UNCHANGED <<plan, fetch, unwritten, store, billed>>

OwnFailed(b) ==
  /\ pc[b] = "own"
  /\ fetch[b] = "error"
  /\ Goto(b, "failed")
  /\ UNCHANGED <<plan, fetch, inflight, unwritten, store, bill>>

(* Then the fetches it waits for, whose tokens are not its own: the first    *)
(* error ends the batch.                                                     *)
\* mutants of AllFetched: hits are written back too; waits are not awaited;
\* their tokens are added
AllWritten(b) ==
  /\ pc[b] = "wait"
  /\ \A q \in waits[b] : fetch[q] = "ok"
  /\ unwritten' = [unwritten EXCEPT ![b] = Wants[b]]
  /\ Goto(b, "write")
  /\ UNCHANGED <<plan, fetch, inflight, store, bill>>

OwnOnly(b) ==
  /\ pc[b] = "wait"
  /\ unwritten' = [unwritten EXCEPT ![b] = missing[b]]
  /\ Goto(b, "write")
  /\ UNCHANGED <<plan, fetch, inflight, store, bill>>

AllBilled(b) ==
  /\ pc[b] = "wait"
  /\ \A q \in waits[b] : fetch[q] = "ok"
  /\ unwritten' = [unwritten EXCEPT ![b] = missing[b]]
  /\ usage' = [usage EXCEPT ![b] = @ \cup (waits[b] \cap billed)]
  /\ Goto(b, "write")
  /\ UNCHANGED <<plan, fetch, inflight, store, billed>>

AllFetched(b) ==
  /\ pc[b] = "wait"
  /\ \A q \in waits[b] : fetch[q] = "ok"
  /\ unwritten' = [unwritten EXCEPT ![b] = missing[b]]
  /\ Goto(b, "write")
  /\ UNCHANGED <<plan, fetch, inflight, store, bill>>

WaitFailed(b) ==
  /\ pc[b] = "wait"
  /\ \E q \in waits[b] : fetch[q] = "error"
  /\ Goto(b, "failed")
  /\ UNCHANGED <<plan, fetch, inflight, unwritten, store, bill>>

(* The write-back: key by key in one store task, the first error ends it.    *)
WriteKey(b) ==
  /\ pc[b] = "write"
  /\ \E k \in unwritten[b] :
       /\ store' = store \cup {k}
       /\ unwritten' = [unwritten EXCEPT ![b] = @ \ {k}]
       /\ Goto(b, IF unwritten[b] = {k} THEN "answered" ELSE "write")
  /\ UNCHANGED <<plan, fetch, inflight, bill>>

WriteFails(b) ==
  /\ "store" \in Faults
  /\ pc[b] = "write"
  /\ Goto(b, "failed")
  /\ UNCHANGED <<plan, fetch, inflight, unwritten, store, bill>>

Finished(b) == pc[b] \in {"answered", "failed", "gone"}

(* The client of b goes away and the handler's future is dropped.            *)
Disconnect(b) ==
  /\ "cancel" \in Faults
  /\ ~Finished(b)
  /\ Goto(b, "gone")
  /\ UNCHANGED <<plan, fetch, inflight, unwritten, store, bill>>

(* A DELETE, or the end of an entry's time to live.                          *)
Evict ==
  /\ "evict" \in Faults
  /\ \E k \in store : store' = store \ {k}
  /\ UNCHANGED <<pc, plan, fetch, inflight, unwritten, bill>>

BatchStep(b) ==
  \/ Lookup(b) \/ LookupFails(b)
  \/ Claim(b)
  \/ OwnFetched(b) \/ OwnFailed(b)
  \/ AllFetched(b) \/ WaitFailed(b)
  \/ WriteKey(b) \/ WriteFails(b)

FetchEnds(q) == ProviderReturns(q) \/ PeerFills(q) \/ ProviderFails(q)

Next ==
  \/ \E b \in Batch :
       BatchStep(b) \/ FetchEnds(b) \/ Disconnect(b)
  \/ Evict

(* Handlers that can move are polled; provider calls return (their timeout). *)
Fairness ==
  \A b \in Batch :
    WF_vars(BatchStep(b)) /\ WF_vars(FetchEnds(b))

Spec == Init /\ [][Next]_vars /\ Fairness

-----------------------------------------------------------------------------
(***************************************************************************)
(* Two fetches of one key are never under way together, however batches    *)
(* overlap and whoever disconnects (app.rs:853-860, 974-977).              *)
(***************************************************************************)
OneFetchPerKey ==
  \A b, q \in Batch :
    fetch[b] = "pending" /\ fetch[q] = "pending" /\ b # q =>
      claimed[b] \cap claimed[q] = {}

(***************************************************************************)
(* `fetched[key]` finds every missing key when the waits are over          *)
(* (app.rs:566-574): what a batch did not claim is in a fetch it awaited,  *)
(* although claims may leave the map at any moment.                        *)
(***************************************************************************)
EveryKeyIsFetched ==
  \A b \in Batch :
    pc[b] = "write" =>
      missing[b] \subseteq
        UNION {claimed[q] : q \in {q \in waits[b] \cup {b} : fetch[q] = "ok"}}

(***************************************************************************)
(* What the provider charged for a fetch is reported by its claimer alone, *)
(* and by nobody if the claimer failed afterwards or left; a fetch that a  *)
(* peer filled is reported by nobody (app.rs:822-827, 951-958, 991, 1003). *)
(* "usage must be attributed exactly once across all 5 requests", says a   *)
(* test of requests that all succeed (app.rs:2173).                        *)
(***************************************************************************)
Reporters(q) == {b \in Batch : pc[b] = "answered" /\ q \in usage[b]}

BilledOnce ==
  \A q \in Batch :
    Reporters(q) = IF q \in billed /\ pc[q] = "answered" THEN {q} ELSE {}

(***************************************************************************)
(* Batches that wait for each other's claims never wait forever: a batch   *)
(* awaits its own fetch before those of others, and drives the fetch of a  *)
(* client that left (app.rs:987-1005).                                     *)
(***************************************************************************)
BatchesFinish == \A b \in Batch : []<>Finished(b)

(***************************************************************************)
(* "a later, genuinely new miss for the same key starts a fresh fetch      *)
(* instead of piggybacking on a completed, no-longer-useful future         *)
(* forever" (app.rs:993-995): a fetch that is over leaves the map.         *)
(***************************************************************************)
FetchLeavesMap ==
  \A k \in Key, b \in Batch :
    inflight[k] = b /\ fetch[b] # "pending" ~> inflight[k] # b
=============================================================================
