-------------------------- MODULE EmbedBatchProofs --------------------------
(***************************************************************************)
(* Theorems about EmbedBatch, for every set of batches, keys and wants.    *)
(***************************************************************************)
EXTENDS EmbedBatch, TLAPS

USE DEF vars, plan, bill, Goto

-----------------------------------------------------------------------------
(***************************************************************************)
(* The inductive invariant: what a batch knows before it claims, that the  *)
(* map holds every key of a claim that is awaited or under way, that a map *)
(* entry leads to a claim of its key, what the waits have established, and *)
(* whose tokens a batch reports.                                           *)
(***************************************************************************)
Fresh ==
  \A b \in Batch :
    pc[b] \in {"new", "missed"} =>
      fetch[b] = "none" /\ claimed[b] = {} /\ unwritten[b] = {}

ClaimsAreMapped ==
  \A b \in Batch :
    pc[b] = "own" \/ fetch[b] = "pending" =>
      \A k \in claimed[b] : inflight[k] = b

EntriesAreClaimed ==
  \A k \in Key : inflight[k] # None => k \in claimed[inflight[k]]

MissesAreCovered ==
  \A b \in Batch :
    pc[b] \in {"own", "wait", "write"} =>
      \A k \in missing[b] : \E q \in waits[b] \cup {b} : k \in claimed[q]

WaitsAreOver ==
  \A b \in Batch :
    /\ pc[b] \in {"wait", "write"} => claimed[b] = {} \/ fetch[b] = "ok"
    /\ pc[b] = "write" => \A q \in waits[b] : fetch[q] = "ok"

UsageIsOwn ==
  /\ \A q \in billed : fetch[q] = "ok"
  /\ \A b \in Batch : usage[b] \subseteq billed \cap {b}
  /\ \A b \in Batch :
       pc[b] \in {"wait", "write", "answered"} =>
         fetch[b] # "pending" /\ usage[b] = billed \cap {b}

IInv ==
  TypeOK /\ Fresh /\ ClaimsAreMapped /\ EntriesAreClaimed
         /\ MissesAreCovered /\ WaitsAreOver /\ UsageIsOwn

LEMMA InitIInv == Init => IInv
BY NoneAssumption
DEF Init, IInv, TypeOK, Fresh, ClaimsAreMapped, EntriesAreClaimed,
    MissesAreCovered, WaitsAreOver, UsageIsOwn

-----------------------------------------------------------------------------
(* Each action preserves it. *)
LEMMA LookupPreserves ==
  ASSUME IInv, NEW b \in Batch, Lookup(b) \/ LookupFails(b)
  PROVE  IInv'
<1> USE DEF Lookup, LookupFails, IInv, TypeOK
<1>1. TypeOK'
  BY WantsAssumption DEF Fresh
<1>2. pc[b] = "new" /\ fetch[b] = "none" /\ claimed[b] = {} /\ unwritten[b] = {}
  BY DEF Fresh
<1>3. pc'[b] \in {"answered", "missed", "failed"}
  OBVIOUS
<1>4. \A q \in Batch \ {b} : pc'[q] = pc[q] /\ missing'[q] = missing[q]
  OBVIOUS
<1>5. UNCHANGED <<kind, claimed, waits, fetch, inflight, unwritten, bill>>
  OBVIOUS
<1>6. Fresh' /\ ClaimsAreMapped' /\ EntriesAreClaimed'
  BY <1>2, <1>3, <1>4, <1>5 DEF Fresh, ClaimsAreMapped, EntriesAreClaimed
<1>7. MissesAreCovered' /\ WaitsAreOver'
  BY <1>2, <1>3, <1>4, <1>5 DEF MissesAreCovered, WaitsAreOver
<1>8. UsageIsOwn'
  BY <1>2, <1>3, <1>4, <1>5 DEF UsageIsOwn
<1> QED BY <1>1, <1>6, <1>7, <1>8

(* A claim takes keys that the map does not hold, so no other claim has them. *)
LEMMA ClaimPreserves ==
  ASSUME IInv, NEW b \in Batch, Claim(b)
  PROVE  IInv'
<1> DEFINE mine == Unclaimed(missing[b])
<1> USE DEF IInv, TypeOK
<1>1. /\ pc[b] = "missed"
      /\ mine \subseteq missing[b] /\ \A k \in mine : inflight[k] = None
      /\ \A k \in missing[b] \ mine : inflight[k] \in Batch
  BY DEF Claim, Unclaimed
<1>2. fetch[b] = "none" /\ claimed[b] = {} /\ unwritten[b] = {}
  BY <1>1 DEF Fresh
<1>3. /\ claimed' = [claimed EXCEPT ![b] = mine]
      /\ waits' = [waits EXCEPT ![b] = {inflight[k] : k \in missing[b] \ mine}]
      /\ inflight' = [k \in Key |-> IF k \in mine THEN b ELSE inflight[k]]
      /\ UNCHANGED <<kind, missing, unwritten, store, bill>>
  BY DEF Claim
<1>4. \/ mine = {} /\ pc'[b] = "wait" /\ fetch' = fetch
      \/ pc'[b] = "own" /\ fetch' = [fetch EXCEPT ![b] = "pending"]
  BY DEF Claim
<1>5. \A q \in Batch \ {b} : pc'[q] = pc[q] /\ fetch'[q] = fetch[q]
                             /\ claimed'[q] = claimed[q] /\ waits'[q] = waits[q]
  BY <1>3, <1>4 DEF Claim
<1>6. claimed'[b] = mine /\ waits'[b] = {inflight[k] : k \in missing[b] \ mine}
  BY <1>3
<1>7. TypeOK'
  <2>1. mine \subseteq Key
    BY <1>1
  <2>2. {inflight[k] : k \in missing[b] \ mine} \subseteq Batch
    BY <1>1
  <2>3. pc' \in [Batch -> {"new", "missed", "own", "wait", "write",
                           "answered", "failed", "gone"}]
        /\ fetch' \in [Batch -> {"none", "pending", "ok", "error"}]
    BY DEF Claim
  <2> QED BY <1>3, <2>1, <2>2, <2>3
<1>8. Fresh'
  BY <1>3, <1>4, <1>5 DEF Fresh
<1>9. ClaimsAreMapped'
  <2> SUFFICES ASSUME NEW q \in Batch, pc'[q] = "own" \/ fetch'[q] = "pending",
                      NEW k \in claimed'[q]
               PROVE  inflight'[k] = q
    BY DEF ClaimsAreMapped
  <2>1. CASE q = b
    BY <1>3, <1>6, <2>1, <1>1
  <2>2. CASE q # b
    <3>1. inflight[k] = q /\ k \in Key
      BY <1>5, <2>2 DEF ClaimsAreMapped
    <3>2. k \notin mine
      BY <1>1, <3>1, NoneAssumption
    <3> QED BY <1>3, <3>1, <3>2
  <2> QED BY <2>1, <2>2
<1>10. EntriesAreClaimed'
  <2> SUFFICES ASSUME NEW k \in Key, inflight'[k] # None
               PROVE  k \in claimed'[inflight'[k]]
    BY DEF EntriesAreClaimed
  <2>1. CASE k \in mine
    BY <1>3, <1>6, <2>1
  <2>2. CASE k \notin mine
    <3>1. inflight'[k] = inflight[k] /\ k \in claimed[inflight[k]]
      BY <1>3, <2>2 DEF EntriesAreClaimed
    <3>2. inflight[k] \in Batch \ {b}
      BY <1>2, <3>1, <2>2, <1>3
    <3> QED BY <1>5, <3>1, <3>2
  <2> QED BY <2>1, <2>2
<1>11. MissesAreCovered'
  <2> SUFFICES ASSUME NEW q \in Batch, pc'[q] \in {"own", "wait", "write"},
                      NEW k \in missing[q]
               PROVE  \E x \in waits'[q] \cup {q} : k \in claimed'[x]
    BY <1>3 DEF MissesAreCovered
  <2>1. CASE q = b /\ k \in mine
    BY <1>6, <2>1
  <2>2. CASE q = b /\ k \notin mine
    <3>1. inflight[k] \in waits'[b] /\ inflight[k] \in Batch
      BY <1>1, <1>6, <2>2
    <3>2. k \in claimed[inflight[k]]
      BY <3>1, NoneAssumption, <2>2 DEF EntriesAreClaimed
    <3>3. claimed'[inflight[k]] = claimed[inflight[k]]
      BY <1>2, <1>5, <3>1, <3>2
    <3> QED BY <2>2, <3>1, <3>2, <3>3
  <2>3. CASE q # b
    <3>1. PICK x \in waits[q] \cup {q} : k \in claimed[x]
      BY <1>5, <2>3 DEF MissesAreCovered
    <3>2. x # b
      BY <1>2, <3>1
    <3> QED BY <1>5, <2>3, <3>1, <3>2
  <2> QED BY <2>1, <2>2, <2>3
<1>12. WaitsAreOver'
  <2>1. /\ pc'[b] # "write"
        /\ pc'[b] = "wait" => claimed'[b] = {}
    BY <1>4, <1>6
  <2>2. ASSUME NEW q \in Batch \ {b}, pc'[q] = "write", NEW x \in waits'[q]
        PROVE  fetch'[x] = "ok"
    <3>1. fetch[x] = "ok" /\ x \in Batch
      BY <1>5, <2>2 DEF WaitsAreOver
    <3> QED BY <1>2, <1>5, <3>1
  <2>3. ASSUME NEW q \in Batch \ {b}, pc'[q] \in {"wait", "write"}
        PROVE  claimed'[q] = {} \/ fetch'[q] = "ok"
    BY <1>5, <2>3 DEF WaitsAreOver
  <2> QED BY <2>1, <2>2, <2>3 DEF WaitsAreOver
<1>13. UsageIsOwn'
  <2>1. b \notin billed
    BY <1>2 DEF UsageIsOwn
  <2>2. usage[b] = {}
    BY <2>1 DEF UsageIsOwn
  <2> QED BY <1>2, <1>3, <1>4, <1>5, <2>1, <2>2 DEF UsageIsOwn
<1> QED BY <1>7, <1>8, <1>9, <1>10, <1>11, <1>12, <1>13

(* A fetch ends once: what was over stays over. *)
LEMMA ProviderPreserves ==
  ASSUME IInv, NEW q \in Batch, FetchEnds(q)
  PROVE  IInv'
<1> USE DEF IInv, TypeOK, FetchEnds
<1>1. /\ fetch[q] = "pending"
      /\ fetch' \in [Batch -> {"none", "pending", "ok", "error"}]
      /\ fetch'[q] \in {"ok", "error"}
      /\ \A b \in Batch \ {q} : fetch'[b] = fetch[b]
      /\ UNCHANGED <<kind, pc, missing, claimed, waits, inflight, unwritten, usage>>
      /\ billed' = billed \/ (fetch'[q] = "ok" /\ billed' = billed \cup {q})
  BY DEF ProviderReturns, PeerFills, ProviderFails
<1>2. store' \subseteq Key
  BY DEF ProviderReturns, PeerFills, ProviderFails, Stored
<1>3. TypeOK'
  BY <1>1, <1>2
<1>4. Fresh' /\ ClaimsAreMapped' /\ EntriesAreClaimed' /\ MissesAreCovered'
  BY <1>1 DEF Fresh, ClaimsAreMapped, EntriesAreClaimed, MissesAreCovered
<1>5. \A b \in Batch : fetch[b] = "ok" => fetch'[b] = "ok"
  BY <1>1
<1>6. WaitsAreOver'
  BY <1>1, <1>5 DEF WaitsAreOver
<1>7. UsageIsOwn'
  <2>1. \A x \in billed' : fetch'[x] = "ok"
    BY <1>1, <1>5 DEF UsageIsOwn
  <2>2. billed \subseteq billed' /\ billed' \ {q} = billed \ {q}
    BY <1>1
  <2>3. pc[q] \notin {"wait", "write", "answered"}
    BY <1>1 DEF UsageIsOwn
  <2> QED BY <1>1, <2>1, <2>2, <2>3 DEF UsageIsOwn
<1> QED BY <1>3, <1>4, <1>6, <1>7

(* Leaving the map touches no key of another claim that is still open. *)
LEMMA OwnPreserves ==
  ASSUME IInv, NEW b \in Batch, OwnFetched(b) \/ OwnFailed(b)
  PROVE  IInv'
<1> USE DEF IInv, TypeOK
<1>1. CASE OwnFetched(b)
  <2>1. /\ pc[b] = "own" /\ fetch[b] = "ok"
        /\ pc' = [pc EXCEPT ![b] = "wait"]
        /\ inflight' = [k \in Key |-> IF k \in claimed[b] THEN None ELSE inflight[k]]
        /\ usage' = [usage EXCEPT ![b] = billed \cap {b}]
        /\ UNCHANGED <<kind, missing, claimed, waits, fetch, unwritten, store, billed>>
    BY <1>1 DEF OwnFetched
  <2>2. TypeOK'
    BY <2>1
  <2>3. ClaimsAreMapped'
    <3> SUFFICES ASSUME NEW q \in Batch, pc'[q] = "own" \/ fetch[q] = "pending",
                        NEW k \in claimed[q]
                 PROVE  inflight'[k] = q
      BY <2>1 DEF ClaimsAreMapped
    <3>1. q # b /\ (pc[q] = "own" \/ fetch[q] = "pending")
      BY <2>1
    <3>2. inflight[k] = q /\ k \in Key
      BY <3>1 DEF ClaimsAreMapped
    <3>3. k \notin claimed[b]
      BY <2>1, <3>1, <3>2 DEF ClaimsAreMapped
    <3> QED BY <2>1, <3>2, <3>3
  <2>4. EntriesAreClaimed'
    BY <2>1 DEF EntriesAreClaimed
  <2>5. Fresh' /\ MissesAreCovered' /\ WaitsAreOver'
    BY <2>1 DEF Fresh, MissesAreCovered, WaitsAreOver
  <2>6. UsageIsOwn'
    BY <2>1 DEF UsageIsOwn
  <2> QED BY <2>2, <2>3, <2>4, <2>5, <2>6
<1>2. CASE OwnFailed(b)
  BY <1>2 DEF OwnFailed, Fresh, ClaimsAreMapped, EntriesAreClaimed,
              MissesAreCovered, WaitsAreOver, UsageIsOwn
<1> QED BY <1>1, <1>2

LEMMA WaitPreserves ==
  ASSUME IInv, NEW b \in Batch, AllFetched(b) \/ WaitFailed(b)
  PROVE  IInv'
<1> USE DEF IInv, TypeOK
<1>1. CASE AllFetched(b)
  BY <1>1 DEF AllFetched, Fresh, ClaimsAreMapped, EntriesAreClaimed,
              MissesAreCovered, WaitsAreOver, UsageIsOwn
<1>2. CASE WaitFailed(b)
  BY <1>2 DEF WaitFailed, Fresh, ClaimsAreMapped, EntriesAreClaimed,
              MissesAreCovered, WaitsAreOver, UsageIsOwn
<1> QED BY <1>1, <1>2

LEMMA WritePreserves ==
  ASSUME IInv, NEW b \in Batch, WriteKey(b) \/ WriteFails(b) \/ Disconnect(b)
  PROVE  IInv'
<1> USE DEF IInv, TypeOK
<1>1. CASE WriteKey(b)
  <2>1. /\ pc[b] = "write"
        /\ pc'[b] \in {"write", "answered"}
        /\ pc' \in [Batch -> {"new", "missed", "own", "wait", "write",
                              "answered", "failed", "gone"}]
        /\ \A q \in Batch \ {b} : pc'[q] = pc[q] /\ unwritten'[q] = unwritten[q]
        /\ unwritten'[b] \subseteq unwritten[b]
        /\ unwritten' \in [Batch -> SUBSET Key]
        /\ store' \subseteq Key
        /\ UNCHANGED <<kind, missing, claimed, waits, fetch, inflight, bill>>
    BY <1>1 DEF WriteKey
  <2>2. TypeOK'
    BY <2>1
  <2>3. Fresh' /\ ClaimsAreMapped' /\ EntriesAreClaimed'
    BY <2>1 DEF Fresh, ClaimsAreMapped, EntriesAreClaimed
  <2>4. MissesAreCovered' /\ WaitsAreOver'
    BY <2>1 DEF MissesAreCovered, WaitsAreOver
  <2>5. UsageIsOwn'
    BY <2>1 DEF UsageIsOwn
  <2> QED BY <2>2, <2>3, <2>4, <2>5
<1>2. CASE WriteFails(b) \/ Disconnect(b)
  BY <1>2 DEF WriteFails, Disconnect, Fresh, ClaimsAreMapped, EntriesAreClaimed,
              MissesAreCovered, WaitsAreOver, UsageIsOwn
<1> QED BY <1>1, <1>2

LEMMA StepIInv == IInv /\ [Next]_vars => IInv'
<1> SUFFICES ASSUME IInv, [Next]_vars PROVE IInv'
  OBVIOUS
<1>1. ASSUME NEW b \in Batch,
             BatchStep(b) \/ FetchEnds(b) \/ Disconnect(b)
      PROVE  IInv'
  BY <1>1, LookupPreserves, ClaimPreserves, ProviderPreserves, OwnPreserves,
     WaitPreserves, WritePreserves DEF BatchStep
<1>2. CASE Evict
  BY <1>2 DEF Evict, IInv, TypeOK, Fresh, ClaimsAreMapped, EntriesAreClaimed,
              MissesAreCovered, WaitsAreOver, UsageIsOwn
<1>3. CASE UNCHANGED vars
  BY <1>3 DEF IInv, TypeOK, Fresh, ClaimsAreMapped, EntriesAreClaimed,
              MissesAreCovered, WaitsAreOver, UsageIsOwn
<1> QED BY <1>1, <1>2, <1>3 DEF Next

LEMMA Invariant == Spec => []IInv
<1> QED BY InitIInv, StepIInv, PTL DEF Spec

-----------------------------------------------------------------------------
(***************************************************************************)
(* The state of every batch is typed and coherent.                         *)
(***************************************************************************)
THEOREM TypeCorrect == Spec => []TypeOK
<1>1. IInv => TypeOK
  BY DEF IInv
<1> QED BY <1>1, Invariant, PTL

(***************************************************************************)
(* However batches overlap, fail or lose their clients, one key is never   *)
(* fetched twice at a time: two open claims that share a key would both    *)
(* have to be the map's entry for it.                                      *)
(***************************************************************************)
THEOREM FetchesAreDisjoint == Spec => []OneFetchPerKey
<1>1. IInv => OneFetchPerKey
  BY DEF IInv, TypeOK, ClaimsAreMapped, OneFetchPerKey
<1> QED BY <1>1, Invariant, PTL

(***************************************************************************)
(* When a batch starts its write-back, every key it missed is in a fetch   *)
(* that it awaited and that succeeded.                                     *)
(***************************************************************************)
THEOREM WriteBackIsComplete == Spec => []EveryKeyIsFetched
<1>1. IInv => EveryKeyIsFetched
  <2> SUFFICES ASSUME IInv, NEW b \in Batch, pc[b] = "write", NEW k \in missing[b]
               PROVE  \E q \in waits[b] \cup {b} : fetch[q] = "ok" /\ k \in claimed[q]
    BY DEF EveryKeyIsFetched
  <2>1. PICK q \in waits[b] \cup {b} : k \in claimed[q]
    BY DEF IInv, MissesAreCovered
  <2>2. fetch[q] = "ok"
    BY <2>1 DEF IInv, WaitsAreOver
  <2> QED BY <2>1, <2>2
<1> QED BY <1>1, Invariant, PTL

(***************************************************************************)
(* What a fetch cost is reported by the batch that claimed it and by no    *)
(* other, whoever waits for it, fails or leaves.                           *)
(***************************************************************************)
THEOREM UsageIsAttributedOnce == Spec => []BilledOnce
<1>1. IInv => BilledOnce
  <2> SUFFICES ASSUME IInv, NEW q \in Batch
               PROVE  Reporters(q) =
                        IF q \in billed /\ pc[q] = "answered" THEN {q} ELSE {}
    BY DEF BilledOnce
  <2>1. \A b \in Batch : q \in usage[b] => b = q /\ q \in billed
    BY DEF IInv, UsageIsOwn
  <2>2. q \in billed /\ pc[q] = "answered" => q \in usage[q]
    BY DEF IInv, UsageIsOwn
  <2> QED BY <2>1, <2>2 DEF Reporters
<1> QED BY <1>1, Invariant, PTL
=============================================================================
