--------------------------- MODULE CompletionProofs ---------------------------
(***************************************************************************)
(* Theorems about Coalesce, for every set of replicas and runs, and then   *)
(* about Completion, for every set of requests.                            *)
(***************************************************************************)
EXTENDS Completion, TLAPS

USE DEF coordVars, runVars, vars, Goto, Become, FollowerStates

-----------------------------------------------------------------------------
(***************************************************************************)
(* Type correctness.                                                       *)
(***************************************************************************)
LEMMA InitTyped == Init => TypeOK
BY DEF Init, CoordInit, TypeOK, CoordTypeOK

(* A run's own steps keep every variable in its type. *)
LEMMA RunStepTyped ==
  ASSUME TypeOK, NEW r \in Run, RunStep(r)
  PROVE  TypeOK'
<1> USE DEF TypeOK, CoordTypeOK, AfterFetch, EnterFollow, LeaveFollow
<1>1. CASE Lead(r)
  BY <1>1 DEF Lead, Elected, ElectedBlind
<1>2. CASE BecomeFollower(r)
  BY <1>2 DEF BecomeFollower, Refused
<1>3. CASE ReadHit(r)
  BY <1>3 DEF ReadHit
<1>4. CASE ReadMiss(r)
  BY <1>4 DEF ReadMiss
<1>5. CASE Wait(r) \/ Signalled(r) \/ WaitElapsed(r)
  BY <1>5 DEF Wait, Signalled, WaitElapsed
<1>6. CASE Promote(r) \/ FallBack(r)
  BY <1>6 DEF Promote, FallBack, Elected, ElectedBlind, Refused
<1>7. CASE StreamOpens(r) \/ UpstreamOk(r)
  BY <1>7 DEF StreamOpens, UpstreamOk
<1>8. CASE UpstreamFails(r)
  BY <1>8 DEF UpstreamFails
<1>9. CASE Put(r) \/ PutFails(r) \/ Settle(r)
  BY <1>9 DEF Put, PutFails, Settle
<1>10. CASE Release(r)
  BY <1>10 DEF Release, ReleaseLock
<1>11. CASE Announce(r) \/ CompleteFails(r)
  BY <1>11 DEF Announce, CompleteFails, PublishDone
<1> QED BY <1>1, <1>2, <1>3, <1>4, <1>5, <1>6, <1>7, <1>8, <1>9, <1>10, <1>11
        DEF RunStep

(* So do the steps of its environment. *)
LEMMA EnvironmentTyped ==
  ASSUME TypeOK,
         \/ \E r \in Run :
              Begin(r) \/ WriteBack(r) \/ PassDeadline(r) \/ Abandon(r)
         \/ CoordStep
         \/ Evict
         \/ \E p \in Replica : Crash(p)
  PROVE  TypeOK'
<1> USE DEF TypeOK, CoordTypeOK
<1>1. ASSUME NEW r \in Run, Begin(r) \/ WriteBack(r) \/ PassDeadline(r) \/ Abandon(r)
      PROVE  TypeOK'
  BY <1>1 DEF Begin, WriteBack, PassDeadline, Abandon
<1>2. CASE CoordStep
  <2>1. CASE LockExpires
    BY <1>2, <2>1 DEF CoordStep, LockExpires
  <2>2. ASSUME NEW p \in Replica, ReadDone(p) \/ LoseDone(p)
        PROVE  TypeOK'
    <3>1. inbox[p] \in Nat /\ inbox[p] > 0
      BY <2>2 DEF ReadDone, LoseDone
    <3>2. inbox[p] - 1 \in Nat
      BY <3>1
    <3> QED BY <1>2, <2>2, <3>2 DEF CoordStep, ReadDone, LoseDone
  <2> QED BY <1>2, <2>1, <2>2 DEF CoordStep
<1>3. CASE Evict
  BY <1>3 DEF Evict
<1>4. ASSUME NEW p \in Replica, Crash(p)
      PROVE  TypeOK'
  BY <1>4 DEF Crash
<1> QED BY <1>1, <1>2, <1>3, <1>4

(* The type invariant is inductive. *)
LEMMA StepTyped == TypeOK /\ [Next]_vars => TypeOK'
<1> SUFFICES ASSUME TypeOK, [Next]_vars PROVE TypeOK'
  OBVIOUS
<1>1. CASE UNCHANGED vars
  BY <1>1 DEF TypeOK, CoordTypeOK
<1>2. CASE Next
  BY <1>2, RunStepTyped, EnvironmentTyped DEF Next
<1> QED BY <1>1, <1>2

(* A run's step is its own: other runs stay where they are, a run that has *)
(* not begun or is over takes none, and none begins, files or kills a run. *)
LEMMA RunStepIsLocal ==
  ASSUME TypeOK, NEW r \in Run, RunStep(r)
  PROVE  /\ \A q \in Run \ {r} :
              pc'[q] = pc[q] /\ role'[q] = role[q] /\ outcome'[q] = outcome[q]
         /\ pc[r] \notin {"idle", "done", "filed", "dead"}
         /\ pc'[r] \notin {"idle", "elect", "filed", "dead"}
         /\ pc'[r] = "settle" => r \in Streaming
<1> USE DEF TypeOK
<1>1. CASE Lead(r) \/ BecomeFollower(r) \/ Promote(r) \/ FallBack(r)
  BY <1>1 DEF Lead, BecomeFollower, Promote, FallBack
<1>2. CASE ReadMiss(r) \/ Wait(r) \/ Signalled(r) \/ WaitElapsed(r)
  BY <1>2 DEF ReadMiss, Wait, Signalled, WaitElapsed
<1>3. CASE StreamOpens(r) \/ UpstreamOk(r)
  BY <1>3 DEF StreamOpens, UpstreamOk
<1>4. CASE ReadHit(r) \/ UpstreamFails(r) \/ Put(r) \/ PutFails(r)
  <2>1. /\ AfterFetch(r) \in {"settle", "release", "done"}
        /\ AfterFetch(r) = "settle" => r \in Streaming
    BY DEF AfterFetch
  <2> QED BY <1>4, <2>1 DEF ReadHit, UpstreamFails, Put, PutFails
<1>5. CASE Settle(r) \/ Release(r) \/ Announce(r) \/ CompleteFails(r)
  BY <1>5 DEF Settle, Release, Announce, CompleteFails
<1> QED BY <1>1, <1>2, <1>3, <1>4, <1>5 DEF RunStep

(***************************************************************************)
(* Every reachable state is typed, whatever the faults.                    *)
(***************************************************************************)
THEOREM TypeCorrect == Spec => []TypeOK
<1>1. Init => TypeOK
  BY InitTyped
<1>2. TypeOK /\ [Next]_vars => TypeOK'
  BY StepTyped
<1> QED BY <1>1, <1>2, PTL DEF Spec

-----------------------------------------------------------------------------
(***************************************************************************)
(* The lock of a live run is deleted by that run only.  What it rests on:  *)
(* the in-flight maps admit one run per replica, so that two runs with the *)
(* same lock value never work together.  It holds of replicas whose runs   *)
(* are all plain; a streaming claimer leaves the map before it completes.  *)
(***************************************************************************)
OneInFlight ==
  \A q, r \in Run : Home[q] = Home[r] /\ InFlight(q) /\ InFlight(r) => q = r

LEMMA InitOneInFlight == Init => OneInFlight
BY DEF Init, OneInFlight, InFlight, Working

(* Only Begin puts a run in flight. *)
LEMMA OnlyBeginPutsInFlight ==
  ASSUME TypeOK, Next, NEW r \in Run, InFlight(r)', ~InFlight(r)
  PROVE  Begin(r)
<1> USE DEF TypeOK, CoordTypeOK, InFlight, Working
<1>1. ASSUME NEW q \in Run, RunStep(q)
      PROVE  FALSE
  <2>1. CASE q # r
    <3>1. pc'[r] = pc[r]
      BY <1>1, <2>1, RunStepIsLocal
    <3> QED BY <3>1
  <2>2. CASE q = r
    <3>1. Working(r) /\ (r \in Streaming /\ pc[r] \in {"release", "announce"})
      BY <1>1, <2>2 DEF RunStep, Lead, BecomeFollower, ReadHit, ReadMiss, Wait,
         Signalled, WaitElapsed, Promote, FallBack, StreamOpens, UpstreamOk,
         UpstreamFails, Put, PutFails, Settle, Release, Announce, CompleteFails
    <3>2. pc'[r] \in {"announce", "done"}
      BY <1>1, <2>2, <3>1 DEF RunStep, Lead, BecomeFollower, ReadHit, ReadMiss, Wait,
         Signalled, WaitElapsed, Promote, FallBack, StreamOpens, UpstreamOk,
         UpstreamFails, Put, PutFails, Settle, Release, Announce, CompleteFails
    <3> QED BY <3>1, <3>2
  <2> QED BY <2>1, <2>2
<1>2. ASSUME NEW q \in Run, WriteBack(q) \/ PassDeadline(q) \/ Abandon(q)
      PROVE  FALSE
  BY <1>2 DEF WriteBack, PassDeadline, Abandon, BeforeTee
<1>3. ASSUME NEW q \in Run, Begin(q)
      PROVE  q = r
  BY <1>3 DEF Begin
<1>4. CASE CoordStep \/ Evict
  BY <1>4 DEF CoordStep, Evict
<1>5. ASSUME NEW p \in Replica, Crash(p)
      PROVE  FALSE
  BY <1>5 DEF Crash
<1> QED BY <1>1, <1>2, <1>3, <1>4, <1>5 DEF Next

LEMMA StepOneInFlight ==
  TypeOK /\ OneInFlight /\ [Next]_vars => OneInFlight'
<1> SUFFICES ASSUME TypeOK, OneInFlight, [Next]_vars,
                    NEW q \in Run, NEW r \in Run,
                    Home[q] = Home[r], InFlight(q)', InFlight(r)', q # r
             PROVE  FALSE
  BY DEF OneInFlight
<1>1. CASE UNCHANGED vars
  BY <1>1 DEF OneInFlight, InFlight, Working
<1>2. CASE Next
  <2>1. ASSUME NEW x \in Run, NEW y \in Run, x # y, Home[x] = Home[y],
               Begin(x), InFlight(y)'
        PROVE  FALSE
    <3>1. pc'[y] = pc[y]
      BY <2>1 DEF Begin, TypeOK
    <3>2. InFlight(y)
      BY <2>1, <3>1 DEF InFlight, Working
    <3> QED BY <2>1, <3>2 DEF Begin
  <2>2. CASE InFlight(q) /\ InFlight(r)
    BY <2>2 DEF OneInFlight
  <2>3. CASE ~InFlight(q)
    BY <1>2, <2>1, <2>3, OnlyBeginPutsInFlight
  <2>4. CASE ~InFlight(r)
    BY <1>2, <2>1, <2>4, OnlyBeginPutsInFlight
  <2> QED BY <2>2, <2>3, <2>4
<1> QED BY <1>1, <1>2

(***************************************************************************)
(* With plain runs only, complete never deletes the lock of another run    *)
(* that still works, whatever expires, fails, crashes or is lost.          *)
(***************************************************************************)
THEOREM PlainReleaseSparesOthers ==
  ASSUME Streaming = {}
  PROVE  Spec => ReleaseSparesOthers
<1>1. Init => TypeOK /\ OneInFlight
  BY InitTyped, InitOneInFlight
<1>2. TypeOK /\ OneInFlight /\ [Next]_vars => (TypeOK /\ OneInFlight)'
  BY StepTyped, StepOneInFlight
<1>3. TypeOK /\ OneInFlight /\ [Next]_vars =>
        [\A r \in Run : Release(r) /\ lock # None /\ lock # r /\ Working(lock)
                          => lock' = lock]_vars
  <2> SUFFICES ASSUME TypeOK, OneInFlight, NEW r \in Run,
                      Release(r), lock # None, lock # r, Working(lock)
               PROVE  lock' = lock
    OBVIOUS
  <2>1. lock \in Run
    BY DEF TypeOK, CoordTypeOK
  <2>2. InFlight(lock) /\ InFlight(r)
    BY <2>1 DEF InFlight, Working, Release
  <2>3. Home[lock] # Home[r]
    BY <2>1, <2>2 DEF OneInFlight
  <2> QED BY <2>3 DEF Release, ReleaseLock, LockValue
<1> QED BY <1>1, <1>2, <1>3, PTL DEF Spec, ReleaseSparesOthers

-----------------------------------------------------------------------------
(***************************************************************************)
(* One leader.  While locks do not expire and Redis answers, a leader holds *)
(* the lock from its election to its release: only a run of its own replica *)
(* could delete it, a plain run deletes only what it leads, and a streaming *)
(* run that has its replica to itself deletes only its own.                 *)
(***************************************************************************)
AloneAtHome == \A s \in Streaming : \A q \in Run : Home[q] = Home[s] => q = s

LeaderHoldsLock == \A r \in Run : Leading(r) => lock = r

RolesFit ==
  \A r \in Run :
    /\ pc[r] \in FollowerStates \cup {"idle", "elect", "promote"} => ~Leads(r)
    /\ pc[r] = "release" /\ r \notin Streaming => Leads(r)
    /\ pc[r] = "settle" => r \in Streaming

HoldInv == TypeOK /\ LeaderHoldsLock /\ RolesFit

LEMMA InitHold == Init => HoldInv
BY InitTyped
DEF Init, CoordInit, HoldInv, LeaderHoldsLock, RolesFit, Leading, Leads

(* An election: the lock was free, so nobody else led. *)
LEMMA ElectionHolds ==
  ASSUME HoldInv, NEW r \in Run, "redis" \notin Faults,
         Lead(r) \/ Promote(r)
  PROVE  LeaderHoldsLock' /\ RolesFit'
<1>1. lock = None /\ lock' = r
  BY DEF Lead, Promote, Elected, ElectedBlind
<1>2. \A q \in Run : ~Leading(q)
  BY <1>1, NoneAssumption DEF HoldInv, LeaderHoldsLock
<1>3. \A q \in Run \ {r} : pc'[q] = pc[q] /\ role'[q] = role[q]
  BY DEF Lead, Promote, HoldInv, TypeOK
<1>4. LeaderHoldsLock'
  BY <1>1, <1>2, <1>3 DEF LeaderHoldsLock, Leading, Leads
<1>5. pc'[r] = "fetch"
  BY DEF Lead, Promote, HoldInv, TypeOK
<1> QED BY <1>3, <1>4, <1>5 DEF HoldInv, RolesFit, Leads

(* A release: the lock deleted is the releasing run's own, or nobody's. *)
LEMMA ReleaseHolds ==
  ASSUME HoldInv, AloneAtHome, NEW r \in Run, Release(r)
  PROVE  LeaderHoldsLock' /\ RolesFit'
<1>1. pc'[r] = "announce" /\ \A q \in Run \ {r} : pc'[q] = pc[q]
  BY DEF Release, HoldInv, TypeOK
<1>2. role' = role
  BY DEF Release
<1>3. ASSUME NEW q \in Run, Leading(q), q # r
      PROVE  lock' = lock
  <2>1. lock = q
    BY <1>3 DEF HoldInv, LeaderHoldsLock
  <2>2. r \in Streaming
    BY <1>3, <2>1 DEF HoldInv, LeaderHoldsLock, RolesFit, Leading, Release
  <2>3. Home[q] # Home[r]
    BY <1>3, <2>2 DEF AloneAtHome
  <2> QED BY <2>1, <2>3 DEF Release, ReleaseLock, LockValue
<1>4. LeaderHoldsLock'
  BY <1>1, <1>2, <1>3 DEF HoldInv, LeaderHoldsLock, Leading, Leads
<1> QED BY <1>1, <1>2, <1>4 DEF HoldInv, RolesFit, Leads

(* Every other step of a run leaves the lock where it is. *)
LEMMA OtherRunStepHolds ==
  ASSUME HoldInv, NEW r \in Run, RunStep(r),
         ~Lead(r), ~Promote(r), ~Release(r)
  PROVE  LeaderHoldsLock' /\ RolesFit'
<1>1. lock' = lock /\ \A q \in Run \ {r} : pc'[q] = pc[q] /\ role'[q] = role[q]
  BY DEF HoldInv, TypeOK, RunStep, BecomeFollower, Refused, ReadHit, ReadMiss, Wait,
     Signalled, WaitElapsed, FallBack, StreamOpens, UpstreamOk,
     UpstreamFails, Put, PutFails, Settle, Announce, CompleteFails
<1>2. Leading(r)' => Leading(r)
  BY DEF Leading, Leads, AfterFetch, RolesFit,
     HoldInv, TypeOK, RunStep, BecomeFollower, Refused, ReadHit, ReadMiss, Wait,
     Signalled, WaitElapsed, FallBack, StreamOpens, UpstreamOk,
     UpstreamFails, Put, PutFails, Settle, Announce, CompleteFails
<1>3. /\ pc'[r] \in FollowerStates \cup {"idle", "elect", "promote"} => ~Leads(r)'
      /\ pc'[r] = "release" /\ r \notin Streaming => Leads(r)'
      /\ pc'[r] = "settle" => r \in Streaming
  <2> USE DEF HoldInv, TypeOK, RolesFit, Leads
  <2>1. CASE BecomeFollower(r) \/ FallBack(r)
    BY <2>1 DEF BecomeFollower, FallBack
  <2>2. CASE ReadMiss(r) \/ Wait(r) \/ Signalled(r) \/ WaitElapsed(r)
    BY <2>2 DEF ReadMiss, Wait, Signalled, WaitElapsed
  <2>3. CASE StreamOpens(r) \/ UpstreamOk(r) \/ Settle(r)
    BY <2>3 DEF StreamOpens, UpstreamOk, Settle
  <2>4. CASE ReadHit(r) \/ UpstreamFails(r) \/ Put(r) \/ PutFails(r)
    <3>1. pc'[r] = AfterFetch(r) /\ role' = role
      BY <2>4 DEF ReadHit, UpstreamFails, Put, PutFails
    <3>2. AfterFetch(r) \in {"settle", "release", "done"}
      BY DEF AfterFetch
    <3>3. /\ AfterFetch(r) = "release" => Leads(r)
          /\ AfterFetch(r) = "settle" => r \in Streaming
      BY DEF AfterFetch
    <3> QED BY <3>1, <3>2, <3>3
  <2>5. CASE Announce(r) \/ CompleteFails(r)
    BY <2>5 DEF Announce, CompleteFails
  <2> QED BY <2>1, <2>2, <2>3, <2>4, <2>5 DEF RunStep
<1> QED BY <1>1, <1>2, <1>3
        DEF HoldInv, LeaderHoldsLock, RolesFit, Leading, Leads

LEMMA EnvironmentHolds ==
  ASSUME HoldInv, "ttl" \notin Faults,
         \/ \E r \in Run :
              Begin(r) \/ WriteBack(r) \/ PassDeadline(r) \/ Abandon(r)
         \/ CoordStep
         \/ Evict
         \/ \E p \in Replica : Crash(p)
  PROVE  LeaderHoldsLock' /\ RolesFit'
<1>1. lock' = lock /\ role' = role
  BY DEF Begin, WriteBack, PassDeadline, Abandon, CoordStep, LockExpires,
     ReadDone, LoseDone, Evict, Crash
<1>2. \A q \in Run : \/ pc'[q] = pc[q] \/ pc'[q] \in {"filed", "dead"}
                     \/ pc[q] = "idle" /\ pc'[q] = "elect"
  BY DEF HoldInv, TypeOK, Begin, WriteBack, PassDeadline, Abandon, CoordStep,
     Evict, Crash
<1> QED BY <1>1, <1>2
        DEF HoldInv, LeaderHoldsLock, RolesFit, Leading, Leads

LEMMA StepHold ==
  ASSUME AloneAtHome, Faults \cap {"ttl", "redis"} = {}
  PROVE  HoldInv /\ [Next]_vars => HoldInv'
<1> SUFFICES ASSUME HoldInv, [Next]_vars
             PROVE  LeaderHoldsLock' /\ RolesFit'
  BY StepTyped DEF HoldInv
<1>1. CASE UNCHANGED vars
  BY <1>1 DEF HoldInv, LeaderHoldsLock, RolesFit, Leading, Leads
<1>2. CASE \E r \in Run : RunStep(r)
  BY <1>2, ElectionHolds, ReleaseHolds, OtherRunStepHolds
<1>3. CASE Next /\ ~ \E r \in Run : RunStep(r)
  BY <1>3, EnvironmentHolds DEF Next
<1> QED BY <1>1, <1>2, <1>3

(***************************************************************************)
(* Two runs never lead at once, as long as no lock expires and no Redis    *)
(* command fails: crashes, lost messages, passing deadlines and failing    *)
(* stores and upstreams do not break it.                                   *)
(***************************************************************************)
THEOREM LeaderIsUnique ==
  ASSUME AloneAtHome, Faults \cap {"ttl", "redis"} = {}
  PROVE  Spec => []OneLeader
<1>1. Init => HoldInv
  BY InitHold
<1>2. HoldInv /\ [Next]_vars => HoldInv'
  BY StepHold
<1>3. HoldInv => OneLeader
  BY DEF HoldInv, LeaderHoldsLock, OneLeader
<1> QED BY <1>1, <1>2, <1>3, PTL DEF Spec

-----------------------------------------------------------------------------
(***************************************************************************)
(* Why a follower goes upstream.  With a store that answers and keeps what *)
(* it holds, a done message tells of a readable entry or of a failed call; *)
(* so does a wake-up, whoever's message caused it; and both outlast the    *)
(* message.                                                                *)
(***************************************************************************)
Unanswered ==
  \A r \in Run :
    pc[r] \in {"idle", "elect", "promote", "fetch", "tee"} \cup FollowerStates
      => outcome[r] = None

Settled == store # None \/ \E q \in Run : outcome[q] = Bad

CompletionHasCause ==
  \A r \in Run :
    pc[r] \in {"settle", "release", "announce"} => store # None \/ outcome[r] = Bad

SignalHasCause ==
  \/ \E p \in Replica : inbox[p] > 0
  \/ \E r \in Run : follow[r] = "woken" \/ pc[r] = "reread"
  => Settled

PromotionHasCause ==
  \A r \in Run :
    pc[r] = "promote" \/ role[r] \in {"promoted", "fallback"} =>
      r \in late \/ \E q \in Run \ {r} : outcome[q] = Bad

PromotionInv ==
  /\ TypeOK
  /\ Unanswered
  /\ CompletionHasCause
  /\ SignalHasCause
  /\ PromotionHasCause

LEMMA InitPromotion == Init => PromotionInv
BY InitTyped
DEF Init, CoordInit, PromotionInv, Unanswered, CompletionHasCause, SignalHasCause,
    PromotionHasCause

(* A run answers once. *)
LEMMA RunStepAnswersOnce ==
  ASSUME TypeOK, Unanswered, NEW r \in Run, RunStep(r)
  PROVE  /\ Unanswered'
         /\ \A q \in Run : outcome[q] # None => outcome'[q] = outcome[q]
<1> USE DEF TypeOK, Unanswered, AfterFetch
<1>1. CASE Lead(r) \/ BecomeFollower(r) \/ Promote(r) \/ FallBack(r)
  BY <1>1 DEF Lead, BecomeFollower, Promote, FallBack
<1>2. CASE ReadHit(r)
  BY <1>2 DEF ReadHit
<1>3. CASE ReadMiss(r) \/ Wait(r) \/ Signalled(r) \/ WaitElapsed(r)
  BY <1>3 DEF ReadMiss, Wait, Signalled, WaitElapsed
<1>4. CASE StreamOpens(r)
  BY <1>4 DEF StreamOpens
<1>5. CASE UpstreamOk(r)
  BY <1>5 DEF UpstreamOk
<1>6. CASE UpstreamFails(r)
  BY <1>6 DEF UpstreamFails
<1>7. CASE Put(r) \/ PutFails(r) \/ Settle(r)
  BY <1>7 DEF Put, PutFails, Settle
<1>8. CASE Release(r) \/ Announce(r) \/ CompleteFails(r)
  BY <1>8 DEF Release, Announce, CompleteFails
<1> QED BY <1>1, <1>2, <1>3, <1>4, <1>5, <1>6, <1>7, <1>8 DEF RunStep

LEMMA AnswersOnce ==
  ASSUME TypeOK, Unanswered, Next
  PROVE  /\ Unanswered'
         /\ \A q \in Run : outcome[q] # None => outcome'[q] = outcome[q]
<1>1. CASE \E r \in Run : RunStep(r)
  BY <1>1, RunStepAnswersOnce
<1>2. ASSUME NEW r \in Run, Begin(r) \/ WriteBack(r) \/ PassDeadline(r) \/ Abandon(r)
      PROVE  Unanswered' /\ outcome' = outcome
  BY <1>2 DEF TypeOK, Unanswered, Begin, WriteBack, PassDeadline, Abandon
<1>3. CASE CoordStep \/ Evict \/ \E p \in Replica : Crash(p)
  BY <1>3 DEF TypeOK, Unanswered, CoordStep, Evict, Crash
<1> QED BY <1>1, <1>2, <1>3 DEF Next

(* Without evictions, what a signal tells of outlasts it. *)
LEMMA StaysSettled ==
  ASSUME PromotionInv, Next, "evict" \notin Faults
  PROVE  /\ store # None => store' # None
         /\ Settled => Settled'
<1>1. store # None => store' # None
  <2>1. ASSUME NEW r \in Run, RunStep(r)
        PROVE  store' \in {store, r}
    BY <2>1 DEF RunStep, Lead, BecomeFollower, ReadHit, ReadMiss, Wait,
       Signalled, WaitElapsed, Promote, FallBack, StreamOpens, UpstreamOk,
       UpstreamFails, Put, PutFails, Settle, Release, Announce, CompleteFails
  <2>2. ASSUME NEW r \in Run, Begin(r) \/ WriteBack(r) \/ PassDeadline(r) \/ Abandon(r)
        PROVE  store' \in {store, r}
    BY <2>2 DEF Begin, WriteBack, PassDeadline, Abandon
  <2>3. CASE CoordStep \/ Evict \/ \E p \in Replica : Crash(p)
    BY <2>3 DEF CoordStep, Evict, Crash
  <2> QED BY <2>1, <2>2, <2>3, NoneAssumption DEF Next
<1>2. ASSUME NEW q \in Run, outcome[q] = Bad
      PROVE  outcome'[q] = Bad
  BY <1>2, AnswersOnce, BadAssumption DEF PromotionInv
<1> QED BY <1>1, <1>2 DEF Settled

LEMMA StepCompletionHasCause ==
  ASSUME PromotionInv, Next, Faults \cap {"store", "evict"} = {}
  PROVE  CompletionHasCause'
<1> USE DEF PromotionInv, TypeOK
<1>1. SUFFICES ASSUME NEW r \in Run, pc'[r] \in {"settle", "release", "announce"},
                      store' = None
               PROVE  outcome'[r] = Bad
  BY DEF CompletionHasCause
<1>2. store = None
  BY <1>1, StaysSettled
<1>3. CASE pc[r] \in {"settle", "release", "announce"}
  BY <1>2, <1>3, AnswersOnce, BadAssumption DEF CompletionHasCause
<1>4. CASE pc[r] \notin {"settle", "release", "announce"}
  <2>1. RunStep(r)
    <3>1. ASSUME NEW q \in Run, q # r, RunStep(q)
          PROVE  pc'[r] = pc[r]
      BY <3>1, RunStepIsLocal
    <3>2. ASSUME NEW q \in Run, Begin(q) \/ WriteBack(q) \/ PassDeadline(q) \/ Abandon(q)
          PROVE  pc'[r] \in {pc[r], "elect", "filed", "dead"}
      BY <3>2 DEF Begin, WriteBack, PassDeadline, Abandon
    <3>3. CASE CoordStep \/ Evict \/ \E p \in Replica : Crash(p)
      BY <1>1, <1>4, <3>3 DEF CoordStep, Evict, Crash
    <3> QED BY <1>1, <1>4, <3>1, <3>2, <3>3 DEF Next
  <2>2. UpstreamFails(r)
    BY <1>1, <1>2, <1>4, <2>1, NoneAssumption
    DEF RunStep, Lead, BecomeFollower, ReadHit, ReadMiss, Wait,
        Signalled, WaitElapsed, Promote, FallBack, StreamOpens, UpstreamOk,
        Put, PutFails, Settle, Release, Announce, CompleteFails
  <2> QED BY <2>2 DEF UpstreamFails
<1> QED BY <1>3, <1>4

(* Only a run that completes announces, and only a message wakes. *)
LEMMA StepSignalHasCause ==
  ASSUME PromotionInv, Next, Faults \cap {"store", "evict"} = {}
  PROVE  SignalHasCause'
<1> USE DEF PromotionInv, TypeOK, CoordTypeOK, SignalHasCause
<1> DEFINE Signal == \/ \E p \in Replica : inbox[p] > 0
                     \/ \E r \in Run : follow[r] = "woken" \/ pc[r] = "reread"
<1> SUFFICES Signal' => Settled \/ Settled'
  BY StaysSettled
<1>1. CASE Signal
  BY <1>1
<1>2. ASSUME NEW r \in Run, Announce(r)
      PROVE  Settled
  BY <1>2 DEF Announce, CompletionHasCause, Settled
<1>3. CASE ~Signal /\ ~ \E r \in Run : Announce(r)
  <2>1. ASSUME NEW r \in Run, RunStep(r)
        PROVE  ~Signal'
    <3>1. inbox' = inbox
      BY <1>3, <2>1 DEF RunStep, Lead, BecomeFollower, ReadHit, ReadMiss, Wait,
         Signalled, WaitElapsed, Promote, FallBack, StreamOpens, UpstreamOk,
         UpstreamFails, Put, PutFails, Settle, Release, CompleteFails
    <3>2. \A q \in Run : follow'[q] # "woken"
      BY <1>3, <2>1 DEF RunStep, Lead, BecomeFollower, ReadHit, ReadMiss, Wait,
         Signalled, WaitElapsed, Promote, FallBack, StreamOpens, UpstreamOk,
         UpstreamFails, Put, PutFails, Settle, Release, CompleteFails,
         EnterFollow, LeaveFollow
    <3>3. \A q \in Run : pc'[q] # "reread"
      BY <1>3, <2>1 DEF RunStep, Lead, BecomeFollower, ReadHit, ReadMiss, Wait,
         Signalled, WaitElapsed, Promote, FallBack, StreamOpens, UpstreamOk,
         UpstreamFails, Put, PutFails, Settle, Release, CompleteFails, AfterFetch
    <3> QED BY <1>3, <3>1, <3>2, <3>3
  <2>2. ASSUME NEW r \in Run, Begin(r) \/ WriteBack(r) \/ PassDeadline(r) \/ Abandon(r)
        PROVE  ~Signal'
    BY <1>3, <2>2 DEF Begin, WriteBack, PassDeadline, Abandon
  <2>3. CASE CoordStep
    <3>1. LockExpires /\ UNCHANGED pc
      BY <1>3, <2>3 DEF CoordStep, ReadDone, LoseDone
    <3> QED BY <1>3, <3>1 DEF LockExpires
  <2>4. CASE Evict
    BY <1>3, <2>4 DEF Evict
  <2>5. ASSUME NEW p \in Replica, Crash(p)
        PROVE  ~Signal'
    BY <1>3, <2>5 DEF Crash
  <2> QED BY <2>1, <2>2, <2>3, <2>4, <2>5 DEF Next
<1> QED BY <1>1, <1>2, <1>3

(* Only a read that found nothing, after a signal or past the deadline,    *)
(* promotes; and only a promoted run takes a role of that kind.            *)
LEMMA StepPromotionHasCause ==
  ASSUME PromotionInv, Next, Faults \cap {"store", "evict"} = {}
  PROVE  PromotionHasCause'
<1> USE DEF PromotionInv, TypeOK
<1> DEFINE Gone(r) == pc[r] = "promote" \/ role[r] \in {"promoted", "fallback"}
           Cause(r) == r \in late \/ \E q \in Run \ {r} : outcome[q] = Bad
<1>1. SUFFICES ASSUME NEW r \in Run, Gone(r)'
               PROVE  Cause(r)'
  BY DEF PromotionHasCause
<1>2. Cause(r) => Cause(r)'
  <2>1. late \subseteq late'
    BY DEF Next, RunStep, Lead, BecomeFollower, ReadHit, ReadMiss, Wait,
       Signalled, WaitElapsed, Promote, FallBack, StreamOpens, UpstreamOk,
       UpstreamFails, Put, PutFails, Settle, Release, Announce, CompleteFails,
       Begin, WriteBack, PassDeadline, Abandon, CoordStep, Evict, Crash
  <2>2. \A q \in Run : outcome[q] = Bad => outcome'[q] = Bad
    BY AnswersOnce, BadAssumption
  <2> QED BY <2>1, <2>2
<1>3. Gone(r) => Cause(r)
  BY DEF PromotionHasCause
<1>4. CASE ~Gone(r)
  <2>1. ReadMiss(r)
    <3>1. ASSUME NEW q \in Run, q # r, RunStep(q)
          PROVE  pc'[r] = pc[r] /\ role'[r] = role[r]
      BY <3>1, RunStepIsLocal
    <3>2. RunStep(r) => ReadMiss(r)
      BY <1>1, <1>4 DEF RunStep, Lead, BecomeFollower, ReadHit, Wait,
         Signalled, WaitElapsed, Promote, FallBack, StreamOpens, UpstreamOk,
         UpstreamFails, Put, PutFails, Settle, Release, Announce, CompleteFails,
         AfterFetch
    <3>3. ASSUME NEW q \in Run, Begin(q) \/ WriteBack(q) \/ PassDeadline(q) \/ Abandon(q)
          PROVE  pc'[r] \in {pc[r], "elect", "filed", "dead"} /\ role' = role
      BY <3>3 DEF Begin, WriteBack, PassDeadline, Abandon
    <3>4. CASE CoordStep \/ Evict \/ \E p \in Replica : Crash(p)
      BY <1>1, <1>4, <3>4 DEF CoordStep, Evict, Crash
    <3> QED BY <1>1, <1>4, <3>1, <3>2, <3>3, <3>4 DEF Next
  <2>2. store = None /\ pc'[r] = "promote" /\ outcome[r] = None
    BY <1>1, <1>4, <2>1 DEF ReadMiss, Unanswered
  <2>3. r \in late \/ pc[r] = "reread"
    BY <2>1, <2>2 DEF ReadMiss
  <2>4. CASE pc[r] = "reread"
    <3>1. PICK q \in Run : outcome[q] = Bad
      BY <2>2, <2>4 DEF SignalHasCause, Settled
    <3>2. q # r
      BY <2>2, <3>1, BadAssumption
    <3> QED BY <1>2, <3>1, <3>2
  <2> QED BY <1>2, <2>3, <2>4
<1> QED BY <1>2, <1>3, <1>4

(***************************************************************************)
(* A follower goes upstream only past its deadline or after some other     *)
(* run's call failed, as long as the store answers and keeps what it       *)
(* holds: whatever crashes, expires, is lost, arrives at the followers of  *)
(* a later leader, or fails in Redis.                                      *)
(***************************************************************************)
THEOREM PromotionHasReason ==
  ASSUME Faults \cap {"store", "evict"} = {}
  PROVE  Spec => []PromotionNeedsAFailure
<1>1. Init => PromotionInv
  BY InitPromotion
<1>2. PromotionInv /\ [Next]_vars => PromotionInv'
  <2> SUFFICES ASSUME PromotionInv, [Next]_vars PROVE PromotionInv'
    OBVIOUS
  <2>1. CASE UNCHANGED vars
    BY <2>1, StepTyped
    DEF PromotionInv, Unanswered, Settled, CompletionHasCause, SignalHasCause,
        PromotionHasCause
  <2>2. CASE Next
    BY <2>2, StepTyped, AnswersOnce, StepCompletionHasCause, StepSignalHasCause,
       StepPromotionHasCause DEF PromotionInv
  <2> QED BY <2>1, <2>2
<1>3. PromotionInv => PromotionNeedsAFailure
  BY DEF PromotionInv, PromotionHasCause, PromotionNeedsAFailure
<1> QED BY <1>1, <1>2, <1>3, PTL DEF Spec

-----------------------------------------------------------------------------
(***************************************************************************)
(* One flight.  Under the mapping of Coalesce every step is a step of      *)
(* SingleFlight or a stutter.  What it takes: the lock makes the caller    *)
(* unique (HoldInv), a run answers once (Unanswered), and roles say which  *)
(* calls are led and which are solo.                                       *)
(***************************************************************************)
CallersFit ==
  \A r \in Run :
    /\ pc[r] \in {"idle", "elect"} => role[r] = "none"
    /\ pc[r] \in FollowerStates \cup {"promote"} => role[r] = "follower"
    /\ pc[r] \in {"fetch", "tee", "put"} => role[r] \in {"leader", "promoted", "fallback"}
    /\ pc[r] = "put" => outcome[r] = r

FlightInv == HoldInv /\ Unanswered /\ CallersFit

LEMMA InitFlight == Init => FlightInv /\ Flight!Init
<1> SUFFICES ASSUME Init PROVE FlightInv /\ Flight!Init
  OBVIOUS
<1>1. FlightInv
  BY InitHold DEF Init, FlightInv, Unanswered, CallersFit
<1>2. \A r \in Run : ~Calling(r)
  BY DEF Init, Calling
<1>3. {r \in Run : role[r] = "fallback"} = {}
  BY DEF Init
<1> QED BY <1>1, <1>2, <1>3 DEF Flight!Init, Caller, Init

LEMMA RunStepCallersFit ==
  ASSUME TypeOK, CallersFit, NEW r \in Run, RunStep(r)
  PROVE  CallersFit'
<1> USE DEF TypeOK, CallersFit
<1>1. CASE Lead(r) \/ BecomeFollower(r) \/ Promote(r) \/ FallBack(r)
  BY <1>1 DEF Lead, BecomeFollower, Promote, FallBack
<1>2. CASE ReadMiss(r) \/ Wait(r) \/ Signalled(r) \/ WaitElapsed(r)
  BY <1>2 DEF ReadMiss, Wait, Signalled, WaitElapsed
<1>3. CASE StreamOpens(r) \/ UpstreamOk(r)
  BY <1>3 DEF StreamOpens, UpstreamOk
<1>4. CASE ReadHit(r) \/ UpstreamFails(r) \/ Put(r) \/ PutFails(r)
  <2>1. AfterFetch(r) \in {"settle", "release", "done"}
    BY DEF AfterFetch
  <2>2. /\ pc'[r] = AfterFetch(r) /\ role' = role
        /\ \A q \in Run \ {r} : pc'[q] = pc[q] /\ outcome'[q] = outcome[q]
    BY <1>4 DEF ReadHit, UpstreamFails, Put, PutFails
  <2> QED BY <2>1, <2>2
<1>5. CASE Settle(r) \/ Release(r) \/ Announce(r) \/ CompleteFails(r)
  BY <1>5 DEF Settle, Release, Announce, CompleteFails
<1> QED BY <1>1, <1>2, <1>3, <1>4, <1>5 DEF RunStep

LEMMA StepFlight ==
  ASSUME AloneAtHome, Faults \cap {"ttl", "redis"} = {}
  PROVE  FlightInv /\ [Next]_vars => FlightInv'
<1> SUFFICES ASSUME FlightInv, [Next]_vars PROVE FlightInv'
  OBVIOUS
<1>1. CASE UNCHANGED vars
  BY <1>1, StepHold DEF FlightInv, Unanswered, CallersFit
<1>2. CASE Next
  <2>1. HoldInv' /\ Unanswered'
    BY <1>2, StepHold, AnswersOnce DEF FlightInv, HoldInv
  <2>2. ASSUME NEW r \in Run, Begin(r) \/ WriteBack(r) \/ PassDeadline(r) \/ Abandon(r)
        PROVE  CallersFit'
    BY <2>2 DEF FlightInv, HoldInv, TypeOK, CallersFit, Begin, WriteBack, PassDeadline,
       Abandon
  <2>3. ASSUME CoordStep \/ Evict \/ \E p \in Replica : Crash(p)
        PROVE  CallersFit'
    BY <2>3 DEF FlightInv, HoldInv, TypeOK, CallersFit, CoordStep, Evict, Crash
  <2> QED BY <1>2, <2>1, <2>2, <2>3, RunStepCallersFit DEF Next, FlightInv, HoldInv
<1> QED BY <1>1, <1>2

(* The caller is the run that calls, if one does. *)
CallerFits ==
  /\ \A r \in Run : Calling(r) => Caller = r
  /\ (\A r \in Run : ~Calling(r)) => Caller = None

LEMMA CallerIs == HoldInv => CallerFits
<1> SUFFICES ASSUME HoldInv, NEW r \in Run, Calling(r)
             PROVE  Caller = r
  BY DEF CallerFits, Caller
<1>1. \A q \in Run : Calling(q) <=> q = r
  BY DEF HoldInv, LeaderHoldsLock, Calling, Leading
<1> QED BY <1>1 DEF Caller

LEMMA CallersOf == HoldInv /\ HoldInv' => CallerFits /\ CallerFits'
<1>1. HoldInv => CallerFits
  BY CallerIs
<1> QED BY <1>1, PTL

(* A step that changes no call, and neither the entry nor an answer, *)
(* stutters.                                                         *)
LEMMA QuietStep ==
  ASSUME HoldInv, HoldInv',
         \A q \in Run : Calling(q)' <=> Calling(q)
  PROVE  Caller' = Caller
BY CallersOf DEF CallerFits

LEMMA FlightStep ==
  ASSUME FlightInv, FlightInv', Next, Faults \cap {"ttl", "redis"} = {}
  PROVE  [Flight!Next]_(Flight!vars)
<1> DEFINE Solo == {q \in Run : role[q] = "fallback"}
<1> HoldInv /\ HoldInv' /\ CallerFits /\ CallerFits' /\ TypeOK /\ Unanswered /\ CallersFit
  BY CallersOf DEF FlightInv, HoldInv
<1> USE DEF TypeOK
<1>1. ASSUME NEW r \in Run, Lead(r) \/ Promote(r)
      PROVE  Flight!Lead(r)
  <2>1. lock = None
    BY <1>1 DEF Lead, Promote, Elected, ElectedBlind
  <2>2. \A q \in Run : ~Calling(q)
    BY <2>1, NoneAssumption DEF HoldInv, LeaderHoldsLock, Calling, Leading
  <2>3. Calling(r)'
    BY <1>1 DEF Lead, Promote, Calling, Leads
  <2>4. role[r] # "fallback" /\ Solo' = Solo
    BY <1>1 DEF Lead, Promote, CallersFit
  <2>5. outcome[r] = None /\ UNCHANGED <<store, outcome>>
    BY <1>1 DEF Lead, Promote, Unanswered
  <2> QED BY <2>2, <2>3, <2>4, <2>5 DEF CallerFits, Flight!Lead
<1>2. ASSUME NEW r \in Run, FallBack(r)
      PROVE  Flight!GoAlone(r)
  <2>1. \A q \in Run : Calling(q)' <=> Calling(q)
    BY <1>2 DEF FallBack, Calling, Leads, CallersFit
  <2>2. ~Calling(r)
    BY <1>2 DEF FallBack, Calling
  <2>3. Caller # r
    BY <2>2, NoneAssumption DEF Caller
  <2>4. Solo' = Solo \cup {r}
    BY <1>2 DEF FallBack
  <2>5. outcome[r] = None /\ UNCHANGED <<store, outcome>>
    BY <1>2 DEF FallBack, Unanswered
  <2> QED BY <2>1, <2>3, <2>4, <2>5, QuietStep DEF Flight!GoAlone
<1>3. ASSUME NEW r \in Run, UpstreamOk(r)
      PROVE  Flight!Return(r)
  <2>1. \A q \in Run : Calling(q)' <=> Calling(q)
    BY <1>3 DEF UpstreamOk, Calling, Leads
  <2>2. r = Caller \/ r \in Solo
    BY <1>3 DEF CallerFits, UpstreamOk, CallersFit, Calling, Leads
  <2>3. outcome[r] = None
    BY <1>3 DEF UpstreamOk, Unanswered
  <2> QED BY <1>3, <2>1, <2>2, <2>3, QuietStep DEF UpstreamOk, Flight!Return, Flight!Answer
<1>4. ASSUME NEW r \in Run, pc[r] \in {"fetch", "tee", "put"},
             pc'[r] \notin {"fetch", "tee", "put"},
             \A q \in Run \ {r} : pc'[q] = pc[q], role' = role
      PROVE  Caller' = IF r = Caller THEN None ELSE Caller
  <2>1. CASE Calling(r)
    <3>1. \A q \in Run : Calling(q) => q = r
      BY <2>1 DEF CallerFits
    <3>2. \A q \in Run : ~Calling(q)'
      BY <1>4, <3>1 DEF Calling, Leads
    <3> QED BY <2>1, <3>2 DEF CallerFits
  <2>2. CASE ~Calling(r)
    <3>1. \A q \in Run : Calling(q)' <=> Calling(q)
      BY <1>4, <2>2 DEF Calling, Leads
    <3>2. r # Caller
      BY <2>2, NoneAssumption DEF Caller
    <3> QED BY <3>1, <3>2, QuietStep
  <2> QED BY <2>1, <2>2
<1>5. ASSUME NEW r \in Run
      PROVE  AfterFetch(r) \notin {"fetch", "tee", "put"}
  BY DEF AfterFetch
<1>6. ASSUME NEW r \in Run, UpstreamFails(r)
      PROVE  Flight!Fail(r)
  <2>1. Caller' = IF r = Caller THEN None ELSE Caller
    BY <1>4, <1>5, <1>6 DEF UpstreamFails
  <2>2. r = Caller \/ r \in Solo
    BY <1>6 DEF CallerFits, UpstreamFails, CallersFit, Calling, Leads
  <2>3. outcome[r] = None
    BY <1>6 DEF UpstreamFails, Unanswered
  <2> QED BY <1>6, <2>1, <2>2, <2>3 DEF UpstreamFails, Flight!Fail, Flight!Answer
<1>7. ASSUME NEW r \in Run, Put(r)
      PROVE  Flight!Fill(r)
  <2>1. Caller' = IF r = Caller THEN None ELSE Caller
    BY <1>4, <1>5, <1>7 DEF Put
  <2>2. outcome[r] = r
    BY <1>7 DEF Put, CallersFit
  <2> QED BY <1>7, <2>1, <2>2 DEF Put, Flight!Fill
<1>8. ASSUME NEW r \in Run, WriteBack(r)
      PROVE  Flight!Fill(r)
  <2>1. \A q \in Run : Calling(q)' <=> Calling(q)
    BY <1>8 DEF WriteBack, Calling, Leads
  <2>2. r # Caller
    <3>1. ~Calling(r)
      BY <1>8 DEF WriteBack, Calling
    <3> QED BY <3>1, NoneAssumption DEF Caller
  <2> QED BY <1>8, <2>1, <2>2, QuietStep DEF WriteBack, Flight!Fill
<1>9. ASSUME NEW r \in Run, ReadHit(r)
      PROVE  Flight!Serve(r)
  <2>1. role[r] = "follower" /\ outcome[r] = None
    BY <1>9 DEF ReadHit, CallersFit, Unanswered
  <2>2. \A q \in Run : Calling(q)' <=> Calling(q)
    BY <1>5, <1>9 DEF ReadHit, Calling, Leads
  <2>3. r # Caller
    <3>1. ~Calling(r)
      BY <2>1 DEF Calling, Leads
    <3> QED BY <3>1, NoneAssumption DEF Caller
  <2> QED BY <1>9, <2>1, <2>2, <2>3, QuietStep DEF ReadHit, Flight!Serve, Flight!Answer
<1>10. ASSUME NEW r \in Run, PutFails(r)
       PROVE  Flight!Drop \/ UNCHANGED Flight!vars
  <2>1. Caller' = IF r = Caller THEN None ELSE Caller
    BY <1>4, <1>5, <1>10 DEF PutFails
  <2> QED BY <1>10, <2>1 DEF PutFails, Flight!Drop, Flight!vars
<1>11. ASSUME NEW r \in Run,
              \/ Begin(r) \/ BecomeFollower(r) \/ ReadMiss(r) \/ Wait(r) \/ Signalled(r)
              \/ WaitElapsed(r) \/ StreamOpens(r) \/ Settle(r) \/ Release(r)
              \/ Announce(r) \/ CompleteFails(r) \/ PassDeadline(r)
       PROVE  UNCHANGED Flight!vars
  <2>1. \A q \in Run : Calling(q)' <=> Calling(q)
    BY <1>11 DEF Calling, Leads, Begin, BecomeFollower, ReadMiss, Wait, Signalled,
       WaitElapsed, StreamOpens, Settle, Release, Announce, CompleteFails, PassDeadline
  <2>2. Solo' = Solo /\ UNCHANGED <<store, outcome>>
    BY <1>11 DEF CallersFit, Begin, BecomeFollower, ReadMiss, Wait, Signalled,
       WaitElapsed, StreamOpens, Settle, Release, Announce, CompleteFails, PassDeadline
  <2> QED BY <2>1, <2>2, QuietStep DEF Flight!vars
<1>12. ASSUME \A q \in Run : Calling(q)' => Calling(q),
              Faults \cap {"crash", "cancel"} # {}, UNCHANGED <<role, outcome, store>>
       PROVE  Flight!Drop \/ UNCHANGED Flight!vars
  <2>1. CASE \E q \in Run : Calling(q)'
    <3>1. PICK q \in Run : Calling(q)'
      BY <2>1
    <3>2. Caller' = Caller
      BY <1>12, <3>1 DEF CallerFits
    <3> QED BY <1>12, <3>2 DEF Flight!vars
  <2>2. CASE ~ \E q \in Run : Calling(q)'
    <3>1. Caller' = None
      BY <2>2 DEF CallerFits
    <3> QED BY <1>12, <3>1 DEF Flight!Drop
  <2> QED BY <2>1, <2>2
<1>13. ASSUME NEW r \in Run, Abandon(r)
       PROVE  Flight!Drop \/ UNCHANGED Flight!vars
  <2>1. \A q \in Run : Calling(q)' => Calling(q)
    BY <1>13 DEF Abandon, Calling, Leads
  <2> QED BY <1>12, <1>13, <2>1 DEF Abandon
<1>14. ASSUME NEW p \in Replica, Crash(p)
       PROVE  Flight!Drop \/ UNCHANGED Flight!vars
  <2>1. \A q \in Run : Calling(q)' => Calling(q)
    BY <1>14 DEF Crash, Calling, Leads
  <2> QED BY <1>12, <1>14, <2>1 DEF Crash
<1>15. CASE CoordStep \/ Evict
  <2>1. \A q \in Run : Calling(q)' <=> Calling(q)
    BY <1>15 DEF CoordStep, Evict, Calling, Leads
  <2>2. CASE CoordStep
    BY <2>1, <2>2, QuietStep DEF CoordStep, Flight!vars
  <2>3. CASE Evict
    BY <2>1, <2>3, QuietStep DEF Evict, Flight!Evict, Flight!Next
  <2> QED BY <1>15, <2>2, <2>3
<1>16. ASSUME NEW r \in Run, RunStep(r)
       PROVE  [Flight!Next]_(Flight!vars)
  BY <1>1, <1>2, <1>3, <1>6, <1>7, <1>9, <1>10, <1>11, <1>16 DEF RunStep, Flight!Next
<1> QED BY <1>8, <1>11, <1>13, <1>14, <1>15, <1>16 DEF Next, Flight!Next

LEMMA RunsFlyOnce ==
  ASSUME AloneAtHome, Faults \cap {"ttl", "redis"} = {}
  PROVE  Init /\ [][Next]_vars => ImplementsSingleFlight
<1>1. Init => FlightInv /\ Flight!Init
  BY InitFlight
<1>2. FlightInv /\ [Next]_vars => FlightInv'
  BY StepFlight
<1>3. FlightInv /\ FlightInv' /\ [Next]_vars => [Flight!Next]_(Flight!vars)
  <2> SUFFICES ASSUME FlightInv, FlightInv', [Next]_vars
               PROVE  [Flight!Next]_(Flight!vars)
    OBVIOUS
  <2>1. CASE UNCHANGED vars
    <3>1. Caller' = Caller
      BY <2>1, QuietStep DEF FlightInv, Calling, Leads
    <3> QED BY <2>1, <3>1 DEF Flight!vars
  <2>2. CASE Next
    BY <2>2, FlightStep
  <2> QED BY <2>1, <2>2
<1> QED BY <1>1, <1>2, <1>3, PTL DEF ImplementsSingleFlight, Flight!Spec

(***************************************************************************)
(* Under the assumptions of LeaderIsUnique, the protocol is one flight: no *)
(* step of it does what SingleFlight does not allow, whatever crashes, is  *)
(* dropped, evicted, lost, late or failing.                                *)
(***************************************************************************)
THEOREM OneFlight ==
  ASSUME AloneAtHome, Faults \cap {"ttl", "redis"} = {}
  PROVE  Spec => ImplementsSingleFlight
BY RunsFlyOnce, PTL DEF Spec

-----------------------------------------------------------------------------
(***************************************************************************)
(* Completion, for every set of replicas and requests and under every      *)
(* fault.                                                                  *)
(***************************************************************************)
USE DEF coordVars, runVars, vars, Goto, Become, FollowerStates,
        reqVars, compVars, Step, Answer, InMap

(* What the requests' history has to say: a request rides on one run, is   *)
(* told nothing before it returns, and reads the store again only once its *)
(* run is resolved.                                                        *)
RidesFit ==
  \A r \in Run :
    /\ rpc[r] \in {"new", "missed"} => ride[r] = None /\ pc[r] = "idle"
    /\ rpc[r] \in {"own", "writeback"} => ride[r] = r
    /\ rpc[r] \in {"ride", "reread"} => ride[r] \in Run
    /\ rpc[r] = "reread" => r \in Streaming /\ Resolved(ride[r])
    /\ rpc[r] # "answered" => reply[r] = None

(* What is over has an answer, unless it was dropped, as only a streaming  *)
(* claim can be.                                                           *)
RunsFit ==
  \A r \in Run :
    /\ pc[r] \in {"put", "settle", "release", "announce", "done", "filed"}
         => outcome[r] # None
    /\ pc[r] \in {"settle", "dead"} => r \in Streaming

(* The map holds every run that is in flight or was dropped, and the run   *)
(* of every plain claimer that has not returned.                           *)
MapHolds ==
  \A r \in Run :
    InFlight(r) \/ pc[r] = "dead" \/ (rpc[r] = "own" /\ r \notin Streaming)
      => entry[Home[r]] = r

CompletionInv ==
  /\ CompletionTypeOK
  /\ Unanswered
  /\ RidesFit
  /\ RunsFit
  /\ MapHolds
  /\ RiderFailsForACause

LEMMA InitCompletion == CompletionInit => CompletionInv
BY InitPromotion
DEF CompletionInit, Init, CompletionInv, CompletionTypeOK, PromotionInv, RidesFit,
    RunsFit, MapHolds, RiderFailsForACause, InFlight, Working

-----------------------------------------------------------------------------
(***************************************************************************)
(* What the steps of requests are to the runs.                             *)
(***************************************************************************)

(* A claim begins a run only where Coalesce lets it: the key's entry in    *)
(* the map is the only thing it has looked at.                             *)
LEMMA ClaimBegins ==
  ASSUME CompletionInv, NEW r \in Run, Claim(r)
  PROVE  Begin(r)
<1>1. pc[r] = "idle"
  BY DEF CompletionInv, RidesFit, Claim
<1>2. ASSUME NEW q \in Run, Home[q] = Home[r]
      PROVE  ~InFlight(q) /\ pc[q] # "dead"
  BY <1>2, NoneAssumption DEF CompletionInv, MapHolds, Claim
<1> QED BY <1>1, <1>2 DEF Claim, Begin

LEMMA StepOfRuns ==
  ASSUME CompletionInv, [CompletionNext]_compVars
  PROVE  [Next]_vars
<1>1. ASSUME NEW r \in Run, RequestStep(r)
      PROVE  [Next]_vars
  <2>1. CASE Claim(r)
    BY <2>1, ClaimBegins DEF Next
  <2>2. CASE RequestWritesBack(r)
    BY <2>2 DEF RequestWritesBack, Next
  <2>3. CASE ~Claim(r) /\ ~RequestWritesBack(r)
    BY <1>1, <2>3 DEF RequestStep, LookupHit, LookupMiss, LookupFails, Piggyback,
       OwnerReturns, WriteBackFails, RiderReturns, StreamingReturns, Replay, ReplayFails
  <2> QED BY <2>1, <2>2, <2>3
<1>2. ASSUME NEW r \in Run, Drive(r)
      PROVE  Next
  BY <1>2 DEF Drive, Next
<1>3. ASSUME NEW r \in Run, Disconnect(r)
      PROVE  [Next]_vars
  BY <1>3 DEF Disconnect, Next
<1>4. CASE Environment
  BY <1>4 DEF Environment, Next
<1> QED BY <1>1, <1>2, <1>3, <1>4 DEF CompletionNext

(* A run moves by a step of its own, or by one of its request's. *)
LEMMA WhoMoves ==
  ASSUME CompletionInv, [CompletionNext]_compVars, NEW q \in Run, pc'[q] # pc[q]
  PROVE  \/ Drive(q) /\ RunStep(q)
         \/ Claim(q) /\ Begin(q)
         \/ RequestWritesBack(q) /\ WriteBack(q)
         \/ Disconnect(q) /\ Abandon(q)
<1> USE DEF CompletionInv, CompletionTypeOK, TypeOK
<1>1. ASSUME NEW r \in Run, RequestStep(r)
      PROVE  \/ Claim(q) /\ Begin(q)
             \/ RequestWritesBack(q) /\ WriteBack(q)
  <2>1. Claim(r) \/ RequestWritesBack(r)
    BY <1>1 DEF RequestStep, LookupHit, LookupMiss, LookupFails, Piggyback, OwnerReturns,
       WriteBackFails, RiderReturns, StreamingReturns, Replay, ReplayFails
  <2>2. CASE Claim(r)
    BY <2>2, ClaimBegins DEF Begin
  <2>3. CASE RequestWritesBack(r)
    BY <2>3 DEF RequestWritesBack, WriteBack
  <2> QED BY <2>1, <2>2, <2>3
<1>2. ASSUME NEW r \in Run, Drive(r)
      PROVE  Drive(q) /\ RunStep(q)
  BY <1>2, RunStepIsLocal DEF Drive
<1>3. ASSUME NEW r \in Run, Disconnect(r)
      PROVE  Disconnect(q) /\ Abandon(q)
  BY <1>3 DEF Disconnect, Abandon
<1>4. ~Environment
  BY DEF Environment, CoordStep, Evict, PassDeadline
<1> QED BY <1>1, <1>2, <1>3, <1>4 DEF CompletionNext

(* Answers and resolutions last. *)
LEMMA ResolvedStays ==
  ASSUME CompletionInv, [CompletionNext]_compVars, NEW q \in Run
  PROVE  /\ outcome[q] # None => outcome'[q] = outcome[q]
         /\ pc[q] = "dead" => pc'[q] = "dead"
         /\ Resolved(q) => Resolved(q)'
<1> USE DEF CompletionInv, CompletionTypeOK, TypeOK
<1>1. outcome[q] # None => outcome'[q] = outcome[q]
  BY StepOfRuns, AnswersOnce
<1>2. CASE pc'[q] = pc[q]
  BY <1>1, <1>2 DEF Resolved
<1>3. CASE RunStep(q)
  <2>1. pc[q] # "dead"
    BY <1>3, RunStepIsLocal
  <2>2. CASE Resolved(q)
    <3>1. pc[q] \in {"release", "announce"} /\ q \in Streaming
      BY <1>3, <2>2, RunStepIsLocal DEF Resolved
    <3>2. Release(q) \/ Announce(q) \/ CompleteFails(q)
      BY <1>3, <3>1 DEF RunStep, Lead, BecomeFollower, ReadHit, ReadMiss, Wait,
         Signalled, WaitElapsed, Promote, FallBack, StreamOpens, UpstreamOk,
         UpstreamFails, Put, PutFails, Settle
    <3>3. pc'[q] \in {"announce", "done"}
      BY <3>2 DEF Release, Announce, CompleteFails
    <3> QED BY <1>1, <2>1, <3>1, <3>3 DEF Resolved
  <2> QED BY <1>1, <2>1, <2>2
<1>4. CASE Begin(q) \/ WriteBack(q) \/ Abandon(q)
  BY <1>1, <1>4 DEF Begin, WriteBack, Abandon, BeforeTee, Resolved
<1> QED BY <1>2, <1>3, <1>4, WhoMoves

-----------------------------------------------------------------------------
(***************************************************************************)
(* The invariant, one conjunct at a time.                                  *)
(***************************************************************************)
LEMMA StepRunsFit ==
  ASSUME CompletionInv, [CompletionNext]_compVars
  PROVE  RunsFit'
<1> USE DEF CompletionInv, CompletionTypeOK, TypeOK
<1> SUFFICES ASSUME NEW r \in Run
             PROVE  /\ pc'[r] \in {"put", "settle", "release", "announce", "done", "filed"}
                         => outcome'[r] # None
                    /\ pc'[r] \in {"settle", "dead"} => r \in Streaming
  BY DEF RunsFit
<1>1. CASE pc'[r] = pc[r]
  BY <1>1, ResolvedStays DEF RunsFit
<1>2. CASE RunStep(r)
  <2>1. pc'[r] \in {"settle", "dead"} => r \in Streaming
    BY <1>2, RunStepIsLocal
  <2>2. CASE pc[r] \in {"put", "settle", "release", "announce"}
    BY <2>1, <2>2, ResolvedStays DEF RunsFit
  <2>3. CASE ReadHit(r) \/ UpstreamOk(r) \/ UpstreamFails(r)
    BY <2>1, <2>3, NoneAssumption, BadAssumption DEF ReadHit, UpstreamOk, UpstreamFails
  <2>4. CASE \/ Lead(r) \/ BecomeFollower(r) \/ ReadMiss(r) \/ Wait(r) \/ Signalled(r)
             \/ WaitElapsed(r) \/ Promote(r) \/ FallBack(r) \/ StreamOpens(r)
    BY <2>1, <2>4 DEF Lead, BecomeFollower, ReadMiss, Wait, Signalled, WaitElapsed,
       Promote, FallBack, StreamOpens
  <2> QED BY <1>2, <2>2, <2>3, <2>4
          DEF RunStep, Put, PutFails, Settle, Release, Announce, CompleteFails
<1>3. CASE Begin(r) \/ WriteBack(r) \/ Abandon(r)
  BY <1>3, NoneAssumption DEF Begin, WriteBack, Abandon
<1> QED BY <1>1, <1>2, <1>3, WhoMoves

(* An entry leaves the map only with its own run, when that is over for    *)
(* those that ride on it.                                                  *)
LEMMA StepMapHolds ==
  ASSUME CompletionInv, [CompletionNext]_compVars
  PROVE  MapHolds'
<1> USE DEF CompletionInv, CompletionTypeOK, TypeOK
<1> DEFINE Held(r) == \/ InFlight(r) \/ pc[r] = "dead"
                      \/ rpc[r] = "own" /\ r \notin Streaming
<1> SUFFICES ASSUME NEW r \in Run, Held(r)'
             PROVE  entry'[Home[r]] = r
  BY DEF MapHolds
<1> Home[r] \in Replica
  BY HomeAssumption
<1>1. Claim(r) \/ Held(r)
  <2>1. CASE InFlight(r)' \/ pc'[r] = "dead"
    <3>1. CASE pc'[r] = pc[r]
      BY <2>1, <3>1 DEF InFlight, Working
    <3>2. CASE RunStep(r)
      <4>1. pc[r] # "idle" /\ pc'[r] # "dead"
        BY <3>2, RunStepIsLocal
      <4> QED BY <2>1, <3>2, <4>1, OnlyBeginPutsInFlight DEF Next, Begin
    <3>3. CASE WriteBack(r)
      BY <2>1, <3>3 DEF WriteBack, InFlight, Working
    <3>4. CASE Abandon(r)
      BY <3>4 DEF Abandon, BeforeTee, InFlight, Working
    <3> QED BY <3>1, <3>2, <3>3, <3>4, WhoMoves
  <2>2. CASE rpc'[r] = "own" /\ r \notin Streaming
    BY <2>2 DEF CompletionNext, RequestStep, LookupHit, LookupMiss, LookupFails, Claim,
       Piggyback, OwnerReturns, RequestWritesBack, WriteBackFails, RiderReturns,
       StreamingReturns, Replay, ReplayFails, Drive, Disconnect, Environment
  <2> QED BY <2>1, <2>2
<1>2. CASE Claim(r)
  BY <1>2 DEF Claim
<1>3. CASE Held(r) /\ ~Claim(r)
  <2>1. entry[Home[r]] = r
    BY <1>3 DEF MapHolds
  <2>2. ASSUME NEW q \in Run, Claim(q)
        PROVE  entry'[Home[r]] = r
    BY <2>1, <2>2, NoneAssumption DEF Claim
  <2>3. ASSUME NEW q \in Run, OwnerReturns(q)
        PROVE  entry'[Home[r]] = r
    <3>1. entry[Home[q]] = q /\ pc[q] \in {"done", "filed"}
      BY <2>3 DEF OwnerReturns, MapHolds, Resolved
    <3>2. rpc'[q] # "own" /\ pc' = pc
      BY <2>3 DEF OwnerReturns
    <3>3. ~Held(q)'
      BY <3>1, <3>2 DEF InFlight, Working
    <3>4. q # r
      BY <3>3
    <3>5. Home[q] # Home[r]
      BY <2>1, <3>1, <3>4
    <3> QED BY <2>1, <2>3, <3>5 DEF OwnerReturns
  <2>4. ASSUME NEW q \in Run, Drive(q)
        PROVE  entry'[Home[r]] = r
    <3>1. CASE pc[q] = "settle"
      <4>1. q \in Streaming /\ entry[Home[q]] = q
        BY <3>1 DEF RunsFit, MapHolds, InFlight, Working
      <4>2. Settle(q)
        BY <2>4, <3>1 DEF Drive, RunStep, Lead, BecomeFollower, ReadHit, ReadMiss, Wait,
           Signalled, WaitElapsed, Promote, FallBack, StreamOpens, UpstreamOk,
           UpstreamFails, Put, PutFails, Release, Announce, CompleteFails
      <4>3. ~Held(q)'
        BY <4>1, <4>2 DEF Settle, InFlight
      <4>4. q # r
        BY <4>3
      <4>5. Home[q] # Home[r]
        BY <2>1, <4>1, <4>4
      <4> QED BY <2>1, <2>4, <4>5 DEF Drive
    <3>2. CASE pc[q] # "settle"
      BY <2>1, <2>4, <3>2 DEF Drive
    <3> QED BY <3>1, <3>2
  <2>5. ASSUME entry' = entry
        PROVE  entry'[Home[r]] = r
    BY <2>1, <2>5
  <2> QED BY <2>2, <2>3, <2>4, <2>5
          DEF CompletionNext, RequestStep, LookupHit, LookupMiss, LookupFails, Piggyback,
              RequestWritesBack, WriteBackFails, RiderReturns, StreamingReturns, Replay,
              ReplayFails, Disconnect, Environment
<1> QED BY <1>1, <1>2, <1>3

(* A request moves by a step of its own, or when the stream it opened is   *)
(* its answer.                                                             *)
LEMMA WhoIsTold ==
  ASSUME CompletionInv, [CompletionNext]_compVars, NEW r \in Run,
         ~(rpc'[r] = rpc[r] /\ ride'[r] = ride[r] /\ reply'[r] = reply[r])
  PROVE  \/ RequestStep(r)
         \/ Disconnect(r)
         \/ Drive(r) /\ r \in Streaming /\ ride' = ride /\ Answer(r, r)
<1> USE DEF CompletionInv, CompletionTypeOK
<1>1. ASSUME NEW q \in Run, RequestStep(q)
      PROVE  RequestStep(r)
  <2>1. CASE q # r
    BY <1>1, <2>1 DEF RequestStep, LookupHit, LookupMiss, LookupFails, Claim, Piggyback,
       OwnerReturns, RequestWritesBack, WriteBackFails, RiderReturns, StreamingReturns,
       Replay, ReplayFails
  <2> QED BY <1>1, <2>1
<1>2. ASSUME NEW q \in Run, Disconnect(q)
      PROVE  Disconnect(r)
  BY <1>2 DEF Disconnect
<1>3. ASSUME NEW q \in Run, Drive(q)
      PROVE  Drive(r) /\ r \in Streaming /\ ride' = ride /\ Answer(r, r)
  <2>1. Answer(q, q) /\ pc'[q] = "tee" /\ pc[q] # "tee" /\ ride' = ride
    BY <1>3 DEF Drive
  <2>2. q = r
    BY <2>1
  <2>3. StreamOpens(r)
    <3>1. AfterFetch(r) # "tee"
      BY DEF AfterFetch
    <3> QED BY <1>3, <2>1, <2>2, <3>1
            DEF TypeOK, Drive, RunStep, Lead, BecomeFollower, ReadHit, ReadMiss, Wait,
                Signalled, WaitElapsed, Promote, FallBack, UpstreamOk, UpstreamFails,
                Put, PutFails, Settle, Release, Announce, CompleteFails
  <2> QED BY <1>3, <2>1, <2>2, <2>3 DEF StreamOpens
<1> QED BY <1>1, <1>2, <1>3 DEF CompletionNext, Environment

(* Requests: where they go, what they ride on and what they are told.      *)
LEMMA StepRidesFit ==
  ASSUME CompletionInv, [CompletionNext]_compVars
  PROVE  RidesFit'
<1> USE DEF CompletionInv, CompletionTypeOK, RidesFit
<1> DEFINE Fit(r) ==
             /\ rpc[r] \in {"new", "missed"} => ride[r] = None /\ pc[r] = "idle"
             /\ rpc[r] \in {"own", "writeback"} => ride[r] = r
             /\ rpc[r] \in {"ride", "reread"} => ride[r] \in Run
             /\ rpc[r] = "reread" => r \in Streaming /\ Resolved(ride[r])
             /\ rpc[r] # "answered" => reply[r] = None
<1> SUFFICES ASSUME NEW r \in Run PROVE Fit(r)'
  OBVIOUS
<1>1. CASE rpc'[r] = rpc[r] /\ ride'[r] = ride[r] /\ reply'[r] = reply[r]
  <2>1. rpc[r] \in {"new", "missed"} => pc'[r] = "idle"
    BY <1>1, WhoMoves, RunStepIsLocal
    DEF TypeOK, Claim, RequestWritesBack, Abandon, BeforeTee
  <2>2. rpc[r] = "reread" => Resolved(ride[r])'
    <3> SUFFICES ASSUME rpc[r] = "reread" PROVE Resolved(ride[r])'
      OBVIOUS
    <3>1. ride[r] \in Run /\ Resolved(ride[r])
      OBVIOUS
    <3>2. ASSUME NEW q \in Run, Resolved(q), ride[r] = q
          PROVE  Resolved(ride[r])'
      <4>1. Resolved(q)'
        BY <3>2, ResolvedStays
      <4> QED BY <1>1, <3>2, <4>1 DEF Resolved
    <3> QED BY <3>1, <3>2
  <2> QED BY <1>1, <2>1, <2>2
<1>2. CASE LookupHit(r) \/ LookupMiss(r) \/ LookupFails(r)
  BY <1>2 DEF LookupHit, LookupMiss, LookupFails
<1>3. CASE Claim(r) \/ Piggyback(r)
  BY <1>3, HomeAssumption DEF Claim, Piggyback
<1>4. CASE OwnerReturns(r) \/ RequestWritesBack(r) \/ WriteBackFails(r) \/ RiderReturns(r)
  BY <1>4 DEF OwnerReturns, RequestWritesBack, WriteBackFails, RiderReturns
<1>5. CASE StreamingReturns(r)
  <2>1. ride' = ride /\ pc' = pc /\ (Resolved(ride[r]))' = Resolved(ride[r])
    BY <1>5 DEF StreamingReturns, Resolved
  <2>2. CASE Answer(r, Bad)
    BY <2>2
  <2>3. CASE Step(r, "reread") /\ UNCHANGED reply
    <3>1. rpc[r] # "answered" /\ rpc'[r] = "reread"
      BY <1>5, <2>3 DEF StreamingReturns
    <3>2. ride[r] \in Run /\ Resolved(ride[r]) /\ r \in Streaming
      BY <1>5 DEF StreamingReturns, Resolved
    <3> QED BY <2>1, <2>3, <3>1, <3>2
  <2> QED BY <1>5, <2>2, <2>3 DEF StreamingReturns
<1>6. CASE Replay(r) \/ ReplayFails(r)
  BY <1>6 DEF Replay, ReplayFails
<1>7. CASE Disconnect(r)
  BY <1>7 DEF Disconnect
<1>8. CASE Drive(r) /\ ride' = ride /\ Answer(r, r)
  BY <1>8
<1> QED BY <1>1, <1>2, <1>3, <1>4, <1>5, <1>6, <1>7, <1>8, WhoIsTold DEF RequestStep

LEMMA StepCompletionTyped ==
  ASSUME CompletionInv, [CompletionNext]_compVars
  PROVE  CompletionTypeOK'
<1> USE DEF CompletionInv, CompletionTypeOK
<1>1. TypeOK'
  BY StepOfRuns, StepTyped
<1>2. ASSUME NEW q \in Run, Resolved(q)
      PROVE  Result(q) \in Run \cup {Bad}
  <2>1. pc[q] # "dead" => outcome[q] # None
    BY <1>2 DEF Resolved, RunsFit
  <2> QED BY <2>1 DEF Result, TypeOK
<1> DEFINE Typed ==
             /\ rpc \in [Run -> {"new", "missed", "own", "ride", "writeback", "reread",
                                 "answered", "gone"}]
             /\ entry \in [Replica -> Run \cup {None}]
             /\ ride \in [Run -> Run \cup {None}]
             /\ reply \in [Run -> Run \cup {None, Bad}]
             /\ \A r \in Run : rpc[r] = "answered" => reply[r] # None
<1>3. ASSUME NEW r \in Run, RequestStep(r)
      PROVE  Typed'
  <2> USE HomeAssumption, NoneAssumption, BadAssumption DEF TypeOK
  <2>1. CASE LookupHit(r) \/ LookupMiss(r) \/ LookupFails(r)
    BY <2>1 DEF LookupHit, LookupMiss, LookupFails
  <2>2. CASE Claim(r) \/ Piggyback(r)
    BY <2>2 DEF Claim, Piggyback
  <2>3. CASE OwnerReturns(r)
    <3>1. outcome[r] \in Run \cup {Bad}
      BY <2>3 DEF OwnerReturns, Resolved, RunsFit
    <3> QED BY <2>3, <3>1 DEF OwnerReturns
  <2>4. CASE RequestWritesBack(r) \/ WriteBackFails(r)
    BY <2>4 DEF RequestWritesBack, WriteBackFails
  <2>5. CASE RiderReturns(r)
    <3>1. Result(ride[r]) \in Run \cup {Bad}
      BY <1>2, <2>5 DEF RiderReturns, RidesFit
    <3> QED BY <2>5, <3>1 DEF RiderReturns
  <2>6. CASE StreamingReturns(r)
    BY <2>6 DEF StreamingReturns
  <2>7. CASE Replay(r) \/ ReplayFails(r)
    <3>1. Result(ride[r]) \in Run \cup {Bad}
      BY <1>2, <2>7 DEF Replay, ReplayFails, RidesFit
    <3>2. (IF store # None THEN store ELSE Result(ride[r])) \in Run \cup {Bad}
      BY <3>1
    <3> QED BY <2>7, <3>2 DEF Replay, ReplayFails
  <2> QED BY <1>3, <2>1, <2>2, <2>3, <2>4, <2>5, <2>6, <2>7 DEF RequestStep
<1>4. ASSUME NEW r \in Run, Drive(r)
      PROVE  Typed'
  <2>1. entry' \in [Replica -> Run \cup {None}] /\ ride' = ride
    BY <1>4, HomeAssumption DEF Drive
  <2>2. CASE Answer(r, r)
    BY <2>1, <2>2, NoneAssumption
  <2>3. CASE UNCHANGED <<rpc, reply>>
    BY <2>1, <2>3
  <2> QED BY <1>4, <2>2, <2>3 DEF Drive
<1>5. ASSUME NEW r \in Run, Disconnect(r)
      PROVE  Typed'
  BY <1>5 DEF Disconnect
<1>6. ASSUME Environment \/ UNCHANGED compVars
      PROVE  Typed'
  BY <1>6 DEF Environment
<1> QED BY <1>1, <1>3, <1>4, <1>5, <1>6 DEF CompletionNext

(* A plain rider is told of a failure by its run alone.                    *)
LEMMA StepRiderFailsForACause ==
  ASSUME CompletionInv, [CompletionNext]_compVars
  PROVE  RiderFailsForACause'
<1> USE DEF CompletionInv, CompletionTypeOK
<1> SUFFICES ASSUME NEW r \in Run \ Streaming, ride'[r] \notin {None, r}, reply'[r] = Bad
             PROVE  \/ \E q \in Run : outcome'[q] = Bad
                    \/ ride'[r] \in Streaming /\ pc'[ride'[r]] = "dead"
  BY DEF RiderFailsForACause
<1>1. ASSUME \E q \in Run : outcome[q] = Bad
      PROVE  \E q \in Run : outcome'[q] = Bad
  BY <1>1, ResolvedStays, BadAssumption
<1>2. ASSUME ride'[r] = ride[r], ride[r] \in Run, pc[ride[r]] = "dead"
      PROVE  ride'[r] \in Streaming /\ pc'[ride'[r]] = "dead"
  BY <1>2, ResolvedStays DEF RunsFit
<1>3. CASE rpc'[r] = rpc[r] /\ ride'[r] = ride[r] /\ reply'[r] = reply[r]
  BY <1>1, <1>2, <1>3, StreamingAssumption DEF RiderFailsForACause
<1>4. CASE RequestStep(r) \/ Disconnect(r)
  <2>1. RiderReturns(r)
    <3>1. reply[r] = None
      BY <1>4 DEF RidesFit, RequestStep, LookupHit, LookupMiss, LookupFails, Claim,
         Piggyback, OwnerReturns, RequestWritesBack, WriteBackFails, RiderReturns,
         StreamingReturns, Replay, ReplayFails, Disconnect
    <3> QED BY <1>4, <3>1, BadAssumption
            DEF RidesFit, RequestStep, LookupHit, LookupMiss, LookupFails, Claim,
                Piggyback, OwnerReturns, RequestWritesBack, WriteBackFails,
                StreamingReturns, Replay, ReplayFails, Disconnect
  <2>2. ride'[r] = ride[r] /\ ride[r] \in Run /\ Result(ride[r]) = Bad
    BY <2>1 DEF RiderReturns, RidesFit
  <2> QED BY <1>1, <1>2, <2>2 DEF Result
<1> QED BY <1>3, <1>4, WhoIsTold

LEMMA StepCompletion ==
  CompletionInv /\ [CompletionNext]_compVars => CompletionInv'
<1> SUFFICES ASSUME CompletionInv, [CompletionNext]_compVars
             PROVE  Unanswered'
  BY StepCompletionTyped, StepRidesFit, StepRunsFit, StepMapHolds,
     StepRiderFailsForACause DEF CompletionInv
<1>1. CASE UNCHANGED vars
  BY <1>1 DEF CompletionInv, Unanswered
<1>2. CASE Next
  BY <1>2, AnswersOnce DEF CompletionInv, CompletionTypeOK
<1> QED BY <1>1, <1>2, StepOfRuns

-----------------------------------------------------------------------------
(***************************************************************************)
(* Every reachable state of requests, maps and runs is typed; an answered  *)
(* request has an answer.                                                  *)
(***************************************************************************)
THEOREM RequestsTyped == CompletionSpec => []CompletionTypeOK
<1>1. CompletionInv => CompletionTypeOK
  BY DEF CompletionInv
<1> QED BY <1>1, InitCompletion, StepCompletion, PTL DEF CompletionSpec

(***************************************************************************)
(* The maps make the runs of each replica take turns, as Coalesce assumes: *)
(* what Coalesce says of its runs holds of the runs that requests drive.   *)
(***************************************************************************)
THEOREM MapsCoalesce == CompletionSpec => Coalesced
<1>1. CompletionInit => Init
  BY DEF CompletionInit
<1>2. CompletionInv /\ [CompletionNext]_compVars => [Next]_vars
  BY StepOfRuns
<1> QED BY <1>1, <1>2, InitCompletion, StepCompletion, PTL DEF CompletionSpec, Coalesced

(***************************************************************************)
(* So requests, maps and runs together are one flight at a time, where     *)
(* OneFlight holds of the runs.                                            *)
(***************************************************************************)
THEOREM RequestsFlyOnce ==
  ASSUME AloneAtHome, Faults \cap {"ttl", "redis"} = {}
  PROVE  CompletionSpec => ImplementsSingleFlight
<1>1. Coalesced => ImplementsSingleFlight
  BY RunsFlyOnce DEF Coalesced
<1> QED BY <1>1, MapsCoalesce, PTL

(***************************************************************************)
(* A plain rider fails only with an upstream call, or with a streaming     *)
(* claim whose client left.                                                *)
(***************************************************************************)
THEOREM RidersFailForACause == CompletionSpec => []RiderFailsForACause
<1>1. CompletionInv => RiderFailsForACause
  BY DEF CompletionInv
<1> QED BY <1>1, InitCompletion, StepCompletion, PTL DEF CompletionSpec
=============================================================================
