-------------------------- MODULE SemanticFeedProofs --------------------------
(***************************************************************************)
(* Theorems about SemanticFeed, for every set of replicas, keys and        *)
(* requests, every stream an earlier deployment left, all page sizes, any  *)
(* number of restarts, and under every fault.                              *)
(***************************************************************************)
EXTENDS SemanticFeed, SequenceTheorems, FiniteSetTheorems, TLAPS

USE DEF tasks, stream, poller, boot, missed, vars, Goto

-----------------------------------------------------------------------------
(***************************************************************************)
(* What a part of the stream folds to.                                     *)
(***************************************************************************)
Quiet(l, a, b, k) == \A i \in a..b : l[i].key # k
LastIs(l, a, b, k, op) ==
  \E i \in a..b : /\ l[i].key = k /\ l[i].op = op
                  /\ \A j \in (i + 1)..b : l[j].key # k

(* The least-number principle, by the well-foundedness of finite sets.       *)
LEMMA LeastOfNaturals ==
  ASSUME NEW T, T \subseteq Nat, T # {}
  PROVE  \E x \in T : \A y \in T : x <= y
<1> DEFINE F == {0..x : x \in T}
<1>1. F \subseteq FiniteSubsetsOf(Nat)
  <2> SUFFICES ASSUME NEW x \in T PROVE 0..x \in FiniteSubsetsOf(Nat)
    OBVIOUS
  <2>1. 0..x \subseteq Nat /\ IsFiniteSet(0..x)
    BY FS_Interval
  <2> QED BY <2>1 DEF FiniteSubsetsOf
<1>2. F # {}
  OBVIOUS
<1> HIDE DEF F
<1>3. PICK m \in F : \A l \in F : <<l, m>> \notin StrictSubsetOrdering(Nat)
  BY <1>1, <1>2, FS_StrictSubsetOrderingWellFounded, WFMin
<1>4. PICK x \in T : m = 0..x
  BY DEF F
<1>5. ASSUME NEW y \in T, y < x PROVE FALSE
  <2>1. 0..y \in F
    BY DEF F
  <2>2. 0..y \subseteq 0..x /\ 0..y # 0..x /\ 0..x \subseteq Nat
    BY <1>5
  <2> QED BY <1>3, <1>4, <2>1, <2>2 DEF StrictSubsetOrdering
<1> QED BY <1>5

LEMMA LastOfPositions ==
  ASSUME NEW n \in Nat, NEW T, T \subseteq 1..n, T # {}
  PROVE  \E x \in T : \A y \in T : y <= x
<1> DEFINE U == {n - x : x \in T}
<1>1. U \subseteq Nat
  OBVIOUS
<1>2. U # {}
  OBVIOUS
<1>3. PICK u \in U : \A v \in U : u <= v
  BY <1>1, <1>2, LeastOfNaturals
<1>4. PICK x \in T : u = n - x
  OBVIOUS
<1>5. ASSUME NEW y \in T PROVE y <= x
  <2>1. n - x <= n - y
    BY <1>3, <1>4
  <2> QED BY <2>1
<1> QED BY <1>5

LEMMA FoldTells ==
  ASSUME NEW e \in Seq(Entry), NEW k
  PROVE  /\ Folded(e, k) \in {"none", "put", "del"}
         /\ Folded(e, k) = "none" <=> Quiet(e, 1, Len(e), k)
         /\ \A op \in {"put", "del"} : Folded(e, k) = op <=> LastIs(e, 1, Len(e), k, op)
<1> DEFINE at == {i \in 1..Len(e) : e[i].key = k}
           last == CHOOSE i \in at : \A j \in at : j <= i
<1>1. Len(e) \in Nat /\ \A i \in 1..Len(e) : e[i] \in Entry /\ e[i].op \in {"put", "del"}
  <2>1. Len(e) \in Nat /\ \A i \in 1..Len(e) : e[i] \in Entry
    OBVIOUS
  <2>2. \A x \in Entry : x.op \in {"put", "del"}
    BY DEF Entry
  <2> QED BY <2>1, <2>2
<1>2. CASE at = {}
  <2>1. Folded(e, k) = "none"
    BY <1>2 DEF Folded
  <2>2. \A i \in 1..Len(e) : e[i].key # k
    BY <1>2
  <2> QED BY <2>1, <2>2 DEF Quiet, LastIs
<1>3. CASE at # {}
  <2>1. \E i \in at : \A j \in at : j <= i
    BY <1>1, <1>3, LastOfPositions
  <2>2. last \in at /\ \A j \in at : j <= last
    BY <2>1
  <2>3. Folded(e, k) = e[last].op
    BY <1>3 DEF Folded
  <2> HIDE DEF last
  <2>4. /\ last \in 1..Len(e) /\ e[last].key = k
        /\ \A j \in (last + 1)..Len(e) : e[j].key # k
    BY <1>1, <2>2
  <2>5. \A i \in 1..Len(e) :
          e[i].key = k /\ (\A j \in (i + 1)..Len(e) : e[j].key # k) => i = last
    BY <1>1, <2>4
  <2> HIDE DEF at
  <2>6. ~Quiet(e, 1, Len(e), k)
    BY <2>4 DEF Quiet
  <2>7. \A op \in {"put", "del"} : e[last].op = op <=> LastIs(e, 1, Len(e), k, op)
    BY <2>4, <2>5 DEF LastIs
  <2> QED BY <1>1, <2>3, <2>4, <2>6, <2>7
<1> QED BY <1>2, <1>3

(* The same of a part of a sequence, in the sequence's own positions.        *)
LEMMA PartTells ==
  ASSUME NEW l \in Seq(Entry), NEW a \in 1..(Len(l) + 1), NEW b \in 0..Len(l), NEW k,
         a <= b + 1
  PROVE  LET e == SubSeq(l, a, b)
         IN  /\ e \in Seq(Entry)
             /\ e = <<>> <=> b < a
             /\ Folded(e, k) \in {"none", "put", "del"}
             /\ Folded(e, k) = "none" <=> Quiet(l, a, b, k)
             /\ \A op \in {"put", "del"} : Folded(e, k) = op <=> LastIs(l, a, b, k, op)
<1> DEFINE e == SubSeq(l, a, b)
<1>1. Len(l) \in Nat /\ \A i \in 1..Len(l) : l[i] \in Entry
  OBVIOUS
<1>2. /\ e \in Seq(Entry) /\ Len(e) = b - a + 1
      /\ \A i \in 1..(b - a + 1) : e[i] = l[a + i - 1]
  <2>1. a \in Int /\ b \in Int /\ \A i \in a..b : l[i] \in Entry
    BY <1>1
  <2>2. /\ e \in Seq(Entry)
        /\ Len(e) = IF a <= b THEN b - a + 1 ELSE 0
        /\ \A i \in 1..(b - a + 1) : e[i] = l[a + i - 1]
    BY <2>1, SubSeqProperties
  <2> QED BY <1>1, <2>2
<1> HIDE DEF e
<1>3. \A j \in a..b : j - a + 1 \in 1..Len(e) /\ e[j - a + 1] = l[j]
  <2> SUFFICES ASSUME NEW j \in a..b
               PROVE  j - a + 1 \in 1..Len(e) /\ e[j - a + 1] = l[j]
    OBVIOUS
  <2>1. j - a + 1 \in 1..(b - a + 1) /\ a + (j - a + 1) - 1 = j
    BY <1>1
  <2> QED BY <1>2, <2>1
<1>4. Quiet(e, 1, Len(e), k) <=> Quiet(l, a, b, k)
  <2>1. ASSUME Quiet(e, 1, Len(e), k) PROVE Quiet(l, a, b, k)
    BY <1>3, <2>1 DEF Quiet
  <2>2. ASSUME Quiet(l, a, b, k) PROVE Quiet(e, 1, Len(e), k)
    <3> SUFFICES ASSUME NEW i \in 1..Len(e) PROVE e[i].key # k
      BY DEF Quiet
    <3>1. a + i - 1 \in a..b /\ e[i] = l[a + i - 1]
      BY <1>1, <1>2
    <3> QED BY <2>2, <3>1 DEF Quiet
  <2> QED BY <2>1, <2>2
<1>5. ASSUME NEW op \in {"put", "del"}
      PROVE  LastIs(e, 1, Len(e), k, op) <=> LastIs(l, a, b, k, op)
  <2>1. ASSUME LastIs(e, 1, Len(e), k, op) PROVE LastIs(l, a, b, k, op)
    <3>1. PICK i \in 1..Len(e) : /\ e[i].key = k /\ e[i].op = op
                                 /\ \A j \in (i + 1)..Len(e) : e[j].key # k
      BY <2>1 DEF LastIs
    <3>2. a + i - 1 \in a..b /\ e[i] = l[a + i - 1]
      BY <1>1, <1>2
    <3>3. ASSUME NEW j \in (a + i - 1 + 1)..b PROVE l[j].key # k
      <4>1. j \in a..b /\ j - a + 1 \in (i + 1)..Len(e)
        BY <1>1, <1>2
      <4> QED BY <1>3, <3>1, <4>1
    <3> QED BY <3>1, <3>2, <3>3 DEF LastIs
  <2>2. ASSUME LastIs(l, a, b, k, op) PROVE LastIs(e, 1, Len(e), k, op)
    <3>1. PICK i \in a..b : /\ l[i].key = k /\ l[i].op = op
                            /\ \A j \in (i + 1)..b : l[j].key # k
      BY <2>2 DEF LastIs
    <3>2. i - a + 1 \in 1..Len(e) /\ e[i - a + 1] = l[i]
      BY <1>3
    <3>3. ASSUME NEW j \in (i - a + 1 + 1)..Len(e) PROVE e[j].key # k
      <4>1. j \in 1..(b - a + 1) /\ a + j - 1 \in (i + 1)..b
        BY <1>1, <1>2
      <4> QED BY <1>2, <3>1, <4>1
    <3> QED BY <3>1, <3>2, <3>3 DEF LastIs
  <2> QED BY <2>1, <2>2
<1>6. e = <<>> <=> b < a
  BY <1>1, <1>2
<1>7. /\ Folded(e, k) \in {"none", "put", "del"}
      /\ Folded(e, k) = "none" <=> Quiet(e, 1, Len(e), k)
      /\ \A op \in {"put", "del"} : Folded(e, k) = op <=> LastIs(e, 1, Len(e), k, op)
  BY <1>2, FoldTells
<1> QED BY <1>2, <1>4, <1>5, <1>6, <1>7 DEF e

(* A part and the part after it.                                             *)
LEMMA QuietJoins ==
  ASSUME NEW l, NEW a \in Nat, NEW b \in Nat, NEW c \in Nat, a <= b + 1, b <= c, NEW k
  PROVE  Quiet(l, a, c, k) <=> Quiet(l, a, b, k) /\ Quiet(l, b + 1, c, k)
BY DEF Quiet

LEMMA LastJoins ==
  ASSUME NEW l, NEW a \in Nat, NEW b \in Nat, NEW c \in Nat, a <= b + 1, b <= c,
         NEW k, NEW op
  PROVE  IF Quiet(l, b + 1, c, k)
         THEN LastIs(l, a, c, k, op) <=> LastIs(l, a, b, k, op)
         ELSE LastIs(l, a, c, k, op) <=> LastIs(l, b + 1, c, k, op)
BY DEF Quiet, LastIs

(* What is appended leaves the parts before it alone.                        *)
LEMMA AppendTells ==
  ASSUME NEW l \in Seq(Entry), NEW e \in Entry, NEW a \in Nat, a >= 1,
         NEW b \in 0..Len(l), NEW k, NEW op
  PROVE  /\ Append(l, e) \in Seq(Entry) /\ Len(Append(l, e)) = Len(l) + 1
         /\ Quiet(Append(l, e), a, b, k) <=> Quiet(l, a, b, k)
         /\ LastIs(Append(l, e), a, b, k, op) <=> LastIs(l, a, b, k, op)
         /\ a <= Len(l) + 1 =>
              (Quiet(Append(l, e), a, Len(l) + 1, k) <=> Quiet(l, a, Len(l), k) /\ e.key # k)
<1>1. /\ Len(l) \in Nat /\ Append(l, e) \in Seq(Entry) /\ Len(Append(l, e)) = Len(l) + 1
      /\ \A i \in 1..Len(l) : Append(l, e)[i] = l[i]
      /\ Append(l, e)[Len(l) + 1] = e
  OBVIOUS
<1> QED BY <1>1 DEF Quiet, LastIs

(* A page that was read up to d, from s on, by who had read up to c: it      *)
(* decides on the keys it names; of the others it has nothing from s on, and *)
(* if it joins up with what was read before, nothing has changed for them.   *)
LEMMA PageTells ==
  ASSUME NEW l \in Seq(Entry), NEW c \in Nat, NEW d \in 0..Len(l), NEW s \in (c + 1)..d,
         NEW k
  PROVE  LET e == SubSeq(l, s, d)
         IN  /\ e \in Seq(Entry) /\ Folded(e, k) \in {"none", "put", "del"}
             /\ Folded(e, k) # "none" =>
                  (LastIs(l, 1, d, k, "put") <=> Folded(e, k) = "put")
             /\ Folded(e, k) = "none" => Quiet(l, s, d, k)
             /\ Folded(e, k) = "none" /\ s = c + 1 =>
                  (LastIs(l, 1, d, k, "put") <=> LastIs(l, 1, c, k, "put"))
<1> DEFINE e == SubSeq(l, s, d)
<1>1. /\ Len(l) \in Nat /\ d \in Nat /\ s \in Nat /\ s - 1 \in Nat
      /\ s \in 1..(Len(l) + 1) /\ s <= d + 1 /\ 1 <= (s - 1) + 1 /\ s - 1 <= d /\ (s - 1) + 1 = s
      /\ s = c + 1 => s - 1 = c
  OBVIOUS
<1>2. /\ e \in Seq(Entry) /\ Folded(e, k) \in {"none", "put", "del"}
      /\ Folded(e, k) = "none" <=> Quiet(l, s, d, k)
      /\ Folded(e, k) = "put" <=> LastIs(l, s, d, k, "put")
  BY <1>1, PartTells
<1> DEFINE b == s - 1
<1> HIDE DEF b
<1>3. /\ b \in Nat /\ 1 <= b + 1 /\ b <= d /\ b + 1 = s
      /\ s = c + 1 => b = c
  BY <1>1 DEF b
<1>4. IF Quiet(l, b + 1, d, k)
      THEN LastIs(l, 1, d, k, "put") <=> LastIs(l, 1, b, k, "put")
      ELSE LastIs(l, 1, d, k, "put") <=> LastIs(l, b + 1, d, k, "put")
  BY <1>1, <1>3, LastJoins
<1> HIDE DEF e
<1>5. IF Quiet(l, s, d, k)
      THEN LastIs(l, 1, d, k, "put") <=> LastIs(l, 1, b, k, "put")
      ELSE LastIs(l, 1, d, k, "put") <=> LastIs(l, s, d, k, "put")
  BY <1>3, <1>4
<1> QED BY <1>2, <1>3, <1>5 DEF e

-----------------------------------------------------------------------------
(***************************************************************************)
(* The invariant.  A page in hand is the stream up to the target, from the *)
(* cursor on or from where it was trimmed to; a task inserts what it has   *)
(* added; of the keys that a replica knows, the slots of its boot have what*)
(* the stream says up to the cursor, and so has its index where the stream *)
(* says nothing after it.  And a boot that was not torn has no slot that   *)
(* the stream has not, whatever was trimmed before it began.               *)
(***************************************************************************)
PageFits(p) ==
  page[p] # <<>> =>
    /\ p \notin booting
    /\ \E s \in (cursor[p] + 1)..target[p] :
         /\ page[p] = SubSeq(log, s, target[p])
         /\ s = cursor[p] + 1 \/ (p \in gap /\ s <= first)

PagesFit == \A p \in Replica : PageFits(p)

InsertsAdded ==
  \A t \in Task : pc[t] \in {"trim", "insert"} =>
    \E i \in 1..Len(log) : log[i] = [op |-> "put", key |-> Target[t]]

(* p has applied a record of k that the stream still holds, or all of them.  *)
Known(p, k) == p \notin gap \/ \E i \in first..cursor[p] : log[i].key = k

Agrees(p, k) ==
  p \notin booting /\ Known(p, k) /\ k \notin astray[p] /\ ~Untold(p, k)
    /\ Quiet(log, cursor[p] + 1, Len(log), k) =>
      (Live(p, k) <=> LastIs(log, 1, cursor[p], k, "put"))

BootFits(p, k) ==
  p \in booting =>
    /\ Known(p, k) => (k \in slots[p] <=> LastIs(log, 1, cursor[p], k, "put"))
    /\ p \notin torn /\ k \in slots[p] => LastIs(log, 1, cursor[p], k, "put")

FeedInv ==
  /\ TypeOK /\ PagesFit /\ InsertsAdded
  /\ \A p \in Replica, k \in Key : Agrees(p, k) /\ BootFits(p, k)

LEMMA InitTyped == Init => TypeOK
<1> SUFFICES ASSUME Init PROVE TypeOK
  OBVIOUS
<1>1. Earlier \in Seq(Entry) /\ Len(Earlier) \in Nat
  BY EarlierAssumption DEF Entry
<1>2. /\ index \in [Replica -> [Key -> {"none", "live", "tomb"}]]
      /\ slots \in [Replica -> SUBSET Key]
  BY DEF Init, Booted
<1>3. /\ log \in Seq(Entry) /\ first \in 1..(Len(log) + 1)
      /\ cursor \in [Replica -> 0..Len(log)] /\ target \in [Replica -> 0..Len(log)]
      /\ page \in [Replica -> Seq(Entry)]
  BY <1>1 DEF Init
<1>4. pc \in [Task -> {"new", "search", "get", "heal", "drop", "fetch", "put", "add",
                      "trim", "insert", "erase", "tomb", "append", "done"}]
  BY DEF Init
<1> QED
  BY <1>2, <1>3, <1>4, TargetAssumption, StoredAssumption, RestartsAssumption
  DEF Init, TypeOK

(* XADD, whatever it trims.                                                  *)
LEMMA AddTyped ==
  ASSUME TypeOK, NEW op \in {"put", "del"}, NEW k \in Key, XAdd(op, k)
  PROVE  /\ log' = Append(log, [op |-> op, key |-> k]) /\ [op |-> op, key |-> k] \in Entry
         /\ log' \in Seq(Entry) /\ Len(log') = Len(log) + 1
         /\ first' \in 1..(Len(log') + 1) /\ first' >= first
         /\ cursor \in [Replica -> 0..Len(log')] /\ target \in [Replica -> 0..Len(log')]
<1>1. [op |-> op, key |-> k] \in Entry /\ log \in Seq(Entry) /\ Len(log) \in Nat
  BY DEF Entry, TypeOK
<1>2. log' = Append(log, [op |-> op, key |-> k])
  BY DEF XAdd
<1>3. log' \in Seq(Entry) /\ Len(log') = Len(log) + 1
  BY <1>1, <1>2
<1>4. first' \in 1..(Len(log') + 1) /\ first' >= first
  BY <1>1, <1>3 DEF XAdd, TypeOK
<1>5. 0..Len(log) \subseteq 0..Len(log')
  BY <1>1, <1>3
<1> QED BY <1>1, <1>2, <1>3, <1>4, <1>5 DEF TypeOK

(* Steps of a task that only look, or change the store or the index.         *)
LEMMA TaskTyped ==
  ASSUME TypeOK, NEW t \in Task, TaskStep(t) \/ Leave(t)
  PROVE  TypeOK'
<1> USE HomeAssumption, TargetAssumption
<1>0. Home[t] \in Replica /\ Target[t] \in Key /\ near[t] \in Key
  BY DEF TypeOK
<1>1. CASE Lookup(t) \/ Search(t) \/ Get(t) \/ Fetch(t) \/ Leave(t) \/ AddFails(t)
  <2>1. /\ UNCHANGED <<blob, log, first, index, cursor, page, target, restarts, booting, slots,
                       gap, torn, astray>>
        /\ near' \in [Task -> Key]
        /\ pc' \in [Task -> {"new", "search", "get", "heal", "drop", "fetch", "put", "add",
                            "trim", "insert", "erase", "tomb", "append", "done"}]
    BY <1>1 DEF TypeOK, Lookup, Search, Get, Fetch, Leave, AddFails
  <2> QED BY <2>1 DEF TypeOK
<1>2. CASE Put(t) \/ Erase(t)
  BY <1>2 DEF TypeOK, Put, Erase
<1>3. CASE Heal(t) \/ Tomb(t) \/ Insert(t)
  <2>1. /\ UNCHANGED <<near, blob, log, first, cursor, page, target, restarts, booting, slots,
                       gap, torn>>
        /\ pc' \in [Task -> {"new", "search", "get", "heal", "drop", "fetch", "put", "add",
                            "trim", "insert", "erase", "tomb", "append", "done"}]
    BY <1>3 DEF TypeOK, Heal, Tomb, Insert
  <2>2. astray' \in [Replica -> SUBSET Key]
    <3>1. \/ astray' = astray
          \/ astray' = [astray EXCEPT ![Home[t]] = @ \cup {Target[t]}]
      BY <1>3 DEF Heal, Tomb, Insert
    <3>2. astray \in [Replica -> SUBSET Key]
      BY DEF TypeOK
    <3> QED BY <1>0, <3>1, <3>2
  <2>3. index' \in [Replica -> [Key -> {"none", "live", "tomb"}]]
    <3>1. \E k \in Key, node \in {"none", "live", "tomb"} :
            index' = [index EXCEPT ![Home[t]][k] = node]
      <4>1. CASE Insert(t)
        BY <1>0, <4>1 DEF Insert, Inserted
      <4>2. CASE Heal(t)
        BY <1>0, <4>2 DEF Heal, SetTombstone, Tombstoned
      <4>3. CASE Tomb(t)
        BY <1>0, <4>3 DEF Tomb, SetTombstone, Tombstoned
      <4> QED BY <1>3, <4>1, <4>2, <4>3
    <3>2. index \in [Replica -> [Key -> {"none", "live", "tomb"}]]
      BY DEF TypeOK
    <3> QED BY <1>0, <3>1, <3>2
  <2> QED BY <2>1, <2>2, <2>3 DEF TypeOK
<1>4. CASE Drop(t) \/ AppendDel(t) \/ Add(t)
  <2>1. /\ UNCHANGED <<near, blob, index, cursor, page, target, restarts, booting, slots, gap, torn>>
        /\ pc' \in [Task -> {"new", "search", "get", "heal", "drop", "fetch", "put", "add",
                            "trim", "insert", "erase", "tomb", "append", "done"}]
    BY <1>4 DEF TypeOK, Drop, AppendDel, Add
  <2>2. astray' \in [Replica -> SUBSET Key]
    <3>1. \/ astray' = astray
          \/ \E p \in Replica, k \in Key : astray' = [astray EXCEPT ![p] = @ \cup {k}]
      BY <1>0, <1>4 DEF Drop, AppendDel, Add, AddTombstone
    <3>2. astray \in [Replica -> SUBSET Key]
      BY DEF TypeOK
    <3> QED BY <3>1, <3>2
  <2>3. \/ UNCHANGED <<log, first>>
        \/ \E op \in {"put", "del"}, k \in Key : XAdd(op, k)
    BY <1>0, <1>4 DEF Drop, AppendDel, Add, AddTombstone
  <2>4. /\ log' \in Seq(Entry) /\ first' \in 1..(Len(log') + 1)
        /\ cursor \in [Replica -> 0..Len(log')] /\ target \in [Replica -> 0..Len(log')]
    BY <2>3, AddTyped DEF TypeOK
  <2> QED BY <2>1, <2>2, <2>4 DEF TypeOK
<1>5. CASE Trim(t)
  <2>1. first' \in 1..(Len(log) + 1)
    BY <1>5 DEF Trim, TypeOK
  <2> QED BY <1>5, <2>1 DEF Trim, TypeOK
<1> QED BY <1>1, <1>2, <1>3, <1>4, <1>5 DEF TaskStep

(* A page that is read.                                                      *)
LEMMA ReadTells ==
  ASSUME TypeOK, NEW p \in Replica, Read(p)
  PROVE  /\ UNCHANGED <<pc, near, blob, log, first, index, cursor, restarts, booting, slots,
                        torn, astray>>
         /\ page' \in [Replica -> Seq(Entry)] /\ target' \in [Replica -> 0..Len(log)]
         /\ \A q \in Replica \ {p} : page'[q] = page[q] /\ target'[q] = target[q]
         /\ p \notin booting
         /\ \E s \in (cursor[p] + 1)..target'[p] :
              /\ page'[p] = SubSeq(log, s, target'[p])
              /\ s = cursor[p] + 1 \/ (p \in gap' /\ s <= first)
         /\ gap \subseteq gap' /\ gap' \subseteq Replica
<1>1. PICK n \in 1..Page :
        /\ target' = [target EXCEPT ![p] = From(p) + n - 1]
        /\ From(p) + n - 1 <= Len(log)
        /\ page' = [page EXCEPT ![p] = SubSeq(log, From(p), From(p) + n - 1)]
  BY DEF Read
<1>2. /\ first \in Nat /\ first >= 1 /\ cursor[p] \in Nat /\ Len(log) \in Nat
      /\ n \in Nat /\ n >= 1 /\ \A i \in 1..Len(log) : log[i] \in Entry
  BY PageAssumption DEF TypeOK
<1>3. /\ From(p) \in Nat /\ From(p) >= 1 /\ cursor[p] < From(p)
      /\ From(p) = cursor[p] + 1 \/ (first > cursor[p] + 1 /\ From(p) = first)
  BY <1>2 DEF From
<1> DEFINE last == From(p) + n - 1
<1>4. /\ last \in 0..Len(log) /\ From(p) \in Int /\ last \in Int
      /\ From(p) \in (cursor[p] + 1)..last
  BY <1>1, <1>2, <1>3
<1>5. \A i \in From(p)..last : log[i] \in Entry
  BY <1>2, <1>3, <1>4
<1> HIDE DEF last
<1>6. SubSeq(log, From(p), last) \in Seq(Entry)
  BY <1>4, <1>5, SubSeqProperties
<1>7. target'[p] = last /\ page'[p] = SubSeq(log, From(p), last)
  BY <1>1 DEF last, TypeOK
<1>8. From(p) = cursor[p] + 1 \/ (p \in gap' /\ From(p) <= first)
  BY <1>2, <1>3 DEF Read
<1>9. \E s \in (cursor[p] + 1)..target'[p] :
        /\ page'[p] = SubSeq(log, s, target'[p])
        /\ s = cursor[p] + 1 \/ (p \in gap' /\ s <= first)
  BY <1>4, <1>7, <1>8
<1> QED BY <1>1, <1>4, <1>6, <1>7, <1>9 DEF Read, TypeOK, last

(* A page that a boot reads.                                                 *)
LEMMA SlotsTyped ==
  ASSUME NEW kept, NEW e
  PROVE  /\ Slotted(kept, e) \subseteq Key
         /\ Booted(kept) \in [Key -> {"none", "live", "tomb"}]
BY DEF Slotted, Booted

LEMMA EntriesTell ==
  ASSUME TypeOK, NEW p \in Replica
  PROVE  LET n == Len(BootEntries(p))
         IN  /\ n \in Nat
             /\ n = 0 => Len(log) < From(p) /\ BootEntries(p) = <<>>
             /\ n # 0 =>
                  /\ From(p) \in (cursor[p] + 1)..(From(p) + n - 1)
                  /\ From(p) + n - 1 \in 0..Len(log)
                  /\ BootEntries(p) = SubSeq(log, From(p), From(p) + n - 1)
                  /\ n < BootPage => From(p) + n - 1 = Len(log)
             /\ From(p) = cursor[p] + 1 \/ (first > cursor[p] + 1 /\ From(p) = first)
<1> DEFINE s == From(p)
           b == IF s + BootPage - 1 < Len(log) THEN s + BootPage - 1 ELSE Len(log)
<1>1. /\ first \in Nat /\ first >= 1 /\ cursor[p] \in Nat /\ Len(log) \in Nat
      /\ first <= Len(log) + 1 /\ cursor[p] <= Len(log)
      /\ BootPage \in Nat /\ BootPage >= 1 /\ log \in Seq(Entry)
  BY BootPageAssumption DEF TypeOK
<1>2. /\ s \in Nat /\ cursor[p] + 1 <= s /\ s <= Len(log) + 1
      /\ s = cursor[p] + 1 \/ (first > cursor[p] + 1 /\ s = first)
  BY <1>1 DEF From
<1> HIDE DEF s
<1>3. /\ b \in Nat /\ b <= Len(log) /\ s <= b + 1
      /\ b < s => Len(log) < s
      /\ b - s + 1 < BootPage => b = Len(log)
  BY <1>1, <1>2
<1> HIDE DEF b
<1>4. s \in 1..(Len(log) + 1) /\ b \in 0..Len(log)
  BY <1>1, <1>2, <1>3
<1>5. SubSeq(log, s, b) \in Seq(Entry) /\ (SubSeq(log, s, b) = <<>> <=> b < s)
  BY <1>1, <1>3, <1>4, PartTells
<1>6. Len(SubSeq(log, s, b)) = b - s + 1
  <2>1. s \in Int /\ b \in Int /\ \A i \in s..b : log[i] \in Entry
    BY <1>1, <1>2, <1>3
  <2>2. Len(SubSeq(log, s, b)) = IF s <= b THEN b - s + 1 ELSE 0
    BY <2>1, SubSeqProperties
  <2> QED BY <1>2, <1>3, <2>2
<1>7. BootEntries(p) = SubSeq(log, s, b)
  BY DEF BootEntries, s, b
<1> DEFINE n == Len(BootEntries(p))
<1>8. n = b - s + 1 /\ n \in Nat /\ s + n - 1 = b
  BY <1>2, <1>3, <1>6, <1>7
<1>9. n = 0 => Len(log) < s /\ BootEntries(p) = <<>>
  BY <1>2, <1>3, <1>5, <1>7, <1>8
<1>10. n # 0 => s \in (cursor[p] + 1)..b
  BY <1>1, <1>2, <1>3, <1>8
<1>11. n < BootPage => b = Len(log)
  BY <1>3, <1>8
<1> QED BY <1>2, <1>4, <1>7, <1>8, <1>9, <1>10, <1>11 DEF s

LEMMA BootTells ==
  ASSUME TypeOK, NEW p \in Replica, BootRead(p)
  PROVE  LET e    == BootEntries(p)
             d    == cursor'[p]
             kept == Slotted(slots[p], e)
         IN  /\ UNCHANGED <<pc, near, blob, log, first, page, target, restarts, astray>>
             /\ \A q \in Replica \ {p} :
                  /\ index'[q] = index[q] /\ cursor'[q] = cursor[q] /\ slots'[q] = slots[q]
                  /\ q \in booting' <=> q \in booting
                  /\ q \in gap' <=> q \in gap
                  /\ q \in torn' <=> q \in torn
             /\ gap \subseteq gap' /\ gap' \subseteq Replica
             /\ torn \subseteq torn' /\ torn' \subseteq Replica
             /\ cursor' \in [Replica -> 0..Len(log)]
             /\ \/ /\ d = cursor[p] /\ e = <<>> /\ Len(log) < From(p)
                \/ /\ \E s \in (cursor[p] + 1)..d :
                        /\ e = SubSeq(log, s, d)
                        /\ \/ s = cursor[p] + 1
                           \/ p \in gap' /\ s <= first /\ (cursor[p] > 0 => p \in torn')
                   /\ d = Len(log) \/ p \in booting'
             /\ cursor[p] > 0 /\ From(p) # cursor[p] + 1 => p \in torn'
             /\ From(p) = cursor[p] + 1 \/ From(p) = first
             /\ p \in booting
             /\ \/ booting' = booting /\ index' = index /\ slots' = [slots EXCEPT ![p] = kept]
                \/ /\ booting' = booting \ {p} /\ slots' = [slots EXCEPT ![p] = {}]
                   /\ index' = [index EXCEPT ![p] = Booted(kept)]
<1> DEFINE e == BootEntries(p)
           n == Len(e)
           s == From(p)
           kept == Slotted(slots[p], e)
<1>1. /\ n \in Nat
      /\ n = 0 => Len(log) < s /\ e = <<>>
      /\ n # 0 => /\ s \in (cursor[p] + 1)..(s + n - 1) /\ s + n - 1 \in 0..Len(log)
                  /\ e = SubSeq(log, s, s + n - 1)
                  /\ n < BootPage => s + n - 1 = Len(log)
      /\ s = cursor[p] + 1 \/ (first > cursor[p] + 1 /\ s = first)
  BY EntriesTell
<1>2. /\ UNCHANGED <<pc, near, blob, log, first, page, target, restarts, astray>>
      /\ p \in booting
      /\ cursor' = [cursor EXCEPT ![p] = IF n = 0 THEN cursor[p] ELSE s + n - 1]
      /\ gap' = IF first > cursor[p] + 1 THEN gap \cup {p} ELSE gap
      /\ torn' = IF cursor[p] > 0 /\ first > cursor[p] + 1 THEN torn \cup {p} ELSE torn
  BY DEF BootRead, BootMisses
<1>3. \/ /\ n = BootPage /\ booting' = booting /\ index' = index
         /\ slots' = [slots EXCEPT ![p] = kept]
      \/ /\ n < BootPage /\ booting' = booting \ {p} /\ slots' = [slots EXCEPT ![p] = {}]
         /\ index' = [index EXCEPT ![p] = Booted(kept)]
  BY DEF BootRead
<1> HIDE DEF e, n, s, kept
<1>4. /\ cursor \in [Replica -> 0..Len(log)] /\ index \in [Replica -> [Key -> {"none", "live", "tomb"}]]
      /\ slots \in [Replica -> SUBSET Key] /\ gap \subseteq Replica /\ torn \subseteq Replica
  BY DEF TypeOK
<1>5. \A q \in Replica \ {p} :
        /\ index'[q] = index[q] /\ cursor'[q] = cursor[q] /\ slots'[q] = slots[q]
        /\ q \in booting' <=> q \in booting
        /\ q \in gap' <=> q \in gap
        /\ q \in torn' <=> q \in torn
  BY <1>2, <1>3, <1>4
<1>6. cursor'[p] = (IF n = 0 THEN cursor[p] ELSE s + n - 1) /\ cursor' \in [Replica -> 0..Len(log)]
  BY <1>1, <1>2, <1>4
<1>7. s = cursor[p] + 1 \/ (p \in gap' /\ s = first /\ (cursor[p] > 0 => p \in torn'))
  BY <1>1, <1>2
<1>8. CASE n = 0
  BY <1>1, <1>2, <1>3, <1>4, <1>5, <1>6, <1>7, <1>8 DEF e, s, kept
<1>9. CASE n # 0
  <2>1. cursor'[p] = Len(log) \/ p \in booting'
    BY <1>1, <1>2, <1>3, <1>6, <1>9
  <2>2. first <= first
    BY DEF TypeOK
  <2>3. \E x \in (cursor[p] + 1)..cursor'[p] :
          /\ e = SubSeq(log, x, cursor'[p])
          /\ \/ x = cursor[p] + 1
             \/ p \in gap' /\ x <= first /\ (cursor[p] > 0 => p \in torn')
    BY <1>1, <1>6, <1>7, <1>9, <2>2
  <2> QED BY <1>1, <1>2, <1>3, <1>4, <1>5, <1>6, <1>7, <2>1, <2>3 DEF e, s, kept
<1> QED BY <1>8, <1>9

LEMMA AfterTyped ==
  ASSUME NEW node \in {"none", "live", "tomb"}, NEW e \in Seq(Entry), NEW k
  PROVE  AfterEntries(node, e, k) \in {"none", "live", "tomb"}
<1>1. Folded(e, k) \in {"none", "put", "del"}
  BY FoldTells
<1> QED BY <1>1 DEF AfterEntries, Inserted, Tombstoned

LEMMA ReplicaTyped ==
  ASSUME TypeOK, NEW p \in Replica, PollStep(p) \/ BootStep(p)
  PROVE  TypeOK'
<1>1. CASE Read(p)
  BY <1>1, ReadTells DEF TypeOK
<1>2. CASE Apply(p)
  <2>1. \A k \in Key : AfterEntries(index[p][k], page[p], k) \in {"none", "live", "tomb"}
    <3>1. page[p] \in Seq(Entry) /\ \A k \in Key : index[p][k] \in {"none", "live", "tomb"}
      BY DEF TypeOK
    <3> QED BY <3>1, AfterTyped
  <2>2. index' \in [Replica -> [Key -> {"none", "live", "tomb"}]]
    BY <1>2, <2>1 DEF Apply, TypeOK
  <2> QED BY <1>2, <2>2 DEF Apply, Advanced, TypeOK
<1>3. CASE Restart(p) \/ BootFails(p)
  <2>1. Booted({}) \in [Key -> {"none", "live", "tomb"}] /\ Len(log) \in Nat /\ 0 \in 0..Len(log)
    <3>1. Booted({}) \in [Key -> {"none", "live", "tomb"}]
      BY SlotsTyped
    <3>2. Len(log) \in Nat /\ 0 \in 0..Len(log)
      BY DEF TypeOK
    <3> QED BY <3>1, <3>2
  <2>2. /\ index' = [index EXCEPT ![p] = Booted({})] /\ cursor' = [cursor EXCEPT ![p] = 0]
        /\ slots' = [slots EXCEPT ![p] = {}]
        /\ gap' = gap \ {p} /\ UNCHANGED <<near, blob, log, first>>
        /\ booting' = booting \cup {p} \/ booting' = booting \ {p}
        /\ torn' = torn \/ torn' = torn \ {p}
    BY <1>3 DEF Restart, BootFails
  <2>3. /\ index' \in [Replica -> [Key -> {"none", "live", "tomb"}]]
        /\ cursor' \in [Replica -> 0..Len(log)] /\ slots' \in [Replica -> SUBSET Key]
        /\ gap' \subseteq Replica /\ booting' \subseteq Replica /\ torn' \subseteq Replica
    BY <2>1, <2>2 DEF TypeOK
  <2>4. restarts' \in 0..Restarts
    BY <1>3, RestartsAssumption DEF Restart, BootFails, TypeOK
  <2>5. pc' \in [Task -> {"new", "search", "get", "heal", "drop", "fetch", "put", "add",
                         "trim", "insert", "erase", "tomb", "append", "done"}]
    BY <1>3 DEF Restart, BootFails, TypeOK
  <2>6. /\ page' \in [Replica -> Seq(Entry)] /\ target' \in [Replica -> 0..Len(log)]
        /\ astray' \in [Replica -> SUBSET Key]
    <3>1. page' = page \/ page' = [page EXCEPT ![p] = <<>>]
      BY <1>3 DEF Restart, BootFails
    <3>2. target' = target \/ target' = [target EXCEPT ![p] = 0]
      BY <1>3 DEF Restart, BootFails
    <3>3. astray' = astray \/ astray' = [astray EXCEPT ![p] = {}]
      BY <1>3 DEF Restart, BootFails
    <3>4. <<>> \in Seq(Entry) /\ {} \in SUBSET Key
      OBVIOUS
    <3>5. /\ page \in [Replica -> Seq(Entry)] /\ target \in [Replica -> 0..Len(log)]
          /\ astray \in [Replica -> SUBSET Key]
      BY DEF TypeOK
    <3>6. page' \in [Replica -> Seq(Entry)]
      BY <3>1, <3>4, <3>5
    <3> QED BY <2>1, <3>2, <3>3, <3>4, <3>5, <3>6
  <2> QED BY <2>2, <2>3, <2>4, <2>5, <2>6 DEF TypeOK
<1>4. CASE BootRead(p)
  <2> DEFINE kept == Slotted(slots[p], BootEntries(p))
  <2>1. /\ UNCHANGED <<pc, near, blob, log, first, page, target, restarts, astray>>
        /\ gap' \subseteq Replica /\ torn' \subseteq Replica
        /\ cursor' \in [Replica -> 0..Len(log)]
        /\ \/ booting' = booting /\ index' = index /\ slots' = [slots EXCEPT ![p] = kept]
           \/ /\ booting' = booting \ {p} /\ slots' = [slots EXCEPT ![p] = {}]
              /\ index' = [index EXCEPT ![p] = Booted(kept)]
    BY <1>4, BootTells
  <2>2. kept \subseteq Key /\ Booted(kept) \in [Key -> {"none", "live", "tomb"}]
    BY SlotsTyped
  <2> HIDE DEF kept
  <2>3. /\ index' \in [Replica -> [Key -> {"none", "live", "tomb"}]]
        /\ slots' \in [Replica -> SUBSET Key] /\ booting' \subseteq Replica
    <3>1. /\ index \in [Replica -> [Key -> {"none", "live", "tomb"}]]
          /\ slots \in [Replica -> SUBSET Key] /\ booting \subseteq Replica
      BY DEF TypeOK
    <3>2. CASE booting' = booting /\ index' = index /\ slots' = [slots EXCEPT ![p] = kept]
      BY <2>2, <3>1, <3>2
    <3>3. CASE /\ booting' = booting \ {p} /\ slots' = [slots EXCEPT ![p] = {}]
               /\ index' = [index EXCEPT ![p] = Booted(kept)]
      BY <2>2, <3>1, <3>3
    <3> QED BY <2>1, <3>2, <3>3
  <2> QED BY <2>1, <2>3 DEF TypeOK
<1> QED BY <1>1, <1>2, <1>3, <1>4 DEF PollStep, BootStep

LEMMA NextTyped == TypeOK /\ [Next]_vars => TypeOK'
<1> SUFFICES ASSUME TypeOK, [Next]_vars PROVE TypeOK'
  OBVIOUS
<1>1. CASE Expire \/ UNCHANGED vars
  BY <1>1 DEF Expire, TypeOK
<1> QED BY <1>1, TaskTyped, ReplicaTyped DEF Next

(***************************************************************************)
(* Every reachable state is typed: no cursor is past the stream.           *)
(***************************************************************************)
THEOREM TypeCorrect == Spec => []TypeOK
BY InitTyped, NextTyped, PTL DEF Spec

-----------------------------------------------------------------------------
(***************************************************************************)
(* The index follows the stream.                                           *)
(***************************************************************************)
Grows ==
  /\ first' >= first
  /\ log' = log \/ \E e \in Entry : log' = Append(log, e)

(* What a step does to the stream leaves what it holds where it is.          *)
LEMMA GrowthTells ==
  ASSUME TypeOK, Grows, NEW a \in Nat, a >= 1, NEW b \in 0..Len(log), NEW k, NEW op
  PROVE  /\ Len(log) \in Nat /\ Len(log') >= Len(log) /\ b \in 0..Len(log')
         /\ Quiet(log', a, b, k) <=> Quiet(log, a, b, k)
         /\ LastIs(log', a, b, k, op) <=> LastIs(log, a, b, k, op)
         /\ a <= Len(log) + 1 /\ Quiet(log', a, Len(log'), k) =>
              /\ Quiet(log, a, Len(log), k)
              /\ \A e \in Entry : log' = Append(log, e) /\ log' # log => e.key # k
<1>1. log \in Seq(Entry) /\ Len(log) \in Nat
  BY DEF TypeOK
<1>2. CASE log' = log
  BY <1>1, <1>2
<1>3. ASSUME NEW e \in Entry, log' = Append(log, e)
      PROVE  /\ Len(log') = Len(log) + 1
             /\ Quiet(log', a, b, k) <=> Quiet(log, a, b, k)
             /\ LastIs(log', a, b, k, op) <=> LastIs(log, a, b, k, op)
             /\ a <= Len(log) + 1 /\ Quiet(log', a, Len(log'), k) =>
                  Quiet(log, a, Len(log), k) /\ e.key # k
  BY <1>1, <1>3, AppendTells
<1>4. \A e, d \in Entry : Append(log, e) = Append(log, d) => e = d
  <2> SUFFICES ASSUME NEW e \in Entry, NEW d \in Entry, Append(log, e) = Append(log, d)
               PROVE  e = d
    OBVIOUS
  <2>1. Append(log, e)[Len(log) + 1] = e /\ Append(log, d)[Len(log) + 1] = d
    BY <1>1
  <2> QED BY <2>1
<1> QED BY <1>1, <1>2, <1>3, <1>4 DEF Grows

LEMMA KnownBefore ==
  ASSUME TypeOK, Grows, first' \in Nat, NEW p \in Replica, NEW k \in Key,
         cursor'[p] = cursor[p], p \notin gap' => p \notin gap, Known(p, k)'
  PROVE  Known(p, k)
<1>1. /\ first \in Nat /\ first >= 1 /\ cursor[p] \in 0..Len(log) /\ Len(log) \in Nat
      /\ log \in Seq(Entry) /\ first' >= first
  BY DEF TypeOK, Grows
<1>2. \A i \in 1..Len(log) : log'[i] = log[i]
  BY <1>1 DEF Grows
<1>3. ASSUME NEW i \in first'..cursor[p] PROVE i \in first..cursor[p] /\ log'[i] = log[i]
  BY <1>1, <1>2
<1> QED BY <1>3 DEF Known

LEMMA StaysAgreed ==
  ASSUME FeedInv, Grows, NEW p \in Replica, NEW k \in Key,
         cursor'[p] = cursor[p], Live(p, k)' = Live(p, k), first' \in Nat,
         p \notin booting' => p \notin booting, p \notin gap' => p \notin gap,
         k \notin astray'[p] => k \notin astray[p],
         Untold(p, k) =>
           \/ Untold(p, k)'
           \/ k \in astray'[p]
           \/ log' # log /\ \E e \in Entry : log' = Append(log, e) /\ e.key = k
  PROVE  Agrees(p, k)'
<1>1. /\ Len(log) \in Nat /\ cursor[p] \in 0..Len(log) /\ cursor[p] + 1 \in Nat
      /\ cursor[p] + 1 >= 1 /\ cursor[p] + 1 <= Len(log) + 1 /\ Len(log) \in 0..Len(log)
  BY DEF FeedInv, TypeOK
<1>2. LastIs(log', 1, cursor[p], k, "put") <=> LastIs(log, 1, cursor[p], k, "put")
  BY <1>1, GrowthTells DEF FeedInv
<1>3. Quiet(log', cursor[p] + 1, Len(log'), k) =>
        /\ Quiet(log, cursor[p] + 1, Len(log), k)
        /\ \A e \in Entry : log' = Append(log, e) /\ log' # log => e.key # k
  BY <1>1, GrowthTells DEF FeedInv
<1>4. Agrees(p, k)
  BY DEF FeedInv
<1>5. Known(p, k)' => Known(p, k)
  BY KnownBefore DEF FeedInv
<1> QED BY <1>2, <1>3, <1>4, <1>5 DEF Agrees

LEMMA UntoldStays ==
  ASSUME NEW t \in Task, NEW there, pc' = [pc EXCEPT ![t] = there],
         near' = near \/ \E k \in Key : near' = [near EXCEPT ![t] = k],
         TypeOK, pc[t] \notin {"drop", "append"}
  PROVE  \A p \in Replica, k \in Key : Untold(p, k) => Untold(p, k)'
<1>1. \A u \in Task : u # t => pc'[u] = pc[u] /\ near'[u] = near[u]
  BY DEF TypeOK
<1> QED BY <1>1 DEF Untold

(* Steps of tasks that leave the index alone, and what they add.             *)
LEMMA LooksAgree ==
  ASSUME FeedInv, NEW t \in Task,
         \/ Lookup(t) \/ Search(t) \/ Get(t) \/ Fetch(t) \/ Leave(t) \/ AddFails(t)
         \/ Put(t) \/ Erase(t) \/ Add(t) \/ Trim(t)
  PROVE  Grows /\ \A p \in Replica, k \in Key : Agrees(p, k)'
<1>1. /\ UNCHANGED <<index, cursor, booting, gap, astray>>
      /\ \E there : pc' = [pc EXCEPT ![t] = there]
      /\ near' = near \/ \E k \in Key : near' = [near EXCEPT ![t] = k]
      /\ pc[t] \notin {"drop", "append"}
  BY DEF Lookup, Search, Get, Fetch, Leave, AddFails, Put, Erase, Add, Trim
<1>2. \A p \in Replica, k \in Key : Untold(p, k) => Untold(p, k)'
  BY <1>1, UntoldStays DEF FeedInv
<1>3. Grows /\ first' \in Nat
  <2>2. first \in Nat /\ Len(log) \in Nat
    BY DEF FeedInv, TypeOK
  <2>1. CASE Add(t)
    <3>1. Target[t] \in Key /\ "put" \in {"put", "del"} /\ XAdd("put", Target[t]) /\ TypeOK
      BY <2>1, TargetAssumption DEF Add, FeedInv
    <3>2. /\ log' = Append(log, [op |-> "put", key |-> Target[t]])
          /\ [op |-> "put", key |-> Target[t]] \in Entry
      BY <3>1, AddTyped
    <3>3. first' \in Nat /\ first' >= first
      BY <2>2, <3>1 DEF XAdd
    <3> QED BY <3>2, <3>3 DEF Grows
  <2>3. CASE Trim(t)
    BY <2>2, <2>3 DEF Trim, Grows
  <2> QED BY <2>1, <2>2, <2>3 DEF Lookup, Search, Get, Fetch, Leave, AddFails, Put, Erase, Grows
<1>4. \A p \in Replica, k \in Key : Agrees(p, k)'
  BY <1>1, <1>2, <1>3, StaysAgreed DEF Live
<1> QED BY <1>3, <1>4

(* Who sets a tombstone has yet to tell the stream.                          *)
LEMMA TombsAgree ==
  ASSUME FeedInv, NEW t \in Task, Heal(t) \/ Tomb(t)
  PROVE  Grows /\ \A p \in Replica, k \in Key : Agrees(p, k)'
<1>1. PICK k \in Key : /\ SetTombstone(Home[t], k)
                       /\ \/ k = near[t] /\ pc' = [pc EXCEPT ![t] = "drop"]
                          \/ k = Target[t] /\ pc' = [pc EXCEPT ![t] = "append"]
  BY TargetAssumption DEF Heal, Tomb, FeedInv, TypeOK
<1>2. /\ UNCHANGED <<near, log, first, cursor, booting, gap, astray>> /\ first \in Nat
      /\ pc[t] \notin {"drop", "append"}
  BY DEF Heal, Tomb, FeedInv, TypeOK
<1>3. \A p \in Replica, j \in Key : Untold(p, j) => Untold(p, j)'
  BY <1>1, <1>2, UntoldStays DEF FeedInv
<1>4. Untold(Home[t], k)'
  BY <1>1, <1>2 DEF Untold, FeedInv, TypeOK
<1>5. \A p \in Replica, j \in Key :
        p # Home[t] \/ j # k => index'[p][j] = index[p][j]
  BY <1>1, HomeAssumption DEF SetTombstone, FeedInv, TypeOK
<1>6. Grows
  BY <1>2 DEF Grows
<1>7. ASSUME NEW p \in Replica, NEW j \in Key PROVE Agrees(p, j)'
  <2>1. CASE p = Home[t] /\ j = k
    BY <1>4, <2>1 DEF Agrees
  <2>2. CASE ~(p = Home[t] /\ j = k)
    BY <1>2, <1>3, <1>5, <1>6, <2>2, StaysAgreed DEF Live
  <2> QED BY <2>1, <2>2
<1> QED BY <1>6, <1>7

(* It tells the stream, or its key goes astray.                              *)
LEMMA TellsAgree ==
  ASSUME FeedInv, NEW t \in Task, Drop(t) \/ AppendDel(t)
  PROVE  Grows /\ \A p \in Replica, k \in Key : Agrees(p, k)'
<1>0. /\ Home[t] \in Replica /\ Target[t] \in Key /\ near[t] \in Key
      /\ astray \in [Replica -> SUBSET Key]
  BY HomeAssumption, TargetAssumption DEF FeedInv, TypeOK
<1>1. PICK k \in Key :
        /\ AddTombstone(Home[t], k)
        /\ (pc[t] = "drop" /\ k = near[t]) \/ (pc[t] = "append" /\ k = Target[t])
  BY <1>0 DEF Drop, AppendDel
<1>2. /\ UNCHANGED <<near, index, cursor, booting, gap>>
      /\ \A u \in Task \ {t} : pc'[u] = pc[u]
  BY DEF Drop, AppendDel, FeedInv, TypeOK
<1>3. \/ UNCHANGED astray /\ log' # log
         /\ \E e \in Entry : log' = Append(log, e) /\ e.key = k
      \/ UNCHANGED log /\ astray' = [astray EXCEPT ![Home[t]] = @ \cup {k}]
  <2>1. CASE XAdd("del", k) /\ UNCHANGED astray
    <3>1. /\ log' = Append(log, [op |-> "del", key |-> k])
          /\ [op |-> "del", key |-> k] \in Entry /\ Len(log') = Len(log) + 1
      BY <2>1, AddTyped DEF FeedInv
    <3>2. Len(log) \in Nat
      BY DEF FeedInv, TypeOK
    <3> QED BY <2>1, <3>1, <3>2
  <2> QED BY <1>1, <2>1 DEF AddTombstone
<1>4. Grows /\ first' \in Nat
  <2>1. first' \in Nat /\ first' >= first
    <3>1. first \in Nat /\ Len(log) \in Nat
      BY DEF FeedInv, TypeOK
    <3> QED BY <1>1, <3>1 DEF AddTombstone, XAdd
  <2> QED BY <1>3, <2>1 DEF Grows
<1>5. ASSUME NEW p \in Replica, NEW j \in Key PROVE Agrees(p, j)'
  <2>1. j \notin astray'[p] => j \notin astray[p]
    BY <1>0, <1>3
  <2>2. CASE p = Home[t] /\ j = k
    <3>1. \/ j \in astray'[p]
          \/ log' # log /\ \E e \in Entry : log' = Append(log, e) /\ e.key = j
      BY <1>0, <1>3, <2>2
    <3> QED BY <1>2, <1>4, <2>1, <3>1, StaysAgreed DEF Live
  <2>3. CASE ~(p = Home[t] /\ j = k)
    <3>1. Untold(p, j) => Untold(p, j)'
      BY <1>1, <1>2, <2>3 DEF Untold
    <3> QED BY <1>2, <1>4, <2>1, <3>1, StaysAgreed DEF Live
  <2> QED BY <2>2, <2>3
<1> QED BY <1>4, <1>5

(* A node that is inserted has its record in the stream.  It is before the   *)
(* cursor if nothing of the key is after it, and then only a tombstone can   *)
(* have followed it.                                                         *)
LEMMA InsertAgrees ==
  ASSUME FeedInv, NEW t \in Task, Insert(t)
  PROVE  Grows /\ \A p \in Replica, k \in Key : Agrees(p, k)'
<1> DEFINE h == Home[t]
           g == Target[t]
           c == cursor[h]
<1>1. /\ UNCHANGED <<near, log, first, cursor, booting, gap>> /\ pc[t] = "insert"
      /\ pc' = [pc EXCEPT ![t] = "done"]
      /\ index' = [index EXCEPT ![h][g] = "live"]
      /\ astray' = IF Folded(Applied(h), g) = "del"
                   THEN [astray EXCEPT ![h] = @ \cup {g}] ELSE astray
  BY DEF Insert, Inserted
<1>2. /\ h \in Replica /\ g \in Key /\ log \in Seq(Entry) /\ Len(log) \in Nat
      /\ c \in 0..Len(log) /\ c \in Nat /\ astray \in [Replica -> SUBSET Key]
      /\ first \in Nat
  BY HomeAssumption, TargetAssumption DEF FeedInv, TypeOK
<1>3. \A p \in Replica, k \in Key : Untold(p, k) => Untold(p, k)'
  BY <1>1, UntoldStays DEF FeedInv
<1>4. Grows
  BY <1>1, <1>2 DEF Grows
<1>5. PICK i \in 1..Len(log) : log[i] = [op |-> "put", key |-> g]
  BY <1>1 DEF FeedInv, InsertsAdded
<1>6. ASSUME Quiet(log, c + 1, Len(log), g) PROVE ~Quiet(log, 1, c, g)
  <2>1. ~Quiet(log, 1, Len(log), g)
    BY <1>5 DEF Quiet
  <2>2. Quiet(log, 1, Len(log), g) <=> Quiet(log, 1, c, g) /\ Quiet(log, c + 1, Len(log), g)
    <3>1. 1 <= c + 1 /\ c <= Len(log)
      BY <1>2
    <3> HIDE DEF c, g
    <3> QED BY <1>2, <3>1, QuietJoins
  <2> QED BY <1>6, <2>1, <2>2
<1>7. /\ Folded(Applied(h), g) \in {"none", "put", "del"}
      /\ Folded(Applied(h), g) = "none" <=> Quiet(log, 1, c, g)
      /\ Folded(Applied(h), g) = "put" <=> LastIs(log, 1, c, g, "put")
  <2>1. 1 \in 1..(Len(log) + 1) /\ 1 <= c + 1
    BY <1>2
  <2> QED BY <1>2, <2>1, PartTells DEF Applied
<1>8. ASSUME NEW p \in Replica, NEW k \in Key PROVE Agrees(p, k)'
  <2>1. k \notin astray'[p] => k \notin astray[p]
    <3>1. astray' = astray \/ astray' = [astray EXCEPT ![h] = @ \cup {g}]
      BY <1>1
    <3> HIDE DEF h, g
    <3> QED BY <1>2, <3>1
  <2>2. CASE p = h /\ k = g
    <3>1. Live(p, k)'
      BY <1>1, <1>2, <2>2 DEF Live, FeedInv, TypeOK
    <3>2. k \notin astray'[p] => Folded(Applied(h), g) # "del"
      BY <1>1, <1>2, <2>2 DEF FeedInv, TypeOK
    <3> HIDE DEF h, g
    <3>3. k \notin astray'[p] /\ Quiet(log, c + 1, Len(log), g) => LastIs(log, 1, c, g, "put")
      BY <1>6, <1>7, <3>2
    <3> QED BY <1>1, <2>2, <3>1, <3>3 DEF Agrees
  <2>3. CASE ~(p = h /\ k = g)
    <3>1. index'[p][k] = index[p][k]
      BY <1>1, <1>2, <2>3 DEF FeedInv, TypeOK
    <3> QED BY <1>1, <1>2, <1>3, <1>4, <2>1, <3>1, StaysAgreed DEF Live
  <2> QED BY <2>2, <2>3
<1> QED BY <1>4, <1>8

(* A page decides on every key it names.  It joins up with what was read     *)
(* before, or all the records of other keys that the stream still holds are  *)
(* after it: of those nothing is known.                                      *)
LEMMA PageDecides ==
  ASSUME TypeOK, NEW p \in Replica, NEW d \in 0..Len(log), NEW s \in (cursor[p] + 1)..d,
         NEW g, p \in gap => g, s = cursor[p] + 1 \/ (g /\ s <= first), NEW k \in Key,
         ~g \/ \E i \in first..d : log[i].key = k,
         Folded(SubSeq(log, s, d), k) = "none"
  PROVE  s = cursor[p] + 1 /\ Known(p, k)
<1>1. /\ first \in Nat /\ cursor[p] \in Nat /\ first >= 1 /\ log \in Seq(Entry) /\ Len(log) \in Nat
  BY DEF TypeOK
<1>2. Quiet(log, s, d, k)
  BY <1>1, PageTells
<1>3. CASE ~g
  BY <1>3 DEF Known
<1>4. ASSUME NEW i \in first..d, log[i].key = k PROVE s = cursor[p] + 1 /\ Known(p, k)
  <2>1. ~(i \in s..d)
    BY <1>2, <1>4 DEF Quiet
  <2>2. i < s /\ s = cursor[p] + 1 /\ i \in first..cursor[p]
    BY <1>1, <2>1
  <2> QED BY <1>4, <2>2 DEF Known
<1> QED BY <1>3, <1>4

(* A page that is applied is the stream up to the new cursor.                *)
LEMMA ApplyAgrees ==
  ASSUME FeedInv, NEW p \in Replica, Apply(p)
  PROVE  Grows /\ \A q \in Replica, k \in Key : Agrees(q, k)'
<1>1. /\ UNCHANGED <<pc, near, log, first, booting, gap>> /\ page[p] # <<>>
      /\ index' = [index EXCEPT ![p] = [k \in Key |-> AfterEntries(@[k], page[p], k)]]
      /\ cursor' = [cursor EXCEPT ![p] = target[p]]
      /\ astray' = [astray EXCEPT ![p] = {k \in @ : Folded(page[p], k) = "none"}]
  BY DEF Apply, Advanced
<1>3. /\ index \in [Replica -> [Key -> {"none", "live", "tomb"}]]
      /\ cursor \in [Replica -> 0..Len(log)] /\ target \in [Replica -> 0..Len(log)]
      /\ astray \in [Replica -> SUBSET Key]
      /\ log \in Seq(Entry) /\ Len(log) \in Nat /\ first \in Nat
  BY DEF FeedInv, TypeOK
<1>2. Grows /\ \A q \in Replica, k \in Key : Untold(q, k) <=> Untold(q, k)'
  BY <1>1, <1>3 DEF Grows, Untold
<1>4. ASSUME NEW q \in Replica \ {p}, NEW k \in Key PROVE Agrees(q, k)'
  <2>1. index'[q] = index[q] /\ cursor'[q] = cursor[q] /\ astray'[q] = astray[q]
    BY <1>1, <1>3
  <2> QED BY <1>1, <1>2, <1>3, <2>1, StaysAgreed DEF Live
<1>5. ASSUME NEW k \in Key, p \notin gap \/ \E i \in first..target[p] : log[i].key = k,
             k \notin astray'[p], ~Untold(p, k)', Quiet(log, target[p] + 1, Len(log), k)
      PROVE  Live(p, k)' <=> LastIs(log, 1, target[p], k, "put")
  <2> DEFINE c == cursor[p]
             d == target[p]
             e == page[p]
  <2>1. /\ p \notin booting
        /\ \E s \in (c + 1)..d : e = SubSeq(log, s, d) /\ (s = c + 1 \/ (p \in gap /\ s <= first))
    BY <1>1 DEF FeedInv, PagesFit, PageFits
  <2>2. PICK s \in (c + 1)..d : e = SubSeq(log, s, d) /\ (s = c + 1 \/ (p \in gap /\ s <= first))
    BY <2>1
  <2>3. c \in Nat /\ d \in 0..Len(log) /\ c <= d /\ d <= Len(log) /\ d \in Nat
    BY <1>3, <2>2
  <2>4. /\ Folded(e, k) \in {"none", "put", "del"}
        /\ Folded(e, k) # "none" => (LastIs(log, 1, d, k, "put") <=> Folded(e, k) = "put")
        /\ Folded(e, k) = "none" => Quiet(log, s, d, k)
        /\ Folded(e, k) = "none" /\ s = c + 1 =>
             (LastIs(log, 1, d, k, "put") <=> LastIs(log, 1, c, k, "put"))
    BY <1>3, <2>2, <2>3, PageTells
  <2>5. index'[p][k] = AfterEntries(index[p][k], e, k)
    BY <1>1, <1>3
  <2>6. k \in astray[p] => Folded(e, k) # "none"
    BY <1>1, <1>3, <1>5
  <2>7. index[p][k] \in {"none", "live", "tomb"}
    BY <1>3
  <2>8. CASE Folded(e, k) = "none"
    <3>1. s = c + 1 /\ Known(p, k)
      BY <1>5, <2>2, <2>3, <2>8, PageDecides DEF FeedInv
    <3> HIDE DEF c, d, e
    <3>2. Quiet(log, c + 1, d, k) /\ Quiet(log, d + 1, Len(log), k)
      BY <1>5, <2>4, <2>8, <3>1 DEF d
    <3>3. c + 1 \in Nat /\ c + 1 <= d + 1
      BY <2>3
    <3>4. Quiet(log, c + 1, Len(log), k)
      BY <1>3, <2>3, <3>2, <3>3, QuietJoins
    <3>5. Live(p, k) <=> LastIs(log, 1, c, k, "put")
      BY <1>2, <1>5, <2>1, <2>6, <2>8, <3>1, <3>4 DEF FeedInv, Agrees, c
    <3>6. Live(p, k)' <=> Live(p, k)
      BY <2>5, <2>8 DEF Live, AfterEntries
    <3> QED BY <2>4, <2>8, <3>1, <3>5, <3>6 DEF d
  <2>9. CASE Folded(e, k) # "none"
    <3> HIDE DEF e
    <3>1. Live(p, k)' <=> Folded(e, k) = "put"
      BY <2>4, <2>5, <2>7, <2>9 DEF Live, AfterEntries, Inserted, Tombstoned
    <3> QED BY <2>4, <2>9, <3>1
  <2> QED BY <2>8, <2>9
<1>6. \A k \in Key : Agrees(p, k)'
  <2>1. cursor'[p] = target[p] /\ log' = log /\ first' = first /\ gap' = gap
    BY <1>1, <1>3
  <2> QED BY <1>5, <2>1 DEF Agrees, Known
<1> QED BY <1>2, <1>4, <1>6

(* A page that is read changes no index.                                     *)
LEMMA ReadAgrees ==
  ASSUME FeedInv, NEW p \in Replica, Read(p)
  PROVE  Grows /\ \A q \in Replica, k \in Key : Agrees(q, k)'
<1>1. /\ UNCHANGED <<pc, near, log, first, index, cursor, booting, astray>> /\ gap \subseteq gap'
      /\ first \in Nat
  BY ReadTells DEF FeedInv, TypeOK
<1>2. Grows /\ \A q \in Replica, k \in Key : Untold(q, k) => Untold(q, k)'
  BY <1>1 DEF Grows, Untold
<1> QED BY <1>1, <1>2, StaysAgreed DEF Live

(* What the slots have after a page of a boot, of the keys that are known    *)
(* then; and whatever was trimmed before it, a boot that was not torn has no *)
(* slot too many.                                                            *)
LEMMA SlotsTell ==
  ASSUME FeedInv, NEW p \in Replica, BootRead(p), NEW k \in Key
  PROVE  LET d    == cursor'[p]
             kept == Slotted(slots[p], BootEntries(p))
         IN  /\ p \notin gap' \/ (\E i \in first..d : log[i].key = k) =>
                  (k \in kept <=> LastIs(log, 1, d, k, "put"))
             /\ p \notin torn' /\ k \in kept => LastIs(log, 1, d, k, "put")
<1> DEFINE c == cursor[p]
           d == cursor'[p]
           e == BootEntries(p)
           kept == Slotted(slots[p], e)
<1>1. /\ gap \subseteq gap' /\ torn \subseteq torn' /\ d \in 0..Len(log) /\ p \in booting
      /\ \/ d = c /\ e = <<>> /\ Len(log) < From(p)
         \/ \E s \in (c + 1)..d :
              /\ e = SubSeq(log, s, d)
              /\ s = c + 1 \/ (p \in gap' /\ s <= first /\ (c > 0 => p \in torn'))
  BY BootTells DEF FeedInv
<1>2. /\ Known(p, k) => (k \in slots[p] <=> LastIs(log, 1, c, k, "put"))
      /\ p \notin torn /\ k \in slots[p] => LastIs(log, 1, c, k, "put")
  BY <1>1 DEF FeedInv, BootFits
<1>3. c \in Nat /\ log \in Seq(Entry) /\ Len(log) \in Nat
  BY DEF FeedInv, TypeOK
<1>4. k \in kept <=> Folded(e, k) = "put" \/ (Folded(e, k) = "none" /\ k \in slots[p])
  BY DEF Slotted
<1>5. CASE d = c /\ e = <<>> /\ Len(log) < From(p)
  <2>1. Folded(e, k) = "none"
    BY <1>5 DEF Folded
  <2>2. p \notin gap' \/ (\E i \in first..d : log[i].key = k) => Known(p, k)
    BY <1>1, <1>5 DEF Known
  <2> HIDE DEF c, d, e, kept
  <2>3. k \in kept <=> k \in slots[p]
    BY <1>4, <2>1
  <2> QED BY <1>1, <1>2, <1>5, <2>2, <2>3 DEF c, d, e, kept
<1>6. ASSUME NEW s \in (c + 1)..d, e = SubSeq(log, s, d),
             s = c + 1 \/ (p \in gap' /\ s <= first /\ (c > 0 => p \in torn'))
      PROVE  /\ p \notin gap' \/ (\E i \in first..d : log[i].key = k) =>
                  (k \in kept <=> LastIs(log, 1, d, k, "put"))
             /\ p \notin torn' /\ k \in kept => LastIs(log, 1, d, k, "put")
  <2>1. /\ Folded(e, k) \in {"none", "put", "del"}
        /\ Folded(e, k) # "none" => (LastIs(log, 1, d, k, "put") <=> Folded(e, k) = "put")
        /\ Folded(e, k) = "none" /\ s = c + 1 =>
             (LastIs(log, 1, d, k, "put") <=> LastIs(log, 1, c, k, "put"))
    BY <1>1, <1>3, <1>6, PageTells
  <2>2. Folded(e, k) = "none" /\ (p \notin gap' \/ (\E i \in first..d : log[i].key = k)) =>
          s = c + 1 /\ Known(p, k)
    <3> SUFFICES ASSUME Folded(e, k) = "none",
                        p \notin gap' \/ (\E i \in first..d : log[i].key = k)
                 PROVE  s = c + 1 /\ Known(p, k)
      OBVIOUS
    <3> DEFINE g == p \in gap'
    <3>1. /\ TypeOK /\ (p \in gap => g) /\ (s = cursor[p] + 1 \/ (g /\ s <= first))
          /\ ~g \/ \E i \in first..d : log[i].key = k
      BY <1>1, <1>6 DEF FeedInv
    <3>2. d \in 0..Len(log) /\ s \in (cursor[p] + 1)..d /\ Folded(SubSeq(log, s, d), k) = "none"
      BY <1>1, <1>6
    <3> HIDE DEF g, d
    <3> QED BY <3>1, <3>2, PageDecides
  <2>3. ~LastIs(log, 1, 0, k, "put")
    BY DEF LastIs
  <2>4. p \notin torn' /\ s # c + 1 => c = 0
    BY <1>3, <1>6
  <2> HIDE DEF c, d, e, kept
  <2>5. p \notin torn' /\ k \in kept => LastIs(log, 1, d, k, "put")
    <3> SUFFICES ASSUME p \notin torn', k \in kept PROVE LastIs(log, 1, d, k, "put")
      OBVIOUS
    <3>1. CASE Folded(e, k) # "none"
      BY <1>4, <2>1, <3>1
    <3>2. CASE Folded(e, k) = "none"
      <4>1. LastIs(log, 1, c, k, "put")
        BY <1>1, <1>2, <1>4, <3>2
      <4>2. s = c + 1
        BY <2>3, <2>4, <4>1
      <4> QED BY <2>1, <3>2, <4>1, <4>2
    <3> QED BY <3>1, <3>2
  <2> QED BY <1>2, <1>4, <2>1, <2>2, <2>5
<1> QED BY <1>1, <1>5, <1>6

(* Where a replica that boots stands: nothing is asked of its index, but     *)
(* when the boot ends it is what the slots are.                              *)
LEMMA BootAgrees ==
  ASSUME FeedInv, NEW p \in Replica, BootStep(p)
  PROVE  Grows /\ \A q \in Replica, k \in Key : Agrees(q, k)'
<1>1. /\ UNCHANGED <<near, log, first>> /\ first \in Nat
      /\ \A t \in Task : Home[t] # p => pc'[t] = pc[t]
      /\ \A q \in Replica \ {p} :
           /\ index'[q] = index[q] /\ cursor'[q] = cursor[q] /\ astray'[q] = astray[q]
           /\ q \in booting' <=> q \in booting
           /\ q \in gap' <=> q \in gap
  <2>1. CASE BootRead(p)
    BY <2>1, BootTells DEF FeedInv, TypeOK
  <2>2. CASE Restart(p) \/ BootFails(p)
    BY <2>2 DEF Restart, BootFails, FeedInv, TypeOK
  <2> QED BY <2>1, <2>2 DEF BootStep
<1>2. Grows
  BY <1>1 DEF Grows
<1>3. ASSUME NEW q \in Replica \ {p}, NEW k \in Key PROVE Agrees(q, k)'
  <2>1. Untold(q, k) => Untold(q, k)'
    BY <1>1 DEF Untold
  <2> QED BY <1>1, <1>2, <2>1, StaysAgreed DEF Live
<1>4. ASSUME NEW k \in Key PROVE Agrees(p, k)'
  <2>1. CASE Restart(p)
    BY <2>1 DEF Restart, Agrees
  <2>2. CASE BootFails(p)
    <3>1. ~Live(p, k)' /\ cursor'[p] = 0
      BY <2>2 DEF BootFails, Booted, Live, FeedInv, TypeOK
    <3>2. ~LastIs(log', 1, 0, k, "put")
      BY DEF LastIs
    <3> QED BY <3>1, <3>2 DEF Agrees
  <2>3. CASE BootRead(p)
    <3> DEFINE kept == Slotted(slots[p], BootEntries(p))
    <3> SUFFICES ASSUME p \notin booting', Known(p, k)'
                 PROVE  Live(p, k)' <=> LastIs(log', 1, cursor'[p], k, "put")
      BY DEF Agrees
    <3>1. index' = [index EXCEPT ![p] = Booted(kept)]
      BY <2>3, BootTells DEF FeedInv
    <3>2. Live(p, k)' <=> k \in kept
      BY <3>1 DEF Live, Booted, FeedInv, TypeOK
    <3>3. p \notin gap' \/ \E i \in first..cursor'[p] : log[i].key = k
      BY <1>1 DEF Known
    <3>4. k \in kept <=> LastIs(log, 1, cursor'[p], k, "put")
      BY <2>3, <3>3, SlotsTell
    <3> QED BY <1>1, <3>2, <3>4
  <2> QED BY <2>1, <2>2, <2>3 DEF BootStep
<1> QED BY <1>2, <1>3, <1>4

-----------------------------------------------------------------------------
LEMMA PartStays ==
  ASSUME TypeOK, Grows, NEW a \in 1..(Len(log) + 1), NEW b \in 0..Len(log), a <= b
  PROVE  SubSeq(log', a, b) = SubSeq(log, a, b)
<1>1. log \in Seq(Entry) /\ Len(log) \in Nat /\ a \in Int /\ b \in Int
  BY DEF TypeOK
<1>2. \A i \in 1..Len(log) : log[i] \in Entry /\ log'[i] = log[i]
  BY <1>1 DEF Grows
<1>3. \A i \in a..b : log[i] \in Entry /\ log'[i] = log[i]
  BY <1>1, <1>2
<1>4. /\ SubSeq(log, a, b) \in Seq(Entry) /\ Len(SubSeq(log, a, b)) = b - a + 1
      /\ \A i \in 1..(b - a + 1) : SubSeq(log, a, b)[i] = log[a + i - 1]
  BY <1>1, <1>3, SubSeqProperties
<1>5. \A i \in a..b : log'[i] \in Entry
  BY <1>3
<1>6. /\ SubSeq(log', a, b) \in Seq(Entry) /\ Len(SubSeq(log', a, b)) = b - a + 1
      /\ \A i \in 1..(b - a + 1) : SubSeq(log', a, b)[i] = log'[a + i - 1]
  BY <1>1, <1>5, SubSeqProperties
<1>7. \A i \in 1..(b - a + 1) : a + i - 1 \in a..b
  BY <1>1
<1>8. \A i \in 1..(b - a + 1) : SubSeq(log', a, b)[i] = SubSeq(log, a, b)[i]
  BY <1>3, <1>4, <1>6, <1>7
<1> QED BY <1>4, <1>6, <1>8, SeqEqual

LEMMA PageStays ==
  ASSUME FeedInv, Grows, NEW p \in Replica, p \in gap => p \in gap', first' \in Nat,
         p \in booting' => p \in booting,
         cursor'[p] = cursor[p], page'[p] = page[p], target'[p] = target[p]
  PROVE  PageFits(p)'
<1> SUFFICES ASSUME page[p] # <<>>
             PROVE  /\ p \notin booting'
                    /\ \E s \in (cursor[p] + 1)..target[p] :
                         /\ page[p] = SubSeq(log', s, target[p])
                         /\ s = cursor[p] + 1 \/ (p \in gap' /\ s <= first')
  BY DEF PageFits
<1>1. /\ p \notin booting
      /\ \E s \in (cursor[p] + 1)..target[p] :
           /\ page[p] = SubSeq(log, s, target[p])
           /\ s = cursor[p] + 1 \/ (p \in gap /\ s <= first)
  BY DEF FeedInv, PagesFit, PageFits
<1>2. PICK s \in (cursor[p] + 1)..target[p] :
        /\ page[p] = SubSeq(log, s, target[p])
        /\ s = cursor[p] + 1 \/ (p \in gap /\ s <= first)
  BY <1>1
<1>3. /\ first \in Nat /\ first' >= first /\ cursor[p] \in 0..Len(log)
      /\ target[p] \in 0..Len(log) /\ Len(log) \in Nat
  BY DEF FeedInv, TypeOK, Grows
<1>4. s \in 1..(Len(log) + 1) /\ s <= target[p]
  BY <1>3
<1>5. SubSeq(log', s, target[p]) = SubSeq(log, s, target[p])
  BY <1>3, <1>4, PartStays DEF FeedInv
<1>6. s <= first => s <= first'
  BY <1>3
<1> QED BY <1>1, <1>2, <1>5, <1>6

LEMMA StepPagesFit ==
  ASSUME FeedInv, Grows, Next, TypeOK'
  PROVE  PagesFit'
<1> SUFFICES ASSUME NEW p \in Replica PROVE PageFits(p)'
  BY DEF PagesFit
<1>0. first' \in Nat
  BY DEF TypeOK
<1>1. CASE UNCHANGED <<booting, gap, cursor, page, target>>
  BY <1>0, <1>1, PageStays
<1>2. ASSUME NEW q \in Replica, Read(q) PROVE PageFits(p)'
  <2>1. CASE p = q
    BY <1>2, <2>1, ReadTells DEF FeedInv, PageFits
  <2>2. CASE p # q
    <3>1. /\ page'[p] = page[p] /\ target'[p] = target[p] /\ cursor' = cursor
          /\ booting' = booting
          /\ p \in gap => p \in gap'
      BY <1>2, <2>2, ReadTells DEF FeedInv
    <3> QED BY <1>0, <3>1, PageStays
  <2> QED BY <2>1, <2>2
<1>3. ASSUME NEW q \in Replica, Apply(q) \/ Restart(q) \/ BootFails(q) PROVE PageFits(p)'
  <2>1. CASE p = q
    <3>1. q \in booting => page[q] = <<>>
      BY DEF FeedInv, PagesFit, PageFits
    <3>2. page'[p] = <<>>
      BY <1>3, <2>1, <3>1 DEF Apply, Restart, BootFails, FeedInv, TypeOK
    <3> QED BY <3>2 DEF PageFits
  <2>2. CASE p # q
    <3>1. /\ page'[p] = page[p] /\ target'[p] = target[p] /\ cursor'[p] = cursor[p]
          /\ p \in gap => p \in gap'
          /\ p \in booting' => p \in booting
      BY <1>3, <2>2 DEF Apply, Restart, BootFails, FeedInv, TypeOK
    <3> QED BY <1>0, <3>1, PageStays
  <2> QED BY <2>1, <2>2
<1>4. ASSUME NEW q \in Replica, BootRead(q) PROVE PageFits(p)'
  <2>1. CASE p = q
    <3>1. page[q] = <<>>
      BY <1>4, BootTells DEF FeedInv, PagesFit, PageFits
    <3>2. page'[p] = <<>>
      BY <1>4, <2>1, <3>1, BootTells DEF FeedInv
    <3> QED BY <3>2 DEF PageFits
  <2>2. CASE p # q
    <3>1. /\ page' = page /\ target' = target /\ cursor'[p] = cursor[p]
          /\ p \in gap => p \in gap'
          /\ p \in booting' => p \in booting
      BY <1>4, <2>2, BootTells DEF FeedInv
    <3> QED BY <1>0, <3>1, PageStays
  <2> QED BY <2>1, <2>2
<1>5. (\E t \in Task : TaskStep(t) \/ Leave(t)) \/ Expire =>
        UNCHANGED <<booting, gap, cursor, page, target>>
  BY DEF TaskStep, Leave, Expire, Lookup, Search, Get, Heal, Drop, Fetch, Put, Add, AddFails,
         Trim, Insert, Erase, Tomb, AppendDel
<1> QED BY <1>1, <1>2, <1>3, <1>4, <1>5 DEF Next, PollStep, BootStep

(* What a boot has read stays what it was while it does not read.            *)
LEMMA BootStays ==
  ASSUME FeedInv, Grows, NEW p \in Replica, NEW k \in Key, first' \in Nat,
         cursor'[p] = cursor[p], slots'[p] = slots[p], p \in booting' => p \in booting,
         p \in gap => p \in gap', p \in torn => p \in torn'
  PROVE  BootFits(p, k)'
<1>1. cursor[p] \in 0..Len(log) /\ 1 \in Nat /\ 1 >= 1
  BY DEF FeedInv, TypeOK
<1>2. LastIs(log', 1, cursor[p], k, "put") <=> LastIs(log, 1, cursor[p], k, "put")
  BY <1>1, GrowthTells DEF FeedInv
<1>3. Known(p, k)' => Known(p, k)
  BY KnownBefore DEF FeedInv
<1>4. BootFits(p, k)
  BY DEF FeedInv
<1> QED BY <1>2, <1>3, <1>4 DEF BootFits

LEMMA StepBootFits ==
  ASSUME FeedInv, Grows, Next, TypeOK'
  PROVE  \A p \in Replica, k \in Key : BootFits(p, k)'
<1> SUFFICES ASSUME NEW p \in Replica, NEW k \in Key PROVE BootFits(p, k)'
  OBVIOUS
<1>0. first' \in Nat
  BY DEF TypeOK
<1>1. CASE UNCHANGED <<cursor, slots, booting, torn>> /\ gap \subseteq gap'
  BY <1>0, <1>1, BootStays
<1>2. ASSUME NEW q \in Replica, BootRead(q) PROVE BootFits(p, k)'
  <2>1. CASE p # q
    <3>1. /\ cursor'[p] = cursor[p] /\ slots'[p] = slots[p]
          /\ p \in booting' => p \in booting
          /\ p \in gap => p \in gap'
          /\ p \in torn => p \in torn'
      BY <1>2, <2>1, BootTells DEF FeedInv
    <3> QED BY <1>0, <3>1, BootStays
  <2>2. CASE p = q /\ p \in booting'
    <3> DEFINE kept == Slotted(slots[p], BootEntries(p))
    <3>1. slots' = [slots EXCEPT ![p] = kept] /\ UNCHANGED <<log, first>>
      BY <1>2, <2>2, BootTells DEF FeedInv
    <3>2. slots'[p] = kept
      BY <3>1 DEF FeedInv, TypeOK
    <3>3. /\ p \notin gap' \/ (\E i \in first..cursor'[p] : log[i].key = k) =>
               (k \in kept <=> LastIs(log, 1, cursor'[p], k, "put"))
          /\ p \notin torn' /\ k \in kept => LastIs(log, 1, cursor'[p], k, "put")
      BY <1>2, <2>2, SlotsTell
    <3> HIDE DEF kept
    <3> QED BY <3>1, <3>2, <3>3 DEF BootFits, Known
  <2> QED BY <2>1, <2>2 DEF BootFits
<1>3. ASSUME NEW q \in Replica, Restart(q) PROVE BootFits(p, k)'
  <2>1. CASE p # q
    <3>1. /\ cursor'[p] = cursor[p] /\ slots'[p] = slots[p]
          /\ p \in booting' => p \in booting
          /\ p \in gap => p \in gap'
          /\ p \in torn => p \in torn'
      BY <1>3, <2>1 DEF Restart, FeedInv, TypeOK
    <3> QED BY <1>0, <3>1, BootStays
  <2>2. CASE p = q
    <3>1. cursor'[p] = 0 /\ slots'[p] = {}
      BY <1>3, <2>2 DEF Restart, FeedInv, TypeOK
    <3>2. ~LastIs(log', 1, 0, k, "put")
      BY DEF LastIs
    <3> QED BY <3>1, <3>2 DEF BootFits
  <2> QED BY <2>1, <2>2
<1>4. ASSUME NEW q \in Replica, Apply(q) \/ BootFails(q) PROVE BootFits(p, k)'
  <2>1. CASE p # q
    <3>1. /\ cursor'[p] = cursor[p] /\ slots'[p] = slots[p]
          /\ p \in booting' => p \in booting
          /\ p \in gap => p \in gap'
          /\ p \in torn => p \in torn'
      BY <1>4, <2>1 DEF Apply, BootFails, FeedInv, TypeOK
    <3> QED BY <1>0, <3>1, BootStays
  <2>2. CASE p = q
    <3>1. p \notin booting'
      <4>1. page[p] # <<>> => p \notin booting
        BY DEF FeedInv, PagesFit, PageFits
      <4> QED BY <1>4, <2>2, <4>1 DEF Apply, BootFails
    <3> QED BY <3>1 DEF BootFits
  <2> QED BY <2>1, <2>2
<1>5. ASSUME NEW q \in Replica, Read(q)
      PROVE  UNCHANGED <<cursor, slots, booting, torn>> /\ gap \subseteq gap'
  BY <1>5, ReadTells DEF FeedInv
<1>6. (\E t \in Task : TaskStep(t) \/ Leave(t)) \/ Expire =>
        UNCHANGED <<cursor, slots, booting, torn, gap>>
  BY DEF TaskStep, Leave, Expire, Lookup, Search, Get, Heal, Drop, Fetch, Put, Add, AddFails,
         Trim, Insert, Erase, Tomb, AppendDel
<1> QED BY <1>1, <1>2, <1>3, <1>4, <1>5, <1>6 DEF Next, PollStep, BootStep

LEMMA StepInsertsAdded ==
  ASSUME FeedInv, Grows, Next
  PROVE  InsertsAdded'
<1> SUFFICES ASSUME NEW u \in Task, pc'[u] \in {"trim", "insert"}
             PROVE  \E i \in 1..Len(log') : log'[i] = [op |-> "put", key |-> Target[u]]
  BY DEF InsertsAdded
<1>1. log \in Seq(Entry) /\ Len(log) \in Nat /\ pc = [t \in Task |-> pc[t]]
  BY DEF FeedInv, TypeOK
<1>2. CASE pc[u] \in {"trim", "insert"}
  <2>1. PICK i \in 1..Len(log) : log[i] = [op |-> "put", key |-> Target[u]]
    BY <1>2 DEF FeedInv, InsertsAdded
  <2>2. i \in 1..Len(log') /\ log'[i] = log[i]
    BY <1>1 DEF Grows
  <2> QED BY <2>1, <2>2
<1>3. CASE pc[u] \notin {"trim", "insert"}
  <2>1. Add(u)
    <3>1. ASSUME NEW t \in Task, TaskStep(t) \/ Leave(t) PROVE t = u /\ Add(t)
      BY <1>1, <1>3, <3>1
      DEF TaskStep, Leave, Lookup, Search, Get, Heal, Drop, Fetch, Put, Add, AddFails,
          Trim, Insert, Erase, Tomb, AppendDel
    <3>2. ASSUME NEW p \in Replica, PollStep(p) \/ BootStep(p) PROVE FALSE
      BY <1>1, <1>3, <3>2 DEF PollStep, Read, Apply, BootStep, Restart, BootRead, BootFails
    <3>3. ~Expire
      BY <1>3 DEF Expire
    <3> QED BY <3>1, <3>2, <3>3 DEF Next
  <2>2. log' = Append(log, [op |-> "put", key |-> Target[u]])
    BY <2>1 DEF Add, XAdd
  <2>3. Len(log) + 1 \in 1..Len(log') /\ log'[Len(log) + 1] = [op |-> "put", key |-> Target[u]]
    BY <1>1, <2>2
  <2> QED BY <2>3
<1> QED BY <1>2, <1>3

LEMMA InitFeed == Init => FeedInv
<1> SUFFICES ASSUME Init PROVE FeedInv
  OBVIOUS
<1>1. TypeOK
  BY InitTyped
<1>2. PagesFit /\ InsertsAdded
  BY DEF Init, PagesFit, PageFits, InsertsAdded
<1>3. ASSUME NEW p \in Replica, NEW k \in Key PROVE Agrees(p, k) /\ BootFits(p, k)
  <2>1. /\ index[p] = Booted(Slotted({}, log)) /\ cursor[p] = Len(log) /\ p \notin booting
        /\ log \in Seq(Entry)
    BY <1>1 DEF Init, TypeOK
  <2>2. Live(p, k) <=> Folded(log, k) = "put"
    BY <2>1 DEF Live, Booted, Slotted
  <2>3. Live(p, k) <=> LastIs(log, 1, Len(log), k, "put")
    BY <2>1, <2>2, FoldTells
  <2> QED BY <2>1, <2>3 DEF Agrees, BootFits
<1> QED BY <1>1, <1>2, <1>3 DEF FeedInv

LEMMA NextFeed == FeedInv /\ [Next]_vars => FeedInv'
<1> SUFFICES ASSUME FeedInv, [Next]_vars PROVE FeedInv'
  OBVIOUS
<1>1. TypeOK'
  BY NextTyped DEF FeedInv
<1>2. CASE Next
  <2>1. Grows /\ \A p \in Replica, k \in Key : Agrees(p, k)'
    <3>1. ASSUME NEW t \in Task, TaskStep(t) \/ Leave(t)
          PROVE  Grows /\ \A p \in Replica, k \in Key : Agrees(p, k)'
      BY <3>1, LooksAgree, TombsAgree, TellsAgree, InsertAgrees DEF TaskStep
    <3>2. ASSUME NEW p \in Replica, PollStep(p) \/ BootStep(p)
          PROVE  Grows /\ \A q \in Replica, k \in Key : Agrees(q, k)'
      BY <3>2, ReadAgrees, ApplyAgrees, BootAgrees DEF PollStep
    <3>3. CASE Expire
      <4>1. UNCHANGED <<pc, near, log, first, index, cursor, booting, gap, astray>> /\ first \in Nat
        BY <3>3 DEF Expire, FeedInv, TypeOK
      <4>2. Grows /\ \A p \in Replica, k \in Key : Untold(p, k) => Untold(p, k)'
        BY <4>1 DEF Grows, Untold
      <4> QED BY <4>1, <4>2, StaysAgreed DEF Live
    <3> QED BY <1>2, <3>1, <3>2, <3>3 DEF Next
  <2> QED BY <1>1, <1>2, <2>1, StepPagesFit, StepBootFits, StepInsertsAdded DEF FeedInv
<1>3. CASE UNCHANGED vars
  <2>1. PagesFit' /\ InsertsAdded'
    BY <1>3 DEF FeedInv, PagesFit, PageFits, InsertsAdded
  <2>2. \A p \in Replica, k \in Key : Untold(p, k) <=> Untold(p, k)'
    BY <1>3 DEF Untold
  <2>3. \A p \in Replica, k \in Key : Agrees(p, k)' /\ BootFits(p, k)'
    BY <1>3, <2>2 DEF FeedInv, Agrees, BootFits, Known, Live
  <2> QED BY <1>1, <2>1, <2>3 DEF FeedInv
<1> QED BY <1>2, <1>3

(***************************************************************************)
(* A replica that has applied the whole stream finds exactly the vectors   *)
(* whose records the stream ends with, of all keys if nothing was trimmed  *)
(* unread and else of those the stream still holds a record of, but for    *)
(* its own late inserts and its deletes that never reached the stream.     *)
(***************************************************************************)
THEOREM IndexesFollowTheStream == Spec => []CaughtUpAgrees
<1>1. FeedInv => CaughtUpAgrees
  <2> SUFFICES ASSUME FeedInv, NEW p \in Replica, NEW k \in Key,
                      CaughtUp(p), p \notin gap \/ Kept(k), k \notin astray[p], ~Untold(p, k)
               PROVE  Live(p, k) <=> Truth(k) = "put"
    BY DEF CaughtUpAgrees
  <2>1. /\ cursor[p] = Len(log) /\ p \notin booting /\ log \in Seq(Entry) /\ Len(log) \in Nat
        /\ Known(p, k)
    BY DEF CaughtUp, Kept, Known, FeedInv, TypeOK
  <2>2. Quiet(log, Len(log) + 1, Len(log), k)
    BY <2>1 DEF Quiet
  <2>3. Live(p, k) <=> LastIs(log, 1, Len(log), k, "put")
    BY <2>1, <2>2 DEF FeedInv, Agrees
  <2>4. Truth(k) = "put" <=> LastIs(log, 1, Len(log), k, "put")
    BY <2>1, FoldTells DEF Truth
  <2> QED BY <2>3, <2>4
<1> QED BY <1>1, InitFeed, NextFeed, PTL DEF Spec

(***************************************************************************)
(* A boot revives a deleted vector only if the stream was trimmed between  *)
(* two of its pages, and none of which the stream still holds a record.    *)
(***************************************************************************)
THEOREM BootsReviveOnlyTheTorn == Spec => BootRevivesOnlyTheTorn
<1> DEFINE Boots == \A p \in booting \ booting' : \A k \in Key :
                      Live(p, k)' => Truth(k) = "put" \/ (p \in torn' /\ ~Kept(k))
<1>1. FeedInv /\ [Next]_vars => [Boots]_vars
  <2> SUFFICES ASSUME FeedInv, Next, NEW p \in booting, p \notin booting', NEW k \in Key,
                      Live(p, k)', p \notin torn' \/ Kept(k)
               PROVE  Truth(k) = "put"
    OBVIOUS
  <2>0. p \in Replica
    BY DEF FeedInv, TypeOK
  <2>1. BootRead(p) \/ BootFails(p)
    <3>1. ASSUME NEW t \in Task, TaskStep(t) \/ Leave(t) PROVE FALSE
      BY <3>1 DEF TaskStep, Leave, Lookup, Search, Get, Heal, Drop, Fetch, Put, Add, AddFails,
                  Trim, Insert, Erase, Tomb, AppendDel
    <3>2. ASSUME NEW q \in Replica, PollStep(q) \/ BootStep(q)
          PROVE  BootRead(p) \/ BootFails(p)
      <4>1. ~PollStep(q) /\ ~Restart(q)
        BY DEF PollStep, Read, Apply, Restart
      <4>2. p = q
        BY <3>2, <4>1, BootTells DEF BootStep, BootFails, FeedInv
      <4> QED BY <3>2, <4>1, <4>2 DEF BootStep
    <3>3. ~Expire
      BY DEF Expire
    <3> QED BY <3>1, <3>2, <3>3 DEF Next
  <2>2. ~BootFails(p)
    BY <2>0 DEF BootFails, Booted, Live, FeedInv, TypeOK
  <2>3. BootRead(p)
    BY <2>1, <2>2
  <2> DEFINE d == cursor'[p]
             kept == Slotted(slots[p], BootEntries(p))
  <2>4. /\ index' = [index EXCEPT ![p] = Booted(kept)] /\ d \in 0..Len(log)
        /\ d = Len(log) \/ (d = cursor[p] /\ Len(log) < From(p))
        /\ cursor[p] > 0 /\ From(p) # cursor[p] + 1 => p \in torn'
        /\ From(p) = cursor[p] + 1 \/ From(p) = first
    BY <2>0, <2>3, BootTells DEF FeedInv
  <2>5. k \in kept
    BY <2>0, <2>4 DEF Live, Booted, FeedInv, TypeOK
  <2>6. /\ p \notin gap' \/ (\E i \in first..d : log[i].key = k) => LastIs(log, 1, d, k, "put")
        /\ p \notin torn' => LastIs(log, 1, d, k, "put")
    BY <2>0, <2>3, <2>5, SlotsTell
  <2> HIDE DEF d, kept
  <2>7. /\ log \in Seq(Entry) /\ Len(log) \in Nat /\ first \in Nat /\ cursor[p] \in Nat
        /\ cursor[p] <= Len(log)
    BY <2>0 DEF FeedInv, TypeOK
  <2>8. d = Len(log)
    <3> SUFFICES ASSUME d # Len(log) PROVE FALSE
      OBVIOUS
    <3>1. d = cursor[p] /\ Len(log) < From(p) /\ cursor[p] < Len(log)
      BY <2>4, <2>7
    <3>2. From(p) # cursor[p] + 1 /\ first > Len(log)
      BY <2>4, <2>7, <3>1
    <3>3. ~Kept(k)
      BY <2>7, <3>2 DEF Kept
    <3>4. p \notin torn' /\ cursor[p] = 0
      BY <2>4, <2>7, <3>2, <3>3
    <3>5. LastIs(log, 1, 0, k, "put")
      BY <2>6, <3>1, <3>4
    <3> QED BY <3>5 DEF LastIs
  <2>9. LastIs(log, 1, Len(log), k, "put")
    BY <2>6, <2>8 DEF Kept
  <2> QED BY <2>7, <2>9, FoldTells DEF Truth
<1> HIDE DEF Boots
<1>2. Spec => [][Boots]_vars
  BY <1>1, InitFeed, NextFeed, PTL DEF Spec
<1> QED BY <1>2 DEF Boots, BootRevivesOnlyTheTorn
=============================================================================
