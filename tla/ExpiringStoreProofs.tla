------------------------- MODULE ExpiringStoreProofs -------------------------
(***************************************************************************)
(* Theorems about ExpiringStore, for every set of calls, time to live and      *)
(* clock, and under every fault.                                           *)
(***************************************************************************)
EXTENDS ExpiringStore, TLAPS

USE DEF vars, calls, Goto, Return, Answer, Call, Writer, Row

LEMMA TtlTyped == Ttl \in (Nat \ {0}) \cup {None}
BY TimeAssumption DEF Ttl

LEMMA WholeSeconds ==
  ASSUME NEW x \in Nat
  PROVE  /\ x \div Grain \in Nat
         /\ (x \div Grain) * Grain <= x
         /\ x >= Grain => x \div Grain >= 1
BY TimeAssumption

LEMMA ExpiryTyped ==
  ASSUME NEW now \in Nat
  PROVE  Expiry(now) \in Nat /\ RedisExpiry(now) \in Nat
<1>1. CASE Ttl = None
  BY <1>1 DEF Expiry, RedisExpiry
<1>2. CASE Ttl # None
  <2>1. Ttl \in Nat /\ Grain \in Nat
    BY <1>2, TtlTyped, TimeAssumption
  <2>2. now + Ttl * Grain \in Nat
    BY <2>1
  <2>3. (now + Ttl * Grain) \div Grain \in Nat
    BY <2>2, WholeSeconds
  <2>4. ((now + Ttl * Grain) \div Grain) * Grain \in Nat
    BY <2>1, <2>3
  <2> QED
    BY <1>2, <2>2, <2>4 DEF Expiry, RedisExpiry
<1> QED
  BY <1>1, <1>2

(* No expiry is past the life that began at `born`, and none of them is 0,   *)
(* which would mean never.                                                   *)
LEMMA ExpiryIsEarly ==
  ASSUME NEW born \in Nat, NEW now \in Nat, NEW entry,
         entry.until \in {Expiry(born), RedisExpiry(born)},
         born >= Grain, Ttl # None, ~Expired(entry, now)
  PROVE  now <= born + Ttl * Grain
<1>1. Ttl \in Nat /\ Grain \in Nat \ {0}
  BY TtlTyped, TimeAssumption
<1> DEFINE end == born + Ttl * Grain
           second == end \div Grain
<1>2. Ttl * Grain \in Nat
  BY <1>1
<1>3. end \in Nat /\ end >= Grain
  BY <1>1, <1>2
<1>4. entry.until = second * Grain \/ entry.until = end
  BY DEF Expiry, RedisExpiry
<1> HIDE DEF end
<1>5. second \in Nat /\ second >= 1 /\ second * Grain <= end
  BY <1>3, WholeSeconds
<1> HIDE DEF second
<1>6. second * Grain \in Nat /\ second * Grain # 0
  BY <1>1, <1>5
<1>7. entry.until \in Nat /\ entry.until # 0 /\ entry.until <= end
  BY <1>1, <1>3, <1>4, <1>5, <1>6
<1>8. now <= entry.until
  BY <1>7 DEF Expired
<1> QED
  BY <1>3, <1>7, <1>8 DEF end

-----------------------------------------------------------------------------
(* The type invariant is inductive as it stands.                             *)
LEMMA InitTyped == Init => TypeOK
BY TimeAssumption, CallsAssumption DEF Init, TypeOK

LEMMA WritesTyped ==
  ASSUME TypeOK, NEW c \in Writer,
         WriteFails(c) \/ TimeOut(c) \/ (c \in Delete /\ DeleteLands(c))
         \/ (c \in Put /\ (PutReadsClock(c) \/ PutLands(c) \/ SetLands(c)))
  PROVE  TypeOK'
<1>1. CASE WriteFails(c)
  BY <1>1 DEF TypeOK, WriteFails
<1>2. CASE TimeOut(c)
  BY <1>2 DEF TypeOK, TimeOut
<1>3. CASE c \in Delete /\ DeleteLands(c)
  BY <1>3 DEF TypeOK, DeleteLands
<1>4. CASE c \in Put /\ PutReadsClock(c)
  BY <1>4, CallsAssumption DEF TypeOK, PutReadsClock
<1>5. CASE c \in Put /\ PutLands(c)
  <2>1. Expiry(at[c]) \in Nat
    BY <1>5, ExpiryTyped DEF TypeOK
  <2> QED
    BY <1>5, <2>1 DEF TypeOK, PutLands
<1>6. CASE c \in Put /\ SetLands(c)
  <2>1. RedisExpiry(clock) \in Nat
    BY ExpiryTyped DEF TypeOK
  <2> QED
    BY <1>6, <2>1, CallsAssumption DEF TypeOK, SetLands
<1> QED
  BY <1>1, <1>2, <1>3, <1>4, <1>5, <1>6

LEMMA ReadsTyped ==
  ASSUME TypeOK, NEW r \in Read,
         \/ GetRow(r) \/ GetTest(r) \/ RemoveExpired(r)
         \/ LoadReadsClock(r) \/ LoadRow(r) \/ GetLands(r) \/ ReadFails(r)
  PROVE  TypeOK'
<1> USE CallsAssumption DEF TypeOK
<1>1. CASE GetRow(r)
  BY <1>1 DEF GetRow
<1>2. CASE GetTest(r)
  BY <1>2 DEF GetTest
<1>3. CASE RemoveExpired(r)
  BY <1>3 DEF RemoveExpired
<1>4. CASE LoadReadsClock(r)
  BY <1>4 DEF LoadReadsClock
<1>5. CASE LoadRow(r)
  BY <1>5 DEF LoadRow
<1>6. CASE ReadFails(r)
  BY <1>6 DEF ReadFails
<1>7. CASE GetLands(r)
  BY <1>7 DEF GetLands
<1> QED
  BY <1>1, <1>2, <1>3, <1>4, <1>5, <1>6, <1>7

LEMMA NextTyped == TypeOK /\ [Next]_vars => TypeOK'
<1> SUFFICES ASSUME TypeOK, [Next]_vars PROVE TypeOK'
  OBVIOUS
<1>1. CASE Next
  BY <1>1, WritesTyped, ReadsTyped, TimeAssumption DEF Next, TypeOK, Tick, RedisDrops
<1>2. CASE UNCHANGED vars
  BY <1>2 DEF TypeOK
<1> QED
  BY <1>1, <1>2

(***************************************************************************)
(* Every reachable state is typed: a call is told of a success only when   *)
(* its task has ended, and a reader that answered a value has ended too.   *)
(***************************************************************************)
THEOREM TypeCorrect == Spec => []TypeOK
BY InitTyped, NextTyped, PTL DEF Spec

-----------------------------------------------------------------------------
(***************************************************************************)
(* What a row and a read say about the put they come from.                 *)
(***************************************************************************)
ClockRuns ==
  /\ clock >= Grain
  /\ \A p \in Put : pc[p] = "write" => at[p] >= Grain

(* An entry was computed from a clock reading that its put never repeats.    *)
Written(entry) ==
  /\ pc[entry.by] = "done"
  /\ at[entry.by] >= Grain
  /\ entry.until \in {Expiry(at[entry.by]), RedisExpiry(at[entry.by])}

EntriesWritten ==
  /\ row # None => Written(row)
  /\ \A r \in Read : seen[r] # None => Written(seen[r])
  /\ \A r \in Read : answer[r] # None => pc[answer[r]] = "done"

ServeInv == TypeOK /\ ClockRuns /\ EntriesWritten /\ NeverServesExpired

LEMMA InitServe == Init => ServeInv
BY InitTyped, TimeAssumption
DEF Init, ServeInv, ClockRuns, EntriesWritten, NeverServesExpired

(* Writes leave what was written, and what has been served, alone.           *)
LEMMA WritesServe ==
  ASSUME ServeInv, TypeOK', NEW c \in Writer,
         WriteFails(c) \/ TimeOut(c) \/ (c \in Delete /\ DeleteLands(c))
         \/ (c \in Put /\ (PutReadsClock(c) \/ PutLands(c) \/ SetLands(c)))
  PROVE  ServeInv'
<1> USE CallsAssumption, TimeAssumption
<1>1. /\ pc[c] # "done" \/ TimeOut(c)
      /\ answer' = answer /\ seen' = seen /\ clock' = clock
      /\ \A q \in Call \ {c} : pc'[q] = pc[q]
      /\ \A q \in Call : pc[q] = "done" => pc'[q] = "done"
      /\ \A q \in Call : at'[q] = at[q] \/ (q = c /\ (PutReadsClock(c) \/ SetLands(c)))
  BY DEF ServeInv, TypeOK, WriteFails, TimeOut, DeleteLands, PutReadsClock, PutLands,
         SetLands
<1>2. \A q \in Call : pc[q] = "done" => at'[q] = at[q] /\ pc'[q] = "done"
  BY <1>1 DEF PutReadsClock, SetLands
<1>3. ClockRuns'
  BY <1>1 DEF ServeInv, ClockRuns, TypeOK, WriteFails, TimeOut, DeleteLands,
              PutReadsClock, PutLands, SetLands
<1>4. \A entry \in Row : Written(entry) => Written(entry)'
  BY <1>2 DEF Written, Expiry, RedisExpiry
<1>5. row' # None => Written(row)'
  <2>1. CASE c \in Put /\ PutLands(c)
    BY <2>1 DEF PutLands, Written, Expiry, RedisExpiry, ServeInv, ClockRuns, TypeOK
  <2>2. CASE c \in Put /\ SetLands(c)
    BY <2>2 DEF SetLands, Written, Expiry, RedisExpiry, ServeInv, ClockRuns, TypeOK
  <2>3. CASE ~(c \in Put /\ (PutLands(c) \/ SetLands(c)))
    <3>1. row' = row \/ row' = None
      BY <2>3 DEF WriteFails, TimeOut, DeleteLands, PutReadsClock
    <3> QED
      BY <3>1, <1>4 DEF ServeInv, EntriesWritten, TypeOK
  <2> QED
    BY <2>1, <2>2, <2>3
<1>6. EntriesWritten'
  BY <1>1, <1>2, <1>4, <1>5 DEF ServeInv, EntriesWritten, TypeOK
<1>7. NeverServesExpired'
  <2>1. \A r \in Read : at'[r] = at[r]
    BY <1>1
  <2>2. \A r \in Read : answer[r] # None => at'[answer[r]] = at[answer[r]]
    BY <1>2 DEF ServeInv, EntriesWritten, TypeOK
  <2> QED
    BY <1>1, <2>1, <2>2 DEF ServeInv, NeverServesExpired
<1> QED
  BY <1>3, <1>6, <1>7 DEF ServeInv

(* A value that passes its test was read from an entry within its life.      *)
LEMMA ReadsServe ==
  ASSUME ServeInv, TypeOK', NEW r \in Read,
         \/ GetRow(r) \/ GetTest(r) \/ RemoveExpired(r)
         \/ LoadReadsClock(r) \/ LoadRow(r) \/ GetLands(r) \/ ReadFails(r)
  PROVE  ServeInv'
<1> USE CallsAssumption, TimeAssumption
<1>1. /\ clock' = clock /\ (row' = row \/ row' = None)
      /\ \A q \in Call \ {r} : pc'[q] = pc[q] /\ at'[q] = at[q]
      /\ \A q \in Read \ {r} : seen'[q] = seen[q] /\ answer'[q] = answer[q]
      /\ seen'[r] = seen[r] \/ seen'[r] = row
      /\ pc[r] # "done"
  BY DEF ServeInv, TypeOK, GetRow, GetTest, RemoveExpired, LoadReadsClock, LoadRow,
         GetLands, ReadFails
<1>2. ClockRuns'
  BY <1>1 DEF ServeInv, ClockRuns
<1>3. \A entry \in Row : Written(entry) => Written(entry)'
  BY <1>1 DEF Written, Expiry, RedisExpiry
<1>4. /\ row' # None => Written(row)'
      /\ \A q \in Read : seen'[q] # None => Written(seen[q])'
  BY <1>1, <1>3 DEF ServeInv, EntriesWritten, TypeOK
<1>5. answer[r] = None
  BY <1>1 DEF ServeInv, TypeOK
<1>6. \/ answer'[r] = None
      \/ \E entry \in Row : /\ Written(entry) /\ answer'[r] = entry.by
                           /\ ~Expired(entry, at'[r])
  <2>1. CASE GetTest(r)
    <3>1. CASE ~Expired(seen[r], clock) /\ seen[r] # None
      <4>1. seen[r] \in Row /\ Written(seen[r])
        BY <3>1 DEF ServeInv, EntriesWritten, TypeOK
      <4> QED
        BY <2>1, <3>1, <4>1 DEF GetTest, ServeInv, TypeOK
    <3>2. CASE Expired(seen[r], clock) \/ seen[r] = None
      BY <2>1, <3>2, <1>5 DEF GetTest, ServeInv, TypeOK
    <3> QED
      BY <3>1, <3>2
  <2>2. CASE LoadRow(r)
    <3>1. CASE row # None /\ ~Expired(row, at[r])
      <4>1. row \in Row /\ Written(row)
        BY <3>1 DEF ServeInv, EntriesWritten, TypeOK
      <4> QED
        BY <2>2, <3>1, <4>1 DEF LoadRow, ServeInv, TypeOK
    <3>2. CASE row = None \/ Expired(row, at[r])
      BY <2>2, <3>2, <1>5 DEF LoadRow, ServeInv, TypeOK
    <3> QED
      BY <3>1, <3>2
  <2>3. CASE GetLands(r)
    <3>1. CASE row # None /\ ~Expired(row, clock)
      <4>1. row \in Row /\ Written(row)
        BY <3>1 DEF ServeInv, EntriesWritten, TypeOK
      <4> QED
        BY <2>3, <3>1, <4>1 DEF GetLands, ServeInv, TypeOK
    <3>2. CASE row = None \/ Expired(row, clock)
      BY <2>3, <3>2, <1>5 DEF GetLands, ServeInv, TypeOK
    <3> QED
      BY <3>1, <3>2
  <2>4. CASE GetRow(r) \/ RemoveExpired(r) \/ LoadReadsClock(r) \/ ReadFails(r)
    BY <2>4, <1>5 DEF GetRow, RemoveExpired, LoadReadsClock, ReadFails, ServeInv, TypeOK
  <2> QED
    BY <2>1, <2>2, <2>3, <2>4
<1>7. answer'[r] # None => pc[answer'[r]] = "done"
  BY <1>6 DEF Written
<1>8. \A q \in Put : pc'[q] = pc[q] /\ at'[q] = at[q]
  BY <1>1
<1>9. \A q \in Read : answer'[q] # None => pc'[answer'[q]] = "done"
  BY <1>1, <1>7, <1>8 DEF ServeInv, EntriesWritten, TypeOK
<1>10. EntriesWritten'
  BY <1>4, <1>9 DEF EntriesWritten
<1>11. Ttl # None /\ answer'[r] # None => at'[r] <= at'[answer'[r]] + Ttl * Grain
  <2> SUFFICES ASSUME Ttl # None, answer'[r] # None
               PROVE  at'[r] <= at'[answer'[r]] + Ttl * Grain
    OBVIOUS
  <2>1. PICK entry \in Row : /\ Written(entry) /\ answer'[r] = entry.by
                             /\ ~Expired(entry, at'[r])
    BY <1>6
  <2>2. at[entry.by] \in Nat /\ at'[r] \in Nat
    BY DEF ServeInv, TypeOK
  <2>3. at'[r] <= at[entry.by] + Ttl * Grain
    BY <2>1, <2>2, ExpiryIsEarly DEF Written
  <2> QED
    BY <2>1, <2>3, <1>8
<1>12. NeverServesExpired'
  <2>1. \A q \in Read \ {r} :
          answer'[q] = answer[q] /\ at'[q] = at[q]
          /\ (answer[q] # None => at'[answer[q]] = at[answer[q]])
    BY <1>1, <1>8 DEF ServeInv, TypeOK
  <2> QED
    BY <2>1, <1>11 DEF ServeInv, NeverServesExpired
<1> QED
  BY <1>2, <1>10, <1>12 DEF ServeInv

LEMMA NextServe == ServeInv /\ [Next]_vars => ServeInv'
<1> SUFFICES ASSUME ServeInv, [Next]_vars PROVE ServeInv'
  OBVIOUS
<1>1. TypeOK'
  BY NextTyped DEF ServeInv
<1>2. CASE Tick
  <2>1. clock' = clock + 1 /\ row' = row /\ UNCHANGED calls
    BY <1>2 DEF Tick
  <2>2. ClockRuns'
    BY <2>1, TimeAssumption DEF ServeInv, ClockRuns, TypeOK
  <2> QED
    BY <1>1, <2>1, <2>2
    DEF ServeInv, EntriesWritten, Written, NeverServesExpired, Expiry, RedisExpiry
<1>3. CASE UNCHANGED vars
  BY <1>1, <1>3
  DEF ServeInv, ClockRuns, EntriesWritten, Written, NeverServesExpired, Expiry, RedisExpiry
<1>4. CASE RedisDrops
  BY <1>1, <1>4
  DEF RedisDrops, ServeInv, ClockRuns, EntriesWritten, Written, NeverServesExpired,
      Expiry, RedisExpiry
<1> QED
  BY <1>1, <1>2, <1>3, <1>4, WritesServe, ReadsServe DEF Next

(***************************************************************************)
(* No interleaving of reads, puts, DELETEs and failures serves a value     *)
(* after its time to live.                                                 *)
(***************************************************************************)
THEOREM ExpiredIsNeverServed == Spec => []NeverServesExpired
<1>1. ServeInv => NeverServesExpired
  BY DEF ServeInv
<1> QED
  BY <1>1, InitServe, NextServe, PTL DEF Spec

-----------------------------------------------------------------------------
(***************************************************************************)
(* Only a put that has ended is acknowledged, and it never writes again.   *)
(***************************************************************************)
AckInv ==
  /\ TypeOK
  /\ \A d \in Delete, p \in Put : p \in acked[d] => pc[p] = "done"
  /\ AckedPutStaysDeleted

LEMMA NextAck == AckInv /\ [Next]_vars => AckInv'
<1> SUFFICES ASSUME AckInv, [Next]_vars PROVE AckInv'
  OBVIOUS
<1> USE CallsAssumption DEF AckInv, TypeOK, AckedPutStaysDeleted
<1>1. TypeOK'
  BY NextTyped
<1>2. ASSUME NEW d \in Delete, DeleteLands(d) PROVE AckInv'
  BY <1>1, <1>2 DEF DeleteLands
<1>3. ASSUME NEW p \in Put, PutLands(p) PROVE AckInv'
  BY <1>1, <1>3 DEF PutLands
<1>4. ASSUME NEW p \in Put, PutReadsClock(p) PROVE AckInv'
  BY <1>1, <1>4 DEF PutReadsClock
<1>5. ASSUME NEW p \in Put, SetLands(p) PROVE AckInv'
  BY <1>1, <1>5 DEF SetLands
<1>6. ASSUME NEW c \in Writer, WriteFails(c) \/ TimeOut(c) PROVE AckInv'
  BY <1>1, <1>6 DEF WriteFails, TimeOut
<1>7. ASSUME NEW r \in Read,
             \/ GetRow(r) \/ GetTest(r) \/ RemoveExpired(r)
             \/ LoadReadsClock(r) \/ LoadRow(r) \/ GetLands(r) \/ ReadFails(r)
      PROVE AckInv'
  BY <1>1, <1>7
  DEF GetRow, GetTest, RemoveExpired, LoadReadsClock, LoadRow, GetLands, ReadFails
<1>8. CASE RedisDrops \/ Tick \/ UNCHANGED vars
  BY <1>1, <1>8 DEF RedisDrops, Tick
<1> QED
  BY <1>2, <1>3, <1>4, <1>5, <1>6, <1>7, <1>8 DEF Next

(***************************************************************************)
(* A put that was reported stored before a DELETE removed it stays away.   *)
(***************************************************************************)
THEOREM DeleteIsFinal == Spec => []AckedPutStaysDeleted
<1>1. Init => AckInv
  BY InitTyped DEF Init, AckInv, AckedPutStaysDeleted
<1>2. AckInv => AckedPutStaysDeleted
  BY DEF AckInv
<1> QED
  BY <1>1, <1>2, NextAck, PTL DEF Spec

-----------------------------------------------------------------------------
(***************************************************************************)
(* Who removes a row has read one that was past its expiry by then.        *)
(***************************************************************************)
RemoversFit ==
  \A r \in Read :
    /\ at[r] <= clock
    /\ pc[r] = "test" => seen[r] # None
    /\ pc[r] = "remove" => seen[r] # None /\ Expired(seen[r], at[r])

LossInv == ServeInv /\ RemoversFit

LEMMA ExpiredStays ==
  ASSUME NEW entry, entry.until \in Nat, NEW then \in Nat, NEW now \in Nat,
         then <= now, Expired(entry, then)
  PROVE  Expired(entry, now)
BY DEF Expired

(* An entry that is not in the last second of its life has not expired.      *)
LEMMA LiveIsUnexpired ==
  ASSUME ServeInv, NEW entry \in Row, Written(entry), Live(entry, clock)
  PROVE  ~Expired(entry, clock)
<1> DEFINE born == at[entry.by]
           end == born + Ttl * Grain
           second == end \div Grain
<1>1. born \in Nat /\ clock \in Nat /\ Grain \in Nat \ {0}
  BY CallsAssumption, TimeAssumption DEF ServeInv, TypeOK
<1>2. CASE Ttl = None
  <2>1. entry.until = 0
    BY <1>2 DEF Written, Expiry, RedisExpiry
  <2> QED BY <2>1 DEF Expired
<1>3. CASE Ttl # None
  <2>1. Ttl * Grain \in Nat
    BY <1>1, <1>3, TtlTyped
  <2>2. end \in Nat /\ clock + Grain <= end
    BY <1>1, <1>3, <2>1 DEF Live
  <2>3. entry.until = second * Grain \/ entry.until = end
    BY <1>3 DEF Written, Expiry, RedisExpiry
  <2> HIDE DEF end
  <2>4. second \in Nat /\ second * Grain \in Nat /\ end < second * Grain + Grain
    BY <1>1, <2>2
  <2> HIDE DEF second
  <2>5. clock <= entry.until
    BY <1>1, <2>2, <2>3, <2>4
  <2>6. entry.until \in Nat
    BY <2>2, <2>3, <2>4
  <2> QED BY <1>1, <2>5, <2>6 DEF Expired
<1> QED BY <1>2, <1>3

LEMMA InitLoss == Init => LossInv
BY InitServe, CallsAssumption, TimeAssumption DEF Init, LossInv, RemoversFit

LEMMA NextLoss == LossInv /\ [Next]_vars => LossInv'
<1> SUFFICES ASSUME LossInv, [Next]_vars PROVE RemoversFit'
  BY NextServe DEF LossInv
<1> USE CallsAssumption, TimeAssumption DEF LossInv, ServeInv, TypeOK, RemoversFit
<1>1. ASSUME NEW c \in Writer,
             WriteFails(c) \/ TimeOut(c) \/ (c \in Delete /\ DeleteLands(c))
             \/ (c \in Put /\ (PutReadsClock(c) \/ PutLands(c) \/ SetLands(c)))
      PROVE  RemoversFit'
  <2>1. /\ seen' = seen /\ clock' = clock
        /\ \A r \in Read : pc'[r] = pc[r] /\ at'[r] = at[r]
    BY <1>1 DEF WriteFails, TimeOut, DeleteLands, PutReadsClock, PutLands, SetLands
  <2> QED BY <2>1
<1>2. ASSUME NEW r \in Read, NEW q \in Read,
             \/ GetRow(r) \/ GetTest(r) \/ RemoveExpired(r)
             \/ LoadReadsClock(r) \/ LoadRow(r) \/ GetLands(r) \/ ReadFails(r)
      PROVE  /\ at'[q] <= clock'
             /\ pc'[q] = "test" => seen'[q] # None
             /\ pc'[q] = "remove" => seen'[q] # None /\ Expired(seen'[q], at'[q])
  <2>1. CASE GetRow(r)
    BY <2>1 DEF GetRow
  <2>2. CASE GetTest(r)
    BY <2>2 DEF GetTest
  <2>3. CASE RemoveExpired(r) \/ LoadReadsClock(r) \/ GetLands(r) \/ ReadFails(r)
    BY <2>3 DEF RemoveExpired, LoadReadsClock, GetLands, ReadFails
  <2>4. CASE LoadRow(r)
    BY <2>4 DEF LoadRow
  <2> QED BY <1>2, <2>1, <2>2, <2>3, <2>4
<1>3. CASE Tick
  BY <1>3 DEF Tick
<1>4. CASE RedisDrops \/ UNCHANGED vars
  BY <1>4 DEF RedisDrops
<1> QED BY <1>1, <1>2, <1>3, <1>4 DEF Next

(* Two calls alone take a live row away.                                     *)
LEMMA StepLoses ==
  ASSUME LossInv, Next, row # None, row' = None, Live(row, clock)
  PROVE  \/ \E d \in Delete : pc[d] = "queued" /\ pc'[d] = "done"
         \/ \E r \in Read : pc[r] = "remove" /\ pc'[r] = "done"
                            /\ seen[r] # row /\ seen[r] # None
<1>1. row \in Row /\ ~Expired(row, clock)
  BY LiveIsUnexpired DEF LossInv, ServeInv, TypeOK, EntriesWritten
<1>2. CASE \E d \in Delete : DeleteLands(d)
  BY <1>2 DEF DeleteLands, LossInv, ServeInv, TypeOK
<1>3. CASE \E r \in Read : RemoveExpired(r)
  <2>1. PICK r \in Read : RemoveExpired(r)
    BY <1>3
  <2>2. pc[r] = "remove" /\ pc'[r] = "done"
    BY <2>1 DEF RemoveExpired, LossInv, ServeInv, TypeOK
  <2>3. seen[r] # None /\ Expired(seen[r], at[r]) /\ at[r] <= clock
    BY <2>2 DEF LossInv, RemoversFit
  <2>4. seen[r] \in Row /\ at[r] \in Nat /\ clock \in Nat
    BY <2>3, CallsAssumption DEF LossInv, ServeInv, TypeOK
  <2>5. Expired(seen[r], clock)
    BY <2>3, <2>4, ExpiredStays
  <2> QED BY <1>1, <2>2, <2>3, <2>5
<1>4. CASE RedisDrops
  BY <1>1, <1>4 DEF RedisDrops
<1>5. ~\E p \in Put : PutLands(p) \/ SetLands(p)
  <2> SUFFICES ASSUME NEW p \in Put, PutLands(p) \/ SetLands(p) PROVE row' \in Row
    BY NoneAssumption
  <2>1. at[p] \in Nat /\ clock \in Nat
    BY DEF LossInv, ServeInv, TypeOK
  <2> QED BY <2>1, ExpiryTyped DEF PutLands, SetLands
<1> QED
  BY <1>2, <1>3, <1>4, <1>5
  DEF Next, WriteFails, TimeOut, PutReadsClock, GetRow, GetTest, LoadReadsClock,
      LoadRow, GetLands, ReadFails, Tick

(***************************************************************************)
(* No step but a DELETE takes away a row that is not in the last second of *)
(* its life, unless its reader had found an expired predecessor.           *)
(***************************************************************************)
THEOREM LiveRowsAreKept == Spec => LiveRowLostOnlyToARace
<1> DEFINE Lost ==
      \A p \in Put :
        row # None /\ row' = None /\ row.by = p /\ Live(row, clock) =>
          \/ \E d \in Delete : pc[d] = "queued" /\ pc'[d] = "done"
          \/ \E r \in Read : pc[r] = "remove" /\ pc'[r] = "done"
                             /\ seen[r] # row /\ seen[r] # None
<1>1. LossInv /\ [Next]_vars => [Lost]_vars
  BY StepLoses
<1> HIDE DEF Lost
<1>2. Spec => [][Lost]_vars
  BY <1>1, InitLoss, NextLoss, PTL DEF Spec
<1> QED BY <1>2 DEF Lost, LiveRowLostOnlyToARace
=============================================================================
