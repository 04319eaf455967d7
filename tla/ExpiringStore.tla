---------------------------- MODULE ExpiringStore ----------------------------
(***************************************************************************)
(* One key of a store whose entries expire, under calls that run on the    *)
(* blocking pool (zerocache-http, app.rs: run_store_task).  A call whose   *)
(* caller has timed out goes on.  The store is a tree of sled              *)
(* (zerocache-adapters-sled, lib.rs), where a reader tests the expiry and  *)
(* removes the row itself, or Redis (zerocache-adapters-redis, lib.rs),    *)
(* where every call is one command.  Sled's embedding and completion trees *)
(* are read by `get` (the row, then the clock), its vector tree by         *)
(* `load_all` (the clock, then the row).  A value is named after the put   *)
(* that wrote it.                                                          *)
(***************************************************************************)
EXTENDS Integers

CONSTANTS
  Put, Delete, Read,  \* the calls
  TtlSetting,         \* ZEROCACHE_TTL_SECONDS; None when absent or not a number
  Grain,              \* clock ticks in a second
  MaxClock,           \* bound on the clock, in ticks
  None,
  Faults              \* "store" calls fail, "timeout" callers give up

Call == Put \cup Delete \cup Read
Writer == Put \cup Delete

ASSUME CallsAssumption ==
  /\ Put \cap Delete = {} /\ Put \cap Read = {} /\ Delete \cap Read = {}
  /\ None \notin Call
ASSUME TimeAssumption ==
  /\ TtlSetting \in Nat \cup {None} /\ None \notin Nat
  /\ Grain \in Nat \ {0} /\ MaxClock \in Nat
ASSUME FaultsAssumption == Faults \subseteq {"store", "timeout"}

(* Seconds an entry lives.  A setting of 0 is no setting: Redis would refuse  *)
(* it and sled would expire every entry at once.                             *)
Ttl == IF TtlSetting \in Nat \ {0} THEN TtlSetting ELSE None

VARIABLES
  kind,    \* which store the key is in
  clock,   \* SystemTime, in ticks; the epoch is far behind
  row,     \* what the store holds: the put that wrote it and its expiry
  pc,      \* where each call is
  at,      \* at[c]: the clock as c read it
  seen,    \* seen[r]: the row as r read it
  answer,  \* answer[r]: the value r returned, None for an absent one
  told,    \* told[c]: what the caller of a put or delete knows
  acked    \* history: the puts that had been reported stored when d ran

calls == <<pc, at, seen, answer, told, acked>>
vars == <<kind, clock, row, calls>>

Kinds == {"values", "vectors", "redis"}
Row == [by : Put, until : Nat]
ASSUME NoneAssumption == None \notin Row

TypeOK ==
  /\ kind \in Kinds
  /\ clock \in Nat
  /\ row \in Row \cup {None}
  /\ pc \in [Call -> {"queued", "write", "test", "scan", "remove", "done"}]
  /\ at \in [Call -> Nat]
  /\ seen \in [Read -> Row \cup {None}]
  /\ answer \in [Read -> Put \cup {None}]
  /\ told \in [Writer -> {"nothing", "ok", "failed"}]
  /\ acked \in [Delete -> SUBSET Put]
  /\ \A c \in Writer : told[c] = "ok" => pc[c] = "done"
  /\ \A r \in Read : answer[r] # None => pc[r] = "done"

Init ==
  /\ kind \in Kinds
  /\ clock = Grain
  /\ row = None
  /\ pc = [c \in Call |-> "queued"]
  /\ at = [c \in Call |-> 0]
  /\ seen = [r \in Read |-> None]
  /\ answer = [r \in Read |-> None]
  /\ told = [c \in Writer |-> "nothing"]
  /\ acked = [d \in Delete |-> {}]

Goto(c, there) == pc' = [pc EXCEPT ![c] = there]

(* A write ends with this outcome; a caller that gave up does not hear it.   *)
Return(c, outcome) ==
  /\ Goto(c, "done")
  /\ told' = [told EXCEPT ![c] = IF @ = "nothing" THEN outcome ELSE @]

(***************************************************************************)
(* Sled stores whole seconds, 0 for never; Redis is given the seconds to   *)
(* live and counts them in milliseconds from when it runs the command.     *)
(***************************************************************************)
\* mutants of Expiry: the second is rounded up; the time to live is left out
ExpiryRoundedUp(now) ==
  IF Ttl = None THEN 0 ELSE ((now + Ttl * Grain) \div Grain + 1) * Grain
ExpiryAtOnce(now) == IF Ttl = None THEN 0 ELSE (now \div Grain) * Grain

Expiry(now) == IF Ttl = None THEN 0 ELSE ((now + Ttl * Grain) \div Grain) * Grain

RedisExpiry(now) == IF Ttl = None THEN 0 ELSE now + Ttl * Grain

Expired(entry, now) == entry.until # 0 /\ now > entry.until

-----------------------------------------------------------------------------
(* put and insert: the expiry is computed, then the row is inserted.         *)
PutReadsClock(p) ==
  /\ kind # "redis"
  /\ pc[p] = "queued"
  /\ at' = [at EXCEPT ![p] = clock]
  /\ Goto(p, "write")
  /\ UNCHANGED <<kind, clock, row, seen, answer, told, acked>>

PutLands(p) ==
  /\ pc[p] = "write"
  /\ row' = [by |-> p, until |-> Expiry(at[p])]
  /\ Return(p, "ok")
  /\ UNCHANGED <<kind, clock, at, seen, answer, acked>>

(* SET EX and SET.                                                           *)
SetLands(p) ==
  /\ kind = "redis"
  /\ pc[p] = "queued"
  /\ at' = [at EXCEPT ![p] = clock]
  /\ row' = [by |-> p, until |-> RedisExpiry(clock)]
  /\ Return(p, "ok")
  /\ UNCHANGED <<kind, clock, seen, answer, acked>>

(* remove, and DEL.                                                          *)
DeleteLands(d) ==
  /\ pc[d] = "queued"
  /\ row' = None
  /\ Return(d, "ok")
  /\ acked' = [acked EXCEPT ![d] = {p \in Put : told[p] = "ok"}]
  /\ UNCHANGED <<kind, clock, at, seen, answer>>

(***************************************************************************)
(* get: read the row; test its expiry; if it is past, remove whatever the  *)
(* tree holds now.  A failed removal is ignored.                           *)
(***************************************************************************)
Answer(r, entry) ==
  /\ answer' = [answer EXCEPT ![r] = IF entry = None THEN None ELSE entry.by]
  /\ Goto(r, "done")

GetRow(r) ==
  /\ kind = "values"
  /\ pc[r] = "queued"
  /\ seen' = [seen EXCEPT ![r] = row]
  /\ IF row = None THEN Answer(r, None) ELSE Goto(r, "test") /\ UNCHANGED answer
  /\ UNCHANGED <<kind, clock, row, at, told, acked>>

\* mutant of GetTest: the expired value is served while it is removed
GetTestServes(r) ==
  /\ pc[r] = "test"
  /\ at' = [at EXCEPT ![r] = clock]
  /\ answer' = [answer EXCEPT ![r] = seen[r].by]
  /\ Goto(r, IF Expired(seen[r], clock) THEN "remove" ELSE "done")
  /\ UNCHANGED <<kind, clock, row, seen, told, acked>>

GetTest(r) ==
  /\ pc[r] = "test"
  /\ at' = [at EXCEPT ![r] = clock]
  /\ IF Expired(seen[r], clock)
     THEN Goto(r, "remove") /\ UNCHANGED answer
     ELSE Answer(r, seen[r])
  /\ UNCHANGED <<kind, clock, row, seen, told, acked>>

RemoveExpired(r) ==
  /\ pc[r] = "remove"
  /\ \/ row' = None
     \/ "store" \in Faults /\ UNCHANGED row
  /\ Answer(r, None)
  /\ UNCHANGED <<kind, clock, at, seen, told, acked>>

(* load_all: one reading of the clock for all rows.                          *)
LoadReadsClock(r) ==
  /\ kind = "vectors"
  /\ pc[r] = "queued"
  /\ at' = [at EXCEPT ![r] = clock]
  /\ Goto(r, "scan")
  /\ UNCHANGED <<kind, clock, row, seen, answer, told, acked>>

LoadRow(r) ==
  /\ pc[r] = "scan"
  /\ seen' = [seen EXCEPT ![r] = row]
  /\ IF row # None /\ Expired(row, at[r])
     THEN Goto(r, "remove") /\ UNCHANGED answer
     ELSE Answer(r, row)
  /\ UNCHANGED <<kind, clock, row, at, told, acked>>

(* GET; Redis drops an expired row when it is asked for it, or before.       *)
GetLands(r) ==
  /\ kind = "redis"
  /\ pc[r] = "queued"
  /\ at' = [at EXCEPT ![r] = clock]
  /\ Answer(r, IF row # None /\ Expired(row, clock) THEN None ELSE row)
  /\ UNCHANGED <<kind, clock, row, seen, told, acked>>

RedisDrops ==
  /\ kind = "redis"
  /\ row # None /\ Expired(row, clock)
  /\ row' = None
  /\ UNCHANGED <<kind, clock, calls>>

(* The store reports an error: the write did not happen, the read has no answer.  *)
WriteFails(c) ==
  /\ "store" \in Faults
  /\ pc[c] = IF c \in Put /\ kind # "redis" THEN "write" ELSE "queued"
  /\ Return(c, "failed")
  /\ UNCHANGED <<kind, clock, row, at, seen, answer, acked>>

ReadFails(r) ==
  /\ "store" \in Faults
  /\ pc[r] = IF kind = "vectors" THEN "scan" ELSE "queued"
  /\ Goto(r, "done")
  /\ UNCHANGED <<kind, clock, row, at, seen, answer, told, acked>>

(***************************************************************************)
(* STORE_TIMEOUT ends the caller's wait and nothing else; nor does the     *)
(* timeout of a socket to Redis take back a command.                       *)
(***************************************************************************)
\* mutant of TimeOut: the caller is told that the call succeeded
TimeOutUnnoticed(c) ==
  /\ "timeout" \in Faults
  /\ pc[c] # "done" /\ told[c] = "nothing"
  /\ told' = [told EXCEPT ![c] = "ok"]
  /\ UNCHANGED <<kind, clock, row, pc, at, seen, answer, acked>>

TimeOut(c) ==
  /\ "timeout" \in Faults
  /\ pc[c] # "done" /\ told[c] = "nothing"
  /\ told' = [told EXCEPT ![c] = "failed"]
  /\ UNCHANGED <<kind, clock, row, pc, at, seen, answer, acked>>

Tick ==
  /\ clock < MaxClock
  /\ clock' = clock + 1
  /\ UNCHANGED <<kind, row, calls>>

Next ==
  \/ \E c \in Writer : WriteFails(c) \/ TimeOut(c)
  \/ \E p \in Put : PutReadsClock(p) \/ PutLands(p) \/ SetLands(p)
  \/ \E d \in Delete : DeleteLands(d)
  \/ \E r \in Read :
       \/ GetRow(r) \/ GetTest(r) \/ RemoveExpired(r)
       \/ LoadReadsClock(r) \/ LoadRow(r) \/ GetLands(r) \/ ReadFails(r)
  \/ RedisDrops
  \/ Tick

Spec == Init /\ [][Next]_vars

-----------------------------------------------------------------------------
(***************************************************************************)
(* A value is never served after its time to live, whatever happens to the *)
(* row between the read, the test and the removal: storing whole seconds   *)
(* may cut a life short but never prolongs it (sled lib.rs:44-56, 147-174).*)
(***************************************************************************)
NeverServesExpired ==
  Ttl # None =>
    \A r \in Read : answer[r] # None => at[r] <= at[answer[r]] + Ttl * Grain

(***************************************************************************)
(* A row that is not yet in the last second of its life is removed by a    *)
(* DELETE, or by a reader that found its expired predecessor before the    *)
(* row's put landed: sled lib.rs:53 removes without comparing.  No other   *)
(* step loses a live entry.                                                *)
(***************************************************************************)
Live(entry, now) == Ttl = None \/ now + Grain <= at[entry.by] + Ttl * Grain

LiveRowLostOnlyToARace ==
  [][\A p \in Put :
       row # None /\ row' = None /\ row.by = p /\ Live(row, clock) =>
         \/ \E d \in Delete : pc[d] = "queued" /\ pc'[d] = "done"
         \/ \E r \in Read : pc[r] = "remove" /\ pc'[r] = "done"
                            /\ seen[r] # row /\ seen[r] # None]_vars

(***************************************************************************)
(* A value that was reported stored before a DELETE removed it does not    *)
(* come back after it.  A put that was reported failed may: STORE_TIMEOUT  *)
(* (app.rs:82-97) does not stop its task.                                  *)
(***************************************************************************)
AckedPutStaysDeleted ==
  \A d \in Delete :
    pc[d] = "done" /\ told[d] = "ok" /\ row # None => row.by \notin acked[d]
=============================================================================
