---------------------------- MODULE SemanticFeed ----------------------------
(***************************************************************************)
(* The semantic tier on several replicas (zerocache-http, semantic.rs and  *)
(* completion.rs; zerocache-semantic, index.rs; zerocache-adapters-redis,  *)
(* vector.rs).  One Redis stream of vector records is log and change feed. *)
(* Every replica keeps an index in memory, which its own requests change   *)
(* directly and which its poll task brings up to date from the stream.     *)
(*                                                                         *)
(* A task is one request: a completion (plain or streaming: the tee does   *)
(* what Put, Add and Insert do) or a DELETE.  The keys are neighbours of   *)
(* each other: any of them may be what a search returns, or none.          *)
(***************************************************************************)
EXTENDS Naturals, Sequences

CONSTANTS
  Replica,
  Key,        \* exact keys of one scope, with equal coarse hashes
  Task,
  Deletes,    \* the tasks that are DELETEs
  Home,       \* Home[t]: the replica that serves t
  Target,     \* Target[t]: its key
  Earlier,    \* the entries that an earlier deployment left in the stream
  Stored,     \* the keys whose completions it left in the store
  Page,       \* XREAD_PAGE
  BootPage,   \* XRANGE_PAGE
  Restarts,   \* bounds how often replicas restart
  Faults

FeedFaults == {"expire", "trim", "feed", "boot"}

ASSUME HomeAssumption == Home \in [Task -> Replica]
ASSUME TargetAssumption == Target \in [Task -> Key]
ASSUME DeletesAssumption == Deletes \subseteq Task
ASSUME EarlierAssumption == Earlier \in Seq([op : {"put", "del"}, key : Key])
ASSUME StoredAssumption == Stored \subseteq Key
ASSUME PageAssumption == Page \in Nat \ {0}
ASSUME BootPageAssumption == BootPage \in Nat \ {0}
ASSUME RestartsAssumption == Restarts \in Nat
ASSUME FaultsAssumption == Faults \subseteq FeedFaults

VARIABLES
  pc,         \* where each task is
  near,       \* near[t]: the neighbour that t's search returned
  blob,       \* the keys whose completion is stored
  log,        \* every entry ever added to the stream
  first,      \* the stream holds log[first] and what follows
  index,      \* index[p][k]: the node of k in p's index
  cursor,     \* cursor[p]: how far p has applied the stream
  page,       \* page[p]: entries that p's poll task has read and not applied
  target,     \* target[p]: the cursor that comes with them
  restarts,
  booting,    \* the replicas that read the stream to build their index
  slots,      \* slots[p]: the keys that what p's boot has read so far ends with a put of
  gap,        \* history: the replicas for which the stream was trimmed unread
  torn,       \* history: those for which it was trimmed between two pages of their boot
  astray      \* history: the nodes that p's own requests set past the stream

tasks == <<pc, near>>
stream == <<log, first>>
poller == <<cursor, page, target>>
boot == <<restarts, booting, slots>>
missed == <<gap, torn>>
vars == <<tasks, blob, stream, index, poller, boot, missed, astray>>

Entry == [op : {"put", "del"}, key : Key]

TypeOK ==
  /\ pc \in [Task -> {"new", "search", "get", "heal", "drop", "fetch", "put", "add",
                      "trim", "insert", "erase", "tomb", "append", "done"}]
  /\ near \in [Task -> Key]
  /\ blob \subseteq Key
  /\ log \in Seq(Entry)
  /\ first \in 1..(Len(log) + 1)
  /\ index \in [Replica -> [Key -> {"none", "live", "tomb"}]]
  /\ cursor \in [Replica -> 0..Len(log)]
  /\ page \in [Replica -> Seq(Entry)]
  /\ target \in [Replica -> 0..Len(log)]
  /\ restarts \in 0..Restarts
  /\ booting \subseteq Replica
  /\ slots \in [Replica -> SUBSET Key]
  /\ gap \subseteq Replica
  /\ torn \subseteq Replica
  /\ astray \in [Replica -> SUBSET Key]

Goto(t, there) == pc' = [pc EXCEPT ![t] = there]

-----------------------------------------------------------------------------
(* The stream: XADD, with the trimming that comes with it, and the fold.     *)

(* An append may trim what is older than the new entry, oldest first: MAXLEN *)
(* is approximate, so any part of it.                                        *)
XAdd(op, k) ==
  /\ log' = Append(log, [op |-> op, key |-> k])
  /\ first' \in IF "trim" \in Faults THEN first..(Len(log) + 1) ELSE {first}

(* What a sequence of entries folds to for key k: the last operation wins.   *)
Folded(entries, k) ==
  LET at == {i \in 1..Len(entries) : entries[i].key = k}
  IN  IF at = {} THEN "none"
      ELSE entries[CHOOSE i \in at : \A j \in at : j <= i].op

Applied(p) == SubSeq(log, 1, cursor[p])

(* SemanticIndex.insert adds a node or clears its tombstone; tombstone marks *)
(* a node there is, and does nothing for a key without one.                  *)
Inserted(node) == "live"

Tombstoned(node) == IF node = "none" THEN "none" ELSE "tomb"

AfterEntries(node, entries, k) ==
  CASE Folded(entries, k) = "put"  -> Inserted(node)
    [] Folded(entries, k) = "del"  -> Tombstoned(node)
    [] Folded(entries, k) = "none" -> node

(* The slots of xrange_fold after some more entries, of those kept so far.   *)
\* mutant of Slotted: every put, deleted since or not
SlottedByPuts(kept, entries) ==
  kept \cup {k \in Key : \E i \in 1..Len(entries) : entries[i] = [op |-> "put", key |-> k]}

Slotted(kept, entries) ==
  {k \in Key : \/ Folded(entries, k) = "put"
               \/ Folded(entries, k) = "none" /\ k \in kept}

(* The index that a replica boots with: the puts the stream folds to.        *)
Booted(kept) == [k \in Key |-> IF k \in kept THEN "live" ELSE "none"]

(* The replicas have booted on what an earlier deployment left.              *)
Init ==
  /\ pc = [t \in Task |-> IF t \in Deletes THEN "erase" ELSE "new"]
  /\ near = Target
  /\ blob = Stored
  /\ log = Earlier
  /\ first = 1
  /\ index = [p \in Replica |-> Booted(Slotted({}, Earlier))]
  /\ cursor = [p \in Replica |-> Len(Earlier)]
  /\ page = [p \in Replica |-> <<>>]
  /\ target = [p \in Replica |-> 0]
  /\ restarts = 0
  /\ booting = {}
  /\ slots = [p \in Replica |-> {}]
  /\ gap = {}
  /\ torn = {}
  /\ astray = [p \in Replica |-> {}]

-----------------------------------------------------------------------------
(***************************************************************************)
(* A completion: exact lookup, search, and the stored completion of the    *)
(* neighbour found.  The search is approximate, so it may find nothing.  A *)
(* replica serves from when it has booted.                                 *)
(***************************************************************************)
Lookup(t) ==
  /\ pc[t] = "new"
  /\ Home[t] \notin booting
  /\ Goto(t, IF Target[t] \in blob THEN "done" ELSE "search")
  /\ UNCHANGED <<near, blob, stream, index, poller, boot, missed, astray>>

Search(t) ==
  /\ pc[t] = "search"
  /\ \/ /\ \E k \in Key : /\ index[Home[t]][k] = "live"
                          /\ near' = [near EXCEPT ![t] = k]
        /\ Goto(t, "get")
     \/ /\ Goto(t, "fetch")
        /\ UNCHANGED near
  /\ UNCHANGED <<blob, stream, index, poller, boot, missed, astray>>

Get(t) ==
  /\ pc[t] = "get"
  /\ Goto(t, IF near[t] \in blob THEN "done" ELSE "heal")
  /\ UNCHANGED <<near, blob, stream, index, poller, boot, missed, astray>>

(* The neighbour's completion was gone: tombstone it, then drop its record.  *)
SetTombstone(p, k) == index' = [index EXCEPT ![p][k] = Tombstoned(@)]

Heal(t) ==
  /\ pc[t] = "heal"
  /\ SetTombstone(Home[t], near[t])
  /\ Goto(t, "drop")
  /\ UNCHANGED <<near, blob, stream, poller, boot, missed, astray>>

(* XADD op=del; a failure is logged, and the tombstone stays for this        *)
(* replica alone.                                                            *)
AddTombstone(p, k) ==
  \/ XAdd("del", k) /\ UNCHANGED astray
  \/ /\ "feed" \in Faults
     /\ astray' = [astray EXCEPT ![p] = @ \cup {k}]
     /\ UNCHANGED stream

Drop(t) ==
  /\ pc[t] = "drop"
  /\ AddTombstone(Home[t], near[t])
  /\ Goto(t, "fetch")
  /\ UNCHANGED <<near, blob, index, poller, boot, missed>>

(* The coalesced fetch: a response of its own is to be stored; an error, a   *)
(* peer's or a claimer's response is not.                                    *)
Fetch(t) ==
  /\ pc[t] = "fetch"
  /\ Goto(t, "put") \/ Goto(t, "done")
  /\ UNCHANGED <<near, blob, stream, index, poller, boot, missed, astray>>

(* Nothing is recorded when the embedder failed or the client left.          *)
Put(t) ==
  /\ pc[t] = "put"
  /\ blob' = blob \cup {Target[t]}
  /\ Goto(t, "add") \/ Goto(t, "done")
  /\ UNCHANGED <<near, stream, index, poller, boot, missed, astray>>

(***************************************************************************)
(* record_vector: XADD op=put, XTRIM, then the local insert.  A lost reply,*)
(* a timeout or a client that left keep the insert from happening.         *)
(***************************************************************************)
Add(t) ==
  /\ pc[t] = "add"
  /\ XAdd("put", Target[t])
  /\ Goto(t, "trim") \/ Goto(t, "done")
  /\ UNCHANGED <<near, blob, index, poller, boot, missed, astray>>

AddFails(t) ==
  /\ "feed" \in Faults
  /\ pc[t] = "add"
  /\ Goto(t, "done")
  /\ UNCHANGED <<near, blob, stream, index, poller, boot, missed, astray>>

(* XTRIM MINID, a command of its own: what is older than the time to live.   *)
Trim(t) ==
  /\ pc[t] = "trim"
  /\ first' \in IF "trim" \in Faults THEN first..(Len(log) + 1) ELSE {first}
  /\ Goto(t, "insert") \/ Goto(t, "done")
  /\ UNCHANGED <<near, blob, log, index, poller, boot, missed, astray>>

(* The insert is astray when the poll task has been past a delete of the key *)
(* by then: nothing in the stream will take the node back.                   *)
Insert(t) ==
  /\ pc[t] = "insert"
  /\ index' = [index EXCEPT ![Home[t]][Target[t]] = Inserted(@)]
  /\ astray' = IF Folded(Applied(Home[t]), Target[t]) = "del"
               THEN [astray EXCEPT ![Home[t]] = @ \cup {Target[t]}] ELSE astray
  /\ Goto(t, "done")
  /\ UNCHANGED <<near, blob, stream, poller, boot, missed>>

(* A DELETE: the completion, the local tombstone, the stream.                *)
Erase(t) ==
  /\ pc[t] = "erase"
  /\ Home[t] \notin booting
  /\ blob' = blob \ {Target[t]}
  /\ Goto(t, "tomb")
  /\ UNCHANGED <<near, stream, index, poller, boot, missed, astray>>

Tomb(t) ==
  /\ pc[t] = "tomb"
  /\ SetTombstone(Home[t], Target[t])
  /\ Goto(t, "append")
  /\ UNCHANGED <<near, blob, stream, poller, boot, missed, astray>>

AppendDel(t) ==
  /\ pc[t] = "append"
  /\ AddTombstone(Home[t], Target[t])
  /\ Goto(t, "done")
  /\ UNCHANGED <<near, blob, index, poller, boot, missed>>

(* The client leaves, or the store fails, while the handler awaits; what the *)
(* stream was already asked to add is added all the same.                    *)
Leave(t) ==
  /\ pc[t] \in {"search", "get", "heal", "fetch", "tomb"}
  /\ Goto(t, "done")
  /\ UNCHANGED <<near, blob, stream, index, poller, boot, missed, astray>>

TaskStep(t) ==
  \/ Lookup(t) \/ Search(t) \/ Get(t) \/ Heal(t) \/ Drop(t)
  \/ Fetch(t) \/ Put(t) \/ Add(t) \/ AddFails(t) \/ Trim(t) \/ Insert(t)
  \/ Erase(t) \/ Tomb(t) \/ AppendDel(t)

-----------------------------------------------------------------------------
(***************************************************************************)
(* The poll task of replica p: read a page after the cursor, fold it, then *)
(* apply it and advance the cursor.  A failed read keeps the cursor.       *)
(***************************************************************************)
From(p) == IF first > cursor[p] + 1 THEN first ELSE cursor[p] + 1

Read(p) ==
  /\ p \notin booting
  /\ page[p] = <<>>
  /\ From(p) <= Len(log)
  /\ \E n \in 1..Page :
       /\ target' = [target EXCEPT ![p] = From(p) + n - 1]
       /\ n = Page \/ From(p) + n - 1 = Len(log)
       /\ From(p) + n - 1 <= Len(log)
       /\ page' = [page EXCEPT ![p] = SubSeq(log, From(p), From(p) + n - 1)]
  /\ gap' = IF first > cursor[p] + 1 THEN gap \cup {p} ELSE gap
  /\ UNCHANGED <<tasks, blob, stream, index, cursor, boot, torn, astray>>

(* The cursor moves to the last entry of the page, and no further.           *)
\* mutant of Advanced: the cursor is taken from the end of the stream
AdvancedToEnd(p) == Len(log)

\* mutant of Advanced: one entry too far
AdvancedPast(p) == target[p] + 1

Advanced(p) == target[p]

Apply(p) ==
  /\ page[p] # <<>>
  /\ index' = [index EXCEPT ![p] = [k \in Key |-> AfterEntries(@[k], page[p], k)]]
  /\ cursor' = [cursor EXCEPT ![p] = Advanced(p)]
  /\ page' = [page EXCEPT ![p] = <<>>]
  /\ astray' = [astray EXCEPT ![p] = {k \in @ : Folded(page[p], k) = "none"}]
  /\ UNCHANGED <<tasks, blob, stream, target, boot, missed>>

PollStep(p) == Read(p) \/ Apply(p)

(***************************************************************************)
(* Replica p restarts: its requests die, and it boots.  A boot reads the   *)
(* stream page by page, each after the last entry it has seen, and peers   *)
(* add and trim between two pages; a page that is not full is the last.    *)
(***************************************************************************)
Restart(p) ==
  /\ restarts < Restarts
  /\ restarts' = restarts + 1
  /\ pc' = [t \in Task |-> IF Home[t] = p /\ pc[t] \notin {"new", "erase"}
                           THEN "done" ELSE pc[t]]
  /\ booting' = booting \cup {p}
  /\ slots' = [slots EXCEPT ![p] = {}]
  /\ index' = [index EXCEPT ![p] = Booted({})]
  /\ cursor' = [cursor EXCEPT ![p] = 0]
  /\ page' = [page EXCEPT ![p] = <<>>]
  /\ target' = [target EXCEPT ![p] = 0]
  /\ gap' = gap \ {p}
  /\ torn' = torn \ {p}
  /\ astray' = [astray EXCEPT ![p] = {}]
  /\ UNCHANGED <<near, blob, stream>>

(* What an XRANGE returns to p's boot, and the slots after it.               *)
BootEntries(p) ==
  SubSeq(log, From(p), IF From(p) + BootPage - 1 < Len(log) THEN From(p) + BootPage - 1
                       ELSE Len(log))

(* Entries that were trimmed unread are missed; they tear the boot when it   *)
(* has read a page before them.                                              *)
BootMisses(p) ==
  /\ gap' = IF first > cursor[p] + 1 THEN gap \cup {p} ELSE gap
  /\ torn' = IF cursor[p] > 0 /\ first > cursor[p] + 1 THEN torn \cup {p} ELSE torn

BootRead(p) ==
  /\ p \in booting
  /\ LET n    == Len(BootEntries(p))
         kept == Slotted(slots[p], BootEntries(p))
     IN  /\ cursor' = [cursor EXCEPT ![p] = IF n = 0 THEN @ ELSE From(p) + n - 1]
         /\ \/ /\ n = BootPage
               /\ slots' = [slots EXCEPT ![p] = kept]
               /\ UNCHANGED <<booting, index>>
            \/ /\ n < BootPage
               /\ booting' = booting \ {p}
               /\ slots' = [slots EXCEPT ![p] = {}]
               /\ index' = [index EXCEPT ![p] = Booted(kept)]
  /\ BootMisses(p)
  /\ UNCHANGED <<tasks, blob, stream, page, target, restarts, astray>>

(* A page that could not be read: the index stays empty, and the poll task   *)
(* starts from the beginning of the stream.                                  *)
BootFails(p) ==
  /\ "boot" \in Faults
  /\ p \in booting
  /\ booting' = booting \ {p}
  /\ slots' = [slots EXCEPT ![p] = {}]
  /\ index' = [index EXCEPT ![p] = Booted({})]
  /\ cursor' = [cursor EXCEPT ![p] = 0]
  /\ gap' = gap \ {p}
  /\ UNCHANGED <<tasks, blob, stream, page, target, restarts, torn, astray>>

BootStep(p) == Restart(p) \/ BootRead(p) \/ BootFails(p)

(* A completion's time to live ends. *)
Expire ==
  /\ "expire" \in Faults
  /\ \E k \in blob : blob' = blob \ {k}
  /\ UNCHANGED <<tasks, stream, index, poller, boot, missed, astray>>

Next ==
  \/ \E t \in Task : TaskStep(t) \/ Leave(t)
  \/ \E p \in Replica : PollStep(p) \/ BootStep(p)
  \/ Expire

Spec == Init /\ [][Next]_vars

-----------------------------------------------------------------------------
Truth(k) == Folded(log, k)

Live(p, k) == index[p][k] = "live"

(* p has applied the whole stream.                                           *)
CaughtUp(p) == p \notin booting /\ cursor[p] = Len(log)

(* The stream still holds an entry of k.                                     *)
Kept(k) == \E i \in first..Len(log) : log[i].key = k

(* A tombstone that one of p's requests has set and not yet told the stream. *)
Untold(p, k) ==
  \E t \in Task :
    /\ Home[t] = p
    /\ \/ pc[t] = "drop" /\ near[t] = k
       \/ pc[t] = "append" /\ Target[t] = k

(***************************************************************************)
(* A replica that has applied the whole stream finds a vector exactly if   *)
(* the last record of its key is a put, whoever added or deleted it, in    *)
(* whatever pages the replica read it at its boot and since: for every key *)
(* if nothing was trimmed unread, and else for the keys the stream still   *)
(* holds a record of; unless one of its own inserts was overtaken or one   *)
(* of its own deletes never reached the stream (xrange_fold,               *)
(* apply_vector_changes, xread_blocking, index.rs).                        *)
(***************************************************************************)
CaughtUpAgrees ==
  \A p \in Replica, k \in Key :
    CaughtUp(p) /\ (p \notin gap \/ Kept(k)) /\ k \notin astray[p] /\ ~Untold(p, k) =>
      (Live(p, k) <=> Truth(k) = "put")

(***************************************************************************)
(* A replica whose boot ends finds a deleted vector only if the stream was *)
(* trimmed between two pages of that very boot, and then only a vector of  *)
(* which it holds no record any more: a boot that began after the trimming *)
(* revives nothing (xrange_fold, rebuild_index; decisions.md:133).         *)
(***************************************************************************)
BootRevivesOnlyTheTorn ==
  [][\A p \in booting \ booting' : \A k \in Key :
       Live(p, k)' => Truth(k) = "put" \/ (p \in torn' /\ ~Kept(k))]_vars
=============================================================================
