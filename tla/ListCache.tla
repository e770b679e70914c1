----------------------------- MODULE ListCache -----------------------------
(***************************************************************************)
(* The cache of paged lists (cache/list_cache_service.rs) for one key:     *)
(* get_page extends the list in Redis chunk by chunk from SoundCloud under *)
(* a lock of the process, while handlers invalidate it, Redis expires it   *)
(* and SoundCloud's list changes.                                          *)
(*                                                                         *)
(* A list is its length in chunks, the version of SoundCloud's list its    *)
(* first chunk shows, and the history flags of the properties.  SoundCloud *)
(* has ListLen chunks in every version.                                    *)
(***************************************************************************)
EXTENDS Naturals

CONSTANTS Readers, ListLen,
          MaxChunks,   \* MAX_CHUNKS_PER_REQUEST
          MaxReads,    \* bound: calls of get_page
          MaxLocks,    \* bound: locks the process ever makes for the key
          MaxVersion,  \* bound: changes of SoundCloud's list
          NoList

ASSUME ListCacheAssumption ==
  /\ {ListLen, MaxChunks, MaxReads, MaxLocks, MaxVersion} \subseteq Nat \ {0}

VARIABLES cached,     \* the entry in Redis
          reader,     \* the calls of get_page
          lockOf,     \* the entry of `inflight', 0 for none
          locks,      \* counts the locks made
          version, invalidated,  \* SoundCloud's version, now and at the last invalidation
          reads
listVars == <<cached, reader, lockOf, locks, version, invalidated, reads>>

Empty == [len |-> 0, born |-> 0, straddles |-> FALSE]
Idle == [pc |-> "idle", need |-> 0, list |-> Empty, chunks |-> 0, lock |-> 0, blind |-> FALSE]

ListInit ==
  /\ cached = NoList /\ reader = [r \in Readers |-> Idle]
  /\ lockOf = 0 /\ locks = 0
  /\ version = 0 /\ invalidated = 0 /\ reads = 0

Exhausted(list) == list.len = ListLen
Enough(list, need) == list.len >= need \/ Exhausted(list)
Loaded == IF cached = NoList THEN Empty ELSE cached

-----------------------------------------------------------------------------
(* The first load, outside the lock: enough of the list is an answer. *)
GetPage(r, need) ==
  /\ reader[r].pc = "idle" /\ reads < MaxReads
  /\ reads' = reads + 1
  /\ reader' = IF Enough(Loaded, need) THEN reader
               ELSE [reader EXCEPT ![r] = [Idle EXCEPT !.pc = "lookup", !.need = need, !.list = Loaded]]
  /\ UNCHANGED <<cached, lockOf, locks, version, invalidated>>

(* lock(): get, then insert: two threads can each insert a lock. *)
FindLock(r) ==
  /\ reader[r].pc = "lookup"
  /\ reader' = [reader EXCEPT ![r].pc = IF lockOf = 0 THEN "insert" ELSE "wait", ![r].lock = lockOf]
  /\ UNCHANGED <<cached, lockOf, locks, version, invalidated, reads>>

InsertLock(r) ==
  /\ reader[r].pc = "insert" /\ locks < MaxLocks
  /\ locks' = locks + 1 /\ lockOf' = locks + 1
  /\ reader' = [reader EXCEPT ![r].pc = "wait", ![r].lock = locks + 1]
  /\ UNCHANGED <<cached, version, invalidated, reads>>

(* Nobody used the entry for INFLIGHT_TTL, its holder included, or the map *)
(* is at its capacity.                                                     *)
EvictLock ==
  /\ lockOf # 0 /\ lockOf' = 0
  /\ UNCHANGED <<cached, reader, locks, version, invalidated, reads>>

Holding == {r \in Readers : reader[r].pc \in {"reload", "fetch"}}

Free(lock) == \A x \in Holding : reader[x].lock # lock

OtherLockHeld(lock) == \E x \in Holding : reader[x].lock # lock

Acquire(r) ==
  /\ reader[r].pc = "wait" /\ Free(reader[r].lock)
  /\ reader' = [x \in Readers |->
       CASE x = r -> [reader[r] EXCEPT !.pc = "reload", !.blind = OtherLockHeld(reader[r].lock)]
         [] x \in Holding -> [reader[x] EXCEPT !.blind = @ \/ reader[x].lock # reader[r].lock]
         [] OTHER -> reader[x]]
  /\ UNCHANGED <<cached, lockOf, locks, version, invalidated, reads>>

(* Mutant: the list read before the lock is extended. *)
KeepLoaded(r) ==
  /\ reader[r].pc = "reload"
  /\ reader' = [reader EXCEPT ![r].pc = "fetch"]
  /\ UNCHANGED <<cached, lockOf, locks, version, invalidated, reads>>

(* The second load.  An error of Redis is taken for an empty list. *)
Reload(r) ==
  /\ reader[r].pc = "reload"
  /\ \E fails \in BOOLEAN :
       reader' = [reader EXCEPT ![r].pc = "fetch", ![r].list = IF fails THEN Empty ELSE Loaded,
                                ![r].blind = @ \/ fails]
  /\ UNCHANGED <<cached, lockOf, locks, version, invalidated, reads>>

More(r) == ~Enough(reader[r].list, reader[r].need) /\ reader[r].chunks < MaxChunks

Longer(list) ==
  [list EXCEPT !.len = @ + 1, !.born = IF list.len = 0 THEN version ELSE @]

Fetch(r) ==
  /\ reader[r].pc = "fetch" /\ More(r)
  /\ reader' = [reader EXCEPT ![r].list = Longer(reader[r].list), ![r].chunks = @ + 1]
  /\ UNCHANGED <<cached, lockOf, locks, version, invalidated, reads>>

FetchFails(r) ==
  /\ reader[r].pc = "fetch" /\ More(r)
  /\ reader' = [reader EXCEPT ![r] = Idle]
  /\ UNCHANGED <<cached, lockOf, locks, version, invalidated, reads>>

(* Something fetched is saved, or Redis fails; the lock is released. *)
Save(r) ==
  /\ reader[r].pc = "fetch" /\ ~More(r)
  /\ \/ reader[r].chunks > 0 /\ cached' = reader[r].list
     \/ UNCHANGED cached
  /\ reader' = [reader EXCEPT ![r] = Idle]
  /\ UNCHANGED <<lockOf, locks, version, invalidated, reads>>

-----------------------------------------------------------------------------
(* A handler's invalidation after a comment, a like, a follow or an edit.  *)
(* What a reader has already loaded or fetched survives it.                *)
Invalidate ==
  /\ invalidated # version
  /\ cached' = NoList /\ invalidated' = version
  /\ reader' = [r \in Readers |->
       IF reader[r].pc = "fetch" THEN [reader[r] EXCEPT !.list.straddles = (reader[r].list.len > 0)]
       ELSE reader[r]]
  /\ UNCHANGED <<lockOf, locks, version, reads>>

Expire ==
  /\ cached # NoList /\ cached' = NoList
  /\ UNCHANGED <<reader, lockOf, locks, version, invalidated, reads>>

Changes ==
  /\ version < MaxVersion /\ version' = version + 1
  /\ UNCHANGED <<cached, reader, lockOf, locks, invalidated, reads>>

ReaderStep(r) ==
  \/ FindLock(r) \/ InsertLock(r) \/ Acquire(r)
  \/ Reload(r) \/ Fetch(r) \/ FetchFails(r) \/ Save(r)
ListNext ==
  \/ \E r \in Readers, need \in 1..ListLen : GetPage(r, need)
  \/ \E r \in Readers : ReaderStep(r)
  \/ EvictLock \/ Invalidate \/ Expire \/ Changes
ListSpec == ListInit /\ [][ListNext]_listVars

-----------------------------------------------------------------------------
(* Properties. *)

(* No list from before an invalidation is served after it, except one that *)
(* a reader was extending while it was invalidated.                        *)
NotStale == cached # NoList => cached.born >= invalidated \/ cached.straddles

=============================================================================
