----------------------------- MODULE ColdCache -----------------------------
(***************************************************************************)
(* The shared caches of users, playlists and tracks (cold_refresh/         *)
(* service.rs and the get_by_id of users, playlists and tracks): read      *)
(* whatever their age and refreshed behind the answer, filled by the       *)
(* refresh of a user's liked or followed things, dropped by the queue      *)
(* after the owner's writes, and evicted when nobody asks.                 *)
(*                                                                         *)
(* One playlist and one list that holds it are followed.  Users and tracks *)
(* go the same ways, but for the owner's writes, which only playlists      *)
(* have, and the eviction, which passes tracks over.  The list has other   *)
(* items, so it is never empty; the wanted states of its rows are in       *)
(* LikesRefresh, the owner's queue and his own lists in PlaylistSync.      *)
(***************************************************************************)
EXTENDS Naturals

CONSTANTS Callers,     \* calls of get_by_id, each with the refresh it spawns
          Listings,    \* calls of ensure_collection, likewise
          NoCopy,
          MaxEdits,    \* bound: changes of the thing
          MaxLikes,    \* bound: likes of other things, confirmed by the queue
          MaxLapses    \* bound: failing calls and statements, lost tasks
ASSUME ColdAssumption == {MaxEdits, MaxLikes, MaxLapses} \subseteq Nat

VARIABLES edits, gone, \* SoundCloud's version of it; whether it is deleted there
          copy,         \* its row in the shared cache
          caller, thingLocked,     \* get_by_id and refresh_*; the Redis lock of the thing
          listing, listLocked,\* refresh_collection; its Redis lock
          listed,      \* the list's row of the thing in the user's mirror
          synced,      \* age of MAX(synced_at) over the user's mirror
          owner,       \* the owner's write under way, and the version it makes
          settled,     \* history: the version the owner's settled writes made
          likes, lapses
thingVars == <<edits, gone>>
callVars == <<caller, thingLocked>>
collectionVars == <<listing, listLocked, listed, synced, likes>>
ownerVars == <<owner, settled>>
coldVars == <<thingVars, copy, callVars, collectionVars, ownerVars, lapses>>

Resident == [pc |-> "idle", found |-> 0]
NoWrite == [pc |-> "idle", made |-> 0]
(* A row; `late' when it is stored after the owner's write it does not     *)
(* show has been settled (history).                                        *)
CopyOf(found, stale, read) ==
  [found |-> found, stale |-> stale, read |-> read, late |-> found < settled]
ColdInit ==
  /\ settled = 0
  /\ edits = 0 /\ gone = FALSE /\ copy \in {NoCopy, CopyOf(0, TRUE, "never")}
  /\ caller = [c \in Callers |-> Resident] /\ thingLocked = FALSE
  /\ listing = [l \in Listings |-> Resident] /\ listLocked = FALSE
  /\ listed \in BOOLEAN /\ synced \in {"none", "stale"}
  /\ owner = NoWrite /\ likes = 0 /\ lapses = 0

Lapse == lapses < MaxLapses /\ lapses' = lapses + 1
NoLapse == UNCHANGED lapses
Calls(c, pc) == caller' = [caller EXCEPT ![c].pc = pc]
CallEnds(c) == caller' = [caller EXCEPT ![c] = Resident]
ListingEnds(l) == listing' = [listing EXCEPT ![l] = Resident]

-----------------------------------------------------------------------------
(* get_by_id, the same for the three kinds but for what a secret token     *)
(* passes by: a row is the answer however old it is, and a stale one is    *)
(* refreshed in the background.  The update of last_read_at is spawned too: *)
(* one that comes late, or never, is that of a later read.                 *)

Touched(r) == {r, [r EXCEPT !.read = "lately"]}
GetById(c) ==
  /\ caller[c].pc = "idle"
  /\ IF copy = NoCopy THEN Calls(c, "fetch") /\ UNCHANGED copy
     ELSE /\ copy' \in Touched(copy)
          /\ IF copy.stale THEN Calls(c, "lock") ELSE UNCHANGED caller
  /\ NoLapse /\ UNCHANGED <<thingVars, thingLocked, collectionVars, ownerVars>>

(* refresh_track, refresh_user, refresh_playlist: SET NX EX, and nobody    *)
(* deletes the key.                                                        *)
LockThing(c) ==
  /\ caller[c].pc = "lock"
  /\ \/ thingLocked /\ CallEnds(c) /\ UNCHANGED thingLocked /\ NoLapse
     \/ ~thingLocked /\ Calls(c, "fetch") /\ thingLocked' = TRUE /\ NoLapse
     \/ Lapse /\ CallEnds(c) /\ thingLocked' \in {thingLocked, TRUE}
  /\ UNCHANGED <<thingVars, copy, collectionVars, ownerVars>>

(* The GET; SoundCloud has nothing to give of a deleted thing, and the row *)
(* stays as it is.                                                         *)
FetchThing(c) ==
  /\ caller[c].pc = "fetch"
  /\ \/ ~gone /\ caller' = [caller EXCEPT ![c] = [pc |-> "upsert", found |-> edits]] /\ NoLapse
     \/ gone /\ CallEnds(c) /\ NoLapse
     \/ Lapse /\ CallEnds(c)
  /\ UNCHANGED <<thingVars, copy, thingLocked, collectionVars, ownerVars>>

(* upsert_track_cache and its siblings, and the INSERT of a miss. *)
UpsertThing(c) ==
  /\ caller[c].pc = "upsert" /\ CallEnds(c)
  /\ \/ NoLapse /\ copy' = CopyOf(caller[c].found, FALSE, "lately")
     \/ Lapse /\ UNCHANGED copy
  /\ UNCHANGED <<thingVars, thingLocked, collectionVars, ownerVars>>

-----------------------------------------------------------------------------
(* read_collection_page joins the mirror with the shared rows and drops   *)
(* what has none; has_more counts it.                                      *)
PageShows == listed /\ copy # NoCopy

(* ensure_collection: the first refresh is waited for, later ones run      *)
(* behind the page.  MAX(synced_at) is any row's, those included that the  *)
(* queue has just confirmed.                                               *)

(* Mutant: only an empty mirror is refreshed. *)
EnsureFirst(l) ==
  /\ listing[l].pc = "idle" /\ synced = "none" /\ listing' = [listing EXCEPT ![l].pc = "lock"]
  /\ NoLapse /\ UNCHANGED <<thingVars, copy, callVars, listLocked, listed, synced, likes, ownerVars>>

EnsureCollection(l) ==
  /\ listing[l].pc = "idle" /\ synced # "fresh" /\ listing' = [listing EXCEPT ![l].pc = "lock"]
  /\ NoLapse /\ UNCHANGED <<thingVars, copy, callVars, listLocked, listed, synced, likes, ownerVars>>
LockCollection(l) ==
  /\ listing[l].pc = "lock"
  /\ \/ listLocked /\ ListingEnds(l) /\ UNCHANGED listLocked /\ NoLapse
     \/ ~listLocked /\ listing' = [listing EXCEPT ![l].pc = "fetch"] /\ listLocked' = TRUE /\ NoLapse
     \/ Lapse /\ ListingEnds(l) /\ listLocked' \in {listLocked, TRUE}
  /\ UNCHANGED <<thingVars, copy, callVars, listed, synced, likes, ownerVars>>
FetchCollection(l) ==
  /\ listing[l].pc = "fetch"
  /\ \/ /\ listing' = [listing EXCEPT ![l] = [pc |-> IF gone THEN "without" ELSE "upsert", found |-> edits]]
        /\ NoLapse
     \/ Lapse /\ ListingEnds(l)
  /\ UNCHANGED <<thingVars, copy, callVars, listLocked, listed, synced, likes, ownerVars>>

(* One transaction for the shared rows and the mirror's; it leaves         *)
(* last_read_at alone.  Then the orphans go.                               *)
UpsertCollection(l) ==
  /\ listing[l].pc \in {"upsert", "without"}
  /\ \/ /\ NoLapse /\ synced' = "fresh"
        /\ IF listing[l].pc = "without" THEN UNCHANGED <<copy, listed>>
           ELSE /\ listed' = TRUE
                /\ copy' = CopyOf(listing[l].found, FALSE, IF copy = NoCopy THEN "never" ELSE copy.read)
        /\ listing' = [listing EXCEPT ![l].pc = IF @ = "without" THEN "orphans" ELSE "idle"]
     \/ Lapse /\ ListingEnds(l) /\ UNCHANGED <<copy, listed, synced>>
  /\ UNCHANGED <<thingVars, callVars, listLocked, likes, ownerVars>>
DeleteUnlisted(l) ==
  /\ listing[l].pc = "orphans" /\ ListingEnds(l)
  /\ (NoLapse /\ listed' = FALSE) \/ (Lapse /\ UNCHANGED listed)
  /\ UNCHANGED <<thingVars, copy, callVars, listLocked, synced, likes, ownerVars>>

(* The queue confirms a like of something else: its row is synced now. *)
ConfirmLike ==
  /\ likes < MaxLikes /\ likes' = likes + 1 /\ synced' = "fresh" /\ NoLapse
  /\ UNCHANGED <<thingVars, copy, callVars, listing, listLocked, listed, ownerVars>>

-----------------------------------------------------------------------------
(* evict_once: what was read once and not for a month.  Rows that came     *)
(* with a list were never read; tracks stay.                               *)

Evict ==
  /\ copy # NoCopy /\ copy.read = "long_ago" /\ copy' = NoCopy
  /\ NoLapse /\ UNCHANGED <<thingVars, callVars, collectionVars, ownerVars>>

-----------------------------------------------------------------------------
(* SoundCloud and the owner.  His playlist is changed and deleted by way   *)
(* of the queue, which drops the shared row when SoundCloud has agreed; a  *)
(* deletion has dropped it once before.                                    *)

EditedElsewhere ==
  /\ ~gone /\ edits < MaxEdits /\ edits' = edits + 1 /\ NoLapse
  /\ UNCHANGED <<gone, copy, callVars, collectionVars, ownerVars>>
OwnerWrites(pc, made) == owner' = [pc |-> pc, made |-> made]
DeletePlaylist ==
  /\ owner = NoWrite /\ ~gone /\ OwnerWrites("delete", 0) /\ copy' = NoCopy
  /\ NoLapse /\ UNCHANGED <<thingVars, callVars, collectionVars, settled>>
SendDelete ==
  /\ owner.pc = "delete" /\ gone' = TRUE /\ OwnerWrites("deleted", MaxEdits + 1)
  /\ NoLapse /\ UNCHANGED <<edits, copy, callVars, collectionVars, settled>>
SendUpdate ==
  /\ owner = NoWrite /\ ~gone /\ edits < MaxEdits
  /\ edits' = edits + 1 /\ OwnerWrites("updated", edits')
  /\ NoLapse /\ UNCHANGED <<gone, copy, callVars, collectionVars, settled>>

(* Mutant: a deletion relies on what the API handler has dropped. *)
SettleKept ==
  /\ owner.pc \in {"deleted", "updated"} /\ owner' = NoWrite /\ settled' = owner.made
  /\ copy' = IF owner.pc = "deleted" THEN copy ELSE NoCopy
  /\ NoLapse /\ UNCHANGED <<thingVars, callVars, collectionVars>>

(* A statement that fails is repeated with the call it follows. *)
SettleWrite ==
  /\ owner.pc \in {"deleted", "updated"} /\ owner' = NoWrite /\ settled' = owner.made
  /\ copy' = NoCopy
  /\ NoLapse /\ UNCHANGED <<thingVars, callVars, collectionVars>>

-----------------------------------------------------------------------------
(* Time: TTLs of rows and of the list, the minute of a lock, a month. *)
RowAges ==
  /\ copy # NoCopy /\ ~copy.stale /\ copy' = [copy EXCEPT !.stale = TRUE] /\ NoLapse
  /\ UNCHANGED <<thingVars, callVars, collectionVars, ownerVars>>
MonthPasses ==
  /\ copy # NoCopy /\ copy.read = "lately" /\ copy' = [copy EXCEPT !.read = "long_ago"] /\ NoLapse
  /\ UNCHANGED <<thingVars, callVars, collectionVars, ownerVars>>
ListAges ==
  /\ synced = "fresh" /\ synced' = "stale" /\ NoLapse
  /\ UNCHANGED <<thingVars, copy, callVars, listing, listLocked, listed, likes, ownerVars>>
LockExpires ==
  /\ thingLocked /\ thingLocked' = FALSE /\ NoLapse /\ UNCHANGED <<thingVars, copy, caller, collectionVars, ownerVars>>
ListLockExpires ==
  /\ listLocked /\ listLocked' = FALSE /\ NoLapse
  /\ UNCHANGED <<thingVars, copy, callVars, listing, listed, synced, likes, ownerVars>>

ThingStep(c) == LockThing(c) \/ FetchThing(c) \/ UpsertThing(c)
ListingStep(l) == LockCollection(l) \/ FetchCollection(l) \/ UpsertCollection(l) \/ DeleteUnlisted(l)
ColdNext ==
  \/ \E c \in Callers : GetById(c) \/ ThingStep(c)
  \/ \E l \in Listings : EnsureCollection(l) \/ ListingStep(l)
  \/ Evict \/ ConfirmLike
  \/ EditedElsewhere \/ DeletePlaylist \/ SendDelete \/ SendUpdate \/ SettleWrite
  \/ RowAges \/ MonthPasses \/ ListAges \/ LockExpires \/ ListLockExpires

(* Tasks run on, time goes on, and somebody goes on asking (a thing nobody *)
(* asks for, a list nobody opens, stay as they are); nobody has to write   *)
(* or to fail.                                                             *)
ColdFairness ==
  /\ \A c \in Callers : WF_coldVars(GetById(c)) /\ WF_coldVars(ThingStep(c))
  /\ \A l \in Listings : WF_coldVars(EnsureCollection(l)) /\ WF_coldVars(ListingStep(l))
  /\ WF_coldVars(RowAges) /\ WF_coldVars(ListAges)
  /\ WF_coldVars(LockExpires) /\ WF_coldVars(ListLockExpires)
ColdSpec == ColdInit /\ [][ColdNext]_coldVars /\ ColdFairness

-----------------------------------------------------------------------------
(* Properties. *)

(* What the owner changed or deleted is not shown as it was before once    *)
(* the queue has settled it (playlist_update.rs, playlist_delete.rs),      *)
(* unless a task stores later what it had fetched before (late).           *)
OwnWritesShow == copy # NoCopy /\ copy.found < settled => copy.late

(* A thing that goes on being asked for is shown, in the end, as           *)
(* SoundCloud has it; a list that goes on being opened shows, again and    *)
(* again, the thing it holds, whatever was evicted.                        *)
ColdCatchesUp ==
  /\ <>[](copy # NoCopy /\ ~gone => copy.found = edits)
  /\ []<>(listed => PageShows)
=============================================================================
