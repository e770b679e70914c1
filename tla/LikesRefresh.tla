----------------------------- MODULE LikesRefresh -----------------------------
(***************************************************************************)
(* The cold refresh of a wanted-state collection (cold_refresh/service.rs, *)
(* refresh_collection with LIKED_TRACKS, LIKED_PLAYLISTS or FOLLOWINGS)    *)
(* running beside the requests and the sync worker of LikesSync: it pages  *)
(* through SoundCloud's list, upserts the mirror chunk by chunk, then      *)
(* deletes the confirmed rows the list did not show.  All targets belong   *)
(* to one user.  SoundCloud's list also changes on its own side.           *)
(***************************************************************************)
EXTENDS LikesSync

CONSTANTS
    Refreshers,  \* tasks that may refresh the collection
    ChunkSize    \* REFRESH_BATCH_SIZE

ASSUME RefreshAssumption == ChunkSize \in Nat \ {0}

VARIABLES
    refresh,     \* each task's refresh
    lock         \* the Redis lock "refresh:<kind>:<user>" is set

refreshVars == <<refresh, lock>>
allVars == <<queue, flush, handler, requests, faults, mirror, sc, seen, refresh, lock>>

(* left: what the next pages will cover; items: what the pages showed;      *)
(* todo: items not yet upserted.                                            *)
NoRefresh == [pc |-> "idle", left |-> {}, items |-> {}, todo |-> {}]

RefreshInit ==
    /\ LikesInit
    /\ refresh = [r \in Refreshers |-> NoRefresh]
    /\ lock = FALSE

Keep(r, record) == refresh' = [refresh EXCEPT ![r] = record]
Untouched == UNCHANGED <<queue, flush, handler, requests, seen>>

-----------------------------------------------------------------------------
(* SET NX EX.  A task that does not get the lock returns at once. *)
StartRefresh(r) ==
    /\ refresh[r] = NoRefresh
    /\ ~lock
    /\ lock' = TRUE
    /\ Keep(r, [NoRefresh EXCEPT !.pc = "fetch", !.left = Targets])
    /\ Untouched /\ UNCHANGED <<faults, mirror, sc>>

(* One page: the liked ones of the targets it covers, as they are now. *)
FetchPage(r, page) ==
    /\ refresh[r].pc = "fetch"
    /\ page # {} /\ page \subseteq refresh[r].left
    /\ LET left  == refresh[r].left \ page
           items == refresh[r].items \cup {t \in page : sc[t]}
       IN  Keep(r, [pc |-> IF left # {} THEN "fetch" ELSE IF items # {} THEN "upsert" ELSE "orphans",
                    left |-> left, items |-> items, todo |-> items])
    /\ Untouched /\ UNCHANGED <<faults, mirror, sc, lock>>

(* One transaction per chunk.  A row that is there only gets its synced_at. *)
UpsertChunk(r, chunk) ==
    /\ refresh[r].pc = "upsert"
    /\ chunk \subseteq refresh[r].todo
    /\ \/ Cardinality(chunk) = ChunkSize
       \/ chunk = refresh[r].todo /\ Cardinality(chunk) < ChunkSize
    /\ mirror' = [t \in Targets |-> IF t \in chunk /\ ~mirror[t].present THEN Synced ELSE mirror[t]]
    /\ LET todo == refresh[r].todo \ chunk
       IN  Keep(r, [refresh[r] EXCEPT !.todo = todo,
                                      !.pc = IF todo = {} THEN "orphans" ELSE "upsert"])
    /\ Untouched /\ UNCHANGED <<faults, sc, lock>>

\* Mutant of Orphan: the progress test is inverted.
OrphanPending(t, items) == items # {} /\ t \notin items /\ mirror[t] = Pending

(* delete_orphans, unless the whole list came back empty.  The lock is not  *)
(* released: it expires.                                                    *)
Orphan(t, items) == items # {} /\ t \notin items /\ mirror[t] = Synced

DeleteOrphans(r) ==
    /\ refresh[r].pc = "orphans"
    /\ mirror' = [t \in Targets |-> IF Orphan(t, refresh[r].items) THEN NoMirror ELSE mirror[t]]
    /\ Keep(r, NoRefresh)
    /\ Untouched /\ UNCHANGED <<faults, sc, lock>>

(* A page fails, a statement fails or the process dies. *)
StopRefresh(r) ==
    /\ refresh[r] # NoRefresh
    /\ Fault
    /\ Keep(r, NoRefresh)
    /\ Untouched /\ UNCHANGED <<mirror, sc, lock>>

(* The lock's TTL runs out, normally after the refresh it guarded. *)
ExpireLock ==
    /\ lock
    /\ IF \A r \in Refreshers : refresh[r] = NoRefresh THEN UNCHANGED faults ELSE Fault
    /\ lock' = FALSE
    /\ Untouched /\ UNCHANGED <<mirror, sc, refresh>>

(* The user likes or unlikes on soundcloud.com; bounded with the faults. *)
RemoteChange(t) ==
    /\ Fault
    /\ sc' = [sc EXCEPT ![t] = ~@]
    /\ Untouched /\ UNCHANGED <<mirror, refresh, lock>>

-----------------------------------------------------------------------------
Working(r) ==
    \/ \E ts \in SUBSET Targets : FetchPage(r, ts) \/ UpsertChunk(r, ts)
    \/ DeleteOrphans(r)

RefreshStep == \E r \in Refreshers : StartRefresh(r) \/ Working(r) \/ StopRefresh(r)

LikesStep   == LikesNext /\ UNCHANGED refreshVars

RefreshNext ==
    \/ LikesStep
    \/ RefreshStep
    \/ ExpireLock
    \/ \E t \in Targets : RemoteChange(t)

(* A refresh that started runs on.  That one starts at all depends on the   *)
(* user's reads (ensure_collection): the properties assume it where needed. *)
RefreshFairness ==
    /\ \A h \in Handlers : WF_allVars(LikeHandlerStep(h) /\ UNCHANGED refreshVars)
    /\ \A f \in Flushers : WF_allVars(LikeFlushStep(f) /\ UNCHANGED refreshVars)
    /\ WF_allVars(LikeTick /\ UNCHANGED refreshVars)
    /\ \A r \in Refreshers : WF_allVars(Working(r))

RefreshSpec == RefreshInit /\ [][RefreshNext]_allVars

(* The requests of the app's own like button. *)
ToggleRefreshSpec ==
    RefreshInit /\ [][RefreshNext /\ \A h \in Handlers : Toggling(h)]_allVars /\ RefreshFairness

-----------------------------------------------------------------------------
(* What the user sees of a target changes only by a request of his that     *)
(* asks for it, or by a refresh whose pages showed otherwise, and that one  *)
(* never touches a row whose request still waits for its confirmation.      *)
OnlySettledCorrected ==
    [][\A t \in Targets : Liked(t)' # Liked(t) =>
          \/ \E h \in Handlers : <<t, Liked(t)'>> \in AsksFor(h)
          \/ /\ ~mirror[t].progress
             /\ \E r \in Refreshers :
                   refresh[r] # NoRefresh /\ (t \in refresh[r].items) = Liked(t)']_allVars

(* The view heals.  Races with the requests can leave it wrong (a page read *)
(* before an unlike brings the like back), but when refreshes go on being   *)
(* completed and the user has at least one like on SoundCloud that stays,   *)
(* view and SoundCloud agree for good in the end, unless the row waits for  *)
(* a confirmation nobody will send any more: a refresh never touches it.    *)
Refreshed == \E r \in Refreshers : refresh[r].pc = "orphans"
Stuck(t)  == mirror[t].progress /\ ~Queued(t)
ViewHeals ==
    (([]<>Refreshed) /\ \E t \in Targets : <>[]sc[t])
        => \A t \in Targets : <>[](sc[t] = Liked(t)) \/ <>[]Stuck(t)
=============================================================================
