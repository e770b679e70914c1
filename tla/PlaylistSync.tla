----------------------------- MODULE PlaylistSync -----------------------------
(***************************************************************************)
(* The outbox actions that carry a payload or delete: comment and          *)
(* playlist_create / _update / _delete (sync_queue/actions, the callers in *)
(* playlists/service.rs and tracks/service.rs), with the user's own        *)
(* playlists (user_owned_playlists) and their refresh                      *)
(* (cold_refresh/service.rs with OWNED_PLAYLISTS).  All targets belong to  *)
(* one user; a refresh's list fits one page and one chunk, and the Redis   *)
(* lock keeps refreshes one at a time (LikesRefresh has both in full).     *)
(* The caches shared between users are the module ColdCache.               *)
(***************************************************************************)
EXTENDS SyncQueue

CONSTANTS
    Playlists,   \* urns of the user's playlists
    Existing,    \* those there from the start
    Nonces       \* the "new:<uuid>" targets of queued creations

ASSUME PlaylistAssumption ==
    /\ Kinds \subseteq WithPayload \cup {"playlist_delete"}
    /\ Existing \subseteq Playlists /\ Playlists \subseteq Targets /\ IsFiniteSet(Flushers)

VARIABLES
    remote,   \* SoundCloud's playlists: {content}, or {} where there is none
    born,     \* the playlists that ever existed
    owned,    \* the rows of user_owned_playlists
    made,     \* the playlist a flush has just created
    asked,    \* how often a request enqueued a payload
    sent,     \* how often SoundCloud took a payload
    last,     \* the payload of the last request enqueued
    crossed,  \* a request was enqueued while a flush had the row in hand
    refresh   \* the running refresh of the owned playlists

playlistVars == <<remote, born, owned, made, asked, sent, last, crossed, refresh>>
vars == <<queue, flush, handler, requests, faults,
          remote, born, owned, made, asked, sent, last, crossed, refresh>>
history == <<asked, sent, last, crossed>>

NoRefresh == [pc |-> "idle", items |-> {}]

PlaylistInit ==
    /\ Init
    /\ born = Existing /\ owned = Existing
    /\ remote = [p \in Playlists |-> IF p \in born THEN {NoPayload} ELSE {}]
    /\ made = [f \in Flushers |-> {}]
    /\ asked = [k \in Key |-> [b \in Body |-> 0]]
    /\ sent = asked
    /\ last = [k \in Key |-> NoPayload]
    /\ crossed = {}
    /\ refresh = NoRefresh

Once(counts, k, b) == [counts EXCEPT ![k][b] = @ + 1]
InHand(k) == \E f \in Flushers : \E c \in Held(f) : c.key = k
Handling(k) == \E h \in Handlers : handler[h] # NoRequest /\ handler[h].key = k
Quiet(k) == ~Handling(k) /\ ~Present(k) /\ ~InHand(k)
Deleting(p) == \E k \in Key : k.kind = "playlist_delete" /\ k.target = p /\ Present(k)

-----------------------------------------------------------------------------
(* Requests.  A nonce is drawn once; edits and deletions name a playlist    *)
(* that has existed.                                                        *)
Nameable(k) ==
    CASE k.kind = "playlist_create" ->
            k.target \in Nonces /\ last[k] = NoPayload /\ ~Handling(k)
      [] k.kind \in {"playlist_update", "playlist_delete"} -> k.target \in born
      [] OTHER -> TRUE

PlaylistBegin(h, k, b) == Begin(h, k, b) /\ Nameable(k) /\ UNCHANGED playlistVars

(* A new playlist on SoundCloud: one of Playlists, or one nobody follows.   *)
Create(fresh, b) ==
    /\ fresh \in SUBSET (Playlists \ born) /\ Cardinality(fresh) <= 1
    /\ born' = born \cup fresh
    /\ remote' = [p \in Playlists |-> IF p \in fresh THEN {b} ELSE remote[p]]

(* create posts at once, and is done unless SoundCloud answers with a ban.  *)
DirectCreate(h) ==
    /\ handler[h].pc = "local" /\ handler[h].key.kind = "playlist_create"
    /\ \E fresh \in SUBSET Playlists : Create(fresh, handler[h].payload)
    /\ handler' = [handler EXCEPT ![h] = NoRequest]
    /\ UNCHANGED <<queue, flush, requests, faults, owned, made, history, refresh>>

(* The rest go on to the queue, a deletion after dropping its local row.    *)
LocalStep(h) ==
    /\ LocalWrite(h)
    /\ owned' = IF handler[h].key.kind = "playlist_delete"
                THEN owned \ {handler[h].key.target} ELSE owned
    /\ UNCHANGED <<remote, born, made, history, refresh>>

Enqueued(h) ==
    LET k == handler[h].key
        b == handler[h].payload
    IN  /\ Insert(h)
        /\ asked' = Once(asked, k, b)
        /\ last' = [last EXCEPT ![k] = b]
        /\ crossed' = IF InHand(k) THEN crossed \cup {k} ELSE crossed
        /\ UNCHANGED <<remote, born, owned, made, sent, refresh>>

PlaylistHandlerStep(h) ==
    \/ DirectCreate(h) \/ LocalStep(h) \/ Enqueued(h)
    \/ NothingToCancel(h) /\ UNCHANGED playlistVars

-----------------------------------------------------------------------------
(* The SoundCloud calls.  SoundCloud refuses to edit or delete what is not  *)
(* there; a creation or a comment it takes as often as it comes.            *)
Missing(k) ==
    k.kind \in {"playlist_update", "playlist_delete"} /\ remote[k.target] = {}

Effect(f, c) ==
    CASE c.key.kind = "playlist_create" ->
            \E fresh \in SUBSET Playlists : Create(fresh, c.payload) /\ made' = [made EXCEPT ![f] = fresh]
      [] c.key.kind = "playlist_update" ->
            remote' = [remote EXCEPT ![c.key.target] = {c.payload}] /\ UNCHANGED <<born, made>>
      [] c.key.kind = "playlist_delete" ->
            remote' = [remote EXCEPT ![c.key.target] = {}] /\ UNCHANGED <<born, made>>
      [] OTHER -> UNCHANGED <<remote, born, made>>

Taken(f, c) == ~Missing(c.key) /\ Effect(f, c) /\ sent' = Once(sent, c.key, c.payload)
NotTaken    == UNCHANGED <<remote, born, made, sent>>

PlaylistCall(f, c) ==
    /\ \/ CallOk(f, c) /\ Taken(f, c)
       \/ TakeNext(f, c, "fail") /\ Missing(c.key) /\ UNCHANGED faults /\ NotTaken
       \/ CallFails(f, c) /\ (Taken(f, c) \/ NotTaken)
       \/ CallBlocked(f, c) /\ NotTaken
    /\ UNCHANGED <<owned, asked, last, crossed, refresh>>

(* What the action leaves in user_owned_playlists once the call is through. *)
Settled(f, c) ==
    CASE c.key.kind = "playlist_create" -> owned \cup made[f]
      [] c.key.kind = "playlist_delete" -> owned \ {c.key.target}
      [] OTHER -> owned

PlaylistConfirm(f) ==
    /\ Confirm(f)
    /\ \E c \in flush[f].cur : owned' = Settled(f, c)
    /\ made' = [made EXCEPT ![f] = {}]
    /\ UNCHANGED <<remote, born, history, refresh>>

PlaylistRest(f) ==
    /\ ClaimBatch(f) \/ ConfirmFails(f) \/ DeleteDone(f) \/ RecordBlocked(f) \/ RecordFailure(f) \/ Drop(f)
    /\ made' = [made EXCEPT ![f] = {}]
    /\ UNCHANGED <<remote, born, owned, history, refresh>>

-----------------------------------------------------------------------------
(* The refresh of the owned playlists: fetch the list, insert what is not   *)
(* about to be deleted, remove what the list did not show.                  *)
FetchOwned ==
    /\ refresh = NoRefresh
    /\ refresh' = [pc |-> "upsert", items |-> {p \in Playlists : remote[p] # {}}]
    /\ UNCHANGED <<queueVars, remote, born, owned, made, history>>

UpsertOwned ==
    /\ refresh.pc = "upsert"
    /\ owned' = owned \cup {p \in refresh.items : ~Deleting(p)}
    /\ refresh' = [refresh EXCEPT !.pc = "orphans"]
    /\ UNCHANGED <<queueVars, remote, born, made, history>>

\* Mutant of Kept: orphans are never deleted.
KeptAll(items) == owned

Kept(items) == IF items = {} THEN owned ELSE owned \cap items

DeleteOrphans ==
    /\ refresh.pc = "orphans"
    /\ owned' = Kept(refresh.items)
    /\ refresh' = NoRefresh
    /\ UNCHANGED <<queueVars, remote, born, made, history>>

StopRefresh ==
    /\ refresh # NoRefresh
    /\ Fault
    /\ refresh' = NoRefresh
    /\ UNCHANGED <<queue, flush, handler, requests, remote, born, owned, made, history>>

-----------------------------------------------------------------------------
PlaylistFlushStep(f) ==
    \/ \E c \in flush[f].batch : PlaylistCall(f, c)
    \/ PlaylistConfirm(f) \/ PlaylistRest(f)

PlaylistNext ==
    \/ \E h \in Handlers, k \in Key, b \in Body : PlaylistBegin(h, k, b)
    \/ \E h \in Handlers : PlaylistHandlerStep(h)
    \/ \E h \in Handlers : Abandon(h) /\ UNCHANGED playlistVars
    \/ \E f \in Flushers : PlaylistFlushStep(f)
    \/ Tick /\ UNCHANGED playlistVars
    \/ FetchOwned \/ UpsertOwned \/ DeleteOrphans \/ StopRefresh

PlaylistSpec == PlaylistInit /\ [][PlaylistNext]_vars

(* A refresh that started runs on (see LikesRefresh). *)
FairPlaylistSpec == PlaylistSpec /\ WF_vars(UpsertOwned \/ DeleteOrphans)

-----------------------------------------------------------------------------
(* A comment or a creation is not idempotent, and the queue delivers at     *)
(* least once: SoundCloud gets a payload again only where something failed, *)
(* once for each failure.                                                   *)
RepeatsNeedFaults ==
    \A k \in Key : k.kind # "playlist_delete" =>
        \A b \in Body : sent[k][b] <= asked[k][b] + faults

(* Without failures the last edit of a playlist is what SoundCloud ends up  *)
(* with, unless it was enqueued while an earlier edit was being sent: the   *)
(* flush then deletes the row by its id, the new payload with it.           *)
LastEditArrives ==
    \A k \in Key \ crossed :
        (k.kind = "playlist_update" /\ faults = 0 /\ Quiet(k) /\ last[k] # NoPayload)
            => remote[k.target] \subseteq {last[k]}

(* A deleted playlist goes from the user's list for good, whatever stale    *)
(* page or late confirmation brings it back in between, as long as          *)
(* refreshes go on and one playlist is left for the list to show.           *)
Refreshed == refresh.pc = "orphans"
DeletedStaysGone ==
    (([]<>Refreshed) /\ <>[](\E q \in Playlists : remote[q] # {}))
        => <>[](\A p \in born : remote[p] = {} => p \notin owned)

(* migrations/0011_sync_queue.sql:4, "dedup of identical requests": two     *)
(* different comments are two requests, and without failures each of them   *)
(* reaches SoundCloud.                                                      *)
CommentsArrive ==
    \A k \in Key : (k.kind = "comment" /\ faults = 0 /\ Quiet(k))
        => \A b \in Payloads : asked[k][b] > 0 => sent[k][b] > 0
=============================================================================
