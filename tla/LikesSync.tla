------------------------------ MODULE LikesSync ------------------------------
(***************************************************************************)
(* Likes and follows over the outbox: the wanted-state mirror tables       *)
(* (sync_queue/mirror.rs), the callers that write the mirror and enqueue   *)
(* (likes/service.rs, me/service.rs), and the actions that move SoundCloud *)
(* and settle the mirror (sync_queue/actions).  The three pairs of actions *)
(* work alike on tables of their own; an instance takes one pair.          *)
(***************************************************************************)
EXTENDS SyncQueue

ASSUME PairAssumption == \E p \in InversePairs : Kinds = {p[1], p[2]}

VARIABLES
    mirror,  \* user_likes_tracks / user_likes_playlists / user_followings
    sc,      \* what SoundCloud holds: is the target liked?
    seen     \* what a request's SELECT in clear_wanted returned, once it has run

likeVars == <<mirror, sc, seen>>
vars == <<queue, flush, handler, requests, faults, mirror, sc, seen>>

(* A mirror row, or its absence.  wanted = FALSE never stands without       *)
(* progress = TRUE.                                                         *)
NoMirror  == [present |-> FALSE, wanted |-> FALSE, progress |-> FALSE]
Pending   == [present |-> TRUE, wanted |-> TRUE, progress |-> TRUE]
Synced    == [present |-> TRUE, wanted |-> TRUE, progress |-> FALSE]
Unwanted  == [present |-> TRUE, wanted |-> FALSE, progress |-> TRUE]
MirrorRow == {NoMirror, Pending, Synced, Unwanted}

Positive(kind) == \E p \in InversePairs : p[1] = kind
Liked(t) == mirror[t].present /\ mirror[t].wanted

(* The mirror starts as a refresh leaves it. *)
LikesInit ==
    /\ Init
    /\ sc \in [Targets -> BOOLEAN]
    /\ mirror = [t \in Targets |-> IF sc[t] THEN Synced ELSE NoMirror]
    /\ seen = [h \in Handlers |-> {}]

(* Nothing is left to happen to target t. *)
Busy(t)    == \E h \in Handlers : handler[h] # NoRequest /\ handler[h].key.target = t
Queued(t)  == \E k \in Key : k.target = t /\ Present(k)
InHand(t)  == \E f \in Flushers : \E c \in Held(f) : c.key.target = t
Quiet(t)   == ~Busy(t) /\ ~Queued(t) /\ ~InHand(t)

-----------------------------------------------------------------------------
(* set_wanted: one INSERT ... ON CONFLICT. *)
Wanted(row) ==
    IF ~row.present THEN Pending
    ELSE IF row.wanted THEN row ELSE Synced

SetWanted(h) ==
    /\ LocalWrite(h)
    /\ Positive(handler[h].key.kind)
    /\ mirror' = [mirror EXCEPT ![handler[h].key.target] = Wanted(@)]
    /\ UNCHANGED <<sc, seen>>

(* clear_wanted: a SELECT, then a DELETE or an UPDATE chosen by it. *)
ReadWanted(h) ==
    /\ handler[h].pc = "local"
    /\ ~Positive(handler[h].key.kind)
    /\ seen[h] = {}
    /\ seen' = [seen EXCEPT ![h] = {mirror[handler[h].key.target]}]
    /\ UNCHANGED <<queueVars, mirror, sc>>

Cleared(row, read) ==
    IF ~read.present \/ ~read.wanted THEN row
    ELSE IF read.progress \/ ~row.present THEN NoMirror
    ELSE Unwanted

ClearWanted(h) ==
    /\ LocalWrite(h)
    /\ ~Positive(handler[h].key.kind)
    /\ \E read \in seen[h] :
          mirror' = [mirror EXCEPT ![handler[h].key.target] = Cleared(@, read)]
    /\ seen' = [seen EXCEPT ![h] = {}]
    /\ UNCHANGED sc

LikeEnqueue(h) ==
    /\ CancelInverse(h) \/ NothingToCancel(h) \/ Insert(h)
    /\ UNCHANGED likeVars

LikeAbandon(h) ==
    /\ Abandon(h)
    /\ seen' = [seen EXCEPT ![h] = {}]
    /\ UNCHANGED <<mirror, sc>>

-----------------------------------------------------------------------------
(* The SoundCloud call of the action; a call that fails may have been       *)
(* applied all the same.                                                    *)
Applied(c) == sc' = [sc EXCEPT ![c.key.target] = Positive(c.key.kind)]

LikeCall(f, c) ==
    /\ \/ CallOk(f, c) /\ Applied(c)
       \/ CallFails(f, c) /\ (Applied(c) \/ UNCHANGED sc)
       \/ CallBlocked(f, c) /\ UNCHANGED sc
    /\ UNCHANGED <<mirror, seen>>

\* Mutant of Settled: neither statement looks at wanted_state.
SettledBlindly(row, kind) ==
    IF Positive(kind) THEN IF row.present THEN Synced ELSE row ELSE NoMirror

(* A like clears progress of a row still wanted; an unlike deletes a row    *)
(* still unwanted.                                                          *)
Settled(row, kind) ==
    IF Positive(kind) THEN IF row.wanted THEN Synced ELSE row
    ELSE IF row.wanted THEN row ELSE NoMirror

LikeConfirm(f) ==
    /\ Confirm(f)
    /\ \E c \in flush[f].cur :
          mirror' = [mirror EXCEPT ![c.key.target] = Settled(@, c.key.kind)]
    /\ UNCHANGED <<sc, seen>>

LikeRest(f) ==
    /\ ClaimBatch(f) \/ ConfirmFails(f) \/ DeleteDone(f) \/ RecordBlocked(f) \/ RecordFailure(f)
    /\ UNCHANGED likeVars

-----------------------------------------------------------------------------
LikeHandlerStep(h) == SetWanted(h) \/ ReadWanted(h) \/ ClearWanted(h) \/ LikeEnqueue(h)

LikeFlushStep(f) ==
    \/ \E c \in flush[f].batch : LikeCall(f, c)
    \/ LikeConfirm(f) \/ LikeRest(f)

LikeBegin(h, k) == Begin(h, k, NoPayload) /\ UNCHANGED likeVars
LikeDrop(f)     == Drop(f) /\ UNCHANGED likeVars
LikeTick        == Tick /\ UNCHANGED likeVars

LikesNext ==
    \/ \E h \in Handlers, k \in Key : LikeBegin(h, k)
    \/ \E h \in Handlers : LikeHandlerStep(h) \/ LikeAbandon(h)
    \/ \E f \in Flushers : LikeFlushStep(f) \/ LikeDrop(f)
    \/ LikeTick

(* The client's heart button: it offers only the switch away from what the *)
(* user sees, one request at a time.                                       *)
Toggling(h) ==
    \A t \in Targets :
        (handler[h] = NoRequest /\ handler'[h] # NoRequest /\ handler'[h].key.target = t)
            => ~Busy(t) /\ Positive(handler'[h].key.kind) # Liked(t)

(* Requests that were accepted run on, the flush loop and the clock too;    *)
(* nothing obliges a client to send one, nor a fault to happen.             *)
LikesFairness ==
    /\ \A h \in Handlers : WF_vars(LikeHandlerStep(h))
    /\ \A f \in Flushers : WF_vars(LikeFlushStep(f))
    /\ WF_vars(LikeTick)

LikesSpec == LikesInit /\ [][LikesNext]_vars

ToggleNext == LikesNext /\ \A h \in Handlers : Toggling(h)
ToggleSpec == LikesInit /\ [][ToggleNext]_vars /\ LikesFairness

-----------------------------------------------------------------------------
LikesTypeOK ==
    /\ TypeOK
    /\ mirror \in [Targets -> MirrorRow]
    /\ sc \in [Targets -> BOOLEAN]
    /\ seen \in [Handlers -> SUBSET MirrorRow]

(* The sync worker, its retries and its crashes are invisible: the user's   *)
(* view of a like moves only by a request of his that is still at its local *)
(* write, and only the way that request asks (LikeView).                    *)
AsksFor(h) ==
    IF handler[h].pc = "local"
    THEN {<<handler[h].key.target, Positive(handler[h].key.kind)>>} ELSE {}

View == INSTANCE LikeView WITH Requesters <- Handlers,
                               liked <- [t \in Targets |-> Liked(t)],
                               asking <- [h \in Handlers |-> AsksFor(h)]
ViewSpec == View!Spec

(* Without failures, when the requests stop, SoundCloud comes to hold what  *)
(* the user sees and they agree for good: cancelling an inverse action that *)
(* still waits never loses the user's last word.                            *)
EventuallyAgree == [](faults = 0) => \A t \in Targets : <>[](sc[t] = Liked(t))

(* migrations/0012_cold_cache.sql:4, "progress=true means the local state   *)
(* is not yet confirmed by SC": "not yet" promises a confirmation to come,  *)
(* so something is still under way for the row.                             *)
UnconfirmedIsPending ==
    \A t \in Targets : (mirror[t].present /\ mirror[t].progress) => ~Quiet(t)
=============================================================================
