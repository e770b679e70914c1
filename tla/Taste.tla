-------------------------------- MODULE Taste --------------------------------
(***************************************************************************)
(* What a user's likes do to his taste: EventsService with its lock per    *)
(* user, UserTasteService, the dislikes, and the cached collaborative      *)
(* vector of CollabVectorService, for one user and one backend process.    *)
(* An event is a row of user_events; it counts for the taste, in every     *)
(* collection where the track has a vector, once the worker has indexed    *)
(* the track.  A taste is a moving average: what is kept of it here is how *)
(* often each event went into it.                                          *)
(***************************************************************************)
EXTENDS Naturals, FiniteSets, FiniteSetsExt

CONSTANTS Workers,      \* tasks of the backend: requests, refreshes, a consumer
          Songs,        \* tracks
          Branches,     \* the pairs of collections: MERT, CLAP, lyrics
          Kinds,        \* event types
          LikesLimit,   \* MAX_LIKES
          MaxEvents,    \* bound: rows of user_events
          MaxMutexes,   \* bound: locks ever made
          MaxUpsets,    \* bound: interrupted requests, restarts, failing calls
          MaxHates      \* bound: dislikes taken back

Liking == Kinds \cap {"like", "playlist_add"}
Rows == 1..MaxEvents
ASSUME TasteAssumption ==
  /\ Kinds \subseteq {"like", "playlist_add", "full_play", "skip"}
  /\ IsFiniteSet(Songs) /\ Branches # {}
  /\ {LikesLimit, MaxEvents, MaxMutexes, MaxUpsets, MaxHates} \subseteq Nat

VARIABLES rows,         \* user_events
          hated,        \* disliked_tracks
          vecs,         \* the collections in which a track has a vector
          listed,       \* its row in indexed_tracks: none, new, told (the worker is
                        \* through with it), indexed (indexed_at is set)
          wanting,       \* tracks for which ensure_track_queued_by_id was spawned
          queued, done, \* tracks the worker is to index; messages done.index_audio
          taste,        \* per branch, how often an event went in
          task,         \* the tasks
          userLock, mutexes,  \* the lock in the cache, 0 if none; locks made
          vector,       \* the cached vector, and one that is being computed
          settled,      \* history: events whose record() came to invalidate
          relisted,     \* history: events listed as pending while in hand
          spurned,      \* history: likes not counted, as the track was disliked
          split,        \* history: two tasks were given different locks
          upsets, hates
tasteVars == <<rows, hated, vecs, listed, wanting, queued, done, taste, task, userLock, mutexes, vector,
               settled, relisted, spurned, split, upsets, hates>>
trackVars == <<vecs, listed, wanting, queued, done>>
lockVars == <<userLock, mutexes, split>>
bookVars == <<settled, relisted, spurned>>

NoEvent == [song |-> "none", kind |-> "none", applied |-> FALSE]
NoTask == [pc |-> "idle", role |-> "none", songs |-> {}, kind |-> "none", todo |-> {}, row |-> 0,
           lock |-> 0, base |-> <<>>, reach |-> {}]
NoVector == [cached |-> "nothing", likes |-> {}, late |-> FALSE, reading |-> FALSE, seen |-> {}]

TasteInit ==
  /\ rows = [e \in Rows |-> NoEvent] /\ hated = {}
  /\ vecs \in [Songs -> {{}, Branches}] /\ listed \in [Songs -> {"none", "new", "indexed"}]
  /\ \A s \in Songs : listed[s] = "indexed" <=> vecs[s] = Branches
  /\ wanting = {} /\ queued = {} /\ done = {}
  /\ taste = [b \in Branches |-> [e \in Rows |-> 0]]
  /\ task = [w \in Workers |-> NoTask] /\ userLock = 0 /\ mutexes = 0
  /\ vector = NoVector /\ settled = {} /\ relisted = {} /\ spurned = {}
  /\ split = FALSE /\ upsets = 0 /\ hates = 0

Goes(w, t, pc) == task' = [task EXCEPT ![w] = [t EXCEPT !.pc = pc]]
Upset == upsets < MaxUpsets /\ upsets' = upsets + 1
Fine == UNCHANGED upsets
Written == {e \in Rows : rows[e] # NoEvent}
Positive(e) == rows[e].kind \in Liking
Likes == {e \in Written : Positive(e)}
InHand == UNION {task[w].todo : w \in Workers}

-----------------------------------------------------------------------------
(* Who starts. *)

Request(w, s, k) ==
  /\ task[w] = NoTask /\ Cardinality(Written) < MaxEvents
  /\ Goes(w, [NoTask EXCEPT !.role = "request", !.songs = {s}, !.kind = k], "look")
Record(w) ==
  /\ \E s \in Songs, k \in Kinds : Request(w, s, k)
  /\ Fine /\ UNCHANGED <<rows, hated, trackVars, taste, lockVars, vector, bookVars, hates>>

(* DislikesService::add: the row first, and the event only for a new row. *)
AddDislike(w) ==
  /\ \E s \in Songs \ hated : hated' = hated \cup {s} /\ Request(w, s, "dislike")
  /\ Fine /\ UNCHANGED <<rows, trackVars, taste, lockVars, vector, bookVars, hates>>
UndoDislike(s) ==
  /\ s \in hated /\ hates < MaxHates /\ hated' = hated \ {s} /\ hates' = hates + 1
  /\ Fine /\ UNCHANGED <<rows, trackVars, taste, task, lockVars, vector, bookVars>>

(* ensure_likes_recorded, for the likes a refresh has read. *)
EnsureLikes(w) ==
  /\ task[w] = NoTask
  /\ \E ss \in (SUBSET Songs) \ {{}} : Goes(w, [NoTask EXCEPT !.role = "seed", !.songs = ss], "look")
  /\ Fine /\ UNCHANGED <<rows, hated, trackVars, taste, lockVars, vector, bookVars, hates>>

(* apply_pending_events_for_track lists what is pending before it has the   *)
(* lock, and does not look again.                                          *)

Pending(s) == {e \in Written : rows[e].song = s /\ ~rows[e].applied}
Consume(w) ==
  /\ task[w] = NoTask /\ \A g \in Workers : task[g].role # "done"
  /\ \E s \in done :
       IF Pending(s) = {} THEN done' = done \ {s} /\ UNCHANGED <<task, relisted>>
       ELSE /\ Goes(w, [NoTask EXCEPT !.role = "done", !.songs = {s}, !.todo = Pending(s)], "look")
            /\ relisted' = relisted \cup (Pending(s) \cap InHand)
            /\ UNCHANGED done
  /\ Fine /\ UNCHANGED <<rows, hated, vecs, listed, wanting, queued, taste, lockVars, vector, settled, spurned, hates>>

-----------------------------------------------------------------------------
(* lock_for: a get, and an insert if there was none. *)

LookLock(w) ==
  /\ task[w].pc = "look"
  /\ IF userLock = 0 THEN Goes(w, task[w], "make") ELSE Goes(w, [task[w] EXCEPT !.lock = userLock], "wait")
  /\ Fine /\ UNCHANGED <<rows, hated, trackVars, taste, lockVars, vector, bookVars, hates>>
MakeLock(w) ==
  /\ task[w].pc = "make" /\ mutexes < MaxMutexes /\ mutexes' = mutexes + 1
  /\ userLock' = mutexes + 1 /\ Goes(w, [task[w] EXCEPT !.lock = mutexes + 1], "wait")
  /\ split' = (split \/ userLock # 0)
  /\ Fine /\ UNCHANGED <<rows, hated, trackVars, taste, vector, bookVars, hates>>

(* The cache drops a lock that nobody has asked for in five minutes. *)
ForgetLock ==
  /\ userLock # 0 /\ userLock' = 0 /\ split' = (split \/ \E w \in Workers : task[w].lock = userLock)
  /\ Fine /\ UNCHANGED <<rows, hated, trackVars, taste, task, mutexes, vector, bookVars, hates>>

(* Mutant: the lock is not waited for. *)
AlwaysFree(m) == TRUE

LockFree(m) == \A w \in Workers : task[w].lock # m \/ task[w].pc = "wait"
Begins == [request |-> "insert", seed |-> "missing", done |-> "check"]
TakeLock(w) ==
  /\ task[w].pc = "wait" /\ LockFree(task[w].lock)
  /\ Goes(w, task[w], Begins[task[w].role])
  /\ Fine /\ UNCHANGED <<rows, hated, trackVars, taste, lockVars, vector, bookVars, hates>>

-----------------------------------------------------------------------------
(* The rows. *)

NewRow(s, k) == [song |-> s, kind |-> k, applied |-> FALSE]
NextRow == Cardinality(Written) + 1
Insert(w) ==
  /\ task[w].pc = "insert" /\ NextRow \in Rows
  /\ \E s \in task[w].songs : rows' = [rows EXCEPT ![NextRow] = NewRow(s, task[w].kind)]
  /\ Goes(w, [task[w] EXCEPT !.todo = {NextRow}, !.row = NextRow, !.songs = {}, !.kind = "none"], "check")
  /\ Fine /\ UNCHANGED <<hated, trackVars, taste, lockVars, vector, bookVars, hates>>

LikedSongs == {rows[e].song : e \in {d \in Written : rows[d].kind = "like"}}
Missing(w) ==
  /\ task[w].pc = "missing"
  /\ LET ss == task[w].songs \ LikedSongs IN
     IF ss = {} THEN task' = [task EXCEPT ![w] = NoTask]
     ELSE Goes(w, [task[w] EXCEPT !.songs = ss], "seed")
  /\ Fine /\ UNCHANGED <<rows, hated, trackVars, taste, lockVars, vector, bookVars, hates>>
Seed(w) ==
  /\ task[w].pc = "seed" /\ Cardinality(Written \cup task[w].songs) <= MaxEvents
  /\ \E order \in [task[w].songs -> NextRow..NextRow + Cardinality(task[w].songs) - 1] :
       /\ \A s, t \in task[w].songs : s # t => order[s] # order[t]
       /\ \A s \in task[w].songs : order[s] \in Rows
       /\ LET new == {order[s] : s \in task[w].songs} IN
          /\ rows' = [e \in Rows |-> IF e \notin new THEN rows[e]
                                     ELSE NewRow(CHOOSE s \in task[w].songs : order[s] = e, "like")]
          /\ Goes(w, [task[w] EXCEPT !.todo = new, !.songs = {}], "check")
  /\ Fine /\ UNCHANGED <<hated, trackVars, taste, lockVars, vector, bookVars, hates>>

-----------------------------------------------------------------------------
(* try_apply, event by event. *)

Current(w) == Min(task[w].todo)
Cleared(t, e) == [t EXCEPT !.todo = @ \ {e}, !.base = <<>>, !.reach = {}]
NextEvent(w, e) ==
  Goes(w, Cleared(task[w], e), IF task[w].todo = {e} THEN "after" ELSE "check")

(* What is no like, and a like of a disliked track, only gets its mark; a   *)
(* query that fails says not disliked.                                     *)
CheckDislike(w) ==
  /\ task[w].pc = "check"
  /\ LET e == Current(w) IN
     \/ /\ ~Positive(e) /\ Goes(w, task[w], "mark") /\ Fine /\ UNCHANGED spurned
     \/ /\ Positive(e) /\ rows[e].song \in hated
        /\ Goes(w, task[w], "mark") /\ spurned' = spurned \cup {e} /\ Fine
     \/ /\ Positive(e) /\ Goes(w, task[w], "read") /\ UNCHANGED spurned
        /\ IF rows[e].song \in hated THEN Upset ELSE Fine
  /\ UNCHANGED <<rows, hated, trackVars, taste, lockVars, vector, settled, relisted, hates>>

(* Mutant: only a request asks for the track to be indexed. *)
AskIndexRequest(w, s) == IF task[w].role = "request" THEN wanting \cup {s} ELSE wanting

AskIndex(w, s) == IF task[w].role \in {"request", "seed"} THEN wanting \cup {s} ELSE wanting

(* Nothing to count yet: the event stays pending. *)
NotYet(w, e) == NextEvent(w, e) /\ wanting' = AskIndex(w, rows[e].song)

(* on_user_event: in each branch, the track's vector, the user's vector,   *)
(* and a new one computed from both.                                       *)
ReadTaste(w) ==
  /\ task[w].pc = "read"
  /\ LET e == Current(w) IN
     \E reach \in SUBSET vecs[rows[e].song] :
       /\ IF reach = vecs[rows[e].song] THEN Fine ELSE Upset
       /\ IF reach = {} THEN NotYet(w, e)
          ELSE Goes(w, [task[w] EXCEPT !.reach = reach, !.base = taste], "write") /\ UNCHANGED wanting
  /\ UNCHANGED <<rows, hated, vecs, listed, queued, done, taste, lockVars, vector, bookVars, hates>>
WriteTaste(w) ==
  /\ task[w].pc = "write"
  /\ LET e == Current(w) base == task[w].base IN
     \E bs \in SUBSET task[w].reach :
       /\ IF bs = task[w].reach THEN Fine ELSE Upset
       /\ taste' = [b \in Branches |->
                      IF b \in bs THEN [base[b] EXCEPT ![e] = (IF @ < 2 THEN @ + 1 ELSE @)] ELSE taste[b]]
       /\ IF bs = {} THEN NotYet(w, e) ELSE Goes(w, task[w], "mark") /\ UNCHANGED wanting
  /\ UNCHANGED <<rows, hated, vecs, listed, queued, done, lockVars, vector, bookVars, hates>>

(* mark_applied; when it fails, a request gives up and a loop goes on. *)
MarkApplied(w) ==
  /\ task[w].pc = "mark"
  /\ LET e == Current(w) IN
     \/ /\ rows' = [rows EXCEPT ![e].applied = TRUE] /\ NextEvent(w, e) /\ Fine /\ UNCHANGED wanting
     \/ /\ Upset /\ UNCHANGED rows
        /\ IF task[w].role = "request" THEN task' = [task EXCEPT ![w] = NoTask] /\ UNCHANGED wanting
           ELSE NotYet(w, e)
  /\ UNCHANGED <<hated, vecs, listed, queued, done, taste, lockVars, vector, bookVars, hates>>

Dropped == [vector EXCEPT !.cached = "nothing", !.likes = {}, !.late = vector.reading]

(* Mutant: the vector is only dropped when the taste has moved. *)
DropIfApplied(e) == IF rows[e].applied /\ Positive(e) THEN Dropped ELSE vector

(* CollabVectorService::invalidate *)
DropVector(e) == IF Positive(e) THEN Dropped ELSE vector

(* The end: a request drops the cached vector, the consumer acknowledges. *)
Finish(w) ==
  /\ task[w].pc = "after" /\ task' = [task EXCEPT ![w] = NoTask]
  /\ IF task[w].role = "request"
     THEN vector' = DropVector(task[w].row) /\ settled' = settled \cup ({task[w].row} \cap Likes)
     ELSE UNCHANGED <<vector, settled>>
  /\ done' = IF task[w].role = "done" THEN done \ task[w].songs ELSE done
  /\ Fine /\ UNCHANGED <<rows, hated, vecs, listed, wanting, queued, taste, lockVars, relisted, spurned, hates>>

-----------------------------------------------------------------------------
(* get_user_vector: the newest likes, their vectors, the mean, the cache.   *)
(* What was read before the cache was dropped is put there all the same.   *)

Newest(S) == {e \in S : Cardinality({d \in S : d > e}) < LikesLimit}
ReadLikes ==
  /\ vector.cached = "nothing" /\ ~vector.reading
  /\ vector' = [vector EXCEPT !.reading = TRUE, !.seen = Newest(Likes), !.late = FALSE]
  /\ Fine /\ UNCHANGED <<rows, hated, trackVars, taste, task, lockVars, bookVars, hates>>

(* No likes, no vector for any of them, or Qdrant fails: "none" is cached. *)
PutCache ==
  /\ vector.reading
  /\ \E v \in {"none", "mean"} :
       /\ vector.seen = {} => v = "none"
       /\ vector' = [vector EXCEPT !.cached = v, !.likes = vector.seen, !.reading = FALSE, !.seen = {}]
  /\ Fine /\ UNCHANGED <<rows, hated, trackVars, taste, task, lockVars, bookVars, hates>>
VectorExpires ==
  /\ vector.cached # "nothing" /\ vector' = Dropped
  /\ Fine /\ UNCHANGED <<rows, hated, trackVars, taste, task, lockVars, bookVars, hates>>

-----------------------------------------------------------------------------
(* ensure_track_queued_by_id, a task of its own: only a track that is in    *)
(* indexed_tracks, and not indexed there, is asked for.                    *)

EnsureQueued(s) ==
  /\ s \in wanting /\ wanting' = wanting \ {s}
  /\ queued' = IF listed[s] \in {"new", "told"} THEN queued \cup {s} ELSE queued
  /\ Fine /\ UNCHANGED <<rows, hated, vecs, listed, done, taste, task, lockVars, vector, bookVars, hates>>

(* ensure_track_indexed: a track that is met for the first time. *)
TrackDiscovered(s) ==
  /\ listed[s] = "none" /\ listed' = [listed EXCEPT ![s] = "new"] /\ queued' = queued \cup {s}
  /\ Fine /\ UNCHANGED <<rows, hated, vecs, wanting, done, taste, task, lockVars, vector, bookVars, hates>>

-----------------------------------------------------------------------------
(* The worker (external) indexes a track and tells so, which two consumers  *)
(* hear, Consume and SetIndexedAt; the client of a request goes away; the   *)
(* process restarts.                                                       *)

Upserts(s) ==
  /\ s \in queued /\ \E b \in Branches \ vecs[s] : vecs' = [vecs EXCEPT ![s] = @ \cup {b}]
  /\ Fine /\ UNCHANGED <<rows, hated, listed, wanting, queued, done, taste, task, lockVars, vector, bookVars, hates>>
Indexed(s) ==
  /\ s \in queued /\ vecs[s] = Branches /\ queued' = queued \ {s} /\ done' = done \cup {s}
  /\ listed' = [listed EXCEPT ![s] = IF @ = "indexed" THEN @ ELSE "told"]
  /\ Fine /\ UNCHANGED <<rows, hated, vecs, wanting, taste, task, lockVars, vector, bookVars, hates>>
SetIndexedAt(s) ==
  /\ listed[s] = "told" /\ listed' = [listed EXCEPT ![s] = "indexed"]
  /\ Fine /\ UNCHANGED <<rows, hated, vecs, wanting, queued, done, taste, task, lockVars, vector, bookVars, hates>>

Leaves(w) ==
  /\ task[w].role = "request" /\ task' = [task EXCEPT ![w] = NoTask]
  /\ Upset /\ UNCHANGED <<rows, hated, trackVars, taste, lockVars, vector, bookVars, hates>>
Restarts ==
  /\ \E w \in Workers : task[w] # NoTask
  /\ task' = [w \in Workers |-> NoTask] /\ userLock' = 0 /\ vector' = NoVector /\ wanting' = {}
  /\ Upset /\ UNCHANGED <<rows, hated, vecs, listed, queued, done, taste, mutexes, split, bookVars, hates>>

TasteStep(w) ==
  LookLock(w) \/ MakeLock(w) \/ TakeLock(w) \/ Insert(w) \/ Missing(w) \/ Seed(w) \/ CheckDislike(w)
    \/ ReadTaste(w) \/ WriteTaste(w) \/ MarkApplied(w) \/ Finish(w)
EventsNext ==
  \/ \E w \in Workers : Record(w) \/ AddDislike(w) \/ EnsureLikes(w) \/ Consume(w) \/ TasteStep(w) \/ Leaves(w)
  \/ \E s \in Songs : UndoDislike(s) \/ EnsureQueued(s) \/ TrackDiscovered(s)
                       \/ Upserts(s) \/ Indexed(s) \/ SetIndexedAt(s)
  \/ ForgetLock \/ Restarts
VectorNext == ReadLikes \/ PutCache \/ VectorExpires
TasteNext == EventsNext \/ VectorNext
TasteSpec == TasteInit /\ [][TasteNext]_tasteVars

-----------------------------------------------------------------------------
(* Properties. *)

(* A like that is marked as applied is in the taste, once: its write is not *)
(* lost to another task's, nor made again when the DONE message of its     *)
(* track comes.  Excepted are users for whom two locks were made, events   *)
(* listed as pending while another task had them in hand, likes of         *)
(* disliked tracks, and what was interrupted after it was counted.         *)
TasteExact ==
  split \/ \A e \in Likes \ spurned :
    /\ rows[e].applied => \E b \in Branches : taste[b][e] > 0
    /\ e \in relisted \/ upsets > 0 \/ \A b \in Branches : taste[b][e] <= 1

(* Once nothing is under way, no like waits for its track to be indexed,    *)
(* if the track is in indexed_tracks: whichever of the record, the DONE     *)
(* message and indexed_at came first, unless a call failed or was           *)
(* interrupted.                                                            *)
AtRest == (\A w \in Workers : task[w] = NoTask) /\ wanting = {} /\ queued = {} /\ done = {}
LikesApplied ==
  (AtRest /\ upsets = 0) => \A e \in Likes : listed[rows[e].song] # "none" => rows[e].applied

(* What is cached was computed from every like whose request was answered   *)
(* and that the query's LIMIT leaves, unless it was put there by a reader   *)
(* whom an answer overtook (late).  (It may still be "none".)              *)
VectorFresh ==
  (vector.cached # "nothing" /\ ~vector.late) => (settled \cap Newest(Likes)) \subseteq vector.likes
=============================================================================
