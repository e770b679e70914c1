------------------------------ MODULE SyncQueue ------------------------------
(***************************************************************************)
(* The outbox of optimistic user mutations (backend/src/modules/sync_queue *)
(* and the run_periodic loop of backend/src/main.rs that flushes it).      *)
(*                                                                         *)
(* A request handler writes its own table first ("local"), then enqueues   *)
(* with two separate SQL statements: cancel the inverse action, insert the *)
(* row.  A flusher is one backend process's periodic flush: it claims a    *)
(* batch, then for each row calls SoundCloud, updates the local mirror and *)
(* deletes the row by id, or records the failure.  A flush may be dropped  *)
(* at any await (30 s work timeout, shutdown, database error) and leaves   *)
(* its rows locked until the lock times out.                               *)
(*                                                                         *)
(* What the local write, the SoundCloud call and the mirror update DO is   *)
(* the business of the modules that extend this one (LikesSync,            *)
(* PlaylistSync): they conjoin their effect to the actions below.          *)
(***************************************************************************)
EXTENDS Naturals, FiniteSets

CONSTANTS
    Kinds,        \* the action types of this instance, of AllKinds
    Targets,      \* (user, target urn) pairs
    Payloads, NoPayload,
    Ids, NoId,    \* row ids (uuids); NoId marks the absence of a row
    Handlers,     \* concurrent API requests
    Flushers,     \* backend processes, one flush loop each
    BatchSize,    \* BATCH_SIZE
    WorkTimeout,  \* BG_WORK_TIMEOUT of a flush, in ticks
    LockTimeout,  \* LOCK_TIMEOUT of a claimed row, in ticks
    Backoff,      \* delay of a failed row, in ticks (the shortest in the code is 120 s)
    MaxRetries,   \* MAX_RETRIES
    MaxRequests,  \* bound: requests in a behaviour
    MaxFaults     \* bound: failures, drops and disconnects in a behaviour

(* The durations of the code: a flush lives 30 s, a lock 5 minutes, the    *)
(* shortest backoff 2 minutes.                                             *)
ASSUME TimingAssumption ==
    /\ WorkTimeout \in Nat /\ LockTimeout \in Nat /\ Backoff \in Nat
    /\ WorkTimeout < LockTimeout
    /\ WorkTimeout < Backoff

ASSUME BoundsAssumption ==
    /\ BatchSize \in Nat \ {0} /\ MaxRetries \in Nat \ {0}
    /\ MaxRequests \in Nat /\ MaxFaults \in Nat

(* The action types dispatch knows, those enqueued with a payload, and      *)
(* actions::inverse: the last four have none.                               *)
InversePairs == {<<"like_track", "unlike_track">>, <<"like_playlist", "unlike_playlist">>,
                 <<"follow_user", "unfollow_user">>}
Toggles      == UNION {{p[1], p[2]} : p \in InversePairs}
WithPayload  == {"playlist_create", "playlist_update", "comment"}
AllKinds     == Toggles \cup WithPayload \cup {"playlist_delete"}

Inverts(k, i) == <<k, i>> \in InversePairs \/ <<i, k>> \in InversePairs

ASSUME ActionAssumption ==
    /\ Kinds \subseteq AllKinds
    /\ NoId \notin Ids /\ NoPayload \notin Payloads

VARIABLES
    queue,     \* table sync_queue, by its unique index (user, action, target)
    flush,     \* the running flush of each backend process
    handler,   \* API requests in progress
    requests,  \* requests so far
    faults     \* faults so far

queueVars == <<queue, flush, handler, requests, faults>>

-----------------------------------------------------------------------------
Key   == [kind : Kinds, target : Targets]
Body  == Payloads \cup {NoPayload}
Row   == [id : Ids \cup {NoId}, locked : BOOLEAN, age : 0..LockTimeout,
          wait : 0..Backoff, retries : Nat, payload : Body]
Claim == [key : Key, id : Ids, retries : Nat, payload : Body]

NoRow == [id |-> NoId, locked |-> FALSE, age |-> 0, wait |-> 0,
          retries |-> 0, payload |-> NoPayload]

Flush == [pc : {"idle", "next", "confirm", "delete", "fail", "blocked"}, age : 0..WorkTimeout,
          batch : SUBSET Claim, cur : SUBSET Claim]
Idle  == [pc |-> "idle", age |-> 0, batch |-> {}, cur |-> {}]

Request == [pc : {"local", "enqueue", "insert"}, key : Key, payload : Body]
NoRequest == [pc |-> "idle"]

Present(k)  == queue[k].id # NoId
Running(f)  == flush[f].pc # "idle"
Held(f)     == flush[f].batch \cup flush[f].cur
UsedIds     == {queue[k].id : k \in Key} \cup {c.id : c \in UNION {Held(f) : f \in Flushers}}

(* What the caller of enqueue hands over with the action. *)
BodiesOf(kind) == IF kind \in WithPayload THEN Payloads ELSE {NoPayload}

Init ==
    /\ queue = [k \in Key |-> NoRow]
    /\ flush = [f \in Flushers |-> Idle]
    /\ handler = [h \in Handlers |-> NoRequest]
    /\ requests = 0
    /\ faults = 0

Fault == faults < MaxFaults /\ faults' = faults + 1

-----------------------------------------------------------------------------
(* API requests.                                                           *)

Begin(h, k, b) ==
    /\ handler[h] = NoRequest
    /\ requests < MaxRequests
    /\ b \in BodiesOf(k.kind)
    /\ handler' = [handler EXCEPT ![h] = [pc |-> "local", key |-> k, payload |-> b]]
    /\ requests' = requests + 1
    /\ UNCHANGED <<queue, flush, faults>>

(* The handler's own table write, before it enqueues. *)
LocalWrite(h) ==
    /\ handler[h].pc = "local"
    /\ handler' = [handler EXCEPT ![h].pc = "enqueue"]
    /\ UNCHANGED <<queue, flush, requests, faults>>

\* Mutant of Cancellable: cancels a locked row too.
CancellableLocked(k) ==
    {i \in Key : i.target = k.target /\ Inverts(k.kind, i.kind) /\ Present(i)}

(* First statement of enqueue: an inverse action still waiting, unlocked,  *)
(* is deleted, and that settles the request.                               *)
Cancellable(k) ==
    {i \in Key : i.target = k.target /\ Inverts(k.kind, i.kind) /\ Present(i) /\ ~queue[i].locked}

CancelInverse(h) ==
    /\ handler[h].pc = "enqueue"
    /\ Cancellable(handler[h].key) # {}
    /\ queue' = [k \in Key |-> IF k \in Cancellable(handler[h].key) THEN NoRow ELSE queue[k]]
    /\ handler' = [handler EXCEPT ![h] = NoRequest]
    /\ UNCHANGED <<flush, requests, faults>>

NothingToCancel(h) ==
    /\ handler[h].pc = "enqueue"
    /\ Cancellable(handler[h].key) = {}
    /\ handler' = [handler EXCEPT ![h].pc = "insert"]
    /\ UNCHANGED <<queue, flush, requests, faults>>

\* Mutant of Upserted: COALESCE the wrong way round.
UpsertedKeepsPayload(row, id, b) ==
    [id |-> IF row.id = NoId THEN id ELSE row.id,
     locked |-> FALSE, age |-> 0, wait |-> 0, retries |-> 0,
     payload |-> IF row.payload = NoPayload THEN b ELSE row.payload]

(* Second statement: insert, or on conflict unlock and reset the row that  *)
(* is there, whoever holds it.  The row keeps its id.                      *)
Upserted(row, id, b) ==
    [id |-> IF row.id = NoId THEN id ELSE row.id,
     locked |-> FALSE, age |-> 0, wait |-> 0, retries |-> 0,
     payload |-> IF b = NoPayload THEN row.payload ELSE b]

Insert(h) ==
    /\ handler[h].pc = "insert"
    /\ \E id \in Ids \ UsedIds :
          queue' = [queue EXCEPT ![handler[h].key] = Upserted(@, id, handler[h].payload)]
    /\ handler' = [handler EXCEPT ![h] = NoRequest]
    /\ UNCHANGED <<flush, requests, faults>>

(* The client disconnects or a statement fails: the rest of the handler    *)
(* never runs.                                                             *)
Abandon(h) ==
    /\ handler[h] # NoRequest
    /\ Fault
    /\ handler' = [handler EXCEPT ![h] = NoRequest]
    /\ UNCHANGED <<queue, flush, requests>>

-----------------------------------------------------------------------------
(* The flush.                                                              *)

\* Mutant of Claimable: an expired lock is never taken over.
ClaimableUnlocked(k) == Present(k) /\ ~queue[k].locked /\ queue[k].wait = 0

Claimable(k) ==
    /\ Present(k)
    /\ queue[k].locked => queue[k].age = LockTimeout
    /\ queue[k].wait = 0

Snapshot(k) == [key |-> k, id |-> queue[k].id, retries |-> queue[k].retries,
                payload |-> queue[k].payload]

\* Mutant of Locked: locked_at keeps its old value.
LockedKeepsAge(row) ==
    [id |-> row.id, locked |-> TRUE, age |-> row.age, wait |-> row.wait,
     retries |-> row.retries, payload |-> row.payload]

Locked(row) ==
    [id |-> row.id, locked |-> TRUE, age |-> 0, wait |-> row.wait,
     retries |-> row.retries, payload |-> row.payload]

(* claim_batch.  RETURNING promises no order, so the batch is a set.  Which *)
(* rows a limit smaller than the backlog leaves out is left open.           *)
ClaimBatch(f) ==
    /\ ~Running(f)
    /\ \E ks \in SUBSET {k \in Key : Claimable(k)} :
          /\ ks # {}
          /\ \/ ks = {k \in Key : Claimable(k)} /\ Cardinality(ks) <= BatchSize
             \/ Cardinality(ks) = BatchSize
          /\ queue' = [k \in Key |-> IF k \in ks THEN Locked(queue[k]) ELSE queue[k]]
          /\ flush' = [flush EXCEPT ![f] = [pc |-> "next", age |-> 0, cur |-> {},
                                            batch |-> {Snapshot(k) : k \in ks}]]
    /\ UNCHANGED <<handler, requests, faults>>

(* A step of a flush: where it stands, what is left, what it works on. *)
Moved(fl, pc, batch, cur) == [pc |-> pc, age |-> fl.age, batch |-> batch, cur |-> cur]

TakeNext(f, c, pc) ==
    /\ flush[f].pc = "next"
    /\ c \in flush[f].batch
    /\ flush' = [flush EXCEPT ![f] = Moved(@, pc, @.batch \ {c}, {c})]
    /\ UNCHANGED <<queue, handler, requests>>

(* execute_one: token, then the SoundCloud call of the action. *)
CallOk(f, c) == TakeNext(f, c, "confirm") /\ UNCHANGED faults
CallFails(f, c) == TakeNext(f, c, "fail") /\ Fault
CallBlocked(f, c) == TakeNext(f, c, "blocked") /\ Fault   \* a ban or a rate limit

(* The statement of the action that settles the local tables; its error is  *)
(* an error of the action.                                                  *)
Confirm(f) ==
    /\ flush[f].pc = "confirm"
    /\ flush' = [flush EXCEPT ![f] = Moved(@, "delete", @.batch, @.cur)]
    /\ UNCHANGED <<queue, handler, requests, faults>>

ConfirmFails(f) ==
    /\ flush[f].pc = "confirm"
    /\ Fault
    /\ flush' = [flush EXCEPT ![f] = Moved(@, "fail", @.batch, @.cur)]
    /\ UNCHANGED <<queue, handler, requests>>

(* The loop goes on with the next row, and the flush ends with the batch. *)
Advance(f) ==
    flush' = [flush EXCEPT ![f] = IF @.batch = {} THEN Idle
                                  ELSE Moved(@, "next", @.batch, {})]

Unlocked(row, bump) ==
    [id |-> row.id, locked |-> FALSE, age |-> 0, wait |-> Backoff,
     retries |-> row.retries + bump, payload |-> row.payload]

\* Mutant of DeleteDone: a finished row is unlocked, not deleted.
ReleaseDone(f) ==
    /\ flush[f].pc = "delete"
    /\ \E c \in flush[f].cur :
          queue' = [k \in Key |-> IF queue[k].id = c.id THEN Unlocked(queue[k], 0) ELSE queue[k]]
    /\ Advance(f)
    /\ UNCHANGED <<handler, requests, faults>>

(* DELETE ... WHERE id: whatever the row has become since the claim. *)
DeleteDone(f) ==
    /\ flush[f].pc = "delete"
    /\ \E c \in flush[f].cur :
          queue' = [k \in Key |-> IF queue[k].id = c.id THEN NoRow ELSE queue[k]]
    /\ Advance(f)
    /\ UNCHANGED <<handler, requests, faults>>

(* record_failure.  A ban or a rate limit costs no retry; any other error   *)
(* does, and the count that decides is the one read by the claim.           *)
RecordBlocked(f) ==
    /\ flush[f].pc = "blocked"
    /\ \E c \in flush[f].cur :
          queue' = [k \in Key |-> IF queue[k].id = c.id THEN Unlocked(queue[k], 0) ELSE queue[k]]
    /\ Advance(f)
    /\ UNCHANGED <<handler, requests, faults>>

AfterFailure(row, c) ==
    IF c.retries + 1 >= MaxRetries THEN NoRow ELSE Unlocked(row, 1)

RecordFailure(f) ==
    /\ flush[f].pc = "fail"
    /\ \E c \in flush[f].cur :
          queue' = [k \in Key |-> IF queue[k].id = c.id THEN AfterFailure(queue[k], c) ELSE queue[k]]
    /\ Advance(f)
    /\ UNCHANGED <<handler, requests, faults>>

(* run_periodic drops the future, the process dies, or the flush returns    *)
(* early on a database error.                                               *)
Drop(f) ==
    /\ Running(f)
    /\ Fault
    /\ flush' = [flush EXCEPT ![f] = Idle]
    /\ UNCHANGED <<queue, handler, requests>>

(* Time.  No flush outlives WorkTimeout. *)
Older(row) ==
    [id |-> row.id, locked |-> row.locked,
     age |-> IF row.locked /\ row.age < LockTimeout THEN row.age + 1 ELSE row.age,
     wait |-> IF row.wait > 0 THEN row.wait - 1 ELSE 0,
     retries |-> row.retries, payload |-> row.payload]

LaterFlush(fl) == [pc |-> fl.pc, age |-> fl.age + 1, batch |-> fl.batch, cur |-> fl.cur]

Tick ==
    /\ \A f \in Flushers : flush[f].age < WorkTimeout
    /\ flush' = [f \in Flushers |-> IF Running(f) THEN LaterFlush(flush[f]) ELSE Idle]
    /\ queue' = [k \in Key |-> Older(queue[k])]
    /\ UNCHANGED <<handler, requests, faults>>

-----------------------------------------------------------------------------
HandlerStep(h) ==
    \/ LocalWrite(h) \/ CancelInverse(h) \/ NothingToCancel(h) \/ Insert(h)

CallStep(f, c) == CallOk(f, c) \/ CallFails(f, c) \/ CallBlocked(f, c)

FlushStep(f) ==
    \/ \E c \in flush[f].batch : CallStep(f, c)
    \/ ClaimBatch(f) \/ Confirm(f) \/ ConfirmFails(f)
    \/ DeleteDone(f) \/ RecordBlocked(f) \/ RecordFailure(f)

Next ==
    \/ \E h \in Handlers, k \in Key, b \in Body : Begin(h, k, b)
    \/ \E h \in Handlers : HandlerStep(h) \/ Abandon(h)
    \/ \E f \in Flushers : FlushStep(f) \/ Drop(f)
    \/ Tick

Spec == Init /\ [][Next]_queueVars

-----------------------------------------------------------------------------
TypeOK ==
    /\ queue \in [Key -> Row]
    /\ flush \in [Flushers -> Flush]
    /\ handler \in [Handlers -> Request \cup {NoRequest}]
    /\ requests \in 0..MaxRequests
    /\ faults \in 0..MaxFaults

(* A row that a live flush still has to settle never has an expired lock:   *)
(* claim_batch takes over only rows whose flush is gone, because a flush is *)
(* dropped (30 s) long before its locks expire (5 min).                     *)
NoTakeover ==
    \A f \in Flushers : \A c \in Held(f) :
        queue[c.key].id = c.id
            => ~(queue[c.key].locked /\ queue[c.key].age = LockTimeout)

(* What makes "WHERE id" and "the row that was claimed" the same: ids name   *)
(* one row, and the id of a claim names its key's row or none.              *)
RowIdsUnique == \A k, l \in Key : (Present(k) /\ queue[k].id = queue[l].id) => k = l
ClaimNamesRow ==
    \A f \in Flushers : \A c \in Held(f) : \A k \in Key : queue[k].id = c.id => k = c.key

(* The lock of a row that a live flush holds is no older than the flush.    *)
LocksYoung ==
    \A f \in Flushers : \A c \in Held(f) :
        (queue[c.key].id = c.id /\ queue[c.key].locked)
            => queue[c.key].age <= flush[f].age

(* The inductive invariant behind NoTakeover and OnlyHolderRemoves. *)
QueueInv == TypeOK /\ RowIdsUnique /\ ClaimNamesRow /\ LocksYoung

(* A locked row leaves the table only by the hand of a flush that is        *)
(* executing it: no inverse request cancels an action already on its way to *)
(* SoundCloud, and no flush deletes a row it did not claim.                 *)
OnlyHolderRemoves ==
    [][\A k \in Key :
          (Present(k) /\ queue[k].locked /\ queue'[k].id # queue[k].id)
              => \E f \in Flushers : \E c \in flush[f].cur :
                    c.key = k /\ c.id = queue[k].id]_queueVars

(* A row leaves the queue: finished, cancelled, or given up after           *)
(* MAX_RETRIES; a dropped flush does not leave it locked for ever.          *)
RowsLeave == \A k \in Key : Present(k) ~> ~Present(k)
=============================================================================
