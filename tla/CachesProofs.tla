----------------------------- MODULE CachesProofs -----------------------------
(***************************************************************************)
(* What the outbox promises of payloads, for any number of requests,       *)
(* flushes, playlists and failures: SoundCloud gets a payload again only   *)
(* for a failure, and the last edit of a playlist is what it ends up with; *)
(* and what the shared caches show the owner of a row of his own writes.   *)
(***************************************************************************)
EXTENDS PlaylistSync, ColdCache, SyncQueueProofs, FiniteSetTheorems

Counts == [Key -> [Body -> Nat]]
PlaylistTypeOK ==
    /\ remote \in [Playlists -> SUBSET Body] /\ born \subseteq Playlists
    /\ asked \in Counts /\ sent \in Counts /\ last \in [Key -> Body]

(* A flush has one claim of a row. *)
OneClaimEach == \A f \in Flushers : \A c, d \in Held(f) : c.key = d.key => c = d
CurLeftBatch ==
    \A f \in Flushers :
        /\ flush[f].cur \cap flush[f].batch = {}
        /\ flush[f].pc \in {"idle", "next"} => flush[f].cur = {}
        /\ flush[f].pc = "idle" => flush[f].batch = {}
        /\ \A c, d \in flush[f].cur : c = d

(* An edit or a deletion on its way is of a playlist that has existed. *)
Editing(k) == k.kind \in {"playlist_update", "playlist_delete"}
Named ==
    /\ \A h \in Handlers : handler[h] # NoRequest =>
          /\ Editing(handler[h].key) => handler[h].key.target \in born
          /\ handler[h].payload \in BodiesOf(handler[h].key.kind)
    /\ \A k \in Key :
          Editing(k) /\ (Present(k) \/ last[k] # NoPayload) => k.target \in born
    /\ \A f \in Flushers : \A c \in Held(f) : Editing(c.key) => c.key.target \in born

PlaylistBase == QueueInv /\ PlaylistTypeOK /\ OneClaimEach /\ CurLeftBatch /\ Named

(* What may still bring SoundCloud the payload b of k: a row that no live   *)
(* flush is at work on; a flush that has it before it; a flush that failed  *)
(* with k and is going to unlock the row, whatever it holds by then.       *)
Covered(k) == queue[k].locked /\ \E f \in Flushers : \E c \in Held(f) : c.key = k /\ c.id = queue[k].id
Waiting(k, b) == IF Present(k) /\ queue[k].payload = b /\ ~Covered(k) THEN 1 ELSE 0
Owes(f, k, b) ==
    \/ \E c \in flush[f].batch : c.key = k /\ c.payload = b
    \/ flush[f].pc \in {"fail", "blocked"} /\ \E c \in flush[f].cur : c.key = k
Owing(k, b) == {f \in Flushers : Owes(f, k, b)}

(* A playlist that is gone takes no edit any more. *)
Gone(k) == Editing(k) /\ k.target \in born /\ remote[k.target] = {}

Balanced(k, b) ==
    sent[k][b] + Cardinality(Owing(k, b)) + Waiting(k, b) <= asked[k][b] + faults
RepeatInv ==
    \A k \in Key, b \in Body :
        k.kind # "playlist_delete" =>
            sent[k][b] <= asked[k][b] + faults /\ (Gone(k) \/ Balanced(k, b))

(* While nothing fails, what is queued or in hand is the last edit, and a  *)
(* flush that has sent it, or was refused, leaves the playlist so.         *)
HeldSound(f, k) ==
    /\ \A c \in Held(f) : c.key = k => c.payload = last[k] /\ last[k] # NoPayload
    /\ \A c \in flush[f].cur : c.key = k =>
          /\ flush[f].pc \in {"confirm", "delete"} => remote[k.target] \subseteq {last[k]}
          /\ flush[f].pc \in {"fail", "blocked"} => remote[k.target] = {}
Sound(k) ==
    /\ Present(k) => queue[k].payload = last[k] /\ last[k] # NoPayload
    /\ last[k] = NoPayload \/ Present(k) \/ remote[k.target] \subseteq {last[k]}
    /\ \A f \in Flushers : HeldSound(f, k)
LastInv ==
    faults = 0 => \A k \in Key \ crossed : k.kind = "playlist_update" => Sound(k)

-----------------------------------------------------------------------------
(* What a step does to a flush. *)
Same(f) ==
    /\ flush'[f].pc = flush[f].pc /\ flush'[f].batch = flush[f].batch
    /\ flush'[f].cur = flush[f].cur
Takes(f, c, pc) ==
    /\ flush[f].pc = "next" /\ c \in flush[f].batch
    /\ flush'[f].pc = pc /\ flush'[f].batch = flush[f].batch \ {c} /\ flush'[f].cur = {c}
Turns(f, pc) ==
    /\ flush[f].pc = "confirm" /\ flush'[f].pc = pc
    /\ flush'[f].batch = flush[f].batch /\ flush'[f].cur = flush[f].cur
Frees(f) ==
    /\ flush'[f].batch = flush[f].batch /\ flush'[f].cur = {}
    /\ flush'[f].pc = IF flush[f].batch = {} THEN "idle" ELSE "next"
Drops(f) == flush'[f].pc = "idle" /\ flush'[f].batch = {} /\ flush'[f].cur = {}
Claims(f, ks) ==
    /\ flush[f].pc = "idle" /\ flush'[f].pc = "next" /\ flush'[f].cur = {}
    /\ flush'[f].batch = {Snapshot(k) : k \in ks}
OthersSame(f) == \A g \in Flushers \ {f} : Same(g)

LEMMA OneFlushMoves ==
    ASSUME TypeOK, NEW f \in Flushers, NEW fl, flush' = [flush EXCEPT ![f] = fl]
    PROVE  flush'[f] = fl /\ OthersSame(f)
BY DEF TypeOK, OthersSame, Same

LEMMA MovedFields ==
    ASSUME NEW fl, NEW pc, NEW batch, NEW cur
    PROVE  /\ Moved(fl, pc, batch, cur).pc = pc /\ Moved(fl, pc, batch, cur).batch = batch
           /\ Moved(fl, pc, batch, cur).cur = cur
BY DEF Moved

LEMMA TakeTakes ==
    ASSUME TypeOK, NEW f \in Flushers, NEW c, NEW pc, TakeNext(f, c, pc)
    PROVE  Takes(f, c, pc) /\ OthersSame(f) /\ UNCHANGED <<queue, handler, requests>>
<1>1. PICK fl : fl = Moved(flush[f], pc, flush[f].batch \ {c}, {c}) OBVIOUS
<1>2. flush' = [flush EXCEPT ![f] = fl] BY <1>1 DEF TakeNext
<1>3. flush'[f] = fl /\ OthersSame(f) BY <1>2, OneFlushMoves
<1>4. fl.pc = pc /\ fl.batch = flush[f].batch \ {c} /\ fl.cur = {c} BY <1>1, MovedFields
<1>5. QED BY <1>3, <1>4 DEF TakeNext, Takes

LEMMA TurnTurns ==
    ASSUME TypeOK, NEW f \in Flushers, NEW pc,
           flush[f].pc = "confirm",
           flush' = [flush EXCEPT ![f] = Moved(flush[f], pc, flush[f].batch, flush[f].cur)]
    PROVE  Turns(f, pc) /\ OthersSame(f)
<1>1. PICK fl : fl = Moved(flush[f], pc, flush[f].batch, flush[f].cur) OBVIOUS
<1>2. flush'[f] = fl /\ OthersSame(f) BY <1>1, OneFlushMoves
<1>3. fl.pc = pc /\ fl.batch = flush[f].batch /\ fl.cur = flush[f].cur BY <1>1, MovedFields
<1>4. QED BY <1>2, <1>3 DEF Turns

LEMMA AdvanceFrees ==
    ASSUME TypeOK, NEW f \in Flushers, Advance(f)
    PROVE  Frees(f) /\ OthersSame(f)
<1>1. CASE flush[f].batch = {}
  <2>1. flush' = [flush EXCEPT ![f] = Idle] BY <1>1 DEF Advance
  <2>2. flush'[f] = Idle /\ OthersSame(f) BY <2>1, OneFlushMoves
  <2>3. QED BY <1>1, <2>2 DEF Frees, Idle
<1>2. CASE flush[f].batch # {}
  <2>1. PICK fl : fl = Moved(flush[f], "next", flush[f].batch, {}) OBVIOUS
  <2>2. flush' = [flush EXCEPT ![f] = fl] BY <1>2, <2>1 DEF Advance
  <2>3. flush'[f] = fl /\ OthersSame(f) BY <2>2, OneFlushMoves
  <2>4. fl.pc = "next" /\ fl.batch = flush[f].batch /\ fl.cur = {} BY <2>1, MovedFields
  <2>5. QED BY <1>2, <2>3, <2>4 DEF Frees
<1>3. QED BY <1>1, <1>2

LEMMA DropDrops ==
    ASSUME TypeOK, NEW f \in Flushers, Drop(f)
    PROVE  Drops(f) /\ OthersSame(f)
<1>1. flush'[f] = Idle /\ OthersSame(f) BY OneFlushMoves DEF Drop
<1>2. QED BY <1>1 DEF Drops, Idle

LEMMA ClaimClaims ==
    ASSUME TypeOK, NEW f \in Flushers, ClaimBatch(f)
    PROVE  \E ks \in SUBSET Key :
              /\ \A k \in ks : Claimable(k)
              /\ queue' = [k \in Key |-> IF k \in ks THEN Locked(queue[k]) ELSE queue[k]]
              /\ Claims(f, ks) /\ OthersSame(f) /\ UNCHANGED faults
<1>1. PICK ks \in SUBSET Key :
          /\ \A k \in ks : Claimable(k)
          /\ queue' = [k \in Key |-> IF k \in ks THEN Locked(queue[k]) ELSE queue[k]]
          /\ flush' = [flush EXCEPT ![f] = [pc |-> "next", age |-> 0, cur |-> {},
                                            batch |-> {Snapshot(k) : k \in ks}]]
  BY DEF ClaimBatch
<1>2. PICK fl : fl = [pc |-> "next", age |-> 0, cur |-> {}, batch |-> {Snapshot(k) : k \in ks}]
  OBVIOUS
<1>3. flush'[f] = fl /\ OthersSame(f) BY <1>1, <1>2, OneFlushMoves
<1>4. Claims(f, ks)
  BY <1>2, <1>3 DEF Claims, ClaimBatch, Running
<1>5. QED BY <1>1, <1>3, <1>4 DEF ClaimBatch

LEMMA TickSame ==
    ASSUME TypeOK, Tick, CurLeftBatch
    PROVE  /\ \A f \in Flushers : Same(f)
           /\ \A k \in Key : /\ queue'[k].id = queue[k].id /\ queue'[k].locked = queue[k].locked
                             /\ queue'[k].payload = queue[k].payload
<1>1. \A f \in Flushers : Same(f)
  BY DEF Tick, Same, TypeOK, LaterFlush, Running, Idle, CurLeftBatch
<1>2. QED BY <1>1 DEF Tick, Older

(* The eight ways of a flush, or of all of them. *)
FlushMove ==
    \/ \A f \in Flushers : Same(f)
    \/ \E f \in Flushers :
          /\ OthersSame(f)
          /\ \/ \E c, pc : pc \notin {"idle", "next"} /\ Takes(f, c, pc)
             \/ Turns(f, "delete") \/ Turns(f, "fail")
             \/ Frees(f) \/ Drops(f)
             \/ \E ks \in SUBSET Key : (\A k \in ks : Present(k)) /\ Claims(f, ks)

LEMMA EveryFlushMove ==
    ASSUME TypeOK, CurLeftBatch, [PlaylistNext]_vars
    PROVE  FlushMove
<1>1. ASSUME NEW f \in Flushers, NEW c \in flush[f].batch, PlaylistCall(f, c) PROVE FlushMove
  <2>1. \E pc \in {"confirm", "fail", "blocked"} : TakeNext(f, c, pc)
    BY <1>1 DEF PlaylistCall, CallOk, CallFails, CallBlocked
  <2>2. QED BY <2>1, TakeTakes DEF FlushMove
<1>2. ASSUME NEW f \in Flushers, PlaylistConfirm(f) \/ PlaylistRest(f) PROVE FlushMove
  <2>1. CASE ClaimBatch(f)
    <3>1. PICK ks \in SUBSET Key :
              (\A k \in ks : Claimable(k)) /\ Claims(f, ks) /\ OthersSame(f)
      BY <2>1, ClaimClaims
    <3>2. \A k \in ks : Present(k) BY <3>1 DEF Claimable
    <3>3. QED BY <3>1, <3>2 DEF FlushMove
  <2>2. CASE Confirm(f) \/ ConfirmFails(f) BY <2>2, TurnTurns DEF FlushMove, Confirm, ConfirmFails
  <2>3. CASE DeleteDone(f) \/ RecordBlocked(f) \/ RecordFailure(f)
    BY <2>3, AdvanceFrees DEF FlushMove, DeleteDone, RecordBlocked, RecordFailure
  <2>4. CASE Drop(f) BY <2>4, DropDrops DEF FlushMove
  <2>5. QED BY <1>2, <2>1, <2>2, <2>3, <2>4 DEF PlaylistConfirm, PlaylistRest
<1>3. CASE Tick BY <1>3, TickSame DEF FlushMove
<1>4. CASE UNCHANGED flush BY <1>4 DEF FlushMove, Same
<1>5. QED
  BY <1>1, <1>2, <1>3, <1>4
     DEF PlaylistNext, PlaylistFlushStep, PlaylistBegin, Begin, PlaylistHandlerStep, DirectCreate,
         LocalStep, LocalWrite, Enqueued, Insert, NothingToCancel, Abandon, FetchOwned, UpsertOwned,
         DeleteOrphans, StopRefresh, vars, queueVars

(* A flush has one claim of a row, and works on one it has taken out. *)
LEMMA BatchesKept ==
    ASSUME TypeOK, OneClaimEach, CurLeftBatch, FlushMove
    PROVE  OneClaimEach' /\ CurLeftBatch'
<1> DEFINE Fits(f) == /\ \A c, d \in Held(f) : c.key = d.key => c = d
                      /\ flush[f].cur \cap flush[f].batch = {}
                      /\ flush[f].pc \in {"idle", "next"} => flush[f].cur = {}
                      /\ flush[f].pc = "idle" => flush[f].batch = {}
                      /\ \A c, d \in flush[f].cur : c = d
<1>1. \A f \in Flushers : Fits(f) BY DEF OneClaimEach, CurLeftBatch
<1>2. ASSUME NEW f \in Flushers, Same(f) PROVE Fits(f)' BY <1>1, <1>2 DEF Same, Held
<1>3. ASSUME NEW f \in Flushers, NEW c, NEW pc, pc \notin {"idle", "next"}, Takes(f, c, pc)
      PROVE  Fits(f)'
  <2>1. Held(f)' \subseteq Held(f) BY <1>3 DEF Takes, Held
  <2>2. QED BY <1>1, <1>3, <2>1 DEF Takes
<1>4. ASSUME NEW f \in Flushers, Turns(f, "delete") \/ Turns(f, "fail") PROVE Fits(f)'
  BY <1>1, <1>4 DEF Turns, Held
<1>5. ASSUME NEW f \in Flushers, Frees(f) PROVE Fits(f)' BY <1>1, <1>5 DEF Frees, Held
<1>6. ASSUME NEW f \in Flushers, Drops(f) PROVE Fits(f)' BY <1>6 DEF Drops, Held
<1>7. ASSUME NEW f \in Flushers, NEW ks \in SUBSET Key, Claims(f, ks) PROVE Fits(f)'
  BY <1>7 DEF Claims, Held, Snapshot
<1>8. \A f \in Flushers : Fits(f)'
  BY <1>2, <1>3, <1>4, <1>5, <1>6, <1>7 DEF FlushMove, OthersSame
<1>9. QED BY <1>8 DEF OneClaimEach, CurLeftBatch

-----------------------------------------------------------------------------
(* Types, and what the outbox promises of its rows: two steps are not the  *)
(* outbox's own, the direct creation and a call that SoundCloud refuses.   *)
LEMMA RefusedQueue ==
    ASSUME QueueInv, NEW f \in Flushers, NEW c \in flush[f].batch,
           TakeNext(f, c, "fail"), UNCHANGED faults
    PROVE  QueueInv'
<1>1. TypeOK BY DEF QueueInv
<1>2. flush[f] \in Flush /\ c \in Claim BY <1>1 DEF TypeOK, Flush
<1>3. Moved(flush[f], "fail", flush[f].batch \ {c}, {c}) \in Flush BY <1>2 DEF Moved, Flush
<1>4. TypeOK' BY <1>1, <1>3 DEF TypeOK, TakeNext
<1>5. Takes(f, c, "fail") /\ OthersSame(f) /\ UNCHANGED queue BY <1>1, TakeTakes
<1>6. \A g \in Flushers : Held(g)' \subseteq Held(g)
  BY <1>5 DEF Takes, OthersSame, Same, Held
<1>7. \A g \in Flushers : flush'[g].age = flush[g].age
  BY <1>1 DEF TakeNext, TypeOK, Moved
<1>8. (\A k \in Key : RowEases(k)) /\ \A g \in Flushers : HoldsLess(g)
  BY <1>5, <1>6, <1>7 DEF RowEases, HoldsLess
<1>9. QED BY <1>4, <1>8, EasingStep

LEMMA HandsOffQueue ==
    ASSUME QueueInv, UNCHANGED <<queue, flush, requests>>,
           faults' \in 0..MaxFaults,
           handler' \in [Handlers -> Request \cup {NoRequest}]
    PROVE  QueueInv'
<1>1. TypeOK' BY DEF QueueInv, TypeOK
<1>2. (\A k \in Key : RowEases(k)) /\ \A g \in Flushers : HoldsLess(g)
  BY DEF RowEases, HoldsLess, Held
<1>3. QED BY <1>1, <1>2, EasingStep

LEMMA QueueStays ==
    ASSUME QueueInv, [PlaylistNext]_vars
    PROVE  QueueInv'
<1>0. TypeOK BY DEF QueueInv
<1>1. ASSUME NEW f \in Flushers, NEW c \in flush[f].batch, PlaylistCall(f, c) PROVE QueueInv'
  <2>1. CASE CallOk(f, c) \/ CallFails(f, c) \/ CallBlocked(f, c)
    BY <1>1, <2>1, NextInv DEF Next, FlushStep, CallStep
  <2>2. CASE TakeNext(f, c, "fail") /\ UNCHANGED faults BY <1>1, <2>2, RefusedQueue
  <2>3. QED BY <1>1, <2>1, <2>2 DEF PlaylistCall
<1>2. ASSUME NEW f \in Flushers, PlaylistConfirm(f) \/ PlaylistRest(f) PROVE QueueInv'
  BY <1>2, NextInv DEF PlaylistConfirm, PlaylistRest, Next, FlushStep
<1>3. ASSUME NEW h \in Handlers, NEW k \in Key, NEW b \in Body, PlaylistBegin(h, k, b)
      PROVE  QueueInv'
  BY <1>3, NextInv DEF PlaylistBegin, Next
<1>4. ASSUME NEW h \in Handlers, LocalStep(h) \/ Enqueued(h) \/ NothingToCancel(h) \/ Abandon(h)
      PROVE  QueueInv'
  BY <1>4, NextInv DEF LocalStep, Enqueued, Next, HandlerStep
<1>5. ASSUME NEW h \in Handlers, DirectCreate(h) PROVE QueueInv'
  <2>1. handler' \in [Handlers -> Request \cup {NoRequest}] BY <1>0, <1>5 DEF DirectCreate, TypeOK
  <2>2. QED BY <1>0, <1>5, <2>1, HandsOffQueue DEF DirectCreate, TypeOK
<1>6. CASE Tick BY <1>6, NextInv DEF Next
<1>7. CASE FetchOwned \/ UpsertOwned \/ DeleteOrphans \/ StopRefresh \/ UNCHANGED vars
  <2>1. UNCHANGED <<queue, flush, requests, handler>>
    BY <1>7 DEF FetchOwned, UpsertOwned, DeleteOrphans, StopRefresh, vars, queueVars
  <2>2. faults' \in 0..MaxFaults
    BY <1>0, <1>7, BoundsAssumption
       DEF FetchOwned, UpsertOwned, DeleteOrphans, StopRefresh, vars, queueVars, TypeOK, Fault
  <2>3. QED BY <1>0, <2>1, <2>2, HandsOffQueue DEF TypeOK
<1>8. QED
  BY <1>1, <1>2, <1>3, <1>4, <1>5, <1>6, <1>7
     DEF PlaylistNext, PlaylistFlushStep, PlaylistHandlerStep

LEMMA Creates ==
    ASSUME PlaylistTypeOK, NEW fresh, NEW b \in Body, Create(fresh, b)
    PROVE  /\ remote' \in [Playlists -> SUBSET Body] /\ born' \subseteq Playlists
           /\ born \subseteq born' /\ \A p \in born : remote'[p] = remote[p]
BY DEF PlaylistTypeOK, Create

LEMMA Counted ==
    ASSUME NEW counts \in Counts, NEW k \in Key, NEW b \in Body
    PROVE  /\ Once(counts, k, b) \in Counts
           /\ \A l \in Key, d \in Body :
                 Once(counts, k, b)[l][d] = counts[l][d] + (IF l = k /\ d = b THEN 1 ELSE 0)
BY DEF Counts, Once

(* What a call that SoundCloud takes does: it never brings back a playlist *)
(* that is gone, and changes none but its own.                             *)
LEMMA EffectOf ==
    ASSUME PlaylistTypeOK, Named, NEW f \in Flushers, NEW c \in Claim, c \in Held(f),
           Effect(f, c)
    PROVE  /\ remote' \in [Playlists -> SUBSET Body] /\ born' \subseteq Playlists
           /\ born \subseteq born'
           /\ \A p \in born :
                 \/ remote'[p] = remote[p]
                 \/ c.key.kind = "playlist_update" /\ p = c.key.target
                 \/ c.key.kind = "playlist_delete" /\ remote'[p] = {}
           /\ c.key.kind = "playlist_update" => remote'[c.key.target] = {c.payload}
<1>1. c.payload \in Body /\ c.key \in Key BY DEF Claim
<1>2. CASE c.key.kind = "playlist_create"
  <2>1. PICK fresh : Create(fresh, c.payload) BY <1>2 DEF Effect
  <2>2. QED BY <1>1, <1>2, <2>1, Creates
<1>3. CASE c.key.kind = "playlist_update"
  <2>1. c.key.target \in born BY <1>3 DEF Named, Editing
  <2>2. remote' = [remote EXCEPT ![c.key.target] = {c.payload}] /\ UNCHANGED born
    BY <1>3 DEF Effect
  <2>3. QED BY <1>1, <1>3, <2>1, <2>2 DEF PlaylistTypeOK
<1>4. CASE c.key.kind = "playlist_delete"
  <2>1. remote' = [remote EXCEPT ![c.key.target] = {}] /\ UNCHANGED born
    BY <1>4 DEF Effect
  <2>2. QED BY <1>4, <2>1 DEF PlaylistTypeOK
<1>5. CASE c.key.kind \notin {"playlist_create", "playlist_update", "playlist_delete"}
  BY <1>5 DEF Effect, PlaylistTypeOK
<1>6. QED BY <1>2, <1>3, <1>4, <1>5

(* The steps that touch neither the table, nor a flush, nor SoundCloud. *)
Elsewhere ==
    \/ \E h \in Handlers, k \in Key, b \in Body : PlaylistBegin(h, k, b)
    \/ \E h \in Handlers : LocalStep(h)
    \/ \E h \in Handlers : (NothingToCancel(h) \/ Abandon(h)) /\ UNCHANGED playlistVars
    \/ FetchOwned \/ UpsertOwned \/ DeleteOrphans \/ StopRefresh
    \/ UNCHANGED vars

(* A request ends, goes on, or is one that may be made. *)
Proper(request) ==
    /\ Editing(request.key) => request.key.target \in born
    /\ request.payload \in BodiesOf(request.key.kind)
RequestGoesOn(h) ==
    \/ handler'[h] = NoRequest
    \/ /\ handler[h] # NoRequest /\ handler'[h].key = handler[h].key
       /\ handler'[h].payload = handler[h].payload
    \/ Proper(handler'[h])
HandsOff ==
    /\ UNCHANGED <<queue, flush, remote, born, history>> /\ faults <= faults'
    /\ \A h \in Handlers : RequestGoesOn(h)

LEMMA ElsewhereKeeps ==
    ASSUME TypeOK, Elsewhere
    PROVE  HandsOff
<1>0. faults \in Nat BY BoundsAssumption DEF TypeOK
<1>1. ASSUME NEW h \in Handlers, NEW k \in Key, NEW b \in Body, PlaylistBegin(h, k, b)
      PROVE  HandsOff
  <2>1. PICK request : request = [pc |-> "local", key |-> k, payload |-> b] OBVIOUS
  <2>2. request.key = k /\ request.payload = b BY <2>1
  <2>3. handler'[h] = request /\ \A g \in Handlers \ {h} : handler'[g] = handler[g]
    BY <1>1, <2>1 DEF PlaylistBegin, Begin, TypeOK
  <2>4. b \in BodiesOf(k.kind) /\ (Editing(k) => k.target \in born)
    BY <1>1 DEF PlaylistBegin, Begin, Nameable, Editing
  <2>5. UNCHANGED <<queue, flush, remote, born, history, faults>>
    BY <1>1 DEF PlaylistBegin, Begin, playlistVars, history
  <2>6. Proper(handler'[h]) BY <2>2, <2>3, <2>4 DEF Proper
  <2>7. \A g \in Handlers : RequestGoesOn(g) BY <2>3, <2>6 DEF RequestGoesOn
  <2>8. QED BY <1>0, <2>5, <2>7 DEF HandsOff
<1>2. ASSUME NEW h \in Handlers, NEW pc, handler' = [handler EXCEPT ![h].pc = pc],
             handler[h] # NoRequest
      PROVE  \A g \in Handlers : RequestGoesOn(g)
  <2>1. \A g \in Handlers \ {h} : handler'[g] = handler[g] BY <1>2 DEF TypeOK
  <2>2. handler[h] \in Request BY <1>2 DEF TypeOK
  <2>3. handler'[h] = [handler[h] EXCEPT !.pc = pc] BY <1>2 DEF TypeOK
  <2>4. handler'[h].key = handler[h].key /\ handler'[h].payload = handler[h].payload
    BY <2>2, <2>3 DEF Request
  <2>5. QED BY <1>2, <2>1, <2>4 DEF RequestGoesOn
<1>3. ASSUME NEW h \in Handlers, LocalStep(h) PROVE HandsOff
  <2>1. handler[h] # NoRequest /\ handler' = [handler EXCEPT ![h].pc = "enqueue"]
    BY <1>3 DEF LocalStep, LocalWrite, NoRequest
  <2>2. \A g \in Handlers : RequestGoesOn(g) BY <1>2, <2>1
  <2>3. UNCHANGED <<queue, flush, remote, born, history, faults>>
    BY <1>3 DEF LocalStep, LocalWrite, history
  <2>4. QED BY <1>0, <2>2, <2>3 DEF HandsOff
<1>4. ASSUME NEW h \in Handlers, NothingToCancel(h), UNCHANGED playlistVars PROVE HandsOff
  <2>1. handler[h] # NoRequest /\ handler' = [handler EXCEPT ![h].pc = "insert"]
    BY <1>4 DEF NothingToCancel, NoRequest
  <2>2. \A g \in Handlers : RequestGoesOn(g) BY <1>2, <2>1
  <2>3. UNCHANGED <<queue, flush, remote, born, history, faults>>
    BY <1>4 DEF NothingToCancel, history, playlistVars
  <2>4. QED BY <1>0, <2>2, <2>3 DEF HandsOff
<1>5. ASSUME NEW h \in Handlers, Abandon(h), UNCHANGED playlistVars PROVE HandsOff
  <2>1. handler'[h] = NoRequest /\ \A g \in Handlers \ {h} : handler'[g] = handler[g]
    BY <1>5 DEF Abandon, TypeOK
  <2>2. \A g \in Handlers : RequestGoesOn(g) BY <2>1 DEF RequestGoesOn
  <2>3. faults <= faults' BY <1>0, <1>5 DEF Abandon, Fault
  <2>4. QED BY <1>5, <2>2, <2>3 DEF Abandon, HandsOff, history, playlistVars
<1>6. CASE FetchOwned \/ UpsertOwned \/ DeleteOrphans \/ StopRefresh \/ UNCHANGED vars
  <2>1. UNCHANGED <<queue, flush, handler, remote, born, history>>
    BY <1>6 DEF FetchOwned, UpsertOwned, DeleteOrphans, StopRefresh, vars, queueVars, history
  <2>2. faults <= faults'
    BY <1>0, <1>6 DEF FetchOwned, UpsertOwned, DeleteOrphans, StopRefresh, vars, queueVars, Fault
  <2>3. QED BY <2>1, <2>2 DEF HandsOff, RequestGoesOn
<1>7. QED BY <1>1, <1>3, <1>4, <1>5, <1>6 DEF Elsewhere

(* The steps of the queue, by what they do to the payloads. *)
Rests ==
    \/ \E f \in Flushers : PlaylistConfirm(f) \/ PlaylistRest(f)
    \/ Tick /\ UNCHANGED playlistVars

LEMMA StepKinds ==
    ASSUME [PlaylistNext]_vars
    PROVE  \/ Elsewhere \/ Rests
           \/ \E h \in Handlers : DirectCreate(h) \/ Enqueued(h)
           \/ \E f \in Flushers : \E c \in flush[f].batch : PlaylistCall(f, c)
<1>1. ASSUME NEW h \in Handlers, PlaylistHandlerStep(h) PROVE Elsewhere \/ DirectCreate(h) \/ Enqueued(h)
  BY <1>1 DEF PlaylistHandlerStep, Elsewhere
<1>2. ASSUME NEW h \in Handlers, Abandon(h), UNCHANGED playlistVars PROVE Elsewhere
  BY <1>2 DEF Elsewhere
<1>3. ASSUME NEW f \in Flushers, PlaylistFlushStep(f)
      PROVE  Rests \/ \E c \in flush[f].batch : PlaylistCall(f, c)
  BY <1>3 DEF PlaylistFlushStep, Rests
<1>4. CASE FetchOwned \/ UpsertOwned \/ DeleteOrphans \/ StopRefresh \/ UNCHANGED vars
  BY <1>4 DEF Elsewhere
<1>5. ASSUME NEW h \in Handlers, NEW k \in Key, NEW b \in Body, PlaylistBegin(h, k, b) PROVE Elsewhere
  BY <1>5 DEF Elsewhere
<1>6. CASE Tick /\ UNCHANGED playlistVars BY <1>6 DEF Rests
<1>7. QED BY <1>1, <1>2, <1>3, <1>4, <1>5, <1>6 DEF PlaylistNext

LEMMA RestsKeep ==
    ASSUME TypeOK, Rests
    PROVE  UNCHANGED <<handler, remote, born, history>> /\ faults <= faults'
<1>0. faults \in Nat BY BoundsAssumption DEF TypeOK
<1>1. UNCHANGED <<handler, remote, born, history>>
  BY DEF Rests, PlaylistConfirm, PlaylistRest, Confirm, ClaimBatch, ConfirmFails, DeleteDone,
         RecordBlocked, RecordFailure, Drop, Tick, history, playlistVars
<1>2. faults <= faults'
  BY <1>0 DEF Rests, PlaylistConfirm, PlaylistRest, Confirm, ClaimBatch, ConfirmFails, DeleteDone,
              RecordBlocked, RecordFailure, Drop, Tick, Fault
<1>3. QED BY <1>1, <1>2

(* The handler that enqueues: one row, under its own key. *)
LEMMA EnqueuedRow ==
    ASSUME TypeOK, Named, NEW h \in Handlers, Enqueued(h)
    PROVE  \E k \in Key, b \in Body, id \in Ids :
              /\ b \in BodiesOf(k.kind) /\ (Editing(k) => k.target \in born)
              /\ k = handler[h].key
              /\ queue'[k] = Upserted(queue[k], id, b)
              /\ \A l \in Key \ {k} : queue'[l] = queue[l]
              /\ asked' = Once(asked, k, b) /\ last' = [last EXCEPT ![k] = b]
              /\ k \in crossed' \/ ~InHand(k)
              /\ crossed \subseteq crossed'
              /\ UNCHANGED <<flush, faults, remote, born, sent>>
              /\ \A g \in Handlers : RequestGoesOn(g)
<1>1. handler[h].pc = "insert" /\ handler[h] # NoRequest BY DEF Enqueued, Insert, NoRequest
<1>2. handler[h].key \in Key /\ handler[h].payload \in Body BY <1>1 DEF TypeOK, Request
<1>3. PICK k \in Key, b \in Body : k = handler[h].key /\ b = handler[h].payload BY <1>2
<1>4. b \in BodiesOf(k.kind) /\ (Editing(k) => k.target \in born) BY <1>1, <1>3 DEF Named
<1>5. PICK id \in Ids \ UsedIds : queue' = [queue EXCEPT ![k] = Upserted(queue[k], id, b)]
  BY <1>3 DEF Enqueued, Insert
<1>6. queue'[k] = Upserted(queue[k], id, b) /\ \A l \in Key \ {k} : queue'[l] = queue[l]
  BY <1>5 DEF TypeOK
<1>7. handler'[h] = NoRequest /\ \A g \in Handlers \ {h} : handler'[g] = handler[g]
  BY DEF Enqueued, Insert, TypeOK
<1>8. \A g \in Handlers : RequestGoesOn(g) BY <1>7 DEF RequestGoesOn
<1>9. QED BY <1>3, <1>4, <1>6, <1>8 DEF Enqueued, Insert

LEMMA NamedKeeps ==
    ASSUME Named, FlushMove, born \subseteq born', \A h \in Handlers : RequestGoesOn(h),
           \A k \in Key : Present(k)' => Present(k) \/ (Editing(k) => k.target \in born'),
           \A k \in Key : last'[k] = last[k] \/ (Editing(k) => k.target \in born')
    PROVE  Named'
<1>1. ASSUME NEW h \in Handlers, handler'[h] # NoRequest
      PROVE  /\ Editing(handler'[h].key) => handler'[h].key.target \in born'
             /\ handler'[h].payload \in BodiesOf(handler'[h].key.kind)
  BY <1>1 DEF Named, RequestGoesOn, Proper
<1>2. \A k \in Key : Editing(k) /\ (Present(k)' \/ last'[k] # NoPayload) => k.target \in born'
  BY DEF Named
<1>3. ASSUME NEW f \in Flushers, NEW c \in Held(f)', Editing(c.key) PROVE c.key.target \in born'
  <2>1. CASE c \in Held(f) BY <1>3, <2>1 DEF Named
  <2>2. CASE \E ks \in SUBSET Key : (\A k \in ks : Present(k)) /\ Claims(f, ks)
    <3>1. PICK ks \in SUBSET Key : (\A k \in ks : Present(k)) /\ Claims(f, ks) BY <2>2
    <3>2. PICK k \in ks : c = Snapshot(k) BY <3>1 DEF Claims, Held
    <3>3. c.key = k BY <3>2 DEF Snapshot
    <3>4. QED BY <1>3, <3>1, <3>3 DEF Named
  <2>3. QED
    BY <2>1, <2>2 DEF FlushMove, OthersSame, Same, Takes, Turns, Frees, Drops, Held
<1>4. QED BY <1>1, <1>2, <1>3 DEF Named

LEMMA InitBase == PlaylistInit => PlaylistBase
<1> SUFFICES ASSUME PlaylistInit PROVE PlaylistBase OBVIOUS
<1>1. Init BY DEF PlaylistInit
<1>2. QueueInv BY <1>1, InitInv
<1>3. \A f \in Flushers : Held(f) = {} /\ flush[f].cur = {} /\ flush[f].batch = {}
  BY <1>1 DEF Init, Idle, Held
<1>4. PlaylistTypeOK
  BY PlaylistAssumption DEF PlaylistInit, PlaylistTypeOK, Body, Counts
<1>5. \A k \in Key : ~Present(k) /\ last[k] = NoPayload
  BY <1>1 DEF Init, PlaylistInit, Present, NoRow
<1>6. \A h \in Handlers : handler[h] = NoRequest BY <1>1 DEF Init
<1>7. QED BY <1>2, <1>3, <1>4, <1>5, <1>6 DEF PlaylistBase, OneClaimEach, CurLeftBatch, Named

(* The rows there are, but for an insertion, were there before. *)
LEMMA RowsOnlyLeave ==
    ASSUME TypeOK, Rests
    PROVE  \A k \in Key : Present(k)' => Present(k)
<1>2. ASSUME NEW f \in Flushers, ClaimBatch(f) PROVE \A k \in Key : Present(k)' => Present(k)
  BY <1>2 DEF ClaimBatch, Locked, Present, TypeOK
<1>3. ASSUME NEW f \in Flushers, DeleteDone(f) \/ RecordBlocked(f) \/ RecordFailure(f)
      PROVE  \A k \in Key : Present(k)' => Present(k)
  BY <1>3 DEF DeleteDone, RecordBlocked, RecordFailure, AfterFailure, Unlocked, NoRow, Present, TypeOK
<1>4. CASE Tick BY <1>4 DEF Tick, Older, Present, TypeOK
<1>5. ASSUME NEW f \in Flushers, Confirm(f) \/ ConfirmFails(f) \/ Drop(f)
      PROVE  \A k \in Key : Present(k)' => Present(k)
  BY <1>5 DEF Confirm, ConfirmFails, Drop, Present
<1>6. QED BY <1>2, <1>3, <1>4, <1>5 DEF Rests, PlaylistConfirm, PlaylistRest

LEMMA BaseStays ==
    ASSUME PlaylistBase, [PlaylistNext]_vars
    PROVE  PlaylistBase'
<1>0. QueueInv /\ TypeOK /\ PlaylistTypeOK /\ Named BY DEF PlaylistBase, QueueInv
<1>1. FlushMove BY <1>0, EveryFlushMove DEF PlaylistBase
<1>2. QueueInv' /\ OneClaimEach' /\ CurLeftBatch'
  BY <1>0, <1>1, QueueStays, BatchesKept DEF PlaylistBase
<1>3. CASE Elsewhere
  <2>1. HandsOff BY <1>0, <1>3, ElsewhereKeeps
  <2>2. PlaylistTypeOK' BY <1>0, <2>1 DEF HandsOff, PlaylistTypeOK, history
  <2>3. Named' BY <1>0, <1>1, <2>1, NamedKeeps DEF HandsOff, Present, history
  <2>4. QED BY <1>2, <2>2, <2>3 DEF PlaylistBase
<1>4. CASE Rests
  <2>1. UNCHANGED <<handler, remote, born, history>> BY <1>0, <1>4, RestsKeep
  <2>2. \A k \in Key : Present(k)' => Present(k) BY <1>0, <1>4, RowsOnlyLeave
  <2>3. PlaylistTypeOK' BY <1>0, <2>1 DEF PlaylistTypeOK, history
  <2>4. \A h \in Handlers : RequestGoesOn(h) BY <2>1 DEF RequestGoesOn
  <2>5. Named' BY <1>0, <1>1, <2>1, <2>2, <2>4, NamedKeeps DEF history
  <2>6. QED BY <1>2, <2>3, <2>5 DEF PlaylistBase
<1>5. ASSUME NEW h \in Handlers, DirectCreate(h) PROVE PlaylistBase'
  <2>1. handler[h].payload \in Body BY <1>0, <1>5 DEF DirectCreate, TypeOK, Request, NoRequest
  <2>2. PICK fresh : Create(fresh, handler[h].payload) BY <1>5 DEF DirectCreate
  <2>3. /\ remote' \in [Playlists -> SUBSET Body] /\ born' \subseteq Playlists
        /\ born \subseteq born'
    BY <1>0, <2>1, <2>2, Creates
  <2>4. PlaylistTypeOK' BY <1>0, <1>5, <2>3 DEF PlaylistTypeOK, DirectCreate, history
  <2>5. handler'[h] = NoRequest /\ \A g \in Handlers \ {h} : handler'[g] = handler[g]
    BY <1>0, <1>5 DEF DirectCreate, TypeOK
  <2>6. \A g \in Handlers : RequestGoesOn(g) BY <2>5 DEF RequestGoesOn
  <2>7. Named' BY <1>0, <1>1, <1>5, <2>3, <2>6, NamedKeeps DEF DirectCreate, history, Present
  <2>8. QED BY <1>2, <2>4, <2>7 DEF PlaylistBase
<1>6. ASSUME NEW h \in Handlers, Enqueued(h) PROVE PlaylistBase'
  <2>1. PICK k \in Key, b \in Body, id \in Ids :
            /\ Editing(k) => k.target \in born
            /\ \A l \in Key \ {k} : queue'[l] = queue[l]
            /\ asked' = Once(asked, k, b) /\ last' = [last EXCEPT ![k] = b]
            /\ UNCHANGED <<flush, faults, remote, born, sent>>
            /\ \A g \in Handlers : RequestGoesOn(g)
    BY <1>0, <1>6, EnqueuedRow
  <2>2. asked' \in Counts BY <1>0, <2>1, Counted DEF PlaylistTypeOK
  <2>3. last' \in [Key -> Body] /\ \A l \in Key \ {k} : last'[l] = last[l]
    BY <1>0, <2>1 DEF PlaylistTypeOK
  <2>4. PlaylistTypeOK' BY <1>0, <2>1, <2>2, <2>3 DEF PlaylistTypeOK
  <2>5. Named' BY <1>0, <1>1, <2>1, <2>3, NamedKeeps DEF Present
  <2>6. QED BY <1>2, <2>4, <2>5 DEF PlaylistBase
<1>7. ASSUME NEW f \in Flushers, NEW c \in flush[f].batch, PlaylistCall(f, c) PROVE PlaylistBase'
  <2>1. c \in Held(f) BY DEF Held
  <2>2. c \in Claim BY <1>0, <2>1, HeldType
  <2>3. c.key \in Key /\ c.payload \in Body BY <2>2 DEF Claim
  <2>4. UNCHANGED <<queue, handler, requests, asked, last, crossed>>
    BY <1>7 DEF PlaylistCall, CallOk, CallFails, CallBlocked, TakeNext
  <2>5. CASE Taken(f, c)
    <3>1. /\ remote' \in [Playlists -> SUBSET Body] /\ born' \subseteq Playlists
          /\ born \subseteq born'
      BY <1>0, <2>1, <2>2, <2>5, EffectOf DEF Taken
    <3>2. sent' \in Counts BY <1>0, <2>3, <2>5, Counted DEF Taken, PlaylistTypeOK
    <3>3. QED BY <1>0, <1>1, <1>2, <2>4, <3>1, <3>2, NamedKeeps
              DEF PlaylistBase, PlaylistTypeOK, RequestGoesOn, Present
  <2>6. CASE NotTaken
    BY <1>0, <1>1, <1>2, <2>4, <2>6, NamedKeeps
       DEF NotTaken, PlaylistBase, PlaylistTypeOK, RequestGoesOn, Present
  <2>7. QED BY <1>7, <2>5, <2>6 DEF PlaylistCall
<1>8. QED BY <1>3, <1>4, <1>5, <1>6, <1>7, StepKinds

-----------------------------------------------------------------------------
(* Repetitions: what the outbox still owes never outgrows the requests and *)
(* the failures.                                                           *)
Debt(f, k, b) == IF Owes(f, k, b) THEN 1 ELSE 0

LEMMA OneDebtMoves ==
    ASSUME NEW f \in Flushers, OthersSame(f), NEW k, NEW b
    PROVE  /\ Cardinality(Owing(k, b)) \in Nat /\ Cardinality(Owing(k, b))' \in Nat
           /\ Cardinality(Owing(k, b))' + Debt(f, k, b)
                 = Cardinality(Owing(k, b)) + Debt(f, k, b)'
<1> DEFINE others == {g \in Flushers \ {f} : Owes(g, k, b)}
<1>1. \A g \in Flushers \ {f} : Owes(g, k, b)' <=> Owes(g, k, b)
  BY DEF OthersSame, Same, Owes
<1>2. IsFiniteSet(others) BY PlaylistAssumption, FS_Subset
<1>3. f \notin others OBVIOUS
<1>4. /\ Cardinality(others) \in Nat /\ IsFiniteSet(others \cup {f})
      /\ Cardinality(others \cup {f}) = Cardinality(others) + 1
  BY <1>2, <1>3, FS_CardinalityType, FS_AddElement
<1>5. Owing(k, b) = IF Owes(f, k, b) THEN others \cup {f} ELSE others
  BY DEF Owing
<1>6. Owing(k, b)' = IF Owes(f, k, b)' THEN others \cup {f} ELSE others
  BY <1>1 DEF Owing
<1> HIDE DEF others
<1>7. Cardinality(Owing(k, b)) = Cardinality(others) + Debt(f, k, b)
  BY <1>4, <1>5 DEF Debt
<1>8. Cardinality(Owing(k, b))' = Cardinality(others) + Debt(f, k, b)'
  BY <1>4, <1>6 DEF Debt
<1>9. Debt(f, k, b) \in Nat /\ Debt(f, k, b)' \in Nat BY DEF Debt
<1>10. QED BY <1>4, <1>7, <1>8, <1>9

LEMMA Budget ==
    ASSUME PlaylistBase, PlaylistBase', NEW k \in Key, NEW b \in Body, Balanced(k, b),
           NEW f \in Flushers, OthersSame(f),
           sent'[k][b] + Debt(f, k, b)' + Waiting(k, b)' + asked[k][b] + faults
              <= sent[k][b] + Debt(f, k, b) + Waiting(k, b) + asked'[k][b] + faults'
    PROVE  Balanced(k, b)'
<1>1. /\ sent[k][b] \in Nat /\ sent'[k][b] \in Nat /\ asked[k][b] \in Nat /\ asked'[k][b] \in Nat
      /\ faults \in Nat /\ faults' \in Nat
  BY BoundsAssumption DEF PlaylistBase, QueueInv, TypeOK, PlaylistTypeOK, Counts
<1>2. /\ Debt(f, k, b) \in Nat /\ Debt(f, k, b)' \in Nat
      /\ Waiting(k, b) \in Nat /\ Waiting(k, b)' \in Nat
  BY DEF Debt, Waiting
<1>3. PICK m, n \in Nat :
          /\ m = Cardinality(Owing(k, b)) /\ n = Cardinality(Owing(k, b))'
          /\ n + Debt(f, k, b) = m + Debt(f, k, b)'
  BY OneDebtMoves
<1>4. sent[k][b] + m + Waiting(k, b) <= asked[k][b] + faults BY <1>3 DEF Balanced
<1>5. sent'[k][b] + n + Waiting(k, b)' <= asked'[k][b] + faults'
  BY <1>1, <1>2, <1>3, <1>4
<1>6. QED BY <1>3, <1>5 DEF Balanced

(* Nothing moves but the clock or the counters. *)
RowKeeps(k) ==
    /\ queue'[k].id = queue[k].id /\ queue'[k].locked = queue[k].locked
    /\ queue'[k].payload = queue[k].payload

LEMMA StillBalanced ==
    ASSUME PlaylistBase, PlaylistBase', NEW k \in Key, NEW b \in Body, Balanced(k, b),
           \A f \in Flushers : Same(f), RowKeeps(k),
           sent'[k][b] = sent[k][b], asked[k][b] <= asked'[k][b], faults <= faults'
    PROVE  Balanced(k, b)'
<1>1. /\ sent[k][b] \in Nat /\ asked[k][b] \in Nat /\ asked'[k][b] \in Nat
      /\ faults \in Nat /\ faults' \in Nat
  BY BoundsAssumption DEF PlaylistBase, QueueInv, TypeOK, PlaylistTypeOK, Counts
<1>2. Owing(k, b)' = Owing(k, b) BY DEF Owing, Owes, Same
<1>3. Covered(k)' <=> Covered(k) BY DEF Covered, Held, Same, RowKeeps
<1>4. Waiting(k, b)' = Waiting(k, b) BY <1>3 DEF Waiting, Present, RowKeeps
<1>5. Waiting(k, b) \in Nat BY DEF Waiting
<1>6. Cardinality(Owing(k, b)) \in Nat
  BY PlaylistAssumption, FS_Subset, FS_CardinalityType DEF Owing
<1>7. QED BY <1>1, <1>2, <1>4, <1>5, <1>6 DEF Balanced

(* A claim of rows turns what they hold from waiting into a debt. *)
LEMMA ClaimBalance ==
    ASSUME PlaylistBase, NEW f \in Flushers, ClaimBatch(f), NEW k \in Key, NEW b
    PROVE  OthersSame(f) /\ Debt(f, k, b)' + Waiting(k, b)' = Debt(f, k, b) + Waiting(k, b)
<1>0. TypeOK BY DEF PlaylistBase, QueueInv
<1>1. PICK ks \in SUBSET Key :
          /\ \A l \in ks : Claimable(l)
          /\ queue' = [l \in Key |-> IF l \in ks THEN Locked(queue[l]) ELSE queue[l]]
          /\ Claims(f, ks) /\ OthersSame(f)
  BY <1>0, ClaimClaims
<1>2. flush[f].batch = {} /\ flush[f].cur = {} /\ Held(f) = {}
  BY <1>1 DEF Claims, PlaylistBase, CurLeftBatch, Held
<1>3. ~Owes(f, k, b) BY <1>2 DEF Owes
<1>4. Held(f)' = {Snapshot(l) : l \in ks} /\ \A g \in Flushers \ {f} : Held(g)' = Held(g)
  BY <1>1 DEF Claims, OthersSame, Same, Held
<1>5. \A l \in ks : Snapshot(l).key = l /\ Snapshot(l).id = queue[l].id
                    /\ Snapshot(l).payload = queue[l].payload
  BY DEF Snapshot
<1>6. Owes(f, k, b)' <=> k \in ks /\ queue[k].payload = b
  BY <1>1, <1>5 DEF Claims, Owes
<1>7. CASE k \in ks
  <2>1. /\ queue'[k].id = queue[k].id /\ queue'[k].payload = queue[k].payload
        /\ queue'[k].locked /\ Claimable(k)
    BY <1>1, <1>7 DEF Locked
  <2>2. ~Covered(k)
    <3>1. SUFFICES ASSUME queue[k].locked, NEW g \in Flushers, NEW c \in Held(g),
                          c.key = k, c.id = queue[k].id
                   PROVE  FALSE
      BY DEF Covered
    <3>2. queue[k].age <= flush[g].age BY <3>1 DEF PlaylistBase, QueueInv, LocksYoung
    <3>3. queue[k].age = LockTimeout BY <2>1, <3>1 DEF Claimable
    <3>4. flush[g].age \in 0..WorkTimeout BY <1>0 DEF TypeOK, Flush
    <3>5. QED BY <3>2, <3>3, <3>4, TimingAssumption
  <2>3. Covered(k)' BY <1>4, <1>5, <1>7, <2>1 DEF Covered
  <2>4. Present(k) BY <2>1 DEF Claimable
  <2>5. Waiting(k, b) = (IF queue[k].payload = b THEN 1 ELSE 0) /\ Waiting(k, b)' = 0
    BY <2>2, <2>3, <2>4 DEF Waiting
  <2>6. QED BY <1>1, <1>3, <1>6, <1>7, <2>5 DEF Debt
<1>8. CASE k \notin ks
  <2>1. queue'[k] = queue[k] BY <1>1, <1>8
  <2>2. \A c \in Held(f)' : c.key # k BY <1>4, <1>5, <1>8
  <2>3. Covered(k)' <=> Covered(k) BY <1>2, <1>4, <2>1, <2>2 DEF Covered
  <2>4. Waiting(k, b)' = Waiting(k, b) BY <2>1, <2>3 DEF Waiting, Present
  <2>5. QED BY <1>1, <1>3, <1>6, <1>8, <2>4 DEF Debt, Waiting
<1>9. QED BY <1>7, <1>8

(* The flush is through with a row: it deletes or unlocks what has its id. *)
LEMMA FreeBalance ==
    ASSUME PlaylistBase, NEW f \in Flushers, Frees(f), OthersSame(f), NEW k \in Key, NEW b,
           NEW c \in flush[f].cur,
           queue[k].id # c.id => queue'[k] = queue[k],
           \/ flush[f].pc = "delete" /\ (queue[k].id = c.id => queue'[k] = NoRow)
           \/ flush[f].pc \in {"fail", "blocked"}
    PROVE  Debt(f, k, b)' + Waiting(k, b)' <= Debt(f, k, b) + Waiting(k, b)
<1>1. c \in Held(f) BY DEF Held
<1>2. \A d \in flush[f].cur : d = c BY DEF PlaylistBase, CurLeftBatch
<1>3. c \notin flush[f].batch BY DEF PlaylistBase, CurLeftBatch
<1>4. Owes(f, k, b)' <=> \E d \in flush[f].batch : d.key = k /\ d.payload = b
  BY DEF Frees, Owes
<1>5. Debt(f, k, b)' <= Debt(f, k, b) /\ Debt(f, k, b) \in {0, 1} /\ Debt(f, k, b)' \in {0, 1}
  BY <1>4 DEF Debt, Owes
<1>6. Waiting(k, b) \in {0, 1} /\ Waiting(k, b)' \in {0, 1} BY DEF Waiting
<1>7. CASE queue[k].id # c.id
  <2>1. Held(f)' = flush[f].batch /\ \A g \in Flushers \ {f} : Held(g)' = Held(g)
    BY DEF Frees, OthersSame, Same, Held
  <2>2. Held(f) = flush[f].batch \cup {c} BY <1>2 DEF Held
  <2>3. Covered(k)' <=> Covered(k) BY <1>7, <2>1, <2>2 DEF Covered
  <2>4. Waiting(k, b)' = Waiting(k, b) BY <1>7, <2>3 DEF Waiting, Present
  <2>5. QED BY <1>5, <1>6, <2>4
<1>8. CASE queue[k].id = c.id
  <2>1. k = c.key BY <1>1, <1>8 DEF PlaylistBase, QueueInv, ClaimNamesRow
  <2>2. \A d \in flush[f].batch : d.key # k
    BY <1>1, <1>3, <2>1 DEF PlaylistBase, OneClaimEach, Held
  <2>3. Debt(f, k, b)' = 0 BY <1>4, <2>2 DEF Debt
  <2>4. CASE flush[f].pc \in {"fail", "blocked"}
    <3>1. Debt(f, k, b) = 1 BY <2>1, <2>4 DEF Debt, Owes
    <3>2. QED BY <1>6, <2>3, <3>1
  <2>5. CASE queue'[k] = NoRow
    <3>1. Waiting(k, b)' = 0 BY <2>5 DEF Waiting, Present, NoRow
    <3>2. QED BY <1>5, <1>6, <2>3, <3>1
  <2>6. QED BY <1>8, <2>4, <2>5
<1>9. QED BY <1>7, <1>8

(* The end of a row, told by its row. *)
LEMMA RowsFreed ==
    ASSUME PlaylistBase, NEW f \in Flushers, DeleteDone(f) \/ RecordBlocked(f) \/ RecordFailure(f)
    PROVE  /\ Frees(f) /\ OthersSame(f)
           /\ \E c \in flush[f].cur :
                 /\ \A k \in Key : queue[k].id # c.id => queue'[k] = queue[k]
                 /\ \/ /\ flush[f].pc = "delete"
                       /\ \A k \in Key : queue[k].id = c.id => queue'[k] = NoRow
                    \/ /\ flush[f].pc \in {"fail", "blocked"}
                       /\ \A k \in Key : queue[k].id = c.id =>
                             queue'[k] = NoRow \/ queue'[k].payload = queue[k].payload
<1>0. TypeOK BY DEF PlaylistBase, QueueInv
<1>1. Frees(f) /\ OthersSame(f)
  BY <1>0, AdvanceFrees DEF DeleteDone, RecordBlocked, RecordFailure
<1>2. CASE DeleteDone(f)
  <2>1. PICK c \in flush[f].cur :
            queue' = [k \in Key |-> IF queue[k].id = c.id THEN NoRow ELSE queue[k]]
    BY <1>2 DEF DeleteDone
  <2>2. \A k \in Key : /\ queue[k].id # c.id => queue'[k] = queue[k]
                       /\ queue[k].id = c.id => queue'[k] = NoRow
    BY <2>1
  <2>3. QED BY <1>1, <1>2, <2>2 DEF DeleteDone
<1>3. CASE RecordBlocked(f)
  <2>1. PICK c \in flush[f].cur :
            queue' = [k \in Key |-> IF queue[k].id = c.id THEN Unlocked(queue[k], 0) ELSE queue[k]]
    BY <1>3 DEF RecordBlocked
  <2>2. \A k \in Key : /\ queue[k].id # c.id => queue'[k] = queue[k]
                       /\ queue[k].id = c.id => queue'[k].payload = queue[k].payload
    BY <2>1 DEF Unlocked
  <2>3. QED BY <1>1, <1>3, <2>2 DEF RecordBlocked
<1>4. CASE RecordFailure(f)
  <2>1. PICK c \in flush[f].cur :
            queue' = [k \in Key |-> IF queue[k].id = c.id THEN AfterFailure(queue[k], c) ELSE queue[k]]
    BY <1>4 DEF RecordFailure
  <2>2. \A k \in Key : /\ queue[k].id # c.id => queue'[k] = queue[k]
                       /\ queue[k].id = c.id =>
                             queue'[k] = NoRow \/ queue'[k].payload = queue[k].payload
    BY <2>1 DEF AfterFailure, Unlocked
  <2>3. QED BY <1>1, <1>4, <2>2 DEF RecordFailure
<1>5. QED BY <1>2, <1>3, <1>4

LEMMA RestBalance ==
    ASSUME PlaylistBase, PlaylistBase', Rests, NEW k \in Key, NEW b \in Body, Balanced(k, b)
    PROVE  Balanced(k, b)'
<1>0. TypeOK /\ faults \in Nat BY BoundsAssumption DEF PlaylistBase, QueueInv, TypeOK
<1>1. UNCHANGED <<sent, asked>> BY <1>0, RestsKeep DEF history
<1>2. sent[k][b] \in Nat /\ asked[k][b] \in Nat BY DEF PlaylistBase, PlaylistTypeOK, Counts
<1>3. \A f \in Flushers : /\ Debt(f, k, b) \in {0, 1} /\ Debt(f, k, b)' \in {0, 1}
                          /\ Waiting(k, b) \in {0, 1} /\ Waiting(k, b)' \in {0, 1}
  BY DEF Debt, Waiting
<1>4. ASSUME NEW f \in Flushers, OthersSame(f),
             \/ Debt(f, k, b)' + Waiting(k, b)' <= Debt(f, k, b) + Waiting(k, b) /\ faults' = faults
             \/ Debt(f, k, b)' + Waiting(k, b)' <= Debt(f, k, b) + Waiting(k, b) + 1
                  /\ faults' = faults + 1
      PROVE  Balanced(k, b)'
  <2>1. sent'[k][b] + Debt(f, k, b)' + Waiting(k, b)' + asked[k][b] + faults
           <= sent[k][b] + Debt(f, k, b) + Waiting(k, b) + asked'[k][b] + faults'
    BY <1>0, <1>1, <1>2, <1>3, <1>4
  <2>2. QED BY <1>4, <2>1, Budget
<1>5. ASSUME NEW f \in Flushers, ClaimBatch(f) PROVE Balanced(k, b)'
  <2>1. OthersSame(f) /\ Debt(f, k, b)' + Waiting(k, b)' = Debt(f, k, b) + Waiting(k, b)
    BY <1>5, ClaimBalance
  <2>2. QED BY <1>3, <1>4, <1>5, <2>1 DEF ClaimBatch
<1>6. ASSUME NEW f \in Flushers, DeleteDone(f) \/ RecordBlocked(f) \/ RecordFailure(f)
      PROVE  Balanced(k, b)'
  <2>1. PICK c \in flush[f].cur :
            /\ Frees(f) /\ OthersSame(f)
            /\ queue[k].id # c.id => queue'[k] = queue[k]
            /\ \/ flush[f].pc = "delete" /\ (queue[k].id = c.id => queue'[k] = NoRow)
               \/ flush[f].pc \in {"fail", "blocked"}
    BY <1>6, RowsFreed
  <2>2. Debt(f, k, b)' + Waiting(k, b)' <= Debt(f, k, b) + Waiting(k, b) BY <2>1, FreeBalance
  <2>3. QED BY <1>4, <1>6, <2>1, <2>2 DEF DeleteDone, RecordBlocked, RecordFailure
<1>7. ASSUME NEW f \in Flushers, Confirm(f) \/ ConfirmFails(f) PROVE Balanced(k, b)'
  <2>1. /\ OthersSame(f) /\ UNCHANGED queue
        /\ \/ Turns(f, "delete") /\ faults' = faults
           \/ Turns(f, "fail") /\ faults' = faults + 1
    <3>1. CASE Confirm(f)
      <4>1. Turns(f, "delete") /\ OthersSame(f) BY <1>0, <3>1, TurnTurns DEF Confirm
      <4>2. QED BY <3>1, <4>1 DEF Confirm
    <3>2. CASE ConfirmFails(f)
      <4>1. Turns(f, "fail") /\ OthersSame(f) BY <1>0, <3>2, TurnTurns DEF ConfirmFails
      <4>2. QED BY <3>2, <4>1 DEF ConfirmFails, Fault
    <3>3. QED BY <1>7, <3>1, <3>2
  <2>2. \A g \in Flushers : Held(g)' = Held(g) BY <2>1 DEF Turns, OthersSame, Same, Held
  <2>3. Waiting(k, b)' = Waiting(k, b) BY <2>1, <2>2 DEF Waiting, Present, Covered
  <2>4. ASSUME Turns(f, "delete") PROVE Debt(f, k, b)' = Debt(f, k, b)
    <3>1. Owes(f, k, b)' <=> Owes(f, k, b) BY <2>4 DEF Turns, Owes
    <3>2. QED BY <3>1 DEF Debt
  <2>5. QED BY <1>3, <1>4, <2>1, <2>3, <2>4
<1>8. ASSUME NEW f \in Flushers, Drop(f) PROVE Balanced(k, b)'
  <2>1. Drops(f) /\ OthersSame(f) BY <1>0, <1>8, DropDrops
  <2>2. ~Owes(f, k, b)' BY <2>1 DEF Drops, Owes
  <2>3. Debt(f, k, b)' = 0 /\ faults' = faults + 1 BY <1>8, <2>2 DEF Debt, Drop, Fault
  <2>4. QED BY <1>3, <1>4, <2>1, <2>3
<1>9. CASE Tick BY <1>0, <1>1, <1>2, <1>9, TickSame, StillBalanced
                DEF PlaylistBase, RowKeeps, Tick
<1>10. QED BY <1>5, <1>6, <1>7, <1>8, <1>9 DEF Rests, PlaylistConfirm, PlaylistRest

(* A call: what SoundCloud takes was owed, and what fails is a failure. *)
LEMMA CallBalance ==
    ASSUME PlaylistBase, PlaylistBase', NEW f \in Flushers, NEW c \in flush[f].batch,
           PlaylistCall(f, c), NEW k \in Key, NEW b \in Body,
           k.kind # "playlist_delete", ~Gone(k), Balanced(k, b)
    PROVE  Balanced(k, b)'
<1>0. TypeOK /\ faults \in Nat BY BoundsAssumption DEF PlaylistBase, QueueInv, TypeOK
<1>1. PICK pc \in {"confirm", "fail", "blocked"} : TakeNext(f, c, pc)
  BY DEF PlaylistCall, CallOk, CallFails, CallBlocked
<1>2. Takes(f, c, pc) /\ OthersSame(f) /\ UNCHANGED queue BY <1>0, <1>1, TakeTakes
<1>3. UNCHANGED asked BY DEF PlaylistCall
<1>4. c \in Held(f) /\ flush[f].cur = {} BY <1>2 DEF Held, Takes, PlaylistBase, CurLeftBatch
<1>5. c \in Claim /\ c.key \in Key /\ c.payload \in Body BY <1>0, <1>4, HeldType DEF Claim
<1>6. \A g \in Flushers : Held(g)' = Held(g) BY <1>2, <1>4 DEF Takes, OthersSame, Same, Held
<1>7. Waiting(k, b)' = Waiting(k, b) /\ Waiting(k, b) \in Nat
  BY <1>2, <1>6 DEF Waiting, Present, Covered
<1>8. /\ sent[k][b] \in Nat /\ sent'[k][b] \in Nat /\ asked[k][b] \in Nat
      /\ Debt(f, k, b) \in {0, 1} /\ Debt(f, k, b)' \in {0, 1}
  BY DEF PlaylistBase, PlaylistTypeOK, Counts, Debt
<1>9. SUFFICES sent'[k][b] + Debt(f, k, b)' + faults <= sent[k][b] + Debt(f, k, b) + faults'
  <2>1. sent'[k][b] + Debt(f, k, b)' + Waiting(k, b)' + asked[k][b] + faults
           <= sent[k][b] + Debt(f, k, b) + Waiting(k, b) + asked'[k][b] + faults'
    BY <1>0, <1>3, <1>7, <1>8, <1>9 DEF PlaylistCall, CallOk, CallFails, CallBlocked, Fault
  <2>2. QED BY <1>2, <2>1, Budget
<1>10. \/ sent'[k][b] = sent[k][b]
       \/ sent'[k][b] = sent[k][b] + (IF k = c.key /\ b = c.payload THEN 1 ELSE 0)
  <2>1. CASE NotTaken BY <2>1 DEF NotTaken
  <2>2. CASE Taken(f, c)
    <3>1. sent \in Counts /\ sent' = Once(sent, c.key, c.payload)
      BY <2>2 DEF Taken, PlaylistBase, PlaylistTypeOK
    <3>2. QED BY <1>5, <3>1, Counted
  <2>3. QED BY <2>1, <2>2 DEF PlaylistCall
<1>11. CASE k # c.key
  <2>1. Owes(f, k, b)' <=> Owes(f, k, b) BY <1>2, <1>4, <1>11 DEF Takes, Owes
  <2>2. Debt(f, k, b)' = Debt(f, k, b) /\ sent'[k][b] = sent[k][b]
    BY <1>8, <1>10, <1>11, <2>1 DEF Debt
  <2>3. faults' = faults \/ faults' = faults + 1
    BY DEF PlaylistCall, CallOk, CallFails, CallBlocked, Fault
  <2>4. QED BY <1>0, <1>8, <2>2, <2>3
<1>12. CASE k = c.key
  <2>1. \A d \in flush[f].batch : d.key = k => d = c
    BY <1>4, <1>12 DEF PlaylistBase, OneClaimEach, Held
  <2>2. Debt(f, k, b) = (IF c.payload = b THEN 1 ELSE 0)
    BY <1>2, <1>4, <1>12, <2>1 DEF Debt, Owes, Takes
  <2>3. sent'[k][b] <= sent[k][b] + Debt(f, k, b) BY <1>8, <1>10, <2>2
  <2>4. CASE CallOk(f, c)
    <3>1. flush'[f].pc = "confirm" /\ flush'[f].batch = flush[f].batch \ {c}
      BY <1>0, <2>4, TakeTakes DEF CallOk, Takes
    <3>2. ~Owes(f, k, b)' BY <2>1, <3>1 DEF Owes
    <3>3. Debt(f, k, b)' = 0 /\ faults' = faults BY <2>4, <3>2 DEF Debt, CallOk
    <3>4. QED BY <1>0, <1>8, <2>3, <3>3
  <2>5. CASE CallFails(f, c) \/ CallBlocked(f, c)
    <3>1. faults' = faults + 1 BY <2>5 DEF CallFails, CallBlocked, Fault
    <3>2. QED BY <1>0, <1>8, <2>3, <3>1
  <2>6. CASE Missing(c.key)
    <3>1. k.kind = "playlist_update" BY <1>12, <2>6 DEF Missing
    <3>2. k.target \in born BY <1>4, <1>12, <3>1 DEF PlaylistBase, Named, Editing
    <3>3. QED BY <1>12, <2>6, <3>1, <3>2 DEF Missing, Gone, Editing
  <2>7. QED BY <2>4, <2>5, <2>6 DEF PlaylistCall
<1>13. QED BY <1>11, <1>12

(* A request pays for the payload it leaves in its row. *)
LEMMA EnqueueBalance ==
    ASSUME PlaylistBase, PlaylistBase', NEW h \in Handlers, Enqueued(h),
           NEW k \in Key, NEW b \in Body, k.kind # "playlist_delete", Balanced(k, b)
    PROVE  Balanced(k, b)'
<1>0. TypeOK /\ Named /\ faults \in Nat
  BY BoundsAssumption DEF PlaylistBase, QueueInv, TypeOK
<1>1. PICK l \in Key, d \in Body, id \in Ids :
          /\ d \in BodiesOf(l.kind)
          /\ queue'[l] = Upserted(queue[l], id, d)
          /\ \A m \in Key \ {l} : queue'[m] = queue[m]
          /\ asked' = Once(asked, l, d)
          /\ UNCHANGED <<flush, faults, sent>>
  BY <1>0, EnqueuedRow
<1>2. asked'[k][b] = asked[k][b] + (IF k = l /\ b = d THEN 1 ELSE 0)
  <2>1. asked \in Counts BY DEF PlaylistBase, PlaylistTypeOK
  <2>2. QED BY <1>1, <2>1, Counted
<1>3. asked[k][b] \in Nat /\ sent[k][b] \in Nat BY DEF PlaylistBase, PlaylistTypeOK, Counts
<1>4. \A f \in Flushers : Same(f) BY <1>1 DEF Same
<1>5. CASE k # l
  <2>1. asked'[k][b] = asked[k][b] /\ RowKeeps(k) BY <1>1, <1>2, <1>3, <1>5 DEF RowKeeps
  <2>2. QED BY <1>0, <1>1, <1>3, <1>4, <2>1, StillBalanced
<1>6. CASE k = l
  <2>1. d # NoPayload
    BY <1>1, <1>6, PlaylistAssumption, ActionAssumption DEF BodiesOf, Key
  <2>2. queue'[k].payload = d /\ ~queue'[k].locked BY <1>1, <1>6, <2>1 DEF Upserted
  <2>3. Waiting(k, b)' <= (IF b = d THEN 1 ELSE 0) BY <2>2 DEF Waiting
  <2>4. Owing(k, b)' = Owing(k, b) BY <1>1 DEF Owing, Owes
  <2>5. Cardinality(Owing(k, b)) \in Nat
    BY PlaylistAssumption, FS_Subset, FS_CardinalityType DEF Owing
  <2>6. Waiting(k, b) \in Nat /\ Waiting(k, b)' \in Nat BY DEF Waiting
  <2>7. QED BY <1>0, <1>1, <1>2, <1>3, <1>6, <2>3, <2>4, <2>5, <2>6 DEF Balanced
<1>7. QED BY <1>5, <1>6

(* The counters only grow. *)
LEMMA CountersGrow ==
    ASSUME PlaylistBase, [PlaylistNext]_vars, NEW k \in Key, NEW b \in Body
    PROVE  faults <= faults' /\ asked[k][b] <= asked'[k][b]
<1>0. /\ TypeOK /\ Named /\ faults \in Nat /\ asked \in Counts /\ asked[k][b] \in Nat
  BY BoundsAssumption DEF PlaylistBase, QueueInv, TypeOK, PlaylistTypeOK, Counts
<1>1. CASE Elsewhere BY <1>0, <1>1, ElsewhereKeeps DEF HandsOff, history
<1>2. CASE Rests BY <1>0, <1>2, RestsKeep DEF history
<1>3. ASSUME NEW h \in Handlers, DirectCreate(h) PROVE faults <= faults' /\ asked[k][b] <= asked'[k][b]
  BY <1>0, <1>3 DEF DirectCreate, history
<1>4. ASSUME NEW h \in Handlers, Enqueued(h) PROVE faults <= faults' /\ asked[k][b] <= asked'[k][b]
  <2>1. PICK l \in Key, d \in Body : asked' = Once(asked, l, d) /\ UNCHANGED faults
    BY <1>0, <1>4, EnqueuedRow
  <2>2. asked'[k][b] = asked[k][b] + (IF k = l /\ b = d THEN 1 ELSE 0)
    BY <1>0, <2>1, Counted
  <2>3. QED BY <1>0, <2>1, <2>2
<1>5. ASSUME NEW f \in Flushers, NEW c \in flush[f].batch, PlaylistCall(f, c)
      PROVE  faults <= faults' /\ asked[k][b] <= asked'[k][b]
  BY <1>0, <1>5 DEF PlaylistCall, CallOk, CallFails, CallBlocked, Fault
<1>6. QED BY <1>1, <1>2, <1>3, <1>4, <1>5, StepKinds

(* Nothing brings back a playlist that is gone, or takes an edit of it. *)
LEMMA GoneStays ==
    ASSUME PlaylistBase, [PlaylistNext]_vars, NEW k \in Key, NEW b \in Body,
           k.kind # "playlist_delete", Gone(k)
    PROVE  Gone(k)' /\ sent'[k][b] = sent[k][b]
<1>0. TypeOK /\ Named /\ PlaylistTypeOK BY DEF PlaylistBase, QueueInv
<1>1. k.kind = "playlist_update" /\ k.target \in born /\ remote[k.target] = {}
  BY DEF Gone, Editing
<1>2. SUFFICES k.target \in born' /\ remote'[k.target] = {} /\ sent'[k][b] = sent[k][b]
  BY <1>1, <1>2 DEF Gone, Editing
<1>3. CASE Elsewhere BY <1>0, <1>1, <1>3, ElsewhereKeeps DEF HandsOff, history
<1>4. CASE Rests BY <1>0, <1>1, <1>4, RestsKeep DEF history
<1>5. ASSUME NEW h \in Handlers, DirectCreate(h)
      PROVE  k.target \in born' /\ remote'[k.target] = {} /\ sent'[k][b] = sent[k][b]
  <2>1. handler[h].payload \in Body BY <1>0, <1>5 DEF DirectCreate, TypeOK, Request, NoRequest
  <2>2. PICK fresh : Create(fresh, handler[h].payload) BY <1>5 DEF DirectCreate
  <2>3. born \subseteq born' /\ \A p \in born : remote'[p] = remote[p] BY <1>0, <2>1, <2>2, Creates
  <2>4. QED BY <1>1, <1>5, <2>3 DEF DirectCreate, history
<1>6. ASSUME NEW h \in Handlers, Enqueued(h)
      PROVE  k.target \in born' /\ remote'[k.target] = {} /\ sent'[k][b] = sent[k][b]
  BY <1>1, <1>6 DEF Enqueued
<1>7. ASSUME NEW f \in Flushers, NEW c \in flush[f].batch, PlaylistCall(f, c)
      PROVE  k.target \in born' /\ remote'[k.target] = {} /\ sent'[k][b] = sent[k][b]
  <2>1. c \in Held(f) BY DEF Held
  <2>2. c \in Claim /\ c.key \in Key /\ c.payload \in Body BY <1>0, <2>1, HeldType DEF Claim
  <2>3. CASE Taken(f, c)
    <3>1. ~(c.key.kind = "playlist_update" /\ c.key.target = k.target)
      BY <1>1, <2>3 DEF Taken, Missing
    <3>2. c.key # k BY <1>1, <3>1
    <3>3. sent'[k][b] = sent[k][b]
      <4>1. sent \in Counts /\ sent' = Once(sent, c.key, c.payload) /\ sent[k][b] \in Nat
        BY <1>0, <2>3 DEF Taken, PlaylistTypeOK, Counts
      <4>2. sent'[k][b] = sent[k][b] + (IF k = c.key /\ b = c.payload THEN 1 ELSE 0)
        BY <2>2, <4>1, Counted
      <4>3. QED BY <3>2, <4>1, <4>2
    <3>4. /\ born \subseteq born'
          /\ \A p \in born :
                \/ remote'[p] = remote[p]
                \/ c.key.kind = "playlist_update" /\ p = c.key.target
                \/ c.key.kind = "playlist_delete" /\ remote'[p] = {}
      BY <1>0, <2>1, <2>2, <2>3, EffectOf DEF Taken
    <3>5. QED BY <1>1, <3>1, <3>3, <3>4
  <2>4. CASE NotTaken BY <1>1, <2>4 DEF NotTaken
  <2>5. QED BY <1>7, <2>3, <2>4 DEF PlaylistCall
<1>8. QED BY <1>3, <1>4, <1>5, <1>6, <1>7, StepKinds

LEMMA BalanceStays ==
    ASSUME PlaylistBase, PlaylistBase', [PlaylistNext]_vars, NEW k \in Key, NEW b \in Body,
           k.kind # "playlist_delete", ~Gone(k), Balanced(k, b)
    PROVE  Balanced(k, b)'
<1>0. TypeOK /\ Named BY DEF PlaylistBase, QueueInv
<1>1. faults <= faults' /\ asked[k][b] <= asked'[k][b] BY CountersGrow
<1>2. CASE Elsewhere
  <2>1. UNCHANGED <<queue, flush, sent>> BY <1>0, <1>2, ElsewhereKeeps DEF HandsOff, history
  <2>2. RowKeeps(k) /\ \A f \in Flushers : Same(f) BY <2>1 DEF Same, RowKeeps
  <2>3. QED BY <1>1, <2>1, <2>2, StillBalanced
<1>3. CASE Rests BY <1>3, RestBalance
<1>4. ASSUME NEW h \in Handlers, DirectCreate(h) PROVE Balanced(k, b)'
  <2>1. UNCHANGED <<queue, flush, sent>> BY <1>4 DEF DirectCreate, history
  <2>2. RowKeeps(k) /\ \A f \in Flushers : Same(f) BY <2>1 DEF Same, RowKeeps
  <2>3. QED BY <1>1, <2>1, <2>2, StillBalanced
<1>5. ASSUME NEW h \in Handlers, Enqueued(h) PROVE Balanced(k, b)' BY <1>5, EnqueueBalance
<1>6. ASSUME NEW f \in Flushers, NEW c \in flush[f].batch, PlaylistCall(f, c) PROVE Balanced(k, b)'
  BY <1>6, CallBalance
<1>7. QED BY <1>2, <1>3, <1>4, <1>5, <1>6, StepKinds

LEMMA RepeatStays ==
    ASSUME PlaylistBase, PlaylistBase', RepeatInv, [PlaylistNext]_vars
    PROVE  RepeatInv'
<1>1. ASSUME NEW k \in Key, NEW b \in Body, k.kind # "playlist_delete"
      PROVE  sent'[k][b] <= asked'[k][b] + faults' /\ (Gone(k)' \/ Balanced(k, b)')
  <2>1. /\ sent[k][b] \in Nat /\ sent'[k][b] \in Nat /\ asked[k][b] \in Nat
        /\ asked'[k][b] \in Nat /\ faults \in Nat /\ faults' \in Nat
    BY BoundsAssumption DEF PlaylistBase, QueueInv, TypeOK, PlaylistTypeOK, Counts
  <2>2. faults <= faults' /\ asked[k][b] <= asked'[k][b] BY CountersGrow
  <2>3. sent[k][b] <= asked[k][b] + faults /\ (Gone(k) \/ Balanced(k, b)) BY <1>1 DEF RepeatInv
  <2>4. CASE Gone(k)
    <3>1. Gone(k)' /\ sent'[k][b] = sent[k][b] BY <1>1, <2>4, GoneStays
    <3>2. QED BY <2>1, <2>2, <2>3, <3>1
  <2>5. CASE ~Gone(k)
    <3>1. Balanced(k, b)' BY <1>1, <2>3, <2>5, BalanceStays
    <3>2. Cardinality(Owing(k, b))' \in Nat
      BY PlaylistAssumption, FS_Subset, FS_CardinalityType DEF Owing
    <3>3. Waiting(k, b)' \in Nat BY DEF Waiting
    <3>4. sent'[k][b] <= asked'[k][b] + faults' BY <2>1, <3>1, <3>2, <3>3 DEF Balanced
    <3>5. QED BY <3>1, <3>4
  <2>6. QED BY <2>4, <2>5
<1>2. QED BY <1>1 DEF RepeatInv

LEMMA InitRepeat == PlaylistInit => RepeatInv
<1> SUFFICES ASSUME PlaylistInit PROVE RepeatInv OBVIOUS
<1>1. SUFFICES ASSUME NEW k \in Key, NEW b \in Body
               PROVE  sent[k][b] <= asked[k][b] + faults /\ Balanced(k, b)
  BY DEF RepeatInv
<1>2. sent[k][b] = 0 /\ asked[k][b] = 0 /\ faults = 0 BY DEF PlaylistInit, Init
<1>3. Owing(k, b) = {} BY DEF PlaylistInit, Init, Idle, Owing, Owes
<1>4. ~Present(k) BY DEF PlaylistInit, Init, NoRow, Present
<1>5. QED BY <1>2, <1>3, <1>4, FS_EmptySet DEF Balanced, Waiting

(* A comment or a creation, which SoundCloud takes as often as it comes,   *)
(* reaches it no more often than users asked for it and something failed.  *)
THEOREM RepeatsAreFaults == PlaylistSpec => []RepeatsNeedFaults
<1>1. PlaylistInit => PlaylistBase /\ RepeatInv BY InitBase, InitRepeat
<1>2. PlaylistBase /\ RepeatInv /\ [PlaylistNext]_vars => PlaylistBase' /\ RepeatInv'
  BY BaseStays, RepeatStays
<1>3. RepeatInv => RepeatsNeedFaults BY DEF RepeatInv, RepeatsNeedFaults
<1>4. QED BY <1>1, <1>2, <1>3, PTL DEF PlaylistSpec

-----------------------------------------------------------------------------
(* The last edit: while nothing fails, whatever an edit is in is the last. *)
SameOrGone(t) == remote'[t] = remote[t] \/ remote'[t] = {}

(* Of a playlist that never was there is nothing to say. *)
LEMMA NeverBorn ==
    ASSUME Named, NEW k \in Key, k.kind = "playlist_update", k.target \notin born,
           last'[k] = last[k], RowKeeps(k), \A f \in Flushers : Held(f)' = Held(f)
    PROVE  Sound(k)'
<1>1. last'[k] = NoPayload /\ ~Present(k)' BY DEF Named, Editing, RowKeeps, Present
<1>2. ASSUME NEW f \in Flushers, NEW c \in Held(f)', c.key = k PROVE FALSE
  BY <1>2 DEF Named, Editing
<1>3. \A f \in Flushers : HeldSound(f, k)' BY <1>2 DEF HeldSound, Held
<1>4. QED BY <1>1, <1>3 DEF Sound

LEMMA SoundSame ==
    ASSUME NEW k \in Key, Sound(k), last'[k] = last[k], RowKeeps(k),
           \A f \in Flushers : Same(f), SameOrGone(k.target)
    PROVE  Sound(k)'
<1>1. ASSUME NEW f \in Flushers PROVE HeldSound(f, k)'
  <2>1. Held(f)' = Held(f) /\ HeldSound(f, k) /\ Same(f) BY DEF Same, Held, Sound
  <2>2. QED BY <2>1 DEF HeldSound, Same, SameOrGone
<1>2. QED BY <1>1 DEF Sound, RowKeeps, Present, SameOrGone

LEMMA CrossedGrows ==
    ASSUME PlaylistBase, [PlaylistNext]_vars
    PROVE  crossed \subseteq crossed'
<1>0. TypeOK /\ Named BY DEF PlaylistBase, QueueInv
<1>1. CASE Elsewhere BY <1>0, <1>1, ElsewhereKeeps DEF HandsOff, history
<1>2. CASE Rests BY <1>0, <1>2, RestsKeep DEF history
<1>3. ASSUME NEW h \in Handlers, DirectCreate(h) PROVE crossed \subseteq crossed'
  BY <1>3 DEF DirectCreate, history
<1>4. ASSUME NEW h \in Handlers, Enqueued(h) PROVE crossed \subseteq crossed'
  BY <1>0, <1>4, EnqueuedRow
<1>5. ASSUME NEW f \in Flushers, NEW c \in flush[f].batch, PlaylistCall(f, c)
      PROVE  crossed \subseteq crossed'
  BY <1>5 DEF PlaylistCall
<1>6. QED BY <1>1, <1>2, <1>3, <1>4, <1>5, StepKinds

LEMMA EnqueueSound ==
    ASSUME PlaylistBase, NEW h \in Handlers, Enqueued(h),
           NEW k \in Key, k.kind = "playlist_update", k \notin crossed', Sound(k)
    PROVE  Sound(k)'
<1>0. TypeOK /\ Named /\ PlaylistTypeOK BY DEF PlaylistBase, QueueInv
<1>1. PICK l \in Key, d \in Body, id \in Ids :
          /\ d \in BodiesOf(l.kind)
          /\ queue'[l] = Upserted(queue[l], id, d)
          /\ \A m \in Key \ {l} : queue'[m] = queue[m]
          /\ last' = [last EXCEPT ![l] = d]
          /\ l \in crossed' \/ ~InHand(l)
          /\ UNCHANGED <<flush, remote>>
  BY <1>0, EnqueuedRow
<1>2. last'[l] = d /\ \A m \in Key \ {l} : last'[m] = last[m] BY <1>0, <1>1 DEF PlaylistTypeOK
<1>3. CASE k # l
  <2>1. RowKeeps(k) /\ last'[k] = last[k] BY <1>1, <1>2, <1>3 DEF RowKeeps
  <2>2. \A f \in Flushers : Same(f) BY <1>1 DEF Same
  <2>3. SameOrGone(k.target) BY <1>1 DEF SameOrGone
  <2>4. QED BY <2>1, <2>2, <2>3, SoundSame
<1>4. CASE k = l
  <2>1. d # NoPayload BY <1>1, <1>4, ActionAssumption DEF BodiesOf, WithPayload
  <2>2. queue'[k].payload = d /\ queue'[k].id # NoId
    BY <1>1, <1>4, <2>1, ActionAssumption DEF Upserted
  <2>3. \A f \in Flushers : \A c \in Held(f) : c.key # k BY <1>1, <1>4 DEF InHand
  <2>4. \A f \in Flushers : Held(f)' = Held(f) BY <1>1 DEF Held
  <2>5. \A f \in Flushers : HeldSound(f, k)' BY <2>3, <2>4 DEF HeldSound, Held
  <2>6. QED BY <1>2, <1>4, <2>1, <2>2, <2>5 DEF Sound, Present
<1>5. QED BY <1>3, <1>4

LEMMA CallSound ==
    ASSUME PlaylistBase, faults' = 0,
           NEW f \in Flushers, NEW c \in flush[f].batch, PlaylistCall(f, c),
           NEW k \in Key, k.kind = "playlist_update", Sound(k)
    PROVE  Sound(k)'
<1>0. /\ TypeOK /\ Named /\ PlaylistTypeOK /\ faults \in Nat
  BY BoundsAssumption DEF PlaylistBase, QueueInv, TypeOK
<1>1. \/ CallOk(f, c) /\ Taken(f, c)
      \/ TakeNext(f, c, "fail") /\ Missing(c.key) /\ NotTaken
  BY <1>0 DEF PlaylistCall, CallFails, CallBlocked, Fault
<1>2. PICK pc \in {"confirm", "fail"} :
          /\ TakeNext(f, c, pc)
          /\ pc = "confirm" => Taken(f, c)
          /\ pc = "fail" => Missing(c.key) /\ NotTaken
  BY <1>1 DEF CallOk
<1>3. Takes(f, c, pc) /\ OthersSame(f) /\ UNCHANGED queue BY <1>0, <1>2, TakeTakes
<1>4. UNCHANGED last BY DEF PlaylistCall
<1>5. c \in Held(f) /\ flush[f].cur = {} BY <1>3 DEF Held, Takes, PlaylistBase, CurLeftBatch
<1>6. c \in Claim /\ c.key \in Key BY <1>0, <1>5, HeldType DEF Claim
<1>7. \A g \in Flushers : Held(g)' = Held(g) BY <1>3, <1>5 DEF Takes, OthersSame, Same, Held
<1>8. RowKeeps(k) BY <1>3 DEF RowKeeps
<1>9. \A g \in Flushers : HeldSound(g, k) BY DEF Sound
<1>10. CASE k.target \notin born BY <1>0, <1>4, <1>7, <1>8, <1>10, NeverBorn
<1>11. CASE k # c.key /\ k.target \in born
  <2>1. SameOrGone(k.target)
    <3>1. CASE pc = "confirm"
      <4>1. \/ remote'[k.target] = remote[k.target]
            \/ c.key.kind = "playlist_update" /\ k.target = c.key.target
            \/ c.key.kind = "playlist_delete" /\ remote'[k.target] = {}
        BY <1>0, <1>2, <1>5, <1>6, <1>11, <3>1, EffectOf DEF Taken
      <4>2. ~(c.key.kind = "playlist_update" /\ k.target = c.key.target)
        BY <1>6, <1>11 DEF Key
      <4>3. QED BY <4>1, <4>2 DEF SameOrGone
    <3>2. CASE pc = "fail" BY <1>2, <3>2 DEF NotTaken, SameOrGone
    <3>3. QED BY <3>1, <3>2
  <2>2. ASSUME NEW g \in Flushers PROVE HeldSound(g, k)'
    <3>1. CASE g = f BY <1>3, <1>4, <1>7, <1>9, <1>11, <3>1 DEF HeldSound, Takes
    <3>2. CASE g # f
      <4>1. Same(g) BY <1>3, <3>2 DEF OthersSame
      <4>2. QED BY <1>4, <1>7, <1>9, <2>1, <4>1 DEF HeldSound, Same, SameOrGone
    <3>3. QED BY <3>1, <3>2
  <2>3. QED BY <1>4, <1>8, <2>1, <2>2 DEF Sound, RowKeeps, Present, SameOrGone
<1>12. CASE k = c.key /\ k.target \in born
  <2>1. c.payload = last[k] /\ last[k] # NoPayload BY <1>5, <1>9, <1>12 DEF HeldSound
  <2>2. CASE pc = "confirm"
    <3>1. remote[k.target] # {} BY <1>2, <1>12, <2>2 DEF Taken, Missing
    <3>2. remote'[k.target] = {last[k]}
      BY <1>0, <1>2, <1>5, <1>6, <1>12, <2>1, <2>2, EffectOf DEF Taken
    <3>3. ASSUME NEW g \in Flushers PROVE HeldSound(g, k)'
      <4>1. CASE g = f BY <1>3, <1>4, <1>7, <1>9, <2>2, <3>2, <4>1 DEF HeldSound, Takes
      <4>2. CASE g # f
        <5>1. Same(g) BY <1>3, <4>2 DEF OthersSame
        <5>2. QED BY <1>4, <1>7, <1>9, <3>1, <3>2, <5>1 DEF HeldSound, Same
      <4>3. QED BY <4>1, <4>2
    <3>4. QED BY <1>4, <1>8, <3>2, <3>3 DEF Sound, RowKeeps, Present
  <2>3. CASE pc = "fail"
    <3>1. remote[k.target] = {} /\ UNCHANGED remote BY <1>2, <1>12, <2>3 DEF Missing, NotTaken
    <3>2. ASSUME NEW g \in Flushers PROVE HeldSound(g, k)'
      <4>1. HeldSound(g, k) /\ remote'[k.target] = {} BY <1>9, <3>1
      <4>2. QED BY <1>4, <1>7, <4>1 DEF HeldSound
    <3>3. QED BY <1>4, <1>8, <3>1, <3>2 DEF Sound, RowKeeps, Present
  <2>4. QED BY <2>2, <2>3
<1>13. QED BY <1>10, <1>11, <1>12

(* The row is deleted, or left, when the playlist holds what it asked for. *)
LEMMA FreedSound ==
    ASSUME PlaylistBase, NEW f \in Flushers,
           DeleteDone(f) \/ RecordBlocked(f) \/ RecordFailure(f), UNCHANGED <<remote, last>>,
           NEW k \in Key, Sound(k)
    PROVE  Sound(k)'
<1>1. PICK c \in flush[f].cur :
          /\ Frees(f) /\ OthersSame(f)
          /\ queue[k].id # c.id => queue'[k] = queue[k]
          /\ \/ flush[f].pc = "delete" /\ (queue[k].id = c.id => queue'[k] = NoRow)
             \/ /\ flush[f].pc \in {"fail", "blocked"}
                /\ queue[k].id = c.id =>
                      queue'[k] = NoRow \/ queue'[k].payload = queue[k].payload
  BY RowsFreed
<1>2. \A g \in Flushers : HeldSound(g, k) BY DEF Sound
<1>3. ASSUME NEW g \in Flushers PROVE HeldSound(g, k)'
  <2>1. CASE g = f BY <1>1, <1>2, <2>1 DEF HeldSound, Frees, Held
  <2>2. CASE g # f BY <1>1, <1>2, <2>2 DEF HeldSound, OthersSame, Same, Held
  <2>3. QED BY <2>1, <2>2
<1>4. CASE queue[k].id # c.id BY <1>1, <1>3, <1>4 DEF Sound, Present
<1>5. CASE queue[k].id = c.id
  <2>1. c \in Held(f) BY DEF Held
  <2>2. c.key = k BY <1>5, <2>1 DEF PlaylistBase, QueueInv, ClaimNamesRow
  <2>3. c.payload = last[k] /\ last[k] # NoPayload BY <1>2, <2>1, <2>2 DEF HeldSound
  <2>4. remote[k.target] \subseteq {last[k]} BY <1>1, <1>2, <2>2 DEF HeldSound
  <2>5. queue'[k] = NoRow => ~Present(k)' BY DEF Present, NoRow
  <2>6. queue[k].payload = last[k]
    <3>1. Present(k)
      BY <1>5, <2>1, HeldType, ActionAssumption DEF Present, PlaylistBase, QueueInv, Claim
    <3>2. QED BY <3>1 DEF Sound
  <2>7. Present(k)' => queue'[k].payload = last[k] BY <1>1, <1>5, <2>5, <2>6
  <2>8. QED BY <1>3, <2>3, <2>4, <2>7 DEF Sound
<1>6. QED BY <1>4, <1>5

LEMMA ClaimSound ==
    ASSUME PlaylistBase, NEW f \in Flushers, ClaimBatch(f), UNCHANGED <<remote, last>>,
           NEW k \in Key, Sound(k)
    PROVE  Sound(k)'
<1>0. TypeOK BY DEF PlaylistBase, QueueInv
<1>1. PICK ks \in SUBSET Key :
          /\ \A l \in ks : Claimable(l)
          /\ queue' = [l \in Key |-> IF l \in ks THEN Locked(queue[l]) ELSE queue[l]]
          /\ Claims(f, ks) /\ OthersSame(f)
  BY <1>0, ClaimClaims
<1>2. queue'[k].id = queue[k].id /\ queue'[k].payload = queue[k].payload
  BY <1>1 DEF Locked
<1>3. \A g \in Flushers : HeldSound(g, k) BY DEF Sound
<1>4. ASSUME NEW g \in Flushers PROVE HeldSound(g, k)'
  <2>1. CASE g = f
    <3>1. Held(f)' = {Snapshot(l) : l \in ks} /\ flush'[f].cur = {} BY <1>1 DEF Claims, Held
    <3>2. ASSUME NEW l \in ks, Snapshot(l).key = k
          PROVE  Snapshot(l).payload = last[k] /\ last[k] # NoPayload
      <4>1. l = k /\ Snapshot(l).payload = queue[k].payload BY <3>2 DEF Snapshot
      <4>2. Present(k) BY <1>1, <4>1 DEF Claimable
      <4>3. QED BY <4>1, <4>2 DEF Sound
    <3>3. QED BY <2>1, <3>1, <3>2 DEF HeldSound
  <2>2. CASE g # f BY <1>1, <1>3, <2>2 DEF HeldSound, OthersSame, Same, Held
  <2>3. QED BY <2>1, <2>2
<1>5. QED BY <1>2, <1>4 DEF Sound, Present

LEMMA RestSound ==
    ASSUME PlaylistBase, faults' = 0, Rests, NEW k \in Key, Sound(k)
    PROVE  Sound(k)'
<1>0. TypeOK /\ faults \in Nat BY BoundsAssumption DEF PlaylistBase, QueueInv, TypeOK
<1>1. UNCHANGED <<remote, last>> BY <1>0, RestsKeep DEF history
<1>2. SameOrGone(k.target) BY <1>1 DEF SameOrGone
<1>3. ASSUME NEW f \in Flushers, ClaimBatch(f) PROVE Sound(k)' BY <1>1, <1>3, ClaimSound
<1>4. ASSUME NEW f \in Flushers, DeleteDone(f) \/ RecordBlocked(f) \/ RecordFailure(f)
      PROVE  Sound(k)'
  BY <1>1, <1>4, FreedSound
<1>5. ASSUME NEW f \in Flushers, Confirm(f) PROVE Sound(k)'
  <2>1. Turns(f, "delete") /\ OthersSame(f) BY <1>0, <1>5, TurnTurns DEF Confirm
  <2>2. \A g \in Flushers : HeldSound(g, k) BY DEF Sound
  <2>3. ASSUME NEW g \in Flushers PROVE HeldSound(g, k)'
    <3>1. CASE g = f BY <1>1, <2>1, <2>2, <3>1 DEF HeldSound, Turns, Held
    <3>2. CASE g # f BY <1>1, <2>1, <2>2, <3>2 DEF HeldSound, OthersSame, Same, Held
    <3>3. QED BY <3>1, <3>2
  <2>4. UNCHANGED queue BY <1>5 DEF Confirm
  <2>5. QED BY <1>1, <2>3, <2>4 DEF Sound, Present
<1>6. ASSUME NEW f \in Flushers, ConfirmFails(f) \/ Drop(f) PROVE Sound(k)'
  BY <1>0, <1>6 DEF ConfirmFails, Drop, Fault
<1>7. CASE Tick
  <2>1. RowKeeps(k) /\ \A f \in Flushers : Same(f)
    BY <1>0, <1>7, TickSame DEF PlaylistBase, RowKeeps
  <2>2. QED BY <1>1, <1>2, <2>1, SoundSame
<1>8. QED BY <1>3, <1>4, <1>5, <1>6, <1>7 DEF Rests, PlaylistConfirm, PlaylistRest

LEMMA SoundStays ==
    ASSUME PlaylistBase, [PlaylistNext]_vars, faults' = 0,
           NEW k \in Key, k.kind = "playlist_update", k \notin crossed', Sound(k)
    PROVE  Sound(k)'
<1>0. TypeOK /\ Named /\ PlaylistTypeOK BY DEF PlaylistBase, QueueInv
<1>1. CASE Elsewhere
  <2>1. UNCHANGED <<queue, flush, remote, last>> BY <1>0, <1>1, ElsewhereKeeps DEF HandsOff, history
  <2>2. RowKeeps(k) /\ SameOrGone(k.target) /\ \A f \in Flushers : Same(f)
    BY <2>1 DEF RowKeeps, SameOrGone, Same
  <2>3. QED BY <2>1, <2>2, SoundSame
<1>2. CASE Rests BY <1>2, RestSound
<1>3. ASSUME NEW h \in Handlers, DirectCreate(h) PROVE Sound(k)'
  <2>1. handler[h].payload \in Body BY <1>0, <1>3 DEF DirectCreate, TypeOK, Request, NoRequest
  <2>2. PICK fresh : Create(fresh, handler[h].payload) BY <1>3 DEF DirectCreate
  <2>3. \A p \in born : remote'[p] = remote[p] BY <1>0, <2>1, <2>2, Creates
  <2>4. UNCHANGED <<queue, flush, last>> BY <1>3 DEF DirectCreate, history
  <2>5. /\ RowKeeps(k) /\ last'[k] = last[k]
        /\ \A f \in Flushers : Same(f) /\ Held(f)' = Held(f)
    BY <2>4 DEF RowKeeps, Same, Held
  <2>6. CASE k.target \in born
    <3>1. SameOrGone(k.target) BY <2>3, <2>6 DEF SameOrGone
    <3>2. QED BY <2>5, <3>1, SoundSame
  <2>7. CASE k.target \notin born BY <1>0, <2>5, <2>7, NeverBorn
  <2>8. QED BY <2>6, <2>7
<1>4. ASSUME NEW h \in Handlers, Enqueued(h) PROVE Sound(k)' BY <1>4, EnqueueSound
<1>5. ASSUME NEW f \in Flushers, NEW c \in flush[f].batch, PlaylistCall(f, c) PROVE Sound(k)'
  BY <1>5, CallSound
<1>6. QED BY <1>1, <1>2, <1>3, <1>4, <1>5, StepKinds

LEMMA LastStays ==
    ASSUME PlaylistBase, LastInv, [PlaylistNext]_vars
    PROVE  LastInv'
<1>1. ASSUME faults' = 0, NEW k \in Key \ crossed', k.kind = "playlist_update" PROVE Sound(k)'
  <2>1. crossed \subseteq crossed' BY CrossedGrows
  <2>2. faults = 0
    <3>1. PICK l \in Key, b \in Body : l = k /\ b = NoPayload BY DEF Body
    <3>2. faults <= faults' /\ faults \in Nat
      BY CountersGrow, BoundsAssumption DEF PlaylistBase, QueueInv, TypeOK
    <3>3. QED BY <1>1, <3>2
  <2>3. Sound(k) BY <1>1, <2>1, <2>2 DEF LastInv
  <2>4. QED BY <1>1, <2>3, SoundStays
<1>2. QED BY <1>1 DEF LastInv

LEMMA InitLast == PlaylistInit => LastInv
<1> SUFFICES ASSUME PlaylistInit PROVE LastInv OBVIOUS
<1>1. \A f \in Flushers : Held(f) = {} /\ flush[f].cur = {} BY DEF PlaylistInit, Init, Idle, Held
<1>2. \A k \in Key : ~Present(k) /\ last[k] = NoPayload
  BY DEF PlaylistInit, Init, NoRow, Present
<1>3. QED BY <1>1, <1>2 DEF LastInv, Sound, HeldSound

(* Without failures SoundCloud ends up with the last edit of a playlist,   *)
(* unless it was enqueued while an earlier one was being sent.             *)
THEOREM LastEditWins == PlaylistSpec => []LastEditArrives
<1>1. PlaylistInit => PlaylistBase /\ LastInv BY InitBase, InitLast
<1>2. PlaylistBase /\ LastInv /\ [PlaylistNext]_vars => PlaylistBase' /\ LastInv'
  BY BaseStays, LastStays
<1>3. LastInv => LastEditArrives BY DEF LastInv, Sound, LastEditArrives, Quiet
<1>4. QED BY <1>1, <1>2, <1>3, PTL DEF PlaylistSpec

-----------------------------------------------------------------------------
(* The shared caches. *)
ColdTask == [pc : {"idle", "lock", "fetch", "upsert", "without", "orphans"}, found : Nat]
ColdRow  == [found : Nat, stale : BOOLEAN, read : {"never", "lately", "long_ago"}, late : BOOLEAN]
ColdTypeOK ==
    /\ edits \in Nat /\ copy \in ColdRow \cup {NoCopy} /\ settled \in Nat
    /\ owner \in [pc : {"idle", "delete", "deleted", "updated"}, made : Nat]
    /\ caller \in [Callers -> ColdTask] /\ listing \in [Listings -> ColdTask]
ColdInv == ColdTypeOK /\ OwnWritesShow

(* Storing a row tells whether it comes late, and using one changes none of *)
(* what it shows.                                                           *)
LEMMA StoredRows ==
    ASSUME settled \in Nat, NEW found \in Nat, NEW stale \in BOOLEAN, NEW read \in {"never", "lately", "long_ago"}
    PROVE  /\ CopyOf(found, stale, read) \in ColdRow
           /\ CopyOf(found, stale, read).found < settled => CopyOf(found, stale, read).late
<1>1. PICK late \in BOOLEAN : late = (found < settled)
  <2>1. (found < settled) \in BOOLEAN OBVIOUS
  <2>2. QED BY <2>1, Zenon
<1>2. PICK r : r = [found |-> found, stale |-> stale, read |-> read, late |-> late] OBVIOUS
<1>3. r \in ColdRow /\ r.found = found /\ r.late = late BY <1>2 DEF ColdRow
<1>4. CopyOf(found, stale, read) = r BY <1>1, <1>2 DEF CopyOf
<1>5. QED BY <1>1, <1>3, <1>4

LEMMA UsedRows ==
    ASSUME NEW r \in ColdRow
    PROVE  /\ \A u \in Touched(r) : u \in ColdRow /\ u.found = r.found /\ u.late = r.late
           /\ LET a == [r EXCEPT !.stale = TRUE]
              IN  a \in ColdRow /\ a.found = r.found /\ a.late = r.late
           /\ LET a == [r EXCEPT !.read = "long_ago"]
              IN  a \in ColdRow /\ a.found = r.found /\ a.late = r.late
BY DEF Touched, ColdRow

LEMMA ColdTasks ==
    ASSUME ColdTypeOK, ColdNext
    PROVE  /\ edits' \in Nat /\ settled' \in Nat
           /\ owner' \in [pc : {"idle", "delete", "deleted", "updated"}, made : Nat]
           /\ caller' \in [Callers -> ColdTask] /\ listing' \in [Listings -> ColdTask]
<1> DEFINE Owners == [pc : {"idle", "delete", "deleted", "updated"}, made : Nat]
<1>0. Resident \in ColdTask BY DEF Resident, ColdTask
<1>1. ASSUME NEW c \in Callers, GetById(c) \/ ThingStep(c)
      PROVE  caller' \in [Callers -> ColdTask]
  <2>1. caller[c] \in ColdTask BY DEF ColdTypeOK
  <2>2. \A pc \in {"lock", "fetch"} : Calls(c, pc) => caller' \in [Callers -> ColdTask]
    <3>1. \A pc \in {"lock", "fetch"} : [caller[c] EXCEPT !.pc = pc] \in ColdTask
      BY <2>1 DEF ColdTask
    <3>2. QED BY <3>1 DEF Calls, ColdTypeOK
  <2>3. CallEnds(c) => caller' \in [Callers -> ColdTask] BY <1>0 DEF CallEnds, ColdTypeOK
  <2>4. CASE GetById(c) BY <2>2, <2>4 DEF GetById, ColdTypeOK
  <2>5. CASE LockThing(c) BY <2>2, <2>3, <2>5 DEF LockThing
  <2>6. CASE FetchThing(c)
    <3>1. PICK t : t = [pc |-> "upsert", found |-> edits] OBVIOUS
    <3>2. t \in ColdTask BY <3>1 DEF ColdTask, ColdTypeOK
    <3>3. caller' = [caller EXCEPT ![c] = t] \/ CallEnds(c) BY <2>6, <3>1 DEF FetchThing
    <3>4. QED BY <2>3, <3>2, <3>3 DEF ColdTypeOK
  <2>7. CASE UpsertThing(c) BY <2>3, <2>7 DEF UpsertThing
  <2>8. QED BY <1>1, <2>4, <2>5, <2>6, <2>7 DEF ThingStep
<1>2. ASSUME NEW c \in Callers, GetById(c) \/ ThingStep(c)
      PROVE  UNCHANGED <<edits, settled, owner, listing>>
  BY <1>2 DEF GetById, ThingStep, LockThing, FetchThing, UpsertThing, thingVars, collectionVars, ownerVars
<1>3. ASSUME NEW l \in Listings, EnsureCollection(l) \/ ListingStep(l)
      PROVE  listing' \in [Listings -> ColdTask]
  <2>1. listing[l] \in ColdTask BY DEF ColdTypeOK
  <2>2. \A pc \in {"lock", "fetch", "orphans", "idle"} :
            listing' = [listing EXCEPT ![l].pc = pc] => listing' \in [Listings -> ColdTask]
    <3>1. \A pc \in {"lock", "fetch", "orphans", "idle"} : [listing[l] EXCEPT !.pc = pc] \in ColdTask
      BY <2>1 DEF ColdTask
    <3>2. QED BY <3>1 DEF ColdTypeOK
  <2>3. ListingEnds(l) => listing' \in [Listings -> ColdTask] BY <1>0 DEF ListingEnds, ColdTypeOK
  <2>4. CASE EnsureCollection(l) BY <2>2, <2>4 DEF EnsureCollection
  <2>5. CASE LockCollection(l) BY <2>2, <2>3, <2>5 DEF LockCollection
  <2>6. CASE FetchCollection(l)
    <3>1. PICK t : t = [pc |-> IF gone THEN "without" ELSE "upsert", found |-> edits] OBVIOUS
    <3>2. t \in ColdTask BY <3>1 DEF ColdTask, ColdTypeOK
    <3>3. listing' = [listing EXCEPT ![l] = t] \/ ListingEnds(l) BY <2>6, <3>1 DEF FetchCollection
    <3>4. QED BY <2>3, <3>2, <3>3 DEF ColdTypeOK
  <2>7. CASE UpsertCollection(l)
    <3>1. PICK pc \in {"orphans", "idle"} : pc = IF listing[l].pc = "without" THEN "orphans" ELSE "idle"
      OBVIOUS
    <3>2. listing' = [listing EXCEPT ![l].pc = pc] \/ ListingEnds(l) BY <2>7, <3>1 DEF UpsertCollection
    <3>3. QED BY <2>2, <2>3, <3>2
  <2>8. CASE DeleteUnlisted(l) BY <2>3, <2>8 DEF DeleteUnlisted
  <2>9. QED BY <1>3, <2>4, <2>5, <2>6, <2>7, <2>8 DEF ListingStep
<1>4. ASSUME NEW l \in Listings, EnsureCollection(l) \/ ListingStep(l)
      PROVE  UNCHANGED <<edits, settled, owner, caller>>
  BY <1>4 DEF EnsureCollection, ListingStep, LockCollection, FetchCollection, UpsertCollection,
              DeleteUnlisted, thingVars, callVars, ownerVars
<1>5. CASE DeletePlaylist \/ SendDelete \/ SendUpdate \/ SettleWrite
  <2>1. edits' \in Nat /\ UNCHANGED <<caller, listing>>
    BY <1>5 DEF DeletePlaylist, SendDelete, SendUpdate, SettleWrite, ColdTypeOK, thingVars, callVars,
                collectionVars
  <2>2. settled' \in Nat
    BY <1>5 DEF DeletePlaylist, SendDelete, SendUpdate, SettleWrite, ColdTypeOK
  <2>3. NoWrite \in Owners BY DEF NoWrite
  <2>4. \A pc \in {"delete", "deleted", "updated"}, n \in Nat :
            OwnerWrites(pc, n) => owner' \in Owners
    BY DEF OwnerWrites
  <2>5. MaxEdits + 1 \in Nat BY ColdAssumption
  <2>6. owner' \in Owners
    BY <1>5, <2>1, <2>3, <2>4, <2>5 DEF DeletePlaylist, SendDelete, SendUpdate, SettleWrite
  <2>7. QED BY <2>1, <2>2, <2>6 DEF ColdTypeOK
<1>6. CASE Evict \/ ConfirmLike \/ EditedElsewhere \/ RowAges \/ MonthPasses \/ ListAges
           \/ LockExpires \/ ListLockExpires
  BY <1>6 DEF ColdTypeOK, Evict, ConfirmLike, EditedElsewhere, RowAges, MonthPasses, ListAges,
              LockExpires, ListLockExpires, thingVars, callVars, collectionVars, ownerVars
<1>7. QED BY <1>1, <1>2, <1>3, <1>4, <1>5, <1>6 DEF ColdNext, ColdTypeOK

LEMMA ColdCopies ==
    ASSUME ColdInv, ColdNext
    PROVE  copy' \in ColdRow \cup {NoCopy} /\ OwnWritesShow'
<1> DEFINE Good == copy' \in ColdRow \cup {NoCopy} /\ OwnWritesShow'
<1>0. ColdTypeOK /\ OwnWritesShow BY DEF ColdInv
<1>1. CASE UNCHANGED <<copy, settled>> BY <1>0, <1>1 DEF ColdTypeOK, OwnWritesShow
<1>2. CASE copy' = NoCopy BY <1>2 DEF OwnWritesShow
<1>3. ASSUME NEW r \in ColdRow, copy' = r, UNCHANGED settled, r.found < settled => r.late PROVE Good
  BY <1>3 DEF OwnWritesShow
<1>4. ASSUME copy \in ColdRow, NEW r \in ColdRow, copy' = r, UNCHANGED settled,
             r.found = copy.found, r.late = copy.late, copy # NoCopy
      PROVE  Good
  BY <1>0, <1>4 DEF OwnWritesShow
<1>5. ASSUME NEW c \in Callers, GetById(c) PROVE Good
  <2>1. UNCHANGED settled BY <1>5 DEF GetById, ownerVars
  <2>2. CASE copy = NoCopy BY <1>1, <1>5, <2>1, <2>2 DEF GetById
  <2>3. CASE copy # NoCopy
    <3>1. copy' \in Touched(copy) /\ copy \in ColdRow
      BY <1>0, <1>5, <2>3 DEF GetById, ColdTypeOK
    <3>2. PICK r \in ColdRow : copy' = r /\ r.found = copy.found /\ r.late = copy.late
      BY <3>1, UsedRows
    <3>3. QED BY <1>4, <2>1, <2>3, <3>1, <3>2
  <2>4. QED BY <2>2, <2>3
<1>6. ASSUME NEW c \in Callers, LockThing(c) \/ FetchThing(c) PROVE Good
  BY <1>1, <1>6 DEF LockThing, FetchThing, ownerVars
<1>7. ASSUME NEW c \in Callers, UpsertThing(c) PROVE Good
  <2>1. UNCHANGED settled BY <1>7 DEF UpsertThing, ownerVars
  <2>2. CASE UNCHANGED copy BY <1>1, <2>1, <2>2
  <2>3. CASE copy' = CopyOf(caller[c].found, FALSE, "lately")
    <3>1. caller[c].found \in Nat BY <1>0 DEF ColdTypeOK, ColdTask
    <3>2. PICK r \in ColdRow : copy' = r /\ (r.found < settled => r.late)
      BY <1>0, <2>3, <3>1, StoredRows DEF ColdTypeOK
    <3>3. QED BY <1>3, <2>1, <3>2
  <2>4. QED BY <1>7, <2>2, <2>3 DEF UpsertThing
<1>8. ASSUME NEW l \in Listings,
             EnsureCollection(l) \/ LockCollection(l) \/ FetchCollection(l) \/ DeleteUnlisted(l)
      PROVE  Good
  BY <1>1, <1>8 DEF EnsureCollection, LockCollection, FetchCollection, DeleteUnlisted, ownerVars
<1>9. ASSUME NEW l \in Listings, UpsertCollection(l) PROVE Good
  <2>1. UNCHANGED settled BY <1>9 DEF UpsertCollection, ownerVars
  <2>2. CASE UNCHANGED copy BY <1>1, <2>1, <2>2
  <2>3. CASE copy' = CopyOf(listing[l].found, FALSE, IF copy = NoCopy THEN "never" ELSE copy.read)
    <3>1. PICK read \in {"never", "lately", "long_ago"} :
              read = IF copy = NoCopy THEN "never" ELSE copy.read
      BY <1>0 DEF ColdTypeOK, ColdRow
    <3>2. listing[l].found \in Nat BY <1>0 DEF ColdTypeOK, ColdTask
    <3>3. PICK r \in ColdRow : copy' = r /\ (r.found < settled => r.late)
      BY <1>0, <2>3, <3>1, <3>2, StoredRows DEF ColdTypeOK
    <3>4. QED BY <1>3, <2>1, <3>3
  <2>4. QED BY <1>9, <2>2, <2>3 DEF UpsertCollection
<1>10. CASE Evict \/ DeletePlaylist \/ SettleWrite
  BY <1>2, <1>10 DEF Evict, DeletePlaylist, SettleWrite
<1>11. CASE ConfirmLike \/ EditedElsewhere \/ SendDelete \/ SendUpdate
            \/ ListAges \/ LockExpires \/ ListLockExpires
  BY <1>1, <1>11 DEF ConfirmLike, EditedElsewhere, SendDelete, SendUpdate, ListAges, LockExpires,
                     ListLockExpires, ownerVars
<1>12. CASE RowAges \/ MonthPasses
  <2>1. UNCHANGED settled /\ copy \in ColdRow /\ copy # NoCopy
    BY <1>0, <1>12 DEF RowAges, MonthPasses, ownerVars, ColdTypeOK
  <2>2. PICK r \in ColdRow : copy' = r /\ r.found = copy.found /\ r.late = copy.late
    BY <1>12, <2>1, UsedRows DEF RowAges, MonthPasses
  <2>3. QED BY <1>4, <2>1, <2>2
<1>13. QED
  BY <1>5, <1>6, <1>7, <1>8, <1>9, <1>10, <1>11, <1>12 DEF ColdNext, ThingStep, ListingStep

(* What the owner's settled write replaced is shown only where a task      *)
(* stores late what it had fetched before.                                 *)
THEOREM OwnWritesSeen == ColdSpec => []OwnWritesShow
<1>1. ColdInit => ColdInv
  <2>1. SUFFICES ASSUME ColdInit PROVE ColdInv OBVIOUS
  <2>2. ColdTypeOK BY <2>1, StoredRows DEF ColdInit, ColdTypeOK, ColdTask, Resident, NoWrite
  <2>3. OwnWritesShow BY <2>1, StoredRows DEF ColdInit, OwnWritesShow
  <2>4. QED BY <2>2, <2>3 DEF ColdInv
<1>2. ColdInv /\ [ColdNext]_coldVars => ColdInv'
  <2>1. SUFFICES ASSUME ColdInv, [ColdNext]_coldVars PROVE ColdInv' OBVIOUS
  <2>2. CASE ColdNext BY <2>1, <2>2, ColdTasks, ColdCopies DEF ColdInv, ColdTypeOK
  <2>3. CASE UNCHANGED coldVars
    BY <2>1, <2>3 DEF coldVars, thingVars, callVars, collectionVars, ownerVars, ColdInv, ColdTypeOK,
                      OwnWritesShow
  <2>4. QED BY <2>1, <2>2, <2>3
<1>3. ColdInv => OwnWritesShow BY DEF ColdInv
<1>4. QED BY <1>1, <1>2, <1>3, PTL DEF ColdSpec
===============================================================================
