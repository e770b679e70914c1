--------------------------- MODULE SyncQueueProofs ---------------------------
(***************************************************************************)
(* Theorems about the outbox, for any number of processes, requests, rows  *)
(* and any bounds that satisfy the assumptions of SyncQueue.               *)
(***************************************************************************)
EXTENDS SyncQueue, TLAPS

(* Every update of a row leaves a row. *)
LEMMA RowUpdates ==
    ASSUME NEW row \in Row
    PROVE  /\ NoRow \in Row
           /\ Locked(row) \in Row
           /\ Older(row) \in Row
           /\ Unlocked(row, 0) \in Row
           /\ \A id \in Ids, b \in Body : Upserted(row, id, b) \in Row
           /\ \A c \in Claim : AfterFailure(row, c) \in Row
<1> USE TimingAssumption DEF Row, Body
<1>1. NoRow \in Row
  BY DEF NoRow
<1>2. Locked(row) \in Row
  BY DEF Locked
<1>3. Older(row) \in Row
  BY DEF Older
<1>4. \A bump \in {0, 1} : Unlocked(row, bump) \in Row
  BY DEF Unlocked
<1>5. \A id \in Ids, b \in Body : Upserted(row, id, b) \in Row
  BY DEF Upserted
<1>6. \A c \in Claim : AfterFailure(row, c) \in Row
  BY <1>1, <1>4 DEF AfterFailure
<1>7. QED
  BY <1>1, <1>2, <1>3, <1>4, <1>5, <1>6

LEMMA InitType == Init => TypeOK
BY TimingAssumption, BoundsAssumption
   DEF Init, TypeOK, Row, NoRow, Flush, Idle, NoRequest, Body

LEMMA AdvanceType ==
    ASSUME TypeOK, NEW f \in Flushers, Advance(f)
    PROVE  flush' \in [Flushers -> Flush]
BY TimingAssumption DEF TypeOK, Advance, Moved, Flush, Idle

LEMMA HeldType ==
    ASSUME TypeOK, NEW f \in Flushers, NEW c \in Held(f)
    PROVE  c \in Claim
BY DEF TypeOK, Held, Flush

(* A request or a fault changes no type. *)
LEMMA HandlerType ==
    ASSUME TypeOK, NEW h \in Handlers, HandlerStep(h) \/ Abandon(h)
    PROVE  TypeOK'
<1>1. CASE LocalWrite(h)
  BY <1>1 DEF LocalWrite, TypeOK, Request, NoRequest
<1>2. CASE CancelInverse(h)
  <2>1. queue' \in [Key -> Row]
    BY <1>2, RowUpdates, TimingAssumption DEF CancelInverse, TypeOK, NoRow, Row, Body
  <2>2. QED
    BY <1>2, <2>1 DEF CancelInverse, TypeOK
<1>3. CASE NothingToCancel(h)
  BY <1>3 DEF NothingToCancel, TypeOK, Request, NoRequest
<1>4. CASE Insert(h)
  <2>1. handler[h] \in Request
    BY <1>4 DEF Insert, TypeOK, NoRequest
  <2>2. PICK id \in Ids \ UsedIds :
           queue' = [queue EXCEPT ![handler[h].key] =
                        Upserted(queue[handler[h].key], id, handler[h].payload)]
    BY <1>4 DEF Insert
  <2>3. queue[handler[h].key] \in Row /\ handler[h].payload \in Body
    BY <2>1 DEF TypeOK, Request
  <2>4. Upserted(queue[handler[h].key], id, handler[h].payload) \in Row
    BY <2>3, RowUpdates, Zenon
  <2>5. queue' \in [Key -> Row]
    BY <2>2, <2>4 DEF TypeOK
  <2>6. QED
    BY <1>4, <2>5 DEF Insert, TypeOK
<1>5. CASE Abandon(h)
  BY <1>5, BoundsAssumption DEF Abandon, Fault, TypeOK
<1>6. QED
  BY <1>1, <1>2, <1>3, <1>4, <1>5 DEF HandlerStep

(* A step of a flush changes no type. *)
LEMMA FlushType ==
    ASSUME TypeOK, NEW f \in Flushers, FlushStep(f) \/ Drop(f)
    PROVE  TypeOK'
<1>1. ASSUME NEW c \in flush[f].batch, CallStep(f, c)
      PROVE  TypeOK'
  <2>1. flush[f] \in Flush
    BY DEF TypeOK
  <2>2. PICK pc \in {"confirm", "fail", "blocked"} :
           TakeNext(f, c, pc) /\ (UNCHANGED faults \/ Fault)
    BY <1>1 DEF CallStep, CallOk, CallFails, CallBlocked
  <2>3. Moved(flush[f], pc, flush[f].batch \ {c}, {c}) \in Flush
    BY <2>1 DEF Moved, Flush
  <2>4. QED
    BY <2>2, <2>3, BoundsAssumption DEF TakeNext, Fault, TypeOK
<1>2. CASE ClaimBatch(f)
  <2>1. PICK ks \in SUBSET Key :
           /\ ks \subseteq {k \in Key : Claimable(k)}
           /\ queue' = [k \in Key |-> IF k \in ks THEN Locked(queue[k]) ELSE queue[k]]
           /\ flush' = [flush EXCEPT ![f] = [pc |-> "next", age |-> 0, cur |-> {},
                                             batch |-> {Snapshot(k) : k \in ks}]]
    BY <1>2 DEF ClaimBatch
  <2>2. \A k \in ks : Snapshot(k) \in Claim
    BY <2>1 DEF Claimable, Present, Snapshot, Claim, TypeOK, Row
  <2>3. flush' \in [Flushers -> Flush]
    BY <2>1, <2>2, TimingAssumption DEF TypeOK, Flush
  <2>4. queue' \in [Key -> Row]
    BY <2>1, RowUpdates DEF TypeOK
  <2>5. QED
    BY <1>2, <2>3, <2>4 DEF ClaimBatch, TypeOK
<1>3. CASE Confirm(f)
  BY <1>3 DEF Confirm, TypeOK, Moved, Flush
<1>4. CASE ConfirmFails(f)
  BY <1>4, BoundsAssumption DEF ConfirmFails, Fault, TypeOK, Moved, Flush
<1>5. CASE DeleteDone(f)
  <2>1. queue' \in [Key -> Row]
    BY <1>5, RowUpdates DEF DeleteDone, TypeOK
  <2>2. QED
    BY <1>5, <2>1, AdvanceType DEF DeleteDone, TypeOK
<1>6. CASE RecordBlocked(f)
  <2>1. queue' \in [Key -> Row]
    BY <1>6, RowUpdates DEF RecordBlocked, TypeOK
  <2>2. QED
    BY <1>6, <2>1, AdvanceType DEF RecordBlocked, TypeOK
<1>7. CASE RecordFailure(f)
  <2>1. PICK c \in flush[f].cur :
           queue' = [k \in Key |-> IF queue[k].id = c.id THEN AfterFailure(queue[k], c)
                                   ELSE queue[k]]
    BY <1>7 DEF RecordFailure
  <2>2. c \in Claim
    BY DEF TypeOK, Flush
  <2>3. \A k \in Key : queue[k] \in Row /\ AfterFailure(queue[k], c) \in Row
    BY <2>2, RowUpdates DEF TypeOK
  <2>4. queue' \in [Key -> Row]
    BY <2>1, <2>3
  <2>5. QED
    BY <1>7, <2>4, AdvanceType DEF RecordFailure, TypeOK
<1>8. CASE Drop(f)
  BY <1>8, BoundsAssumption, TimingAssumption DEF Drop, Fault, TypeOK, Idle, Flush
<1>9. QED
  BY <1>1, <1>2, <1>3, <1>4, <1>5, <1>6, <1>7, <1>8 DEF FlushStep

(* So no step does. *)
LEMMA NextType == TypeOK /\ [Next]_queueVars => TypeOK'
<1> SUFFICES ASSUME TypeOK, [Next]_queueVars PROVE TypeOK'
  OBVIOUS
<1>1. ASSUME NEW h \in Handlers, NEW k \in Key, NEW b \in Body, Begin(h, k, b)
      PROVE  TypeOK'
  BY <1>1, BoundsAssumption DEF Begin, TypeOK, Request
<1>2. CASE Tick
  <2>1. queue' \in [Key -> Row]
    BY <1>2, RowUpdates DEF Tick, TypeOK
  <2>2. \A f \in Flushers : LaterFlush(flush[f]) \in Flush /\ Idle \in Flush
    BY <1>2, TimingAssumption DEF Tick, TypeOK, Flush, LaterFlush, Idle
  <2>3. QED
    BY <1>2, <2>1, <2>2 DEF Tick, TypeOK
<1>3. CASE UNCHANGED queueVars
  BY <1>3 DEF queueVars, TypeOK
<1>4. QED
  BY <1>1, <1>2, <1>3, HandlerType, FlushType DEF Next

(* The states of the outbox keep their types. *)
THEOREM QueueTyped == Spec => []TypeOK
BY InitType, NextType, PTL DEF Spec
-----------------------------------------------------------------------------
(* The lock discipline.  Most steps leave every row as it was, unlock it or *)
(* remove it, and hand no row to a flush.                                   *)
RowEases(k) ==
    \/ queue'[k] = queue[k]
    \/ queue'[k].id = NoId
    \/ queue'[k].id = queue[k].id /\ ~queue'[k].locked

HoldsLess(f) ==
    Held(f)' \subseteq Held(f) /\ (Held(f)' # {} => flush'[f].age = flush[f].age)

LEMMA EasingStep ==
    ASSUME QueueInv, TypeOK',
           \A k \in Key : RowEases(k), \A f \in Flushers : HoldsLess(f)
    PROVE  QueueInv'
<1>1. RowIdsUnique'
  BY DEF QueueInv, RowIdsUnique, RowEases, Present
<1>2. ASSUME NEW f \in Flushers, NEW c \in Held(f)' PROVE c \in Held(f) /\ c \in Claim /\ c.id # NoId
  BY <1>2, HeldType, ActionAssumption DEF HoldsLess, QueueInv, Claim
<1>3. ClaimNamesRow'
  BY <1>2 DEF QueueInv, ClaimNamesRow, RowEases
<1>4. LocksYoung'
  <2>1. SUFFICES ASSUME NEW f \in Flushers, NEW c \in Held(f)',
                        queue'[c.key].id = c.id, queue'[c.key].locked
                 PROVE  queue'[c.key].age <= flush'[f].age
    BY DEF LocksYoung
  <2>2. c.key \in Key /\ c.id # NoId
    BY <1>2 DEF Claim
  <2>3. queue'[c.key] = queue[c.key]
    BY <2>1, <2>2 DEF RowEases
  <2>4. flush'[f].age = flush[f].age
    BY DEF HoldsLess
  <2>5. QED
    BY <1>2, <2>1, <2>3, <2>4 DEF QueueInv, LocksYoung
<1>5. QED
  BY <1>1, <1>3, <1>4 DEF QueueInv

LEMMA AdvanceHolds ==
    ASSUME TypeOK, NEW f \in Flushers, Advance(f)
    PROVE  \A g \in Flushers : HoldsLess(g)
BY DEF Advance, HoldsLess, Held, TypeOK, Flush, Idle, Moved

LEMMA InitInv == Init => QueueInv
<1> SUFFICES ASSUME Init PROVE QueueInv
  OBVIOUS
<1>1. RowIdsUnique
  BY DEF Init, NoRow, RowIdsUnique, Present
<1>2. \A f \in Flushers : Held(f) = {}
  BY DEF Init, Idle, Held
<1>3. QED
  BY <1>1, <1>2, InitType DEF QueueInv, ClaimNamesRow, LocksYoung

(* A request: the one step that brings a new id takes a fresh one. *)
LEMMA HandlerInv ==
    ASSUME QueueInv, TypeOK', NEW h \in Handlers, HandlerStep(h) \/ Abandon(h)
    PROVE  QueueInv'
<1>0. TypeOK
  BY DEF QueueInv
<1>1. CASE LocalWrite(h) \/ NothingToCancel(h) \/ Abandon(h)
  BY <1>1, EasingStep DEF LocalWrite, NothingToCancel, Abandon, RowEases, HoldsLess, Held
<1>2. CASE CancelInverse(h)
  <2>1. \A k \in Key : RowEases(k)
    BY <1>0, <1>2 DEF CancelInverse, RowEases, NoRow, TypeOK
  <2>2. QED
    BY <1>2, <2>1, EasingStep DEF CancelInverse, HoldsLess, Held
<1>3. CASE Insert(h)
  <2>1. handler[h].key \in Key
    BY <1>0, <1>3 DEF Insert, TypeOK, Request, NoRequest
  <2>2. PICK id \in Ids \ UsedIds :
           queue' = [queue EXCEPT ![handler[h].key] =
                        Upserted(queue[handler[h].key], id, handler[h].payload)]
    BY <1>3 DEF Insert
  <2>3. /\ \A k \in Key : queue[k].id # id
        /\ \A f \in Flushers : \A c \in Held(f) : c.id # id
    BY <2>2 DEF UsedIds
  <2>4. CASE queue[handler[h].key].id # NoId
    <3>1. \A k \in Key : RowEases(k)
      BY <1>0, <2>1, <2>2, <2>4 DEF RowEases, Upserted, TypeOK
    <3>2. QED
      BY <1>3, <3>1, EasingStep DEF Insert, HoldsLess, Held
  <2>5. CASE queue[handler[h].key].id = NoId
    <3>1. \A k \in Key : \/ k # handler[h].key /\ queue'[k] = queue[k]
                         \/ k = handler[h].key /\ queue'[k].id = id /\ ~queue'[k].locked
      BY <1>0, <2>1, <2>2, <2>5 DEF Upserted, TypeOK
    <3>2. \A f \in Flushers : Held(f)' = Held(f) /\ flush'[f].age = flush[f].age
      BY <1>3 DEF Insert, Held
    <3>3. RowIdsUnique'
      BY <2>3, <3>1 DEF QueueInv, RowIdsUnique, Present
    <3>4. ClaimNamesRow'
      BY <2>3, <3>1, <3>2 DEF QueueInv, ClaimNamesRow
    <3>5. LocksYoung'
      <4>1. \A f \in Flushers : \A c \in Held(f) : c.key \in Key
        BY <1>0, HeldType DEF Claim
      <4>2. QED
        BY <3>1, <3>2, <4>1 DEF QueueInv, LocksYoung
    <3>6. QED
      BY <3>3, <3>4, <3>5 DEF QueueInv
  <2>6. QED
    BY <2>4, <2>5
<1>4. QED
  BY <1>1, <1>2, <1>3 DEF HandlerStep

(* A claim locks the rows it takes at age 0, and takes them by their names. *)
LEMMA ClaimInv ==
    ASSUME QueueInv, TypeOK', NEW f \in Flushers, ClaimBatch(f)
    PROVE  QueueInv'
<1>0. TypeOK
  BY DEF QueueInv
<1>1. PICK ks \in SUBSET Key :
         /\ \A k \in ks : Claimable(k)
         /\ queue' = [k \in Key |-> IF k \in ks THEN Locked(queue[k]) ELSE queue[k]]
         /\ flush' = [flush EXCEPT ![f] = [pc |-> "next", age |-> 0, cur |-> {},
                                           batch |-> {Snapshot(k) : k \in ks}]]
  BY DEF ClaimBatch
<1>2. \A k \in Key : /\ queue'[k].id = queue[k].id
                     /\ k \in ks => queue'[k].age = 0
                     /\ k \notin ks => queue'[k] = queue[k]
  BY <1>0, <1>1 DEF Locked, TypeOK
<1>3. RowIdsUnique'
  BY <1>2 DEF QueueInv, RowIdsUnique, Present
<1>4. /\ Held(f)' = {Snapshot(k) : k \in ks}
      /\ \A g \in Flushers \ {f} : Held(g)' = Held(g) /\ flush'[g] = flush[g]
  BY <1>0, <1>1 DEF TypeOK, Held
<1>5. ClaimNamesRow'
  <2>1. \A k \in ks, l \in Key : queue[l].id = queue[k].id => l = k
    BY <1>1 DEF QueueInv, RowIdsUnique, Claimable, Present
  <2>2. QED
    BY <1>2, <1>4, <2>1 DEF QueueInv, ClaimNamesRow, Snapshot
<1>6. LocksYoung'
  <2>1. SUFFICES ASSUME NEW g \in Flushers, NEW c \in Held(g)',
                        queue'[c.key].id = c.id, queue'[c.key].locked
                 PROVE  queue'[c.key].age <= flush'[g].age
    BY DEF LocksYoung
  <2>2. c.key \in Key /\ flush'[g].age \in Nat
    <3>1. c \in Claim
      BY <2>1 DEF TypeOK, Held, Flush
    <3>2. QED
      BY <3>1, TimingAssumption DEF Claim, TypeOK, Flush
  <2>3. CASE c.key \in ks
    BY <1>2, <2>2, <2>3
  <2>4. CASE c.key \notin ks
    <3>1. g # f
      BY <1>4, <2>1, <2>4 DEF Snapshot
    <3>2. c \in Held(g) /\ flush'[g] = flush[g]
      BY <1>4, <2>1, <3>1
    <3>3. queue'[c.key] = queue[c.key]
      BY <1>2, <2>2, <2>4
    <3>4. QED
      BY <2>1, <3>2, <3>3 DEF QueueInv, LocksYoung
  <2>5. QED
    BY <2>3, <2>4
<1>7. QED
  BY <1>3, <1>5, <1>6 DEF QueueInv

(* The rest of a flush only works off what it holds. *)
LEMMA FlushInv ==
    ASSUME QueueInv, TypeOK', NEW f \in Flushers, FlushStep(f) \/ Drop(f)
    PROVE  QueueInv'
<1>0. TypeOK
  BY DEF QueueInv
<1>1. ASSUME NEW c \in flush[f].batch, CallStep(f, c)
      PROVE  QueueInv'
  <2>1. PICK pc \in {"confirm", "fail", "blocked"} : TakeNext(f, c, pc)
    BY <1>1 DEF CallStep, CallOk, CallFails, CallBlocked
  <2>2. \A g \in Flushers : HoldsLess(g)
    BY <1>0, <2>1 DEF TakeNext, Moved, HoldsLess, Held, TypeOK
  <2>3. QED
    BY <2>1, <2>2, EasingStep DEF TakeNext, RowEases
<1>2. CASE Confirm(f) \/ ConfirmFails(f) \/ Drop(f)
  <2>1. \A g \in Flushers : HoldsLess(g)
    BY <1>0, <1>2 DEF Confirm, ConfirmFails, Drop, Idle, Moved, HoldsLess, Held, TypeOK
  <2>2. QED
    BY <1>2, <2>1, EasingStep DEF Confirm, ConfirmFails, Drop, RowEases
<1>3. CASE DeleteDone(f) \/ RecordBlocked(f) \/ RecordFailure(f)
  <2>1. \A k \in Key : RowEases(k)
    BY <1>3 DEF DeleteDone, RecordBlocked, RecordFailure, AfterFailure, Unlocked, NoRow, RowEases
  <2>2. Advance(f)
    BY <1>3 DEF DeleteDone, RecordBlocked, RecordFailure
  <2>3. QED
    BY <1>0, <2>1, <2>2, AdvanceHolds, EasingStep
<1>4. QED
  BY <1>1, <1>2, <1>3, ClaimInv DEF FlushStep

(* A tick ages a lock and the flush that holds it together. *)
LEMMA TickInv ==
    ASSUME QueueInv, TypeOK', Tick
    PROVE  QueueInv'
<1>0. TypeOK
  BY DEF QueueInv
<1>1. \A k \in Key : /\ queue'[k].id = queue[k].id
                     /\ queue'[k].locked = queue[k].locked
                     /\ queue'[k].age <= queue[k].age + 1
                     /\ queue[k].age \in Nat /\ queue'[k].age \in Nat
  BY <1>0, TimingAssumption DEF Tick, Older, TypeOK, Row
<1>2. \A f \in Flushers : /\ Held(f)' \subseteq Held(f)
                          /\ Held(f)' # {} => flush'[f].age = flush[f].age + 1
                          /\ flush[f].age \in Nat
  BY <1>0, TimingAssumption DEF Tick, LaterFlush, Idle, Held, TypeOK, Flush
<1>3. \A f \in Flushers : \A c \in Held(f) : c.key \in Key
  BY <1>0, HeldType DEF Claim
<1>4. RowIdsUnique' /\ ClaimNamesRow'
  BY <1>1, <1>2 DEF QueueInv, RowIdsUnique, ClaimNamesRow, Present
<1>5. LocksYoung'
  <2>1. SUFFICES ASSUME NEW f \in Flushers, NEW c \in Held(f)',
                        queue'[c.key].id = c.id, queue'[c.key].locked
                 PROVE  queue'[c.key].age <= flush'[f].age
    BY DEF LocksYoung
  <2>2. queue[c.key].age <= flush[f].age
    BY <1>1, <1>2, <1>3, <2>1 DEF QueueInv, LocksYoung
  <2>3. QED
    BY <1>1, <1>2, <1>3, <2>1, <2>2
<1>6. QED
  BY <1>4, <1>5 DEF QueueInv

LEMMA NextInv == QueueInv /\ [Next]_queueVars => QueueInv'
<1> SUFFICES ASSUME QueueInv, [Next]_queueVars PROVE QueueInv'
  OBVIOUS
<1>1. TypeOK'
  BY NextType DEF QueueInv
<1>2. ASSUME NEW h \in Handlers, NEW k \in Key, NEW b \in Body, Begin(h, k, b)
      PROVE  QueueInv'
  BY <1>1, <1>2, EasingStep DEF Begin, RowEases, HoldsLess, Held
<1>3. CASE UNCHANGED queueVars
  BY <1>1, <1>3, EasingStep DEF queueVars, RowEases, HoldsLess, Held
<1>4. QED
  BY <1>1, <1>2, <1>3, HandlerInv, FlushInv, TickInv DEF Next

THEOREM QueueInvariant == Spec => []QueueInv
BY InitInv, NextInv, PTL DEF Spec

(* claim_batch never takes a row over from a flush that is still alive,     *)
(* because a flush is dropped long before its locks expire.                 *)
THEOREM LockOutlivesFlush == Spec => []NoTakeover
<1>1. QueueInv => NoTakeover
  BY TimingAssumption DEF QueueInv, LocksYoung, NoTakeover, TypeOK, Flush
<1>2. QED
  BY <1>1, QueueInvariant, PTL

LEMMA HolderRemoves ==
    ASSUME QueueInv, [Next]_queueVars, NEW k \in Key,
           Present(k), queue[k].locked, queue'[k].id # queue[k].id
    PROVE  \E f \in Flushers : \E c \in flush[f].cur : c.key = k /\ c.id = queue[k].id
<1>0. TypeOK
  BY DEF QueueInv
<1>1. ASSUME NEW f \in Flushers, DeleteDone(f) \/ RecordBlocked(f) \/ RecordFailure(f)
      PROVE  \E c \in flush[f].cur : c.key = k /\ c.id = queue[k].id
  <2>1. PICK c \in flush[f].cur : queue[k].id = c.id
    BY <1>0, <1>1 DEF DeleteDone, RecordBlocked, RecordFailure, TypeOK
  <2>2. QED
    BY <2>1 DEF QueueInv, ClaimNamesRow, Held
<1>2. ASSUME NEW h \in Handlers, HandlerStep(h)
      PROVE  FALSE
  <2>1. CASE Insert(h)
    BY <1>0, <2>1 DEF Insert, Upserted, Present, TypeOK
  <2>2. CASE CancelInverse(h)
    BY <1>0, <2>2 DEF CancelInverse, Cancellable, TypeOK
  <2>3. QED
    BY <1>2, <2>1, <2>2 DEF HandlerStep, LocalWrite, NothingToCancel
<1>3. ASSUME NEW f \in Flushers, ClaimBatch(f)
      PROVE  FALSE
  BY <1>0, <1>3 DEF ClaimBatch, Locked, TypeOK
<1>4. CASE Tick
  BY <1>0, <1>4 DEF Tick, Older, TypeOK
<1>5. ASSUME queue' = queue
      PROVE  FALSE
  BY <1>5
<1>6. QED
  BY <1>1, <1>2, <1>3, <1>4, <1>5
     DEF Next, Begin, Abandon, FlushStep, CallStep, CallOk, CallFails, CallBlocked, TakeNext,
         Confirm, ConfirmFails, Drop, queueVars

(* A locked row is removed by a flush that executes it, and by nothing else. *)
THEOREM LockedRowsStay == Spec => OnlyHolderRemoves
<1>1. QueueInv /\ [Next]_queueVars =>
        [\A k \in Key :
          (Present(k) /\ queue[k].locked /\ queue'[k].id # queue[k].id)
              => \E f \in Flushers : \E c \in flush[f].cur :
                    c.key = k /\ c.id = queue[k].id]_queueVars
  BY HolderRemoves
<1>2. QED
  BY <1>1, QueueInvariant, PTL DEF Spec, OnlyHolderRemoves
=============================================================================
