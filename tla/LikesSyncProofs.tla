--------------------------- MODULE LikesSyncProofs ---------------------------
(***************************************************************************)
(* The likes over the outbox: types, and the user's view as a refinement,  *)
(* whatever the sync worker does, fails to do or does twice; and what a    *)
(* cold refresh beside them may correct.                                   *)
(***************************************************************************)
EXTENDS LikesRefresh, SyncQueueProofs

(* Every step of the likes is a step of the outbox, or invisible to it. *)
LEMMA StepIsQueueStep == [LikesNext]_vars => [Next]_queueVars
<1>1. ASSUME NEW h \in Handlers, NEW k \in Key, LikeBegin(h, k) PROVE Next
  BY <1>1 DEF LikeBegin, Next, Body
<1>2. ASSUME NEW h \in Handlers, LikeHandlerStep(h) \/ LikeAbandon(h)
      PROVE  [Next]_queueVars
  BY <1>2 DEF LikeHandlerStep, SetWanted, ReadWanted, ClearWanted, LikeEnqueue, LikeAbandon,
              Next, HandlerStep
<1>3. ASSUME NEW f \in Flushers, NEW c \in flush[f].batch, LikeCall(f, c) PROVE Next
  BY <1>3 DEF LikeCall, Next, FlushStep, CallStep
<1>4. ASSUME NEW f \in Flushers, LikeConfirm(f) \/ LikeRest(f) \/ LikeDrop(f) PROVE Next
  BY <1>4 DEF LikeConfirm, LikeRest, LikeDrop, Next, FlushStep
<1>5. CASE LikeTick
  BY <1>5 DEF LikeTick, Next
<1>6. CASE UNCHANGED vars
  BY <1>6 DEF vars, queueVars
<1>7. QED
  BY <1>1, <1>2, <1>3, <1>4, <1>5, <1>6 DEF LikesNext, LikeFlushStep

LEMMA MirrorUpdates ==
    ASSUME NEW row \in MirrorRow
    PROVE  /\ Wanted(row) \in MirrorRow
           /\ \A kind : Settled(row, kind) \in MirrorRow
           /\ \A read : Cleared(row, read) \in MirrorRow
BY DEF MirrorRow, Wanted, Settled, Cleared

MirrorTypeOK ==
    /\ mirror \in [Targets -> MirrorRow]
    /\ seen \in [Handlers -> SUBSET MirrorRow]

(* The key a request or a claim names is one of the table's. *)
LEMMA KeysInUse ==
    ASSUME TypeOK
    PROVE  /\ \A h \in Handlers : handler[h] # NoRequest => handler[h].key.target \in Targets
           /\ \A f \in Flushers : \A c \in Held(f) : c.key.target \in Targets
BY HeldType DEF TypeOK, Request, Claim, Key

LEMMA MirrorTyped ==
    ASSUME TypeOK, MirrorTypeOK, [LikesNext]_vars
    PROVE  MirrorTypeOK'
<1>1. ASSUME NEW h \in Handlers, SetWanted(h) PROVE MirrorTypeOK'
  BY <1>1, MirrorUpdates DEF SetWanted, MirrorTypeOK
<1>2. ASSUME NEW h \in Handlers, ReadWanted(h) PROVE MirrorTypeOK'
  <2>1. mirror[handler[h].key.target] \in MirrorRow
    BY <1>2, KeysInUse DEF ReadWanted, MirrorTypeOK, NoRequest
  <2>2. QED
    BY <1>2, <2>1 DEF ReadWanted, MirrorTypeOK
<1>3. ASSUME NEW h \in Handlers, ClearWanted(h) PROVE MirrorTypeOK'
  <2>1. PICK read : mirror' = [mirror EXCEPT ![handler[h].key.target] =
                                    Cleared(mirror[handler[h].key.target], read)]
    BY <1>3 DEF ClearWanted
  <2>2. \A t \in Targets : Cleared(mirror[t], read) \in MirrorRow
    BY MirrorUpdates DEF MirrorTypeOK
  <2>3. QED
    BY <1>3, <2>1, <2>2 DEF ClearWanted, MirrorTypeOK
<1>4. ASSUME NEW f \in Flushers, LikeConfirm(f) PROVE MirrorTypeOK'
  <2>1. PICK c \in flush[f].cur :
           mirror' = [mirror EXCEPT ![c.key.target] = Settled(mirror[c.key.target], c.key.kind)]
    BY <1>4 DEF LikeConfirm
  <2>2. \A t \in Targets : Settled(mirror[t], c.key.kind) \in MirrorRow
    BY MirrorUpdates DEF MirrorTypeOK
  <2>3. QED
    BY <1>4, <2>1, <2>2 DEF LikeConfirm, MirrorTypeOK
<1>5. ASSUME NEW h \in Handlers, LikeAbandon(h) PROVE MirrorTypeOK'
  BY <1>5 DEF LikeAbandon, MirrorTypeOK
<1>6. QED
  BY <1>1, <1>2, <1>3, <1>4, <1>5
     DEF LikesNext, LikeHandlerStep, LikeFlushStep, LikeBegin, LikeEnqueue, LikeCall, LikeRest,
         LikeDrop, LikeTick, likeVars, vars, MirrorTypeOK

Shown(row) == row.present /\ row.wanted

(* What each update of a mirror row does to the user's view of it. *)
LEMMA ViewOfUpdates ==
    ASSUME NEW row \in MirrorRow
    PROVE  /\ Shown(Wanted(row))
           /\ \A kind : Shown(Settled(row, kind)) <=> Shown(row)
           /\ \A read : Cleared(row, read) = row \/ ~Shown(Cleared(row, read))
BY DEF Shown, MirrorRow, NoMirror, Pending, Synced, Unwanted, Wanted, Settled, Cleared

LikesInv == TypeOK /\ MirrorTypeOK

LEMMA LikesInvariant == LikesSpec => []LikesInv
<1>1. LikesInit => LikesInv
  BY InitType DEF LikesInit, LikesInv, MirrorTypeOK, MirrorRow
<1>2. LikesInv /\ [LikesNext]_vars => LikesInv'
  BY StepIsQueueStep, NextType, MirrorTyped DEF LikesInv
<1>3. QED
  BY <1>1, <1>2, PTL DEF LikesSpec

THEOREM LikesTyped == LikesSpec => []LikesTypeOK
<1>1. LikesInit => LikesTypeOK
  BY InitType DEF LikesInit, LikesTypeOK, MirrorRow
<1>2. LikesTypeOK /\ LikesInv /\ [LikesNext]_vars /\ LikesInv' => LikesTypeOK'
  <2>1. SUFFICES ASSUME LikesTypeOK, LikesInv, [LikesNext]_vars, LikesInv'
                 PROVE  sc' \in [Targets -> BOOLEAN]
    BY DEF LikesTypeOK, LikesInv, MirrorTypeOK
  <2>2. \A c : Applied(c) => sc' \in [Targets -> BOOLEAN]
    BY <2>1 DEF Applied, Positive, LikesTypeOK
  <2>3. QED
    BY <2>1, <2>2
       DEF LikesNext, LikeHandlerStep, LikeFlushStep, LikeBegin, LikeEnqueue, LikeCall, LikeRest,
           LikeDrop, LikeTick, LikeConfirm, LikeAbandon, SetWanted, ReadWanted, ClearWanted,
           likeVars, vars, LikesTypeOK
<1>3. QED
  BY <1>1, <1>2, LikesInvariant, PTL DEF LikesSpec

(* What a step of a request does to what its request asks for. *)
AskOf(request) ==
    IF request.pc = "local" THEN {<<request.key.target, Positive(request.key.kind)>>} ELSE {}

LEMMA Asked ==
    /\ \A h \in Handlers : AsksFor(h) = AskOf(handler[h])
    /\ \A h \in Handlers : AsksFor(h)' = AskOf(handler'[h])
BY DEF AsksFor, AskOf

LEMMA AskEnds ==
    ASSUME TypeOK, NEW h \in Handlers, LocalWrite(h) \/ Abandon(h)
    PROVE  [g \in Handlers |-> AsksFor(g)]' = [[g \in Handlers |-> AsksFor(g)] EXCEPT ![h] = {}]
<1>1. \A g \in Handlers \ {h} : handler'[g] = handler[g]
  BY DEF LocalWrite, Abandon, TypeOK
<1>2. handler'[h].pc # "local"
  BY DEF LocalWrite, Abandon, TypeOK, NoRequest, Request
<1>3. \A g \in Handlers : AsksFor(g)' = IF g = h THEN {} ELSE AsksFor(g)
  BY <1>1, <1>2, Asked DEF AskOf
<1>4. QED
  BY <1>3

(* A step of the likes moves the view like a step of LikeView, or not.     *)
LEMMA ViewStep ==
    ASSUME LikesInv, [LikesNext]_vars
    PROVE  [View!Next]_<<[t \in Targets |-> Liked(t)], [h \in Handlers |-> AsksFor(h)]>>
<1> DEFINE liked == [t \in Targets |-> Liked(t)]
           asking == [h \in Handlers |-> AsksFor(h)]
<1>0. \A t \in Targets : Liked(t) = Shown(mirror[t]) /\ Liked(t)' = Shown(mirror'[t])
  BY DEF Liked, Shown
<1>1. ASSUME NEW h \in Handlers, NEW k \in Key, LikeBegin(h, k) PROVE View!Next
  <2>1. k.target \in Targets /\ Positive(k.kind) \in BOOLEAN
    BY DEF Key, Positive
  <2>2. \A g \in Handlers \ {h} : handler'[g] = handler[g]
    BY <1>1 DEF LikeBegin, Begin, LikesInv, TypeOK
  <2>3. handler[h] = NoRequest /\ handler'[h] = [pc |-> "local", key |-> k, payload |-> NoPayload]
    BY <1>1 DEF LikeBegin, Begin, LikesInv, TypeOK
  <2>4. AskOf(handler[h]) = {} /\ AskOf(handler'[h]) = {<<k.target, Positive(k.kind)>>}
    BY <2>3 DEF AskOf, NoRequest
  <2>5. asking' = [asking EXCEPT ![h] = {<<k.target, Positive(k.kind)>>}]
    BY <2>2, <2>4, Asked
  <2>6. asking[h] = {} /\ UNCHANGED liked
    BY <1>1, <2>4, Asked DEF LikeBegin, likeVars, Liked
  <2>7. View!Ask(h, k.target, Positive(k.kind))
    BY <2>5, <2>6 DEF View!Ask
  <2>8. QED
    BY <2>1, <2>7 DEF View!Next
<1>2. ASSUME NEW h \in Handlers, SetWanted(h) PROVE View!Next
  <2> DEFINE t == handler[h].key.target
  <2>1. t \in Targets /\ LocalWrite(h)
    BY <1>2, KeysInUse DEF LikesInv, SetWanted, LocalWrite, NoRequest
  <2>2. mirror' = [mirror EXCEPT ![t] = Wanted(mirror[t])] /\ Shown(Wanted(mirror[t]))
    BY <1>2, <2>1, ViewOfUpdates DEF SetWanted, LikesInv, MirrorTypeOK
  <2>3. liked' = [liked EXCEPT ![t] = TRUE]
    BY <1>0, <2>1, <2>2 DEF LikesInv, MirrorTypeOK, Shown
  <2>4. asking[h] = {<<t, TRUE>>}
    BY <1>2, <2>1, Asked DEF AskOf, SetWanted, LocalWrite, Positive
  <2>5. asking' = [asking EXCEPT ![h] = {}]
    BY <2>1, AskEnds DEF LikesInv
  <2>6. View!Grant(h, t, TRUE)
    BY <2>3, <2>4, <2>5 DEF View!Grant, View!Done
  <2>7. QED
    BY <2>1, <2>6 DEF View!Next
<1>3. ASSUME NEW h \in Handlers, ClearWanted(h) PROVE View!Next
  <2> DEFINE t == handler[h].key.target
  <2>1. t \in Targets /\ LocalWrite(h)
    BY <1>3, KeysInUse DEF LikesInv, ClearWanted, LocalWrite, NoRequest
  <2>2. PICK read \in seen[h] : mirror' = [mirror EXCEPT ![t] = Cleared(mirror[t], read)]
    BY <1>3 DEF ClearWanted
  <2>3. asking' = [asking EXCEPT ![h] = {}]
    BY <2>1, AskEnds DEF LikesInv
  <2>4. CASE Cleared(mirror[t], read) = mirror[t]
    <3>1. UNCHANGED liked
      BY <1>0, <2>1, <2>2, <2>4 DEF LikesInv, MirrorTypeOK
    <3>2. QED
      BY <2>3, <3>1 DEF View!Leave, View!Done, View!Next
  <2>5. CASE ~Shown(Cleared(mirror[t], read)) /\ ~Positive(handler[h].key.kind)
    <3>1. liked' = [liked EXCEPT ![t] = FALSE]
      BY <1>0, <2>1, <2>2, <2>5 DEF LikesInv, MirrorTypeOK, Shown
    <3>2. asking[h] = {<<t, FALSE>>}
      BY <2>1, <2>5, Asked DEF AskOf, LocalWrite, Positive
    <3>3. View!Grant(h, t, FALSE)
      BY <2>3, <3>1, <3>2 DEF View!Grant, View!Done
    <3>4. QED
      BY <2>1, <3>3 DEF View!Next
  <2>6. ~Positive(handler[h].key.kind)
    BY <1>3 DEF ClearWanted
  <2>7. QED
    BY <2>1, <2>4, <2>5, <2>6, ViewOfUpdates DEF LikesInv, MirrorTypeOK
<1>4. ASSUME NEW h \in Handlers, LikeAbandon(h) PROVE View!Next
  <2>1. UNCHANGED liked
    BY <1>4 DEF LikeAbandon, Liked
  <2>2. asking' = [asking EXCEPT ![h] = {}]
    BY <1>4, AskEnds DEF LikesInv, LikeAbandon
  <2>3. QED
    BY <2>1, <2>2 DEF View!Leave, View!Done, View!Next
<1>5. ASSUME NEW h \in Handlers, LikeEnqueue(h) PROVE UNCHANGED <<liked, asking>>
  <2>1. \A g \in Handlers \ {h} : handler'[g] = handler[g]
    BY <1>5 DEF LikeEnqueue, CancelInverse, NothingToCancel, Insert, LikesInv, TypeOK
  <2>2. handler[h].pc # "local" /\ handler'[h].pc # "local"
    BY <1>5 DEF LikeEnqueue, CancelInverse, NothingToCancel, Insert, LikesInv, TypeOK,
                      NoRequest, Request
  <2>3. AskOf(handler[h]) = {} /\ AskOf(handler'[h]) = {}
    BY <2>2 DEF AskOf
  <2>4. \A g \in Handlers : AskOf(handler'[g]) = AskOf(handler[g])
    BY <2>1, <2>3
  <2>5. UNCHANGED asking
    BY <2>4, Asked
  <2>6. QED
    BY <1>5, <2>5 DEF LikeEnqueue, likeVars, Liked
<1>6. ASSUME UNCHANGED handler, UNCHANGED mirror PROVE UNCHANGED <<liked, asking>>
  BY <1>6 DEF Liked, AsksFor
<1>7. ASSUME NEW f \in Flushers, LikeConfirm(f) PROVE UNCHANGED <<liked, asking>>
  <2>1. PICK c : mirror' = [mirror EXCEPT ![c.key.target] =
                               Settled(mirror[c.key.target], c.key.kind)]
    BY <1>7 DEF LikeConfirm
  <2>2. \A t \in Targets : Shown(mirror'[t]) <=> Shown(mirror[t])
    BY <2>1, ViewOfUpdates DEF LikesInv, MirrorTypeOK
  <2>3. UNCHANGED liked
    BY <1>0, <2>2 DEF Shown
  <2>4. UNCHANGED asking
    BY <1>7 DEF LikeConfirm, Confirm, AsksFor
  <2>5. QED
    BY <2>3, <2>4
<1>8. ASSUME NEW f \in Flushers, LikeFlushStep(f) \/ LikeDrop(f)
      PROVE  UNCHANGED <<liked, asking>>
  BY <1>6, <1>7, <1>8
     DEF LikeFlushStep, LikeDrop, LikeCall, LikeRest, CallOk, CallFails, CallBlocked, TakeNext,
         ClaimBatch, ConfirmFails, DeleteDone, RecordBlocked, RecordFailure, Drop, likeVars
<1>9. ASSUME NEW h \in Handlers, ReadWanted(h) PROVE UNCHANGED <<liked, asking>>
  BY <1>6, <1>9 DEF ReadWanted, queueVars
<1>10. ASSUME LikeTick PROVE UNCHANGED <<liked, asking>>
  BY <1>6, <1>10 DEF LikeTick, Tick, likeVars
<1>11. ASSUME UNCHANGED vars PROVE UNCHANGED <<liked, asking>>
  BY <1>6, <1>11 DEF vars
<1>12. QED
  BY <1>1, <1>2, <1>3, <1>4, <1>5, <1>8, <1>9, <1>10, <1>11 DEF LikesNext, LikeHandlerStep

(* The user's view moves only by his requests, and only the way they ask:   *)
(* whatever the sync worker calls, confirms, retries or drops is a stutter  *)
(* of LikeView, for any number of requests, flushers and targets.           *)
THEOREM ViewRefined == LikesSpec => ViewSpec
<1>1. LikesInit => View!Init
  <2>1. LikesInit => \A h \in Handlers : AsksFor(h) = {}
    BY DEF LikesInit, Init, NoRequest, AsksFor
  <2>2. QED
    BY <2>1 DEF LikesInit, View!Init, Liked, Synced, NoMirror
<1>2. QED
  BY <1>1, ViewStep, LikesInvariant, PTL DEF LikesSpec, ViewSpec, View!Spec
-----------------------------------------------------------------------------
(* The cold refresh beside them.  It leaves the outbox and the requests as *)
(* they are, and a like it has still to upsert is one its pages showed.    *)
RefreshPcs == {"idle", "fetch", "upsert", "orphans"}
RefreshInv ==
    /\ QueueInv /\ MirrorTypeOK
    /\ refresh \in [Refreshers -> [pc : RefreshPcs, left : SUBSET Targets,
                                   items : SUBSET Targets, todo : SUBSET Targets]]
    /\ \A r \in Refreshers : refresh[r].todo \subseteq refresh[r].items
    /\ \A r \in Refreshers : refresh[r].pc = "idle" => refresh[r] = NoRefresh

(* A step that is not one of LikesSync. *)
Beside ==
    \/ RefreshStep \/ ExpireLock
    \/ \E t \in Targets : RemoteChange(t)

LEMMA BesideOutbox ==
    ASSUME RefreshInv, Beside
    PROVE  /\ UNCHANGED <<queue, flush, handler, requests, seen>>
           /\ QueueInv'
<1>1. ASSUME NEW r \in Refreshers, StartRefresh(r) \/ Working(r) \/ StopRefresh(r)
      PROVE  Untouched /\ (faults' = faults \/ Fault)
  <2>1. CASE StartRefresh(r) \/ StopRefresh(r) \/ DeleteOrphans(r)
    BY <2>1 DEF StartRefresh, StopRefresh, DeleteOrphans
  <2>2. ASSUME NEW ts \in SUBSET Targets, FetchPage(r, ts) PROVE Untouched /\ faults' = faults
    BY <2>2 DEF FetchPage
  <2>3. ASSUME NEW ts \in SUBSET Targets, UpsertChunk(r, ts) PROVE Untouched /\ faults' = faults
    BY <2>3 DEF UpsertChunk
  <2>4. QED
    BY <1>1, <2>1, <2>2, <2>3 DEF Working
<1>2. Untouched /\ (faults' = faults \/ Fault)
  <2>1. CASE RefreshStep
    BY <1>1, <2>1 DEF RefreshStep
  <2>2. CASE ExpireLock
    BY <2>2 DEF ExpireLock
  <2>3. ASSUME NEW t \in Targets, RemoteChange(t) PROVE Untouched /\ Fault
    BY <2>3 DEF RemoteChange
  <2>4. QED
    BY <2>1, <2>2, <2>3 DEF Beside
<1>3. TypeOK'
  BY <1>2, BoundsAssumption DEF RefreshInv, QueueInv, TypeOK, Fault, Untouched
<1>4. QED
  BY <1>2, <1>3, EasingStep DEF RefreshInv, RowEases, HoldsLess, Held, Untouched

(* What a refresh does to its record and to the mirror.                    *)
LEMMA RefreshKeeps ==
    ASSUME RefreshInv, NEW r \in Refreshers, StartRefresh(r) \/ Working(r) \/ StopRefresh(r)
    PROVE  RefreshInv'
<1>0. QueueInv' /\ UNCHANGED seen
  BY BesideOutbox DEF Beside, RefreshStep
<1>1. /\ NoRefresh \in [pc : RefreshPcs, left : SUBSET Targets, items : SUBSET Targets, todo : SUBSET Targets]
      /\ refresh[r] \in [pc : RefreshPcs, left : SUBSET Targets, items : SUBSET Targets, todo : SUBSET Targets]
      /\ refresh[r].todo \subseteq refresh[r].items
  BY DEF NoRefresh, RefreshPcs, RefreshInv
<1>2. ASSUME NEW u \in [pc : RefreshPcs, left : SUBSET Targets, items : SUBSET Targets, todo : SUBSET Targets],
             u.todo \subseteq u.items, u.pc = "idle" => u = NoRefresh, Keep(r, u),
             mirror' \in [Targets -> MirrorRow]
      PROVE  RefreshInv'
  BY <1>0, <1>2 DEF RefreshInv, MirrorTypeOK, Keep
<1>3. CASE StartRefresh(r)
  <2> DEFINE u == [NoRefresh EXCEPT !.pc = "fetch", !.left = Targets]
  <2>1. /\ u \in [pc : RefreshPcs, left : SUBSET Targets, items : SUBSET Targets, todo : SUBSET Targets]
        /\ u.todo \subseteq u.items /\ u.pc # "idle"
    BY DEF NoRefresh, RefreshPcs
  <2>2. Keep(r, u) /\ mirror' \in [Targets -> MirrorRow]
    BY <1>3 DEF StartRefresh, RefreshInv, MirrorTypeOK
  <2> HIDE DEF u
  <2>3. QED
    BY <1>2, <2>1, <2>2
<1>4. CASE StopRefresh(r)
  <2>1. Keep(r, NoRefresh) /\ mirror' \in [Targets -> MirrorRow]
    BY <1>4 DEF StopRefresh, RefreshInv, MirrorTypeOK
  <2>2. NoRefresh.todo \subseteq NoRefresh.items
    BY DEF NoRefresh
  <2>3. QED
    BY <1>1, <1>2, <2>1, <2>2
<1>5. ASSUME NEW page \in SUBSET Targets, FetchPage(r, page) PROVE RefreshInv'
  <2> DEFINE left == refresh[r].left \ page
             items == refresh[r].items \cup {t \in page : sc[t]}
             u == [pc |-> IF left # {} THEN "fetch" ELSE IF items # {} THEN "upsert" ELSE "orphans",
                   left |-> left, items |-> items, todo |-> items]
  <2>1. left \in SUBSET Targets /\ items \in SUBSET Targets
    BY <1>1
  <2>2. Keep(r, u) /\ mirror' \in [Targets -> MirrorRow]
    BY <1>5 DEF FetchPage, RefreshInv, MirrorTypeOK
  <2> HIDE DEF left, items
  <2>3. /\ u \in [pc : RefreshPcs, left : SUBSET Targets, items : SUBSET Targets, todo : SUBSET Targets]
        /\ u.todo \subseteq u.items /\ u.pc # "idle"
    BY <2>1 DEF RefreshPcs
  <2> HIDE DEF u
  <2>4. QED
    BY <1>2, <2>2, <2>3
<1>6. ASSUME NEW chunk \in SUBSET Targets, UpsertChunk(r, chunk) PROVE RefreshInv'
  <2> DEFINE todo == refresh[r].todo \ chunk
             u == [refresh[r] EXCEPT !.todo = todo, !.pc = IF todo = {} THEN "orphans" ELSE "upsert"]
  <2>1. /\ u \in [pc : RefreshPcs, left : SUBSET Targets, items : SUBSET Targets, todo : SUBSET Targets]
        /\ u.todo \subseteq u.items /\ u.pc # "idle"
    BY <1>1 DEF RefreshPcs
  <2>2. Keep(r, u)
    BY <1>6 DEF UpsertChunk
  <2>3. mirror' \in [Targets -> MirrorRow]
    BY <1>6 DEF UpsertChunk, RefreshInv, MirrorTypeOK, MirrorRow
  <2> HIDE DEF u
  <2>4. QED
    BY <1>2, <2>1, <2>2, <2>3
<1>7. CASE DeleteOrphans(r)
  <2>1. mirror' \in [Targets -> MirrorRow]
    BY <1>7 DEF DeleteOrphans, RefreshInv, MirrorTypeOK, MirrorRow
  <2>2. Keep(r, NoRefresh) /\ NoRefresh.todo \subseteq NoRefresh.items
    BY <1>7 DEF DeleteOrphans, NoRefresh
  <2>3. QED
    BY <1>1, <1>2, <2>1, <2>2
<1>8. QED
  BY <1>3, <1>4, <1>5, <1>6, <1>7 DEF Working

LEMMA RefreshingStep == RefreshInv /\ [RefreshNext]_allVars => RefreshInv'
<1> SUFFICES ASSUME RefreshInv, [RefreshNext]_allVars PROVE RefreshInv'
  OBVIOUS
<1>1. CASE LikesStep \/ UNCHANGED allVars
  <2>1. [LikesNext]_vars /\ UNCHANGED refresh
    BY <1>1 DEF LikesStep, refreshVars, allVars, vars
  <2>2. QueueInv' /\ MirrorTypeOK'
    BY <2>1, StepIsQueueStep, NextInv, MirrorTyped DEF RefreshInv, QueueInv
  <2>3. QED
    BY <2>1, <2>2 DEF RefreshInv
<1>2. CASE ExpireLock \/ \E t \in Targets : RemoteChange(t)
  <2>1. QueueInv' /\ UNCHANGED seen
    BY <1>2, BesideOutbox DEF Beside
  <2>2. UNCHANGED <<mirror, refresh>>
    BY <1>2 DEF ExpireLock, RemoteChange
  <2>3. QED
    BY <2>1, <2>2 DEF RefreshInv, MirrorTypeOK
<1>3. QED
  BY <1>1, <1>2, RefreshKeeps DEF RefreshNext, RefreshStep

LEMMA RefreshInvariant == RefreshSpec => []RefreshInv
<1>1. RefreshInit => RefreshInv
  <2> SUFFICES ASSUME RefreshInit PROVE RefreshInv
    OBVIOUS
  <2>1. QueueInv
    BY InitInv DEF RefreshInit, LikesInit
  <2>2. MirrorTypeOK
    BY DEF RefreshInit, LikesInit, MirrorTypeOK, MirrorRow
  <2>3. QED
    BY <2>1, <2>2 DEF RefreshInit, RefreshInv, NoRefresh, RefreshPcs
<1>2. QED
  BY <1>1, RefreshingStep, PTL DEF RefreshSpec

(* The lock discipline of the outbox holds with any number of refreshes    *)
(* running beside it and with changes on SoundCloud's side.                *)
THEOREM RefreshSparesLocks == RefreshSpec => []NoTakeover /\ OnlyHolderRemoves
<1>1. RefreshInv => NoTakeover
  BY TimingAssumption DEF RefreshInv, QueueInv, LocksYoung, NoTakeover, TypeOK, Flush
<1>2. RefreshInv /\ [RefreshNext]_allVars =>
        [\A k \in Key :
          (Present(k) /\ queue[k].locked /\ queue'[k].id # queue[k].id)
              => \E f \in Flushers : \E c \in flush[f].cur :
                    c.key = k /\ c.id = queue[k].id]_queueVars
  <2> SUFFICES ASSUME RefreshInv, [RefreshNext]_allVars, NEW k \in Key,
                      Present(k), queue[k].locked, queue'[k].id # queue[k].id
               PROVE  \E f \in Flushers : \E c \in flush[f].cur : c.key = k /\ c.id = queue[k].id
    OBVIOUS
  <2>1. ~Beside /\ ~UNCHANGED allVars
    BY BesideOutbox DEF allVars
  <2>2. [LikesNext]_vars
    BY <2>1 DEF RefreshNext, Beside, LikesStep
  <2>3. [Next]_queueVars
    BY <2>2, StepIsQueueStep
  <2>4. QED
    BY <2>3, HolderRemoves DEF RefreshInv
<1>3. QED
  BY <1>1, <1>2, RefreshInvariant, PTL DEF RefreshSpec, OnlyHolderRemoves

(* In LikeView a switch moves the way a request asks.                      *)
LEMMA AskedMoves ==
    ASSUME [View!Next]_<<[t \in Targets |-> Liked(t)], [h \in Handlers |-> AsksFor(h)]>>,
           NEW t \in Targets, Liked(t)' # Liked(t)
    PROVE  \E h \in Handlers : <<t, Liked(t)'>> \in AsksFor(h)
<1>1. ~UNCHANGED [x \in Targets |-> Liked(x)]
  BY DEF Liked
<1>2. PICK h \in Handlers, x \in Targets, value \in BOOLEAN : View!Grant(h, x, value)
  BY <1>1 DEF View!Next, View!Ask, View!Leave
<1>3. [y \in Targets |-> Liked(y)]' = [[y \in Targets |-> Liked(y)] EXCEPT ![x] = value]
  BY <1>2 DEF View!Grant
<1>4. x = t /\ Liked(t)' = value
  BY <1>3 DEF Liked
<1>5. <<x, value>> \in AsksFor(h)
  BY <1>2 DEF View!Grant
<1>6. QED
  BY <1>4, <1>5

(* Requests and refreshes together: what a user sees of a target moves by  *)
(* his own request, or by a refresh that saw otherwise on SoundCloud, and  *)
(* never under a request that waits for its confirmation.                  *)
THEOREM RefreshCorrectsSettled == RefreshSpec => OnlySettledCorrected
<1> DEFINE Moves(t) ==
             Liked(t)' # Liked(t) =>
               \/ \E h \in Handlers : <<t, Liked(t)'>> \in AsksFor(h)
               \/ /\ ~mirror[t].progress
                  /\ \E r \in Refreshers :
                        refresh[r] # NoRefresh /\ (t \in refresh[r].items) = Liked(t)'
<1>1. ASSUME RefreshInv, LikesStep, NEW t \in Targets PROVE Moves(t)
  BY <1>1, ViewStep, AskedMoves DEF LikesStep, RefreshInv, QueueInv, LikesInv
<1>2. ASSUME RefreshInv, NEW r \in Refreshers, NEW t \in Targets,
             StartRefresh(r) \/ Working(r) \/ StopRefresh(r)
      PROVE  Moves(t)
  <2>1. mirror[t] \in MirrorRow
    BY <1>2 DEF RefreshInv, MirrorTypeOK
  <2>2. ASSUME NEW chunk, UpsertChunk(r, chunk), Liked(t)' # Liked(t)
        PROVE  ~mirror[t].progress /\ refresh[r] # NoRefresh /\ (t \in refresh[r].items) = Liked(t)'
    <3>1. t \in chunk /\ ~mirror[t].present /\ mirror'[t] = Synced
      BY <2>2 DEF UpsertChunk, Liked
    <3>2. t \in refresh[r].items /\ refresh[r] # NoRefresh
      BY <1>2, <2>2, <3>1 DEF UpsertChunk, RefreshInv, NoRefresh
    <3>3. ~mirror[t].progress /\ Liked(t)' = TRUE
      BY <2>1, <3>1 DEF MirrorRow, NoMirror, Pending, Synced, Unwanted, Liked
    <3>4. QED
      BY <3>2, <3>3
  <2>3. ASSUME DeleteOrphans(r), Liked(t)' # Liked(t)
        PROVE  ~mirror[t].progress /\ refresh[r] # NoRefresh /\ (t \in refresh[r].items) = Liked(t)'
    <3>1. Orphan(t, refresh[r].items) /\ mirror'[t] = NoMirror
      BY <2>3 DEF DeleteOrphans, Liked
    <3>2. refresh[r] # NoRefresh
      BY <2>3 DEF DeleteOrphans, NoRefresh
    <3>3. ~mirror[t].progress /\ (t \in refresh[r].items) = FALSE /\ Liked(t)' = FALSE
      BY <3>1 DEF Orphan, Synced, NoMirror, Liked
    <3>4. QED
      BY <3>2, <3>3
  <2>4. ASSUME UNCHANGED mirror PROVE Moves(t)
    BY <2>4 DEF Liked
  <2>5. CASE StartRefresh(r) \/ StopRefresh(r)
    BY <2>4, <2>5 DEF StartRefresh, StopRefresh
  <2>6. ASSUME NEW page \in SUBSET Targets, FetchPage(r, page) PROVE Moves(t)
    <3>1. UNCHANGED mirror
      BY <2>6 DEF FetchPage
    <3>2. QED
      BY <2>4, <3>1
  <2>7. ASSUME NEW chunk \in SUBSET Targets, UpsertChunk(r, chunk) PROVE Moves(t)
    BY <2>2, <2>7
  <2>8. CASE DeleteOrphans(r)
    BY <2>3, <2>8
  <2>9. QED
    BY <1>2, <2>5, <2>6, <2>7, <2>8 DEF Working
<1>3. ASSUME NEW t \in Targets, UNCHANGED mirror PROVE Moves(t)
  BY <1>3 DEF Liked
<1> HIDE DEF Moves
<1>4. RefreshInv /\ [RefreshNext]_allVars => [\A t \in Targets : Moves(t)]_allVars
  BY <1>1, <1>2, <1>3 DEF RefreshNext, RefreshStep, ExpireLock, RemoteChange, allVars
<1>5. QED
  BY <1>4, RefreshInvariant, PTL DEF RefreshSpec, OnlySettledCorrected, Moves
=============================================================================
