---------------------------- MODULE StorageProofs ----------------------------
(***************************************************************************)
(* Proofs about StoragePipeline and its TmpQuota, for any uploads, files    *)
(* and limits.                                                             *)
(***************************************************************************)
EXTENDS StoragePipeline, FiniteSetTheorems, TLAPS

USE DEF Places, Awaiting, Receiving, Ends, Stages, Request

(* The counter's range holds the limit. *)
LEMMA CounterFits == CounterMod \in Nat /\ CounterMod > Limit /\ Limit \in Nat
<1>1. Cardinality(Uploads) \in Nat
  BY QuotaAssumption, FS_CardinalityType
<1> QED
  BY <1>1, QuotaAssumption

(* Whatever is added or subtracted, the counter stays in its range. *)
LEMMA CounterRange ==
    ASSUME NEW n \in Int
    PROVE  n % CounterMod \in 0 .. CounterMod - 1
  BY CounterFits, QuotaAssumption

(* A dropped reservation leaves counter and reservations well typed. *)
LEMMA DropTyped ==
    ASSUME QuotaTypeOK, NEW u \in Uploads, DropReservation(u)
    PROVE  used' \in 0 .. CounterMod - 1 /\ reserved' \in [Uploads -> Nat]
<1>1. used \in Int /\ reserved[u] \in Int /\ used - reserved[u] \in Int
  BY QuotaAssumption DEF QuotaTypeOK
<1> QED
  BY <1>1, CounterRange DEF QuotaTypeOK, DropReservation, Counter

(* Each try_add keeps the types. *)
LEMMA TryAddTyped ==
    ASSUME QuotaTypeOK, NEW u \in Uploads, NEW p, NEW r \in Places, TryAdd(u, p, r)
    PROVE  QuotaTypeOK'
<1>1. used' \in 0 .. CounterMod - 1
  <2>1. used + 1 \in Int
    BY QuotaAssumption DEF QuotaTypeOK
  <2>2. CASE Limited
    BY <2>1, <2>2, CounterRange DEF TryAdd, Counter
  <2>3. CASE ~Limited
    BY <2>3 DEF QuotaTypeOK, TryAdd
  <2> QED
    BY <2>2, <2>3
<1>2. handler' \in [Uploads -> Places] /\ reserved' \in [Uploads -> Nat]
  BY DEF QuotaTypeOK, TryAdd, Go
<1> QED
  BY <1>1, <1>2 DEF QuotaTypeOK, TryAdd

(* Taking a refused chunk back keeps the counter in its range. *)
LEMMA TakeBackTyped ==
    ASSUME QuotaTypeOK, TakeBack
    PROVE  used' \in 0 .. CounterMod - 1
<1>1. used - 1 \in Int
  BY QuotaAssumption DEF QuotaTypeOK
<1> QED
  BY <1>1, CounterRange DEF TakeBack, Counter

(* One more fault is still within the bound. *)
LEMMA FaultTyped ==
    ASSUME QuotaTypeOK, Fault
    PROVE  faults' \in 0 .. MaxFaults
  BY QuotaAssumption DEF QuotaTypeOK, Fault

(* A rescan keeps the types, whatever it finds. *)
LEMMA FinishTyped ==
    ASSUME QuotaTypeOK, NEW u \in Uploads, FinishRescan(u)
    PROVE  QuotaTypeOK'
<1>1. used' \in 0 .. CounterMod - 1
  <2>1. used \in Int /\ rescan.pre \in Int /\ rescan.seen \in Int
    BY QuotaAssumption DEF QuotaTypeOK
  <2>2. used - (rescan.pre - rescan.seen) \in Int
    BY <2>1
  <2> QED
    BY <2>2, CounterRange DEF QuotaTypeOK, FinishRescan, Counter
<1>2. handler' \in [Uploads -> Places]
  BY DEF QuotaTypeOK, FinishRescan, From, Go
<1>3. rescan' \in [pre : Nat, seen : Nat, unread : SUBSET Uploads]
  BY DEF FinishRescan, NoRescan
<1> QED
  BY <1>1, <1>2, <1>3 DEF QuotaTypeOK, FinishRescan

(* The steps of a receiving handler keep the types. *)
LEMMA ReceiveTyped ==
    ASSUME QuotaTypeOK, NEW u \in Uploads, Receive(u)
    PROVE  QuotaTypeOK'
<1>1. CASE Begin(u)
  BY <1>1 DEF QuotaTypeOK, Begin, From, Go
<1>2. CASE Chunk(u)
  BY <1>2, TryAddTyped DEF Chunk
<1>3. CASE Undo(u)
  BY <1>3, TakeBackTyped DEF QuotaTypeOK, Undo, From, Go
<1>4. CASE SkipRescan(u)
  BY <1>4 DEF QuotaTypeOK, SkipRescan, From, Go
<1>5. CASE StartRescan(u)
  <2>1. rescan' \in [pre : Nat, seen : Nat, unread : SUBSET Uploads]
    BY <1>5, QuotaAssumption DEF QuotaTypeOK, StartRescan
  <2> QED
    BY <1>5, <2>1 DEF QuotaTypeOK, StartRescan, From, Go
<1>6. CASE Look(u)
  <2>1. PICK v \in rescan.unread :
           rescan' = [pre |-> rescan.pre, seen |-> rescan.seen + source[v],
                      unread |-> rescan.unread \ {v}]
    BY <1>6 DEF Look
  <2>2. v \in Uploads /\ source[v] \in Nat /\ rescan.seen \in Nat /\ rescan.pre \in Nat
    BY DEF QuotaTypeOK
  <2>3. rescan' \in [pre : Nat, seen : Nat, unread : SUBSET Uploads]
    BY <2>1, <2>2 DEF QuotaTypeOK
  <2> QED
    BY <1>6, <2>3 DEF QuotaTypeOK, Look
<1>7. CASE FinishRescan(u)
  BY <1>7, FinishTyped
<1>8. CASE WalkFails(u)
  <2>1. rescan' \in [pre : Nat, seen : Nat, unread : SUBSET Uploads]
    BY <1>8 DEF WalkFails, NoRescan
  <2> QED
    BY <1>8, <2>1, FaultTyped DEF QuotaTypeOK, WalkFails, From, Go
<1>9. CASE Retry(u)
  BY <1>9, TryAddTyped DEF Retry
<1>10. CASE Refuse(u)
  BY <1>10, TakeBackTyped DEF QuotaTypeOK, Refuse, From, Go
<1>11. CASE Write(u)
  BY <1>11 DEF QuotaTypeOK, Write, From, Go
<1>12. CASE EndOfFile(u)
  BY <1>12 DEF QuotaTypeOK, EndOfFile, From, Go
<1>13. CASE ReadFails(u)
  BY <1>13, FaultTyped DEF QuotaTypeOK, ReadFails, From, Go
<1>14. CASE InvalidName(u)
  BY <1>14 DEF QuotaTypeOK, InvalidName, From, Go
<1>15. CASE Discard(u)
  BY <1>15 DEF QuotaTypeOK, Discard, Discarded, From, Go
<1>16. CASE IoFails(u)
  BY <1>16, FaultTyped, DropTyped DEF QuotaTypeOK, IoFails, Go
<1>17. CASE Leave(u)
  BY <1>17, DropTyped DEF QuotaTypeOK, Leave, From, Go
<1> QED
  BY <1>1, <1>2, <1>3, <1>4, <1>5, <1>6, <1>7, <1>8, <1>9, <1>10, <1>11, <1>12, <1>13,
     <1>14, <1>15, <1>16, <1>17 DEF Receive

(* An untouched quota stays well typed. *)
LEMMA QuotaStutter ==
    ASSUME QuotaTypeOK, UNCHANGED quotaVars
    PROVE  QuotaTypeOK'
  BY DEF QuotaTypeOK, quotaVars

(* A failure of the pipeline only counts. *)
LEMMA FaultOnlyTyped ==
    ASSUME QuotaTypeOK, FaultOnly
    PROVE  QuotaTypeOK'
  BY FaultTyped DEF QuotaTypeOK, FaultOnly

(* The steps of the pipeline keep the quota's types. *)
LEMMA PipelineQuota ==
    ASSUME QuotaTypeOK, NEW u \in Uploads, Pipeline(u) \/ PipelineFault(u)
    PROVE  QuotaTypeOK'
<1>1. CASE CleanSource(u)
  BY <1>1 DEF QuotaTypeOK, CleanSource, SourceGone, Discarded
<1>2. CASE Tell(u)
  BY <1>2, QuotaStutter DEF QuotaTypeOK, Tell, Reply, Answer, From, Go
<1>3. CASE Unheard(u)
  BY <1>3, QuotaStutter DEF QuotaTypeOK, Unheard, Reply, Answer, From, Go
<1>4. CASE UNCHANGED quotaVars
  BY <1>4, QuotaStutter
<1>5. CASE FaultOnly
  BY <1>5, FaultOnlyTyped
<1> QED
  BY <1>1, <1>2, <1>3, <1>4, <1>5
     DEF Pipeline, PipelineFault, TooShort, SingleOk, SingleFails, KeepExisting, WillReplace,
         Move, MoveFails, Replace, Swap, StoredBy, ProbeFails, ReplaceFails, RemoveFirst,
         SwapFails

(* The steps of one job keep the pipeline's types. *)
LEMMA PipelineTyped ==
    ASSUME TypeOK, NEW u \in Uploads, Pipeline(u) \/ PipelineFault(u)
    PROVE  TypeOK'
<1> USE DEF TypeOK
<1>00. QuotaTypeOK'
  BY PipelineQuota
<1> USE <1>00
<1>0. File(u) \in Files /\ Secs(u) \in Nat
  BY DEF File, Secs
<1>1. CASE TooShort(u)
  BY <1>1 DEF TooShort, Step, To, Result, storeVars
<1>2. CASE SingleOk(u)
  BY <1>2 DEF SingleOk, Step, To, Put, storeVars
<1>3. CASE SingleFails(u)
  BY <1>3 DEF SingleFails, Step, To, Result, storeVars
<1>4. CASE KeepExisting(u)
  BY <1>4 DEF KeepExisting, Step, To, Put, Result, storeVars
<1>5. CASE WillReplace(u)
  BY <1>5 DEF WillReplace, Step, To, storeVars
<1>6. CASE Move(u)
  BY <1>6 DEF Move, Step, To, Put, storeVars
<1>7. ASSUME NEW from, NEW where \in {"none", "result", "stage"}, AttemptFails(u, from, where),
             UNCHANGED stored
      PROVE  TypeOK'
  <2>1. stage' \in [Uploads -> Stages]
    BY <1>7 DEF AttemptFails, To
  <2>2. ok' \in [Uploads -> BOOLEAN]
    BY <1>7 DEF AttemptFails, Result
  <2>3. place' \in [Uploads -> {"none", "result", "stage"}]
    BY <1>7 DEF AttemptFails, Put, DropTranscode
  <2>4. tries' \in [Uploads -> Nat]
    BY <1>7 DEF AttemptFails
  <2> QED
    BY <1>7, <2>1, <2>2, <2>3, <2>4 DEF AttemptFails
<1>8. CASE MoveFails(u)
  BY <1>8, <1>7 DEF MoveFails
<1>9. ASSUME NEW from, StoredBy(u, from)
      PROVE  TypeOK'
  BY <1>9, <1>0 DEF StoredBy, Step, To, Result, Put
<1>10. CASE Replace(u) \/ Swap(u)
  BY <1>10, <1>9 DEF Replace, Swap
<1>11. CASE CleanSource(u)
  BY <1>11 DEF CleanSource, Step, To, storeVars
<1>12. CASE Tell(u)
  BY <1>12, <1>0 DEF Tell, Published, Step, To
<1>13. CASE ProbeFails(u)
  BY <1>13, <1>0 DEF ProbeFails, Step, To
<1>14. CASE ReplaceFails(u) \/ SwapFails(u)
  BY <1>14, <1>7 DEF ReplaceFails, SwapFails
<1>15. CASE RemoveFirst(u)
  BY <1>15, <1>0 DEF RemoveFirst, Step, To
<1>16. CASE Unheard(u)
  BY <1>16 DEF Unheard, Step, To, storeVars
<1> QED
  BY <1>1, <1>2, <1>3, <1>4, <1>5, <1>6, <1>8, <1>10, <1>11, <1>12, <1>13, <1>14, <1>15,
     <1>16 DEF Pipeline, PipelineFault

(* A batch's end keeps the types. *)
LEMMA BatchTyped ==
    ASSUME TypeOK, NEW b \in SUBSET Uploads, Dispatch(b) \/ Batch(b)
    PROVE  TypeOK'
<1>1. CASE Dispatch(b)
  BY <1>1, QuotaStutter DEF TypeOK, Dispatch, storeVars
<1>2. ASSUME NEW n \in Stages, NEW w \in {"none", "result", "stage"}, NEW r \in BOOLEAN,
             Transcoded(b, n, w, r), QuotaTypeOK'
      PROVE  TypeOK'
  BY <1>2 DEF TypeOK, Transcoded, storeVars
<1>3. CASE BatchOk(b)
  BY <1>3, <1>2, QuotaStutter DEF TypeOK, BatchOk
<1>4. CASE BatchFails(b)
  <2>1. QuotaTypeOK'
    BY <1>4, QuotaStutter, FaultOnlyTyped DEF TypeOK, BatchFails
  <2> QED
    BY <1>4, <1>2, <2>1 DEF BatchFails
<1> QED
  BY <1>1, <1>3, <1>4 DEF Batch

(* Each step keeps the types. *)
LEMMA TypeStep ==
    ASSUME TypeOK, [Next]_vars
    PROVE  TypeOK'
<1>1. ASSUME NEW u \in Uploads, Receive(u), UNCHANGED pipeVars
      PROVE  TypeOK'
  BY <1>1, ReceiveTyped DEF TypeOK, pipeVars, jobVars, storeVars
<1>2. ASSUME NEW u \in Uploads, Disconnect(u), UNCHANGED pipeVars
      PROVE  TypeOK'
  <2>1. used' \in 0 .. CounterMod - 1 /\ reserved' \in [Uploads -> Nat]
    BY <1>2, DropTyped DEF TypeOK, Disconnect
  <2>2. rescan' \in [pre : Nat, seen : Nat, unread : SUBSET Uploads]
    BY <1>2 DEF TypeOK, QuotaTypeOK, Disconnect, NoRescan
  <2>3. handler' \in [Uploads -> Places] /\ source' \in [Uploads -> Nat]
    BY <1>2 DEF TypeOK, QuotaTypeOK, Disconnect, Go
  <2>4. faults' \in 0 .. MaxFaults
    BY <1>2, FaultTyped DEF TypeOK, Disconnect
  <2>5. QuotaTypeOK'
    BY <1>2, <2>1, <2>2, <2>3, <2>4 DEF TypeOK, QuotaTypeOK, Disconnect
  <2> QED
    BY <1>2, <2>5 DEF TypeOK, pipeVars, jobVars, storeVars
<1>3. ASSUME NEW u \in Uploads, SubmitJob(u)
      PROVE  TypeOK'
  <2>1. QuotaTypeOK'
    BY <1>3 DEF TypeOK, QuotaTypeOK, SubmitJob, Submit, From, Go
  <2>2. PICK f \in Files, secs \in Durations :
           request' = [request EXCEPT ![u] = [file |-> f, secs |-> secs]]
    BY <1>3 DEF SubmitJob
  <2>3. secs \in Nat
    BY PipelineAssumption
  <2>4. request' \in [Uploads -> Request]
    BY <2>2, <2>3 DEF TypeOK
  <2>5. contested' \subseteq Files
    BY <1>3 DEF TypeOK, SubmitJob
  <2> QED
    BY <1>3, <2>1, <2>4, <2>5 DEF TypeOK, SubmitJob, To
<1>4. ASSUME NEW f \in Files, Delete(f)
      PROVE  TypeOK'
  BY <1>4, QuotaStutter DEF TypeOK, Delete, jobVars
<1>5. CASE Cool /\ UNCHANGED pipeVars
  BY <1>5 DEF TypeOK, QuotaTypeOK, Cool, pipeVars, jobVars, storeVars
<1>6. CASE RestartAll
  <2>1. QuotaTypeOK'
    <3>1. rescan' \in [pre : Nat, seen : Nat, unread : SUBSET Uploads]
      BY <1>6 DEF RestartAll, Restart, NoRescan
    <3>2. used' \in 0 .. CounterMod - 1
      BY <1>6, CounterFits, QuotaAssumption DEF RestartAll, Restart
    <3> QED
      BY <1>6, <3>1, <3>2, FaultTyped DEF TypeOK, QuotaTypeOK, RestartAll, Restart
  <2> QED
    BY <1>6, <2>1 DEF TypeOK, RestartAll, storeVars
<1>7. CASE UNCHANGED vars
  BY <1>7, QuotaStutter DEF TypeOK, vars, pipeVars, jobVars, storeVars
<1> QED
  BY <1>1, <1>2, <1>3, <1>4, <1>5, <1>6, <1>7, PipelineTyped, BatchTyped DEF Next

(* The initial states are well typed. *)
LEMMA InitTyped == Init => TypeOK
<1> SUFFICES ASSUME Init PROVE TypeOK
  OBVIOUS
<1>1. QuotaTypeOK
  <2>1. rescan \in [pre : Nat, seen : Nat, unread : SUBSET Uploads]
    BY DEF Init, QuotaInit, NoRescan
  <2>2. used \in 0 .. CounterMod - 1 /\ faults \in 0 .. MaxFaults
    BY CounterFits, QuotaAssumption DEF Init, QuotaInit
  <2>3. handler \in [Uploads -> Places]
    BY DEF Init, QuotaInit
  <2> QED
    BY <2>1, <2>2, <2>3 DEF Init, QuotaInit, QuotaTypeOK
<1>2. request \in [Uploads -> Request]
  BY DEF Init
<1> QED
  BY <1>1, <1>2 DEF Init, TypeOK

(* The variables of the storage service keep their types. *)
THEOREM StorageTyped == Spec => []TypeOK
  BY InitTyped, TypeStep, PTL DEF Spec

-----------------------------------------------------------------------------
(* What the invariant needs to know of a receiving handler's step: where it *)
(* comes from, where it goes, and what becomes of its file.                 *)
Early == {"idle", "discard", "ready"} \cup Receiving

Moves(u) ==
    /\ handler[u] \in Early \cup {"leave"}
    /\ \E p \in Early \cup {"leave", "done", "failed"} :
          /\ handler' = [handler EXCEPT ![u] = p]
          /\ p = "leave" => handler[u] \in Early /\ source'[u] = 0
          /\ p \in Early => handler[u] \in Early
          /\ p = "done" => handler[u] = "leave"
    /\ \A v \in Uploads : v # u => source'[v] = source[v]
    /\ handler[u] = "leave" => source' = source

LEMMA ReceiveMoves ==
    ASSUME TypeOK, NEW u \in Uploads, Receive(u)
    PROVE  Moves(u)
<1> USE DEF Moves, Early, TypeOK, QuotaTypeOK
<1>1. CASE Begin(u)
  BY <1>1 DEF Begin, From, Go
<1>2. CASE Chunk(u)
  <2>1. PICK p \in {"write", "undo"} : handler' = [handler EXCEPT ![u] = p]
    BY <1>2 DEF Chunk, TryAdd, Go
  <2>2. handler[u] = "receive" /\ source' = source
    BY <1>2 DEF Chunk, TryAdd
  <2> QED
    BY <2>1, <2>2
<1>3. CASE Undo(u)
  BY <1>3 DEF Undo, From, Go
<1>4. CASE SkipRescan(u)
  BY <1>4 DEF SkipRescan, From, Go
<1>5. CASE StartRescan(u)
  BY <1>5 DEF StartRescan, From, Go
<1>6. CASE Look(u)
  <2>1. handler' = [handler EXCEPT ![u] = "walk"] /\ source' = source /\ handler[u] = "walk"
    BY <1>6 DEF Look
  <2> QED
    BY <2>1
<1>7. CASE FinishRescan(u)
  BY <1>7 DEF FinishRescan, From, Go
<1>8. CASE WalkFails(u)
  BY <1>8 DEF WalkFails, From, Go
<1>9. CASE Retry(u)
  BY <1>9 DEF Retry, TryAdd, Go
<1>10. CASE Refuse(u)
  BY <1>10 DEF Refuse, From, Go
<1>11. CASE Write(u)
  BY <1>11 DEF Write, From, Go
<1>12. CASE EndOfFile(u)
  <2>1. PICK p \in {"discard", "ready"} : handler' = [handler EXCEPT ![u] = p]
    BY <1>12 DEF EndOfFile, From, Go
  <2>2. handler[u] = "receive" /\ source' = source
    BY <1>12 DEF EndOfFile, From
  <2> QED
    BY <2>1, <2>2
<1>13. CASE ReadFails(u)
  BY <1>13 DEF ReadFails, From, Go
<1>14. CASE InvalidName(u)
  BY <1>14 DEF InvalidName, From, Go
<1>15. CASE Discard(u)
  BY <1>15 DEF Discard, Discarded, From, Go
<1>16. CASE IoFails(u)
  BY <1>16 DEF IoFails, Go
<1>17. CASE Leave(u)
  BY <1>17 DEF Leave, From, Go
<1> QED
  BY <1>1, <1>2, <1>3, <1>4, <1>5, <1>6, <1>7, <1>8, <1>9, <1>10, <1>11, <1>12, <1>13,
     <1>14, <1>15, <1>16, <1>17 DEF Receive

(* OneJob, Fresh and Committed speak of the pipeline only. *)
LEMMA PipeStutter ==
    ASSUME StorageInv, UNCHANGED pipeVars
    PROVE  OneJob' /\ Fresh' /\ Committed'
  BY DEF StorageInv, OneJob, Fresh, Committed, EventAfterCommit, Live, File, Secs, pipeVars,
         jobVars, storeVars

(* A handler that receives has no job yet. *)
LEMMA ReceiveInv ==
    ASSUME TypeOK, StorageInv, NEW u \in Uploads, Receive(u), UNCHANGED pipeVars
    PROVE  StorageInv'
<1>1. Moves(u)
  BY ReceiveMoves
<1>2. PICK p \in Early \cup {"leave", "done", "failed"} :
          /\ handler' = [handler EXCEPT ![u] = p]
          /\ p = "leave" => handler[u] \in Early /\ source'[u] = 0
          /\ p \in Early => handler[u] \in Early
          /\ p = "done" => handler[u] = "leave"
  BY <1>1 DEF Moves
<1>3. stage' = stage /\ place' = place
  BY DEF pipeVars, jobVars
<1>4. Handed'
  BY <1>1, <1>2, <1>3 DEF Handed, StorageInv, Live, Moves, Early, TypeOK, QuotaTypeOK
<1>5. Emptied'
  <2> SUFFICES ASSUME NEW v \in Uploads
               PROVE  /\ stage[v] \in {"none", "queued", "batch", "single", "clean", "tell",
                                         "over"} => place[v] = "none"
                      /\ stage[v] \in {"tell", "over"} => source'[v] = 0
                      /\ handler'[v] \in {"leave", "done"} => source'[v] = 0 /\ place[v] = "none"
    BY <1>3 DEF Emptied
  <2>1. CASE v # u
    BY <1>1, <1>2, <2>1 DEF StorageInv, Emptied, Moves, TypeOK, QuotaTypeOK
  <2>2. CASE v = u /\ handler[u] = "leave"
    BY <1>1, <1>2, <2>2 DEF StorageInv, Emptied, Moves, TypeOK, QuotaTypeOK, Early
  <2>3. CASE v = u /\ handler[u] \in Early
    <3>1. stage[u] = "none"
      BY <2>3 DEF StorageInv, Handed, Early
    <3>2. handler'[u] = p
      BY <1>2 DEF TypeOK, QuotaTypeOK
    <3> QED
      BY <1>1, <1>2, <2>3, <3>1, <3>2 DEF StorageInv, Emptied, Early
  <2> QED
    BY <1>1, <2>1, <2>2, <2>3 DEF Moves
<1> QED
  BY <1>4, <1>5, PipeStutter DEF StorageInv

(* A dropped handler leaves its job to itself. *)
LEMMA DisconnectInv ==
    ASSUME TypeOK, StorageInv, NEW u \in Uploads, Disconnect(u), UNCHANGED pipeVars
    PROVE  StorageInv'
<1>1. handler' = [handler EXCEPT ![u] = IF handler[u] = "submitted" THEN "orphan" ELSE "gone"]
      /\ handler[u] \in Awaiting
  BY DEF Disconnect, Go
<1>2. stage' = stage /\ place' = place
  BY DEF pipeVars, jobVars
<1>3. PICK n \in {0, 1} : /\ n = 1 => handler[u] = "write"
                          /\ source' = [source EXCEPT ![u] = @ + n]
  BY DEF Disconnect
<1>4. Handed'
  BY <1>1, <1>2 DEF StorageInv, Handed, Live, TypeOK, QuotaTypeOK
<1>5. Emptied'
  <2>1. \A v \in Uploads : stage[v] \in {"tell", "over"} => source'[v] = source[v]
    BY <1>3 DEF StorageInv, Handed, TypeOK, QuotaTypeOK
  <2>2. \A v \in Uploads : handler'[v] \in {"leave", "done"} =>
           handler[v] \in {"leave", "done"} /\ source'[v] = source[v]
    BY <1>1, <1>3 DEF TypeOK, QuotaTypeOK
  <2> QED
    BY <1>2, <2>1, <2>2 DEF StorageInv, Emptied
<1> QED
  BY <1>4, <1>5, PipeStutter DEF StorageInv

(* A submitted upload shares its file with no upload that has a handler.   *)
LEMMA SubmitInv ==
    ASSUME TypeOK, StorageInv, NEW u \in Uploads, SubmitJob(u)
    PROVE  StorageInv'
<1>1. PICK f \in Files, secs \in Durations :
          /\ LockFree(f)
          /\ request' = [request EXCEPT ![u] = [file |-> f, secs |-> secs]]
          /\ contested' = IF \E v \in Uploads : handler[v] = "orphan" /\ Live(v) /\ File(v) = f
                          THEN contested \cup {f} ELSE contested
  BY DEF SubmitJob
<1>2. /\ handler[u] = "ready" /\ handler' = [handler EXCEPT ![u] = "submitted"]
      /\ stage[u] = "none" /\ stage' = [stage EXCEPT ![u] = "queued"]
      /\ UNCHANGED <<source, place, ok, stored, committed, announced>>
  BY DEF SubmitJob, Submit, From, Go, To
<1>3. \A v \in Uploads : v # u => /\ stage'[v] = stage[v] /\ handler'[v] = handler[v]
                                  /\ File(v)' = File(v) /\ Secs(v)' = Secs(v)
  BY <1>1, <1>2 DEF TypeOK, QuotaTypeOK, File, Secs
<1>4. stage'[u] = "queued" /\ handler'[u] = "submitted" /\ File(u)' = f
  BY <1>1, <1>2 DEF TypeOK, QuotaTypeOK, File
<1>5. Handed'
  BY <1>2, <1>3, <1>4 DEF StorageInv, Handed, Live
<1>6. OneJob'
  <2>1. \A v \in Uploads : v # u /\ Live(v) /\ File(v) = f => f \in contested'
    BY <1>1 DEF StorageInv, Handed, LockFree, Live
  <2>2. contested \subseteq contested'
    BY <1>1
  <2> QED
    BY <1>3, <1>4, <2>1, <2>2 DEF StorageInv, OneJob, Live
<1>7. Fresh'
  <2>1. contested \subseteq contested'
    BY <1>1
  <2> QED
    BY <1>2, <1>3, <1>4, <2>1 DEF StorageInv, Fresh
<1>8. Committed'
  BY <1>2, <1>3, <1>4 DEF StorageInv, Committed, EventAfterCommit
<1>9. Emptied'
  BY <1>2, <1>3, <1>4 DEF StorageInv, Emptied
<1> QED
  BY <1>5, <1>6, <1>7, <1>8, <1>9 DEF StorageInv

(* A step of the job of u: to stage p with its transcode in q and result b. *)
(* The conditions are what the invariant asks of u's own job; that nothing  *)
(* else needs to be asked is JobStep.                                       *)
JobMoves(u, p, q, b) ==
    /\ Live(u) /\ stage[u] # "none"
    /\ stage' = [stage EXCEPT ![u] = p]
    /\ place' = [place EXCEPT ![u] = q]
    /\ ok' = [ok EXCEPT ![u] = b]
    /\ request' = request

Leaves(u, p) ==
    \/ handler' = handler
    \/ /\ p \in {"over", "dead"} /\ source'[u] = 0
       /\ handler' = [handler EXCEPT ![u] = "leave"]

StoreGrows(u, p, q, b) ==
    /\ contested \subseteq contested' /\ committed \subseteq committed'
    /\ \A f \in Files : f # File(u) => stored'[f] = stored[f]
    /\ (p = "move" /\ q # "none") \/ p = "replace" =>
          \/ File(u) \in contested' \/ stored'[File(u)] = 0
          \/ stored'[File(u)] + Epsilon < Secs(u)
    /\ p = "swap" => File(u) \in contested' \/ stored'[File(u)] = 0
    /\ stored'[File(u)] # 0 => File(u) \in committed'
    /\ announced' \subseteq announced \cup {File(u)}
    /\ File(u) \in announced' => File(u) \in announced \cup committed'
    /\ p \in {"clean", "tell"} /\ b => File(u) \in committed'

SourceShrinks(u, p, q) ==
    /\ \A v \in Uploads : v # u => source'[v] = source[v]
    /\ p \in {"single", "clean", "tell", "over", "dead"} => q = "none"
    /\ p \in {"tell", "over", "dead"} => source'[u] = 0

LEMMA JobStep ==
    ASSUME TypeOK, StorageInv, NEW u \in Uploads,
           NEW p \in Stages \ {"none", "queued", "batch"}, NEW q, NEW b,
           JobMoves(u, p, q, b), Leaves(u, p), StoreGrows(u, p, q, b), SourceShrinks(u, p, q)
    PROVE  StorageInv'
<1> USE DEF JobMoves
<1>1. /\ stage'[u] = p /\ place'[u] = q /\ ok'[u] = b
      /\ \A v \in Uploads : v # u =>
            stage'[v] = stage[v] /\ place'[v] = place[v] /\ ok'[v] = ok[v]
  BY DEF TypeOK
<1>2. /\ \A v \in Uploads : v # u => handler'[v] = handler[v]
      /\ handler'[u] = handler[u] \/ handler'[u] = "leave"
      /\ handler'[u] = "leave" => source'[u] = 0 /\ q = "none" /\ p \in {"over", "dead"}
      /\ handler[u] \in {"submitted", "orphan"}
  BY DEF TypeOK, QuotaTypeOK, Leaves, StorageInv, Handed, SourceShrinks
<1>3. \A v \in Uploads : File(v)' = File(v) /\ Secs(v)' = Secs(v)
  BY DEF File, Secs
<1>4. Handed'
  BY <1>1, <1>2 DEF StorageInv, Handed, Live
<1>5. OneJob'
  BY <1>1, <1>3 DEF StorageInv, OneJob, Live, StoreGrows
<1>6. Fresh'
  <2> SUFFICES ASSUME NEW v \in Uploads, File(v) \notin contested'
               PROVE  /\ (stage'[v] = "move" /\ place'[v] # "none") \/ stage'[v] = "replace"
                            => stored'[File(v)] = 0 \/ stored'[File(v)] + Epsilon < Secs(v)
                      /\ stage'[v] = "swap" => stored'[File(v)] = 0
    BY <1>3 DEF Fresh
  <2>1. CASE v = u
    BY <1>1, <2>1 DEF StoreGrows
  <2>2. CASE v # u /\ File(v) = File(u)
    <3>1. ~ Live(v)
      BY <2>2 DEF StorageInv, OneJob, StoreGrows
    <3> QED
      BY <1>1, <2>2, <3>1 DEF Live
  <2>3. CASE v # u /\ File(v) # File(u)
    <3>1. File(v) \in Files /\ File(v) \notin contested
      BY DEF TypeOK, File, StoreGrows
    <3> QED
      BY <1>1, <2>3, <3>1 DEF StorageInv, Fresh, StoreGrows
  <2> QED
    BY <2>1, <2>2, <2>3
<1>7. Committed'
  BY <1>1, <1>3 DEF StorageInv, Committed, EventAfterCommit, StoreGrows
<1>8. Emptied'
  <2>1. handler[u] \notin {"done"}
    BY <1>2
  <2> QED
    BY <1>1, <1>2, <2>1 DEF StorageInv, Emptied, SourceShrinks
<1> QED
  BY <1>4, <1>5, <1>6, <1>7, <1>8 DEF StorageInv

(* Each step of a job is such a move. *)
LEMMA PipelineInv ==
    ASSUME TypeOK, StorageInv, NEW u \in Uploads, Pipeline(u) \/ PipelineFault(u)
    PROVE  StorageInv'
<1>1. /\ File(u) \in Files /\ Secs(u) \in Nat
      /\ place = [place EXCEPT ![u] = place[u]] /\ ok = [ok EXCEPT ![u] = ok[u]]
      /\ stored[File(u)] # 0 => File(u) \in committed
      /\ stored[File(u)] \in Nat
      /\ announced \subseteq committed
      /\ stage[u] \in {"batch", "single", "clean", "tell"} => place[u] = "none"
      /\ stage[u] = "tell" => source[u] = 0
      /\ stage[u] \in {"clean", "tell"} /\ ok[u] => File(u) \in committed
  BY DEF TypeOK, File, Secs, StorageInv, Committed, EventAfterCommit, Emptied
<1>2. /\ \/ File(u) \in contested
         \/ stage[u] # "replace" /\ (stage[u] # "move" \/ place[u] = "none")
         \/ stored[File(u)] = 0
         \/ stored[File(u)] + Epsilon < Secs(u)
      /\ File(u) \in contested \/ stage[u] # "swap" \/ stored[File(u)] = 0
  BY DEF StorageInv, Fresh
<1> DEFINE Does(p, q, b) == /\ JobMoves(u, p, q, b) /\ Leaves(u, p)
                            /\ StoreGrows(u, p, q, b) /\ SourceShrinks(u, p, q)
<1> USE DEF Live, JobMoves, Leaves, StoreGrows, SourceShrinks, Step, To, Put, Result,
            storeVars, quotaVars, FaultOnly
<1>3. CASE TooShort(u)
  <2>1. Does("clean", place[u], FALSE)
    BY <1>1, <1>2, <1>3, PipelineAssumption DEF TypeOK, QuotaTypeOK, TooShort
  <2> QED
    BY <2>1, JobStep
<1>4. CASE SingleOk(u)
  <2>1. Does("commit", "result", ok[u])
    BY <1>1, <1>2, <1>4, PipelineAssumption DEF TypeOK, QuotaTypeOK, SingleOk
  <2> QED
    BY <2>1, JobStep
<1>5. CASE SingleFails(u)
  <2>1. Does("clean", place[u], FALSE)
    BY <1>1, <1>2, <1>5, PipelineAssumption DEF TypeOK, QuotaTypeOK, SingleFails
  <2> QED
    BY <2>1, JobStep
<1>6. CASE KeepExisting(u)
  <2>1. Does("clean", "none", TRUE)
    BY <1>1, <1>2, <1>6, PipelineAssumption DEF TypeOK, QuotaTypeOK, KeepExisting, Keeps
  <2> QED
    BY <2>1, JobStep
<1>7. CASE WillReplace(u)
  <2>1. Does("move", place[u], ok[u])
    BY <1>1, <1>2, <1>7, PipelineAssumption DEF TypeOK, QuotaTypeOK, WillReplace, Keeps
  <2> QED
    BY <2>1, JobStep
<1>8. CASE ProbeFails(u)
  <2>1. Does("move", place[u], ok[u])
    BY <1>1, <1>2, <1>8, PipelineAssumption DEF TypeOK, QuotaTypeOK, ProbeFails
  <2> QED
    BY <2>1, JobStep
<1>9. CASE Move(u)
  <2>1. Does("replace", "stage", ok[u])
    BY <1>1, <1>2, <1>9, PipelineAssumption DEF TypeOK, QuotaTypeOK, Move
  <2> QED
    BY <2>1, JobStep
<1>10. CASE Replace(u)
  <2>1. Does("clean", "none", TRUE)
    BY <1>1, <1>2, <1>10, PipelineAssumption DEF TypeOK, QuotaTypeOK, Replace, StoredBy
  <2> QED
    BY <2>1, JobStep
<1>11. CASE Swap(u)
  <2>1. Does("clean", "none", TRUE)
    BY <1>1, <1>2, <1>11, PipelineAssumption DEF TypeOK, QuotaTypeOK, Swap, StoredBy
  <2> QED
    BY <2>1, JobStep
<1>12. CASE RemoveFirst(u)
  <2>1. Does("swap", place[u], ok[u])
    BY <1>1, <1>2, <1>12, PipelineAssumption DEF TypeOK, QuotaTypeOK, RemoveFirst
  <2> QED
    BY <2>1, JobStep
<1>13. CASE CleanSource(u)
  <2>1. Does("tell", place[u], ok[u])
    BY <1>1, <1>2, <1>13, PipelineAssumption DEF TypeOK, QuotaTypeOK, CleanSource, SourceGone, Discarded
  <2> QED
    BY <2>1, JobStep
<1>14. CASE Tell(u)
  <2>1. Does("over", place[u], ok[u])
    BY <1>1, <1>2, <1>14, PipelineAssumption DEF TypeOK, QuotaTypeOK, Tell, Published, Reply, Answer, From, Go
  <2> QED
    BY <2>1, JobStep
<1>15. CASE Unheard(u)
  <2>1. Does("dead", place[u], ok[u])
    BY <1>1, <1>2, <1>15, PipelineAssumption DEF TypeOK, QuotaTypeOK, Unheard, Reply, Answer, From, Go
  <2> QED
    BY <2>1, JobStep
<1>16. ASSUME NEW from \in {"move", "replace", "swap"}, NEW where, AttemptFails(u, from, where),
              UNCHANGED <<handler, source, stored>>
      PROVE  StorageInv'
  <2>1. CASE tries[u] + 1 >= MaxAttempts
    <3>1. Does("clean", "none", FALSE)
      BY <1>1, <1>2, <1>16, <2>1 DEF AttemptFails, DropTranscode
    <3> QED
      BY <3>1, JobStep
  <2>2. CASE ~ (tries[u] + 1 >= MaxAttempts)
    <3>1. Does("commit", where, ok[u])
      BY <1>1, <1>2, <1>16, <2>2 DEF AttemptFails
    <3> QED
      BY <3>1, JobStep
  <2> QED
    BY <2>1, <2>2
<1>17. CASE MoveFails(u) \/ ReplaceFails(u) \/ SwapFails(u)
  BY <1>16, <1>17 DEF MoveFails, ReplaceFails, SwapFails
<1> QED
  BY <1>3, <1>4, <1>5, <1>6, <1>7, <1>8, <1>9, <1>10,
     <1>11, <1>12, <1>13, <1>14, <1>15, <1>17 DEF Pipeline, PipelineFault

(* Jobs that move on together, with no file in the store touched. *)
LEMMA BatchInv ==
    ASSUME TypeOK, StorageInv, NEW b \in SUBSET Uploads, Dispatch(b) \/ Batch(b)
    PROVE  StorageInv'
<1>1. PICK c \in SUBSET Uploads, p \in {"batch", "commit", "single", "clean"},
           q \in {"none", "result"} :
         /\ \A u \in c : stage[u] \in {"queued", "batch"}
         /\ stage' = [u \in Uploads |-> IF u \in c THEN p ELSE stage[u]]
         /\ place' = [u \in Uploads |-> IF u \in c THEN q ELSE place[u]]
         /\ \A u \in Uploads : ok'[u] = ok[u] \/ (u \in c /\ ok'[u] = FALSE)
         /\ p = "clean" => \A u \in c : ok'[u] = FALSE
         /\ q = "result" => p = "commit"
         /\ UNCHANGED <<handler, source, request, storeVars>>
  <2>1. CASE Dispatch(b)
    <3>1. place' = [u \in Uploads |-> IF u \in b THEN "none" ELSE place[u]]
      BY <2>1 DEF Dispatch, TypeOK, StorageInv, Emptied
    <3> QED
      BY <2>1, <3>1 DEF Dispatch, quotaVars
  <2>2. CASE BatchOk(b)
    <3>1. Accepted(b) \in SUBSET Uploads /\ \A u \in Accepted(b) : stage[u] = "batch"
      BY DEF Accepted
    <3>2. \A u \in Uploads : ok'[u] = ok[u] \/ (u \in Accepted(b) /\ ok'[u] = FALSE)
      BY <2>2 DEF BatchOk, Transcoded
    <3> QED
      BY <2>2, <3>1, <3>2 DEF BatchOk, Transcoded, quotaVars
  <2>3. CASE BatchFails(b)
    <3>1. Accepted(b) \in SUBSET Uploads /\ \A u \in Accepted(b) : stage[u] = "batch"
      BY DEF Accepted
    <3>2. PICK p \in {"single", "clean"} : Transcoded(b, p, "none", FALSE)
      BY <2>3 DEF BatchFails
    <3>3. \A u \in Uploads : /\ ok'[u] = ok[u] \/ (u \in Accepted(b) /\ ok'[u] = FALSE)
                            /\ u \in Accepted(b) => ok'[u] = FALSE
      BY <3>2 DEF Transcoded
    <3>4. UNCHANGED <<handler, source>>
      BY <2>3 DEF BatchFails, FaultOnly, quotaVars
    <3> QED
      BY <3>1, <3>2, <3>3, <3>4 DEF Transcoded
  <2> QED
    BY <2>1, <2>2, <2>3 DEF Batch
<1>2. \A u \in Uploads : /\ File(u)' = File(u) /\ Secs(u)' = Secs(u)
                        /\ \/ stage'[u] = stage[u] /\ place'[u] = place[u]
                           \/ u \in c /\ stage'[u] = p /\ place'[u] = q
  BY <1>1 DEF File, Secs
<1>3. Handed'
  BY <1>1, <1>2 DEF StorageInv, Handed, Live
<1>4. OneJob'
  BY <1>1, <1>2 DEF StorageInv, OneJob, Live, storeVars
<1>5. Fresh'
  BY <1>1, <1>2 DEF StorageInv, Fresh, storeVars
<1>6. Committed'
  BY <1>1, <1>2 DEF StorageInv, Committed, EventAfterCommit, storeVars
<1>7. Emptied'
  <2>1. \A u \in c : handler[u] \in {"submitted", "orphan"}
    BY <1>1 DEF StorageInv, Handed, Live
  <2> QED
    BY <1>1, <1>2, <2>1 DEF StorageInv, Emptied
<1> QED
  BY <1>3, <1>4, <1>5, <1>6, <1>7 DEF StorageInv

(* A deletion takes nothing away that the invariant asks for. *)
LEMMA DeleteInv ==
    ASSUME TypeOK, StorageInv, NEW f \in Files, Delete(f)
    PROVE  StorageInv'
<1>1. UNCHANGED <<quotaVars, jobVars, contested, committed, announced>>
      /\ \A g \in Files : stored'[g] = stored[g] \/ stored'[g] = 0
  BY DEF Delete, TypeOK
<1>2. Handed' /\ OneJob' /\ Emptied'
  BY <1>1 DEF StorageInv, Handed, OneJob, Emptied, Live, File, jobVars, quotaVars
<1>3. \A u \in Uploads : File(u) \in Files /\ File(u)' = File(u) /\ Secs(u)' = Secs(u)
  BY <1>1 DEF TypeOK, File, Secs, jobVars
<1>4. Fresh'
  BY <1>1, <1>3 DEF StorageInv, Fresh, jobVars
<1>5. Committed'
  BY <1>1, <1>3 DEF StorageInv, Committed, EventAfterCommit, jobVars
<1> QED
  BY <1>2, <1>4, <1>5 DEF StorageInv

(* After a restart no job is live. *)
LEMMA RestartInv ==
    ASSUME TypeOK, StorageInv, RestartAll
    PROVE  StorageInv'
<1>1. /\ \A u \in Uploads :
            /\ stage'[u] = IF Live(u) THEN "dead" ELSE stage[u]
            /\ stage'[u] \in {"none", "over", "dead"}
            /\ \/ handler'[u] \in {"idle", "done", "failed"} /\ handler'[u] = handler[u]
               \/ handler'[u] = "gone"
            /\ place'[u] = place[u] \/ place'[u] = "none"
            /\ source'[u] = 0
      /\ UNCHANGED <<request, storeVars, ok>>
  BY DEF RestartAll, Restart, Live
<1>2. \A u \in Uploads : ~ Live(u)'
  BY <1>1 DEF Live
<1>3. Handed'
  BY <1>1, <1>2 DEF StorageInv, Handed, Live
<1>4. OneJob'
  BY <1>2 DEF OneJob
<1>5. Fresh'
  BY <1>1 DEF Fresh
<1>6. Committed'
  BY <1>1 DEF StorageInv, Committed, EventAfterCommit, storeVars
<1>7. Emptied'
  BY <1>1 DEF StorageInv, Emptied, Live
<1> QED
  BY <1>3, <1>4, <1>5, <1>6, <1>7 DEF StorageInv

LEMMA InvStep ==
    ASSUME TypeOK, StorageInv, [Next]_vars
    PROVE  StorageInv'
<1>1. CASE Cool /\ UNCHANGED pipeVars
  BY <1>1, PipeStutter
     DEF Cool, StorageInv, Handed, Emptied, Live, pipeVars, jobVars
<1>2. CASE UNCHANGED vars
  BY <1>2, PipeStutter
     DEF vars, quotaVars, StorageInv, Handed, Emptied, Live, pipeVars, jobVars
<1> QED
  BY <1>1, <1>2, ReceiveInv, DisconnectInv, SubmitInv, PipelineInv, BatchInv, DeleteInv,
     RestartInv DEF Next

(* The invariant of the storage service: a job has its handler or is an    *)
(* orphan, jobs of one file exclude each other, a comparison stays true    *)
(* until its rename, success means stored, and files go before the answer. *)
THEOREM StorageInvariant == Spec => [](TypeOK /\ StorageInv)
<1>1. Init => StorageInv
  BY DEF Init, QuotaInit, StorageInv, Handed, OneJob, Fresh, Committed, EventAfterCommit,
         Emptied, Live
<1>2. Init => TypeOK
  BY InitTyped
<1>3. TypeOK /\ StorageInv /\ [Next]_vars => (TypeOK /\ StorageInv)'
  BY TypeStep, InvStep
<1> QED
  BY <1>1, <1>2, <1>3, PTL DEF Spec

(* No event without a stored file (pipeline.rs, spawn_commit). *)
THEOREM EventsAreTrue == Spec => []EventAfterCommit
<1>1. StorageInv => EventAfterCommit
  BY DEF StorageInv, Committed
<1> QED
  BY <1>1, StorageInvariant, PTL

(* An answered upload and a finished job leave no temporary file. *)
THEOREM TemporaryFilesGo == Spec => []NothingLeft
<1>1. TypeOK /\ StorageInv => NothingLeft
  BY DEF StorageInv, Emptied, NothingLeft, Finished
<1> QED
  BY <1>1, StorageInvariant, PTL

(* A stored recording is never replaced by a shorter one while every       *)
(* upload of its file keeps its handler (should_keep_existing, file_lock). *)
THEOREM LongerStays == Spec => KeepsLonger
<1> DEFINE Kept == \A f \in Files \ contested :
                      stored[f] # 0 /\ stored'[f] # 0 => stored'[f] >= stored[f]
<1>1. ASSUME TypeOK, StorageInv, Next
      PROVE  Kept
  <2> USE <1>1 DEF Kept
  <2>1. CASE stored' = stored
    BY <2>1 DEF TypeOK
  <2>2. ASSUME NEW u \in Uploads, NEW from \in {"replace", "swap"}, StoredBy(u, from)
        PROVE  Kept
    <3>1. stored' = [stored EXCEPT ![File(u)] = Secs(u)] /\ stage[u] = from
      BY <2>2 DEF StoredBy, Step
    <3>2. File(u) \in contested \/ stored[File(u)] = 0 \/ stored[File(u)] + Epsilon < Secs(u)
      BY <3>1 DEF StorageInv, Fresh
    <3>3. Secs(u) \in Nat /\ \A f \in Files : stored[f] \in Nat
      BY DEF TypeOK, Secs
    <3> QED
      BY <3>1, <3>2, <3>3, PipelineAssumption DEF TypeOK
  <2>3. ASSUME NEW u \in Uploads, Replace(u) \/ Swap(u)
        PROVE  Kept
    BY <2>2, <2>3 DEF Replace, Swap
  <2>4. ASSUME NEW u \in Uploads, RemoveFirst(u)
        PROVE  Kept
    BY <2>4 DEF RemoveFirst, TypeOK
  <2>5. ASSUME NEW f \in Files, Delete(f)
        PROVE  Kept
    BY <2>5 DEF Delete, TypeOK
  <2>6. ASSUME NEW u \in Uploads, Pipeline(u) \/ PipelineFault(u)
        PROVE  Kept
    BY <2>1, <2>3, <2>4, <2>6
       DEF Pipeline, PipelineFault, TooShort, SingleOk, SingleFails, KeepExisting, WillReplace,
           Move, MoveFails, CleanSource, Tell, ProbeFails, ReplaceFails, SwapFails, Unheard,
           storeVars
  <2>7. ASSUME NEW b \in SUBSET Uploads, Dispatch(b) \/ Batch(b)
        PROVE  stored' = stored
    BY <2>7 DEF Dispatch, Batch, BatchOk, BatchFails, Transcoded, storeVars
  <2>8. ASSUME NEW u \in Uploads, SubmitJob(u)
        PROVE  stored' = stored
    BY <2>8 DEF SubmitJob
  <2> QED
    BY <2>1, <2>5, <2>6, <2>7, <2>8 DEF Next, RestartAll, pipeVars, storeVars
<1>2. TypeOK /\ StorageInv /\ [Next]_vars => [Kept]_vars
  BY <1>1
<1> QED
  BY <1>2, StorageInvariant, PTL DEF Spec, KeepsLonger

(* Seen from the upload handlers, the whole service is TmpQuota: the       *)
(* pipeline touches handlers, counter and source files by the steps        *)
(* SourceGone and Answer alone, each where TmpQuota allows it.             *)
THEOREM QuotaRefined == Spec => QuotaSpec
<1>1. ASSUME Next
      PROVE  [QuotaNext]_quotaVars
  <2> USE DEF QuotaNext
  <2>1. ASSUME NEW u \in Uploads, Pipeline(u) \/ PipelineFault(u)
        PROVE  SourceGone(u) \/ Answer(u) \/ FaultOnly \/ UNCHANGED quotaVars
    BY <2>1
       DEF Pipeline, PipelineFault, TooShort, SingleOk, SingleFails, KeepExisting, WillReplace,
           Move, MoveFails, Replace, Swap, StoredBy, CleanSource, Tell, Unheard, Reply,
           ProbeFails, ReplaceFails, RemoveFirst, SwapFails
  <2>2. ASSUME NEW b \in SUBSET Uploads, Dispatch(b) \/ Batch(b)
        PROVE  FaultOnly \/ UNCHANGED quotaVars
    BY <2>2 DEF Dispatch, Batch, BatchOk, BatchFails
  <2>3. ASSUME NEW u \in Uploads, SubmitJob(u)
        PROVE  Submit(u)
    BY <2>3 DEF SubmitJob
  <2>4. ASSUME NEW f \in Files, Delete(f)
        PROVE  UNCHANGED quotaVars
    BY <2>4 DEF Delete
  <2>5. RestartAll => Restart
    BY DEF RestartAll
  <2> QED
    BY <1>1, <2>1, <2>2, <2>3, <2>4, <2>5 DEF Next
<1>2. [Next]_vars => [QuotaNext]_quotaVars
  BY <1>1 DEF vars
<1>3. Init => QuotaInit
  BY DEF Init
<1> QED
  BY <1>2, <1>3, PTL DEF Spec, QuotaSpec

-----------------------------------------------------------------------------
(* Below its modulus the counter does not wrap. *)
LEMMA NoWrap ==
    ASSUME NEW n \in 0 .. CounterMod - 1
    PROVE  n % CounterMod = n
  BY QuotaAssumption

(* A chunk is its upload and its number. *)
LEMMA ChunkMember ==
    ASSUME NEW f \in [Uploads -> Nat], NEW c
    PROVE  c \in Chunks(f) <=> \E u \in Uploads : \E n \in 1 .. f[u] : c = <<u, n>>
  BY DEF Chunks

LEMMA ChunksOf ==
    ASSUME NEW f \in [Uploads -> Nat], NEW u \in Uploads
    PROVE  /\ IsFiniteSet({u} \X (1 .. f[u]))
           /\ Cardinality({u} \X (1 .. f[u])) = f[u]
<1>1. IsFiniteSet({u}) /\ Cardinality({u}) = 1
  BY FS_Singleton
<1>2. f[u] \in Nat
  OBVIOUS
<1>3. IsFiniteSet(1 .. f[u]) /\ Cardinality(1 .. f[u]) = f[u]
  BY <1>2, FS_Interval
<1>4. /\ IsFiniteSet({u} \X (1 .. f[u]))
      /\ Cardinality({u} \X (1 .. f[u])) = Cardinality({u}) * Cardinality(1 .. f[u])
  BY <1>1, <1>3, FS_Product
<1> QED
  BY <1>1, <1>2, <1>3, <1>4

(* There are finitely many chunks. *)
LEMMA ChunksFinite ==
    ASSUME NEW f \in [Uploads -> Nat]
    PROVE  IsFiniteSet(Chunks(f)) /\ Total(f) \in Nat
<1> DEFINE All == {{u} \X (1 .. f[u]) : u \in Uploads}
           g   == [u \in Uploads |-> {u} \X (1 .. f[u])]
<1>1. g \in Surjection(Uploads, All)
  BY DEF Surjection
<1>2. IsFiniteSet(All)
  BY <1>1, QuotaAssumption, FS_Surjection
<1>3. \A S \in All : IsFiniteSet(S)
  BY ChunksOf
<1>4. IsFiniteSet(UNION All)
  BY <1>2, <1>3, FS_UNION
<1> QED
  BY <1>4, FS_CardinalityType DEF Chunks, Total

(* One chunk more of one upload is one more altogether. *)
LEMMA TotalMore ==
    ASSUME NEW f \in [Uploads -> Nat], NEW u \in Uploads
    PROVE  Total([f EXCEPT ![u] = @ + 1]) = Total(f) + 1
<1> DEFINE g == [f EXCEPT ![u] = @ + 1]
           c == <<u, f[u] + 1>>
<1>1. g \in [Uploads -> Nat]
  OBVIOUS
<1>2. c \notin Chunks(f)
  BY ChunkMember
<1>3. Chunks(g) = Chunks(f) \cup {c}
  <2>1. ASSUME NEW d \in Chunks(g)
        PROVE  d \in Chunks(f) \cup {c}
    <3>1. PICK v \in Uploads : \E n \in 1 .. g[v] : d = <<v, n>>
      BY <1>1, <2>1, ChunkMember
    <3>2. PICK n \in 1 .. g[v] : d = <<v, n>>
      BY <3>1
    <3>3. CASE v = u /\ n = f[u] + 1
      BY <3>2, <3>3
    <3>4. CASE ~(v = u /\ n = f[u] + 1)
      BY <3>2, <3>4, ChunkMember
    <3> QED
      BY <3>3, <3>4
  <2>2. ASSUME NEW d \in Chunks(f) \cup {c}
        PROVE  d \in Chunks(g)
    <3>1. CASE d = c
      <4>1. f[u] + 1 \in 1 .. g[u]
        OBVIOUS
      <4> QED
        BY <1>1, <3>1, <4>1, ChunkMember
    <3>2. CASE d \in Chunks(f)
      <4>1. PICK v \in Uploads : \E n \in 1 .. f[v] : d = <<v, n>>
        BY <3>2, ChunkMember
      <4>2. PICK n \in 1 .. f[v] : d = <<v, n>>
        BY <4>1
      <4>3. n \in 1 .. g[v]
        OBVIOUS
      <4> QED
        BY <1>1, <4>2, <4>3, ChunkMember
    <3> QED
      BY <2>2, <3>1, <3>2
  <2> QED
    BY <2>1, <2>2
<1>4. Cardinality(Chunks(f) \cup {c}) = Cardinality(Chunks(f)) + 1
  BY <1>2, ChunksFinite, FS_AddElement
<1> QED
  BY <1>3, <1>4 DEF Total

(* Without the chunks of one upload the total is less by what it had. *)
LEMMA TotalWithout ==
    ASSUME NEW f \in [Uploads -> Nat], NEW u \in Uploads
    PROVE  Total([f EXCEPT ![u] = 0]) = Total(f) - f[u]
<1> DEFINE g == [f EXCEPT ![u] = 0]
           D == {u} \X (1 .. f[u])
<1>1. g \in [Uploads -> Nat]
  OBVIOUS
<1>2. Chunks(g) = Chunks(f) \ D
  <2>1. ASSUME NEW d \in Chunks(g)
        PROVE  d \in Chunks(f) \ D
    <3>1. PICK v \in Uploads : \E n \in 1 .. g[v] : d = <<v, n>>
      BY <1>1, <2>1, ChunkMember
    <3>2. PICK n \in 1 .. g[v] : d = <<v, n>>
      BY <3>1
    <3>3. v # u /\ n \in 1 .. f[v]
      OBVIOUS
    <3> QED
      BY <3>2, <3>3, ChunkMember
  <2>2. ASSUME NEW d \in Chunks(f) \ D
        PROVE  d \in Chunks(g)
    <3>1. PICK v \in Uploads : \E n \in 1 .. f[v] : d = <<v, n>>
      BY <2>2, ChunkMember
    <3>2. PICK n \in 1 .. f[v] : d = <<v, n>>
      BY <3>1
    <3>3. v # u
      BY <2>2, <3>2
    <3>4. n \in 1 .. g[v]
      BY <3>3
    <3> QED
      BY <1>1, <3>2, <3>4, ChunkMember
  <2> QED
    BY <2>1, <2>2
<1>3. Chunks(f) \cap D = D
  BY ChunkMember
<1>4. Cardinality(Chunks(f) \ D) = Cardinality(Chunks(f)) - Cardinality(D)
  <2>1. IsFiniteSet(Chunks(f))
    BY ChunksFinite
  <2>2. Cardinality(Chunks(f) \ D) = Cardinality(Chunks(f)) - Cardinality(Chunks(f) \cap D)
    BY <2>1, FS_Difference
  <2> QED
    BY <1>3, <2>2
<1> QED
  BY <1>2, <1>4, ChunksOf DEF Total

(* Nobody has a chunk: none altogether. *)
LEMMA TotalZero == Total([u \in Uploads |-> 0]) = 0
<1>1. [u \in Uploads |-> 0] \in [Uploads -> Nat]
  OBVIOUS
<1>2. Chunks([u \in Uploads |-> 0]) = {}
  BY <1>1, ChunkMember
<1> QED
  BY <1>2, FS_EmptySet DEF Total

(* If each has at most as many, so have all together. *)
LEMMA TotalMonotone ==
    ASSUME NEW f \in [Uploads -> Nat], NEW g \in [Uploads -> Nat],
           \A u \in Uploads : f[u] <= g[u]
    PROVE  Total(f) <= Total(g)
<1>1. Chunks(f) \subseteq Chunks(g)
  <2>1. SUFFICES ASSUME NEW d \in Chunks(f)
                 PROVE  d \in Chunks(g)
    OBVIOUS
  <2>2. PICK v \in Uploads : \E n \in 1 .. f[v] : d = <<v, n>>
    BY ChunkMember
  <2>3. PICK n \in 1 .. f[v] : d = <<v, n>>
    BY <2>2
  <2>4. n \in 1 .. g[v]
    OBVIOUS
  <2> QED
    BY <2>3, <2>4, ChunkMember
<1> QED
  BY <1>1, ChunksFinite, FS_Subset DEF Total

(* Where a handler is that has a chunk in the counter it may not keep. *)
Trying == {"undo", "refuse"}

(* A handler enters or leaves the try alone: the count moves by one. *)
LEMMA TriedGo ==
    ASSUME QuotaTypeOK, NEW u \in Uploads, NEW p \in Places, Go(u, p)
    PROVE  /\ Cardinality(Tried) \in Nat /\ Cardinality(Tried') \in Nat
           /\ Cardinality(Tried') <= Cardinality(Uploads)
           /\ Cardinality(Uploads) \in Nat
           /\ p \in Trying /\ handler[u] \notin Trying
                 => Cardinality(Tried') = Cardinality(Tried) + 1
           /\ p \notin Trying /\ handler[u] \in Trying
                 => Cardinality(Tried') = Cardinality(Tried) - 1
           /\ p \notin Trying /\ handler[u] \notin Trying => Tried' = Tried
<1>1. Tried \subseteq Uploads /\ Tried' \subseteq Uploads
  BY DEF Tried
<1>2. IsFiniteSet(Tried) /\ IsFiniteSet(Tried')
  BY <1>1, QuotaAssumption, FS_Subset
<1>3. /\ Cardinality(Tried) \in Nat /\ Cardinality(Tried') \in Nat
      /\ Cardinality(Tried') <= Cardinality(Uploads)
      /\ Cardinality(Uploads) \in Nat
  BY <1>1, <1>2, QuotaAssumption, FS_Subset, FS_CardinalityType
<1>4. ASSUME p \in Trying, handler[u] \notin Trying
      PROVE  Cardinality(Tried') = Cardinality(Tried) + 1
  <2>1. u \notin Tried /\ Tried' = Tried \cup {u}
    BY <1>4 DEF Tried, Trying, Go, QuotaTypeOK
  <2> QED
    BY <1>2, <2>1, FS_AddElement
<1>5. ASSUME p \notin Trying, handler[u] \in Trying
      PROVE  Cardinality(Tried') = Cardinality(Tried) - 1
  <2>1. u \in Tried /\ Tried' = Tried \ {u}
    BY <1>5 DEF Tried, Trying, Go, QuotaTypeOK
  <2> QED
    BY <1>2, <2>1, FS_RemoveElement
<1>6. p \notin Trying /\ handler[u] \notin Trying => Tried' = Tried
  BY DEF Tried, Trying, Go, QuotaTypeOK
<1> QED
  BY <1>3, <1>4, <1>5, <1>6

(* A chunk on disk is a reserved one: each handler that still runs has      *)
(* reserved what it wrote, and what it is about to write.                   *)
Backed(u) ==
    /\ handler[u] = "idle" => source[u] = 0
    /\ handler[u] = "write" => source[u] + 1 <= reserved[u]
    /\ handler[u] \notin Ends => source[u] <= reserved[u]

(* Until a rescan lowers it, the counter is exact and what is reserved fits. *)
Exact ==
    Limited /\ ~skewed => /\ used = Total(reserved) + Cardinality(Tried)
                          /\ Total(reserved) <= Limit

BooksInv == Exact /\ \A u \in Uploads : Backed(u)

(* What holds of the numbers in every typed state. *)
LEMMA Numbers ==
    ASSUME QuotaTypeOK
    PROVE  /\ Total(reserved) \in Nat /\ Total(source) \in Nat
           /\ Cardinality(Tried) \in Nat /\ Cardinality(Uploads) \in Nat
           /\ Cardinality(Tried) <= Cardinality(Uploads)
           /\ used \in Nat /\ used < CounterMod
           /\ Limit \in Nat /\ CounterMod \in Nat
           /\ CounterMod > Limit + Cardinality(Uploads)
<1>1. Tried \subseteq Uploads
  BY DEF Tried
<1>2. /\ Cardinality(Tried) \in Nat /\ Cardinality(Uploads) \in Nat
      /\ Cardinality(Tried) <= Cardinality(Uploads)
  BY <1>1, QuotaAssumption, FS_Subset, FS_CardinalityType
<1> QED
  BY <1>2, QuotaAssumption, ChunksFinite DEF QuotaTypeOK

(* try_add of one chunk keeps the books, whether it fits or not. *)
LEMMA TryAddExact ==
    ASSUME QuotaTypeOK, BooksInv, NEW u \in Uploads,
           NEW p \in {"receive", "retry"}, NEW r \in {"undo", "refuse"}, TryAdd(u, p, r)
    PROVE  BooksInv'
<1>1. \A v \in Uploads : Backed(v)'
  <2>1. SUFFICES ASSUME NEW v \in Uploads
                 PROVE  Backed(v)'
    OBVIOUS
  <2>2. Backed(v) /\ source' = source /\ handler[u] = p
    BY DEF BooksInv, TryAdd
  <2>3. CASE v # u
    BY <2>2, <2>3 DEF Backed, TryAdd, Go, QuotaTypeOK
  <2>4. CASE v = u
    BY <2>2, <2>4 DEF Backed, TryAdd, Go, QuotaTypeOK
  <2> QED
    BY <2>3, <2>4
<1>2. Exact'
  <2>1. SUFFICES ASSUME Limited, ~skewed
                 PROVE  /\ used' = Total(reserved') + Cardinality(Tried')
                        /\ Total(reserved') <= Limit
    BY DEF Exact, TryAdd, Tried, Total
  <2>2. used = Total(reserved) + Cardinality(Tried) /\ Total(reserved) <= Limit
    BY <2>1 DEF BooksInv, Exact
  <2>3. used' = (used + 1) % CounterMod /\ handler[u] = p /\ p \notin Trying
    BY <2>1 DEF TryAdd, Counter, Trying
  <2>4. CASE Fits
    <3>1. Go(u, "write") /\ reserved' = [reserved EXCEPT ![u] = @ + 1]
      BY <2>4 DEF TryAdd
    <3>2. "write" \in Places /\ "write" \notin Trying
      BY DEF Trying
    <3>3. Tried' = Tried
      BY <2>3, <3>1, <3>2, TriedGo
    <3>4. Total(reserved') = Total(reserved) + 1
      BY <3>1, TotalMore DEF QuotaTypeOK
    <3>5. used + 1 <= Limit /\ used + 1 \in 0 .. CounterMod - 1
      BY <2>4, Numbers DEF Fits
    <3>6. used' = used + 1
      BY <2>3, <3>5, NoWrap
    <3> QED
      BY <2>2, <3>3, <3>4, <3>5, <3>6, Numbers
  <2>5. CASE ~Fits
    <3>1. Go(u, r) /\ reserved' = reserved
      BY <2>1, <2>5 DEF TryAdd
    <3>2. r \in Places /\ r \in Trying
      BY DEF Trying
    <3>3. /\ Cardinality(Tried') = Cardinality(Tried) + 1
          /\ Cardinality(Tried') <= Cardinality(Uploads)
      BY <2>3, <3>1, <3>2, TriedGo
    <3>4. used + 1 \in 0 .. CounterMod - 1
      BY <2>2, <3>3, Numbers
    <3>5. used' = used + 1
      BY <2>3, <3>4, NoWrap
    <3> QED
      BY <2>2, <3>1, <3>3, <3>5, Numbers
  <2> QED
    BY <2>4, <2>5
<1> QED
  BY <1>1, <1>2 DEF BooksInv

(* fetch_sub of a refused chunk. *)
LEMMA TakeBackExact ==
    ASSUME QuotaTypeOK, BooksInv, NEW u \in Uploads, NEW p \in Places \ Trying,
           handler[u] \in Trying, Go(u, p), TakeBack, UNCHANGED <<reserved, skewed>>
    PROVE  Exact'
<1>1. SUFFICES ASSUME Limited, ~skewed
               PROVE  used' = Total(reserved) + Cardinality(Tried')
  BY DEF Exact, Total, BooksInv
<1>2. used = Total(reserved) + Cardinality(Tried)
  BY <1>1 DEF BooksInv, Exact
<1>3. Cardinality(Tried') = Cardinality(Tried) - 1 /\ Cardinality(Tried') \in Nat
  BY TriedGo
<1>4. used - 1 \in 0 .. CounterMod - 1
  BY <1>2, <1>3, Numbers
<1>5. used' = used - 1
  BY <1>4, NoWrap DEF TakeBack, Counter
<1> QED
  BY <1>2, <1>3, <1>5, Numbers

(* The reservation of a handler that ends. *)
LEMMA DropExact ==
    ASSUME QuotaTypeOK, BooksInv, NEW u \in Uploads, NEW p \in Places \ Trying,
           handler[u] \notin Trying, Go(u, p), DropReservation(u), UNCHANGED skewed
    PROVE  Exact'
<1>1. SUFFICES ASSUME Limited, ~skewed
               PROVE  /\ used' = Total(reserved') + Cardinality(Tried')
                      /\ Total(reserved') <= Limit
  BY DEF Exact
<1>2. used = Total(reserved) + Cardinality(Tried) /\ Total(reserved) <= Limit
  BY <1>1 DEF BooksInv, Exact
<1>3. Tried' = Tried
  BY TriedGo
<1>4. Total(reserved') = Total(reserved) - reserved[u] /\ reserved[u] \in Nat
  BY TotalWithout DEF DropReservation, QuotaTypeOK
<1>5. Total(reserved') \in Nat
  BY ChunksFinite DEF DropReservation, QuotaTypeOK
<1>6. used - reserved[u] \in 0 .. CounterMod - 1
  BY <1>2, <1>4, <1>5, Numbers
<1>7. used' = used - reserved[u]
  BY <1>1, <1>6, NoWrap DEF DropReservation, Counter
<1> QED
  BY <1>2, <1>3, <1>4, <1>7, Numbers

(* A step that touches neither counter nor reservations and moves nobody    *)
(* to or from a try.                                                        *)
LEMMA StillExact ==
    ASSUME BooksInv, UNCHANGED <<reserved, used, skewed>>,
           Tried' = Tried
    PROVE  Exact'
  BY DEF BooksInv, Exact, Total

LEMMA MoveExact ==
    ASSUME QuotaTypeOK, BooksInv, NEW u \in Uploads, NEW p \in Places \ Trying,
           handler[u] \notin Trying, Go(u, p), UNCHANGED <<reserved, used, skewed>>
    PROVE  Exact'
<1>1. Tried' = Tried
  BY TriedGo
<1> QED
  BY <1>1, StillExact

LEMMA InitBooks == QuotaInit => BooksInv
<1> SUFFICES ASSUME QuotaInit
             PROVE  BooksInv
  OBVIOUS
<1>1. Tried = {}
  BY DEF QuotaInit, Tried
<1>2. used = Total(reserved) + Cardinality(Tried) /\ Total(reserved) <= Limit
  BY <1>1, TotalZero, FS_EmptySet, QuotaAssumption DEF QuotaInit
<1>3. \A u \in Uploads : Backed(u)
  BY DEF QuotaInit, Backed
<1> QED
  BY <1>2, <1>3 DEF BooksInv, Exact

(* One step of an upload's handler keeps the books. *)
LEMMA ReceiveBooks ==
    ASSUME QuotaTypeOK, BooksInv, NEW u \in Uploads, Receive(u)
    PROVE  BooksInv'
<1> USE DEF Trying
<1>1. CASE Chunk(u) \/ Retry(u)
  BY <1>1, TryAddExact DEF Chunk, Retry
<1>2. CASE Undo(u)
  <2>1. Exact'
    <3>1. "rescan" \in Places \ Trying /\ handler[u] \in Trying /\ Go(u, "rescan")
      BY <1>2 DEF Undo, From
    <3> QED
      BY <1>2, <3>1, TakeBackExact DEF Undo
  <2>2. \A v \in Uploads : Backed(v)'
    BY <1>2 DEF Undo, From, Go, Backed, BooksInv, QuotaTypeOK
  <2> QED
    BY <2>1, <2>2 DEF BooksInv
<1>3. CASE Refuse(u)
  <2>1. Exact'
    <3>1. "discard" \in Places \ Trying /\ handler[u] \in Trying /\ Go(u, "discard")
      BY <1>3 DEF Refuse, From
    <3> QED
      BY <1>3, <3>1, TakeBackExact DEF Refuse
  <2>2. \A v \in Uploads : Backed(v)'
    BY <1>3 DEF Refuse, From, Go, Backed, BooksInv, QuotaTypeOK
  <2> QED
    BY <2>1, <2>2 DEF BooksInv
<1>4. CASE FinishRescan(u)
  <2>1. Exact'
    <3>1. CASE rescan.pre > rescan.seen
      BY <1>4, <3>1 DEF FinishRescan, Exact
    <3>2. CASE ~(rescan.pre > rescan.seen)
      <4>1. /\ "retry" \in Places \ Trying /\ handler[u] \notin Trying /\ Go(u, "retry")
            /\ UNCHANGED <<reserved, used, skewed>>
        BY <1>4, <3>2 DEF FinishRescan, From
      <4> QED
        BY <4>1, MoveExact
    <3> QED
      BY <3>1, <3>2
  <2>2. \A v \in Uploads : Backed(v)'
    BY <1>4 DEF FinishRescan, From, Go, Backed, BooksInv, QuotaTypeOK
  <2> QED
    BY <2>1, <2>2 DEF BooksInv
<1>5. CASE Look(u)
  <2>1. UNCHANGED <<handler, reserved, source, used, skewed>>
    BY <1>5 DEF Look
  <2> QED
    BY <2>1 DEF BooksInv, Exact, Backed, Tried, Total
<1>6. CASE \/ Begin(u) \/ SkipRescan(u) \/ StartRescan(u) \/ WalkFails(u)
           \/ EndOfFile(u) \/ ReadFails(u) \/ InvalidName(u)
  <2>1. PICK p \in Places \ Trying :
            /\ handler[u] \in {"idle", "rescan", "walk", "receive", "ready"}
            /\ p \in {"receive", "retry", "walk", "discard", "ready"}
            /\ Go(u, p)
            /\ UNCHANGED <<source, reserved, used, skewed>>
    BY <1>6, Zenon DEF Begin, SkipRescan, StartRescan, WalkFails, EndOfFile, ReadFails, InvalidName, From
  <2>2. Exact'
    BY <2>1, MoveExact
  <2>3. \A v \in Uploads : Backed(v)'
    BY <2>1 DEF Go, Backed, BooksInv, QuotaTypeOK
  <2> QED
    BY <2>2, <2>3 DEF BooksInv
<1>7. CASE Write(u)
  <2>1. Exact'
    <3>1. "receive" \in Places \ Trying /\ handler[u] \notin Trying /\ Go(u, "receive")
      BY <1>7 DEF Write, From
    <3> QED
      BY <1>7, <3>1, MoveExact DEF Write
  <2>2. \A v \in Uploads : Backed(v)'
    BY <1>7 DEF Write, From, Go, Backed, BooksInv, QuotaTypeOK
  <2> QED
    BY <2>1, <2>2 DEF BooksInv
<1>8. CASE Discard(u)
  <2>1. Exact'
    <3>1. "leave" \in Places \ Trying /\ handler[u] \notin Trying /\ Go(u, "leave")
      BY <1>8 DEF Discard, From
    <3> QED
      BY <1>8, <3>1, MoveExact DEF Discard
  <2>2. \A v \in Uploads : Backed(v)'
    BY <1>8 DEF Discard, Discarded, From, Go, Backed, BooksInv, QuotaTypeOK
  <2> QED
    BY <2>1, <2>2 DEF BooksInv
<1>9. CASE IoFails(u) \/ Leave(u)
  <2>1. PICK p \in {"failed", "done"} :
            /\ handler[u] \notin Trying /\ Go(u, p)
            /\ DropReservation(u) /\ UNCHANGED <<source, skewed>>
    BY <1>9 DEF IoFails, Leave, From
  <2>2. Exact'
    BY <2>1, DropExact
  <2>3. \A v \in Uploads : Backed(v)'
    BY <2>1 DEF Go, Backed, BooksInv, DropReservation, QuotaTypeOK
  <2> QED
    BY <2>2, <2>3 DEF BooksInv
<1> QED
  BY <1>1, <1>2, <1>3, <1>4, <1>5, <1>6, <1>7, <1>8, <1>9 DEF Receive

(* So does every other step: submission, the pipeline's, a client that goes *)
(* away, a restart.                                                         *)
LEMMA BooksStep ==
    ASSUME QuotaTypeOK, BooksInv, [QuotaNext]_quotaVars
    PROVE  BooksInv'
<1> USE DEF Trying
<1>1. ASSUME NEW u \in Uploads, Receive(u)
      PROVE  BooksInv'
  BY <1>1, ReceiveBooks
<1>2. ASSUME NEW u \in Uploads, Submit(u) \/ Answer(u)
      PROVE  BooksInv'
  <2>1. PICK p \in {"submitted", "leave"} :
            /\ handler[u] \in {"ready", "submitted"} /\ Go(u, p)
            /\ UNCHANGED <<source, reserved, used, skewed>>
    BY <1>2 DEF Submit, Answer, From
  <2>2. Exact'
    BY <2>1, MoveExact
  <2>3. \A v \in Uploads : Backed(v)'
    BY <2>1 DEF Go, Backed, BooksInv, QuotaTypeOK
  <2> QED
    BY <2>2, <2>3 DEF BooksInv
<1>3. ASSUME NEW u \in Uploads, SourceGone(u)
      PROVE  BooksInv'
  <2>1. Exact'
    BY <1>3, StillExact DEF SourceGone, Tried
  <2>2. \A v \in Uploads : Backed(v)'
    BY <1>3 DEF SourceGone, Discarded, Backed, BooksInv, QuotaTypeOK
  <2> QED
    BY <2>1, <2>2 DEF BooksInv
<1>4. ASSUME NEW u \in Uploads, Disconnect(u)
      PROVE  BooksInv'
  <2>1. PICK p \in {"orphan", "gone"} :
            /\ handler[u] \notin Trying /\ Go(u, p)
            /\ DropReservation(u) /\ UNCHANGED skewed
    BY <1>4 DEF Disconnect
  <2>2. Exact'
    BY <2>1, DropExact
  <2>3. ASSUME NEW v \in Uploads
        PROVE  Backed(v)'
    <3>1. CASE v = u
      BY <2>1, <3>1 DEF Go, Backed, QuotaTypeOK
    <3>2. CASE v # u
      <4>1. handler'[v] = handler[v] /\ reserved'[v] = reserved[v]
        BY <2>1, <3>2 DEF Go, DropReservation, QuotaTypeOK
      <4>2. source'[v] = source[v]
        BY <1>4, <3>2 DEF Disconnect, QuotaTypeOK
      <4> QED
        BY <4>1, <4>2 DEF Backed, BooksInv
    <3> QED
      BY <3>1, <3>2
  <2> QED
    BY <2>2, <2>3 DEF BooksInv
<1>5. ASSUME Restart
      PROVE  BooksInv'
  <2>1. Tried' = {}
    BY <1>5 DEF Restart, Tried
  <2>2. Exact'
    BY <1>5, <2>1, TotalZero, FS_EmptySet, QuotaAssumption DEF Restart, Exact
  <2>3. \A v \in Uploads : Backed(v)'
    BY <1>5 DEF Restart, Backed, QuotaTypeOK
  <2> QED
    BY <2>2, <2>3 DEF BooksInv
<1>6. CASE Cool \/ FaultOnly \/ UNCHANGED quotaVars
  <2>1. UNCHANGED <<handler, reserved, source, used, skewed>>
    BY <1>6 DEF Cool, FaultOnly, quotaVars
  <2> QED
    BY <2>1 DEF BooksInv, Exact, Backed, Tried, Total
<1> QED
  BY <1>1, <1>2, <1>3, <1>4, <1>5, <1>6 DEF QuotaNext

(* Exact books keep the directory within the limit: what nothing failed or  *)
(* dropped has left there is reserved.                                      *)
LEMMA BooksKeepQuota ==
    ASSUME QuotaTypeOK, BooksInv
    PROVE  QuotaKept
<1>1. CounterExact
  BY DEF BooksInv, Exact, CounterExact
<1>2. SourceWithinLimit
  <2>1. SUFFICES ASSUME Limited, ~skewed, \A u \in Uploads : handler[u] \in Ends => source[u] = 0
                 PROVE  Total(source) <= Limit
    BY DEF SourceWithinLimit
  <2>2. \A u \in Uploads : source[u] <= reserved[u]
    BY <2>1 DEF BooksInv, Backed, QuotaTypeOK
  <2>3. Total(source) <= Total(reserved)
    BY <2>2, TotalMonotone DEF QuotaTypeOK
  <2>4. Total(reserved) <= Limit
    BY <2>1 DEF BooksInv, Exact
  <2> QED
    BY <2>3, <2>4, Numbers
<1> QED
  BY <1>1, <1>2 DEF QuotaKept

(* At every moment the counter of the quota is what the live uploads have   *)
(* reserved and are trying to reserve, and source/ is within its limit, but *)
(* for what a lowering rescan takes back and what failed or dropped uploads *)
(* leave behind.                                                            *)
THEOREM QuotaExact == Spec => []QuotaKept
<1>1. TypeOK => QuotaTypeOK
  BY DEF TypeOK
<1>2. QuotaTypeOK /\ BooksInv /\ [QuotaNext]_quotaVars => BooksInv'
  BY BooksStep
<1>3. QuotaTypeOK /\ BooksInv => QuotaKept
  BY BooksKeepQuota
<1> QED
  BY <1>1, <1>2, <1>3, InitBooks, StorageTyped, QuotaRefined, PTL DEF QuotaSpec
=============================================================================
