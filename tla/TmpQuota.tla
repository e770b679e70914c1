------------------------------- MODULE TmpQuota -------------------------------
(***************************************************************************)
(* POST /upload of the storage service up to the pipeline, and the quota   *)
(* of its source directory (storage/src/routes/upload.rs, main.rs).        *)
(*                                                                         *)
(* A handler reserves every chunk in an atomic counter before it writes    *)
(* it; its reservation is dropped when the handler returns or its client   *)
(* goes away.  A chunk that does not fit makes the handler rescan the      *)
(* directory: what the counter has above the files' sizes is subtracted.   *)
(* The pipeline removes the source and answers; here these are steps of    *)
(* the environment, StoragePipeline says when they are taken.              *)
(* Sizes are in chunks; every chunk has the same size.                     *)
(***************************************************************************)
EXTENDS Integers, FiniteSets

CONSTANTS
    Uploads,    \* upload requests
    Limited,    \* tmp_max_bytes is set
    Limit,      \* tmp_max_bytes
    CounterMod, \* the counter is modulo this (2^64)
    MaxChunks,  \* bound: chunks of one upload
    MaxFaults   \* bound: I/O errors, disconnects, restarts

ASSUME QuotaAssumption ==
    /\ IsFiniteSet(Uploads)
    /\ Limited \in BOOLEAN
    /\ Limit \in Nat /\ MaxChunks \in Nat /\ MaxFaults \in Nat
    /\ CounterMod \in Nat /\ CounterMod > Limit + Cardinality(Uploads)

VARIABLES
    handler,  \* where each upload handler is
    reserved, \* bytes of its TmpReservation
    source,   \* size of its file in source/, 0 when there is none
    used,     \* tmp_used_bytes
    rescan,   \* the rescan in progress: the counter before, the sizes seen
    cooling,  \* the last rescan is less than TMP_RESCAN_COOLDOWN ago
    skewed,   \* some rescan has lowered the counter (history)
    faults    \* faults so far

quotaVars == <<handler, reserved, source, used, rescan, cooling, skewed, faults>>

(* Where a handler is.  The last four are ends: "done" has answered, as has *)
(* "failed", which left by an I/O error and its ?; "gone" was dropped with  *)
(* its client (or its process), "orphan" too, but after submit: its job     *)
(* goes on without it.                                                      *)
Awaiting  == {"receive", "walk", "write", "discard", "ready", "submitted"}
Receiving == {"receive", "undo", "rescan", "walk", "retry", "refuse", "write"}
Ends      == {"done", "failed", "gone", "orphan"}
Places    == {"idle", "leave"} \cup Awaiting \cup Receiving \cup Ends

NoRescan == [pre |-> 0, seen |-> 0, unread |-> {}]

QuotaInit ==
    /\ handler  = [u \in Uploads |-> "idle"]
    /\ reserved = [u \in Uploads |-> 0]
    /\ source   = [u \in Uploads |-> 0]
    /\ used = 0 /\ rescan = NoRescan /\ cooling = TRUE /\ skewed = FALSE
    /\ faults = 0

Go(u, place) == handler' = [handler EXCEPT ![u] = place]
From(u, place, next) == handler[u] = place /\ Go(u, next)
Fault == faults < MaxFaults /\ faults' = faults + 1

Counter(n) == used' = n % CounterMod

(* Drop for TmpReservation *)
DropReservation(u) ==
    /\ reserved' = [reserved EXCEPT ![u] = 0]
    /\ IF Limited THEN Counter(used - reserved[u]) ELSE UNCHANGED used

Discarded(u) == source' = [source EXCEPT ![u] = 0]

-----------------------------------------------------------------------------
(* A chunk arrives. *)

\* Mutant of Fits: >= and > confused.
FitsOneMore == used <= Limit

Fits == used + 1 <= Limit

(* try_add(1): fetch_add, then fetch_sub as a step of its own when it does  *)
(* not fit, in between the chunk is visible to the others.                  *)
TryAdd(u, place, refused) ==
    /\ handler[u] = place
    /\ Limited => Counter(used + 1)
    /\ ~Limited => UNCHANGED used
    /\ IF ~Limited \/ Fits
       THEN Go(u, "write") /\ reserved' = [reserved EXCEPT ![u] = @ + 1]
       ELSE Go(u, refused) /\ UNCHANGED reserved
    /\ UNCHANGED <<source, rescan, cooling, skewed, faults>>

Begin(u) == /\ From(u, "idle", "receive")
            /\ UNCHANGED <<reserved, source, used, rescan, cooling, skewed, faults>>

Chunk(u) == reserved[u] < MaxChunks /\ TryAdd(u, "receive", "undo")

\* Mutant of TakeBack: a refused chunk stays in the counter.
TakeBackNothing == UNCHANGED used

TakeBack == Counter(used - 1)

Undo(u) == /\ From(u, "undo", "rescan") /\ TakeBack
           /\ UNCHANGED <<reserved, source, rescan, cooling, skewed, faults>>

Walking == \E v \in Uploads : handler[v] = "walk"

(* rescan_tmp_usage: try_lock, cooldown, the counter, the walk through the *)
(* directory file by file, the subtraction.                                *)
SkipRescan(u) ==
    /\ Walking \/ cooling
    /\ From(u, "rescan", "retry")
    /\ UNCHANGED <<reserved, source, used, rescan, cooling, skewed, faults>>

StartRescan(u) ==
    /\ ~Walking /\ ~cooling
    /\ From(u, "rescan", "walk")
    /\ rescan' = [pre |-> used, seen |-> 0, unread |-> Uploads]
    /\ UNCHANGED <<reserved, source, used, cooling, skewed, faults>>

Look(u) ==
    /\ handler[u] = "walk"
    /\ \E v \in rescan.unread :
          rescan' = [pre |-> rescan.pre, seen |-> rescan.seen + source[v],
                     unread |-> rescan.unread \ {v}]
    /\ UNCHANGED <<handler, reserved, source, used, cooling, skewed, faults>>

FinishRescan(u) ==
    /\ rescan.unread = {}
    /\ From(u, "walk", "retry")
    /\ IF rescan.pre > rescan.seen
       THEN Counter(used - (rescan.pre - rescan.seen)) /\ skewed' = TRUE
       ELSE UNCHANGED <<used, skewed>>
    /\ cooling' = TRUE /\ rescan' = NoRescan
    /\ UNCHANGED <<reserved, source, faults>>

WalkFails(u) ==
    /\ Fault
    /\ From(u, "walk", "retry")
    /\ cooling' = TRUE /\ rescan' = NoRescan
    /\ UNCHANGED <<reserved, source, used, skewed>>

Cool == /\ cooling /\ cooling' = FALSE
        /\ UNCHANGED <<handler, reserved, source, used, rescan, skewed, faults>>

Retry(u) == TryAdd(u, "retry", "refuse")

(* The second refusal: remove the file and leave with 507. *)
Refuse(u) == /\ From(u, "refuse", "discard") /\ TakeBack
             /\ UNCHANGED <<reserved, source, rescan, cooling, skewed, faults>>

Write(u) == /\ From(u, "write", "receive")
            /\ source' = [source EXCEPT ![u] = @ + 1]
            /\ UNCHANGED <<reserved, used, rescan, cooling, skewed, faults>>

-----------------------------------------------------------------------------
(* The upload ends. *)

(* The stream is over: an empty file is removed. *)
EndOfFile(u) ==
    /\ From(u, "receive", IF reserved[u] = 0 THEN "discard" ELSE "ready")
    /\ UNCHANGED <<reserved, source, used, rescan, cooling, skewed, faults>>

ReadFails(u) == /\ Fault
                /\ From(u, "receive", "discard")
                /\ UNCHANGED <<reserved, source, used, rescan, cooling, skewed>>

InvalidName(u) ==
    /\ From(u, "ready", "discard")
    /\ UNCHANGED <<reserved, source, used, rescan, cooling, skewed, faults>>

Discard(u) == /\ From(u, "discard", "leave") /\ Discarded(u)
              /\ UNCHANGED <<reserved, used, rescan, cooling, skewed, faults>>

(* write_all, flush or the next form field fails: ? returns at once, and    *)
(* the file stays.                                                          *)
IoFails(u) ==
    /\ Fault
    /\ handler[u] \in {"write", "ready"}
    /\ Go(u, "failed")
    /\ DropReservation(u)
    /\ UNCHANGED <<source, rescan, cooling, skewed>>

Submit(u) == /\ From(u, "ready", "submitted")
             /\ UNCHANGED <<reserved, source, used, rescan, cooling, skewed, faults>>

(* The pipeline is through with the source; the job may have lost its      *)
(* handler.                                                                *)
SourceGone(u) ==
    /\ handler[u] \in {"submitted", "orphan"}
    /\ Discarded(u)
    /\ UNCHANGED <<handler, reserved, used, rescan, cooling, skewed, faults>>

(* The pipeline fails at something that is no concern of the upload's.     *)
FaultOnly == Fault /\ UNCHANGED <<handler, reserved, source, used, rescan, cooling, skewed>>

Answer(u) == /\ From(u, "submitted", "leave")
             /\ UNCHANGED <<reserved, source, used, rescan, cooling, skewed, faults>>

Leave(u) == /\ From(u, "leave", "done")
            /\ DropReservation(u)
            /\ UNCHANGED <<source, rescan, cooling, skewed, faults>>

(* The client goes away: the handler is dropped where it awaits, with its  *)
(* reservation and the rescan's lock.  A write under way may still land.   *)
Disconnect(u) ==
    /\ Fault
    /\ handler[u] \in Awaiting
    /\ Go(u, IF handler[u] = "submitted" THEN "orphan" ELSE "gone")
    /\ rescan' = IF handler[u] = "walk" THEN NoRescan ELSE rescan
    /\ DropReservation(u)
    /\ \E n \in {0, 1} : /\ n = 1 => handler[u] = "write"
                         /\ source' = [source EXCEPT ![u] = @ + n]
    /\ UNCHANGED <<cooling, skewed>>

(* The process dies and boots: handlers are lost, source/ is purged and    *)
(* the counter starts from what is left.                                   *)
Restart ==
    /\ Fault
    /\ handler' = [u \in Uploads |-> IF handler[u] \in {"idle", "done", "failed"}
                                     THEN handler[u] ELSE "gone"]
    /\ reserved' = [u \in Uploads |-> 0]
    /\ source'   = [u \in Uploads |-> 0]
    /\ used' = 0 /\ rescan' = NoRescan /\ cooling' = TRUE /\ skewed' = FALSE

Receive(u) ==
    \/ Begin(u) \/ Chunk(u) \/ Undo(u) \/ SkipRescan(u) \/ StartRescan(u) \/ Look(u)
    \/ FinishRescan(u) \/ WalkFails(u) \/ Retry(u) \/ Refuse(u) \/ Write(u)
    \/ EndOfFile(u) \/ ReadFails(u) \/ InvalidName(u) \/ Discard(u) \/ IoFails(u)
    \/ Leave(u)

QuotaNext ==
    \/ \E u \in Uploads : \/ Receive(u) \/ Submit(u) \/ SourceGone(u) \/ Answer(u)
                          \/ Disconnect(u)
    \/ Cool \/ FaultOnly \/ Restart

QuotaSpec == QuotaInit /\ [][QuotaNext]_quotaVars

-----------------------------------------------------------------------------
(* Properties *)

QuotaTypeOK ==
    /\ handler \in [Uploads -> Places]
    /\ reserved \in [Uploads -> Nat] /\ source \in [Uploads -> Nat]
    /\ used \in 0 .. CounterMod - 1
    /\ rescan \in [pre : Nat, seen : Nat, unread : SUBSET Uploads]
    /\ cooling \in BOOLEAN /\ skewed \in BOOLEAN
    /\ faults \in 0 .. MaxFaults

(* The chunks themselves: as many of each upload as f says. *)
Chunks(f) == UNION {{u} \X (1 .. f[u]) : u \in Uploads}
Total(f)  == Cardinality(Chunks(f))

Tried == {u \in Uploads : handler[u] \in {"undo", "refuse"}}

(* The counter is at every moment what the live uploads have reserved and  *)
(* what they are trying to reserve, whatever their handlers died of, until *)
(* a rescan lowers it: every byte a rescan "recovers" is still reserved,   *)
(* since a reservation is never lost, and will be subtracted twice.        *)
CounterExact ==
    Limited /\ ~skewed => used = Total(reserved) + Cardinality(Tried)

(* source/ stays within the limit (storage/.env.example:26) unless a       *)
(* rescan has lowered the counter or a failed or dropped upload has left   *)
(* its file, which nothing counts before the next boot.                    *)
SourceWithinLimit ==
    (Limited /\ ~skewed /\ \A u \in Uploads : handler[u] \in Ends => source[u] = 0)
        => Total(source) <= Limit

(* The books and the directory they are about. *)
QuotaKept == CounterExact /\ SourceWithinLimit

(* storage/.env.example:26 without these exceptions, while nothing fails:  *)
(* "the limit of the total size of the source/ directory".                 *)
SourceLimit == Limited /\ faults = 0 => Total(source) <= Limit
=============================================================================
