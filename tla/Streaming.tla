----------------------------- MODULE Streaming -----------------------------
(***************************************************************************)
(* The streaming server (streaming/src): a stream request is redirected to *)
(* the stored file of its track (stream/storage.rs), or asks its sources   *)
(* (stream/handler.rs), whose audio is uploaded in the background; the row *)
(* of cdn_tracks (db/postgres.rs) says whether the file is there and the   *)
(* cleanup task (cleanup/task.rs) removes both.  One track: rows and files *)
(* of two tracks do not meet.  Apart from that, the anonymous API's client *)
(* id, which all its users share (stream/anon.rs): StoreNext and AnonNext  *)
(* have only a restart in common.                                          *)
(***************************************************************************)
EXTENDS Naturals, FiniteSets

CONSTANTS Listeners, Nobody,
          RowIds,      \* UUIDs: never used up, a new one is one that nothing refers to
          Threshold,   \* UNAVAILABLE_THRESHOLD
          Asks,        \* bound: asks of the anonymous API in one request
          MaxRotations,\* bound: client ids SoundCloud withdraws
          MaxTrouble   \* bound: statements, deletions and processes failing

ASSUME StreamingAssumption ==
  /\ Nobody \notin Listeners /\ IsFiniteSet(Listeners)
  /\ 0 \notin RowIds
  /\ IsFiniteSet(RowIds) => Cardinality(RowIds) > 2 * Cardinality(Listeners) + 2
  /\ Threshold \in Nat \ {0} /\ Asks \in Nat \ {0}
  /\ MaxRotations \in Nat /\ MaxTrouble \in Nat

VARIABLES cdn,        \* the row of cdn_tracks
          file,       \* the file is in the storage
          breaker,    \* consecutive_unavailable and unavailable_until
          streaming,  \* the stream requests
          asking,     \* the calls of the anonymous API
          uploading,  \* the background uploads
          cleaner,    \* the cleanup task
          clientId, gate,  \* AnonClient's client_id and refresh_gate
          liveId,     \* the client id SoundCloud accepts
          trouble, troubled  \* how many faults there were; one hit the row
rowVars == <<cdn, file, uploading, cleaner>>
storeVars == <<rowVars, breaker, streaming>>
anonVars == <<asking, clientId, gate, liveId>>
streamVars == <<storeVars, anonVars, trouble, troubled>>

NoRow == [status |-> "none", id |-> 0]
NotStreaming == [pc |-> "idle", row |-> 0]
NotAsking == [pc |-> "idle", asks |-> 0]
Unlocked == [holder |-> Nobody, recent |-> FALSE]

StreamInit ==
  /\ cdn = NoRow /\ file = FALSE
  /\ breaker = [failures |-> 0, open |-> FALSE]
  /\ streaming = [l \in Listeners |-> NotStreaming]
  /\ asking = [l \in Listeners |-> NotAsking]
  /\ uploading = {} /\ cleaner = [pc |-> "idle", id |-> 0]
  /\ clientId = 0 /\ gate = Unlocked /\ liveId = 1
  /\ trouble = 0 /\ troubled = FALSE

Trouble == trouble < MaxTrouble /\ trouble' = trouble + 1
NoTrouble == UNCHANGED <<trouble, troubled>>

-----------------------------------------------------------------------------
(* The circuit breaker of the storage. *)

(* mark_available and mark_unavailable; the count is cut off at the        *)
(* threshold, above which nothing tells two counts apart.                  *)
Available == breaker' = [failures |-> 0, open |-> FALSE]
Unavailable ==
  LET n == IF breaker.failures < Threshold THEN breaker.failures + 1 ELSE Threshold
  IN breaker' = [failures |-> n, open |-> breaker.open \/ n >= Threshold]

(* UNAVAILABLE_COOLDOWN_MS passes; the count stays. *)
CooldownPasses ==
  /\ breaker.open /\ breaker' = [breaker EXCEPT !.open = FALSE]
  /\ UNCHANGED <<rowVars, streaming, anonVars>> /\ NoTrouble

-----------------------------------------------------------------------------
(* Requests. *)

Steps(l, pc) == streaming' = [streaming EXCEPT ![l] = [pc |-> pc, row |-> 0]]
Answered(l) == streaming' = [streaming EXCEPT ![l] = NotStreaming]

(* stream_inner and try_serve: nothing is asked of a storage whose breaker *)
(* is open.                                                                *)
Stream(l) ==
  /\ streaming[l].pc = "idle"
  /\ IF breaker.open \/ cdn.status # "ok" THEN Steps(l, "sources")
     ELSE streaming' = [streaming EXCEPT ![l] = [pc |-> "verify", row |-> cdn.id]]
  /\ UNCHANGED <<rowVars, breaker, anonVars>> /\ NoTrouble

SetStatus(id, status) ==
  cdn' = IF cdn.status # "none" /\ cdn.id = id THEN [cdn EXCEPT !.status = status] ELSE cdn

(* HEAD answers: the file is there (the redirect), is missing, or nobody   *)
(* knows.                                                                  *)
VerifyFound(l) ==
  /\ streaming[l].pc = "verify" /\ ~breaker.open /\ file
  /\ Available /\ Answered(l)
  /\ UNCHANGED <<rowVars, anonVars>> /\ NoTrouble

VerifyMissing(l) ==
  /\ streaming[l].pc = "verify" /\ ~breaker.open /\ ~file
  /\ Available /\ Steps(l, "sources")
  /\ SetStatus(streaming[l].row, "error")
  /\ UNCHANGED <<file, uploading, cleaner, anonVars>> /\ NoTrouble

VerifyUnavailable(l) ==
  /\ streaming[l].pc = "verify" /\ Steps(l, "sources")
  /\ IF breaker.open THEN UNCHANGED breaker ELSE Unavailable
  /\ UNCHANGED <<rowVars, anonVars>> /\ NoTrouble

(* A source had the audio (respond_with_data, or the end of a decrypted    *)
(* stream): the answer goes out, an upload starts unless the audio is too  *)
(* short or the storage's breaker open.  (Bound: one upload at a time for  *)
(* each listener.)                                                         *)
Respond(l) ==
  /\ streaming[l].pc = "sources" /\ Answered(l)
  /\ \/ UNCHANGED uploading
     \/ /\ ~breaker.open /\ \A u \in uploading : u.by # l
        /\ uploading' = uploading \cup {[by |-> l, pc |-> "insert", id |-> 0]}
  /\ UNCHANGED <<cdn, file, cleaner, breaker, anonVars>> /\ NoTrouble

(* No source had it, or STREAM_DEADLINE passed. *)
NoStream(l) ==
  /\ streaming[l].pc # "idle" /\ Answered(l)
  /\ UNCHANGED <<rowVars, breaker, anonVars>> /\ NoTrouble

-----------------------------------------------------------------------------
(* The anonymous API.  No call keeps a client id over a refresh: each ask  *)
(* takes the one there is.                                                 *)

AsksNext(l, pc) == asking' = [asking EXCEPT ![l].pc = pc]
AnonOnly == UNCHANGED storeVars /\ NoTrouble

(* get_client_id *)
BeginAnon(l) ==
  /\ asking[l].pc = "idle"
  /\ AsksNext(l, IF clientId = 0 THEN "gate" ELSE "ask")
  /\ UNCHANGED <<clientId, gate, liveId>> /\ AnonOnly

(* get_track_by_id, resolve_url, resolve_transcoding_url: an ask that      *)
(* fails, of an id that was withdrawn or of any other, refreshes the id.   *)
AskAnon(l) ==
  /\ asking[l].pc = "ask"
  /\ \/ clientId = liveId /\ asking' = [asking EXCEPT ![l] = NotAsking]
     \/ IF asking[l].asks = Asks THEN asking' = [asking EXCEPT ![l] = NotAsking]
        ELSE asking' = [asking EXCEPT ![l] = [pc |-> "gate", asks |-> @.asks + 1]]
  /\ UNCHANGED <<clientId, gate, liveId>> /\ AnonOnly

(* coalesced_refresh: who gets the gate within CLIENT_ID_MIN_REFRESH of a  *)
(* refresh takes that one's result.                                        *)
TakeGate(l) ==
  /\ asking[l].pc = "gate" /\ gate.holder = Nobody
  /\ IF gate.recent THEN AsksNext(l, "ask") /\ UNCHANGED gate
     ELSE gate' = [gate EXCEPT !.holder = l] /\ AsksNext(l, "fetch")
  /\ UNCHANGED <<clientId, liveId>> /\ AnonOnly

FetchClientId(l) ==
  /\ asking[l].pc = "fetch" /\ AsksNext(l, "ask")
  /\ clientId' = liveId
  /\ gate' = [holder |-> Nobody, recent |-> TRUE]
  /\ UNCHANGED liveId /\ AnonOnly

(* The page cannot be had, or the call is given up at the deadline.        *)
AnonGivesUp(l) ==
  /\ asking[l].pc # "idle" /\ asking' = [asking EXCEPT ![l] = NotAsking]
  /\ gate' = IF gate.holder = l THEN [gate EXCEPT !.holder = Nobody] ELSE gate
  /\ UNCHANGED <<clientId, liveId>> /\ AnonOnly

(* CLIENT_ID_MIN_REFRESH passes; SoundCloud withdraws a client id. *)
WindowPasses ==
  /\ gate.recent /\ gate' = [gate EXCEPT !.recent = FALSE]
  /\ UNCHANGED <<asking, clientId, liveId>> /\ AnonOnly

IdWithdrawn ==
  /\ liveId <= MaxRotations /\ liveId' = liveId + 1
  /\ UNCHANGED <<asking, clientId, gate>> /\ AnonOnly

-----------------------------------------------------------------------------
(* Background uploads. *)

Uploads(u, pc) == uploading' = (uploading \ {u}) \cup {[u EXCEPT !.pc = pc]}
FreshId == CHOOSE id \in RowIds :
  id \notin {cdn.id, cleaner.id} \cup {u.id : u \in uploading}
                \cup {streaming[l].row : l \in Listeners}

(* insert_cdn_track: a row that is there keeps its id, and the new id that *)
(* is returned is nobody's (here 0).                                       *)
InsertCdnTrack(u) ==
  /\ u.pc = "insert"
  /\ LET id == IF cdn.status = "none" THEN FreshId ELSE 0
     IN /\ uploading' = (uploading \ {u}) \cup {[u EXCEPT !.pc = "send", !.id = id]}
        /\ cdn' = [status |-> "pending", id |-> IF cdn.status = "none" THEN id ELSE cdn.id]
  /\ troubled' = (troubled /\ cdn.status # "none")
  /\ UNCHANGED <<file, cleaner, trouble, anonVars, breaker, streaming>>

(* upload_to_storage; a failed one may have arrived. *)
UploadSucceeds(u) ==
  /\ u.pc = "send" /\ file' = TRUE /\ Available /\ Uploads(u, "ok")
  /\ UNCHANGED <<cdn, cleaner, anonVars, streaming>> /\ NoTrouble

UploadFails(u) ==
  /\ u.pc = "send" /\ file' \in {file, TRUE} /\ Unavailable /\ Uploads(u, "error")
  /\ UNCHANGED <<cdn, cleaner, anonVars, streaming>> /\ NoTrouble

UpdateCdnTrackStatus(u) ==
  /\ u.pc \in {"ok", "error"} /\ uploading' = uploading \ {u}
  /\ SetStatus(u.id, u.pc)
  /\ UNCHANGED <<file, cleaner, anonVars, breaker, streaming>> /\ NoTrouble

UpdateFails(u) ==
  /\ u.pc \in {"insert", "ok", "error"} /\ uploading' = uploading \ {u}
  /\ Trouble /\ troubled' = TRUE
  /\ UNCHANGED <<cdn, file, cleaner, anonVars, breaker, streaming>>

-----------------------------------------------------------------------------
(* run_cleanup: the rows found are taken one by one, the file first. *)

FindStale ==
  /\ cleaner.pc = "idle" /\ cdn.status = "ok"
  /\ cleaner' = [pc |-> "file", id |-> cdn.id]
  /\ UNCHANGED <<cdn, file, uploading, anonVars, breaker, streaming>> /\ NoTrouble

(* Mutant: the row goes before the file. *)
DeleteRowFirst ==
  /\ \/ /\ cleaner.pc = "file" /\ cleaner' = [cleaner EXCEPT !.pc = "row"]
        /\ cdn' = (IF cdn.id = cleaner.id THEN NoRow ELSE cdn) /\ UNCHANGED file
     \/ /\ cleaner.pc = "row" /\ cleaner' = [pc |-> "idle", id |-> 0]
        /\ file' = FALSE /\ UNCHANGED cdn
  /\ UNCHANGED <<uploading, anonVars, breaker, streaming>> /\ NoTrouble

DeleteStale ==
  /\ \/ /\ cleaner.pc = "file" /\ cleaner' = [cleaner EXCEPT !.pc = "row"]
        /\ file' = FALSE /\ UNCHANGED cdn
     \/ /\ cleaner.pc = "row" /\ cleaner' = [pc |-> "idle", id |-> 0]
        /\ cdn' = IF cdn.id = cleaner.id THEN NoRow ELSE cdn
        /\ UNCHANGED file
  /\ UNCHANGED <<uploading, anonVars, breaker, streaming>> /\ NoTrouble

(* A deletion fails: the next tick takes the row again. *)
CleanupFails ==
  /\ cleaner.pc # "idle" /\ cleaner' = [pc |-> "idle", id |-> 0]
  /\ Trouble /\ troubled' = (troubled \/ cleaner.pc = "row")
  /\ UNCHANGED <<cdn, file, uploading, anonVars, breaker, streaming>>

(* The process restarts; the storage loses a file. *)
ServerRestarts ==
  /\ Trouble /\ troubled' = (troubled \/ uploading # {} \/ cleaner.pc = "row")
  /\ uploading' = {} /\ cleaner' = [pc |-> "idle", id |-> 0]
  /\ streaming' = [l \in Listeners |-> NotStreaming]
  /\ asking' = [l \in Listeners |-> NotAsking]
  /\ clientId' = 0 /\ gate' = Unlocked
  /\ breaker' = [failures |-> 0, open |-> FALSE]
  /\ UNCHANGED <<cdn, file, liveId>>

FileLost ==
  /\ Trouble /\ file /\ file' = FALSE /\ troubled' = TRUE
  /\ UNCHANGED <<cdn, uploading, cleaner, anonVars, breaker, streaming>>

-----------------------------------------------------------------------------
ListenerStep(l) ==
  \/ Stream(l) \/ VerifyFound(l) \/ VerifyMissing(l)
  \/ VerifyUnavailable(l) \/ Respond(l) \/ NoStream(l)
AnonStep(l) ==
  \/ BeginAnon(l) \/ AskAnon(l) \/ TakeGate(l) \/ FetchClientId(l) \/ AnonGivesUp(l)
UploadStep(u) ==
  \/ InsertCdnTrack(u) \/ UploadSucceeds(u) \/ UploadFails(u)
  \/ UpdateCdnTrackStatus(u) \/ UpdateFails(u)
StoreNext ==
  \/ \E l \in Listeners : ListenerStep(l)
  \/ \E u \in uploading : UploadStep(u)
  \/ FindStale \/ DeleteStale \/ CleanupFails \/ CooldownPasses \/ FileLost
AnonNext == WindowPasses \/ IdWithdrawn \/ \E l \in Listeners : AnonStep(l)
StreamNext == StoreNext \/ AnonNext \/ ServerRestarts

StreamSpec == StreamInit /\ [][StreamNext]_streamVars

-----------------------------------------------------------------------------
(* Properties. *)

(* A row says its file is stored only while it is, but between the two     *)
(* deletions of the cleanup and after a fault of the storage: uploads that *)
(* overlap with a cleanup, a verification or each other do not make it     *)
(* promise a file that is gone.                                            *)
OkMeansStored ==
  cdn.status = "ok" => file \/ troubled \/ cleaner = [pc |-> "row", id |-> cdn.id]
=============================================================================
