------------------------------ MODULE Indexing ------------------------------
(***************************************************************************)
(* From a track seen in an answer of SoundCloud to its vectors             *)
(* (indexing/service.rs, indexing/track_discovery.rs, transcode/service.rs,*)
(* streaming's internal endpoint, worker/handlers/audio.py) over the       *)
(* at-least-once delivery of bus/nats.rs.                                  *)
(*                                                                         *)
(* Every message of a kind and a track is handled alike, so `mail' is a    *)
(* set; a delivery that is not acknowledged comes again until MaxDeliver.  *)
(* The fingerprints that DONE messages carry, and the merging of tracks    *)
(* that sound alike, are left out; the enrichment and the lyrics a new     *)
(* track starts are the modules Enrich and Lyrics.                         *)
(***************************************************************************)
EXTENDS Naturals, FiniteSets

CONSTANTS Recordings,
          Unplayable,       \* those no source can stream
          ReapBatch,        \* REAP_BATCH
          MaxDeliver,       \* max_deliver
          MaxMishaps        \* bound: faults

ASSUME IndexingAssumption ==
  /\ Unplayable \subseteq Recordings
  /\ ReapBatch \in Nat \ {0} /\ MaxDeliver \in Nat \ {0} /\ MaxMishaps \in Nat

VARIABLES row,        \* indexed_tracks: "none", "new", "old" (past REAP_AGE), "indexed"
          looking,    \* the tasks of run_one
          triggers,   \* the tasks of TranscodeTriggerService
          stored,     \* the tracks in the storage
          vectors,    \* the tracks in Qdrant
          mail,       \* the messages not acknowledged
          mishaps
indexVars == <<row, looking, triggers, stored, vectors, mail, mishaps>>

Message == [kind : {"uploaded", "audio", "done"}, song : Recordings, try : 1..MaxDeliver]
Msg(kind, s) == [kind |-> kind, song |-> s, try |-> 1]
NotIndexed(s) == row[s] \in {"new", "old"}

IndexInit ==
  /\ row = [s \in Recordings |-> "none"]
  /\ looking = {} /\ triggers = {} /\ stored = {} /\ vectors = {} /\ mail = {}
  /\ mishaps = 0

Well == UNCHANGED mishaps
Mishap == mishaps < MaxMishaps /\ mishaps' = mishaps + 1

-----------------------------------------------------------------------------
(* Discovery: observe() spawns run_one for an id it has not seen lately. *)
Observe(s) ==
  /\ s \notin looking /\ looking' = looking \cup {s}
  /\ UNCHANGED <<row, triggers, stored, vectors, mail>> /\ Well

(* SoundCloud does not answer, or the process dies. *)
LookFails(s) ==
  /\ s \in looking /\ looking' = looking \ {s}
  /\ UNCHANGED <<row, triggers, stored, vectors, mail>> /\ Well

Inserted(s) == [row EXCEPT ![s] = IF @ = "none" THEN "new" ELSE @]

(* The row is inserted, or found not indexed yet, and a trigger spawned,   *)
(* unless the process dies in between.                                     *)
EnsureTrackIndexed(s) ==
  /\ s \in looking /\ looking' = looking \ {s}
  /\ row' = Inserted(s)
  /\ \/ Well /\ triggers' = IF row[s] # "indexed" THEN triggers \cup {s} ELSE triggers
     \/ Mishap /\ UNCHANGED triggers
  /\ UNCHANGED <<stored, vectors, mail>>

(* A listener's event asks for a known track. *)
EnsureTrackQueued(s) ==
  /\ NotIndexed(s) /\ s \notin triggers
  /\ triggers' = triggers \cup {s}
  /\ UNCHANGED <<row, looking, stored, vectors, mail>> /\ Well

-----------------------------------------------------------------------------
(* The trigger: POST /internal/transcode-upload. *)

(* A stored track is announced by the trigger itself. *)
TriggerCached(s) ==
  /\ s \in triggers \cap stored /\ triggers' = triggers \ {s}
  /\ mail' = mail \cup {Msg("uploaded", s)}
  /\ UNCHANGED <<row, looking, stored, vectors>> /\ Well

(* Fetched and uploaded; the storage announces it, or fails to. *)
TranscodeUpload(s) ==
  /\ s \in triggers \ (stored \cup Unplayable) /\ triggers' = triggers \ {s}
  /\ stored' = stored \cup {s}
  /\ \/ Well /\ mail' = mail \cup {Msg("uploaded", s)}
     \/ Mishap /\ UNCHANGED mail
  /\ UNCHANGED <<row, looking, vectors>>

(* No stream, a failed upload, a timeout, a failed publication. *)
TriggerFails(s) ==
  /\ s \in triggers /\ triggers' = triggers \ {s}
  /\ IF s \in Unplayable THEN Well ELSE Mishap
  /\ UNCHANGED <<row, looking, stored, vectors, mail>>

-----------------------------------------------------------------------------
(* Deliveries.  A handler acknowledges at its end; when it returns an      *)
(* error, dies, or takes longer than ack_wait, the message comes again.    *)
Again(m) == IF m.try < MaxDeliver THEN {[m EXCEPT !.try = @ + 1]} ELSE {}
Handled(m, out) ==
  \E again \in {{}, Again(m)} : mail' = ((mail \ {m}) \cup again) \cup out

(* Mutant: a known track is only marked as verified. *)
UploadedIfUnknown(m) ==
  /\ m.kind = "uploaded"
  /\ row' = Inserted(m.song)
  /\ Handled(m, IF row[m.song] = "none" THEN {Msg("audio", m.song)} ELSE {})
  /\ UNCHANGED <<looking, triggers, stored, vectors>> /\ Well

(* s3_verified_at is set in each case. *)
StorageUploaded(m) ==
  /\ m.kind = "uploaded"
  /\ row' = Inserted(m.song)
  /\ Handled(m, IF row[m.song] = "indexed" THEN {} ELSE {Msg("audio", m.song)})
  /\ UNCHANGED <<looking, triggers, stored, vectors>> /\ Well

(* The worker: the vectors, once; then the event. *)
IndexAudio(m) ==
  /\ m.kind = "audio"
  /\ vectors' = vectors \cup {m.song}
  /\ Handled(m, {Msg("done", m.song)})
  /\ UNCHANGED <<row, looking, triggers, stored>> /\ Well

DoneIndexAudio(m) ==
  /\ m.kind = "done"
  /\ row' = [row EXCEPT ![m.song] = IF @ = "none" THEN @ ELSE "indexed"]
  /\ Handled(m, {})
  /\ UNCHANGED <<looking, triggers, stored, vectors>> /\ Well

(* The handler fails before or after its first effect. *)
HandlerFails(m) ==
  /\ Mishap /\ mail' = (mail \ {m}) \cup Again(m)
  /\ \/ UNCHANGED <<row, vectors>>
     \/ m.kind = "uploaded" /\ row' = Inserted(m.song) /\ UNCHANGED vectors
     \/ m.kind = "audio" /\ vectors' = vectors \cup {m.song} /\ UNCHANGED row
  /\ UNCHANGED <<looking, triggers, stored>>

(* max_age passes with no consumer. *)
MessageExpires(m) ==
  /\ Mishap /\ mail' = mail \ {m}
  /\ UNCHANGED <<row, looking, triggers, stored, vectors>>

-----------------------------------------------------------------------------
(* The reaper. *)
Ages(s) ==
  /\ row[s] = "new" /\ row' = [row EXCEPT ![s] = "old"]
  /\ UNCHANGED <<looking, triggers, stored, vectors, mail>> /\ Well

(* At most REAP_BATCH of the stuck tracks, in no order. *)
Stuck == {s \in Recordings : row[s] = "old"}
Picked == {S \in SUBSET Stuck :
             Cardinality(S) = IF Cardinality(Stuck) < ReapBatch THEN Cardinality(Stuck) ELSE ReapBatch}
Reap ==
  /\ \E S \in Picked : triggers' = triggers \cup S
  /\ UNCHANGED <<row, looking, stored, vectors, mail>> /\ Well

-----------------------------------------------------------------------------
TriggerStep(s) == TriggerCached(s) \/ TranscodeUpload(s) \/ TriggerFails(s)
Deliver(m) == StorageUploaded(m) \/ IndexAudio(m) \/ DoneIndexAudio(m) \/ HandlerFails(m)
Deliveries(kind, s) == \E m \in mail : m.kind = kind /\ m.song = s /\ Deliver(m)

IndexNext ==
  \/ \E s \in Recordings : Observe(s) \/ LookFails(s) \/ EnsureTrackIndexed(s)
                        \/ EnsureTrackQueued(s) \/ TriggerStep(s) \/ Ages(s)
  \/ \E m \in mail : Deliver(m) \/ MessageExpires(m)
  \/ Reap

(* Spawned tasks run on, consumers get what there is, time passes and the  *)
(* reaper ticks.  Nobody owes an observation.                              *)
IndexFairness ==
  /\ WF_indexVars(Reap)
  /\ \A s \in Recordings : WF_indexVars(TriggerStep(s)) /\ WF_indexVars(Ages(s))
  /\ \A kind \in {"uploaded", "audio", "done"}, s \in Recordings : WF_indexVars(Deliveries(kind, s))
IndexSpec == IndexInit /\ [][IndexNext]_indexVars /\ IndexFairness

-----------------------------------------------------------------------------
(* Properties. *)

(* What the row says of a track is true: an indexed track has its vectors, *)
(* its file was stored and some source streams it, however often messages  *)
(* come and whatever fails in between.  (Nothing here deletes a file.)     *)
IndexedTruly ==
  \A s \in Recordings : row[s] = "indexed" => s \in vectors \cap (stored \ Unplayable)

(* No message or task of the pipeline is about a track without a row, so   *)
(* the UPDATE that ends the indexing finds one.                            *)
RowsFirst ==
  /\ \A s \in triggers : row[s] # "none"
  /\ \A m \in mail : row[m.song] # "none"

(* A known track that some source can stream is indexed in the end,        *)
(* whatever messages are lost, repeated or given up and wherever a process *)
(* dies, as long as the unplayable tracks leave room in the reaper's batch.*)
KnownGetIndexed ==
  Cardinality(Unplayable) < ReapBatch =>
    \A s \in Recordings \ Unplayable : NotIndexed(s) ~> row[s] = "indexed"
=============================================================================
