--------------------------- MODULE StoragePipeline ---------------------------
(***************************************************************************)
(* The storage service behind POST /upload: the per-file lock, the         *)
(* batches of ffmpeg, the writer and the local backend, the event          *)
(* storage.track_uploaded, and DELETE (storage/src/pipeline.rs,            *)
(* backend/local.rs, bus.rs, routes/files.rs).  It gives TmpQuota's steps  *)
(* Submit, SourceGone, Answer and Restart their effect on the job.         *)
(*                                                                         *)
(* The order of the two channels is left open, and a job waits for no      *)
(* writer: the pool has 64 of them.  A duration stands for a recording's   *)
(* content: 0 is a file ffmpeg cannot read.                                *)
(***************************************************************************)
EXTENDS TmpQuota

CONSTANTS
    Files,          \* sanitized filenames, the keys of the store
    Durations,      \* durations uploads have, in seconds
    MinDuration,    \* MIN_UPLOAD_DURATION_SECS
    Epsilon,        \* DURATION_EPSILON_SECS
    BatchSize,      \* transcode_batch_size
    MaxTranscodes,  \* max_transcodes
    MaxAttempts     \* upload_retries + 1

ASSUME PipelineAssumption ==
    /\ Durations \subseteq Nat /\ MinDuration \in Nat /\ Epsilon \in Nat
    /\ BatchSize \in Nat \ {0} /\ MaxTranscodes \in Nat \ {0} /\ MaxAttempts \in Nat \ {0}

VARIABLES
    stage,      \* where the job of an upload is
    request,    \* its file and duration
    place,      \* where its transcode is: result directory, staged beside the file, nowhere
    ok,         \* its result
    tries,      \* failed attempts of its writer
    batches,    \* the batches that hold a transcode permit
    stored,     \* the duration of each stored file, 0 when there is none
    contested,  \* files two jobs worked on at once, or compared blindly (history)
    committed,  \* files that have been stored (history)
    announced   \* files of the storage.track_uploaded events

jobVars   == <<stage, request, place, ok, tries, batches>>
storeVars == <<stored, contested, committed, announced>>
pipeVars  == <<jobVars, storeVars>>
vars      == <<quotaVars, pipeVars>>

Stages  == {"none", "queued", "batch", "single", "commit", "move", "replace", "swap",
            "clean", "tell", "over", "dead"}
Live(u) == stage[u] \notin {"none", "over", "dead"}
Request == [file : Files, secs : Nat]
File(u) == request[u].file
Secs(u) == request[u].secs

(* A request is not read before SubmitJob sets it. *)
Init ==
    /\ QuotaInit
    /\ stage   = [u \in Uploads |-> "none"]
    /\ request \in [Uploads -> {[file |-> f, secs |-> 0] : f \in Files}]
    /\ place   = [u \in Uploads |-> "none"]
    /\ ok      = [u \in Uploads |-> FALSE]
    /\ tries   = [u \in Uploads |-> 0]
    /\ batches = {}
    /\ stored  = [f \in Files |-> 0]
    /\ contested = {} /\ committed = {} /\ announced = {}

To(u, next)         == stage' = [stage EXCEPT ![u] = next]
Step(u, from, next) == stage[u] = from /\ To(u, next)
Put(u, where)       == place' = [place EXCEPT ![u] = where]
Result(u, b)        == ok' = [ok EXCEPT ![u] = b]

-----------------------------------------------------------------------------
(* The handler passes the job on. *)

\* Mutant of LockFree: uploads of one file are not serialized.
AlwaysFree(f) == TRUE
\* Mutant of LockFree: the guard outlives its handler.
NeverFreed(f) == \A v \in Uploads : stage[v] # "none" => File(v) # f

(* file_lock is held from before submit until the handler returns or is    *)
(* dropped.                                                                *)
LockFree(f) ==
    \A v \in Uploads : handler[v] \in {"submitted", "leave"} /\ stage[v] # "none" => File(v) # f

SubmitJob(u) ==
    /\ Submit(u)
    /\ stage[u] = "none"
    /\ \E f \in Files, secs \in Durations :
          /\ LockFree(f)
          /\ request' = [request EXCEPT ![u] = [file |-> f, secs |-> secs]]
          /\ contested' = IF \E v \in Uploads : handler[v] = "orphan" /\ Live(v) /\ File(v) = f
                          THEN contested \cup {f} ELSE contested
    /\ To(u, "queued")
    /\ UNCHANGED <<place, ok, tries, batches, stored, committed, announced>>

-----------------------------------------------------------------------------
(* Batches *)

(* dispatcher_loop takes up to BatchSize jobs and a permit. *)
Dispatch(b) ==
    /\ b # {} /\ Cardinality(b) <= BatchSize
    /\ \A u \in b : stage[u] = "queued"
    /\ Cardinality(batches) < MaxTranscodes
    /\ stage' = [u \in Uploads |-> IF u \in b THEN "batch" ELSE stage[u]]
    /\ batches' = batches \cup {b}
    /\ UNCHANGED <<quotaVars, request, place, ok, tries, storeVars>>

Short(u) == Secs(u) > 0 /\ Secs(u) <= MinDuration

TooShort(u) ==
    /\ Short(u)
    /\ Step(u, "batch", "clean") /\ Result(u, FALSE)
    /\ UNCHANGED <<quotaVars, request, place, tries, batches, storeVars>>

(* The jobs of the batch for ffmpeg, once the short ones have been answered. *)
Accepted(b) == {u \in b : stage[u] = "batch"}
Probed(b)   == b \in batches /\ \A u \in b : stage[u] \in {"batch", "over"}
                                             /\ (stage[u] = "batch" => ~Short(u))

Transcoded(b, next, where, result) ==
    /\ batches' = batches \ {b}
    /\ stage' = [u \in Uploads |-> IF u \in Accepted(b) THEN next ELSE stage[u]]
    /\ place' = [u \in Uploads |-> IF u \in Accepted(b) THEN where ELSE place[u]]
    /\ ok'    = [u \in Uploads |-> IF u \in Accepted(b) THEN result ELSE ok[u]]
    /\ UNCHANGED <<request, tries, storeVars>>

BatchOk(b) ==
    /\ Probed(b)
    /\ \A u \in Accepted(b) : Secs(u) # 0
    /\ Transcoded(b, "commit", "result", FALSE)
    /\ UNCHANGED quotaVars

(* One failing file fails the ffmpeg of the whole batch. *)
BatchFails(b) ==
    /\ Probed(b) /\ Accepted(b) # {}
    /\ \/ (\E u \in Accepted(b) : Secs(u) = 0) /\ UNCHANGED quotaVars
       \/ FaultOnly
    /\ Transcoded(b, IF Cardinality(Accepted(b)) > 1 THEN "single" ELSE "clean", "none", FALSE)

(* The retry of one file of a failed batch; no permit is taken for it. *)
SingleOk(u) ==
    /\ Secs(u) # 0
    /\ Step(u, "single", "commit") /\ Put(u, "result")
    /\ UNCHANGED <<quotaVars, request, ok, tries, batches, storeVars>>

SingleFails(u) ==
    /\ Step(u, "single", "clean") /\ Result(u, FALSE)
    /\ \/ Secs(u) = 0 /\ UNCHANGED quotaVars
       \/ FaultOnly
    /\ UNCHANGED <<request, place, tries, batches, storeVars>>

-----------------------------------------------------------------------------
(* process_writer_job and LocalBackend::commit_transcode.  place[u] is      *)
(* "none" here when an earlier attempt has lost the transcode.              *)

(* should_keep_existing *)
Keeps(u) == stored[File(u)] # 0 /\ place[u] # "none" /\ stored[File(u)] + Epsilon >= Secs(u)

KeepExisting(u) ==
    /\ Keeps(u)
    /\ Step(u, "commit", "clean") /\ Put(u, "none") /\ Result(u, TRUE)
    /\ UNCHANGED <<quotaVars, request, tries, batches, storeVars>>

WillReplace(u) ==
    /\ ~Keeps(u)
    /\ Step(u, "commit", "move")
    /\ UNCHANGED <<quotaVars, request, place, ok, tries, batches, storeVars>>

(* ffprobe fails: the stored file is replaced unseen. *)
ProbeFails(u) ==
    /\ FaultOnly
    /\ stored[File(u)] # 0
    /\ Step(u, "commit", "move")
    /\ contested' = contested \cup {File(u)}
    /\ UNCHANGED <<request, place, ok, tries, batches, stored, committed, announced>>

\* Mutant of DropTranscode: the last attempt leaves the transcode behind.
ForgetTranscode(u) == UNCHANGED place

DropTranscode(u) == Put(u, "none")

(* An attempt fails and leaves the transcode in place "where"; the last one *)
(* removes it.                                                              *)
AttemptFails(u, from, where) ==
    /\ stage[u] = from
    /\ tries' = [tries EXCEPT ![u] = @ + 1]
    /\ IF tries[u] + 1 >= MaxAttempts
       THEN To(u, "clean") /\ Result(u, FALSE) /\ DropTranscode(u)
       ELSE To(u, "commit") /\ UNCHANGED ok /\ Put(u, where)
    /\ UNCHANGED <<request, batches, contested, committed, announced>>

Move(u) ==
    /\ place[u] = "result"
    /\ Step(u, "move", "replace") /\ Put(u, "stage")
    /\ UNCHANGED <<quotaVars, request, ok, tries, batches, storeVars>>

MoveFails(u) ==
    /\ AttemptFails(u, "move", place[u])
    /\ \/ place[u] = "none" /\ UNCHANGED quotaVars
       \/ FaultOnly
    /\ UNCHANGED stored

StoredBy(u, from) ==
    /\ Step(u, from, "clean") /\ Put(u, "none") /\ Result(u, TRUE)
    /\ stored' = [stored EXCEPT ![File(u)] = Secs(u)]
    /\ committed' = committed \cup {File(u)}
    /\ UNCHANGED <<quotaVars, request, tries, batches, contested, announced>>

Replace(u) == StoredBy(u, "replace")

(* rename fails and the fallback does not apply: the staged file is removed *)
(* and the source of a retry with it.                                       *)
ReplaceFails(u) ==
    /\ FaultOnly
    /\ AttemptFails(u, "replace", "none")
    /\ UNCHANGED stored

(* rename fails: replace_file removes the stored file and tries again. *)
RemoveFirst(u) ==
    /\ FaultOnly
    /\ stored[File(u)] # 0
    /\ Step(u, "replace", "swap")
    /\ stored' = [stored EXCEPT ![File(u)] = 0]
    /\ UNCHANGED <<request, place, ok, tries, batches, contested, committed, announced>>

Swap(u) == StoredBy(u, "swap")

SwapFails(u) ==
    /\ FaultOnly
    /\ AttemptFails(u, "swap", "none")
    /\ UNCHANGED stored

-----------------------------------------------------------------------------
(* The end of a job *)

CleanSource(u) ==
    /\ SourceGone(u)
    /\ Step(u, "clean", "tell")
    /\ UNCHANGED <<request, place, ok, tries, batches, storeVars>>

(* reply.send; nobody listens to the reply of an orphan. *)
Reply(u) == IF handler[u] = "submitted" THEN Answer(u) ELSE UNCHANGED quotaVars

\* Mutant of Published: the event only goes out when the reply was delivered.
PublishedIfHeard(u) == announced' = IF ok[u] /\ handler[u] = "submitted"
                                    THEN announced \cup {File(u)} ELSE announced

(* publish_uploaded *)
Published(u) == announced' = IF ok[u] THEN announced \cup {File(u)} ELSE announced

Tell(u) ==
    /\ Step(u, "tell", "over")
    /\ Published(u)
    /\ Reply(u)
    /\ UNCHANGED <<request, place, ok, tries, batches, stored, contested, committed>>

(* The publication fails: it is not tried again.  The client is answered   *)
(* all the same.                                                           *)
Unheard(u) ==
    /\ ok[u]
    /\ Step(u, "tell", "dead")
    /\ Reply(u)
    /\ UNCHANGED <<request, place, ok, tries, batches, storeVars>>

(* DELETE /files/{filename} takes no lock. *)
Delete(f) ==
    /\ stored[f] # 0
    /\ stored' = [stored EXCEPT ![f] = 0]
    /\ UNCHANGED <<quotaVars, jobVars, contested, committed, announced>>

(* Boot purges source/ and result/, not what was staged beside the files.  *)
RestartAll ==
    /\ Restart
    /\ stage' = [u \in Uploads |-> IF Live(u) THEN "dead" ELSE stage[u]]
    /\ place' = [u \in Uploads |-> IF place[u] = "result" THEN "none" ELSE place[u]]
    /\ batches' = {}
    /\ UNCHANGED <<request, ok, tries, storeVars>>

Pipeline(u) ==
    \/ TooShort(u) \/ SingleOk(u) \/ SingleFails(u) \/ KeepExisting(u) \/ WillReplace(u)
    \/ Move(u) \/ MoveFails(u) \/ Replace(u) \/ Swap(u) \/ CleanSource(u) \/ Tell(u)

PipelineFault(u) ==
    \/ ProbeFails(u) \/ ReplaceFails(u) \/ RemoveFirst(u) \/ SwapFails(u) \/ Unheard(u)

Batch(b) == BatchOk(b) \/ BatchFails(b)

Next ==
    \/ \E u \in Uploads : \/ Receive(u) /\ UNCHANGED pipeVars
                          \/ Disconnect(u) /\ UNCHANGED pipeVars
                          \/ SubmitJob(u) \/ Pipeline(u) \/ PipelineFault(u)
    \/ \E b \in SUBSET Uploads : Dispatch(b) \/ Batch(b)
    \/ \E f \in Files : Delete(f)
    \/ Cool /\ UNCHANGED pipeVars
    \/ RestartAll

Spec == Init /\ [][Next]_vars

(* Tasks that were spawned run on; clients owe nothing. *)
Own(u) ==
    \/ SubmitJob(u) \/ Pipeline(u)
    \/ (Discard(u) \/ Leave(u)) /\ UNCHANGED pipeVars

Fairness ==
    /\ \A u \in Uploads : WF_vars(Own(u))
    /\ WF_vars(\E b \in SUBSET Uploads : Dispatch(b))
    /\ WF_vars(\E b \in SUBSET Uploads : Batch(b))

FairSpec == Spec /\ Fairness

-----------------------------------------------------------------------------
(* Properties *)

TypeOK ==
    /\ QuotaTypeOK
    /\ stage \in [Uploads -> Stages] /\ request \in [Uploads -> Request]
    /\ place \in [Uploads -> {"none", "result", "stage"}]
    /\ ok \in [Uploads -> BOOLEAN] /\ tries \in [Uploads -> Nat]
    /\ batches \subseteq SUBSET Uploads
    /\ stored \in [Files -> Nat]
    /\ contested \subseteq Files /\ committed \subseteq Files /\ announced \subseteq Files

(* A stored recording is never replaced by a shorter one: the file lock    *)
(* makes the comparison of should_keep_existing hold until the rename,     *)
(* deletions, retries and restarts notwithstanding.  Except when the       *)
(* client of an earlier upload went away: the lock goes with the handler,  *)
(* the job does not.                                                       *)
KeepsLonger ==
    [][\A f \in Files \ contested :
          stored[f] # 0 /\ stored'[f] # 0 => stored'[f] >= stored[f]]_vars

(* storage.track_uploaded is published after the upload is really stored   *)
(* (storage/.env.example:48-49), never for one that failed.                *)
EventAfterCommit == announced \subseteq committed

Finished(u) == handler[u] = "done" \/ (handler[u] = "orphan" /\ stage[u] = "over")

(* Whatever failed on the way (ffmpeg, a batch mate, the backend, the      *)
(* client), an upload that was answered and a job that ran to its end      *)
(* leave no temporary file behind.                                         *)
NothingLeft == \A u \in Uploads : Finished(u) => source[u] = 0 /\ place[u] = "none"

(* How a received upload may end: broken off, or else answered (unless its *)
(* client went away), with its job at an end and announced if it was       *)
(* stored; only a restart or a failing publication loses the event.        *)
Settled(u) ==
    \/ handler[u] \in {"failed", "gone"}
    \/ /\ handler[u] \in {"done", "orphan"} /\ ~Live(u)
       /\ ok[u] => File(u) \in announced \/ stage[u] = "dead"

(* Every upload that was received is answered, and announced when it was   *)
(* stored, even if nobody waits for the answer any more: the permits, the  *)
(* lock of its file and its batch mates cannot keep it for ever.           *)
UploadsSettle == \A u \in Uploads : handler[u] = "ready" ~> Settled(u)

(* What the safety properties above rest on.  A job has its handler or an  *)
(* orphan, and a handler has no job before submit.                         *)
Handed == \A u \in Uploads :
    /\ Live(u) => handler[u] \in {"submitted", "orphan"}
    /\ handler[u] \in {"idle", "discard", "ready"} \cup Receiving => stage[u] = "none"

(* Two live jobs of one file: one of them had lost its handler. *)
OneJob == \A u, v \in Uploads :
    u # v /\ Live(u) /\ Live(v) /\ File(u) = File(v) => File(u) \in contested

(* Between the comparison and the rename it stays true. *)
Fresh == \A u \in Uploads : File(u) \notin contested =>
    /\ (stage[u] = "move" /\ place[u] # "none") \/ stage[u] = "replace"
          => stored[File(u)] = 0 \/ stored[File(u)] + Epsilon < Secs(u)
    /\ stage[u] = "swap" => stored[File(u)] = 0

(* Only what was stored makes a job a success. *)
Committed ==
    /\ EventAfterCommit
    /\ \A f \in Files : stored[f] # 0 => f \in committed
    /\ \A u \in Uploads : stage[u] \in {"clean", "tell"} /\ ok[u] => File(u) \in committed

(* The files go before the answer. *)
Emptied == \A u \in Uploads :
    /\ stage[u] \in {"none", "queued", "batch", "single", "clean", "tell", "over"} => place[u] = "none"
    /\ stage[u] \in {"tell", "over"} => source[u] = 0
    /\ handler[u] \in {"leave", "done"} => source[u] = 0 /\ place[u] = "none"

StorageInv == Handed /\ OneJob /\ Fresh /\ Committed /\ Emptied

=============================================================================
