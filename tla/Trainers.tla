------------------------------ MODULE Trainers ------------------------------
(***************************************************************************)
(* What teaches the worker's models: CollabTrainerService and              *)
(* LtrTrainerService with the flag each keeps while it trains, the cron of *)
(* the other three models, the backfill of quality scores and the          *)
(* centroids.  The events of one user are kept in the order of their time; *)
(* the training itself is the worker's (external).                         *)
(***************************************************************************)
EXTENDS Naturals, Sequences, FiniteSets, SequencesExt, FiniteSetsExt

CONSTANTS Trainings,    \* trainings under way at a time, and calls of note_event
          Pieces,       \* tracks
          Ready,        \* tracks that are indexed from the start
          Trigger,      \* events before a training starts by itself
          MinSessions, MinExamples, MaxSessionLen,
          MaxLog,       \* bound: events
          ScoreBatch,   \* tracks of one backfill
          MaxOrders,    \* bound: trainings published
          MaxSnags      \* bound: failing calls, clients that leave
ASSUME TrainersAssumption ==
  {Trigger, MinSessions, MinExamples, MaxSessionLen, MaxLog, ScoreBatch, MaxOrders, MaxSnags} \subseteq Nat

Models == {"collab", "ltr"}
VARIABLES log,          \* user_events: track, type, and whether a long pause went before
          counter, recent,  \* event_counter; within the cooldown of last_train_at
          noting,       \* calls of note_event under way
          flag,         \* in_progress of each trainer
          training,     \* trainings
          orders, space,    \* train.collab messages sent; the version of tracks_collab
          cachedIn,     \* the space of a cached user vector, 0 if none
          kick,         \* the trainer cron: which model is next
          quality, backfill,  \* quality_score per track; the backfill
          centroid,     \* the cached centroid of the tracks
          abandoned,    \* history: trainers whose caller left
          snags
trainVars == <<log, counter, recent, noting, flag, training, orders, space, cachedIn, abandoned>>
cronVars == <<kick, quality, backfill, centroid>>
trainersVars == <<trainVars, cronVars, snags>>

NoTraining == [pc |-> "idle", model |-> "none", by |-> "none"]
TrainersInit ==
  /\ log = <<>> /\ counter = 0 /\ recent = FALSE /\ noting = [s \in Trainings |-> "idle"]
  /\ flag = [m \in Models |-> FALSE] /\ training = [s \in Trainings |-> NoTraining]
  /\ orders = 0 /\ space = 0 /\ cachedIn = 0 /\ abandoned = {}
  /\ kick = "sleeps" /\ quality = [t \in Pieces |-> IF t \in Ready THEN "none" ELSE "unindexed"]
  /\ backfill = [pc |-> "sleeps", batch |-> {}]
  /\ centroid = "unknown" /\ snags = 0

Snag == snags < MaxSnags /\ snags' = snags + 1
Smooth == UNCHANGED snags
SetTraining(s, pc) == training' = [training EXCEPT ![s].pc = pc]

-----------------------------------------------------------------------------
(* What is learnt from. *)

(* build_sessions: runs of events without a long pause, each track once.   *)
SessionKinds == {"like", "playlist_add", "full_play", "skip"}
Flush(acc) ==
  IF Len(acc.session) < 2 THEN [acc EXCEPT !.session = <<>>]
  ELSE [sessions |-> Append(acc.sessions, SubSeq(acc.session, 1, Min({Len(acc.session), MaxSessionLen}))),
        session |-> <<>>]
Join(ev, acc) ==
  LET open == IF ev.pause THEN Flush(acc) ELSE acc IN
  IF ev.tune \in ToSet(open.session) THEN open ELSE [open EXCEPT !.session = Append(@, ev.tune)]
BuildSessions(evs) ==
  Flush(FoldSeq(Join, [sessions |-> <<>>, session |-> <<>>],
                SelectSeq(evs, LAMBDA ev : ev.kind \in SessionKinds))).sessions

(* build_user_examples: the best label of each track, and, where nothing   *)
(* was skipped, some tracks at random as skipped ones.                     *)
LabelFor(kind) ==
  CASE kind = "like" -> 5 [] kind = "playlist_add" -> 4 [] kind = "full_play" -> 3 [] kind = "skip" -> 0
Played == {ev.tune : ev \in {log[i] : i \in DOMAIN log}}
Labels == [t \in Played |-> Max({LabelFor(log[i].kind) : i \in {j \in DOMAIN log : log[j].tune = t}})]
Negatives == IF \E t \in Played : Labels[t] = 0 THEN {} ELSE {t \in Pieces : quality[t] # "unindexed"} \ Played
Examples == Played \cup Negatives

(* Whether there is enough to train on. *)
Trainable(m) ==
  IF m = "collab" THEN Len(BuildSessions(log)) >= MinSessions
  ELSE Cardinality(Examples) >= MinExamples

-----------------------------------------------------------------------------
(* note_event, called with every event: it counts, and starts a training   *)
(* unless one has been published lately or is under way.  Other calls may  *)
(* come between its four accesses.                                         *)

NoteEvent(s) ==
  /\ noting[s] = "idle" /\ training[s] = NoTraining /\ Len(log) < MaxLog
  /\ \E t \in Pieces, k \in {"like", "skip"}, p \in BOOLEAN :
       /\ log = <<>> => ~p
       /\ log' = Append(log, [tune |-> t, kind |-> k, pause |-> p])
  /\ counter' = counter + 1
  /\ noting' = [noting EXCEPT ![s] = IF counter + 1 < Trigger THEN "idle" ELSE "counted"]
  /\ Smooth /\ UNCHANGED <<recent, flag, training, orders, space, cachedIn, abandoned, cronVars>>
CheckCooldown(s) ==
  /\ noting[s] = "counted" /\ noting' = [noting EXCEPT ![s] = IF recent THEN "idle" ELSE "cool"]
  /\ Smooth /\ UNCHANGED <<log, counter, recent, flag, training, orders, space, cachedIn, abandoned, cronVars>>
CheckFlag(s) ==
  /\ noting[s] = "cool" /\ noting' = [noting EXCEPT ![s] = IF flag["collab"] THEN "idle" ELSE "free"]
  /\ Smooth /\ UNCHANGED <<log, counter, recent, flag, training, orders, space, cachedIn, abandoned, cronVars>>
Trip(s) ==
  /\ noting[s] = "free" /\ noting' = [noting EXCEPT ![s] = "idle"] /\ counter' = 0
  /\ training' = [training EXCEPT ![s] = [pc |-> "try", model |-> "collab", by |-> "event"]]
  /\ Smooth /\ UNCHANGED <<log, recent, flag, orders, space, cachedIn, abandoned, cronVars>>

(* The other callers of train_now: the bootstrap, which for the first model *)
(* sees that there is no collection yet, the cron, and an admin's request. *)
Start(s) ==
  /\ training[s] = NoTraining /\ noting[s] = "idle" /\ orders < MaxOrders
  /\ \E m \in Models, by \in {"bootstrap", "cron", "admin"} :
       /\ by = "bootstrap" /\ m = "collab" => space = 0
       /\ training' = [training EXCEPT ![s] = [pc |-> "try", model |-> m, by |-> by]]
  /\ Smooth /\ UNCHANGED <<log, counter, recent, noting, flag, orders, space, cachedIn, abandoned, cronVars>>

-----------------------------------------------------------------------------
(* train_now: compare_exchange, train_impl, store(false). *)

(* Mutant: the flag is loaded here and stored with the first query. *)
TryTrainLoaded(s) ==
  /\ training[s].pc = "try" /\ UNCHANGED flag
  /\ IF flag[training[s].model] THEN training' = [training EXCEPT ![s] = NoTraining]
     ELSE SetTraining(s, "build")
  /\ Smooth /\ UNCHANGED <<log, counter, recent, noting, orders, space, cachedIn, abandoned, cronVars>>

TryTrain(s) ==
  /\ training[s].pc = "try"
  /\ LET m == training[s].model IN
     IF flag[m] THEN training' = [training EXCEPT ![s] = NoTraining] /\ UNCHANGED flag
     ELSE SetTraining(s, "build") /\ flag' = [flag EXCEPT ![m] = TRUE]
  /\ Smooth /\ UNCHANGED <<log, counter, recent, noting, orders, space, cachedIn, abandoned, cronVars>>

(* Mutant: a failing query returns at once. *)
EndFailed(s) ==
  /\ training' = [training EXCEPT ![s] = NoTraining]
  /\ flag' = IF snags' = snags THEN [flag EXCEPT ![training[s].model] = FALSE] ELSE flag

End(s) ==
  /\ training' = [training EXCEPT ![s] = NoTraining]
  /\ flag' = [flag EXCEPT ![training[s].model] = FALSE]

(* Too few sessions or examples: nothing is sent, and no cooldown begins.  *)
Build(s) ==
  /\ training[s].pc = "build"
  /\ \/ Trainable(training[s].model) /\ SetTraining(s, "publish") /\ Smooth /\ UNCHANGED flag
     \/ ~Trainable(training[s].model) /\ Smooth /\ End(s)
     \/ Snag /\ End(s)
  /\ UNCHANGED <<log, counter, recent, noting, orders, space, cachedIn, abandoned, cronVars>>

(* A publish that fails, or is not waited for, may have been stored.       *)
MaybeSent(s) == IF training[s].model = "collab" /\ training[s].pc = "publish" THEN {orders, orders + 1} \cap 0..MaxOrders
                ELSE {orders}

(* The collab trainer drops the cached vectors as soon as it has published: *)
(* the worker has not trained yet.                                         *)
Publish(s) ==
  /\ training[s].pc = "publish" /\ (training[s].model = "ltr" \/ orders < MaxOrders)
  /\ \/ /\ Smooth /\ End(s)
        /\ IF training[s].model = "collab"
           THEN orders' = orders + 1 /\ cachedIn' = 0 /\ recent' = TRUE
           ELSE UNCHANGED <<orders, cachedIn, recent>>
     \/ Snag /\ End(s) /\ orders' \in MaybeSent(s) /\ UNCHANGED <<cachedIn, recent>>
  /\ UNCHANGED <<log, counter, noting, space, abandoned, cronVars>>

(* An admin's client goes away: the request is dropped where it waits, and *)
(* nobody lowers the flag.                                                 *)
AdminLeaves(s) ==
  /\ training[s].by = "admin" /\ training[s].pc \in {"build", "publish"} /\ Snag
  /\ training' = [training EXCEPT ![s] = NoTraining]
  /\ abandoned' = abandoned \cup {training[s].model}
  /\ orders' \in MaybeSent(s)
  /\ UNCHANGED <<log, counter, recent, noting, flag, space, cachedIn, cronVars>>

TrainCooldownEnds ==
  /\ recent /\ recent' = FALSE
  /\ Smooth /\ UNCHANGED <<log, counter, noting, flag, training, orders, space, cachedIn, abandoned, cronVars>>

(* The worker trains (external); a user's vector is computed and cached;   *)
(* five minutes pass.                                                      *)
WorkerTrains ==
  /\ space < orders /\ \E v \in space + 1..orders : space' = v
  /\ Smooth /\ UNCHANGED <<log, counter, recent, noting, flag, training, orders, cachedIn, abandoned, cronVars>>
CacheVector ==
  /\ cachedIn = 0 /\ space > 0 /\ cachedIn' = space
  /\ Smooth /\ UNCHANGED <<log, counter, recent, noting, flag, training, orders, space, abandoned, cronVars>>
VectorAges ==
  /\ cachedIn # 0 /\ cachedIn' = 0
  /\ Smooth /\ UNCHANGED <<log, counter, recent, noting, flag, training, orders, space, abandoned, cronVars>>

(* A restart loses the flags, the counter and whatever was under way. *)
BackendRestarts ==
  /\ Snag /\ counter' = 0 /\ recent' = FALSE /\ noting' = [s \in Trainings |-> "idle"]
  /\ flag' = [m \in Models |-> FALSE] /\ training' = [s \in Trainings |-> NoTraining]
  /\ cachedIn' = 0 /\ abandoned' = {} /\ kick' = "sleeps" /\ centroid' = "unknown"
  /\ backfill' = [pc |-> "sleeps", batch |-> {}]
  /\ UNCHANGED <<log, orders, space, quality>>

-----------------------------------------------------------------------------
(* The cron loops.  The trainer's ticks do its three models in turn, each  *)
(* whether or not the one before was sent.                                 *)

NextKick == [sleeps |-> "two_tower", two_tower |-> "sequential", sequential |-> "quality", quality |-> "sleeps"]
KickOff ==
  /\ kick' = NextKick[kick] /\ (Smooth \/ (kick # "sleeps" /\ Snag))
  /\ UNCHANGED <<trainVars, quality, backfill, centroid>>

Unscored == {t \in Pieces : quality[t] = "none"}
SelectUnscored ==
  /\ backfill.pc = "sleeps" /\ Unscored # {}
  /\ \E b \in SUBSET Unscored :
       /\ Cardinality(b) = Min({ScoreBatch, Cardinality(Unscored)})
       /\ backfill' = [pc |-> "score", batch |-> b]
  /\ Smooth /\ UNCHANGED <<trainVars, kick, quality, centroid>>

(* Without the worker's answer, or with one of another length, a formula   *)
(* gives the score; it is never replaced.  A failing read of the tracks, or *)
(* a failing write, ends the tick.                                         *)
PersistScores ==
  /\ backfill.pc = "score" /\ backfill' = [pc |-> "sleeps", batch |-> {}]
  /\ \/ Smooth /\ quality' = [t \in Pieces |-> IF t \in backfill.batch THEN "model" ELSE quality[t]]
     \/ Snag /\ quality' = [t \in Pieces |-> IF t \in backfill.batch THEN "formula" ELSE quality[t]]
     \/ Snag /\ UNCHANGED quality
  /\ UNCHANGED <<trainVars, kick, centroid>>
TuneIndexed(t) ==
  /\ quality[t] = "unindexed" /\ quality' = [quality EXCEPT ![t] = "none"]
  /\ Smooth /\ UNCHANGED <<trainVars, kick, backfill, centroid>>

(* refresh: a failing scroll keeps what there is. *)
RefreshCentroid ==
  /\ \/ Smooth /\ centroid' = IF \A t \in Pieces : quality[t] = "unindexed" THEN "empty" ELSE "mean"
     \/ Snag /\ UNCHANGED centroid
  /\ UNCHANGED <<trainVars, kick, quality, backfill>>

TrainStep(s) ==
  \/ CheckCooldown(s) \/ CheckFlag(s) \/ Trip(s)
  \/ TryTrain(s) \/ Build(s) \/ Publish(s)
TrainNext ==
  \/ \E s \in Trainings : NoteEvent(s) \/ Start(s) \/ TrainStep(s) \/ AdminLeaves(s)
  \/ TrainCooldownEnds \/ WorkerTrains \/ CacheVector \/ VectorAges \/ BackendRestarts
CronNext ==
  \/ KickOff \/ SelectUnscored \/ PersistScores \/ RefreshCentroid \/ BackendRestarts
  \/ \E t \in Pieces : TuneIndexed(t)
TrainersNext == TrainNext \/ CronNext
TrainersSpec == TrainersInit /\ [][TrainersNext]_trainersVars

-----------------------------------------------------------------------------
(* Properties. *)

(* A trainer's flag is up exactly while one training of it is under way:   *)
(* two never overlap, and none is kept from training for good, unless the  *)
(* client of an admin's request went away (abandoned).                     *)
OneTraining ==
  \A m \in Models :
    LET under == {s \in Trainings : training[s].model = m /\ training[s].pc \in {"build", "publish"}} IN
    /\ Cardinality(under) <= 1
    /\ under # {} => flag[m]
    /\ flag[m] => under # {} \/ m \in abandoned
=============================================================================
