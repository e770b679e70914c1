----------------------------- MODULE TrackCache -----------------------------
(***************************************************************************)
(* The desktop's cache of audio files (track_cache/state.rs, upgrade.rs,   *)
(* commands.rs): ensure_cached with its coalescing and its fallback chain, *)
(* the background download of the liked tracks with its cancellation, the  *)
(* quality upgrades and the maintenance of the two directories.            *)
(*                                                                         *)
(* A slot is the file of one track in one directory and quality.  Each     *)
(* action is the code of a task between two awaits, where the order of     *)
(* tasks can matter: a source with its retries yields a complete file or   *)
(* fails, the file and its side file (a label) appear together, and        *)
(* schedule_upgrade is one action.                                         *)
(***************************************************************************)
EXTENDS Naturals, FiniteSets

CONSTANTS Tracks, Calls, LikesRuns, Upgrades,
          HqSettings,     \* the values of the setting highQualityStreaming
          LikesPermits,   \* MAX_PARALLEL_LIKES
          MaxUpkeep,      \* bound: clears, removals, evictions and cancellations
          None, Failed

(* A request of ensure_cached: a call of the player or the preloader, or   *)
(* the task of one run of cache_likes for one track.                       *)
Requests == Calls \cup (LikesRuns \X Tracks)

ASSUME TrackCacheAssumption ==
  /\ LikesPermits \in Nat \ {0}
  /\ MaxUpkeep \in Nat
  /\ HqSettings \subseteq BOOLEAN
  /\ None \notin Requests \cup Tracks \cup Upgrades
  /\ None # Failed

VARIABLES files,           \* the complete audio files
          active,           \* the map `active': the leader of each track's download
          req,              \* the calls of ensure_cached
          running, cancel,  \* likes_running, likes_cancel
          run,              \* the calls of cache_likes
          upg,              \* the upgrade tasks, those fetching being in the map `upgrades'
          upkeep,           \* counts the bounded operations
          kept              \* history: tracks whose liked copy was made and not removed

cacheVars == <<files, active, req, running, cancel, run, upg, upkeep, kept>>
likesVars == <<running, cancel, run>>

Slots == [track : Tracks, dir : {"liked", "audio"}, quality : {"hq", "sq"}]
Slot(t, liked, q) == [track |-> t, dir |-> IF liked THEN "liked" ELSE "audio", quality |-> q]
OfTrack(t) == {s \in Slots : s.track = t}
OfDir(d) == {s \in Slots : s.dir = d}

IsCached(t) == OfTrack(t) \cap files # {}

NoRequest == [pc |-> "unused", track |-> None, hq |-> FALSE, liked |-> FALSE,
              leader |-> None, answer |-> None, disturbed |-> FALSE]
Done == [NoRequest EXCEPT !.pc = "done"]
NoRun == [pc |-> "unused", todo |-> {}, next |-> None, stop |-> "no"]
NoUpgrade == [at |-> "unused", track |-> None, liked |-> FALSE]

CacheInit ==
  /\ files = {}
  /\ active = [t \in Tracks |-> None]
  /\ req = [r \in Requests |-> NoRequest]
  /\ running = FALSE /\ cancel = FALSE
  /\ run = [l \in LikesRuns |-> NoRun]
  /\ upg = [u \in Upgrades |-> NoUpgrade]
  /\ upkeep = 0
  /\ kept = {}

Goto(r, pc) == req' = [req EXCEPT ![r] = IF pc = "done" THEN Done ELSE [@ EXCEPT !.pc = pc]]

-----------------------------------------------------------------------------
(* ensure_cached. *)

(* track_ensure_cached and the task of track_preload. *)
AskTrack(r, t, hq) ==
  /\ req[r].pc = "unused"
  /\ req' = [req EXCEPT ![r] = [NoRequest EXCEPT !.pc = "begin", !.track = t, !.hq = hq]]
  /\ UNCHANGED <<files, active, likesVars, upg, upkeep, kept>>

(* The lookup; whoever finds nothing awaits the lock of `active'. *)
LookUp(r) ==
  /\ req[r].pc = "begin"
  /\ Goto(r, IF IsCached(req[r].track) THEN "done" ELSE "lock")
  /\ UNCHANGED <<files, active, likesVars, upg, upkeep, kept>>

(* Mutant: the map is not looked at. *)
AnyoneLeads(t) == TRUE

NoneLeads(t) == active[t] = None

(* With the lock, and without a second look for a file that may have come  *)
(* meanwhile: either the lead or a copy of the leader's Notify.            *)
Lead(r) ==
  /\ req[r].pc = "lock" /\ NoneLeads(req[r].track)
  /\ active' = [active EXCEPT ![req[r].track] = r]
  /\ Goto(r, "chain")
  /\ UNCHANGED <<files, likesVars, upg, upkeep, kept>>

Join(r) ==
  /\ req[r].pc = "lock" /\ ~NoneLeads(req[r].track)
  /\ req' = [req EXCEPT ![r].pc = "joined", ![r].leader = active[req[r].track]]
  /\ UNCHANGED <<files, active, likesVars, upg, upkeep, kept>>

(* notified(): only notifications from here on wake this request. *)
Listen(r) ==
  /\ req[r].pc = "joined" /\ Goto(r, "listening")
  /\ UNCHANGED <<files, active, likesVars, upg, upkeep, kept>>

-----------------------------------------------------------------------------
(* download_with_fallback: a chain of sources, then a race of two.         *)

(* Mutant: everything goes to the audio directory. *)
TargetAudio(r, q) == Slot(req[r].track, FALSE, q)

Target(r, q) == Slot(req[r].track, req[r].liked, q)

(* Every source fails, has nothing or is skipped (a storage host in its    *)
(* cooldown, an empty list of URLs).                                       *)
ChainFails(r) ==
  /\ req[r].pc = "chain" /\ Goto(r, "race")
  /\ UNCHANGED <<files, active, likesVars, upg, upkeep, kept>>

RaceFails(r) ==
  /\ req[r].pc = "race"
  /\ req' = [req EXCEPT ![r].pc = "publish", ![r].answer = Failed]
  /\ UNCHANGED <<files, active, likesVars, upg, upkeep, kept>>

(* write_response_to_cache and write_bytes_to_cache: the rename onto the   *)
(* final path, or a complete file found there.                             *)
FileLands(r, q) ==
  /\ files' = files \cup {Target(r, q)}
  /\ req' = [req EXCEPT ![r].pc = "publish", ![r].answer = Target(r, q)]
  /\ UNCHANGED <<active, likesVars, upg, upkeep, kept>>

(* The sources of the chain: storage by redirect, the anonymous API,       *)
(* storage by stream.  Storage holds the high quality.                     *)
Redirected(r) == req[r].pc = "chain" /\ FileLands(r, "hq")
Anonymous(r)  == req[r].pc = "chain" /\ FileLands(r, "sq")
Streamed(r)   == req[r].pc = "chain" /\ FileLands(r, "hq")

(* The first success of the race counts: the server's candidates in the    *)
(* wanted order, or the streaming API whose URL tells the quality.         *)
Direct(r) == req[r].pc = "race" /\ \E q \in {"hq", "sq"} : FileLands(r, q)
Api(r)    == req[r].pc = "race" /\ \E q \in {"hq", "sq"} : FileLands(r, q)

(* Mutant: a failed download wakes nobody. *)
NotifySuccess(r) ==
  /\ req[r].pc = "publish"
  /\ req' = [x \in Requests |->
       CASE x = r -> [req[r] EXCEPT !.pc = "remove"]
         [] req[x].pc = "listening" /\ req[x].leader = r /\ req[r].answer # Failed -> Done
         [] OTHER -> req[x]]
  /\ UNCHANGED <<files, active, likesVars, upg, upkeep, kept>>

(* The result is stored and notify_waiters wakes whoever is listening. *)
NotifyWaiters(r) ==
  /\ req[r].pc = "publish"
  /\ req' = [x \in Requests |->
       CASE x = r -> [req[r] EXCEPT !.pc = "remove"]
         [] req[x].pc = "listening" /\ req[x].leader = r -> Done
         [] OTHER -> req[x]]
  /\ UNCHANGED <<files, active, likesVars, upg, upkeep, kept>>

(* schedule_upgrade: the track's previous task is aborted, a new one       *)
(* spawned.  Upgrades bounds the tasks ever spawned.                       *)
Fetching(t) == {u \in Upgrades : upg[u].at = "fetch" /\ upg[u].track = t}
Schedule(t, liked, u) ==
  upg' = [x \in Upgrades |->
    CASE x = u -> [at |-> "fetch", track |-> t, liked |-> liked]
      [] x \in Fetching(t) -> [NoUpgrade EXCEPT !.at = "over"]
      [] OTHER -> upg[x]]

(* The entry leaves `active' only now, and the caller gets its answer.  An *)
(* hq caller whose answer is not known to be hq schedules an upgrade (the  *)
(* side file may be missing), unless the request has no download URLs.     *)
RemoveActive(r) ==
  LET s == req[r].answer IN
  /\ req[r].pc = "remove"
  /\ active' = [active EXCEPT ![req[r].track] = None]
  /\ Goto(r, "done")
  /\ \/ UNCHANGED upg
     \/ /\ req[r].hq /\ s # Failed
        /\ \E u \in Upgrades : upg[u].at = "unused" /\ Schedule(s.track, req[r].liked, u)
  /\ kept' = IF req[r].liked /\ s # Failed /\ ~req[r].disturbed
               THEN kept \cup {s.track} ELSE kept
  /\ UNCHANGED <<files, likesVars, upkeep>>

-----------------------------------------------------------------------------
(* run_upgrade and cancel_upgrade. *)

UpgradeOver(u) == upg' = [upg EXCEPT ![u] = [NoUpgrade EXCEPT !.at = "over"]]

UpgradeFails(u) ==
  /\ upg[u].at = "fetch" /\ UpgradeOver(u)
  /\ UNCHANGED <<files, active, req, likesVars, upkeep, kept>>

UpgradeLands(u) ==
  /\ upg[u].at = "fetch" /\ UpgradeOver(u)
  /\ files' = files \cup {Slot(upg[u].track, upg[u].liked, "hq")}
  /\ UNCHANGED <<active, req, likesVars, upkeep, kept>>

CancelUpgrade(u) ==
  /\ upkeep < MaxUpkeep /\ upkeep' = upkeep + 1
  /\ upg[u].at = "fetch" /\ UpgradeOver(u)
  /\ UNCHANGED <<files, active, req, likesVars, kept>>

-----------------------------------------------------------------------------
(* cache_likes and cancel_cache_likes. *)

(* likes_running.swap(true): a second call while one runs is refused. *)
LikesBegin(l, ts) ==
  /\ run[l].pc = "unused"
  /\ running' = TRUE
  /\ run' = [run EXCEPT ![l] = IF running THEN [NoRun EXCEPT !.pc = "over"]
                               ELSE [NoRun EXCEPT !.pc = "reset", !.todo = ts]]
  /\ UNCHANGED <<files, active, req, cancel, upg, upkeep, kept>>

LikesReset(l) ==
  /\ run[l].pc = "reset"
  /\ cancel' = FALSE
  /\ run' = [run EXCEPT ![l].pc = "loop"]
  /\ UNCHANGED <<files, active, req, running, upg, upkeep, kept>>

(* promote_to_liked moves the sq file and its side file; it looks at no    *)
(* hq file, neither here nor in liked_has_file.                            *)
LikesStored(l, t) ==
  LET liked == Slot(t, TRUE, "sq")
      audio == Slot(t, FALSE, "sq")
      moved(S) == IF audio \in S THEN (S \ {audio}) \cup {liked} ELSE S
  IN
  /\ run[l].pc = "loop" /\ ~cancel /\ t \in run[l].todo
  /\ liked \in files \/ audio \in files
  /\ IF liked \in files THEN UNCHANGED files
    ELSE files' = moved(files)
  /\ kept' = kept \cup {t}
  /\ run' = [run EXCEPT ![l].todo = @ \ {t}]
  /\ UNCHANGED <<active, req, running, cancel, upg, upkeep>>

LikesPick(l, t) ==
  /\ run[l].pc = "loop" /\ ~cancel /\ t \in run[l].todo
  /\ {Slot(t, TRUE, "sq"), Slot(t, FALSE, "sq")} \cap files = {}
  /\ run' = [run EXCEPT ![l].pc = "permit", ![l].next = t, ![l].todo = @ \ {t}]
  /\ UNCHANGED <<files, active, req, running, cancel, upg, upkeep, kept>>

Tasks == LikesRuns \X Tracks
Ended(r) == req[r].pc \in {"unused", "done"}

LikesSpawn(l, hq) ==
  /\ run[l].pc = "permit"
  /\ Cardinality({x \in Tasks : ~Ended(x)}) < LikesPermits
  /\ req' = [req EXCEPT ![<<l, run[l].next>>] =
                [NoRequest EXCEPT !.pc = "spawned", !.track = run[l].next,
                                  !.hq = hq, !.liked = TRUE]]
  /\ run' = [run EXCEPT ![l].pc = "loop", ![l].next = None]
  /\ UNCHANGED <<files, active, running, cancel, upg, upkeep, kept>>

LikesTask(r) ==
  /\ req[r].pc = "spawned"
  /\ Goto(r, IF cancel THEN "done" ELSE "begin")
  /\ UNCHANGED <<files, active, likesVars, upg, upkeep, kept>>

(* Mutant: only the end of the list ends the loop. *)
LikesDrainListOnly(l) ==
  /\ run[l].pc = "loop" /\ run[l].todo = {}
  /\ run' = [run EXCEPT ![l].pc = "drain"]
  /\ UNCHANGED <<files, active, req, running, cancel, upg, upkeep, kept>>

(* The loop ends, at the end of the list or at the flag; the tasks are awaited. *)
LikesDrain(l) ==
  /\ run[l].pc = "loop" /\ (cancel \/ run[l].todo = {})
  /\ run' = [run EXCEPT ![l].pc = "drain"]
  /\ UNCHANGED <<files, active, req, running, cancel, upg, upkeep, kept>>

LikesFree(l) ==
  /\ run[l].pc = "drain" /\ \A t \in Tracks : Ended(<<l, t>>)
  /\ running' = FALSE
  /\ run' = [run EXCEPT ![l].pc = "free"]
  /\ UNCHANGED <<files, active, req, cancel, upg, upkeep, kept>>

(* The flag is cleared after likes_running: a cancellation of the next run *)
(* that came in between is lost.                                           *)
LikesClearFlag(l) ==
  /\ run[l].pc = "free"
  /\ cancel' = FALSE
  /\ run' = [x \in LikesRuns |->
       CASE x = l -> [run[l] EXCEPT !.pc = "over"]
         [] run[x].stop = "asked" -> [run[x] EXCEPT !.stop = "lost"]
         [] OTHER -> run[x]]
  /\ UNCHANGED <<files, active, req, running, upg, upkeep, kept>>

(* `stop' records the cancellations of a run that has passed its reset. *)
CancelLikes ==
  /\ upkeep < MaxUpkeep /\ upkeep' = upkeep + 1
  /\ running /\ cancel' = TRUE
  /\ run' = [l \in LikesRuns |-> IF run[l].pc \in {"loop", "permit", "drain"}
                                   THEN [run[l] EXCEPT !.stop = "asked"] ELSE run[l]]
  /\ UNCHANGED <<files, active, req, running, upg, kept>>

-----------------------------------------------------------------------------
(* clear_cache, clear_liked_cache, remove_cached, enforce_limit. *)

(* Files S go with their side files.  A liked copy in the making of a      *)
(* track in ts may be among them.                                          *)
Delete(S, ts) ==
  /\ upkeep < MaxUpkeep /\ upkeep' = upkeep + 1
  /\ files' = files \ S
  /\ kept' = kept \ ts
  /\ req' = [r \in Requests |->
       IF req[r].track \in ts THEN [req[r] EXCEPT !.disturbed = TRUE] ELSE req[r]]
  /\ UNCHANGED <<active, likesVars, upg>>

ClearCache == OfDir("audio") \cap files # {} /\ Delete(OfDir("audio"), {})
ClearLiked == OfDir("liked") \cap files # {} /\ Delete(OfDir("liked"), Tracks)
RemoveCached(t) == IsCached(t) /\ Delete(OfTrack(t), {t})
EnforceLimit == \E s \in OfDir("audio") \cap files : Delete({s}, {})

-----------------------------------------------------------------------------
RequestStep(r) ==
  \/ LookUp(r) \/ Lead(r) \/ Join(r) \/ Listen(r)
  \/ ChainFails(r) \/ RaceFails(r)
  \/ Redirected(r) \/ Anonymous(r) \/ Streamed(r) \/ Direct(r) \/ Api(r)
  \/ NotifyWaiters(r) \/ RemoveActive(r) \/ LikesTask(r)
UpgradeStep(u) == UpgradeFails(u) \/ UpgradeLands(u)
LikesStep(l) ==
  \/ LikesReset(l) \/ LikesDrain(l) \/ LikesFree(l) \/ LikesClearFlag(l)
  \/ \E t \in Tracks : LikesStored(l, t) \/ LikesPick(l, t)
  \/ \E hq \in HqSettings : LikesSpawn(l, hq)
Upkeep ==
  \/ ClearCache \/ ClearLiked \/ EnforceLimit \/ CancelLikes
  \/ \E t \in Tracks : RemoveCached(t)
  \/ \E u \in Upgrades : CancelUpgrade(u)

CacheNext ==
  \/ \E r \in Calls, t \in Tracks, hq \in HqSettings : AskTrack(r, t, hq)
  \/ \E l \in LikesRuns, ts \in (SUBSET Tracks) \ {{}} : LikesBegin(l, ts)
  \/ \E r \in Requests : RequestStep(r)
  \/ \E u \in Upgrades : UpgradeStep(u)
  \/ \E l \in LikesRuns : LikesStep(l)
  \/ Upkeep

CacheFairness ==
  /\ \A r \in Requests : WF_cacheVars(RequestStep(r))
  /\ \A u \in Upgrades : WF_cacheVars(UpgradeStep(u))
  /\ \A l \in LikesRuns : WF_cacheVars(LikesStep(l))

CacheSpec == CacheInit /\ [][CacheNext]_cacheVars /\ CacheFairness
-----------------------------------------------------------------------------
(* Properties. *)

Leading(r) == req[r].pc \in {"chain", "race", "publish", "remove"}

(* A track has one download at a time: however calls, preloads and likes   *)
(* tasks interleave, no two leaders work for the same track.  (A request   *)
(* whose lookup came before the file and whose turn at the map came after   *)
(* the leader had left it downloads the track once more.)                  *)
OneLeader ==
  \A r, x \in Requests : Leading(r) /\ Leading(x) /\ req[r].track = req[x].track => r = x

(* A liked track whose copy cache_likes made itself (as leader, by         *)
(* promotion, or found) keeps a file in the liked directory until somebody *)
(* removes it; maintenance of the audio directory never takes it.          *)
LikedKept ==
  \A t \in kept : OfTrack(t) \cap OfDir("liked") \cap files # {}

(* notified() came after notify_waiters: nobody will wake this request. *)
Missed(r) == req[r].pc = "listening" /\ req[req[r].leader].pc \notin {"chain", "race", "publish"}

(* Whoever listens before the leader notifies gets the leader's answer. *)
ListenerAnswered ==
  \A r \in Requests : (req[r].pc = "listening" /\ ~Missed(r)) ~> (req[r].pc = "done")

(* cache_likes ends, so that it can be called again, unless one of its     *)
(* tasks missed the notification of the download it joined.                *)
LikesRunEnds ==
  \A l \in LikesRuns : (run[l].pc = "loop") ~>
     (run[l].pc = "over" \/ \E r \in Tasks : Missed(r))

(* No call of the cache hangs but for a notification it missed. *)
CallsEnd == ListenerAnswered /\ LikesRunEnds
=============================================================================
