----------------------------- MODULE DesktopProofs -----------------------------
(***************************************************************************)
(* The desktop's audio for any number of tracks, calls, runs and permits.  *)
(* OneLeader: whoever downloads a track stands in `active' until it has    *)
(* told the others, and nobody enters a track that has an entry.           *)
(* LikedKept: what is in `kept' has its file, or is about to, as no upkeep *)
(* reaches the liked directory.  SettledAgrees: while the engine is not at *)
(* the store's selection there is a fresh job that will bring it there.    *)
(***************************************************************************)
EXTENDS TrackCache, Player, TLAPS

Steps == {"unused", "spawned", "begin", "lock", "joined", "listening", "chain", "race", "publish",
          "remove", "done"}
Asked == [pc : Steps, track : Tracks \cup {None}, hq : BOOLEAN, liked : BOOLEAN,
          leader : Requests \cup {None}, answer : Slots \cup {None, Failed}, disturbed : BOOLEAN]

RunSteps == {"unused", "reset", "loop", "permit", "drain", "free", "over"}
Runs == [pc : RunSteps, todo : SUBSET Tracks, next : Tracks \cup {None},
         stop : {"no", "asked", "lost"}]

CacheTypeOK ==
  /\ active \in [Tracks -> Requests \cup {None}]
  /\ req \in [Requests -> Asked]

(* A leader has the entry of its track. *)
Entered(r) ==
  /\ ~Ended(r) => req[r].track \in Tracks
  /\ Leading(r) => active[req[r].track] = r

(* What waits for a permit is a track of the list. *)
PickedIsTrack ==
  /\ run \in [LikesRuns -> Runs]
  /\ \A l \in LikesRuns : run[l].pc = "permit" => run[l].next \in Tracks

CacheInv == CacheTypeOK /\ PickedIsTrack /\ \A r \in Requests : Entered(r)

-----------------------------------------------------------------------------
LEMMA CacheInitially == CacheInit => CacheInv
<1> SUFFICES ASSUME CacheInit PROVE CacheInv
  OBVIOUS
<1>1. NoRequest \in Asked /\ NoRequest.pc = "unused"
  BY DEF NoRequest, Asked, Steps
<1>2. CacheTypeOK
  BY <1>1 DEF CacheInit, CacheTypeOK
<1>3. \A r \in Requests : Entered(r)
  BY <1>1 DEF CacheInit, Entered, Ended, Leading
<1>4. PickedIsTrack
  BY DEF CacheInit, PickedIsTrack, NoRun, Runs, RunSteps
<1>5. QED
  BY <1>2, <1>3, <1>4 DEF CacheInv

LEMMA RequestTyped ==
    ASSUME CacheInv, NEW r \in Requests
    PROVE  /\ req \in [Requests -> Asked] /\ req[r] \in Asked /\ Entered(r)
           /\ active \in [Tracks -> Requests \cup {None}]
BY DEF CacheInv, CacheTypeOK

LEMMA RowsTyped ==
    ASSUME NEW k \in Asked
    PROVE  /\ \A pc \in Steps : [k EXCEPT !.pc = pc] \in Asked
           /\ \A pc \in Steps, s \in Slots \cup {None, Failed} :
                [k EXCEPT !.pc = pc, !.answer = s] \in Asked
           /\ [k EXCEPT !.disturbed = TRUE] \in Asked
           /\ Done \in Asked
BY DEF Asked, Done, NoRequest, Steps

(* Requests that end, begin, wait or go on in what they were doing leave   *)
(* the entries as they are.                                                *)
LEMMA EntriesStay ==
    ASSUME CacheInv, active' = active, req' \in [Requests -> Asked], PickedIsTrack',
           \A r \in Requests :
             \/ req'[r].pc \in {"unused", "done"}
             \/ req'[r].track \in Tracks /\ ~Leading(r)'
             \/ req'[r].track = req[r].track /\ ~Ended(r) /\ (Leading(r)' => Leading(r))
    PROVE  CacheInv'
BY DEF CacheInv, CacheTypeOK, Entered, Ended, Leading

(* The same for a step of one request. *)
LEMMA OneMoves ==
    ASSUME CacheInv, active' = active, UNCHANGED run,
           NEW r \in Requests, NEW k \in Asked, req' = [req EXCEPT ![r] = k],
           \/ k.pc \in {"unused", "done"}
           \/ k.track \in Tracks /\ k.pc \in {"spawned", "begin", "lock", "joined", "listening"}
           \/ k.track = req[r].track /\ ~Ended(r)
                /\ (k.pc \in {"chain", "race", "publish", "remove"} => Leading(r))
    PROVE  CacheInv'
<1>1. \A x \in Requests : req'[x] = IF x = r THEN k ELSE req[x]
  BY RequestTyped
<1>2. req' \in [Requests -> Asked] /\ PickedIsTrack'
  BY RequestTyped DEF CacheInv, PickedIsTrack
<1>3. ASSUME NEW x \in Requests
      PROVE  \/ req'[x].pc \in {"unused", "done"}
             \/ req'[x].track \in Tracks /\ ~Leading(x)'
             \/ req'[x].track = req[x].track /\ ~Ended(x) /\ (Leading(x)' => Leading(x))
  <2>1. CASE x = r
    BY <1>1, <2>1 DEF Leading, Ended
  <2>2. CASE x # r
    BY <1>1, <2>2, RequestTyped DEF Leading, Ended, Entered
  <2>3. QED
    BY <2>1, <2>2
<1>4. QED
  BY <1>2, <1>3, EntriesStay

-----------------------------------------------------------------------------
LEMMA AskKeeps ==
    ASSUME CacheInv, NEW r \in Calls, NEW t \in Tracks, NEW hq \in HqSettings, AskTrack(r, t, hq)
    PROVE  CacheInv'
<1> DEFINE k == [NoRequest EXCEPT !.pc = "begin", !.track = t, !.hq = hq]
<1>1. k \in Asked /\ k.track = t /\ k.pc = "begin"
  BY TrackCacheAssumption DEF NoRequest, Asked, Steps
<1>2. r \in Requests /\ req' = [req EXCEPT ![r] = k] /\ UNCHANGED <<active, run>>
  BY DEF AskTrack, Requests, likesVars
<1> HIDE DEF k
<1>3. QED
  BY <1>1, <1>2, OneMoves

LEMMA LeadKeeps ==
    ASSUME CacheInv, NEW r \in Requests, Lead(r)
    PROVE  CacheInv'
<1> DEFINE t == req[r].track
           k == [req[r] EXCEPT !.pc = "chain"]
<1>1. t \in Tracks /\ active[t] = None
  BY RequestTyped DEF Lead, NoneLeads, Entered, Ended
<1>2. k \in Asked /\ k.pc = "chain" /\ k.track = t
  BY RequestTyped DEF Asked, Steps
<1>3. req' = [req EXCEPT ![r] = k] /\ active' = [active EXCEPT ![t] = r] /\ run' = run
  BY DEF Lead, Goto, likesVars
<1> HIDE DEF k
<1>4. CacheTypeOK' /\ PickedIsTrack'
  BY <1>1, <1>2, <1>3, RequestTyped DEF CacheInv, CacheTypeOK, PickedIsTrack
<1>5. ASSUME NEW x \in Requests PROVE Entered(x)'
  <2>1. CASE x = r
    BY <1>1, <1>2, <1>3, <2>1, RequestTyped DEF Entered, Ended, Leading
  <2>2. CASE x # r
    <3>1. req'[x] = req[x] /\ Entered(x)
      BY <1>3, <2>2, RequestTyped
    <3>2. Leading(x) => req[x].track # t
      BY <1>1, <3>1, TrackCacheAssumption DEF Entered
    <3>3. QED
      BY <1>1, <1>3, <3>1, <3>2, RequestTyped DEF Entered, Ended, Leading
  <2>3. QED
    BY <2>1, <2>2
<1>6. QED
  BY <1>4, <1>5 DEF CacheInv

(* The leader's entry is its own: nobody else's goes with it. *)
LEMMA RemoveKeeps ==
    ASSUME CacheInv, NEW r \in Requests, RemoveActive(r)
    PROVE  CacheInv'
<1> DEFINE t == req[r].track
<1>1. t \in Tracks /\ active[t] = r
  BY RequestTyped DEF RemoveActive, Entered, Ended, Leading
<1>2. req' = [req EXCEPT ![r] = Done] /\ active' = [active EXCEPT ![t] = None] /\ run' = run
  BY DEF RemoveActive, Goto, likesVars
<1>3. Done \in Asked /\ Done.pc = "done"
  BY RowsTyped, RequestTyped DEF Done, NoRequest
<1>4. CacheTypeOK' /\ PickedIsTrack'
  BY <1>1, <1>2, <1>3, RequestTyped DEF CacheInv, CacheTypeOK, PickedIsTrack
<1>5. ASSUME NEW x \in Requests PROVE Entered(x)'
  <2>1. CASE x = r
    BY <1>2, <1>3, <2>1, RequestTyped DEF Entered, Ended, Leading
  <2>2. CASE x # r
    <3>1. req'[x] = req[x] /\ Entered(x)
      BY <1>2, <2>2, RequestTyped
    <3>2. Leading(x) => req[x].track # t
      BY <1>1, <2>2, <3>1 DEF Entered
    <3>3. QED
      BY <1>1, <1>2, <3>1, <3>2, RequestTyped DEF Entered, Ended, Leading
  <2>3. QED
    BY <2>1, <2>2
<1>6. QED
  BY <1>4, <1>5 DEF CacheInv

LEMMA NotifyKeeps ==
    ASSUME CacheInv, NEW r \in Requests, NotifyWaiters(r)
    PROVE  CacheInv'
<1>1. ASSUME NEW x \in Requests
      PROVE  \/ x = r /\ req'[x] = [req[r] EXCEPT !.pc = "remove"]
             \/ x # r /\ (req'[x] = Done \/ req'[x] = req[x])
  BY DEF NotifyWaiters
<1>2. Done.pc = "done"
  BY DEF Done, NoRequest
<1>3. [req[r] EXCEPT !.pc = "remove"].pc = "remove" /\ [req[r] EXCEPT !.pc = "remove"].track = req[r].track
  BY RequestTyped DEF Asked
<1>4. \A x \in Requests : req'[x] \in Asked
  BY <1>1, RequestTyped, RowsTyped DEF Steps
<1>5. req' \in [Requests -> Asked] /\ PickedIsTrack' /\ active' = active
  BY <1>4 DEF NotifyWaiters, CacheInv, PickedIsTrack, likesVars
<1>6. ASSUME NEW x \in Requests
      PROVE  \/ req'[x].pc \in {"unused", "done"}
             \/ req'[x].track \in Tracks /\ ~Leading(x)'
             \/ req'[x].track = req[x].track /\ ~Ended(x) /\ (Leading(x)' => Leading(x))
  BY <1>1, <1>2, <1>3 DEF Leading, Ended, NotifyWaiters
<1>7. QED
  BY <1>5, <1>6, EntriesStay

LEMMA PlainKeeps ==
    ASSUME CacheInv, NEW r \in Requests,
           \/ LookUp(r) \/ Join(r) \/ Listen(r) \/ ChainFails(r) \/ RaceFails(r) \/ LikesTask(r)
           \/ Redirected(r) \/ Anonymous(r) \/ Streamed(r) \/ Direct(r) \/ Api(r)
    PROVE  CacheInv'
<1>0. /\ req[r] \in Asked /\ UNCHANGED <<active, run>>
      /\ Done \in Asked /\ Done.pc = "done"
  BY RequestTyped, RowsTyped DEF LookUp, Join, Listen, ChainFails, RaceFails, LikesTask, Redirected,
       Anonymous, Streamed, Direct, Api, FileLands, likesVars, Done, NoRequest
<1>1. CASE LookUp(r)
  <2>1. /\ ~Ended(r)
        /\ \/ req' = [req EXCEPT ![r] = Done]
           \/ req' = [req EXCEPT ![r] = [req[r] EXCEPT !.pc = "lock"]]
    BY <1>1 DEF LookUp, Goto, Ended
  <2> DEFINE k == [req[r] EXCEPT !.pc = "lock"]
  <2>2. k \in Asked /\ k.track = req[r].track /\ k.pc = "lock"
    BY <1>0 DEF Asked, Steps
  <2> HIDE DEF k
  <2>3. QED
    BY <1>0, <2>1, <2>2, OneMoves DEF k
<1>2. CASE Join(r) \/ Listen(r)
  <2>1. PICK k \in Asked : /\ req' = [req EXCEPT ![r] = k] /\ k.track = req[r].track
                           /\ k.pc \in {"joined", "listening"} /\ ~Ended(r)
    <3>1. CASE Join(r)
      <4>1. active[req[r].track] \in Requests \cup {None}
        BY <3>1, RequestTyped DEF Join, Entered, Ended
      <4> DEFINE k == [req[r] EXCEPT !.pc = "joined", !.leader = active[req[r].track]]
      <4>2. k \in Asked /\ k.track = req[r].track /\ k.pc = "joined"
        BY <1>0, <4>1 DEF Asked, Steps
      <4>3. req' = [req EXCEPT ![r] = k] /\ ~Ended(r)
        BY <3>1, RequestTyped DEF Join, Ended
      <4>4. QED
        BY <4>2, <4>3
    <3>2. CASE Listen(r)
      BY <1>0, <3>2 DEF Listen, Goto, Ended, Asked, Steps
    <3>3. QED
      BY <1>2, <3>1, <3>2
  <2>2. QED
    BY <1>0, <2>1, OneMoves
<1>3. CASE ChainFails(r) \/ RaceFails(r) \/ Redirected(r) \/ Anonymous(r) \/ Streamed(r) \/ Direct(r) \/ Api(r)
  <2>1. req[r].pc \in {"chain", "race"} /\ Leading(r) /\ ~Ended(r) /\ req[r].track \in Tracks
    BY <1>3, RequestTyped DEF ChainFails, RaceFails, Redirected, Anonymous, Streamed, Direct, Api, Leading, Ended, Entered
  <2>2. \A q \in {"hq", "sq"} : Target(r, q) \in Slots
    BY <2>1 DEF Target, Slot, Slots
  <2>3. PICK s \in Slots \cup {None, Failed}, pc \in {"race", "publish"} :
          req' = [req EXCEPT ![r] = [req[r] EXCEPT !.pc = pc, !.answer = s]]
    <3>1. CASE ChainFails(r)
      BY <1>0, <3>1 DEF ChainFails, Goto, Asked
    <3>2. CASE RaceFails(r)
      BY <1>0, <3>2, RequestTyped DEF RaceFails, Asked
    <3>3. CASE Redirected(r) \/ Anonymous(r) \/ Streamed(r) \/ Direct(r) \/ Api(r)
      <4>1. PICK q \in {"hq", "sq"} : FileLands(r, q)
        BY <3>3 DEF Redirected, Anonymous, Streamed, Direct, Api
      <4>2. req' = [req EXCEPT ![r] = [req[r] EXCEPT !.pc = "publish", !.answer = Target(r, q)]]
        BY <1>0, <4>1, RequestTyped DEF FileLands, Asked
      <4>3. QED
        BY <2>2, <4>2
    <3>4. QED
      BY <1>3, <3>1, <3>2, <3>3
  <2> DEFINE k == [req[r] EXCEPT !.pc = pc, !.answer = s]
  <2>4. k \in Asked /\ k.track = req[r].track /\ k.pc = pc
    BY <1>0 DEF Asked, Steps
  <2> HIDE DEF k
  <2>5. QED
    BY <1>0, <2>1, <2>3, <2>4, OneMoves DEF k
<1>4. CASE LikesTask(r)
  <2>1. req[r].pc = "spawned" /\ ~Ended(r)
    BY <1>4 DEF LikesTask, Ended
  <2>2. \/ req' = [req EXCEPT ![r] = Done]
        \/ req' = [req EXCEPT ![r] = [req[r] EXCEPT !.pc = "begin"]]
    BY <1>4 DEF LikesTask, Goto
  <2> DEFINE k == [req[r] EXCEPT !.pc = "begin"]
  <2>3. k \in Asked /\ k.track = req[r].track /\ k.pc = "begin"
    BY <1>0 DEF Asked, Steps
  <2> HIDE DEF k
  <2>4. QED
    BY <1>0, <2>1, <2>2, <2>3, OneMoves DEF k
<1>5. QED
  BY <1>1, <1>2, <1>3, <1>4

-----------------------------------------------------------------------------
LEMMA LikesKeep ==
    ASSUME CacheInv, NEW l \in LikesRuns, LikesStep(l)
    PROVE  CacheInv'
<1>1. CASE \E hq \in HqSettings : LikesSpawn(l, hq)
  <2>1. PICK hq \in HqSettings : LikesSpawn(l, hq)
    BY <1>1
  <2> DEFINE t == run[l].next
             r == <<l, t>>
             k == [NoRequest EXCEPT !.pc = "spawned", !.track = t, !.hq = hq, !.liked = TRUE]
  <2>2. t \in Tracks
    BY <2>1 DEF LikesSpawn, CacheInv, PickedIsTrack
  <2>3. r \in Requests /\ k \in Asked /\ k.track = t /\ k.pc = "spawned"
    BY <2>2, TrackCacheAssumption DEF Requests, NoRequest, Asked, Steps
  <2>4. req' = [req EXCEPT ![r] = k] /\ active' = active
    BY <2>1 DEF LikesSpawn
  <2> HIDE DEF k, r
  <2>5. \A x \in Requests : req'[x] = IF x = r THEN k ELSE req[x]
    BY <2>4, RequestTyped
  <2>6. req' \in [Requests -> Asked]
    BY <2>3, <2>4, RequestTyped
  <2>7. PickedIsTrack'
    BY <2>1 DEF LikesSpawn, CacheInv, PickedIsTrack, Runs, RunSteps
  <2>8. ASSUME NEW x \in Requests
        PROVE  \/ req'[x].pc \in {"unused", "done"}
               \/ req'[x].track \in Tracks /\ ~Leading(x)'
               \/ req'[x].track = req[x].track /\ ~Ended(x) /\ (Leading(x)' => Leading(x))
    BY <2>2, <2>3, <2>5 DEF Leading, Ended
  <2>9. QED
    BY <2>4, <2>6, <2>7, <2>8, EntriesStay
<1>2. ASSUME NEW t \in Tracks, LikesStored(l, t) \/ LikesPick(l, t) PROVE CacheInv'
  <2>1. PickedIsTrack' /\ UNCHANGED <<active, req>>
    <3>1. run \in [LikesRuns -> Runs] /\ run[l] \in Runs
      BY DEF CacheInv, PickedIsTrack
    <3>2. run[l].todo \ {t} \in SUBSET Tracks
      BY <3>1 DEF Runs
    <3>3. CASE LikesStored(l, t)
      <4>1. run' = [run EXCEPT ![l].todo = @ \ {t}] /\ UNCHANGED <<active, req>>
        BY <3>3 DEF LikesStored
      <4>2. QED
        BY <3>1, <3>2, <4>1 DEF CacheInv, PickedIsTrack, Runs
    <3>4. CASE LikesPick(l, t)
      <4>1. /\ run' = [run EXCEPT ![l].pc = "permit", ![l].next = t, ![l].todo = @ \ {t}]
            /\ UNCHANGED <<active, req>>
        BY <3>4 DEF LikesPick
      <4>2. QED
        BY <3>1, <3>2, <4>1 DEF CacheInv, PickedIsTrack, Runs, RunSteps
    <3>5. QED
      BY <1>2, <3>3, <3>4
  <2>2. QED
    BY <2>1 DEF CacheInv, CacheTypeOK, Entered, Ended, Leading
<1>3. CASE LikesReset(l) \/ LikesDrain(l) \/ LikesFree(l) \/ LikesClearFlag(l)
  <2>1. UNCHANGED <<active, req>>
    BY <1>3 DEF LikesReset, LikesDrain, LikesFree, LikesClearFlag
  <2>2. PickedIsTrack'
    <3>1. CASE LikesClearFlag(l)
      BY <3>1 DEF LikesClearFlag, CacheInv, PickedIsTrack, Runs, RunSteps
    <3>2. CASE LikesReset(l) \/ LikesDrain(l) \/ LikesFree(l)
      BY <3>2 DEF LikesReset, LikesDrain, LikesFree, CacheInv, PickedIsTrack, Runs, RunSteps
    <3>3. QED
      BY <1>3, <3>1, <3>2
  <2>3. QED
    BY <2>1, <2>2 DEF CacheInv, CacheTypeOK, Entered, Ended, Leading
<1>4. QED
  BY <1>1, <1>2, <1>3 DEF LikesStep

LEMMA DeleteKeeps ==
    ASSUME CacheInv, NEW S, NEW ts, Delete(S, ts)
    PROVE  CacheInv'
<1>1. \A x \in Requests : req'[x] = req[x] \/ req'[x] = [req[x] EXCEPT !.disturbed = TRUE]
  BY DEF Delete
<1>2. ASSUME NEW x \in Requests
      PROVE  req'[x] \in Asked /\ req'[x].pc = req[x].pc /\ req'[x].track = req[x].track
  <2>1. req[x] \in Asked
    BY RequestTyped
  <2> DEFINE k == [req[x] EXCEPT !.disturbed = TRUE]
  <2>2. k \in Asked /\ k.pc = req[x].pc /\ k.track = req[x].track
    BY <2>1 DEF Asked
  <2> HIDE DEF k
  <2>3. QED
    BY <1>1, <2>1, <2>2 DEF k
<1>3. req' \in [Requests -> Asked] /\ PickedIsTrack' /\ active' = active
  BY <1>2 DEF Delete, CacheInv, PickedIsTrack, likesVars
<1>4. QED
  BY <1>2, <1>3 DEF CacheInv, CacheTypeOK, Entered, Ended, Leading

LEMMA OthersKeep ==
    ASSUME CacheInv, UNCHANGED <<active, req>>, PickedIsTrack'
    PROVE  CacheInv'
BY DEF CacheInv, CacheTypeOK, Entered, Ended, Leading

LEMMA CacheStep == CacheInv /\ [CacheNext]_cacheVars => CacheInv'
<1> SUFFICES ASSUME CacheInv, [CacheNext]_cacheVars PROVE CacheInv'
  OBVIOUS
<1>1. ASSUME NEW r \in Requests, RequestStep(r) PROVE CacheInv'
  BY <1>1, LeadKeeps, RemoveKeeps, NotifyKeeps, PlainKeeps DEF RequestStep
<1>2. ASSUME NEW l \in LikesRuns, NEW ts \in SUBSET Tracks, LikesBegin(l, ts) PROVE CacheInv'
  <2>1. PickedIsTrack' /\ UNCHANGED <<active, req>>
    BY <1>2 DEF LikesBegin, CacheInv, PickedIsTrack, NoRun, Runs, RunSteps
  <2>2. QED
    BY <2>1, OthersKeep
<1>3. ASSUME NEW u \in Upgrades, UpgradeStep(u) \/ CancelUpgrade(u) PROVE CacheInv'
  BY <1>3, OthersKeep DEF UpgradeStep, UpgradeFails, UpgradeLands, CancelUpgrade, likesVars, CacheInv, PickedIsTrack
<1>4. CASE CancelLikes
  BY <1>4, OthersKeep DEF CancelLikes, CacheInv, PickedIsTrack, Runs, RunSteps
<1>5. CASE Upkeep
  BY <1>3, <1>4, <1>5, DeleteKeeps DEF Upkeep, ClearCache, ClearLiked, EnforceLimit, RemoveCached
<1>6. CASE UNCHANGED cacheVars
  BY <1>6, OthersKeep DEF cacheVars, CacheInv, PickedIsTrack
<1>7. QED
  BY <1>1, <1>2, <1>3, <1>5, <1>6, AskKeeps, LikesKeep DEF CacheNext

(* Two downloads of one track never run at a time (state.rs:864), whatever *)
(* calls, preloads and runs over the likes ask for it, and however long    *)
(* they waited for the map after their look for the file.  (That there is  *)
(* no second download after the first is not claimed: whoever is overtaken *)
(* between the two makes one.)                                             *)
THEOREM LeaderAlone == CacheSpec => []OneLeader
<1>1. CacheInv => OneLeader
  BY DEF CacheInv, Entered, OneLeader
<1>2. QED
  BY CacheInitially, CacheStep, <1>1, PTL DEF CacheSpec

-----------------------------------------------------------------------------
(* The liked copies.  Between the landing of its file and its entry in     *)
(* `kept' a task of cache_likes has a file in the liked directory, unless  *)
(* a removal disturbed it.                                                 *)
LikedFiles(t) == OfTrack(t) \cap OfDir("liked")

Made(r) ==
  req[r].pc \in {"publish", "remove"} /\ req[r].liked /\ req[r].answer # Failed /\ ~req[r].disturbed
    => req[r].answer \in LikedFiles(req[r].track) \cap files

KeptInv ==
  /\ kept \subseteq Tracks
  /\ \A t \in kept : LikedFiles(t) \cap files # {}
  /\ \A r \in Requests : Made(r)

LEMMA KeptInitially == CacheInit => KeptInv
BY DEF CacheInit, KeptInv, Made, NoRequest

(* Files that come disturb nothing; the requests that change bring their own *)
(* reason.                                                                   *)
LEMMA KeptGrows ==
    ASSUME KeptInv, kept' = kept,
           \A t \in Tracks : LikedFiles(t) \cap files \subseteq files',
           \A r \in Requests :
             \/ Made(r)'
             \/ /\ req[r].pc \in {"publish", "remove"}
                /\ req'[r].liked = req[r].liked /\ req'[r].answer = req[r].answer
                /\ req'[r].disturbed = req[r].disturbed /\ req'[r].track = req[r].track
                /\ req[r].track \in Tracks
    PROVE  KeptInv'
BY DEF KeptInv, Made

LEMMA NotMade ==
    ASSUME NEW r \in Requests, req[r].pc \notin {"publish", "remove"}
    PROVE  Made(r)
BY DEF Made

(* A step of one request that neither publishes nor has published. *)
LEMMA QuietKeeps ==
    ASSUME CacheInv, KeptInv, NEW r \in Requests, NEW k,
           req' = [req EXCEPT ![r] = k], UNCHANGED kept, files \subseteq files',
           \/ k.pc \notin {"publish", "remove"} \/ k.answer = Failed
           \/ k.liked => k.answer \in LikedFiles(k.track) \cap files'
    PROVE  KeptInv'
<1>1. \A x \in Requests : req'[x] = IF x = r THEN k ELSE req[x]
  BY RequestTyped
<1>2. Made(r)'
  BY <1>1 DEF Made
<1>3. ASSUME NEW x \in Requests, x # r PROVE Made(x)'
  <2>1. Made(x) /\ req'[x] = req[x]
    BY <1>1, <1>3 DEF KeptInv
  <2>2. QED
    BY <2>1 DEF Made
<1>4. \A t \in Tracks : LikedFiles(t) \cap files \subseteq files'
  OBVIOUS
<1>5. QED
  BY <1>2, <1>3, <1>4, KeptGrows

LEMMA LandingKeeps ==
    ASSUME CacheInv, KeptInv, NEW r \in Requests, NEW q \in {"hq", "sq"},
           req[r].pc \in {"chain", "race"}, FileLands(r, q)
    PROVE  KeptInv'
<1> DEFINE s == Target(r, q)
           k == [req[r] EXCEPT !.pc = "publish", !.answer = s]
<1>1. req[r] \in Asked /\ req[r].track \in Tracks
  BY RequestTyped DEF Entered, Ended
<1>2. req[r].liked => s \in LikedFiles(req[r].track)
  BY <1>1 DEF Target, Slot, Slots, LikedFiles, OfTrack, OfDir
<1>3. k.liked = req[r].liked /\ k.answer = s /\ k.track = req[r].track
  BY <1>1 DEF Asked
<1>4. req' = [req EXCEPT ![r] = k] /\ files' = files \cup {s} /\ UNCHANGED kept
  BY <1>1, RequestTyped DEF FileLands, Asked
<1> HIDE DEF k, s
<1>5. QED
  BY <1>2, <1>3, <1>4, QuietKeeps

LEMMA NotifyingKeeps ==
    ASSUME CacheInv, KeptInv, NEW r \in Requests, NotifyWaiters(r)
    PROVE  KeptInv'
<1>1. UNCHANGED <<files, kept>> /\ req[r].pc = "publish"
  BY DEF NotifyWaiters
<1>2. Done.pc = "done"
  BY DEF Done, NoRequest
<1>3. ASSUME NEW x \in Requests
      PROVE  \/ Made(x)'
             \/ /\ req[x].pc \in {"publish", "remove"}
                /\ req'[x].liked = req[x].liked /\ req'[x].answer = req[x].answer
                /\ req'[x].disturbed = req[x].disturbed /\ req'[x].track = req[x].track
                /\ req[x].track \in Tracks
  <2>1. CASE x = r
    <3>1. req'[r] = [req[r] EXCEPT !.pc = "remove"] /\ req[r] \in Asked
      BY RequestTyped DEF NotifyWaiters
    <3>2. req[r].track \in Tracks
      BY <1>1, RequestTyped DEF Entered, Ended
    <3>3. QED
      BY <1>1, <2>1, <3>1, <3>2 DEF Asked
  <2>2. CASE x # r /\ req'[x] = Done
    BY <1>2, <2>2 DEF Made
  <2>3. CASE req'[x] = req[x]
    <3>1. Made(x)
      BY DEF KeptInv
    <3>2. QED
      BY <1>1, <2>3, <3>1 DEF Made
  <2>4. QED
    BY <2>1, <2>2, <2>3 DEF NotifyWaiters
<1>4. QED
  BY <1>1, <1>3, KeptGrows

LEMMA RemovingKeeps ==
    ASSUME CacheInv, KeptInv, NEW r \in Requests, RemoveActive(r)
    PROVE  KeptInv'
<1> DEFINE s == req[r].answer
<1>1. req[r].pc = "remove" /\ req' = [req EXCEPT ![r] = Done] /\ UNCHANGED files
  BY DEF RemoveActive, Goto
<1>2. kept' = IF req[r].liked /\ s # Failed /\ ~req[r].disturbed THEN kept \cup {s.track} ELSE kept
  BY DEF RemoveActive
<1>3. Done.pc = "done" /\ \A x \in Requests : req'[x] = IF x = r THEN Done ELSE req[x]
  BY <1>1, RequestTyped DEF Done, NoRequest
<1>4. ASSUME NEW x \in Requests PROVE Made(x)'
  BY <1>1, <1>3 DEF KeptInv, Made
<1>5. ASSUME req[r].liked /\ s # Failed /\ ~req[r].disturbed
      PROVE  s.track \in Tracks /\ LikedFiles(s.track) \cap files # {}
  <2>1. s \in LikedFiles(req[r].track) \cap files
    BY <1>1, <1>5 DEF KeptInv, Made
  <2>2. req[r].track \in Tracks
    BY <1>1, RequestTyped DEF Entered, Ended
  <2>3. s.track = req[r].track
    BY <2>1 DEF LikedFiles, OfTrack
  <2>4. QED
    BY <2>1, <2>2, <2>3
<1>6. QED
  BY <1>1, <1>2, <1>4, <1>5 DEF KeptInv, LikedFiles, OfTrack, OfDir

LEMMA KeptRequest ==
    ASSUME CacheInv, KeptInv, NEW r \in Requests, RequestStep(r)
    PROVE  KeptInv'
<1>0. req \in [Requests -> Asked] /\ req[r] \in Asked
  BY RequestTyped
<1>1. CASE LookUp(r) \/ LikesTask(r) \/ Lead(r) \/ Join(r) \/ Listen(r) \/ ChainFails(r)
  <2>1. PICK k : req' = [req EXCEPT ![r] = k] /\ k.pc \notin {"publish", "remove"}
    <3>1. Done.pc = "done"
      BY DEF Done, NoRequest
    <3>2. CASE LookUp(r) \/ LikesTask(r) \/ Lead(r) \/ Listen(r) \/ ChainFails(r)
      BY <1>0, <3>1, <3>2 DEF LookUp, LikesTask, Lead, Listen, ChainFails, Goto, Asked
    <3>3. CASE Join(r)
      <4> DEFINE k == [req[r] EXCEPT !.pc = "joined", !.leader = active[req[r].track]]
      <4>1. req' = [req EXCEPT ![r] = k] /\ k.pc = "joined"
        BY <1>0, <3>3 DEF Join, Asked
      <4>2. QED
        BY <4>1
    <3>4. QED
      BY <1>1, <3>2, <3>3
  <2>2. UNCHANGED <<files, kept>>
    BY <1>1 DEF LookUp, LikesTask, Lead, Join, Listen, ChainFails
  <2>3. QED
    BY <2>1, <2>2, QuietKeeps
<1>2. CASE RaceFails(r)
  <2> DEFINE k == [req[r] EXCEPT !.pc = "publish", !.answer = Failed]
  <2>1. req' = [req EXCEPT ![r] = k] /\ UNCHANGED <<files, kept>> /\ k.answer = Failed
    BY <1>0, <1>2 DEF RaceFails, Asked
  <2> HIDE DEF k
  <2>2. QED
    BY <2>1, QuietKeeps
<1>3. CASE Redirected(r) \/ Anonymous(r) \/ Streamed(r) \/ Direct(r) \/ Api(r)
  BY <1>3, LandingKeeps DEF Redirected, Anonymous, Streamed, Direct, Api
<1>4. QED
  BY <1>1, <1>2, <1>3, NotifyingKeeps, RemovingKeeps DEF RequestStep

LEMMA KeptLikes ==
    ASSUME CacheInv, KeptInv, NEW l \in LikesRuns, LikesStep(l)
    PROVE  KeptInv'
<1>1. CASE \E hq \in HqSettings : LikesSpawn(l, hq)
  <2>1. PICK hq \in HqSettings : LikesSpawn(l, hq)
    BY <1>1
  <2> DEFINE r == <<l, run[l].next>>
             k == [NoRequest EXCEPT !.pc = "spawned", !.track = run[l].next, !.hq = hq, !.liked = TRUE]
  <2>2. r \in Requests
    BY <2>1 DEF LikesSpawn, CacheInv, PickedIsTrack, Requests
  <2>3. req' = [req EXCEPT ![r] = k] /\ k.pc = "spawned" /\ UNCHANGED <<files, kept>>
    BY <2>1 DEF LikesSpawn, NoRequest
  <2> HIDE DEF k, r
  <2>4. QED
    BY <2>2, <2>3, QuietKeeps
<1>2. ASSUME NEW t \in Tracks, LikesStored(l, t) PROVE KeptInv'
  <2> DEFINE liked == Slot(t, TRUE, "sq")
             audio == Slot(t, FALSE, "sq")
  <2>1. /\ kept' = kept \cup {t} /\ UNCHANGED req
        /\ \/ liked \in files /\ files' = files
           \/ files' = (files \ {audio}) \cup {liked}
    BY <1>2 DEF LikesStored
  <2>2. liked \in LikedFiles(t) /\ audio.dir = "audio"
    BY DEF Slot, Slots, LikedFiles, OfTrack, OfDir
  <2>3. liked \in files'
    BY <2>1
  <2>4. \A x : LikedFiles(x) \cap files \subseteq files'
    BY <2>1, <2>2 DEF LikedFiles, OfDir
  <2> HIDE DEF liked, audio
  <2>5. \A r \in Requests : Made(r)'
    BY <2>1, <2>4 DEF KeptInv, Made
  <2>6. ASSUME NEW x \in kept' PROVE LikedFiles(x) \cap files' # {}
    <3>1. CASE x = t
      BY <2>2, <2>3, <3>1
    <3>2. CASE x \in kept
      BY <2>4, <3>2 DEF KeptInv
    <3>3. QED
      BY <2>1, <3>1, <3>2
  <2>7. QED
    BY <2>1, <2>5, <2>6 DEF KeptInv, LikedFiles, OfTrack, OfDir
<1>3. ASSUME UNCHANGED <<files, req, kept>> PROVE KeptInv'
  BY <1>3 DEF KeptInv, Made, LikedFiles, OfTrack, OfDir
<1>4. QED
  BY <1>1, <1>2, <1>3 DEF LikesStep, LikesPick, LikesReset, LikesDrain, LikesFree, LikesClearFlag

(* What is deleted from the liked directory is of tracks in ts. *)
LEMMA KeptDelete ==
    ASSUME CacheInv, KeptInv, NEW S, NEW ts, Delete(S, ts),
           \A t \in Tracks \ ts : LikedFiles(t) \cap S = {}
    PROVE  KeptInv'
<1>1. kept' = kept \ ts /\ files' = files \ S
  BY DEF Delete
<1>2. ASSUME NEW r \in Requests PROVE Made(r)'
  <2>1. Made(r) /\ req[r] \in Asked
    BY RequestTyped DEF KeptInv
  <2>2. CASE req[r].track \in ts
    <3>1. req'[r] = [req[r] EXCEPT !.disturbed = TRUE]
      BY <2>2 DEF Delete
    <3>2. req'[r].disturbed
      BY <2>1, <3>1 DEF Asked
    <3>3. QED
      BY <3>2 DEF Made
  <2>3. CASE req[r].track \notin ts
    <3>1. req'[r] = req[r]
      BY <2>3 DEF Delete
    <3>2. req[r].pc \in {"publish", "remove"} => req[r].track \in Tracks
      BY RequestTyped DEF Entered, Ended
    <3>3. QED
      BY <1>1, <2>1, <2>3, <3>1, <3>2 DEF Made
  <2>4. QED
    BY <2>2, <2>3
<1>3. QED
  BY <1>1, <1>2 DEF KeptInv, LikedFiles, OfTrack, OfDir

LEMMA KeptStep == CacheInv /\ KeptInv /\ [CacheNext]_cacheVars => KeptInv'
<1> SUFFICES ASSUME CacheInv, KeptInv, [CacheNext]_cacheVars PROVE KeptInv'
  OBVIOUS
<1>0. ASSUME UNCHANGED <<req, kept>>, files \subseteq files' PROVE KeptInv'
  BY <1>0 DEF KeptInv, Made, LikedFiles, OfTrack, OfDir
<1>1. ASSUME NEW r \in Calls, NEW t \in Tracks, NEW hq \in HqSettings, AskTrack(r, t, hq) PROVE KeptInv'
  <2> DEFINE k == [NoRequest EXCEPT !.pc = "begin", !.track = t, !.hq = hq]
  <2>1. r \in Requests /\ req' = [req EXCEPT ![r] = k] /\ k.pc = "begin" /\ UNCHANGED <<files, kept>>
    BY <1>1 DEF AskTrack, Requests, NoRequest
  <2> HIDE DEF k
  <2>2. QED
    BY <2>1, QuietKeeps
<1>2. ASSUME NEW l \in LikesRuns, NEW ts \in SUBSET Tracks, LikesBegin(l, ts) PROVE KeptInv'
  BY <1>0, <1>2 DEF LikesBegin
<1>3. ASSUME NEW u \in Upgrades, UpgradeStep(u) \/ CancelUpgrade(u) PROVE KeptInv'
  <2>1. UNCHANGED <<req, kept>> /\ files \subseteq files'
    BY <1>3 DEF UpgradeStep, UpgradeFails, UpgradeLands, CancelUpgrade
  <2>2. QED
    BY <1>0, <2>1
<1>4. CASE Upkeep
  <2>1. CASE ClearCache
    BY <2>1, KeptDelete DEF ClearCache, LikedFiles, OfDir
  <2>2. CASE ClearLiked
    BY <2>2, KeptDelete DEF ClearLiked
  <2>3. ASSUME NEW t \in Tracks, RemoveCached(t) PROVE KeptInv'
    BY <2>3, KeptDelete DEF RemoveCached, LikedFiles, OfTrack
  <2>4. CASE EnforceLimit
    BY <2>4, KeptDelete DEF EnforceLimit, LikedFiles, OfDir
  <2>5. CASE CancelLikes
    BY <1>0, <2>5 DEF CancelLikes
  <2>6. QED
    BY <1>3, <1>4, <2>1, <2>2, <2>3, <2>4, <2>5 DEF Upkeep
<1>5. CASE UNCHANGED cacheVars
  BY <1>0, <1>5 DEF cacheVars
<1>6. QED
  BY <1>1, <1>2, <1>3, <1>4, <1>5, KeptRequest, KeptLikes DEF CacheNext

(* A liked copy stays until somebody removes it (state.rs, cache_likes,    *)
(* promote_to_liked, enforce_limit, clear_cache): the upkeep of the audio  *)
(* directory never takes it, and a removal under a download is no copy.    *)
THEOREM LikedCopiesStay == CacheSpec => []LikedKept
<1>1. KeptInv => LikedKept
  BY DEF KeptInv, LikedKept, LikedFiles
<1>2. QED
  BY CacheInitially, CacheStep, KeptInitially, KeptStep, <1>1, PTL DEF CacheSpec

-----------------------------------------------------------------------------
(* The player. *)

Busy == job.pc # "none"
Latest == jobs[Len(jobs)]
Selections == PlayerTracks \cup {NoTrack}
JobRows == [pc : {"none", "queued", "fetching", "building", "loaded"}, track : Selections,
            play : BOOLEAN, fresh : BOOLEAN, fade : BOOLEAN]

Players == [track : Selections, paused : BOOLEAN, watched : BOOLEAN]

PlayerTypeOK ==
  /\ store \in [sel : Selections, playing : BOOLEAN]
  /\ js \in [cur : Selections, loading : Selections, key : Selections, has : BOOLEAN, fade : BOOLEAN]
  /\ jobs \in Seq(JobRows) /\ job \in JobRows
  /\ player \in Players
  /\ outgoing \in {"none", "waiting", "fading"}
  /\ swap \in [pc : {"none", "reading", "building"}, track : Selections, paused : BOOLEAN]
  /\ displaced \in BOOLEAN /\ unheeded \in BOOLEAN

(* Something is selected while a job waits or runs; what is held has a key. *)
SelectionFits ==
  /\ Busy \/ jobs # <<>> => store.sel # NoTrack
  /\ js.has => js.key # NoTrack

(* Of the jobs that wait the latest alone is fresh; it asks to play if the *)
(* store does.                                                             *)
JobsFit ==
  /\ \A i \in 1..Len(jobs) : jobs[i].track \in PlayerTracks /\ (jobs[i].fresh <=> i = Len(jobs))
  /\ jobs # <<>> /\ store.sel = Latest.track /\ store.playing => Latest.play

(* A fresh job loads the selection, unless the user went back to the track *)
(* that is still held during a crossfade; any other job has a follower.    *)
JobFits ==
  Busy =>
    /\ job.pc # "queued" /\ job.track \in PlayerTracks /\ js.loading = job.track /\ ~js.fade
    /\ job.fresh <=> jobs = <<>>
    /\ job.fresh => store.sel = job.track \/ (js.has /\ store.sel = js.key)
    /\ job.fresh /\ store.sel = job.track /\ store.playing => job.play
    /\ js.has => job.play
    /\ jobs # <<>> =>
         IF js.has THEN Latest.track # js.key /\ Latest.track # job.track
                   ELSE store.sel \in {Latest.track, job.track}

(* A crossfade is asked for by the only job that waits. *)
FadeFits ==
  js.fade =>
    /\ ~Busy /\ Len(jobs) = 1 /\ Latest.track = store.sel /\ Latest.play
    /\ js.has /\ (~displaced => player.track = js.key)

IdleFits ==
  ~Busy /\ jobs = <<>> =>
    /\ js.loading = NoTrack
    /\ IF store.sel = NoTrack THEN ~js.has ELSE js.has /\ js.key = store.sel

EngineFits ==
  /\ job.pc = "loaded" /\ ~displaced => player.track = job.track
  /\ job.pc = "fetching" /\ js.has /\ ~displaced => player.track = js.key
  /\ ~Busy /\ jobs = <<>> /\ store.sel # NoTrack /\ ~displaced =>
       player.track = store.sel /\ (~unheeded => player.paused = ~store.playing)
  /\ outgoing = "waiting" => job.pc = "building" \/ (~Busy /\ jobs # <<>> /\ ~js.fade)

PlayerInv ==
  PlayerTypeOK /\ SelectionFits /\ JobsFit /\ JobFits /\ FadeFits /\ IdleFits /\ EngineFits

(* The queue wraps around, to another track. *)
LEMMA NextIsATrack ==
  ASSUME NEW t \in PlayerTracks
  PROVE  NextTrack(t) \in PlayerTracks /\ NextTrack(t) # t
<1>1. t \in 1..NTracks /\ NTracks \in Nat \ {0, 1} BY PlayerAssumption DEF PlayerTracks
<1>2. CASE t = NTracks
  <2>1. t % NTracks = 0 BY <1>1, <1>2
  <2> QED BY <1>1, <1>2, <2>1 DEF NextTrack, PlayerTracks
<1>3. CASE t # NTracks
  <2>1. t % NTracks = t BY <1>1, <1>3
  <2> QED BY <1>1, <1>3, <2>1 DEF NextTrack, PlayerTracks
<1> QED BY <1>2, <1>3

LEMMA StaleRow ==
  ASSUME NEW r \in JobRows
  PROVE  /\ [r EXCEPT !.fresh = FALSE] \in JobRows
         /\ [r EXCEPT !.fresh = FALSE].track = r.track /\ ~[r EXCEPT !.fresh = FALSE].fresh
BY DEF JobRows

(* What loadTrack appends, and what it makes of the jobs before it. *)
LEMMA QueuedRows ==
  ASSUME NEW q \in Seq(JobRows), NEW t \in PlayerTracks, NEW p \in BOOLEAN
  PROVE  /\ Queued(t, p, q) \in Seq(JobRows) /\ Queued(t, p, q) # <<>>
         /\ Len(Queued(t, p, q)) = Len(q) + 1
         /\ Queued(t, p, q)[Len(q) + 1].track = t /\ Queued(t, p, q)[Len(q) + 1].play = p
         /\ Queued(t, p, q)[Len(q) + 1].fresh
         /\ \A i \in 1..Len(q) :
              Queued(t, p, q)[i].track = q[i].track /\ ~Queued(t, p, q)[i].fresh
<1> DEFINE stale == [i \in DOMAIN q |-> [q[i] EXCEPT !.fresh = FALSE]]
           new == [NoJob EXCEPT !.pc = "queued", !.track = t, !.play = p]
<1>1. \A i \in 1..Len(q) :
        /\ stale[i] \in JobRows
        /\ stale[i].track = q[i].track /\ ~stale[i].fresh
  <2>1. SUFFICES ASSUME NEW i \in 1..Len(q)
                 PROVE  stale[i] \in JobRows /\ stale[i].track = q[i].track /\ ~stale[i].fresh
    OBVIOUS
  <2>2. q[i] \in JobRows /\ i \in DOMAIN q OBVIOUS
  <2>3. stale[i] = [q[i] EXCEPT !.fresh = FALSE] BY <2>2
  <2> QED BY <2>2, <2>3, StaleRow
<1>2. stale \in Seq(JobRows) /\ Len(stale) = Len(q)
  <2>1. DOMAIN stale = 1..Len(q) OBVIOUS
  <2>2. stale \in [1..Len(q) -> JobRows] BY <1>1, <2>1
  <2> QED BY <2>1, <2>2
<1>4. new \in JobRows /\ new.track = t /\ new.play = p /\ new.fresh
  BY DEF JobRows, NoJob, Selections
<1>5. Queued(t, p, q) = Append(stale, new) BY DEF Queued
<1> HIDE DEF stale, new
<1> QED BY <1>1, <1>2, <1>4, <1>5

LEMMA PlayerStarts == PlayerInit => PlayerInv
<1>1. ASSUME PlayerInit PROVE PlayerTypeOK
  <2>1. jobs \in Seq(JobRows) BY <1>1 DEF PlayerInit
  <2> QED BY <1>1, <2>1 DEF PlayerInit, PlayerTypeOK, Selections, JobRows, NoJob, NoPlayer,
         NoSwap, Players
<1>2. ASSUME PlayerInit PROVE SelectionFits /\ JobsFit /\ JobFits /\ FadeFits
  BY <1>2 DEF PlayerInit, SelectionFits, JobsFit, JobFits, FadeFits, Busy, NoJob
<1>3. ASSUME PlayerInit PROVE IdleFits /\ EngineFits
  BY <1>3 DEF PlayerInit, IdleFits, EngineFits, Busy, NoJob
<1> QED BY <1>1, <1>2, <1>3 DEF PlayerInv

(* A call of loadTrack by the subscriber: the selection waits, all else is *)
(* stale.                                                                  *)
LEMMA LoadQueued ==
  ASSUME PlayerTypeOK, JobsFit, NEW t \in PlayerTracks, NEW p \in BOOLEAN,
         jobs' = Queued(t, p, jobs), job' = Outdated(job)
  PROVE  /\ jobs' \in Seq(JobRows) /\ jobs' # <<>> /\ Len(jobs') = Len(jobs) + 1
         /\ \A i \in 1..Len(jobs') :
              jobs'[i].track \in PlayerTracks /\ (jobs'[i].fresh <=> i = Len(jobs'))
         /\ Latest'.track = t /\ Latest'.play = p
         /\ job' \in JobRows /\ job'.pc = job.pc /\ job'.track = job.track
         /\ job'.play = job.play /\ job'.fresh = (job.pc = "none")
<1>1. jobs \in Seq(JobRows) /\ job \in JobRows BY DEF PlayerTypeOK
<1>2. \A i \in 1..Len(jobs) : jobs[i].track \in PlayerTracks BY DEF JobsFit
<1>3. /\ jobs' \in Seq(JobRows) /\ jobs' # <<>> /\ Len(jobs') = Len(jobs) + 1
      /\ jobs'[Len(jobs) + 1].track = t /\ jobs'[Len(jobs) + 1].play = p
      /\ jobs'[Len(jobs) + 1].fresh
      /\ \A i \in 1..Len(jobs) : jobs'[i].track = jobs[i].track /\ ~jobs'[i].fresh
  <2>1. PICK q \in Seq(JobRows) : q = jobs BY <1>1
  <2>2. jobs' = Queued(t, p, q) BY <2>1
  <2> QED BY <2>1, <2>2, QueuedRows
<1>4. \A i \in 1..Len(jobs') :
        jobs'[i].track \in PlayerTracks /\ (jobs'[i].fresh <=> i = Len(jobs'))
  <2>1. Len(jobs) \in Nat BY <1>1
  <2>2. \A i \in 1..(Len(jobs) + 1) : i \in 1..Len(jobs) \/ i = Len(jobs) + 1 BY <2>1
  <2> QED BY <1>2, <1>3, <2>1, <2>2
<1>5. Latest'.track = t /\ Latest'.play = p BY <1>3 DEF Latest
<1>6. /\ job' \in JobRows /\ job'.pc = job.pc /\ job'.track = job.track
      /\ job'.play = job.play /\ job'.fresh = (job.pc = "none")
  BY <1>1 DEF Outdated, JobRows
<1> QED BY <1>3, <1>4, <1>5, <1>6

(* A play or a pause that is not lost sets the player there is. *)
LEMMA CommandedRows ==
  ASSUME player \in Players, NEW p \in BOOLEAN, Commanded(p)
  PROVE  /\ player' \in Players /\ player'.track = player.track /\ unheeded' \in BOOLEAN
         /\ ~unheeded' /\ player.track # NoTrack => player'.paused = p
<1>1. /\ player' \in {player, [player EXCEPT !.paused = p \/ player.track = NoTrack]}
      /\ unheeded' = (player.track # NoTrack /\ player'.paused # p)
  BY DEF Commanded
<1>2. player' \in Players /\ player'.track = player.track
  BY <1>1 DEF Players
<1>3. player'.paused \in BOOLEAN BY <1>2 DEF Players
<1> QED BY <1>1, <1>2, <1>3

LEMMA PlayedRows ==
  ASSUME player \in Players, EnginePlay
  PROVE  /\ player' \in Players /\ player'.track = player.track /\ unheeded' \in BOOLEAN
         /\ ~unheeded' /\ player.track # NoTrack => player'.paused = FALSE
         /\ outgoing' = outgoing
<1>1. PICK p \in BOOLEAN : p = FALSE OBVIOUS
<1>2. Commanded(p) /\ outgoing' = outgoing BY <1>1 DEF EnginePlay
<1> QED BY <1>1, <1>2, CommandedRows

LEMMA PausedRows ==
  ASSUME player \in Players, EnginePause
  PROVE  /\ player' \in Players /\ player'.track = player.track /\ unheeded' \in BOOLEAN
         /\ ~unheeded' /\ player.track # NoTrack => player'.paused = TRUE
         /\ outgoing' = "none"
<1>1. PICK p \in BOOLEAN : p = TRUE OBVIOUS
<1>2. Commanded(p) /\ outgoing' = "none" BY <1>1 DEF EnginePause
<1> QED BY <1>1, <1>2, CommandedRows

LEMMA StoppedRows ==
  ASSUME player \in Players, EngineStop PROVE player' \in Players /\ outgoing' = "none"
<1>1. player' \in {NoPlayer, [player EXCEPT !.watched = FALSE]} /\ outgoing' = "none"
  BY DEF EngineStop
<1>2. NoPlayer \in Players BY DEF NoPlayer, Players, Selections
<1>3. [player EXCEPT !.watched = FALSE] \in Players BY DEF Players
<1> QED BY <1>1, <1>2, <1>3

Stores == [sel : Selections, playing : BOOLEAN]
Windows == [cur : Selections, loading : Selections, key : Selections, has : BOOLEAN, fade : BOOLEAN]

(* The subscriber after a click: the window's variables stay. *)
LEMMA SelectionStep ==
  ASSUME PlayerInv, NoMicrotask, NEW s \in Stores, s.sel # NoTrack, UNCHANGED swap,
         s.playing \/ s.sel = store.sel, StoreChanges(s, js)
  PROVE  PlayerInv'
<1> USE DEF PlayerInv
<1>1. /\ s.sel \in PlayerTracks /\ s.playing \in BOOLEAN
      /\ ~js.fade
  <2>1. jobs = <<>> => Len(jobs) = 0 OBVIOUS
  <2>2. ~js.fade BY <2>1 DEF FadeFits, NoMicrotask, Busy
  <2> QED BY <2>2 DEF Stores, Selections
<1>2. CASE TrackChanged(s, js) \/ (s.playing /\ ~store.playing /\ ~js.has)
  <2>1. /\ store' = s /\ js' = js /\ jobs' = Queued(s.sel, s.playing, jobs) /\ job' = Outdated(job)
        /\ UNCHANGED engineVars
    BY <1>2 DEF StoreChanges
  <2>2. PlayerTypeOK' BY <1>1, <2>1, LoadQueued DEF PlayerTypeOK, Stores, engineVars
  <2>3. SelectionFits' BY <2>1 DEF SelectionFits
  <2>4. JobsFit' BY <1>1, <2>1, LoadQueued DEF JobsFit
  <2>5. JobFits' BY <1>1, <1>2, <2>1, LoadQueued DEF JobFits, Busy, TrackChanged, PlayerTypeOK
  <2>6. FadeFits' BY <1>1, <2>1 DEF FadeFits
  <2>7. IdleFits' BY <1>1, <2>1, LoadQueued DEF IdleFits
  <2>8. EngineFits' BY <1>1, <2>1, LoadQueued DEF EngineFits, Busy, engineVars, JobFits
  <2> QED BY <2>2, <2>3, <2>4, <2>5, <2>6, <2>7, <2>8
<1>3. CASE ~(TrackChanged(s, js) \/ (s.playing /\ ~store.playing /\ ~js.has))
  <2>1. /\ store' = s /\ UNCHANGED <<js, jobs, job, displaced>>
        /\ IF s.playing = store.playing THEN UNCHANGED <<player, outgoing, unheeded>>
           ELSE IF s.playing THEN EnginePlay ELSE EnginePause
    BY <1>3 DEF StoreChanges
  <2>0. /\ player' \in Players /\ player'.track = player.track /\ unheeded' \in BOOLEAN
        /\ outgoing' \in {"none", outgoing}
        /\ s.playing = store.playing => UNCHANGED <<player, unheeded>>
        /\ s.playing # store.playing /\ ~unheeded' /\ player.track # NoTrack =>
             player'.paused = ~s.playing
    <3>1. player \in Players /\ unheeded \in BOOLEAN BY DEF PlayerTypeOK
    <3>2. CASE s.playing = store.playing BY <2>1, <3>1, <3>2
    <3>3. CASE s.playing # store.playing /\ s.playing BY <2>1, <3>1, <3>3, PlayedRows
    <3>4. CASE s.playing # store.playing /\ ~s.playing BY <2>1, <3>1, <3>4, PausedRows
    <3> QED BY <1>1, <3>2, <3>3, <3>4
  <2>2. PlayerTypeOK' BY <1>1, <2>0, <2>1 DEF PlayerTypeOK, Stores
  <2>3. SelectionFits' BY <2>1 DEF SelectionFits, Busy
  <2>4. JobsFit' BY <1>1, <1>3, <2>1 DEF JobsFit, Latest, TrackChanged, JobFits, NoMicrotask,
          Busy, PlayerTypeOK
  <2>5. JobFits' BY <1>1, <1>3, <2>1 DEF JobFits, Busy, Latest, TrackChanged, PlayerTypeOK
  <2>6. FadeFits' BY <1>1, <2>1 DEF FadeFits
  <2>7. IdleFits' BY <1>1, <1>3, <2>1 DEF IdleFits, Busy, TrackChanged, SelectionFits
  <2>8. EngineFits' BY <1>1, <1>3, <2>0, <2>1 DEF EngineFits, Busy, TrackChanged, NoMicrotask,
          PlayerTypeOK, Stores, IdleFits
  <2> QED BY <2>2, <2>3, <2>4, <2>5, <2>6, <2>7, <2>8
<1> QED BY <1>2, <1>3

(* The advance when nothing loads: the window's flags change, and the next *)
(* track is always queued.                                                 *)
LEMMA AdvanceStep ==
  ASSUME PlayerInv, NoMicrotask, NEW s \in Stores, s.sel # NoTrack, s.playing, UNCHANGED swap,
         NEW j, StoreChanges(s, j), js.loading = NoTrack, store.sel # NoTrack,
         \/ j = [js EXCEPT !.has = FALSE]
         \/ j = [js EXCEPT !.fade = TRUE] /\ js.has /\ s.sel # js.key
  PROVE  PlayerInv'
<1> USE DEF PlayerInv
<1>1. s.sel \in PlayerTracks /\ s.playing = TRUE BY DEF Stores, Selections
<1>2. ~Busy /\ jobs = <<>> /\ Len(jobs) = 0
  BY PlayerAssumption DEF JobFits, PlayerTracks, NoMicrotask, Busy
<1>3. /\ j \in Windows /\ j.loading = NoTrack /\ j.key = js.key
      /\ j.fade => js.has /\ j.has /\ s.sel # j.key
      /\ ~j.has \/ s.sel # j.key
  <2>1. ~js.fade BY <1>2 DEF FadeFits
  <2> QED BY <2>1 DEF PlayerTypeOK, Windows
<1>4. js' = j /\ store' = s /\ jobs' = Queued(s.sel, TRUE, jobs) /\ job' = Outdated(job)
      /\ UNCHANGED engineVars
  BY <1>1, <1>3 DEF StoreChanges, TrackChanged
<1>5. PlayerTypeOK' BY <1>1, <1>3, <1>4, LoadQueued DEF PlayerTypeOK, Stores, Windows, engineVars
<1>6. SelectionFits'
  <2>1. j.has => js.has BY DEF PlayerTypeOK
  <2> QED BY <1>3, <1>4, <2>1 DEF SelectionFits
<1>7. JobsFit' BY <1>1, <1>4, LoadQueued DEF JobsFit
<1>8. JobFits' BY <1>1, <1>2, <1>4, LoadQueued DEF JobFits, Busy
<1>9. FadeFits'
  <2>1. Len(jobs') = 1 /\ Latest'.track = s.sel /\ Latest'.play = TRUE /\ job'.pc = "none"
    <3>1. Len(jobs') = Len(jobs) + 1 /\ Latest'.track = s.sel /\ Latest'.play = TRUE
          /\ job'.pc = job.pc
      BY <1>1, <1>4, LoadQueued
    <3> QED BY <1>2, <3>1 DEF Busy
  <2>2. js.key = store.sel /\ (~displaced => player.track = js.key)
    BY <1>2, <1>3 DEF IdleFits, EngineFits
  <2> QED BY <1>3, <1>4, <2>1, <2>2 DEF FadeFits, Busy, engineVars
<1>10. IdleFits' BY <1>1, <1>4, LoadQueued DEF IdleFits
<1>11. EngineFits' BY <1>1, <1>2, <1>4, LoadQueued DEF EngineFits, Busy, engineVars
<1> QED BY <1>5, <1>6, <1>7, <1>8, <1>9, <1>10, <1>11

(* The steps of the window. *)
LEMMA WindowSteps ==
  ASSUME PlayerInv, TogglePlay \/ OnEnded \/ CrossfadeAdvance \/ \E t \in PlayerTracks : Select(t)
  PROVE  PlayerInv'
<1> USE DEF PlayerInv
<1>1. store \in Stores /\ js \in Windows BY DEF PlayerTypeOK, Stores, Windows
<1>2. ASSUME NEW t \in PlayerTracks, Select(t) PROVE PlayerInv'
  <2>1. PICK s : s = [sel |-> t, playing |-> TRUE] OBVIOUS
  <2>2. s \in Stores /\ s.sel # NoTrack /\ s.playing
    BY <2>1, PlayerAssumption DEF Stores, Selections, PlayerTracks
  <2>3. NoMicrotask /\ UNCHANGED swap /\ StoreChanges(s, js) BY <1>2, <2>1 DEF Select
  <2> QED BY <2>2, <2>3, SelectionStep
<1>3. CASE TogglePlay
  <2>1. PICK s : s = [store EXCEPT !.playing = ~@] OBVIOUS
  <2>2. s \in Stores /\ s.sel # NoTrack /\ s.sel = store.sel
    BY <1>1, <1>3, <2>1 DEF Stores, TogglePlay
  <2>3. NoMicrotask /\ UNCHANGED swap /\ StoreChanges(s, js) BY <1>3, <2>1 DEF TogglePlay
  <2> QED BY <2>2, <2>3, SelectionStep
<1>4. CASE OnEnded
  <2>1. CASE js.loading # NoTrack \/ store.sel = NoTrack
    <3>1. UNCHANGED <<store, js, jobs, job, engineVars, swap>> BY <1>4, <2>1 DEF OnEnded
    <3> QED BY <3>1 DEF PlayerTypeOK, SelectionFits, JobsFit, JobFits, FadeFits, IdleFits,
          EngineFits, Busy, Latest, engineVars
  <2>2. CASE js.loading = NoTrack /\ store.sel # NoTrack
    <3>1. store.sel \in PlayerTracks BY <1>1, <2>2 DEF Stores, Selections
    <3>2. NextTrack(store.sel) \in PlayerTracks BY <3>1, NextIsATrack
    <3>3. PICK s : s = [sel |-> NextTrack(store.sel), playing |-> TRUE] OBVIOUS
    <3>4. s \in Stores /\ s.sel # NoTrack /\ s.playing
      BY <3>2, <3>3, PlayerAssumption DEF Stores, Selections, PlayerTracks
    <3>5. PICK j : j = [js EXCEPT !.has = FALSE] OBVIOUS
    <3>6. NoMicrotask /\ UNCHANGED swap /\ StoreChanges(s, j) BY <1>4, <2>2, <3>3, <3>5 DEF OnEnded
    <3> QED BY <2>2, <3>4, <3>5, <3>6, AdvanceStep
  <2> QED BY <2>1, <2>2
<1>5. CASE CrossfadeAdvance
  <2>1. js.has /\ js.loading = NoTrack /\ NoMicrotask /\ UNCHANGED swap
    BY <1>5 DEF CrossfadeAdvance
  <2>2. ~Busy /\ jobs = <<>>
    BY <2>1, PlayerAssumption DEF JobFits, PlayerTracks, NoMicrotask, Busy
  <2>3. store.sel # NoTrack /\ js.key = store.sel BY <2>1, <2>2 DEF IdleFits
  <2>4. store.sel \in PlayerTracks BY <1>1, <2>3 DEF Stores, Selections
  <2>5. NextTrack(store.sel) \in PlayerTracks /\ NextTrack(store.sel) # store.sel
    BY <2>4, NextIsATrack
  <2>6. PICK s : s = [sel |-> NextTrack(store.sel), playing |-> TRUE] OBVIOUS
  <2>7. s \in Stores /\ s.sel # NoTrack /\ s.playing /\ s.sel # js.key
    BY <2>1, <2>3, <2>5, <2>6, PlayerAssumption DEF Stores, Selections, PlayerTracks
  <2>8. PICK j : j = [js EXCEPT !.fade = TRUE] OBVIOUS
  <2>9. StoreChanges(s, j) BY <1>5, <2>6, <2>8 DEF CrossfadeAdvance
  <2> QED BY <2>1, <2>3, <2>7, <2>8, <2>9, AdvanceStep
<1> QED BY <1>2, <1>3, <1>4, <1>5

(* A job starts. *)
LEMMA StartSteps == ASSUME PlayerInv, StartLoad PROVE PlayerInv'
<1> USE DEF PlayerInv
<1>1. PICK h : h = Head(jobs) OBVIOUS
<1>2. PICK q : q = Tail(jobs) OBVIOUS
<1>3. PICK f : f = (js.fade /\ js.has /\ js.cur # h.track) OBVIOUS
<1>4. /\ h \in JobRows /\ h = jobs[1] /\ h.track \in PlayerTracks /\ h.track # NoTrack
      /\ h.fresh = (Len(jobs) = 1) /\ (Len(jobs) = 1 => h = Latest)
  <2>1. jobs \in Seq(JobRows) /\ jobs # <<>> BY DEF PlayerTypeOK, StartLoad
  <2>2. h = jobs[1] /\ 1 \in 1..Len(jobs) BY <1>1, <2>1
  <2>3. h \in JobRows BY <2>1, <2>2
  <2>4. h.fresh \in BOOLEAN BY <2>3 DEF JobRows
  <2> QED BY <2>2, <2>3, <2>4, PlayerAssumption DEF JobsFit, Latest, PlayerTracks
<1>5. /\ q \in Seq(JobRows) /\ Len(q) = Len(jobs) - 1 /\ Len(jobs) \in Nat /\ Len(jobs) >= 1
      /\ \A i \in 1..Len(q) : q[i] = jobs[i + 1] /\ i + 1 \in 1..Len(jobs)
      /\ (q = <<>>) = (Len(jobs) = 1) /\ (q # <<>> => q[Len(q)] = Latest)
  <2>1. jobs \in Seq(JobRows) /\ jobs # <<>> BY DEF PlayerTypeOK, StartLoad
  <2>2. /\ q \in Seq(JobRows) /\ Len(q) = Len(jobs) - 1 /\ Len(jobs) \in Nat /\ Len(jobs) >= 1
        /\ \A i \in 1..Len(q) : q[i] = jobs[i + 1]
    BY <1>2, <2>1
  <2> QED BY <2>2 DEF Latest
<1>6. \A i \in 1..Len(q) : q[i].track \in PlayerTracks /\ (q[i].fresh <=> i = Len(q))
  BY <1>5 DEF JobsFit
<1>7. /\ store \in Stores /\ store.sel \in PlayerTracks /\ store.sel # NoTrack
      /\ f \in BOOLEAN /\ job.pc = "none"
      /\ f => js.fade /\ js.has /\ Len(jobs) = 1 /\ h.track = store.sel /\ h.play = TRUE
           /\ (~displaced => player.track = js.key)
  BY <1>3, <1>4 DEF PlayerTypeOK, Stores, Selections, StartLoad, FadeFits, SelectionFits
<1>8. /\ js' = [js EXCEPT !.cur = h.track, !.loading = h.track, !.fade = FALSE, !.has = f /\ @]
      /\ IF f THEN UNCHANGED <<player, outgoing>> ELSE EngineStop
      /\ job' = [h EXCEPT !.pc = "fetching", !.fade = f,
                          !.fresh = @ /\ ~(store.sel # h.track)]
      /\ jobs' = IF store.sel # h.track THEN Queued(store.sel, store.playing, q) ELSE q
      /\ UNCHANGED <<store, swap, displaced, unheeded>>
  BY <1>1, <1>2, <1>3 DEF StartLoad
<1>9. /\ js' \in Windows /\ js'.loading = h.track /\ js'.fade = FALSE /\ js'.has = f
      /\ js'.key = js.key
  BY <1>4, <1>7, <1>8 DEF PlayerTypeOK, Windows, JobRows
<1>10. /\ job' \in JobRows /\ job'.pc = "fetching" /\ job'.track = h.track /\ job'.play = h.play
       /\ job'.fresh = (Len(jobs) = 1 /\ store.sel = h.track)
  BY <1>4, <1>7, <1>8 DEF JobRows
<1>11. /\ jobs' \in Seq(JobRows)
       /\ \A i \in 1..Len(jobs') :
            jobs'[i].track \in PlayerTracks /\ (jobs'[i].fresh <=> i = Len(jobs'))
       /\ (jobs' = <<>>) = (Len(jobs) = 1 /\ store.sel = h.track)
       /\ store.sel # h.track =>
            Latest'.track = store.sel /\ Latest'.play = store.playing
       /\ store.sel = h.track /\ jobs' # <<>> => Latest' = Latest
  <2>1. CASE store.sel = h.track BY <1>5, <1>6, <1>8, <2>1 DEF Latest
  <2>2. CASE store.sel # h.track
    <3>1. PICK s \in Stores : s = store BY <1>7
    <3>2. jobs' = Queued(s.sel, s.playing, q) BY <1>8, <2>2, <3>1
    <3>3. s.sel \in PlayerTracks /\ s.playing \in BOOLEAN BY <1>7, <3>1 DEF Stores
    <3>4. /\ jobs' \in Seq(JobRows) /\ jobs' # <<>> /\ Len(jobs') = Len(q) + 1
          /\ jobs'[Len(q) + 1].track = s.sel /\ jobs'[Len(q) + 1].play = s.playing
          /\ jobs'[Len(q) + 1].fresh
          /\ \A i \in 1..Len(q) : jobs'[i].track = q[i].track /\ ~jobs'[i].fresh
      BY <1>5, <3>2, <3>3, QueuedRows
    <3>5. \A i \in 1..(Len(q) + 1) : i \in 1..Len(q) \/ i = Len(q) + 1 BY <1>5
    <3> QED BY <1>5, <1>6, <2>2, <3>1, <3>3, <3>4, <3>5 DEF Latest
  <2> QED BY <2>1, <2>2
<1>12. PlayerTypeOK'
  <2>1. player' \in Players
        /\ outgoing' \in {"none", "waiting", "fading"}
    <3>1. player \in Players BY DEF PlayerTypeOK
    <3> QED BY <1>7, <1>8, <3>1, StoppedRows DEF PlayerTypeOK
  <2> QED BY <1>8, <1>9, <1>10, <1>11, <2>1 DEF PlayerTypeOK, Windows
<1>13. SelectionFits' BY <1>7, <1>8, <1>9 DEF SelectionFits
<1>14. JobsFit'
  <2>1. jobs # <<>> BY <1>5
  <2> QED BY <1>8, <1>11, <2>1 DEF JobsFit
<1>15. JobFits' BY <1>4, <1>5, <1>7, <1>8, <1>9, <1>10, <1>11 DEF JobFits, JobsFit, Busy
<1>16. FadeFits' BY <1>9 DEF FadeFits
<1>17. IdleFits' BY <1>10 DEF IdleFits, Busy
<1>18. EngineFits'
  <2>1. ~f => outgoing' = "none" BY <1>8, StoppedRows DEF PlayerTypeOK
  <2> QED BY <1>7, <1>8, <1>9, <1>10, <2>1 DEF EngineFits, Busy, FadeFits
<1> QED BY <1>12, <1>13, <1>14, <1>15, <1>16, <1>17, <1>18

(* The job between its start and its end. *)
LEMMA LoadSteps == ASSUME PlayerInv, StaleLoad \/ Fetched \/ Built \/ AfterLoad PROVE PlayerInv'
<1> USE DEF PlayerInv
<1>1. /\ job \in JobRows /\ NoJob \in JobRows /\ NoJob.pc = "none"
      /\ NoPlayer \in Players
  BY DEF PlayerTypeOK, JobRows, NoJob, NoPlayer, Players, Selections
<1>2. CASE StaleLoad
  <2>1. /\ Busy /\ job.pc # "building" /\ jobs # <<>> /\ job' = NoJob
        /\ UNCHANGED <<store, js, jobs, player, outgoing, displaced, unheeded, swap>>
    BY <1>2 DEF StaleLoad, JobFits, Busy, engineVars
  <2>2. PlayerTypeOK' BY <1>1, <2>1 DEF PlayerTypeOK
  <2>3. SelectionFits' /\ JobsFit' /\ JobFits' /\ IdleFits'
    BY <1>1, <2>1 DEF SelectionFits, JobsFit, JobFits, IdleFits, Busy, Latest
  <2>4. FadeFits' /\ EngineFits'
    BY <1>1, <2>1 DEF FadeFits, EngineFits, JobFits, Busy, Latest
  <2> QED BY <2>2, <2>3, <2>4
<1>3. CASE Fetched
  <2>1. /\ job.pc = "fetching" /\ job' = [job EXCEPT !.pc = "building"]
        /\ outgoing' \in {"waiting", "none"} /\ player' = NoPlayer
        /\ UNCHANGED <<store, js, jobs, displaced, unheeded, swap>>
    BY <1>3 DEF Fetched
  <2>2. /\ job' \in JobRows /\ job'.pc = "building" /\ job'.track = job.track
        /\ job'.play = job.play /\ job'.fresh = job.fresh
    BY <1>1, <2>1 DEF JobRows
  <2>3. PlayerTypeOK' BY <1>1, <2>1, <2>2 DEF PlayerTypeOK
  <2>4. SelectionFits' /\ JobsFit' /\ JobFits' /\ IdleFits'
    BY <2>1, <2>2 DEF SelectionFits, JobsFit, JobFits, IdleFits, Busy, Latest
  <2>5. FadeFits' /\ EngineFits' BY <2>1, <2>2 DEF FadeFits, EngineFits, JobFits, Busy
  <2> QED BY <2>3, <2>4, <2>5
<1>4. CASE Built
  <2>1. /\ job.pc = "building" /\ job' = [job EXCEPT !.pc = "loaded"]
        /\ player' = [track |-> job.track, paused |-> ~job.play, watched |-> TRUE]
        /\ outgoing' = IF outgoing = "waiting" THEN "fading" ELSE outgoing
        /\ displaced' = FALSE /\ unheeded' = FALSE
        /\ UNCHANGED <<store, js, jobs, swap>>
    BY <1>4 DEF Built
  <2>2. /\ job' \in JobRows /\ job'.pc = "loaded" /\ job'.track = job.track
        /\ job'.play = job.play /\ job'.fresh = job.fresh
        /\ player' \in Players /\ player'.track = job.track
    BY <1>1, <2>1 DEF JobRows, Players
  <2>3. PlayerTypeOK' BY <1>1, <2>1, <2>2 DEF PlayerTypeOK
  <2>4. SelectionFits' /\ JobsFit' /\ JobFits' /\ IdleFits'
    BY <2>1, <2>2 DEF SelectionFits, JobsFit, JobFits, IdleFits, Busy, Latest
  <2>5. FadeFits' /\ EngineFits' BY <2>1, <2>2 DEF FadeFits, EngineFits, JobFits, Busy
  <2> QED BY <2>3, <2>4, <2>5
<1>5. CASE AfterLoad
  <2>1. /\ Busy /\ job.pc = "loaded" /\ job.fresh /\ jobs = <<>> /\ job' = NoJob
        /\ store.sel # NoTrack /\ ~js.fade /\ job.track # NoTrack /\ jobs' = <<>>
        /\ UNCHANGED swap
    BY <1>5, PlayerAssumption DEF AfterLoad, JobFits, SelectionFits, Busy, PlayerTracks
  <2>2. CASE store.sel = job.track
    <3>1. /\ js' = [Released(js) EXCEPT !.has = TRUE, !.key = job.track]
          /\ store' = [store EXCEPT !.playing = @ \/ job.play]
          /\ IF job.play THEN EnginePlay ELSE EnginePause
          /\ displaced' = displaced
      BY <1>5, <2>2 DEF AfterLoad, PlayerTypeOK
    <3>2. /\ js' \in Windows /\ js'.has /\ js'.key = job.track /\ js'.loading = NoTrack
          /\ js'.fade = js.fade
      BY <1>1, <3>1 DEF Released, PlayerTypeOK, Windows, JobRows, Selections
    <3>3. /\ store' \in Stores /\ store'.sel = store.sel /\ store'.playing = job.play
      BY <1>1, <2>1, <2>2, <3>1 DEF PlayerTypeOK, Stores, JobFits, JobRows
    <3>4. /\ player' \in Players /\ player'.track = player.track /\ unheeded' \in BOOLEAN
          /\ ~unheeded' /\ player.track # NoTrack => player'.paused = ~job.play
          /\ outgoing' \in {"none", outgoing}
      <4>1. player \in Players BY DEF PlayerTypeOK
      <4>2. CASE job.play BY <3>1, <4>1, <4>2, PlayedRows
      <4>3. CASE ~job.play BY <3>1, <4>1, <4>3, PausedRows
      <4> QED BY <4>2, <4>3
    <3>5. PlayerTypeOK'
      BY <1>1, <2>1, <3>1, <3>2, <3>3, <3>4 DEF PlayerTypeOK, Windows, Stores, JobRows
    <3>6. SelectionFits' /\ JobsFit' /\ JobFits' /\ IdleFits' /\ FadeFits'
      BY <1>1, <2>1, <2>2, <3>2, <3>3
      DEF SelectionFits, JobsFit, JobFits, IdleFits, FadeFits, Busy
    <3>7. EngineFits'
      BY <1>1, <2>1, <2>2, <3>1, <3>2, <3>3, <3>4 DEF EngineFits, Busy, JobRows
    <3> QED BY <3>5, <3>6, <3>7
  <2>3. CASE store.sel # job.track
    <3>1. js' = Released(js) /\ UNCHANGED <<store, player, outgoing, unheeded>>
          /\ js.has /\ store.sel = js.key /\ displaced' = TRUE
      BY <1>5, <2>1, <2>3 DEF AfterLoad, JobFits
    <3>2. /\ js' \in Windows /\ js'.has /\ js'.key = js.key /\ js'.loading = NoTrack
          /\ js'.fade = js.fade
      BY <3>1 DEF Released, PlayerTypeOK, Windows, Selections
    <3>3. PlayerTypeOK' BY <1>1, <2>1, <3>1, <3>2 DEF PlayerTypeOK, Windows
    <3>4. SelectionFits' /\ JobsFit' /\ JobFits' /\ IdleFits' /\ FadeFits'
      BY <1>1, <2>1, <3>1, <3>2
      DEF SelectionFits, JobsFit, JobFits, IdleFits, FadeFits, Busy
    <3>5. EngineFits' BY <1>1, <2>1, <3>1 DEF EngineFits, Busy
    <3> QED BY <3>3, <3>4, <3>5
  <2> QED BY <2>2, <2>3
<1> QED BY <1>2, <1>3, <1>4, <1>5

(* A load that fails. *)
LEMMA FailSteps == ASSUME PlayerInv, LoadFails PROVE PlayerInv'
<1> USE DEF PlayerInv
<1>1. /\ job \in JobRows /\ NoJob \in JobRows /\ NoJob.pc = "none"
      /\ Busy /\ job.pc \in {"fetching", "building"} /\ job' = NoJob /\ UNCHANGED swap
      /\ store.sel # NoTrack /\ ~js.fade
  BY DEF PlayerTypeOK, JobRows, NoJob, Selections, LoadFails, Busy, SelectionFits, JobFits
<1>2. CASE ~job.fresh
  <2>1. jobs # <<>> /\ UNCHANGED <<store, js, jobs, player, outgoing, displaced, unheeded>>
    BY <1>1, <1>2 DEF LoadFails, JobFits, engineVars
  <2>2. PlayerTypeOK' BY <1>1, <2>1 DEF PlayerTypeOK
  <2>3. SelectionFits' /\ JobsFit' /\ JobFits' /\ IdleFits' /\ FadeFits'
    BY <1>1, <2>1 DEF SelectionFits, JobsFit, JobFits, IdleFits, FadeFits, Busy, Latest
  <2>4. EngineFits' BY <1>1, <2>1 DEF EngineFits, Busy
  <2> QED BY <2>2, <2>3, <2>4
<1>3. CASE job.fresh
  <2>1. PICK s : s = [store EXCEPT !.playing = FALSE] OBVIOUS
  <2>2. PICK j : j = Released(js) OBVIOUS
  <2>3. /\ store' = s /\ js' = j
        /\ IF TrackChanged(s, j)
             THEN jobs' = Queued(s.sel, FALSE, jobs) /\ UNCHANGED engineVars
             ELSE /\ EnginePause /\ UNCHANGED jobs
                  /\ displaced' = (displaced \/ job.pc = "building")
    BY <1>3, <2>1, <2>2 DEF LoadFails
  <2>4. /\ s \in Stores /\ s.sel = store.sel /\ s.playing = FALSE /\ s.sel \in PlayerTracks
        /\ j \in Windows /\ j.loading = NoTrack /\ j.key = js.key /\ j.has = js.has
        /\ j.fade = FALSE
    BY <1>1, <2>1, <2>2 DEF Released, PlayerTypeOK, Stores, Windows, Selections
  <2>5. jobs = <<>> /\ jobs \in Seq(JobRows) BY <1>1, <1>3 DEF JobFits, PlayerTypeOK
  <2>6. CASE TrackChanged(s, j)
    <3>1. jobs' = Queued(s.sel, FALSE, jobs) /\ UNCHANGED engineVars BY <2>3, <2>6
    <3>2. PICK q \in Seq(JobRows) : q = jobs BY <2>5
    <3>3. /\ jobs' \in Seq(JobRows) /\ jobs' # <<>> /\ Len(jobs') = 1
          /\ jobs'[1].track = s.sel /\ jobs'[1].fresh
      <4>1. jobs' = Queued(s.sel, FALSE, q) /\ Len(q) = 0 BY <2>5, <3>1, <3>2
      <4>2. PICK p \in BOOLEAN : p = FALSE OBVIOUS
      <4>3. jobs' = Queued(s.sel, p, q) BY <4>1, <4>2
      <4>4. jobs' \in Seq(JobRows) /\ jobs' # <<>> /\ Len(jobs') = Len(q) + 1
            /\ jobs'[Len(q) + 1].track = s.sel /\ jobs'[Len(q) + 1].fresh
        BY <2>4, <3>2, <4>3, QueuedRows
      <4>5. Len(q) + 1 = 1 BY <4>1
      <4> QED BY <4>4, <4>5
    <3>4. PlayerTypeOK'
      BY <1>1, <2>3, <2>4, <3>1, <3>3 DEF PlayerTypeOK, Windows, Stores, engineVars
    <3>5. SelectionFits' /\ JobsFit' /\ JobFits' /\ IdleFits' /\ FadeFits'
      BY <1>1, <2>3, <2>4, <3>3
      DEF SelectionFits, JobsFit, JobFits, IdleFits, FadeFits, Busy, Latest
    <3>6. EngineFits' BY <1>1, <2>3, <2>4, <3>1, <3>3 DEF EngineFits, Busy, engineVars
    <3> QED BY <3>4, <3>5, <3>6
  <2>7. CASE ~TrackChanged(s, j)
    <3>1. /\ EnginePause /\ UNCHANGED jobs
          /\ displaced' = (displaced \/ job.pc = "building")
      BY <2>3, <2>7
    <3>2. js.has /\ js.key = store.sel BY <1>1, <2>4, <2>7 DEF TrackChanged
    <3>3. /\ player' \in Players /\ player'.track = player.track /\ unheeded' \in BOOLEAN
          /\ ~unheeded' /\ player.track # NoTrack => player'.paused = TRUE
          /\ outgoing' = "none"
      BY <3>1, PausedRows DEF PlayerTypeOK
    <3>4. PlayerTypeOK'
      BY <1>1, <2>3, <2>4, <3>1, <3>3 DEF PlayerTypeOK, Windows, Stores
    <3>5. SelectionFits' /\ JobsFit' /\ JobFits' /\ IdleFits' /\ FadeFits'
      BY <1>1, <2>3, <2>4, <2>5, <3>1, <3>2
      DEF SelectionFits, JobsFit, JobFits, IdleFits, FadeFits, Busy
    <3>6. EngineFits' BY <1>1, <2>3, <2>4, <2>5, <3>1, <3>2, <3>3 DEF EngineFits, Busy
    <3> QED BY <3>4, <3>5, <3>6
  <2> QED BY <2>6, <2>7
<1> QED BY <1>1, <1>2, <1>3 DEF JobRows

(* The engine's own steps: an end, a fade, a swap, a device. *)
LEMMA EngineSteps ==
  ASSUME PlayerInv, TrackEnds \/ FadeOver \/ SwapBegin \/ SwapStep \/ SwitchDevice
  PROVE  PlayerInv'
<1> USE DEF PlayerInv
<1>1. UNCHANGED <<store, js, jobs, job>>
  BY DEF TrackEnds, FadeOver, SwapBegin, SwapStep, SwapSample, SwapCommit, SwitchDevice
<1>2. /\ player' \in Players
      /\ displaced' \in BOOLEAN /\ unheeded' \in BOOLEAN
      /\ outgoing' \in {"none", outgoing}
      /\ swap' \in [pc : {"none", "reading", "building"}, track : Selections, paused : BOOLEAN]
      /\ ~displaced' => ~displaced /\ player'.track = player.track
      /\ ~displaced' /\ ~unheeded' => ~unheeded /\ player'.paused = player.paused
  <2>1. CASE TrackEnds BY <2>1 DEF TrackEnds, engineVars, PlayerTypeOK
  <2>2. CASE FadeOver BY <2>2 DEF FadeOver, PlayerTypeOK
  <2>3. CASE SwapBegin BY <2>3 DEF SwapBegin, PlayerTypeOK, NoSwap
  <2>4. CASE SwapSample
    BY <2>4 DEF SwapSample, PlayerTypeOK, NoSwap, engineVars, Players, Selections
  <2>5. CASE SwapCommit BY <2>5 DEF SwapCommit, PlayerTypeOK, NoSwap, Players, Selections
  <2>6. CASE SwitchDevice BY <2>6 DEF SwitchDevice, PlayerTypeOK, NoPlayer, Players, Selections
  <2> QED BY <2>1, <2>2, <2>3, <2>4, <2>5, <2>6 DEF SwapStep
<1>3. PlayerTypeOK' BY <1>1, <1>2 DEF PlayerTypeOK
<1>4. SelectionFits' /\ JobsFit' /\ JobFits' /\ IdleFits'
  BY <1>1 DEF SelectionFits, JobsFit, JobFits, IdleFits, Busy, Latest
<1>5. FadeFits' BY <1>1, <1>2 DEF FadeFits, Busy, Latest
<1>6. EngineFits' BY <1>1, <1>2 DEF EngineFits, Busy
<1> QED BY <1>3, <1>4, <1>5, <1>6

(* When nothing is on its way the engine plays the selection as the store  *)
(* shows it, whatever was clicked, failed or faded before (audio.ts        *)
(* loadTrackWork and the store's subscriber, engine.rs): not after a swap, *)
(* a device switch or a return during a fade took the player (displaced),  *)
(* and the pause state not when the last command met a taken lock.         *)
THEOREM SelectionSounds == PlayerSpec => []SettledAgrees
<1>1. PlayerInv /\ [PlayerNext]_playerVars => PlayerInv'
  <2>1. ASSUME PlayerInv, PlayerNext PROVE PlayerInv'
    BY <2>1, WindowSteps, StartSteps, LoadSteps, FailSteps, EngineSteps DEF PlayerNext, LoadStep
  <2>2. ASSUME PlayerInv, UNCHANGED playerVars PROVE PlayerInv'
    BY <2>2 DEF PlayerInv, PlayerTypeOK, SelectionFits, JobsFit, JobFits, FadeFits, IdleFits,
       EngineFits, Busy, Latest, playerVars
  <2> QED BY <2>1, <2>2
<1>2. PlayerInv => SettledAgrees
  BY DEF PlayerInv, IdleFits, EngineFits, SettledAgrees, Settled, PlaysSelected, PauseAgrees,
     NoEcho, Busy, NoJob
<1> QED BY <1>1, <1>2, PlayerStarts, PTL DEF PlayerSpec
=============================================================================
