------------------------------- MODULE Waves -------------------------------
(***************************************************************************)
(* The recommendations of the backend: the home, artist and similar waves, *)
(* the tail of a queue and the search by text.  A request collects         *)
(* clusters of tracks, one query after the other, keeps out what the user  *)
(* has heard or dislikes, and drops what the storage does not have         *)
(* (S3VerifierService::find_missing and the marks it leaves in             *)
(* indexed_tracks), while the user goes on listening and the storage goes  *)
(* on changing.  What a vector search finds is any set of tracks; scores   *)
(* and the order they give are left out.                                   *)
(***************************************************************************)
EXTENDS Naturals, FiniteSets

CONSTANTS Visits,           \* requests the backend serves at a time
          Tunes,          \* the rows of indexed_tracks
          PrimaryOf,      \* the primary artists of a track
          Poor,           \* the tracks below QUALITY_THRESHOLD
          InStorage,      \* the files there are at first
          PerCluster,     \* per_cluster, and the limit of a tail
          PlayedLimit,    \* plays that load_user_signals and the tail look back to
          DislikeLimit,   \* LIMIT of the query for the dislikes
          TailMin,         \* verified tracks a tail needs (5 in the code)
          MaxTaste,       \* bound: plays and dislikes
          MaxStorage,     \* bound: files that come or go
          MaxDbFaults     \* bound: queries that fail

ASSUME WavesAssumption ==
  /\ PrimaryOf \in [Tunes -> SUBSET UNION {PrimaryOf[t] : t \in Tunes}]
  /\ Poor \subseteq Tunes /\ InStorage \subseteq Tunes
  /\ {PerCluster, PlayedLimit, DislikeLimit, TailMin} \subseteq Nat \ {0}
  /\ {MaxTaste, MaxStorage, MaxDbFaults} \subseteq Nat

VARIABLES wave,           \* the requests
          heard,          \* the tracks of user_events
          dislikes,       \* disliked_tracks
          mark,           \* s3_verified_at and s3_missing_at of a track
          present,        \* the files in the storage
          wasPresent,     \* history: the files there have ever been
          tastes, moves, dbFaults
waveVars == <<wave, heard, dislikes, mark, present, wasPresent, tastes, moves, dbFaults>>
userVars == <<heard, dislikes, tastes>>
fileVars == <<present, wasPresent, moves>>

(* ban: exclude_set; taken and shown: the ClusterBuilder; rest: what        *)
(* take_verified has not come to; todo, found, missing: find_missing;       *)
(* hated, known: history, the dislikes when they were loaded and whether    *)
(* the query got them; loose: history, tracks that are not verified.        *)
NoWave == [kind |-> "none", pc |-> "idle", ban |-> {}, taken |-> {}, shown |-> {}, rest |-> {},
           batch |-> {}, todo |-> {}, found |-> {}, missing |-> {}, predicted |-> {},
           modes |-> FALSE, centroid |-> FALSE, hated |-> {}, known |-> TRUE, loose |-> {}]

WavesInit ==
  /\ wave = [r \in Visits |-> NoWave]
  /\ heard = {} /\ dislikes = {} /\ tastes = 0
  /\ mark = [t \in Tunes |-> "new"]
  /\ present = InStorage /\ wasPresent = InStorage /\ moves = 0 /\ dbFaults = 0

Only(r, kind, pc) == wave[r].kind = kind /\ wave[r].pc = pc
Set(r, w, pc) == wave' = [wave EXCEPT ![r] = [w EXCEPT !.pc = pc]]
DbFails == dbFaults < MaxDbFaults /\ dbFaults' = dbFaults + 1
DbFine == UNCHANGED dbFaults
Reads == UNCHANGED <<userVars, mark, fileVars>>

(* reserve, push; a cluster is at most per_cluster tracks. *)
Reserve(w, ts) == [w EXCEPT !.taken = @ \cup ts]
Pushed(w, ts) == [w EXCEPT !.taken = @ \cup ts, !.shown = @ \cup ts]
Cluster(ts) == {c \in SUBSET ts : Cardinality(c) <= PerCluster}
Latest(ts, n) == {c \in SUBSET ts : Cardinality(c) = IF Cardinality(ts) < n THEN Cardinality(ts) ELSE n}

-----------------------------------------------------------------------------
(* The home wave. *)

StartHome(r) ==
  /\ wave[r] = NoWave /\ Set(r, [NoWave EXCEPT !.kind = "home"], "signals") /\ Reads /\ DbFine

(* load_user_signals: the events, then the dislikes, whose query may fail   *)
(* unnoticed.  Without any signal the wave is a cold start.                *)
Signals(r, plays, hates, known) ==
  LET w == [wave[r] EXCEPT !.ban = plays \cup hates, !.hated = dislikes, !.known = known] IN
  IF plays \cup hates = {} THEN Set(r, w, "cold") ELSE Set(r, w, "contexts")
LoadSignals(r) ==
  /\ Only(r, "home", "signals") /\ Reads
  /\ \/ \E plays \in Latest(heard, PlayedLimit), hates \in Latest(dislikes, DislikeLimit) :
          Signals(r, plays, hates, TRUE) /\ DbFine
     \/ \E plays \in Latest(heard, PlayedLimit) : Signals(r, plays, {}, FALSE) /\ DbFails
     \/ wave' = [wave EXCEPT ![r] = NoWave] /\ DbFails

(* What the search starts from: the modes of the taste, k-means over the    *)
(* vectors of the tracks that were liked or played, if there are any; the  *)
(* session of the last two hours; the hour of the day.                     *)
TasteModes(w) == IF w.ban = {} THEN {FALSE} ELSE BOOLEAN
SessionContext == IF heard = {} THEN {FALSE} ELSE BOOLEAN
HourContext == IF heard = {} THEN {FALSE} ELSE BOOLEAN
MixCentroids(m, s, h) == m \/ s \/ h
Contexts(r) ==
  /\ Only(r, "home", "contexts") /\ Reads /\ DbFine
  /\ LET w == Reserve(wave[r], wave[r].ban) IN
     \E m \in TasteModes(w), s \in SessionContext, h \in HourContext :
       Set(r, [w EXCEPT !.modes = m, !.centroid = MixCentroids(m, s, h)], "foryou")

(* What a vector search finds: any tracks the filter lets through, none     *)
(* when it fails.                                                          *)
Found(out) == SUBSET (Tunes \ out)

(* cold_start_pool: fresh and popular tracks by turns. *)
ColdStart(r) ==
  /\ Only(r, "home", "cold") /\ Reads /\ DbFine
  /\ \E c \in Cluster(Tunes) : Set(r, Pushed(wave[r], c), "quality")

(* build_for_you_cluster: a search for each mode of the user's taste,      *)
(* filtered by the excluded tracks, without those near to what is skipped, *)
(* picked in turns.                                                        *)
FilterAgainstAnti(pool) == SUBSET pool
ForYou(r) ==
  /\ Only(r, "home", "foryou") /\ Reads /\ DbFine
  /\ IF ~wave[r].modes THEN Set(r, wave[r], "top")
     ELSE \E pool \in Found(wave[r].ban) : \E near \in FilterAgainstAnti(pool) :
            \E c \in Cluster(near) : Set(r, Pushed(wave[r], c), "top")

(* The query of the artists' clusters ranks a track that is taken last, and *)
(* takes the first of each artist.                                         *)
By(a) == {t \in Tunes : a \in PrimaryOf[t]}
Ranked(a, out) == IF By(a) \ out # {} THEN By(a) \ out ELSE By(a)
Makers == UNION {PrimaryOf[t] : t \in Tunes}
OnePerArtist(out) ==
  UNION {{raw \in [as -> Tunes] : \A a \in as : raw[a] \in Ranked(a, out)} : as \in Cluster(Makers)}

(* Mutant: only artists are looked at, not tracks. *)
DedupeArtists(raw, taken) == {raw[a] : a \in DOMAIN raw}

DedupeNeighbors(raw, taken) == {raw[a] : a \in DOMAIN raw} \ taken

NeighborCluster(r, pc, next) ==
  /\ Only(r, "home", pc) /\ Reads /\ DbFine
  /\ \E raw \in OnePerArtist(wave[r].taken) :
       Set(r, Pushed(wave[r], DedupeNeighbors(raw, wave[r].taken)), next)
TopArtists(r) == NeighborCluster(r, "top", "adjacent")
AdjacentArtists(r) == NeighborCluster(r, "adjacent", "fresh")

FreshDrops(r) ==
  /\ Only(r, "home", "fresh") /\ Reads /\ DbFine
  /\ \E c \in Cluster(Tunes \ wave[r].taken) : Set(r, Pushed(wave[r], c), "vibe")

(* rerank_multi splits what it is given at no less than its limit: with a  *)
(* shorter list it panics, and the request has no answer.                  *)
Panics(pool) == pool # {} /\ Cardinality(pool) < PerCluster

(* build_vibe_and_deep: one search, a cluster of its tracks, and a second  *)
(* of those that are left.                                                 *)
VibeAndDeep(r) ==
  /\ Only(r, "home", "vibe") /\ Reads /\ DbFine
  /\ \E pool \in IF wave[r].centroid THEN Found(wave[r].ban) ELSE {{}} :
       LET free == pool \ wave[r].taken IN
       IF Panics(free) THEN wave' = [wave EXCEPT ![r] = NoWave]
       ELSE \E vibe \in Cluster(free) :
              IF Panics(free \ vibe) THEN wave' = [wave EXCEPT ![r] = NoWave]
              ELSE \E deep \in Cluster(free \ vibe) : Set(r, Pushed(wave[r], vibe \cup deep), "quality")

(* What a wave goes on with once its clusters are built. *)
Built(w, ts) ==
  [NoWave EXCEPT !.kind = w.kind, !.shown = ts, !.batch = ts, !.hated = w.hated, !.known = w.known]

(* apply_quality_filter: when its query fails, no track has a row and all  *)
(* of them are dropped.                                                    *)
QualityFilter(r) ==
  /\ Only(r, "home", "quality") /\ Reads
  /\ \/ Set(r, Built(wave[r], wave[r].shown \ Poor), "marks") /\ DbFine
     \/ Set(r, Built(wave[r], {}), "marks") /\ DbFails

-----------------------------------------------------------------------------
(* The artist wave and the similar wave: the queries run side by side, the *)
(* clusters are built from what they found.                                *)

(* Around the artist's tracks; a track of each related artist. *)
DeepCluster(a) == Cluster(Tunes \ By(a))
RelatedArtists == OnePerArtist({})
ArtistWave(r, a) ==
  /\ wave[r] = NoWave /\ Reads /\ DbFine
  /\ \E essence \in Cluster(By(a)), vibe \in DeepCluster(a), deep \in DeepCluster(a),
        raw \in RelatedArtists :
       /\ By(a) # {}
       /\ LET start == [Reserve(NoWave, By(a)) EXCEPT !.kind = "artist"]
              first == Pushed(Pushed(start, essence), vibe)
              near  == Pushed(first, {raw[m] : m \in DOMAIN raw} \ first.taken)
              whole == Pushed(near, deep \ near.taken) IN
          Set(r, Built(whole, whole.shown), "marks")

(* The artist's other tracks, tracks that sound alike, what is played by    *)
(* who plays this one, and the artists featured with it.                   *)
SameArtist(t) == Cluster((UNION {By(a) : a \in PrimaryOf[t]}) \ {t})
VibePool(t) == Cluster(Tunes \ {t})
FeaturedWith(t) == OnePerArtist({t})
SimilarWave(r, t) ==
  /\ wave[r] = NoWave /\ Reads /\ DbFine
  /\ \E same \in SameArtist(t), vibe \in VibePool(t), fans \in VibePool(t), raw \in FeaturedWith(t) :
       LET start == [Reserve(NoWave, {t}) EXCEPT !.kind = "similar"]
           first == Pushed(start, same)
           other == Pushed(first, vibe \ first.taken)
           near  == Pushed(other, {raw[m] : m \in DOMAIN raw} \ other.taken)
           whole == Pushed(near, fans \ near.taken) IN
       Set(r, Built(whole, whole.shown), "marks")

-----------------------------------------------------------------------------
(* find_missing: what is marked as missing is not asked for again while the *)
(* mark is young (MISS_TTL), what is verified is not asked for at all.      *)

(* Mutant: a young mark only saves the HEAD. *)
BelievedNone(batch) == {}

Believed(batch) == {t \in batch : mark[t] = "miss"}

ReadMarks(r) ==
  /\ wave[r].pc = "marks" /\ Reads /\ DbFine
  /\ LET w == wave[r] IN
     Set(r, [w EXCEPT !.missing = Believed(w.batch), !.found = {},
                      !.todo = {t \in w.batch : mark[t] \in {"new", "old"}}], "probe")

(* A HEAD that times out is an answer: not there. *)
Probe(r, t) ==
  /\ wave[r].pc = "probe" /\ t \in wave[r].todo /\ Reads /\ DbFine
  /\ LET w == wave[r] IN
     \/ t \in present /\ Set(r, [w EXCEPT !.todo = @ \ {t}, !.found = @ \cup {t}], "probe")
     \/ Set(r, [w EXCEPT !.todo = @ \ {t}, !.missing = @ \cup {t}], "probe")

(* The two UPDATEs. *)
MarkFound(r) ==
  /\ wave[r].pc = "probe" /\ wave[r].todo = {}
  /\ mark' = [t \in Tunes |-> IF t \in wave[r].found THEN "ok" ELSE mark[t]]
  /\ Set(r, wave[r], "absent") /\ DbFine /\ UNCHANGED <<userVars, fileVars>>
Absent(r) == wave[r].missing \ Believed(wave[r].batch)
MarkAbsent(r) ==
  /\ wave[r].pc = "absent"
  /\ mark' = [t \in Tunes |-> IF t \in Absent(r) THEN "miss" ELSE mark[t]]
  /\ Set(r, [wave[r] EXCEPT !.found = {}], IF wave[r].kind \in {"tail", "search"} THEN "verified" ELSE "drop")
  /\ DbFine /\ UNCHANGED <<userVars, fileVars>>

(* A query of find_missing fails: a wave goes on as if nothing was missing, *)
(* the tail and the search give up.                                        *)
FindFails(r) ==
  /\ wave[r].pc \in {"marks", "probe", "absent"} /\ Reads /\ DbFails
  /\ IF wave[r].kind \in {"tail", "search"} THEN wave' = [wave EXCEPT ![r] = NoWave]
     ELSE Set(r, [wave[r] EXCEPT !.missing = {}, !.loose = wave[r].shown], "drop")

DropMissing(r) ==
  /\ wave[r].pc = "drop" /\ Reads /\ DbFine
  /\ Set(r, [wave[r] EXCEPT !.shown = @ \ wave[r].missing, !.batch = {}, !.missing = {}], "answer")

-----------------------------------------------------------------------------
(* The tail of the queue, from a track that is playing. *)

(* Four queries: the plays keep out, the dislikes keep out, the seed too.  *)
StartTail(r, seed) ==
  /\ wave[r] = NoWave /\ Reads /\ DbFine
  /\ \E plays \in Latest(heard, PlayedLimit), hates \in Latest(dislikes, DislikeLimit) :
       Set(r, [NoWave EXCEPT !.kind = "tail", !.ban = plays \cup hates \cup {seed},
                             !.taken = plays \cup {seed}, !.hated = dislikes], "sequence")

(* sequential_next_pool excludes the session it is given, the plays and the *)
(* seed, and nothing else; nor is what it finds verified.                  *)
SequencePool(r) ==
  /\ Only(r, "tail", "sequence") /\ Reads /\ DbFine
  /\ \E c \in SUBSET (Tunes \ wave[r].taken) :
       Cardinality(c) <= 2 * PerCluster /\ Set(r, [wave[r] EXCEPT !.predicted = c], "pool")

(* wave_fusion: the candidates of the arms (collaborative, taste, anchor)   *)
(* and of the artists played along, those with a score, reranked and capped *)
(* by artist.                                                              *)
CandidatePool(w) == Found(w.ban)
CoplayArm(w) ==
  IF heard \cup w.taken = {} THEN {{}}
  ELSE {(UNION {By(a) : a \in co}) \ w.ban : co \in SUBSET Makers}
Scored(pool) == SUBSET pool
ArtistCap(items) == SUBSET items
Fusion(r) ==
  /\ Only(r, "tail", "pool") /\ Reads /\ DbFine
  /\ \E pool \in CandidatePool(wave[r]), along \in CoplayArm(wave[r]) :
       IF pool \cup along = {} THEN Set(r, wave[r], "fallback")
       ELSE \E scored \in Scored(pool \cup along) : \E kept \in ArtistCap(scored) :
              Set(r, [wave[r] EXCEPT !.rest = kept], "verify")

SearchText(r) ==
  /\ wave[r] = NoWave /\ Reads /\ DbFine
  /\ \E pool \in Found({}) : Set(r, [NoWave EXCEPT !.kind = "search", !.rest = pool], "verify")

(* take_verified: batch by batch until the limit. *)
TakeVerified(r) ==
  /\ wave[r].pc = "verify" /\ Reads /\ DbFine
  /\ LET w == wave[r] IN
     IF w.rest # {} /\ Cardinality(w.shown) < PerCluster
     THEN \E b \in Latest(w.rest, PerCluster) : Set(r, [w EXCEPT !.batch = b, !.rest = @ \ b], "marks")
     ELSE Set(r, w, IF w.kind = "search" THEN "answer"
                    ELSE IF Cardinality(w.shown) >= TailMin THEN "merge" ELSE "fallback")
Verified(r) ==
  /\ wave[r].pc = "verified" /\ Reads /\ DbFine
  /\ LET w == wave[r] IN
     \E c \in Latest(w.batch \ w.missing, PerCluster - Cardinality(w.shown)) :
       Set(r, [w EXCEPT !.shown = @ \cup c, !.batch = {}, !.missing = {}], "verify")

(* get_fallback_tracks: the tracks indexed last, not excluded, not verified. *)
Fallback(r) ==
  /\ Only(r, "tail", "fallback") /\ Reads
  /\ \/ DbFine /\ \E c \in Cluster(Tunes \ wave[r].ban) :
                    Set(r, [wave[r] EXCEPT !.shown = c, !.loose = c], "merge")
     \/ DbFails /\ wave' = [wave EXCEPT ![r] = NoWave]

(* By turns from the predicted tracks and the fusion, up to the limit. *)
Merge(r) ==
  /\ Only(r, "tail", "merge") /\ Reads /\ DbFine
  /\ LET w == wave[r] IN
     \E p \in SUBSET w.predicted, f \in SUBSET w.shown :
       /\ Cardinality(p \cup f) <= PerCluster /\ (w.predicted = {} => f = w.shown)
       /\ Set(r, [w EXCEPT !.shown = p \cup f, !.predicted = p, !.loose = @ \cup p], "answer")

Answer(r) ==
  /\ wave[r].pc = "answer" /\ wave' = [wave EXCEPT ![r] = NoWave]
  /\ Reads /\ DbFine

-----------------------------------------------------------------------------
(* The user, the storage and time. *)

(* EventsService::record; DislikesService::add records an event too. *)
Taste(hs, ds) ==
  /\ tastes < MaxTaste /\ tastes' = tastes + 1 /\ heard' = hs /\ dislikes' = ds
  /\ UNCHANGED <<wave, mark, fileVars, dbFaults>>
RecordEvent(t) == t \notin heard /\ Taste(heard \cup {t}, dislikes)
Dislike(t) == t \notin dislikes /\ Taste(heard \cup {t}, dislikes \cup {t})
RemoveDislike(t) == t \in dislikes /\ Taste(heard, dislikes \ {t})

(* A file comes, and storage.track_uploaded marks the row; a file goes, and *)
(* nobody tells.                                                           *)
FileComes(t) ==
  /\ moves < MaxStorage /\ moves' = moves + 1 /\ t \notin present
  /\ present' = present \cup {t} /\ wasPresent' = wasPresent \cup {t}
  /\ UNCHANGED <<wave, userVars, mark, dbFaults>>
HearUploaded(t) ==
  /\ t \in wasPresent \ InStorage /\ mark[t] # "ok" /\ mark' = [mark EXCEPT ![t] = "ok"]
  /\ UNCHANGED <<wave, userVars, fileVars, dbFaults>>
FileGoes(t) ==
  /\ moves < MaxStorage /\ moves' = moves + 1 /\ t \in present
  /\ present' = present \ {t} /\ UNCHANGED <<wasPresent, wave, userVars, mark, dbFaults>>
MarkAges(t) ==
  /\ mark[t] = "miss" /\ mark' = [mark EXCEPT ![t] = "old"]
  /\ UNCHANGED <<wave, userVars, fileVars, dbFaults>>

Outside == \E t \in Tunes :
  RecordEvent(t) \/ Dislike(t) \/ RemoveDislike(t) \/ FileComes(t) \/ HearUploaded(t)
    \/ FileGoes(t) \/ MarkAges(t)
Begin(r) ==
  \/ StartHome(r) \/ SearchText(r) \/ (\E a \in Makers : ArtistWave(r, a))
  \/ \E t \in Tunes : SimilarWave(r, t) \/ StartTail(r, t)
HomeStep(r) ==
  LoadSignals(r) \/ Contexts(r) \/ ColdStart(r) \/ ForYou(r) \/ TopArtists(r) \/ AdjacentArtists(r)
    \/ FreshDrops(r) \/ VibeAndDeep(r) \/ QualityFilter(r)
FindStep(r) ==
  ReadMarks(r) \/ (\E t \in Tunes : Probe(r, t)) \/ MarkFound(r) \/ MarkAbsent(r) \/ FindFails(r) \/ DropMissing(r)
TailStep(r) ==
  SequencePool(r) \/ Fusion(r) \/ TakeVerified(r) \/ Verified(r) \/ Fallback(r) \/ Merge(r) \/ Answer(r)

WavesNext == Outside \/ \E r \in Visits : Begin(r) \/ HomeStep(r) \/ FindStep(r) \/ TailStep(r)
WavesSpec == WavesInit /\ [][WavesNext]_waveVars

-----------------------------------------------------------------------------
(* Properties. *)

(* What the user disliked before he asked is not put before him by the home *)
(* wave or the tail of a queue, the two that read the dislikes, whichever  *)
(* cluster it could come by: but for a user with more dislikes than the    *)
(* query's LIMIT, dislikes lost as the query failed, and what the sequence *)
(* model predicts, from which only the plays are kept out.  (The artist    *)
(* and similar waves and the search do not look at the dislikes.)          *)
UnwantedStaysOut ==
  \A r \in Visits :
    LET w == wave[r] IN
    (w.kind \in {"home", "tail"} /\ w.pc = "answer" /\ w.known /\ Cardinality(w.hated) <= DislikeLimit)
      => w.hated \cap w.shown \subseteq w.predicted

(* What is shown has been in the storage: marks, probes and uploads that   *)
(* cross never let a track through that no file was ever there for, but    *)
(* for the answers that are not verified (loose).                          *)
ShownWasPresent ==
  \A r \in Visits : wave[r].pc = "answer" => wave[r].shown \subseteq wasPresent \cup wave[r].loose
=============================================================================
