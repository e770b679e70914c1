# Verification of SoundCloud Desktop

TLA+ models of the parts of this repository whose correctness depends on the order in
which several actors take their steps, the TLC configurations that check them on small
instances, and TLAPS proofs of what matters most for every instance. Paths below are
relative to the repository root; `x.rs:10` names a line, `b/` stands for
`backend/src/modules/`.

Contents: 1 the system, 2 the modules, 3 state and actions against the code, 4 the runs,
5 bounds, fairness and deadlock, 6 what is proved, 7 what is not modelled, 8 how to run it
and what could come next.

## 1. The system

| Part | State it keeps | Operations | Talks to |
|---|---|---|---|
| `desktop/` (React + Tauri) | player queue, load generation, query cache, audio files on disk and the map of downloads | play, skip, like, cache, import | backend (HTTP), streaming, audio engine (Tauri commands and events) |
| `backend/` (axum) | Postgres: sessions, login and link requests, mirrors of the user's likes/follows/playlists, sync queue, indexed tracks, shared caches, wanted tracks, lyrics, events and tastes, aggregates; Redis: list cache, locks; in memory: a mutex per session, list and user | the API, periodic tasks, NATS consumers | SoundCloud, Postgres, Redis, NATS, Qdrant, streaming, storage |
| `streaming/` | rows of `cdn_tracks`, the anonymous client id, a circuit breaker | fallback chain of stream sources, background upload, clean-up | SoundCloud, storage |
| `storage/` | temporary directory and its byte counter, batches, writer pool, one file per track | upload, transcode, commit, delete | streaming (HTTP), NATS |
| `worker/` (Python) | none | embeddings, transcription, trainings | NATS, storage, Qdrant |
| `admin/`, `utils/` | none worth modelling | web form; TLS, decryption, packet handling | |

How they interact where it is hard:

* **Optimistic writes.** A like is written to the user's mirror row and queued in
  `sync_queue`; every backend process runs a flush once a minute that claims rows, calls
  SoundCloud, settles the mirror and deletes the row. Requests, flushes of several
  processes, failures, retries, dropped flushes and a *cold refresh*, which pages through
  SoundCloud's list and merges it into the mirror and the shared caches, all touch the same
  tables with single statements.
* **Sessions.** Every request may find its access token stale and refresh it. SoundCloud's
  refresh tokens are good once, so refreshes of a session are serialised by a mutex held in
  a cache; sign-in, logout and device linking change the same rows without it. A sign-in
  itself may go through several OAuth applications, each with a page of its own.
* **Caches.** A page of a list is loaded from Redis, extended from SoundCloud and saved
  under a mutex of the process, while other requests invalidate it without one. Rows of
  users, tracks and playlists are served whatever their age and refreshed behind the answer.
* **Uploads.** A handler of `storage/` reserves the bytes of its temporary file in an atomic
  counter, writes them, hands the file to the pipeline and waits for its answer; batching,
  transcoding, writing and publishing are tasks of their own that outlive the handler.
* **Media.** A track goes from discovery over streaming, storage, NATS and the worker to
  `indexed_at`, with at-least-once delivery and a reaper that starts it again; enrichment,
  crawls and lyrics follow it with claims, back-offs and reapers of their own.
* **Listening.** Likes and plays move a user's average taste under a per-user lock, as soon
  as the worker has the track's vectors; the waves of recommendations read taste, plays,
  dislikes and the storage's files while all of them change.
* **The desktop.** Clicks, answers of the audio engine, quality upgrades and device switches
  meet in one player; requests for one track share one download and wait for its leader.

What is hard to test in this code, at its lines, is the `hazards` list of `PROJECT.json`;
the properties of section 4 are aimed at it, and its notes say what they exempt.

## 2. Modules

| Module | Models | Extends |
|---|---|---|
| `SyncQueue` | the outbox: `enqueue`'s two statements, `flush` row by row, `record_failure`, `run_periodic`'s timeout, clocks of locks and backoffs | |
| `LikesSync` | `mirror.rs` (`set_wanted`, `clear_wanted` as SELECT then write), the like/unlike/follow actions and their confirmations | `SyncQueue` |
| `LikeView` | abstract: the switch a user sees | |
| `LikesRefresh` | `refresh_collection` for the three wanted-state tables, its pages, chunks, orphans and Redis lock | `LikesSync` |
| `PlaylistSync` | playlists and comments through the queue, the user's own playlists and their refresh | `SyncQueue` |
| `ColdCache` | the shared rows of users, playlists and tracks: `get_by_id`, `refresh_*`, `ensure_collection`, the eviction, the owner's writes | |
| `Sessions` | token refresh, the lock cache, sign-in, logout, `LinkService::claim` | |
| `SignIn` | login requests over several OAuth applications, their callbacks and retries; link requests and their claims | |
| `ListCache` | `get_page` with its mutex, its extension by chunks, invalidation and expiry | |
| `TmpQuota` | `POST /upload` up to the pipeline: reservations, counter, rescan, every way out of the handler | |
| `StoragePipeline` | the lock of a file, batches, ffmpeg permits, writer, `LocalBackend`, answer, event, `DELETE` | `TmpQuota` |
| `Streaming` | the stored copies of the streaming server (look up, verify, upload, clean up) with the circuit breaker; the anonymous client id | |
| `Indexing` | a discovered track's way to its vectors over upload, NATS, worker and reaper | |
| `Enrich` | enrichment of tracks: messages, advisory locks, attempts, back-off | |
| `Catalogue` | the crawl of an artist's discography, the wanted tracks and their resolver | |
| `Lyrics` | lyrics from search or transcription to embedding, and the reapers | |
| `Taste` | events, likes, dislikes and the average taste of one user; the cached collaborative vector | |
| `Waves` | home, artist and similar waves, tails and search, with `S3VerifierService` | |
| `Trainers` | the two trainers with their flags, the cron, quality scores, centroids | |
| `Discover` | the aggregates of artists and albums, their pages by cursor, the spotlight | |
| `TrackCache` | the desktop's audio files: coalesced downloads, the run over the likes, upgrades, eviction | |
| `Player` | the desktop's selection, loading, crossfade, swap and device switch against the audio engine | |
| `SyncQueueProofs`, `LikesSyncProofs`, `SessionsProofs`, `StorageProofs` | theorems about the module of that name (`StorageProofs`: `StoragePipeline` and `TmpQuota`; `LikesSyncProofs`: `LikesRefresh` too) | `SyncQueueProofs` for the likes |
| `CachesProofs` | theorems about `PlaylistSync` and `ColdCache` | `SyncQueueProofs` |
| `AccessProofs` | theorems about `SignIn`, `ListCache`, `Streaming`, `Waves` and `Discover` | |
| `ServicesProofs` | theorems about `Indexing`, `Enrich`, `Catalogue`, `Trainers` and `Taste` | |
| `DesktopProofs` | theorems about `TrackCache` and `Player` | |
| `MCLikesSync`, `MCLikesRefresh`, `MCPlaylistSync`, `MCSessions`, `MCStorage` | symmetry sets and sets of action types for TLC | |
| `MCCaches`, `MCServices`, `MCAccess`, `MCDesktop` | several components in one run | |

The last four put components into one run that share none of the state they keep. Their
variable `part` is chosen at the start and says which component moves; the others stand
still. Each is therefore explored as it would be on its own, under its own fairness; no
interplay is claimed between them. The components that do interact are composed:
`LikesRefresh` is requests, queue, worker and refresh on one mirror, `PlaylistSync` the same
for playlists, `StoragePipeline` the handler of `TmpQuota` with what comes after it.

## 3. State and actions against the code

One action is one statement, one call, or what a task does between two awaits where the
order of tasks can matter. `PROJECT.json`'s `map` names the lines of every definition.

### SyncQueue

`queue` is the table, a function over its unique key (user and target urn are one
`target`); a row has its id, whether it is locked and for how long (`age`), the time to
`next_run_at` (`wait`), `retries` and `payload`. `flush[f]` is the running flush of one
backend process: the rows claimed and left (`batch`), the one in hand (`cur`) and the step
it is at. `handler[h]` is an API request between its statements.

| Action | Code |
|---|---|
| `LocalWrite` | the caller's own table write before it enqueues |
| `CancelInverse`, `NothingToCancel`, `Insert` | `enqueue` (`b/sync_queue/service.rs:98-137`) |
| `Abandon` | the client disconnects or a statement fails |
| `ClaimBatch` | `claim_batch` (161-179); the batch is a set, as RETURNING promises no order |
| `CallOk`, `CallFails`, `CallBlocked` | `execute_one` (181-195) |
| `Confirm`, `ConfirmFails` | the action's statement after the call |
| `DeleteDone`, `RecordFailure`, `RecordBlocked` | 145-151, 197-271, by id, whatever the row has become |
| `Drop` | the 30 s timeout of `run_periodic`, a crash, a failing statement: the future goes, the locks stay |
| `Tick` | time; a flush is never older than `WorkTimeout` |

`SyncQueue` leaves open what the local write, the call and the confirmation do;
`LikesSync` and `PlaylistSync` conjoin their effect to its actions.

### LikesSync, LikesRefresh

`mirror` holds a row per target in one of four combinations (`NoMirror`, `Pending`,
`Synced`, `Unwanted`), `sc` what SoundCloud holds, `seen[h]` what the SELECT of
`clear_wanted` returned. A failing call may have been applied all the same. `Toggling`
restricts requests to those of the app's button (`LikeButton.tsx`): only away from what is
shown, one at a time; `LikesSpec` does without it. The tables for tracks, playlists and
follows work alike; an instance takes one pair of actions.

`LikesRefresh` adds `refresh[r]` (pages left, items seen, items to upsert) and the Redis
`lock`, which is never released and may expire under a running refresh; SoundCloud's list
also changes on its own (`RemoteChange`).

### PlaylistSync, ColdCache

`owned` is `user_owned_playlists`, `remote` SoundCloud's playlists, `made[f]` the urn a
flush has just been given by POST and not yet stored. `asked`, `sent`, `last` and
`crossed` are history variables that the properties use and no action reads, except that
`Nameable` uses `last` to draw a nonce once.

`ColdCache` follows one thing (a playlist; users and tracks go the same ways), its `copy` in
the shared cache (version found, stale or not, when it was last read), its callers between
look-up, Redis lock, GET and upsert, a collection that lists it (`listed`, `synced` being
the age of MAX(synced_at)) and the owner's writes, which the queue settles by dropping the
row. `GetById` serves any row and refreshes a stale one behind the answer;
`EnsureCollection` to `DeleteUnlisted` are `ensure_collection` and `refresh_collection`;
`Evict` is `evict_once`. Nobody deletes the locks' keys: they expire.

### Sessions, SignIn

A *grant* is an authorisation by SoundCloud; `current[g]` is the generation of its refresh
token that SoundCloud accepts. A session row holds grant and generation of its tokens and
the `account` (the user id) its last sign-in wrote. `caller[c]` is a task inside
`get_valid_session`, `refresh_session` or `claim`, statement by statement, with the mutex
it queues for; `cache` is `refresh_locks`. `Evict` is an eviction of the cache (capacity or
idleness). `lost`, `linked`, `raced` and `split` record the exceptions the properties name.

In `SignIn` a login request is its status, the state and application of its current try
and its `retries`; `pages` are all authorize pages ever handed out, any of which may be
finished any number of times (`Callback`), `tasks` the background tasks that exchange the
code, read the profile, store the session and complete, retry with another application or
fail. `claim[c]` is a call of `LinkService::claim` between its check, INSERT and UPDATE.

### ListCache

`cached` is the entry in Redis: its length in chunks, the version of SoundCloud's list its
first chunk shows, and whether a reader was extending it when it was invalidated. `reader[r]`
is a call of `get_page`: lookup, the get-then-insert of the mutex, the reload under it, at
most `MaxChunks` fetches, the save. `Invalidate`, `Expire`, `EvictLock` and `Changes` come at
any time.

### TmpQuota, StoragePipeline

`handler[u]` is where the handler of an upload is, `reserved[u]` its `TmpReservation`,
`source[u]` the size of its file in `source/`, `used` the counter `tmp_used_bytes` with its
wrap-around, `rescan` the directory walk in progress. Sizes count chunks, all of one size.

| Action | Code |
|---|---|
| `Chunk`, `Undo`, `Retry`, `Refuse` | the two `try_add` of a chunk; `fetch_add` and the `fetch_sub` of a refusal are two steps (`upload.rs:30-50`, 135-158) |
| `SkipRescan`, `StartRescan`, `Look`, `FinishRescan`, `WalkFails` | `rescan_tmp_usage` (59-86), one file at a time |
| `Write`, `EndOfFile`, `ReadFails`, `InvalidName`, `IoFails`, `Discard` | the rest of the receiving loop and its exits |
| `Leave`, `Disconnect`, `Restart` | the handler returns, is dropped by the server at an await, dies with the process |

`stage[u]` is where the job of an upload is, `place[u]` where its transcode is (in the result
directory, beside the stored file, nowhere), `batches` the batches that hold a permit,
`stored[f]` the duration of a stored file. `SubmitJob` takes the file's lock, `Dispatch`,
`TooShort`, `BatchOk`, `BatchFails`, `SingleOk`, `SingleFails` are `pipeline.rs`; `KeepExisting`
to `SwapFails` are an attempt of the writer at `LocalBackend::commit_transcode`, statement by
statement (`local.rs`); `CleanSource`, `Tell`, `Unheard` finish the job. `skewed`, `contested`,
`committed` and `announced` are history variables for the properties: no action reads them.

Left out: the channels (taken to be open) and the pool of 64 writers, which limits nothing
here; the S3 and Drive backends, which share the control up to `commit_transcode`; requests
refused before the first byte; a form with several `file` fields.

### Streaming

One track: `cdn` is its row in `cdn_tracks`, `file` whether the storage has it, `streaming`
the stream requests, `uploading` the background uploads, `cleaner` the clean-up task between
its two deletions. `Stream` to `NoStream` are `stream/storage.rs` and the handler around it,
`InsertCdnTrack` to `UpdateFails` the upload with the row's uuid, `FindStale`, `DeleteStale`
the clean-up. Beside it the anonymous API: `BeginAnon`, `AskAnon`, `TakeGate`,
`FetchClientId` are `anon.rs` with its refresh gate.

### Indexing, Enrich, Catalogue, Lyrics

In `Indexing`, `row[s]` is the state of a track in `indexed_tracks`, `looking` and `triggers`
the tasks of track discovery and of `TranscodeTriggerService`, `mail` the messages in NATS
that are not acknowledged, each with its delivery. `StorageUploaded`, `IndexAudio`,
`DoneIndexAudio` handle them, `HandlerFails` and `MessageExpires` are redelivery and giving
up, `Reap` is the reaper with its batch and no ORDER BY.

In `Enrich`, `work[t]` is a track's enrichment row, `handling[p]` what a process is doing
with a message (`ReadRow`, `TryAdvisoryLock`, `Resolve`, `Apply`, `MarkFailed`, `Unlock`),
`locked` the advisory locks with their holders: a lock belongs to the connection it was taken
on, so only its holder lets it go, or the end of that connection, which the holder does not
notice (`LockConnectionLost`). A failure leaves no trace in the row (`MarkFailed`): the error's
text goes into `enrich_source`, which is a `varchar(16)`, so the UPDATE is refused, and its
result is ignored. The attempt is not counted and 'failed' never set; the backfill asks again.

In `Catalogue`, `artist[a]` holds `last_crawled_at`, the attempts and the two offsets,
`crawling[c]` the copy of the row a task works with. `DiscoverPage` gets a page and stores
its wanted rows, `SetCrawlOffset` writes the offset afterwards, `MbFails` and `GeniusFails`
end a phase. `queue` is `wanted_tracks` in the order of `updated_at`; `WantedTick`,
`ResolveOne` are the resolver and its batch.

In `Lyrics`, `entry[t]` is what the row of `indexed_tracks` tells of a track (`TrackInserted`,
`IndexedAt`); `lyrics` is `lyrics_cache` by `created_at`; `ensuring[e]` is a reader's
`ensure_lyrics` (`FindLyrics`, `RunPipeline`), with two rounds of queries to four sources
whose formats and scores are abstracted to what can come out (`SearchAndPick`); `hearing[h]` is
`storage_uploaded`, which returns for an indexed track (`UploadHeard`), and the
`handle_uploaded` it spawns for any other (`AlignWithWhisper`, `FullTranscribe`). `embeds` are
the worker's messages, `ReapWhisper` and `ReapEmbeds` the reapers with their limits; what
`ReapWhisper` orders for an indexed track comes to nothing.

### Taste, Waves, Trainers, Discover

In `Taste`, `rows` is `user_events`, `taste[b][e]` how often event `e` went into the average
of branch `b`, `task[w]` a request, refresh or consumer at one of its awaits (`Record`,
`TakeLock`, `CheckDislike`, `ReadTaste`, `WriteTaste`, `MarkApplied`, ...), `userLock` the
lock in the cache. `wanting` are the tasks `ensure_track_queued_by_id` that are spawned for likes
with nothing to count yet: `EnsureQueued` does nothing for a track that has no row in
`indexed_tracks` (`listed`) or is indexed there. `Indexed` is the worker's report, which
`Consume` and `SetIndexedAt` hear in either order. `ReadLikes` takes the newest `LikesLimit` likes
(`MAX_LIKES`, 50), and `PutCache` caches a mean of their vectors or "none", as the code does for
five minutes when Qdrant fails or has none of them; `DropVector` is `invalidate`.

In `Waves`, `wave[r]` is a request with what it excludes, has taken, has to probe and shows;
its steps are the clusters of `home_wave.rs` (`ForYou`, `TopArtists`, `AdjacentArtists`,
`FreshDrops`, `VibeAndDeep`, ...), of the artist and similar waves, and of a tail
(`SequencePool`, `Fusion`, `TakeVerified`, `Fallback`). `mark[t]` is what the verifier left
in the row; `ReadMarks`, `Probe`, `MarkFound`, `MarkAbsent` are its three phases.

In `Trainers`, `flag[m]` is the `in_progress` of a trainer, `training[s]` a training between
`TryTrain` (compare_exchange), `Build` and `Publish`; `note_event` counts events up to it.
`AdminLeaves` drops an admin's request at an await. `KickOff`, `SelectUnscored`,
`PersistScores`, `RefreshCentroid` are the cron, the backfill and the centroid cache.

In `Discover`, `RefreshAggregates` runs the statements of `refresh_aggregates` one by one
over facts that change; `walk` is a client's walk by cursor with the code's WHERE, ORDER BY
and cursor per sort; `LoadSettings`, `ReadPromoted`, `ReadRows`, `ReadStars` build a spotlight.
An ORDER BY is `InOrder`: any sequence of the rows in which none comes after one it is before,
so level rows come in any order. An artist's tags are the first `MaxTags` of its genres (3 in
the code, 1 in the run: a second genre is then enough to have one left out). The tables begin
with what earlier refreshes, finished or not, may have left; `DiscoverSpec` lets them begin
with anything, the run with the tables of `MCAccess`.

### TrackCache, Player

In `TrackCache`, `active` is the map of downloads, `req[r]` a call of `ensure_cached`
(`LookUp`, then, once it has the map's mutex and without another look for the file, `Lead` or
`Join`; `Listen`, the sources, `NotifyWaiters`, `RemoveActive`), `run[l]`
a call of `cache_likes` with its permit, tasks, drain and flags, `upg[u]` a quality upgrade.
`ClearCache`, `ClearLiked`, `RemoveCached`, `EnforceLimit` and the cancellations are `Upkeep`.

In `Player`, `store` is the Zustand store's selection, `js` the module state of `audio.ts`,
`jobs` and `job` the load pipeline, `player` and `outgoing` the engine's players. `Select`,
`TogglePlay`, `OnEnded` are handlers with the subscriber they trigger; `StartLoad` to
`AfterLoad` are a load at its awaits, `SwapBegin` to `SwapCommit` `audio_swap_source`,
`SwitchDevice` a reopened device. The engine's play, pause and stop only *try* the player's lock,
which the tick thread and other commands take for a moment: each may be lost without an error
(`Commanded`, `EnginePlay`, `EnginePause`, `EngineStop`). A stop that is lost leaves the old
player sounding, no longer `watched` (`has_track` is false).

## 4. What the runs check

| Run | Specification | Properties | Instance |
|---|---|---|---|
| `LikesSync_safety` | any requests | `NoTakeover`, `OnlyHolderRemoves`, `ViewSpec` | 1 track, 2 requests at a time of 3, 2 processes, 3 faults |
| `LikesSync_live` | the app's button, fair | `EventuallyAgree`, `RowsLeave` | 1 user, 1 process, 4 requests, 2 faults |
| `LikesSync_pending` | any requests | `UnconfirmedIsPending`, violated | 1 process, no faults |
| `LikesRefresh_heal` | button and refresh, fair | `ViewHeals` | 2 tracks, pages and chunks of either size, 1 fault or remote change |
| `PlaylistSync` | any requests, refreshes, reads | `RepeatsNeedFaults`, `LastEditArrives`, `DeletedStaysGone`; `OwnWritesShow`, `ColdCatchesUp` | 2 playlists (one to be created), 2 payloads, 1 fault; a shared row, a reader, a list, 1 edit, 1 like, 1 lapse |
| `PlaylistSync_comments` | as above | `CommentsArrive`, violated | two comments on a track |
| `Sessions` | any tasks | `TokenKept`, `AccountTokens`, `SingleFlight` | 2 sessions, 2 grants, 2 concurrent tasks of 3, 1 fault |
| `StoragePipeline` | fair, any requests and faults | `QuotaKept`, `NothingLeft`, `KeepsLonger`, `UploadsSettle` | 2 uploads of one file, 2 chunks, a quota of 1, 2 faults |
| `StoragePipeline_quota` | any requests | `SourceLimit`, violated | 2 uploads, no faults |
| `Desktop` | fair; track cache, player | `OneLeader`, `LikedKept`, `CallsEnd`; `SettledAgrees`, `SelectionLoads` | 1 track, a call, 2 runs, an upgrade, 1 upkeep; 3 tracks, 3 inputs, 1 failure, 2 swaps or switches |
| `Services` | fair; indexing, enrichment, catalogue, lyrics | `KnownGetIndexed`; `EnrichEnds`; `NoPageSkipped`, `WantedGetLinked`; `LyricsTimed` | 2 tracks (one unplayable), 2 deliveries, 2 mishaps; 1 track, 2 processes, 1 publication beside the backfill, 1 crash; 1 artist, 2 crawlers, 2+1 pages, 1 per run; 2 tracks, limits of 2 |
| `Access` | anything; sign-in, links, lists, streaming, waves, taste, trainers, catalogue | `CodeFitsApp`, `OneSignIn`; `NotStale`; `OkMeansStored`; `UnwantedStaysOut`, `ShownWasPresent`; `TasteExact`, `LikesApplied`, `VectorFresh`; `OneTraining`; `AggregatesExact`, `ShownOnce` | 2 applications, 2 claims; 2 readers, 3 chunks; 2 listeners, 7 row ids (the fewest that are never used up); 2 tunes, 1 visit; 2 tasks, 2 events of one track (listed or not), a limit of 1 like; 2 trainings, a trigger of 2; 3 artists, 3 albums, 2 recordings |

What they show:

* `OnlyHolderRemoves`, `NoTakeover`: with two processes and any faults, a row on its way
  to SoundCloud is neither cancelled by the inverse request nor claimed twice by time-out.
  A *re-enqueue* does unlock it, which `NoTakeover` allows (the lock is not expired, it is
  gone) and `LastEditArrives` has to exempt (`crossed`): the payload of an edit that
  arrives while the earlier edit is being sent is lost with the row.
* `ViewSpec`: queue, worker, retries and crashes implement `LikeView`; what the user sees
  changes by his requests only. The cold refresh is not part of that: it changes the view
  by design.
* `EventuallyAgree`, `RowsLeave`: cancelling an inverse action instead of queueing both is
  sound for the app's own button, as long as no call fails. With a failure it is not (a
  like in backoff is retried after a later unlike), and with requests that do not alternate
  it is not either; both premises are stated.
* `ViewHeals`: refreshes repair what stale pages and failures do to the view, except rows
  left with `progress = true` and nothing queued (`Stuck`), and provided one item stays in
  the list: an empty list skips the deletion of orphans.
* `RepeatsNeedFaults`: at-least-once delivery costs at most one repeat per failure, although
  comments and creations are not idempotent. `DeletedStaysGone`: whatever stale page brings
  a deleted playlist back, refreshes that go on remove it for good.
* `OwnWritesShow`: after the queue has settled an edit or a deletion, the shared cache does
  not show the playlist as it was, unless a task stores afterwards what it had fetched
  before (`late`), which for a deleted playlist lasts until the row is evicted.
  `ColdCatchesUp`: what is asked for again and again comes up to date, and a list shows its
  items again after an eviction, although locks are never released, tasks are lost and
  confirmed likes make a list look fresh.
* `TokenKept`, `SingleFlight`: the refresh token survives every interleaving of lazy and
  forced refreshes, with exactly these exceptions: a fault between rotation and UPDATE
  (`lost`), a linked second device (`linked`), a logout, and two mutexes made for one session
  (`split`; get-then-insert in `get_or_create_lock`, or an eviction). `AccountTokens` has
  one: a sign-in that lands on a refresh in flight (`raced`), whose UPDATE then puts the old
  tokens under the new account.
* `CodeFitsApp`, `OneSignIn`: however many pages of however many tries are finished, a code
  goes to the application that issued it, and a login request stores one session. Exempt are
  requests a fault or a clean-up hit under their task, and claims of a link that overlap:
  check, INSERT and UPDATE of `claim` are three statements.
* `NotStale`: a list from before an invalidation is not served after it, except one a
  reader was extending at that moment; nothing in the code prevents that.
* `QuotaKept` (`CounterExact` and `SourceWithinLimit`): reservations alone keep the books
  right through every exit, disconnect and restart, so the rescan has nothing to recover.
  Whenever it lowers the counter without an earlier rescan having done so (`skewed`), it
  takes away bytes that a live handler still holds and will give back itself: the quota is
  handed out twice, and the u64 counter may wrap below zero, after which uploads are refused
  until the next rescan (not before 5 s).
* `KeepsLonger`: the lock of a file makes `should_keep_existing` hold until the rename,
  through deletions and retries, unless a client went away and its job went on without the
  lock, or ffprobe failed (`contested`).
* `NothingLeft`, `UploadsSettle`: each way out of the pipeline removes the
  temporary files, answers, and publishes exactly what was stored. What the
  properties do not forbid is a failed `replace_file`: it removes the staged transcode, so
  the writer's retries have no source and must fail, and if the stored file was removed
  first, both recordings are lost.
* `OkMeansStored`: a row that says ok has its file, but between the clean-up's two deletions
  and after a fault of the storage. Rows that stay pending for ever (an INSERT that meets a
  row returns a uuid the row does not have) are in the model and not forbidden.
* `KnownGetIndexed`, `EnrichEnds`, `WantedGetLinked`, `LyricsTimed`: under loss, repetition,
  crashes and back-off, work that was begun comes to its end. Each assumes that what can
  never succeed does not fill the batch of its reaper or resolver (unplayable tracks, rows
  whose lookup always fails, lyrics whisper never times): such rows keep the head of the
  queue, and enough of them starve all others. `EnrichEnds` is about tracks that a source names:
  the others are asked for again for ever, since their failures are not counted, and
  `enrich_max_attempts` ends nothing. `LyricsTimed` ends where a track is indexed: from then on
  no upload event is looked at, and the orders of the reaper only fill its batch.
* `NoPageSkipped`: crawls that overlap, fail or die leave no page behind the stored offset
  unread. `OneTraining`: trainings of a model do not overlap and the flag comes down with
  them, unless the client of an admin's request left (`abandoned`), after which that model
  is not trained before a restart.
* `UnwantedStaysOut`: whatever cluster of a home wave, or whatever tail, a disliked track could
  come by, it is kept out, but for what `sequential_next_pool` predicts and for dislikes beyond
  the LIMIT of the query or lost with its failure. The artist and similar waves and the search
  do not ask for the dislikes; of them it says nothing. `ShownWasPresent`: what is shown once had its file, though
  probes, marks and uploads cross; a file that was removed later is still shown.
* `TasteExact`, `LikesApplied`, `VectorFresh`: a like goes into the taste once, does not
  wait for a message that has been, and is among the likes the cached vector was computed from,
  if it is one of the newest `MAX_LIKES`. Exempt are users with two locks, events listed as
  pending while another task had them in hand, interruptions between the write and
  `mark_applied`, and a vector put back by an overtaken reader. A like of a track that is not in
  `indexed_tracks` is asked for by nobody and waits until the track is met elsewhere; a
  computation that found no vectors is cached like any other, as "none".
* `AggregatesExact`: after a refresh nothing overtook, the aggregates are what a count gives,
  rows that no longer count for anything included. `ShownOnce`: a walk shows every row once
  in the order of its sort, level rows included, but for `recent` when a page ends with an
  album that has a year and no date; a spotlight repeats nothing.
* `OneLeader`, `CallsEnd`: a track is downloaded once at a time (one after another it may be
  twice: a request that looked before the file landed, and got to the map after the leader had
  left it, leads again), and whoever waits gets the
  leader's answer, unless his `Notified` is created after `notify_waiters` (`Missed`): he
  hangs, and a run over the likes with him. `LikedKept`: a copy `cache_likes` made, moved or
  found stays in the liked directory until somebody removes it.
* `SettledAgrees`, `SelectionLoads`: once nothing is loading, the engine plays what the
  store shows, as the store shows it, and no lost stop leaves an old player beside it. Exempt are
  a swap that replaced a newer track's player and a device switch in the middle of a load
  (`displaced`), and the pause state after a swap that undid it or a play or pause that found
  the player's lock taken (`unheeded`), which nothing in the code repeats.

The three violated properties each quote a comment (two of the migrations, one of
`storage/.env.example`); `findings` in `PROJECT.json` tells the counterexample.

**Mutants.** Every property of a passing run is also run against a mutant of the code (the
operators whose comment says "Mutant" in the modules: a dropped lock test, a COALESCE the
wrong way round, a forgotten `progress = true`, ...), which it must refute. For the liveness
properties this shows as well that their component has fair behaviours in the composed runs.

## 5. Bounds, fairness, deadlock

**Bounds.** Constants named `Max...` bound behaviours and stand in guards. Times keep their
order and not their size: in the outbox a work timeout of 1, locks of 2 and backoffs of 2
ticks (30 s, 5 min, from 2 min); elsewhere ages are `lately`, `stale` and the like. Two
processes and two concurrent requests suffice for takeover and crossing; the
like-unlike-like patterns need three or four requests. `MaxRetries = 2` gives one retry and
the giving-up. For the safety invariants that are proved the bounds do not matter.

* `StoragePipeline`: two uploads are the fewest that race for a quota, a file or a batch; two
  chunks make an upload fail with a part written; `CounterMod` 4 is above any sum of the two
  and wraps below zero like 2^64; the durations are one ffmpeg cannot read (0), one too
  short, and two that differ by more than `Epsilon`; two faults give a failing replacement
  after the removal, a disconnect before a failure, or a second attempt that fails too. With
  one file the two jobs meet in a batch only after a disconnect.
* `PlaylistSync`, shared rows: one reader and one list are two tasks that may hold an answer
  while the owner's write is sent and settled; one edit gives two versions; one lapse is a
  lost call, statement or task, or a lock left behind.
* `Desktop`: one track gives leader and waiters (a call and the tasks of two runs), and the
  second run meets the flags the first leaves. Three tracks make an answer for a track that
  is neither the old nor the new selection; three inputs are a selection and, during its load,
  a skip and a way back, or an advance and a pause.
* `Services`: batches and limits of two with one hopeless row each, so that the premise of
  each liveness property holds with nothing to spare; two pages and one page per run, so
  that a crawl stops between pages; `ReapBatch` and `AlignLimit` are as large as there are tracks,
  so that no row is ever left out by them, and only the resolver's batch is filled up; two deliveries, so that a message is repeated once
  and then given up.
* `Access`: two applications and two retries reach every branch of the retry; three chunks
  with two per request make a reader stop and another extend; three artists and albums with
  two equal names give level rows across a page boundary for limits 1 and 2, and a year of
  ten days with the dates 10 and 15 puts an undated album between dated ones. With two
  tunes the deep cuts of a home wave stay empty when both are taken; the artist wave has them.
  What complicates a user's taste (a lost call, a dislike taken back, two locks) is explored
  one at a time.

Symmetry is used in `LikesSync_safety` and `Sessions`, which check no liveness.

**Fairness.** Everywhere: a task that was started runs on (tokio polls it to its end;
breaking it off is a fault of its own), periodic loops tick, time goes on. Nothing obliges a
user to act, a fault to happen or SoundCloud to change.

* `LikesFairness`: accepted requests, each process's flush (`run_periodic`, every 60 s), time.
  `ViewHeals` and `DeletedStaysGone` assume refreshes that go on being completed as a
  premise; `PlaylistSync` itself only assumes that a refresh that started runs on.
* `ColdFairness` adds that somebody goes on asking for the thing and opening the list: what
  nobody asks for stays as it is, which is the design. Owner's writes, evictions and
  failures stay free.
* Storage: spawned tasks run on, and so does a handler that has its whole upload (`SubmitJob`,
  `Discard`, `Leave`); no client owes a chunk, and `UploadsSettle` starts at the last one.
* `IndexFairness`, `EnrichFairness`, `CatalogueFairness`, `LyricsFairness`: reapers, backfills
  and resolvers tick, consumers get what there is. `LyricsFairness` has one strong fairness:
  every upload event gets a task of its own in the code, and few `Whisperers` stand for them.
* `CacheFairness`, `PlayerFairness`: the steps of requests, runs and upgrades; a load, a swap
  and the delivery of `audio:ended`. Calls have time-outs in their HTTP clients, so a call ends.

`Access` and `Sessions` check safety only and assume no fairness.

**Deadlock** is checked in the runs of the outbox and its clients. It is not in `Sessions`,
the storage runs, `Desktop`, `Services` and `Access`: with the bounded inputs used up, every
task may have ended there, and the system stops.

## 6. What is proved

`tlapm` checks every theorem; nothing is assumed beyond the named `ASSUME`s of the modules,
which TLC evaluates in the runs.

* `SyncQueueProofs` (parameters: any sets, batch size, times, retries).
  `QueueTyped`: the outbox's state stays in its types (`TypeOK`, the first part of `QueueInv`).
  `QueueInvariant == Spec => []QueueInv`. `QueueInv` is inductive: `TypeOK`,
  `RowIdsUnique`, `ClaimNamesRow` (the id of a claim names its own key's row or none: an id
  is drawn outside the ids of rows *and* claims, so "WHERE id" cannot hit a stranger) and
  `LocksYoung` (the lock of a held row is no older than the flush, because both age by the
  same tick and a claim sets the lock's age to zero). From it and
  `WorkTimeout < LockTimeout` follow `LockOutlivesFlush` (`NoTakeover`) and, as an action
  property, `LockedRowsStay` (`OnlyHolderRemoves`). Without `ClaimNamesRow` neither is
  inductive: a delete by id might take another key's row.
* `LikesSyncProofs`. `LikesInvariant` carries the queue's invariant and the mirror's types
  over to `LikesSpec` (each action of `LikesNext` is an action of `SyncQueue` or leaves its
  variables alone); `LikesTyped` is `LikesTypeOK`. `ViewRefined == LikesSpec => ViewSpec` is
  the refinement of `LikeView`: each action is mapped to `Ask`, `Grant`, `Leave` or a
  stutter. It uses that an unwanted row is never confirmed and that the confirmations look
  at `wanted_state`. For `LikesRefresh`, `RefreshInv` adds the refreshes' records: what is left
  to upsert was on the pages. A refresh, the end of its lock and a change on SoundCloud leave
  the outbox and the requests alone (`BesideOutbox`), so `RefreshSparesLocks` has `NoTakeover`
  and `OnlyHolderRemoves` for `RefreshSpec`. `RefreshCorrectsSettled == RefreshSpec =>
  OnlySettledCorrected` takes the place of the refinement, which a refresh breaks on purpose:
  the view moves as `LikeView` says (`ViewStep`, `AskedMoves`), or by a refresh whose pages
  showed otherwise, and then only where no request waits for its confirmation. That an
  upsert spares such rows needs the types: a row that is absent has no progress.
* `SessionsProofs`. `SessionsTyped`; `OneRefresh == Spec => []SingleFlight` by `MutexInv`:
  a mutex is held by one task (`Exclusive`), tasks of a session outside `split` that queue
  or hold have the same mutex (`OneLock`) and it is the one in the cache unless the entry
  is gone (`CachedLock`). A new mutex is drawn outside the ones in use, and `split` is
  exactly the case where drawing one would break `OneLock`.
  `TokensOfTheirAccount == Spec => []AccountTokens` by `AccountInv`: what a caller between its
  SELECT and its UPDATE carries is of the grant that the row shows, unless a sign-in landed
  in between (`raced`), and nobody works for a row that is not signed in yet, so the row that
  a claim adds is nobody's refresh. `NewestTokenKept == Spec => []TokenKept` by `TokenInv`,
  about generations: no row knows a token newer than SoundCloud's (`RowsKnown`), a grant that
  was not linked is in one session and with its callers (`OneHome`), and a caller about to
  write has the newest token, all other holders being behind (`SaversAhead`), so nobody can
  rotate it before it is written. Neither uses the mutex: two locks cost a refused call,
  not a token.
* `StorageProofs`. `StorageTyped`: the counter stays in range whatever is subtracted.
  `StorageInvariant == Spec => []StorageInv`, with five parts. `Handed`: a live job has a
  handler that waits for it or an orphan. `OneJob`: two live jobs of one file mean that one
  had lost its handler; it needs `Handed`, as the lock is held by handlers. `Fresh`:
  between comparison and rename it stays true that there is no stored file or a shorter one;
  it needs `OneJob`, for only another job of the file could store one. `Committed`: what is
  stored, announced or a success has been committed. `Emptied`: files go before the answer.
  From these follow `EventsAreTrue` (`EventAfterCommit`), `TemporaryFilesGo` (`NothingLeft`)
  and, as an action property, `LongerStays` (`KeepsLonger`). `QuotaRefined`: the pipeline
  is an environment `TmpQuota` allows, so what holds of `QuotaSpec` holds of it.
  `QuotaExact == Spec => []QuotaKept` by `BooksInv`: until a rescan lowers it the counter is
  what is reserved and what is being tried, and what is reserved fits (`Exact`); a handler
  that runs has reserved what it has written and is about to write (`Backed`), so what fits
  the counter fits the directory. Sums over the uploads are cardinalities: a chunk is a pair
  of an upload and a number (`Chunks`), a step adds or removes one chunk or all of an upload.
  `TmpQuota` assumes that uploads are finitely many and that `CounterMod` (2^64 in the code)
  exceeds `Limit` by more than one chunk for each of them: otherwise the `fetch_add`s of
  chunks that will be refused could wrap the counter into what fits.
* `CachesProofs`. `RepeatsAreFaults == PlaylistSpec => []RepeatsNeedFaults` by an account of
  debts: what SoundCloud has got of a payload, plus the flushes that may still bring it
  (`Owing`), plus a row nobody is at work on (`Waiting`), is at most what users asked for plus
  the failures (`Balanced`). A claim turns `Waiting` into `Owing`, a call that succeeds turns
  `Owing` into a repetition, and only a failure adds to it. It counts flushes, so
  `PlaylistSync` assumes `IsFiniteSet(Flushers)`: they are the running backend processes.
  `LastEditWins == PlaylistSpec => []LastEditArrives` by `LastInv`: without failures what is
  queued or in hand of a playlist is its last edit, unless one was enqueued while an earlier
  one was being sent (`crossed`). `OwnWritesSeen == ColdSpec => []OwnWritesShow`, inductive
  with the types: each way to store a row marks it `late` if what it stores was fetched
  before the write that settled.
* `AccessProofs`, five components.
  `CodesFit == SignInSpec => []CodeFitsApp` by `SignInv`: a page is of a try that has begun,
  and of the request's application if it is of the current one (`PageFits`); a task works for
  a request that is not pending, in its current try (`TaskFits`); a request has one task
  (`OneTask`). It shows what the UPDATE of `handle_callback` must ask for (`pending`) and why
  each try must draw a new state. `OneSessionEach == SignInSpec => []OneSignIn` by `SignedInv`
  and `LinkedInv`: the stage of a request's task tells whether its session has been stored,
  and that of a claim whether the new session is there; a fault, a clean-up or a second claim
  is what breaks the tie.
  `InvalidatedListsGo == ListSpec => []NotStale` by `ListInv`: what is in the cache, and what
  a fetching reader has in hand, is as new as the last invalidation or marked as straddling it
  (`CachedCurrent`, `HeldCurrent`). The argument does not use the mutex: the property survives
  its eviction and a second process.
  `StoredWhenOk == StreamSpec => []OkMeansStored` by `StreamInv`: an upload about to write
  `ok` put the file there, or refers to a row id that is gone (`RowFits`). Ids are not drawn
  again while something refers to them, and one is always left: the row and the
  cleanup refer to one each, a listener to his own and to that of his one upload
  (`OneUploadEach`), so `Streaming` assumes more ids than that, or endlessly many.
  `DislikedStaysOut == WavesSpec => []UnwantedStaysOut` and
  `ShownHasBeenThere == WavesSpec => []ShownWasPresent` by `WavesInv`, which says of each stage
  of a wave which set has been freed of which (`KeepsOut`, for home waves and tails), and that what `find_missing` did
  not put aside has been in the storage (`WasThere`), where the marks lead that are there
  (`MarksFit`).
  `AggregatesAreExact == DiscoverSpec => []AggregatesExact` by `AggInv`: as long as nothing
  has changed since the refresh began, each statement behind it has left its own fields as a
  count gives them. A statement does not write to rows outside its `Affected...`, so each needs
  that such a row already shows what would be written: it counts nothing now and shows nothing
  (`CountsEffect` to `AlbumStarEffect`, one lemma for each statement). Nothing is assumed of
  the tables before, but for their types: a refresh repairs whatever earlier ones left.
  `CatalogueShownOnce == DiscoverSpec => []ShownOnce` by `ShownInv`. `Pages`, of a walk over
  a catalogue that stands still: what has been seen is listed and ascending; half way, a listed
  row has been seen or comes after the cursor, and all that was seen is before all that comes.
  It rests on two facts about the code's sorts: of two different places one is before the
  other, because the id is part of each (`OrderTyped`, `BeforeOrders`), and the cursor made
  from a row stands for the row's place, but for `recent` and an album with a year and no date
  (`CursorStands`), which is the exemption. `PromotedOnce`, `SpotInv`: the unique index on what
  is promoted keeps the rows of a spotlight different, and the stars are taken outside the
  artists already used. `Discover` assumes finite tables, as a count needs them, and that NULL
  is no cursor.
* `DesktopProofs`. `LeaderAlone == CacheSpec => []OneLeader` by `CacheInv`: a leader has the
  map's entry of its track until it has told the others (`Entered`); the entry is one value,
  so two leaders of a track are the same. It rests on the map alone and needs nothing of the
  files, so it holds across the await between the lookup and the map. `LikedCopiesStay == CacheSpec => []LikedKept` by
  `KeptInv`: between the file's landing and its entry in `kept` a task has its file in the
  liked directory, unless a removal disturbed it (`Made`); eviction and promotion take files
  of the audio directory alone. `SelectionSounds == PlayerSpec => []SettledAgrees` by
  `PlayerInv`: of the queued jobs the latest alone is fresh (`JobsFit`), a fresh job loads
  the selection or the user went back to the track still held (`JobFits`), a crossfade is
  asked for by the only job that waits (`FadeFits`), and with nothing under way store and
  engine agree (`IdleFits`, `EngineFits`). Commands that only try the lock are followed through:
  a lost stop leaves a player that the commit of the load replaces, a lost play or pause is
  `unheeded` until the next one is carried out (`CommandedRows`, `StoppedRows`).
* `ServicesProofs`. `EveryPageGot == CatalogueSpec => []NoPageSkipped` by `CrawlInv`: the
  pages below every offset, stored, copied or about to be stored, have been got; an offset
  may go back when crawls overlap, which costs a repetition and no page.
  `TrainedAlone == TrainersSpec => []OneTraining` by `TrainInv` and `NoteInv`: a working
  training means that its flag is up, two working trainings of a model are the same, and a
  flag that is up has a training or an abandoned model; a task that counts an event is not
  in a training at the same time.
  For `Taste`, `TasteBase` (`TasteTyped` is its first part) has the types, that rows are
  written once and in order (`RowsInOrder`), and what a task has in hand at each of its steps
  (`TaskInOrder`). `AnsweredLikesShow == TasteSpec => []VectorFresh` by `VectorInv`: a reader
  that an answer overtook has been marked; a like that is among the newest was so when it was
  the latest, and likes that come after a reading only push others out of the LIMIT. `LikesGetApplied == TasteSpec => []LikesApplied` by
  `LikesInv`: while nothing fails, a like without its mark is in hand, or it `Waits`
  (`PendingLikesWait`): if the worker is through with its track, for the report, which has still
  to be consumed; if not, the track is queued, or about to be asked for, or not in
  `indexed_tracks`. It needs that a track the worker is through with, or whose report is on its
  way, has all its vectors (`ListedTruly`). `CountedExactly ==
  TasteSpec => []TasteExact` by `ExactInv`: tasks that hold a lock hold different ones, and
  outside `split` the one in the cache (`OneHolder`), so what a task read of the taste is
  still the taste when it writes (`BasesTrue`) and no count is lost (`AppliedCounted`); an
  event that was not relisted is in one hand, and without its mark (`OneHand`), so what is
  counted is marked or about to be, and was counted once (`CountedOnce`). That a task takes
  its least event needs a least element of a set of numbers, which is got from the
  well-foundedness of finite subsets in `WellFoundedInduction`. `Taste` assumes
  `IsFiniteSet(Songs)` (tracks of one request are numbered) and `Branches # {}` (the code
  has three).
  `IndexedIsTrue == IndexSpec => []IndexedTruly` and `RowsComeFirst` by `IndexInv`: a message
  stands for what was done before it was sent, so whatever is in the mail is about a stored
  track with a row, a DONE about one with vectors, and no repetition makes that untrue.
  `EnrichedOnce == EnrichSpec => []EnrichedAlone` by `EnrichInv`: a lock's holder enriches that
  track, a track has one holder at most, and the processes that enrich without a lock are
  counted: they are no more than the faults. `Enrich` assumes `IsFiniteSet(Enrichers)`, a
  deployment's processes.

Only model-checked: everything temporal under fairness (`EventuallyAgree`, `RowsLeave`,
`ViewHeals`, `DeletedStaysGone`, `ColdCatchesUp`, `UploadsSettle`, `CallsEnd`,
`SelectionLoads`, `KnownGetIndexed`, `EnrichEnds`, `WantedGetLinked`, `LyricsTimed`: liveness
and ENABLED are beyond the prover). Every invariant and every action property of the passing
runs is a theorem; `OnlySettledCorrected`, `IndexedTruly`, `RowsFirst` and `EnrichedAlone` are
stated by theorems alone. Induction over data and RECURSIVE operators are beyond the prover too; the
modules with theorems need neither: sums are cardinalities, sorted sequences are described by
`InOrder`. What the logarithms of `popularity_score` and the weights of `trending_score` give is
not proved, only that the tables hold it.

## 7. What is not modelled, and why

* The merging of tracks by fingerprint (`b/indexing/service.rs`, `apply_fingerprint`) and of
  the artists and albums enrichment writes: which rows are one is decided by data the models
  do not carry. `Discover` has the merging of artists by the admin, and its effect.
* Counters beside likes and plays, the cached totals, history, featured lists, resolve: single
  statements that feed nothing back. The other read-only API keeps no state of its own.
* `msg.truncate(500)` (`b/sync_queue/service.rs:203`), which panics inside a multi-byte
  character: texts are abstracted; the panic looks like `Drop` followed by a process that
  does not flush again.
* `clear_index` of `backend/src/cache/cache_service.rs`: nothing in the repository writes the
  indexes it clears.
* Several users: the tables are keyed by user and no statement joins two.
* A queue of one track in the player (`Player` assumes two): there a crossfade's advance selects
  the position it is at, so nothing loads, and the end of the track is suppressed
  (`audio.ts:657-692`).
* Scores, vectors, features, matching of titles, transcoding, neural models: data. A search
  returns any set, a resolver any outcome, ffmpeg and whisper succeed or fail.
* The S3 and Drive backends of the storage; the order of the streaming sources, HLS, the
  cookie pool; decoding, equalizer, media keys, the query cache and pages of the desktop.
* `utils/` (relay, decryption, desynchronisation, TLS) and `admin/`: packet handling and a web
  form, without protocol state these properties speak of.

Where a flaw is in the code, the model has it and the property names it as an exemption
(section 4 and the notes of the hazards); no definition is milder than its lines. Two are in
the models without any property that speaks of them: the search that ends a home wave in
`split_at` when it finds fewer tracks than a cluster holds (`Panics`), and the merging into
an already merged artist.

## 8. How to run it, and what could come next

`tlc -workers 2 -config X.cfg M` for a run of `PROJECT.json`; the longest takes about three
minutes. `tlapm M.tla` for a module of proofs. A change of the code at the lines `map` names
is a change of that definition; the property it breaks, if any, is the review's question.

Worth doing next, in this order: a module of the identities that fingerprints and enrichment
merge, composed with `Indexing`; the composition of `Streaming`, `StoragePipeline` and
`Indexing` over the event they exchange.
