------------------------------- MODULE Player -------------------------------
(***************************************************************************)
(* The desktop's player: the store's selection, the loading pipeline of    *)
(* lib/audio.ts and the audio engine (audio/engine.rs, tick.rs, device.rs) *)
(* it drives by calls.  A JavaScript handler runs to its next await in one *)
(* action, with the store's subscriber it triggers.  The engine's short    *)
(* commands (stop, play, pause) arrive in the order they are sent, and     *)
(* each only tries the player's lock: while the tick thread or another     *)
(* command holds it, the command is lost without an error.  Loads and      *)
(* swaps read and decode while everything else goes on, and wait for the   *)
(* lock.                                                                   *)
(*                                                                         *)
(* Tracks are the positions 1..NTracks of a queue that repeats.  A flag    *)
(* `fresh' stands for the comparison of a job's generation with loadGen.   *)
(***************************************************************************)
EXTENDS Naturals, Sequences

CONSTANTS NTracks,
          MaxInputs,    \* bound: clicks, ended tracks and advances
          MaxFailures,  \* bound: loads that fail
          MaxSwaps,     \* bound: quality upgrades and device switches
          NoTrack

ASSUME PlayerAssumption ==
  /\ NTracks \in Nat \ {0, 1} /\ NoTrack \notin 1..NTracks
  /\ MaxInputs \in Nat /\ MaxFailures \in Nat /\ MaxSwaps \in Nat

VARIABLES
  store,      \* currentTrack and isPlaying
  js,         \* currentUrn, loadingUrn, engineSelectionKey, hasTrack and the crossfade flag
  jobs,       \* loadPipeline: the calls of loadTrack that have not started
  job,        \* the running loadTrackWork
  player,     \* the engine's player; watched: has_track, the tick thread looks at it
  outgoing,   \* the old player of a crossfade: none, waiting for the new one, fading
  ended,      \* an audio:ended on its way to the window
  swap,       \* the running audio_swap_source
  inputs, failures, swaps,   \* counts of the bounded events
  displaced, \* history: a swap or a device switch took the player since the last commit
  unheeded   \* history: the last pause or resume was lost or overridden by a swap

playerVars == <<store, js, jobs, job, player, outgoing, ended, swap,
                inputs, failures, swaps, displaced, unheeded>>
engineVars == <<player, outgoing, displaced, unheeded>>
countVars == <<inputs, failures, swaps>>

PlayerTracks == 1..NTracks
NoPlayer == [track |-> NoTrack, paused |-> TRUE, watched |-> FALSE]
NoJob == [pc |-> "none", track |-> NoTrack, play |-> FALSE, fresh |-> TRUE, fade |-> FALSE]
NoSwap == [pc |-> "none", track |-> NoTrack, paused |-> TRUE]

PlayerInit ==
  /\ store = [sel |-> NoTrack, playing |-> FALSE]
  /\ js = [cur |-> NoTrack, loading |-> NoTrack, key |-> NoTrack, has |-> FALSE, fade |-> FALSE]
  /\ jobs = <<>> /\ job = NoJob
  /\ player = NoPlayer /\ outgoing = "none" /\ ended = FALSE /\ swap = NoSwap
  /\ inputs = 0 /\ failures = 0 /\ swaps = 0
  /\ displaced = FALSE /\ unheeded = FALSE

NextTrack(t) == (t % NTracks) + 1
Count(c, max) == c < max /\ c' = c + 1

-----------------------------------------------------------------------------
(* The store's subscriber. *)

(* trackChanged: the selection is not the one being loaded, and it is not  *)
(* the one the engine holds or the engine holds none.                      *)
(* Mutant: hasTrack is not asked. *)
TrackDiffers(s, j) == s.sel # NoTrack /\ s.sel # j.loading /\ s.sel # j.key

TrackChanged(s, j) ==
  s.sel # NoTrack /\ s.sel # j.loading /\ (s.sel # j.key \/ ~j.has)

(* loadTrack: a new generation, so every earlier job is stale. *)
Queued(t, play, q) ==
  Append([i \in DOMAIN q |-> [q[i] EXCEPT !.fresh = FALSE]],
         [NoJob EXCEPT !.pc = "queued", !.track = t, !.play = play])
Outdated(x) == [x EXCEPT !.fresh = (x.pc = "none")]

(* play and pause try the player's lock and do nothing when it is taken.   *)
Commanded(paused) ==
  /\ player' \in {player, [player EXCEPT !.paused = paused \/ player.track = NoTrack]}
  /\ unheeded' = (player.track # NoTrack /\ player'.paused # paused)

EnginePlay == Commanded(FALSE) /\ UNCHANGED outgoing
EnginePause == Commanded(TRUE) /\ outgoing' = "none"

(* stop tries the lock too: the old player may go on, unwatched.           *)
EngineStop == player' \in {NoPlayer, [player EXCEPT !.watched = FALSE]} /\ outgoing' = "none"

(* Mutant: a job that ends keeps its lock. *)
LockKept(j) == j

(* releaseLoadLocks. *)
Released(j) == [j EXCEPT !.loading = NoTrack]

(* The store becomes s while the window's variables are j, no job being    *)
(* touched by the handler itself.                                          *)
StoreChanges(s, j) ==
  /\ store' = s
  /\ js' = j
  /\ IF TrackChanged(s, j) \/ (s.playing /\ ~store.playing /\ ~j.has)
       THEN /\ jobs' = Queued(s.sel, s.playing, jobs)
            /\ job' = Outdated(job)
            /\ UNCHANGED engineVars
       ELSE /\ UNCHANGED <<jobs, job, displaced>>
            /\ IF s.playing = store.playing THEN UNCHANGED <<player, outgoing, unheeded>>
               ELSE IF s.playing THEN EnginePlay ELSE EnginePause

(* A queued job starts in a microtask once the pipeline is free: no event  *)
(* of the window comes in between.                                         *)
NoMicrotask == job.pc = "none" => jobs = <<>>

(* play, playFromQueue, next and prev select a track. *)
Select(t) ==
  /\ NoMicrotask
  /\ Count(inputs, MaxInputs)
  /\ StoreChanges([sel |-> t, playing |-> TRUE], js)
  /\ UNCHANGED <<ended, swap, failures, swaps>>

TogglePlay ==
  /\ NoMicrotask
  /\ Count(inputs, MaxInputs) /\ store.sel # NoTrack
  /\ StoreChanges([store EXCEPT !.playing = ~@], js)
  /\ UNCHANGED <<ended, swap, failures, swaps>>

-----------------------------------------------------------------------------
(* loadTrackWork, with the engine's load_file and crossfade_file. *)

(* The first part, up to the question to the cache.  Without a crossfade   *)
(* the engine is stopped.  The updates of the store wake the subscriber,   *)
(* which queues the selection again when it is no longer this track.  An   *)
(* `ended' still on its way falls into the suppression window.             *)
StartLoad ==
  LET h == Head(jobs)
      fades == js.fade /\ js.has /\ js.cur # h.track
      again == store.sel # h.track
  IN
  /\ job.pc = "none" /\ jobs # <<>>
  /\ js' = [js EXCEPT !.cur = h.track, !.loading = h.track, !.fade = FALSE,
                      !.has = fades /\ @]
  /\ IF fades THEN UNCHANGED <<player, outgoing>> ELSE EngineStop
  /\ job' = [h EXCEPT !.pc = "fetching", !.fade = fades, !.fresh = @ /\ ~again]
  /\ jobs' = IF again THEN Queued(store.sel, store.playing, Tail(jobs)) ELSE Tail(jobs)
  /\ ended' = FALSE
  /\ UNCHANGED <<store, swap, countVars, displaced, unheeded>>

(* isStaleLoad after an await: the job ends and leaves its locks. *)
StaleLoad ==
  /\ job.pc \in {"fetching", "loaded"} /\ ~job.fresh
  /\ job' = NoJob
  /\ UNCHANGED <<store, js, jobs, engineVars, ended, swap, countVars>>

(* The file is there and the engine has read it: the old player is stopped *)
(* or becomes the outgoing one, and the new one is built.                  *)
Fetched ==
  /\ job.pc = "fetching" /\ job.fresh
  /\ job' = [job EXCEPT !.pc = "building"]
  /\ outgoing' = IF job.fade /\ player.track # NoTrack THEN "waiting" ELSE "none"
  /\ player' = NoPlayer
  /\ UNCHANGED <<store, js, jobs, ended, swap, countVars, displaced, unheeded>>

(* commit_loaded_track, whatever happened to the job since. *)
Built ==
  /\ job.pc = "building"
  /\ job' = [job EXCEPT !.pc = "loaded"]
  /\ player' = [track |-> job.track, paused |-> ~job.play, watched |-> TRUE]
  /\ outgoing' = IF outgoing = "waiting" THEN "fading" ELSE outgoing
  /\ displaced' = FALSE /\ unheeded' = FALSE
  /\ UNCHANGED <<store, js, jobs, ended, swap, countVars>>

(* afterLoad: a pause pressed meanwhile is undone by shouldPlay.  When the *)
(* user went back to the fading track during a crossfade, the subscriber   *)
(* saw the track the engine held: nothing loads it again.                  *)
AfterLoad ==
  /\ job.pc = "loaded" /\ job.fresh
  /\ job' = NoJob
  /\ IF store.sel = job.track
       THEN /\ js' = [Released(js) EXCEPT !.has = TRUE, !.key = job.track]
            /\ store' = [store EXCEPT !.playing = @ \/ job.play]
            /\ IF job.play THEN EnginePlay ELSE EnginePause
       ELSE /\ js' = Released(js)
            /\ UNCHANGED <<store, player, outgoing, unheeded>>
  /\ displaced' = (displaced \/ (store.sel # job.track /\ js.has))
  /\ UNCHANGED <<jobs, ended, swap, countVars>>

(* The catch of a job that is not stale: the locks are released and the    *)
(* store paused, whose subscriber sees a selection nobody loads and queues *)
(* it again.  A stale job only ends.                                       *)
LoadFails ==
  LET j == Released(js)
      s == [store EXCEPT !.playing = FALSE]
  IN
  /\ job.pc \in {"fetching", "building"} /\ Count(failures, MaxFailures)
  /\ IF ~job.fresh
       THEN job' = NoJob /\ UNCHANGED <<store, js, jobs, engineVars>>
       ELSE /\ store' = s /\ js' = j /\ job' = NoJob
            /\ IF TrackChanged(s, j)
                 THEN jobs' = Queued(s.sel, FALSE, jobs) /\ UNCHANGED engineVars
                 ELSE /\ EnginePause /\ UNCHANGED jobs
                      /\ displaced' = (displaced \/ job.pc = "building")
  /\ UNCHANGED <<ended, swap, inputs, swaps>>

-----------------------------------------------------------------------------
(* The end of a track and the advance by crossfade. *)

(* The tick thread finds the player empty. *)
TrackEnds ==
  /\ player.track # NoTrack /\ player.watched /\ ~player.paused /\ ~ended
  /\ Count(inputs, MaxInputs)
  /\ ended' = TRUE
  /\ UNCHANGED <<store, js, jobs, job, engineVars, swap, failures, swaps>>

(* audio:ended: ignored while a track is loading, else next. *)
OnEnded ==
  /\ NoMicrotask /\ ended /\ ended' = FALSE
  /\ IF js.loading # NoTrack \/ store.sel = NoTrack
       THEN UNCHANGED <<store, js, jobs, job, engineVars>>
       ELSE StoreChanges([sel |-> NextTrack(store.sel), playing |-> TRUE],
                         [js EXCEPT !.has = FALSE])
  /\ UNCHANGED <<swap, countVars>>

(* audio:tick near the end, with crossfades enabled: next, and the load of *)
(* the next track may keep the old player.                                 *)
CrossfadeAdvance ==
  /\ NoMicrotask
  /\ Count(inputs, MaxInputs)
  /\ js.has /\ js.loading = NoTrack /\ store.playing
  /\ StoreChanges([sel |-> NextTrack(store.sel), playing |-> TRUE], [js EXCEPT !.fade = TRUE])
  /\ UNCHANGED <<ended, swap, failures, swaps>>

(* The fade thread ends. *)
FadeOver ==
  /\ outgoing = "fading"
  /\ outgoing' = "none"
  /\ UNCHANGED <<store, js, jobs, job, player, ended, swap, countVars, displaced, unheeded>>

-----------------------------------------------------------------------------
(* The quality upgrade and the output device. *)

(* track:quality-upgraded: only for the current, loaded track. *)
SwapBegin ==
  /\ NoMicrotask /\ swap.pc = "none" /\ js.has /\ Count(swaps, MaxSwaps)
  /\ swap' = [NoSwap EXCEPT !.pc = "reading", !.track = js.cur]
  /\ outgoing' = "none"
  /\ UNCHANGED <<store, js, jobs, job, player, ended, inputs, failures, displaced, unheeded>>

(* was_paused is sampled once the file is read; no player is an error. *)
SwapSample ==
  /\ swap.pc = "reading"
  /\ swap' = IF player.track = NoTrack THEN NoSwap
             ELSE [swap EXCEPT !.pc = "building", !.paused = player.paused]
  /\ UNCHANGED <<store, js, jobs, job, engineVars, ended, countVars>>

(* The new player replaces whatever player there is by now. *)
SwapCommit ==
  /\ swap.pc = "building"
  /\ swap' = NoSwap
  /\ player' = [track |-> swap.track, paused |-> swap.paused, watched |-> TRUE]
  /\ displaced' = (displaced \/ player.track # swap.track)
  /\ unheeded' = (unheeded \/ player.paused # swap.paused)
  /\ UNCHANGED <<store, js, jobs, job, outgoing, ended, countVars>>

(* switch_device and the monitor of the default output take the player;    *)
(* the reload that follows finds none and does nothing.                    *)
SwitchDevice ==
  /\ Count(swaps, MaxSwaps)
  /\ player' = NoPlayer /\ outgoing' = "none"
  /\ displaced' = TRUE
  /\ UNCHANGED <<store, js, jobs, job, ended, swap, inputs, failures, unheeded>>

-----------------------------------------------------------------------------
LoadStep == StartLoad \/ StaleLoad \/ Fetched \/ Built \/ AfterLoad
SwapStep == SwapSample \/ SwapCommit

PlayerNext ==
  \/ \E t \in PlayerTracks : Select(t)
  \/ TogglePlay \/ LoadStep \/ LoadFails
  \/ TrackEnds \/ OnEnded \/ CrossfadeAdvance \/ FadeOver
  \/ SwapBegin \/ SwapStep \/ SwitchDevice

PlayerFairness == WF_playerVars(LoadStep) /\ WF_playerVars(SwapStep) /\ WF_playerVars(OnEnded)
PlayerSpec == PlayerInit /\ [][PlayerNext]_playerVars /\ PlayerFairness

-----------------------------------------------------------------------------
(* Properties. *)

Settled == jobs = <<>> /\ job = NoJob /\ swap = NoSwap /\ ~ended

(* When nothing is loading or swapping, the engine holds the selected      *)
(* track, in the state the store shows, and nothing else sounds: no stale  *)
(* load, late commit, failed crossfade, lost stop or order of clicks       *)
(* leaves another track, another pause state or the old player of a fade.  *)
(* The track can differ only after a swap that commits when its track has  *)
(* gone, a device switch and a return to the fading track (displaced);     *)
(* the pause state only then, after a swap that undid a command, and when  *)
(* the last play or pause found the player's lock taken (unheeded).        *)
PlaysSelected == ~displaced => js.has /\ player.track = store.sel
PauseAgrees == ~displaced /\ ~unheeded => player.paused = ~store.playing
NoEcho == outgoing # "waiting"
SettledAgrees ==
  Settled /\ store.sel # NoTrack => PlaysSelected /\ PauseAgrees /\ NoEcho

(* A selection is loaded in the end, or replaced. *)
SelectionLoads ==
  \A t \in PlayerTracks : (store.sel = t) ~> (store.sel # t \/ (js.has /\ js.key = t))
=============================================================================
