------------------------------- MODULE Lyrics -------------------------------
(***************************************************************************)
(* The lyrics of indexed tracks (lyrics/service.rs): the search pipeline,  *)
(* the transcription of an uploaded track, the embedding by the worker and *)
(* the reapers that repeat what got lost.                                  *)
(*                                                                         *)
(* The per-track locks `inflight' and `whisper_inflight' are taken with a  *)
(* get and an insert, and are local to a process: they exclude nothing     *)
(* that a second process or a race on the get does not allow, so tasks     *)
(* here run beside one another.  The row's primary key does exclude.       *)
(***************************************************************************)
EXTENDS Naturals, Sequences, FiniteSets, SequencesExt

CONSTANTS LyricTracks,
          Ensurers, Whisperers,   \* tasks of ensure_lyrics and handle_uploaded
          Timeless,               \* whisper never gives these timed lyrics
          Brief,                  \* over 30 bytes, under the worker's 30 characters
          AlignLimit, FullLimit,  \* REAP_LIMIT_ALIGN, REAP_LIMIT_FULL
          NoLyrics, MaxSlips      \* bound: faults

ASSUME LyricsAssumption ==
  /\ Timeless \subseteq LyricTracks /\ Brief \subseteq LyricTracks
  /\ AlignLimit \in Nat \ {0} /\ FullLimit \in Nat \ {0} /\ MaxSlips \in Nat

VARIABLES entry,      \* the row of indexed_tracks: whether INDEX_AUDIO was sent, indexed_at
          lyrics,     \* lyrics_cache by created_at: track, whether timed, embedded_at
          ensuring,   \* ensure_lyrics
          hearing,    \* handle_uploaded
          uploads,    \* storage events, of a trigger or of the storage
          embeds,     \* messages EMBED_LYRICS
          slips
lyricsVars == <<entry, lyrics, ensuring, hearing, uploads, embeds, slips>>

Resting == [pc |-> "idle", track |-> NoLyrics]
LyricsInit ==
  /\ entry = [t \in LyricTracks |-> "none"]
  /\ lyrics = <<>> /\ uploads = {} /\ embeds = {} /\ slips = 0
  /\ ensuring = [e \in Ensurers |-> Resting] /\ hearing = [h \in Whisperers |-> Resting]

Fine == UNCHANGED <<slips, entry>>
Slip == slips < MaxSlips /\ slips' = slips + 1 /\ UNCHANGED entry
Enters(t, e) == entry' = [entry EXCEPT ![t] = e]

RowOf(t) == SelectSeq(lyrics, LAMBDA r : r.track = t)
HasRow(t) == RowOf(t) # <<>>
With(t, Change(_)) == [n \in DOMAIN lyrics |-> IF lyrics[n].track = t THEN Change(lyrics[n]) ELSE lyrics[n]]

(* The insertion succeeds for one task; its text goes to the worker: the   *)
(* publication may fail.                                                   *)
AfterFound(t) == (embeds' = embeds \cup {t} /\ Fine) \/ (UNCHANGED embeds /\ Slip)
Insert(t, timed) ==
  IF HasRow(t) THEN UNCHANGED <<lyrics, embeds>> /\ Fine
  ELSE /\ lyrics' = Append(lyrics, [track |-> t, timed |-> timed, embedded |-> FALSE])
       /\ AfterFound(t)

-----------------------------------------------------------------------------
(* The indexing inserts a row. *)
TrackInserted(t) ==
  /\ entry[t] = "none" /\ Enters(t, "new")
  /\ UNCHANGED <<lyrics, ensuring, hearing, uploads, embeds, slips>>

(* A play, or the indexing, asked for the track, and the storage has it.   *)
(* (An event of an indexed track changes nothing, see UploadHeard.)    *)
StorageEvent(t) ==
  /\ t \notin uploads /\ entry[t] # "indexed"
  /\ uploads' = uploads \cup {t} /\ Fine
  /\ UNCHANGED <<lyrics, ensuring, hearing, embeds>>

(* The worker's answer to INDEX_AUDIO sets indexed_at. *)
IndexedAt(t) ==
  /\ entry[t] = "asked" /\ Enters(t, "indexed")
  /\ UNCHANGED <<lyrics, ensuring, hearing, uploads, embeds, slips>>

(* ensure_lyrics: a listener, or the indexing of a new track. *)
EnsureLyrics(e, t) ==
  /\ ensuring[e].pc = "idle" /\ entry[t] # "none"
  /\ IF HasRow(t)
     THEN /\ ~RowOf(t)[1].embedded /\ t \notin embeds /\ AfterFound(t)
          /\ UNCHANGED ensuring
     ELSE /\ ensuring' = [ensuring EXCEPT ![e] = [pc |-> "search", track |-> t]]
          /\ UNCHANGED embeds /\ Fine
  /\ UNCHANGED <<lyrics, hearing, uploads>>

(* What a source can have of a song: its words alone, or with their times. *)
(* Genius is read off its pages, which have no times.                      *)
LrclibSearch == {"plain", "timed"}
MusixmatchSearch == {"plain", "timed"}
GeniusSearch == {"plain"}
NeteaseSearch == {"plain", "timed"}
FanoutSearch == LrclibSearch \cup MusixmatchSearch \cup GeniusSearch \cup NeteaseSearch

(* A round of queries: every source may have nothing or fail, the filter   *)
(* may drop what it has, and of equal texts the first stays; what is left  *)
(* is picked by an exact match or by the worker's rank.                    *)
SearchAndPick == {"none"} \cup FanoutSearch

(* A round with queries made of artist and title; if it picks nothing, one *)
(* with those of a language model.                                         *)
FindLyrics == {IF first # "none" THEN first ELSE second : first \in SearchAndPick, second \in SearchAndPick}

(* The search takes its time; what it finds goes to whoever inserts first. *)
RunPipeline(e) ==
  /\ ensuring[e].pc = "search"
  /\ \E found \in FindLyrics :
       IF found = "none" THEN UNCHANGED <<lyrics, embeds>> /\ Fine
       ELSE Insert(ensuring[e].track, found = "timed")
  /\ ensuring' = [ensuring EXCEPT ![e] = Resting]
  /\ UNCHANGED <<hearing, uploads>>

-----------------------------------------------------------------------------
(* An upload event: for a track that is indexed nothing more is done.      *)
UploadHeard(h, t) ==
  /\ t \in uploads /\ hearing[h].pc = "idle" /\ uploads' = uploads \ {t}
  /\ IF entry[t] = "indexed" THEN UNCHANGED <<entry, hearing>>
     ELSE Enters(t, "asked") /\ hearing' = [hearing EXCEPT ![h] = [pc |-> "told", track |-> t]]
  /\ UNCHANGED <<lyrics, ensuring, embeds, slips>>

(* Mutant: a track that has lyrics is left alone. *)
HandleUploadedNew(h) ==
  /\ hearing[h].pc = "told"
  /\ hearing' = [hearing EXCEPT ![h] = IF HasRow(@.track) THEN Resting ELSE [@ EXCEPT !.pc = "full"]]
  /\ UNCHANGED <<lyrics, ensuring, uploads, embeds>> /\ Fine

(* handle_uploaded: the row is read, then the worker listens for minutes.  *)
HandleUploaded(h) ==
  LET t == hearing[h].track IN
  /\ hearing[h].pc = "told"
  /\ hearing' = [hearing EXCEPT ![h] =
       IF ~HasRow(t) THEN [@ EXCEPT !.pc = "full"]
       ELSE IF RowOf(t)[1].timed THEN Resting ELSE [@ EXCEPT !.pc = "align"]]
  /\ UNCHANGED <<lyrics, ensuring, uploads, embeds>> /\ Fine

Heard(h) == hearing' = [hearing EXCEPT ![h] = Resting] /\ UNCHANGED <<ensuring, uploads>>
Timed(r) == [r EXCEPT !.timed = TRUE]

AlignWithWhisper(h) ==
  LET t == hearing[h].track IN
  /\ hearing[h].pc = "align" /\ t \notin Timeless
  /\ lyrics' = With(t, Timed) /\ Heard(h) /\ UNCHANGED embeds /\ Fine

FullTranscribe(h) ==
  LET t == hearing[h].track IN
  /\ hearing[h].pc = "full" /\ Heard(h)
  /\ Insert(t, t \notin Timeless)

(* The worker fails, gives nothing, or the process dies. *)
TranscribeFails(h) ==
  /\ hearing[h].pc # "idle" /\ Heard(h)
  /\ IF hearing[h].track \in Timeless THEN Fine ELSE Slip
  /\ UNCHANGED <<lyrics, embeds>>

-----------------------------------------------------------------------------
Embedded(r) == [r EXCEPT !.embedded = TRUE]

(* The worker embeds what is long enough and says so; or the message is    *)
(* given up, or the answer lost.                                           *)
EmbedLyrics(t) ==
  /\ t \in embeds /\ embeds' = embeds \ {t}
  /\ IF t \in Brief THEN UNCHANGED lyrics /\ Fine
     ELSE \/ lyrics' = With(t, Embedded) /\ Fine
          \/ UNCHANGED lyrics /\ Slip
  /\ UNCHANGED <<ensuring, hearing, uploads>>

-----------------------------------------------------------------------------
(* The reapers: the oldest rows first. *)
Oldest(due, n) == {due[i].track : i \in 1..(IF Len(due) < n THEN Len(due) ELSE n)}

NeedAlign == LET Untimed(r) == ~r.timed IN Oldest(SelectSeq(lyrics, Untimed), AlignLimit)
NeedFull == {t \in LyricTracks : entry[t] = "indexed" /\ ~HasRow(t)}

(* need_full: the oldest indexed tracks without a row; here any of them.   *)
(* Their events come to nothing, see UploadHeard.                      *)
ReapWhisper ==
  /\ \E full \in SUBSET NeedFull :
       /\ full # {} \/ NeedFull = {}
       /\ Cardinality(full) <= FullLimit
       /\ uploads' = uploads \cup NeedAlign \cup full
  /\ UNCHANGED <<lyrics, ensuring, hearing, embeds>> /\ Fine

NeedEmbed == LET Unembedded(r) == ~r.embedded IN Oldest(SelectSeq(lyrics, Unembedded), FullLimit)
ReapEmbeds ==
  /\ embeds' = embeds \cup NeedEmbed
  /\ UNCHANGED <<lyrics, ensuring, hearing, uploads>> /\ Fine

(* A trigger or an event is lost. *)
UploadLost(t) ==
  /\ t \in uploads /\ Slip /\ uploads' = uploads \ {t}
  /\ UNCHANGED <<lyrics, ensuring, hearing, embeds>>

-----------------------------------------------------------------------------
Hear(h) ==
  \/ \E t \in LyricTracks : UploadHeard(h, t)
  \/ HandleUploaded(h) \/ AlignWithWhisper(h) \/ FullTranscribe(h) \/ TranscribeFails(h)
LyricsNext ==
  \/ \E e \in Ensurers : (\E t \in LyricTracks : EnsureLyrics(e, t)) \/ RunPipeline(e)
  \/ \E h \in Whisperers : Hear(h)
  \/ \E t \in LyricTracks : TrackInserted(t) \/ StorageEvent(t) \/ IndexedAt(t) \/ EmbedLyrics(t) \/ UploadLost(t)
  \/ ReapWhisper \/ ReapEmbeds

(* The reaper ticks, the worker answers, and every event gets a task of its *)
(* own (there are few Whisperers here, so SF stands for it).               *)
LyricsFairness ==
  /\ WF_lyricsVars(ReapWhisper)
  /\ \A t \in LyricTracks : SF_lyricsVars(\E h \in Whisperers : UploadHeard(h, t))
  /\ \A h \in Whisperers : WF_lyricsVars(HandleUploaded(h) \/ AlignWithWhisper(h) \/ FullTranscribe(h) \/ TranscribeFails(h))
LyricsSpec == LyricsInit /\ [][LyricsNext]_lyricsVars /\ LyricsFairness

-----------------------------------------------------------------------------
(* Properties. *)

(* Plain lyrics get their times in the end, where whisper can give them,   *)
(* for a track that is not indexed before; unless lyrics for which that is *)
(* too late, or which whisper cannot time, fill the reaper's batch.        *)
TimedRow(t) == HasRow(t) /\ RowOf(t)[1].timed
Hopeless(t) == HasRow(t) /\ ~TimedRow(t) /\ (t \in Timeless \/ entry[t] = "indexed")
LyricsTimed ==
  \A t \in LyricTracks \ Timeless :
    HasRow(t) ~> \/ TimedRow(t) \/ entry[t] = "indexed"
                 \/ Cardinality({u \in LyricTracks \ {t} : Hopeless(u)}) >= AlignLimit
=============================================================================
