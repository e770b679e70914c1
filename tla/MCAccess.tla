----------------------------- MODULE MCAccess -----------------------------
(***************************************************************************)
(* Instances of what a client's request meets: signing in and linking, the *)
(* cache of lists, the streaming server and its anonymous client id, the   *)
(* recommendations, a user's taste, what trains the models on it, the      *)
(* pages of the catalogue.  They share no state that a module keeps, so    *)
(* each is explored on its own: `part' says which one moves.               *)
(***************************************************************************)
EXTENDS SignIn, ListCache, Streaming, Waves, Taste, Trainers, Discover

(* A track of one artist, and one of two. *)
Primaries == [t \in Tunes |-> IF t = 1 THEN {"a"} ELSE {"a", "b"}]

VARIABLE part

(* Two names and two titles are level; all tracks, albums and accounts are *)
(* the first artist's until an admin or the enrichment moves them.         *)
NameRanks == [i \in Artists \cup Albums |-> IF i = 3 THEN 2 ELSE 1]
GenreOfTracks == [t \in Recordings |-> t]
ReleaseDates == [t \in Recordings |-> IF t = 1 THEN 15 ELSE None]
FirstArtist == [x \in Recordings |-> 1]
FirstArtistOfAlbums == [d \in Albums |-> 1]
FirstArtistOfAccounts == [u \in Accounts |-> 1]

(* The rows a walk meets, many of them level; the rows a refresh meets: new *)
(* ones, or what was counted when there was more; the rows of a spotlight.  *)
NewArtists == {[a \in Artists |-> NoArtist]}
NewAlbums == {[d \in Albums |-> NoAlbum]}
LevelArtists ==
  [Artists -> {[NoArtist EXCEPT !.tracks = 2 - p, !.listeners = p, !.trending = p, !.tags = {1}, !.star = s] :
               p \in 0..1, s \in BOOLEAN}]
LevelAlbums ==
  [Albums -> {[NoAlbum EXCEPT !.tracks = 2 - p, !.popularity = p, !.year = y[1], !.date = y[2]] :
              p \in 0..1, y \in {<<None, None>>, <<1, None>>, <<1, 10>>, <<1, 15>>}}]
LeftArtists ==
  NewArtists \cup {[a \in Artists |-> [merged |-> FALSE, tracks |-> 1, feats |-> 1, records |-> 1,
                      listeners |-> 1, trending |-> 1, tags |-> {1}, star |-> TRUE]]}
LeftAlbums == NewAlbums \cup {[d \in Albums |-> [tracks |-> 1, popularity |-> 1, star |-> TRUE,
                                                year |-> 1, date |-> 10]]}
SpotArtists == {[a \in Artists |-> [NoArtist EXCEPT !.feats = 1, !.star = (a # 1), !.merged = (a = 3) /\ m]] :
                m \in BOOLEAN}
CatalogueInit ==
  \/ part = "walk" /\ DiscoverInit(LevelArtists, NewAlbums)
  \/ part = "walk" /\ DiscoverInit(NewArtists, LevelAlbums)
  \/ part = "refresh" /\ DiscoverInit(LeftArtists, LeftAlbums)
  \/ part = "spotlight" /\ DiscoverInit(SpotArtists, NewAlbums)
  \/ part \notin {"walk", "refresh", "spotlight"} /\ DiscoverInit(NewArtists, NewAlbums)
CatalogueNext ==
  \/ part = "walk" /\ WalkNext
  \/ part = "refresh" /\ (FactsChange \/ RefreshAggregates)
  \/ part = "spotlight" /\ (AdminNext \/ SettingsNext \/ SpotNext)

accessVars == <<part, signInVars, listVars, streamVars, waveVars, tasteVars, trainersVars, discoverVars>>

AccessInit ==
  /\ part \in {"login", "link", "list", "store", "anon", "wave", "taste", "unlisted", "vector", "train", "cron",
              "walk", "refresh", "spotlight"}
  /\ CatalogueInit
  /\ SignInInit /\ ListInit /\ StreamInit /\ WavesInit /\ TasteInit /\ TrainersInit
  /\ \A s \in Songs : listed[s] = "none" <=> part # "taste"

(* What goes wrong with a user's taste goes wrong one at a time.  "taste"   *)
(* starts with a track that is in indexed_tracks, "unlisted" with one that *)
(* is not; in "vector" it stays out, and the cached vector moves too.      *)
Complications == upsets + hates + (IF split THEN 1 ELSE 0)

AccessNext ==
  /\ \/ part = "login" /\ (LoginNext \/ Restart) /\ UNCHANGED <<listVars, streamVars, waveVars, tasteVars, trainersVars, discoverVars>>
     \/ part = "link" /\ (LinkNext \/ Restart) /\ UNCHANGED <<listVars, streamVars, waveVars, tasteVars, trainersVars, discoverVars>>
     \/ part = "list" /\ ListNext /\ UNCHANGED <<signInVars, streamVars, waveVars, tasteVars, trainersVars, discoverVars>>
     \/ part = "store" /\ (StoreNext \/ ServerRestarts) /\ UNCHANGED <<signInVars, listVars, waveVars, tasteVars, trainersVars, discoverVars>>
     \/ part = "anon" /\ (AnonNext \/ ServerRestarts) /\ UNCHANGED <<signInVars, listVars, waveVars, tasteVars, trainersVars, discoverVars>>
     \/ part = "wave" /\ WavesNext /\ UNCHANGED <<signInVars, listVars, streamVars, tasteVars, trainersVars, discoverVars>>
     \/ part = "taste" /\ EventsNext /\ Complications' <= 1
        /\ UNCHANGED <<signInVars, listVars, streamVars, waveVars, trainersVars, discoverVars>>
     \/ part = "unlisted" /\ EventsNext /\ Complications' = 0
        /\ UNCHANGED <<signInVars, listVars, streamVars, waveVars, trainersVars, discoverVars>>
     \/ part = "vector" /\ TasteNext /\ Complications' = 0 /\ listed' = listed
        /\ UNCHANGED <<signInVars, listVars, streamVars, waveVars, trainersVars, discoverVars>>
     \/ part = "train" /\ TrainNext /\ UNCHANGED <<signInVars, listVars, streamVars, waveVars, tasteVars, discoverVars>>
     \/ part = "cron" /\ CronNext /\ UNCHANGED <<signInVars, listVars, streamVars, waveVars, tasteVars, discoverVars>>
     \/ CatalogueNext
        /\ UNCHANGED <<signInVars, listVars, streamVars, waveVars, tasteVars, trainersVars>>
  /\ UNCHANGED part

AccessSpec == AccessInit /\ [][AccessNext]_accessVars
=============================================================================
