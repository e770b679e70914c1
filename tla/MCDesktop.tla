----------------------------- MODULE MCDesktop -----------------------------
(***************************************************************************)
(* Instances of TrackCache and Player, the two native components of the    *)
(* desktop client.  They meet at one call (loadTrackWork awaits            *)
(* ensure_cached), so each is explored on its own: `part' says which.      *)
(***************************************************************************)
EXTENDS TrackCache, Player

VARIABLE part
desktopVars == <<part, cacheVars, playerVars>>

DesktopInit == part \in {"cache", "player"} /\ CacheInit /\ PlayerInit
DesktopNext ==
  /\ \/ part = "cache" /\ CacheNext /\ UNCHANGED playerVars
     \/ part = "player" /\ PlayerNext /\ UNCHANGED cacheVars
  /\ UNCHANGED part
DesktopSpec == DesktopInit /\ [][DesktopNext]_desktopVars /\ CacheFairness /\ PlayerFairness
=============================================================================
