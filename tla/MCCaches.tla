------------------------------- MODULE MCCaches -------------------------------
(***************************************************************************)
(* The queue's playlists, and the caches all users share.  ColdCache keeps *)
(* of an owner's queue only what its writes do to the shared row, so each  *)
(* of the two is explored on its own: `part' says which one moves.         *)
(***************************************************************************)
EXTENDS MCPlaylistSync, ColdCache

VARIABLE part
cacheVars == <<part, vars, coldVars>>

(* No caller, no listing: nothing of ColdCache can move. *)
NoColdCache ==
  /\ edits = 0 /\ gone = FALSE /\ copy = NoCopy /\ listed = FALSE /\ synced = "none"
  /\ caller = [c \in Callers |-> [pc |-> "absent"]] /\ thingLocked = FALSE
  /\ listing = [l \in Listings |-> [pc |-> "absent"]] /\ listLocked = FALSE
  /\ owner = NoWrite /\ settled = 0 /\ likes = 0 /\ lapses = 0
CachesInit ==
  /\ PlaylistInit
  /\ (part = "queue" /\ NoColdCache) \/ (part = "cold" /\ ColdInit)
CachesNext ==
  /\ \/ part = "queue" /\ PlaylistNext /\ UNCHANGED coldVars
     \/ part = "cold" /\ ColdNext /\ UNCHANGED vars
  /\ UNCHANGED part
CachesSpec ==
  CachesInit /\ [][CachesNext]_cacheVars /\ WF_vars(UpsertOwned \/ DeleteOrphans) /\ ColdFairness
=============================================================================
