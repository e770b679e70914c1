----------------------------- MODULE MCLikesSync -----------------------------
(* Instances of LikesSync for TLC. *)
EXTENDS LikesSync, TLC

TrackLikes == {"like_track", "unlike_track"}
Follows    == {"follow_user", "unfollow_user"}

Symmetry == Permutations(Ids) \cup Permutations(Handlers) \cup Permutations(Flushers)
=============================================================================
