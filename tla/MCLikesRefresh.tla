---------------------------- MODULE MCLikesRefresh ----------------------------
(* Instances of LikesRefresh for TLC. *)
EXTENDS LikesRefresh

TrackLikes == {"like_track", "unlike_track"}
=============================================================================
