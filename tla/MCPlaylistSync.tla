---------------------------- MODULE MCPlaylistSync ----------------------------
(* Instances of PlaylistSync for TLC. *)
EXTENDS PlaylistSync, TLC

PlaylistKinds == {"playlist_create", "playlist_update", "playlist_delete"}
CommentKinds  == {"comment"}
=============================================================================
