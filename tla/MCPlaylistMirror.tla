-------------------------- MODULE MCPlaylistMirror --------------------------
(* PlaylistMirror on one playlist, for TLC. *)
EXTENDS PlaylistMirror, TLC

CONSTANTS p1

OnePlaylist == { p1 }

(* The newest manager, a change of each kind, and nothing fails. *)
Simplest == { [ manager |-> "3.6", playlists |-> OnePlaylist,
                changes |-> { { "NAME" }, { "CONTENT" } }, fails |-> FALSE ] }

=============================================================================
