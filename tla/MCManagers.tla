----------------------------- MODULE MCManagers -----------------------------
(* Managers on few playlists, for TLC. *)
EXTENDS Managers, TLC

CONSTANTS p1, p2, a, b

TwoPlaylists == { p1, p2 }
TwoTracks == { a, b }

(* One flag for each thing handlePlaylistChange does, and two together. *)
SomeChanges == { { "NAME" }, { "CONTENT" }, { "SELECTION" }, { "FILEINFO", "FOCUSINDEX" } }

(* What tells properties from entries, for two playlists. *)
FewChanges == { { "NAME" }, { "CONTENT" } }

(* Two playlists and nothing fails, or one playlist and everything may. *)
Sound(m) == [ manager |-> m, playlists |-> TwoPlaylists, changes |-> FewChanges,
              fails |-> FALSE ]
Failing(m) == [ manager |-> m, playlists |-> { p1 }, changes |-> SomeChanges,
                fails |-> TRUE ]

AllEnvironments == { Sound(m) : m \in { "2.6", "3.0", "3.6" } }
                   \union { Failing(m) : m \in { "2.6", "3.0", "3.6" } }

(* No entry, one, two, and as many with others. *)
SomeContents == { << >>, << a >>, << b >>, << a, b >> }

SomeUsers == { [ contents |-> SomeContents, fails |-> FALSE ],
               [ contents |-> { << a >>, << a, b >> }, fails |-> TRUE ] }

=============================================================================
