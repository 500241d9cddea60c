SPECIFICATION Spec
CONSTANTS
    p1 = p1
    Playlists <- OnePlaylist
    Environments <- Simplest
    MaxQueued = 2
INVARIANTS
    StaleIsScheduled
