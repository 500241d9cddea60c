SPECIFICATION ManagersSpec
CONSTANTS
    p1 = p1
    p2 = p2
    a = a
    b = b
    Playlists <- TwoPlaylists
    Environments <- AllEnvironments
    MaxQueued = 2
    PlaylistIds <- TwoPlaylists
    Tracks <- TwoTracks
    Contents <- SomeContents
    Users <- SomeUsers
    None = None
INVARIANTS
    TypeOK
    ChecksumTellsContent
    ListenersToldOfMirror
    RemovedLeavesNothing
    GatheredFlagsAreScheduled
    PeriodicTypeOK
    ChecksumOfRows
    ListenersToldByCheck
    CheckMirrorsAimp
PROPERTIES
    ChangesSettle
    GhostsNeedNewcomers
    MirrorSettles
\* A stopped service with every playlist unloaded takes no further step.
CHECK_DEADLOCK FALSE
