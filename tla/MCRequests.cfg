SPECIFICATION RequestsSpec
CONSTANTS
    Connections = {c1, c2}
    Symbols <- MCSymbols
    Boundary <- MCBoundary
    Parts <- MCParts
    Requests <- MCRequests
    BufferSize = 8
    UploadEnabled = TRUE
    Supported = {"song", "other"}
    TextOrder <- MCTextOrder
SYMMETRY Symmetry
INVARIANTS
    RequestsTypeOK
    DecidedHoweverCut
    FilesComeWhole
    TempFilesGone
    UploadsAddInOrder
\* Once every connection is closed, or AIMP has ended, nothing is left to do.
CHECK_DEADLOCK FALSE
