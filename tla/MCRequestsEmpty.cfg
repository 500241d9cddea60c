SPECIFICATION RequestsSpec
CONSTANTS
    Connections = {c1}
    Symbols <- MCSymbols
    Boundary <- MCBoundary
    Parts <- MCParts
    Requests <- OneEmpty
    BufferSize = 40
    UploadEnabled = TRUE
    Supported = {"song", "other"}
    TextOrder <- MCTextOrder
INVARIANTS
    CompleteIsDecided
CHECK_DEADLOCK FALSE
