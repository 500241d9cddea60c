SPECIFICATION RequestsSpec
CONSTANTS
    Connections = {c1}
    Symbols <- MCSymbols
    Boundary <- MCBoundary
    Parts <- MCParts
    Requests <- OneUrl
    BufferSize = 40
    UploadEnabled = TRUE
    Supported = {"song", "other"}
    TextOrder <- MCTextOrder
INVARIANTS
    TextFieldsComeWhole
CHECK_DEADLOCK FALSE
