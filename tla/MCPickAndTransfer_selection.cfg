CONSTANTS
    Library <- ThreeAlbums
    PageSize = 1
    NumColumns = 2
    MaxOverlap = 1
    MaxSwitches = 3
    MaxFailures = 2
    Parts <- MCParts
    MaxItems = 3
SPECIFICATION FlowSpec
INVARIANTS GridIsOfAlbum DragIsExact ResultsAddUp
PROPERTY QuietAfterEnd
CHECK_DEADLOCK FALSE
