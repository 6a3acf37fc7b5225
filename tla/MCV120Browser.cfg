SPECIFICATION BrowserSpec
CONSTANTS
    Names = {"A", "B", "C"}
    Hash <- MCHash
    RNM_HASH_SIZE = 3
    MapLen = 96
    RowCounts = {4, 5}
    Paths = {"p"}
    Versions <- MCVersions
    UnnamedTop = 32
    WriteOffsets <- MCWriteOffsets
INVARIANTS
    BrowserTypeOK
    NameShownIsRight
PROPERTIES
    WritesStayOnMap
    NoKeyLeavesPage
    ChmodKeepsRegister
    GotoNameLands
\* A fault ends the program.
CHECK_DEADLOCK FALSE
