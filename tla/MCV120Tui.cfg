SPECIFICATION TuiSpec
CONSTANTS
    Crates = {0, 1}
    Attached = {1}
    Handles = {0, 1}
    Regions = {1, 2}
    vme_addr <- MCAddr
    len <- MCLen
    config <- MCConfig
    Modes = {0, 1}
    PageSize = 2
    PageCount = 4
    FailingCalls = {"mmap"}
    MaxMaps <- MCMaxMaps
    Buffers = {11, 12, 13, 14}
    Scripts <- MCScripts
    Startup = 1
    Typed <- MCTyped
    SignBit = 8
    BufferRows = 2
    NTOKENS = 3
INVARIANTS
    TuiTypeOK
    BuffersSound
    BrowsersShowTheirCard
PROPERTY
    QuitReleases
\* The program may end.
CHECK_DEADLOCK FALSE
