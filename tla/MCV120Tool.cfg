SPECIFICATION ToolSpec
CONSTANTS
    Crates = {0, 1}
    Attached = {0, 1}
    Handles = {1, 2}
    Regions = {"words", "split", "toolong", "stdin", "bytes"}
    vme_addr <- MCAddr
    len <- MCLen
    config <- MCConfig
    Modes = {0, 1}
    PageSize = 4
    PageCount = 3
    FailingCalls = {}
    MaxMaps <- MCMaxMaps
    Jobs <- MCJobs
    StdinBuffer = 2
    FlashPages = {0, 1, 2}
    Answering <- MCAnswering
    ScanTop <- MCScanTop
    MacroFails = TRUE
INVARIANTS
    ToolTypeOK
    TransfersReachTheirCard
    FlashHoldsFile
    ReportsAreTrue
\* Every command ends.
CHECK_DEADLOCK FALSE
