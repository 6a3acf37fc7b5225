SPECIFICATION LibrarySpec
CONSTANTS
    Crates = {0}
    Attached = {0}
    Handles = {"h1", "h2"}
    Regions = {"aligned", "crossing", "empty"}
    vme_addr <- MCAddr
    len <- MCLen
    config <- MCConfig
    Modes = {0, 1}
    PageSize = 2
    PageCount = 3
    FailingCalls = {"mmap", "mmap_ctrl"}
    MaxMaps <- MCMaxMaps
    Owns <- MCOwns
    Sparing = {"h2"}
    StartPages <- MCStartPages
    Setups <- MCSetups
INVARIANTS
    LibraryTypeOK
    RegionsReachTheirCard
    BasesAreMapped
    AllocationTiles
    NothingLeaks
PROPERTY
    OverrunOnlyOnFailure
