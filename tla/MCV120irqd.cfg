CONSTANTS
    Crates = {0, 1}
    Irqs = {0, 1, 2}
    ANYIRQ = {1, 2}
    Vectors = {0, 5, 9}
    ANYVECTOR = 9
    Payloads = {0, 7}
    OpenCrates = {0}
    Boards <- TwoLines
    MaxAsserts = 1
    Clients = {1, 2}
    Asks <- FreeAsks
    Persistent = {}
    Refusing = {1}
    Signals = {}
    AllowFakeIrq = TRUE
    MaxQueue = 4
SPECIFICATION Spec
INVARIANTS
    TypeOK
    PollListComplete
    ClaimsHaveConnections
    NoLostInterrupt
    InterruptsAreClaimed
PROPERTIES
    ClaimedLineStaysEnabled
    OnlyOwnersRelease
CHECK_DEADLOCK FALSE
