CONSTANTS
    Crates = {0, 1}
    Irqs = {0, 1, 2}
    ANYIRQ = {1, 2}
    Vectors = {0, 5, 9}
    ANYVECTOR = 9
    Payloads = {0, 7}
    OpenCrates = {0}
    Boards <- TwoLines
    MaxAsserts = 1
    Clients = {1}
    Asks <- TwoRequests
    Persistent = {}
    Refusing = {}
    Signals = {}
    AllowFakeIrq = FALSE
    MaxQueue = 4
SPECIFICATION Spec
INVARIANTS
    RepliesInTurn
CHECK_DEADLOCK FALSE
