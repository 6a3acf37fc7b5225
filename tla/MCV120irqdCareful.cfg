CONSTANTS
    Crates = {0, 1}
    Irqs = {0, 1, 2}
    ANYIRQ = {1, 2}
    Vectors = {0, 5, 9}
    ANYVECTOR = 9
    Payloads = {0, 7}
    OpenCrates = {0, 1}
    Boards <- TwoLines
    MaxAsserts = 1
    Clients = {1, 2}
    Asks <- CarefulOne
    Persistent = {}
    Refusing = {1}
    Signals = {}
    AllowFakeIrq = TRUE
    MaxQueue = 4
SPECIFICATION Spec
INVARIANTS
    OneInterruptAtATime
    AnswersOnly
    NoMutualWait
CHECK_DEADLOCK FALSE
