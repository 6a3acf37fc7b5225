CONSTANTS
    Crates = {0, 1}
    Irqs = {0, 1, 2}
    ANYIRQ = {1, 2}
    Vectors = {0, 5, 9}
    ANYVECTOR = 9
    Payloads = {0, 7}
    OpenCrates = {0}
    Boards <- TwoLines
    MaxAsserts = 1
    Clients = {1, 2}
    Asks <- CarefulBoth
    Persistent = {1, 2}
    Refusing = {}
    Signals = {"SIGTERM", "SIGUSR1"}
    AllowFakeIrq = FALSE
    MaxQueue = 4
SPECIFICATION Spec
PROPERTIES
    CallsReturn
    InterruptsServed
    Terminates
CHECK_DEADLOCK FALSE
