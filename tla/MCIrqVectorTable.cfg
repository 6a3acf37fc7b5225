CONSTANTS
    Crates = {0, 1}
    Irqs = {0, 1, 2}
    ANYIRQ = {1, 2}
    Vectors = {0, 5, 9}
    ANYVECTOR = 9
    Payloads = {0, 1}
    Clients = {1, 2}
    Requests <- MCRequests
    INTERRUPT_VECTOR_INCR = 2
    MaxAllocated = 4
SPECIFICATION Spec
INVARIANTS
    TypeOK
    Contiguous
    NoShadow
    OwnerCanRelease
PROPERTIES
    ReleaseAllComplete
    RoutingStable
    ImplementsClaims
