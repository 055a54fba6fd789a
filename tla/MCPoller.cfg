SPECIFICATION FairSpec
CONSTANTS
    o1 = o1
    o2 = o2
    c1 = c1
    c2 = c2
    c3 = c3
    Orders = {o1, o2}
    Chains = {c1, c2, c3}
    Faults = {"call", "throw", "crash"}
    NoChain = NoChain
    NoOrder = NoOrder
INVARIANTS
    TypeOK
    RegistryIsExact
PROPERTIES
    StatusCatchesUp
    TrackingEnds
