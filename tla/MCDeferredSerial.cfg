SPECIFICATION FairSpec
CONSTANTS
    o1 = o1
    o2 = o2
    t1 = t1
    Orders = {o1, o2}
    Ticks = {t1}
    MAX_ATTEMPTS = 2
    AttemptCap = 2
    MaxSid = 2
    Faults = {"no_token", "lost_reply", "throw", "no_id", "recover", "crash"}
    NoOrder = NoOrder
    NoSid = NoSid
INVARIANTS
    KnownOrderIsRecorded
    PlacedRowLooksPlaced
PROPERTIES
    QueuedRowSettles
CHECK_DEADLOCK FALSE
