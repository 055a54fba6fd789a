SPECIFICATION Spec
CONSTANTS
    o1 = o1
    t1 = t1
    t2 = t2
    Orders = {o1}
    Ticks = {t1, t2}
    MAX_ATTEMPTS = 2
    AttemptCap = 2
    MaxSid = 3
    Faults = {"no_token", "lost_reply", "throw", "no_id", "recover", "crash"}
    NoOrder = NoOrder
    NoSid = NoSid
SYMMETRY Symmetry
INVARIANTS
    TypeOK
    AckedIsHeldOrPlaced
    DuplicatesAreAccountedFor
PROPERTIES
    SettledStaysSettled
CHECK_DEADLOCK FALSE
