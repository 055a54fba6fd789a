SPECIFICATION Spec
CONSTANTS
    o1 = o1
    t1 = t1
    t2 = t2
    Orders = {o1}
    Ticks = {t1, t2}
    MAX_ATTEMPTS = 2
    AttemptCap = 3
    MaxSid = 3
    Faults = {}
    NoOrder = NoOrder
    NoSid = NoSid
INVARIANTS
    NoDuplicateDelivery
CHECK_DEADLOCK FALSE
