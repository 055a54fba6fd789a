SPECIFICATION Spec
CONSTANTS
    h1 = h1
    h2 = h2
    h3 = h3
    r1 = r1
    r2 = r2
    elsewhere = elsewhere
    Hops = {h1, h2, h3}
    Requests = {r1, r2}
    Plan <- TwoHops
    Timing <- FirstAuto
    Kitchen <- Own
    Dish <- Own
    Stop <- Own
    Previews = {h1, h3}
    Moves <- FirstMoves
    Modes <- WaitsOrOverlaps
    MaxSid = 3
    NoKitchen = NoKitchen
    NoStop = NoStop
INVARIANTS
    TypeOK
    AckedOrderIsRecorded
    OneImmediateOrder
    OrderHasItsItems
CHECK_DEADLOCK FALSE
