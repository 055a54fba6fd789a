SPECIFICATION Spec
CONSTANTS
    h1 = h1
    h2 = h2
    h3 = h3
    r1 = r1
    r2 = r2
    elsewhere = elsewhere
    Hops = {h1, h2, h3}
    Requests = {r1, r2}
    Plan <- TwoHops
    Timing <- AllNow
    Kitchen <- Own
    Dish <- Own
    Stop <- Own
    Previews = {}
    Moves = {}
    MaxSid = 3
    Modes <- Calm
    NoKitchen = NoKitchen
    NoStop = NoStop
PROPERTIES
    RefusedOnlyIfDuplicate
CHECK_DEADLOCK FALSE
