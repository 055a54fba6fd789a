SPECIFICATION FairSpec
CONSTANTS
    o1 = o1
    c1 = c1
    Orders = {o1}
    Chains = {c1}
    Faults = {}
    NoChain = NoChain
    NoOrder = NoOrder
PROPERTIES
    DeliveryIsSeen
