SPECIFICATION Spec
CONSTANTS
    r1 = r1
    r2 = r2
    h1 = h1
    h2 = h2
    o1 = o1
    o2 = o2
    Orders = {o1, o2}
    Riders = {r1, r2}
    Slots = {h1, h2}
    Users <- Teams
    Admin = Admin
    Customer = Customer
    NoRider = NoRider
    NoOrder = NoOrder
    ForcedStatuses = {"cancelled"}
    Patched = {o1}
INVARIANTS
    TypeOK
    FreeHasNoJobs
PROPERTIES
    ImplementsJobBoard
    StatusFollowsTable
