SPECIFICATION Spec
CONSTANTS
  ann = ann
  ben = ben
  t1 = t1
  t2 = t2
  f1 = f1
  a1 = a1
  a1x = a1x
  b1 = b1
  p1 = p1
  ka = ka
  kb = kb
  j1 = j1
  j2 = j2
  Accounts = {ann, ben}
  Clients = {t1, t2}
  Flows = {f1}
  FlowAccount <- FlowsTo
  RoleOf <- RolesOf
  Slots = {1, 2}
  MaxToken = 2
  MaxAsking = 2
  Addresses = {"rider", "login"}
  Nobody = Nobody
  NoFlow = NoFlow
  SessionModes <- BrowsingModes
  Lines = {a1, a1x, b1, p1}
  ItemOf <- Items
  SoldBy <- Sellers
  Kitchens = {ka, kb}
  Store = Store
  NoKitchen = NoKitchen
  MaxQuantity = 2
  HopCap = 2
  Waiting = 2
  CheckoutModes <- BuyingModes
  Jobs = {j1, j2}
  NoJob = NoJob
  MaxCalls = 2
  ConsoleModes <- RidingModes
INVARIANTS
  WebTypes
  FlowExchangedOnce
  SettledUserOwnsToken
  NoRedirectLoop
  OrderedAsShown
  OrderedOnce
  ControlsActOnShown
  SharesOnDuty
