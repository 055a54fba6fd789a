SPECIFICATION Spec
CONSTANTS
  o1 = o1
  o2 = o2
  j1 = j1
  j2 = j2
  w1 = w1
  w2 = w2
  w3 = w3
  boss = boss
  rick = rick
  Parcels = {o1, o2}
  Trip <- TripOf
  MaxFix = 1
  MaxFlight = 2
  TrackModes <- TrackingModes
  Nowhere = Nowhere
  Words = {w1, w2, w3}
  Near <- TooNear
  Demo <- DemoTexts
  MaxEdits = 2
  MaxJourneys = 2
  MaxAsked = 2
  PlanModes <- PlanningModes
  Short <- BriefTexts
  Suggests <- PlacesFor
  MaxFetches = 2
  FieldModes <- FillingModes
  NoWord = NoWord
  NoStop = NoStop
  AdminOrders = {o1}
  Staff = {boss, rick}
  Boss = boss
  NoRider = NoRider
  NoTimer = NoTimer
  OrderFilters = {"all", "pending"}
  MaxFeeds = 2
  MaxPresses = 2
  AdminModes <- ManagingModes
INVARIANTS
  PagesTypes
  SwitchedOffStaysOff
  FormMeansWhatItShows
  StopsAreOfJourney
PROPERTIES
  PageShowsItsOrder
  AdminCatchesUp
CHECK_DEADLOCK FALSE
