SPECIFICATION Spec
CONSTANTS
  c1 = c1
  h1 = h1
  h2 = h2
  q1 = q1
  q2 = q2
  w1 = w1
  w2 = w2
  w3 = w3
  u1 = u1
  u2 = u2
  k1 = k1
  k2 = k2
  Clients = {c1}
  Handlers = {h1, h2}
  Limit = 2
  Window = 9
  PerSecond = 3
  LimitModes <- LimitingModes
  MaxLimitFaults = 1
  Callers = {q1, q2}
  Words = {w1, w2, w3}
  Capacity = 2
  Ttl = 2
  TokenLife = 3
  TokenMargin = 1
  AdcPause = 2
  MaxWait = 1
  Analyses <- TripSet
  Surveys <- SurveySet
  Unknown = Unknown
  RoughAreas <- AreaSet
  Skies <- SkySet
  Airs <- AirSet
  ReachOutcomes <- GotSet
  SnapShifts = {0, 1}
  FallbackParts = 4
  MaxPoints = 2
  IntervalMeters = 5
  MinScore = 50
  TopKHeapThreshold = 3
  TopKPoolMultiplier = 2
  GeohashThreshold = 3
  Runs <- RunSet
  StationPlaces <- StationAt
  Travellers <- TravellerSet
  Nothing = Nothing
  StationMeters = 7
  StopCounts = {0, 2, 3}
  Travel <- TravelOf
  CrowFlies <- CrowOf
  Blocked <- BlockedSets
  NoRoute = NoRoute
  LocalLimit = 2
  StepCounts = {0, 3}
  CloudEnabled = TRUE
  Questions <- QuestionSet
  None = None
  FoodCap = 12
  InstamartMin = 4
  Accounts = {u1, u2}
  Stops <- StopSet
  Workers = {k1, k2}
  Errands <- ErrandSet
  StoredZones <- ZoneSet
  Kitchens <- KitchenList
  RideTimes <- RideTimeSet
  Absent = Absent
SYMMETRY Alike
INVARIANTS
  LimiterKeepsItsWord
  CachesKeepTheirWord
  PlacesAreWellChosen
  PlansAreSound
  CatalogKeepsItsWord
CHECK_DEADLOCK FALSE
