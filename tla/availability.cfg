\* Three warehouses, one reader, two reservations that come and go around it.
SPECIFICATION SpecAvailability
CONSTANTS
  Products = {"bolt"}
  Skus = {"bolt", "unknown"}
  Warehouses = {1, 2, 3}
  MaxQuantity = 2
  MaxId = 2
  NoReservation = NoReservation
  StockLevels = {0, 1, 2}
  Distances <- MCDistances
  Regions = {"TX", "co", "ZZ"}
  Upper <- MCUpper
  None = None
  MaxMoments = 4
INVARIANTS
  AnswerIsOneMoment
  NearestIsBest
  BackorderMeansNothingLeft
