\* Four threads, two SKUs in two warehouses, two lots and three trials.
SPECIFICATION BenchSpec
CONSTANTS
  w1 = w1  w2 = w2  w3 = w3  w4 = w4
  Workers = {w1, w2, w3, w4}
  PoolSize = 3
  Products = {"bolt", "breaker"}
  Skus = {"bolt", "breaker"}
  Warehouses = {"TXDAL", "CALAX"}
  WarehouseCodes = {"TXDAL", "CALAX"}
  MaxQuantity = 2
  StockLevels = {3}
  MaxId = 7
  LifecycleRow <- MCLifecycleRow
  LifecycleStock = 3
  Lots <- MCLots
  Trials <- MCTrials
  NoReservation = NoReservation
  Nobody = Nobody
SYMMETRY Symmetry
INVARIANTS
  SoldExactly
  EveryCheckPasses
  OnlyFaultsAbort
  ReservedIsHeld
