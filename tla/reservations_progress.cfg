\* Fair workers share one unit, one reservation id and two connections.
SPECIFICATION FairSpec
CONSTANTS
  w1 = w1  w2 = w2  w3 = w3
  Workers = {w1, w2, w3}
  PoolSize = 2
  Products = {"bolt"}
  Skus = {"bolt"}
  Warehouses = {"TXDAL"}
  WarehouseCodes = {"TXDAL"}
  MaxQuantity = 1
  StockLevels = {1}
  MaxId = 1
  NoReservation = NoReservation
  Nobody = Nobody
PROPERTIES
  EveryCallReturns
