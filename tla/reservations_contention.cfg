\* Three workers contend for one stock row through a pool of two connections; a
\* request may name a SKU or a warehouse that does not exist.
SPECIFICATION Spec
CONSTANTS
  w1 = w1  w2 = w2  w3 = w3
  Workers = {w1, w2, w3}
  PoolSize = 2
  Products = {"bolt"}
  Skus = {"bolt", "unknown"}
  Warehouses = {"TXDAL"}
  WarehouseCodes = {"TXDAL", "NOWHERE"}
  MaxQuantity = 2
  StockLevels = {2}
  MaxId = 2
  NoReservation = NoReservation
  Nobody = Nobody
SYMMETRY Symmetry
INVARIANTS
  TypeOK
  ReservedIsHeld
  NeverOversold
  BackstopIdle
  LocksAreOwned
  NoDeadlock
PROPERTIES
  ReportedAtpIsCommitted
  RefusedOnlyWhenHeld
  ImplementsLedger
