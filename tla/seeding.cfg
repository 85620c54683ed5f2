\* Two seeders reset and load under two workers that share two units of stock.
SPECIFICATION Spec
CONSTANTS
  w1 = w1  w2 = w2  s1 = s1  s2 = s2
  Workers = {w1, w2}
  Seeders = {s1, s2}
  Products = {"bolt"}
  Warehouses = {"TXDAL"}
  MaxQuantity = 2
  MaxId = 2
  NoReservation = NoReservation
  OnHand <- MCOnHand
SYMMETRY Symmetry
INVARIANTS
  BooksBalance
  StockIsFound
PROPERTIES
  SeededIsFresh
  ImplementsCatalogLedger
