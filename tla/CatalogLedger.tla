--------------------------- MODULE CatalogLedger ----------------------------
(***************************************************************************)
(* What the database promises whoever reads it while it is reseeded, free  *)
(* of table locks, transactions and failures: the catalog is there whole   *)
(* or not at all, the StockLedger moves only while it is there, and when   *)
(* it goes every reservation goes with it.  Seeding implements this.       *)
(***************************************************************************)
EXTENDS StockLedger

VARIABLE loaded         \* whether products, warehouses and inventory have their rows

catalogVars == <<vars, loaded>>

CatalogInit == Init /\ loaded \in BOOLEAN

\* reserve() and release()
Trade == loaded /\ Next /\ UNCHANGED loaded

\* reset_schema, at any time.
Unload ==
  /\ loaded' = FALSE
  /\ reservations' = [i \in Ids |-> NoReservation]
  /\ UNCHANGED on_hand

\* The catalog is generated from its seed: each time the stock is the same.
Load ==
  /\ ~loaded
  /\ loaded' = TRUE
  /\ UNCHANGED vars

CatalogNext == Trade \/ Unload \/ Load

CatalogSpec == CatalogInit /\ [][CatalogNext]_catalogVars
=============================================================================
