-------------------------- MODULE ReservationTable --------------------------
(***************************************************************************)
(* The reservations table of catalog/schema.sql as data: which rows it may *)
(* hold, and how many units of one stock row its active rows promise.      *)
(*                                                                         *)
(* The table is a function from every id the bigserial sequence can issue  *)
(* to the row with that id, or to NoReservation.  The units promised are   *)
(* counted as the members of a set, one member per unit, so that sums are  *)
(* cardinalities.                                                          *)
(***************************************************************************)
EXTENDS Integers, FiniteSets

CONSTANTS
  Products,       \* products in the catalog (products.part_no)
  Warehouses,     \* warehouses of the catalog (warehouses.code)
  MaxQuantity,    \* largest quantity one request may ask for
  MaxId,          \* last value of the reservations id sequence
  NoReservation   \* "no row with this id"

\* Primary keys of the inventory table: seeding writes one row for every pair.
Rows == Products \X Warehouses

Ids == 1 .. MaxId

Quantities == 1 .. MaxQuantity

Reservation ==
  [row : Rows, quantity : Quantities, status : {"active", "released"}]

ReservationTables == [Ids -> Reservation \cup {NoReservation}]

ASSUME TableAssumption ==
  /\ MaxQuantity \in Nat
  /\ MaxId \in Nat
  /\ NoReservation \notin Reservation

\* The row an INSERT adds: the status column defaults to 'active'.
NewReservation(r, q) == [row |-> r, quantity |-> q, status |-> "active"]

IsActive(table, i) ==
  /\ table[i] # NoReservation
  /\ table[i].status = "active"

\* One element per unit of stock row r that an active reservation holds.
Units(table, r) ==
  {u \in Ids \X Quantities :
     /\ IsActive(table, u[1])
     /\ table[u[1]].row = r
     /\ u[2] <= table[u[1]].quantity}

Held(table, r) == Cardinality(Units(table, r))
=============================================================================
