---------------------------- MODULE StockLedger -----------------------------
(***************************************************************************)
(* What reserve() and release() promise their callers, free of locks,      *)
(* connections, transactions and of the denormalised inventory.reserved    *)
(* counter: a ledger of reservations over a fixed stock.  A reservation is *)
(* granted only out of stock that no active reservation holds, and its     *)
(* units come back once.                                                   *)
(***************************************************************************)
EXTENDS ReservationTable

VARIABLES
  on_hand,        \* units physically in each stock row
  reservations    \* the reservations table

vars == <<on_hand, reservations>>

\* Available-to-promise, computed from the ledger itself.
Promisable(r) == on_hand[r] - Held(reservations, r)

Init ==
  /\ on_hand \in [Rows -> Nat]
  /\ reservations = [i \in Ids |-> NoReservation]

\* Mutant: stock of the product at any warehouse will do.
ReserveFromAnywhere(i, r, q) ==
  /\ reservations[i] = NoReservation
  /\ \E w \in Warehouses : q <= Promisable(<<r[1], w>>)
  /\ reservations' = [reservations EXCEPT ![i] = NewReservation(r, q)]
  /\ UNCHANGED on_hand

Reserve(i, r, q) ==
  /\ reservations[i] = NoReservation
  /\ q <= Promisable(r)
  /\ reservations' = [reservations EXCEPT ![i] = NewReservation(r, q)]
  /\ UNCHANGED on_hand

Release(i) ==
  /\ IsActive(reservations, i)
  /\ reservations' = [reservations EXCEPT ![i].status = "released"]
  /\ UNCHANGED on_hand

Next ==
  \E i \in Ids :
    \/ \E r \in Rows, q \in Quantities : Reserve(i, r, q)
    \/ Release(i)

Spec == Init /\ [][Next]_vars
=============================================================================
