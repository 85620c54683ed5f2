---------------------------- MODULE Reservations ----------------------------
(***************************************************************************)
(* inventory/reserve.py over db.py and catalog/schema.sql: threads of the  *)
(* request threadpool that run reserve() and release(), each call in one   *)
(* READ COMMITTED transaction on a pooled connection.  One action is one   *)
(* SQL statement together with the Python that runs up to the next one,    *)
(* so statements of different calls interleave freely.                     *)
(*                                                                         *)
(* Writes of a transaction stay in the call record until Commit publishes  *)
(* them; row locks are taken by SELECT ... FOR UPDATE and by UPDATE and    *)
(* are held to the end of the transaction.                                 *)
(***************************************************************************)
EXTENDS ReservationTable

CONSTANTS
  Workers,          \* threads that run request handlers
  PoolSize,         \* max_size of the connection pool
  Skus,             \* SKUs a request may name, known or not
  WarehouseCodes,   \* warehouse codes a request may name, known or not
  StockLevels,      \* values inventory.on_hand may be seeded with
  Nobody            \* "this row lock is free"

Cells == Skus \X WarehouseCodes

ASSUME ReservationsAssumption ==
  /\ IsFiniteSet(Workers)
  /\ Nobody \notin Workers
  /\ PoolSize \in Nat \ {0}
  /\ Products \subseteq Skus
  /\ Warehouses \subseteq WarehouseCodes
  /\ Cells # {}
  /\ StockLevels \subseteq Nat

VARIABLES
  inventory,         \* committed inventory rows
  reservations,      \* committed reservations rows
  next_id,           \* next value of the reservations id sequence
  stock_lock,        \* holder of each inventory row lock
  reservation_lock,  \* holder of each reservations row lock
  call               \* what each worker is doing

tables == <<inventory, reservations>>
locks  == <<stock_lock, reservation_lock>>
vars   == <<inventory, reservations, next_id, stock_lock, reservation_lock, call>>

-----------------------------------------------------------------------------
(* The call a worker is running: its arguments, its Python locals, and the *)
(* uncommitted value it has written to inventory.reserved.                 *)

ReserveSteps == {"find_product", "lock_stock", "add_reserved", "insert"}
ReleaseSteps == {"lock_reservation", "mark_released", "sub_reserved", "read_atp"}
Connected    == ReserveSteps \cup ReleaseSteps \cup {"commit", "rollback"}
Steps        == Connected \cup {"idle", "connect"}

Outcomes == {"none", "ok", "invalid", "not_found", "insufficient",
             "check_violation", "error"}

Unwritten == -1    \* pending, when the call has not updated inventory

Calls ==
  [step : Steps, op : {"reserve", "release"}, cell : Cells,
   quantity : Int, id : Int, atp : Int, pending : Int, outcome : Outcomes]

NoCall ==
  [step |-> "idle", op |-> "reserve", cell |-> CHOOSE c \in Cells : TRUE,
   quantity |-> 0, id |-> 0, atp |-> 0, pending |-> Unwritten, outcome |-> "none"]

Return(w, outcome) == call' = [call EXCEPT ![w] = [NoCall EXCEPT !.outcome = outcome]]

\* An exception inside the with-block: the transaction is rolled back next.
Fail(w, why) ==
  call' = [call EXCEPT ![w].step = "rollback", ![w].outcome = why]

InUse == {w \in Workers : call[w].step \in Connected}

\* A row lock is granted when it is free or already held by the transaction.
CanLock(lock, x, w) == lock[x] \in {Nobody, w}

EndTransaction(w) ==
  /\ stock_lock' =
       [r \in Rows |-> IF stock_lock[r] = w THEN Nobody ELSE stock_lock[r]]
  /\ reservation_lock' =
       [i \in Ids |-> IF reservation_lock[i] = w THEN Nobody ELSE reservation_lock[i]]

\* CHECK (reserved >= 0) and CONSTRAINT no_oversell CHECK (reserved <= on_hand).
ChecksPass(r, reserved) == 0 <= reserved /\ reserved <= inventory[r].on_hand

CommittedAtp(r) == inventory[r].on_hand - inventory[r].reserved

-----------------------------------------------------------------------------
(* The database as seeding leaves it, and no request yet.                  *)
Init ==
  /\ inventory \in [Rows -> [on_hand : StockLevels, reserved : {0}]]
  /\ reservations = [i \in Ids |-> NoReservation]
  /\ next_id = 1
  /\ stock_lock = [r \in Rows |-> Nobody]
  /\ reservation_lock = [i \in Ids |-> Nobody]
  /\ call = [w \in Workers |-> NoCall]

\* reserve() refuses a non-positive quantity before it touches the pool.
RejectQuantity(w, q) ==
  /\ call[w].step = "idle"
  /\ q <= 0
  /\ Return(w, "invalid")
  /\ UNCHANGED <<tables, next_id, locks>>

\* Mutant: the quantity is not validated.
StartReserveUnchecked(w, sku, code, q) ==
  /\ call[w].step = "idle"
  /\ call' = [call EXCEPT ![w] =
       [NoCall EXCEPT !.step = "connect", !.op = "reserve",
                      !.cell = <<sku, code>>, !.quantity = q]]
  /\ UNCHANGED <<tables, next_id, locks>>

StartReserve(w, sku, code, q) ==
  /\ call[w].step = "idle"
  /\ q > 0
  /\ call' = [call EXCEPT ![w] =
       [NoCall EXCEPT !.step = "connect", !.op = "reserve",
                      !.cell = <<sku, code>>, !.quantity = q]]
  /\ UNCHANGED <<tables, next_id, locks>>

StartRelease(w, i) ==
  /\ call[w].step = "idle"
  /\ call' = [call EXCEPT ![w] =
       [NoCall EXCEPT !.step = "connect", !.op = "release", !.id = i]]
  /\ UNCHANGED <<tables, next_id, locks>>

\* pool.connection(): blocks while all PoolSize connections are in use.
Connect(w) ==
  /\ call[w].step = "connect"
  /\ Cardinality(InUse) < PoolSize
  /\ call' = [call EXCEPT ![w].step =
       IF call[w].op = "reserve" THEN "find_product" ELSE "lock_reservation"]
  /\ UNCHANGED <<tables, next_id, locks>>

\* The pool gives up on a caller it could not serve in time.
PoolTimeout(w) ==
  /\ call[w].step = "connect"
  /\ Cardinality(InUse) >= PoolSize
  /\ Return(w, "error")
  /\ UNCHANGED <<tables, next_id, locks>>

-----------------------------------------------------------------------------
(* reserve() *)

\* SELECT id FROM products WHERE part_no = ...
FindProduct(w) ==
  /\ call[w].step = "find_product"
  /\ IF call[w].cell[1] \in Products
       THEN call' = [call EXCEPT ![w].step = "lock_stock"]
       ELSE Fail(w, "not_found")
  /\ UNCHANGED <<tables, next_id, locks>>

\* SELECT on_hand, reserved ... FOR UPDATE matches no row.
StockNotFound(w) ==
  /\ call[w].step = "lock_stock"
  /\ call[w].cell \notin Rows
  /\ Fail(w, "not_found")
  /\ UNCHANGED <<tables, next_id, locks>>

\* LockStock with the comparison and the locking left open, for its mutants.
ReadStock(w, refused, locked) ==
  /\ call[w].step = "lock_stock"
  /\ call[w].cell \in Rows
  /\ stock_lock' = [stock_lock EXCEPT ![call[w].cell] = IF locked THEN w ELSE @]
  /\ IF refused
       THEN Fail(w, "insufficient")
       ELSE call' = [call EXCEPT ![w].step = "add_reserved",
                                 ![w].atp = CommittedAtp(call[w].cell)]
  /\ UNCHANGED <<tables, next_id, reservation_lock>>

\* Mutant: a plain SELECT, without FOR UPDATE.
ReadWithoutLock(w) ==
  ReadStock(w, call[w].quantity > CommittedAtp(call[w].cell), FALSE)

\* Mutant: quantity >= atp, so that the last unit is never sold.
RefuseLastUnit(w) ==
  /\ ReadStock(w, call[w].quantity >= CommittedAtp(call[w].cell), TRUE)
  /\ CanLock(stock_lock, call[w].cell, w)

\* Mutant: FOR UPDATE SKIP LOCKED, a locked row counts as one without stock.
SkipLocked(w) ==
  LET r == call[w].cell
      free == CanLock(stock_lock, r, w)
  IN ReadStock(w, ~free \/ call[w].quantity > CommittedAtp(r), free)

\* SELECT on_hand, reserved ... FOR UPDATE: waits for the row lock, reads the
\* version committed last, and compares the request with it.
LockStock(w) ==
  LET r == call[w].cell IN
  /\ call[w].step = "lock_stock"
  /\ r \in Rows
  /\ CanLock(stock_lock, r, w)
  /\ stock_lock' = [stock_lock EXCEPT ![r] = w]
  /\ IF call[w].quantity > CommittedAtp(r)
       THEN Fail(w, "insufficient")
       ELSE call' = [call EXCEPT ![w].step = "add_reserved",
                                 ![w].atp = CommittedAtp(r)]
  /\ UNCHANGED <<tables, next_id, reservation_lock>>

\* Mutant: the update forgets the quantity.
AddNothing(w) ==
  LET r == call[w].cell IN
  /\ call[w].step = "add_reserved"
  /\ CanLock(stock_lock, r, w)
  /\ stock_lock' = [stock_lock EXCEPT ![r] = w]
  /\ call' = [call EXCEPT ![w].step = "insert", ![w].pending = inventory[r].reserved]
  /\ UNCHANGED <<tables, next_id, reservation_lock>>

\* UPDATE inventory SET reserved = reserved + quantity, under the CHECKs.
AddReserved(w) ==
  LET r == call[w].cell
      n == inventory[r].reserved + call[w].quantity
  IN
  /\ call[w].step = "add_reserved"
  /\ CanLock(stock_lock, r, w)
  /\ stock_lock' = [stock_lock EXCEPT ![r] = w]
  /\ IF ChecksPass(r, n)
       THEN call' = [call EXCEPT ![w].step = "insert", ![w].pending = n]
       ELSE Fail(w, "check_violation")
  /\ UNCHANGED <<tables, next_id, reservation_lock>>

\* INSERT INTO reservations ... RETURNING id.  The sequence is not rolled back
\* with the transaction, and raises an error once it is exhausted.
InsertReservation(w) ==
  /\ call[w].step = "insert"
  /\ IF next_id \in Ids
       THEN /\ call' = [call EXCEPT ![w].step = "commit", ![w].id = next_id]
            /\ next_id' = next_id + 1
       ELSE /\ Fail(w, "error")
            /\ UNCHANGED next_id
  /\ UNCHANGED <<tables, locks>>

-----------------------------------------------------------------------------
(* release() *)

\* SELECT ... FROM reservations WHERE id = ... FOR UPDATE sees no committed row.
ReservationNotFound(w) ==
  /\ call[w].step = "lock_reservation"
  /\ reservations[call[w].id] = NoReservation
  /\ Fail(w, "not_found")
  /\ UNCHANGED <<tables, next_id, locks>>

\* Mutant: a plain SELECT of the reservation, so that its status may be stale.
ReadReservationWithoutLock(w) ==
  LET i == call[w].id IN
  /\ call[w].step = "lock_reservation"
  /\ reservations[i] # NoReservation
  /\ call' = [call EXCEPT
       ![w].step = IF reservations[i].status # "released"
                     THEN "mark_released" ELSE "read_atp",
       ![w].cell = reservations[i].row,
       ![w].quantity = reservations[i].quantity]
  /\ UNCHANGED <<tables, next_id, locks>>

\* SELECT ... FOR UPDATE: waits for the reservation's lock, reads the version
\* committed last, and skips both updates when it is already released.
LockReservation(w) ==
  LET i == call[w].id IN
  /\ call[w].step = "lock_reservation"
  /\ reservations[i] # NoReservation
  /\ CanLock(reservation_lock, i, w)
  /\ reservation_lock' = [reservation_lock EXCEPT ![i] = w]
  /\ call' = [call EXCEPT
       ![w].step = IF reservations[i].status # "released"
                     THEN "mark_released" ELSE "read_atp",
       ![w].cell = reservations[i].row,
       ![w].quantity = reservations[i].quantity]
  /\ UNCHANGED <<tables, next_id, stock_lock>>

\* UPDATE reservations SET status = 'released': the row lock is already held.
MarkReleased(w) ==
  /\ call[w].step = "mark_released"
  /\ CanLock(reservation_lock, call[w].id, w)
  /\ reservation_lock' = [reservation_lock EXCEPT ![call[w].id] = w]
  /\ call' = [call EXCEPT ![w].step = "sub_reserved"]
  /\ UNCHANGED <<tables, next_id, stock_lock>>

\* UPDATE inventory SET reserved = reserved - quantity: waits for the stock
\* row's lock and computes from the version committed last.
SubReserved(w) ==
  LET r == call[w].cell
      n == inventory[r].reserved - call[w].quantity
  IN
  /\ call[w].step = "sub_reserved"
  /\ CanLock(stock_lock, r, w)
  /\ stock_lock' = [stock_lock EXCEPT ![r] = w]
  /\ IF ChecksPass(r, n)
       THEN call' = [call EXCEPT ![w].step = "read_atp", ![w].pending = n]
       ELSE Fail(w, "check_violation")
  /\ UNCHANGED <<tables, next_id, reservation_lock>>

\* SELECT on_hand - reserved: sees the transaction's own update, or else the
\* version committed last; takes no lock.
ReadAtp(w) ==
  LET r == call[w].cell IN
  /\ call[w].step = "read_atp"
  /\ call' = [call EXCEPT
       ![w].step = "commit",
       ![w].atp = IF call[w].pending = Unwritten
                    THEN CommittedAtp(r)
                    ELSE inventory[r].on_hand - call[w].pending]
  /\ UNCHANGED <<tables, next_id, locks>>

-----------------------------------------------------------------------------
(* End of the transaction *)

\* The rows the transaction wrote become the committed ones.
Publish(w) ==
  LET c == call[w] IN
  IF c.pending = Unwritten
    THEN UNCHANGED tables
    ELSE /\ inventory' = [inventory EXCEPT ![c.cell].reserved = c.pending]
         /\ reservations' =
              IF c.op = "reserve"
                THEN [reservations EXCEPT ![c.id] = NewReservation(c.cell, c.quantity)]
                ELSE [reservations EXCEPT ![c.id].status = "released"]

\* Mutant: reserve() answers with the ATP it read.
ReadAtpReported(c) == c.atp

\* The ATP the response carries: remaining_atp or restored_atp.
ReportedAtp(c) == IF c.op = "reserve" THEN c.atp - c.quantity ELSE c.atp

Commit(w) ==
  /\ call[w].step = "commit"
  /\ Publish(w)
  /\ EndTransaction(w)
  /\ Return(w, "ok")
  /\ UNCHANGED next_id

\* Mutant: the connection goes back to the pool without a rollback.
RollbackForgotten(w) ==
  /\ call[w].step = "rollback"
  /\ Return(w, call[w].outcome)
  /\ UNCHANGED <<tables, next_id, locks>>

Rollback(w) ==
  /\ call[w].step = "rollback"
  /\ EndTransaction(w)
  /\ Return(w, call[w].outcome)
  /\ UNCHANGED <<tables, next_id>>

\* The connection or the server fails while the transaction is open.
ConnectionLost(w) ==
  /\ call[w].step \in Connected \ {"rollback"}
  /\ Fail(w, "error")
  /\ UNCHANGED <<tables, next_id, locks>>

\* The server commits but its answer is lost: the caller sees an error.
CommitAnswerLost(w) ==
  /\ call[w].step = "commit"
  /\ Publish(w)
  /\ EndTransaction(w)
  /\ Return(w, "error")
  /\ UNCHANGED next_id

-----------------------------------------------------------------------------
Start(w) ==
  \/ \E q \in 0 .. MaxQuantity :
       \/ RejectQuantity(w, q)
       \/ \E sku \in Skus, code \in WarehouseCodes : StartReserve(w, sku, code, q)
  \/ \E i \in Ids : StartRelease(w, i)

Fault(w) == PoolTimeout(w) \/ ConnectionLost(w) \/ CommitAnswerLost(w)

ReserveStep(w) ==
  \/ FindProduct(w) \/ StockNotFound(w) \/ LockStock(w)
  \/ AddReserved(w) \/ InsertReservation(w)

ReleaseStep(w) ==
  \/ ReservationNotFound(w) \/ LockReservation(w) \/ MarkReleased(w)
  \/ SubReserved(w) \/ ReadAtp(w)

\* What a worker does once it has a request, faults apart.
Step(w) ==
  Connect(w) \/ ReserveStep(w) \/ ReleaseStep(w) \/ Commit(w) \/ Rollback(w)

Next == \E w \in Workers : Start(w) \/ Step(w) \/ Fault(w)

Spec == Init /\ [][Next]_vars

(* A started call keeps running, and a waiter on the pool or on a row lock *)
(* is served in turn: the pool's waiting list and Postgres' lock queue are *)
(* first-in first-out.  Requests need not arrive and faults need not occur.*)
Fairness == \A w \in Workers : SF_vars(Step(w))

FairSpec == Spec /\ Fairness

-----------------------------------------------------------------------------
(* Properties *)

\* Every variable keeps its type; in particular reserved stays a natural number
\* although release() subtracts from it, and ids stay within the sequence.
TypeOK ==
  /\ inventory \in [Rows -> [on_hand : Nat, reserved : Nat]]
  /\ reservations \in ReservationTables
  /\ next_id \in 1 .. MaxId + 1
  /\ stock_lock \in [Rows -> Workers \cup {Nobody}]
  /\ reservation_lock \in [Ids -> Workers \cup {Nobody}]
  /\ call \in [Workers -> Calls]

\* The denormalised counter never drifts from the reservations it stands for:
\* reserved = reserved +/- quantity and the row it accounts for commit together,
\* once per reservation and once per release (reserve.py:54-68, 94-105).
ReservedIsHeld ==
  \A r \in Rows : inventory[r].reserved = Held(reservations, r)

\* Zero oversell, stated on the reservations themselves and not on the counter:
\* the active ones never promise more than is on the shelf (reserve.py:1-8).
NeverOversold ==
  \A r \in Rows : Held(reservations, r) <= inventory[r].on_hand

\* The CHECKs are a backstop "behind the lock" (reserve.py:6-7): the code's own
\* locking and arithmetic never let an UPDATE reach them.
BackstopIdle == \A w \in Workers : call[w].outcome # "check_violation"

\* No row lock outlives its transaction: a lock is held only by a worker whose
\* open transaction touched that very row.
LocksAreOwned ==
  /\ \A r \in Rows : stock_lock[r] # Nobody =>
       /\ call[stock_lock[r]].step \in Connected
       /\ call[stock_lock[r]].cell = r
  /\ \A i \in Ids : reservation_lock[i] # Nobody =>
       /\ call[reservation_lock[i]].step \in Connected
       /\ call[reservation_lock[i]].id = i

\* The workers that worker w is waiting for: whoever holds the row lock it
\* needs, or, when the pool is exhausted, everyone with a connection.
Blockers(w) ==
  LET c == call[w] IN
  CASE c.step = "connect" -> IF Cardinality(InUse) < PoolSize THEN {} ELSE InUse
    [] c.step \in {"lock_stock", "add_reserved", "sub_reserved"} ->
         IF c.cell \in Rows /\ ~CanLock(stock_lock, c.cell, w)
           THEN {stock_lock[c.cell]} ELSE {}
    [] c.step \in {"lock_reservation", "mark_released"} ->
         IF ~CanLock(reservation_lock, c.id, w)
           THEN {reservation_lock[c.id]} ELSE {}
    [] OTHER -> {}

\* Nobody waits for ever: among any workers at least one waits for nobody in
\* the group.  release() locks the reservation first and the stock row second,
\* reserve() the stock row only, and no call takes a second connection.
NoDeadlock ==
  \A S \in (SUBSET Workers) \ {{}} :
    \E w \in S : Blockers(w) = {} \/ ~(Blockers(w) \subseteq S)

\* The ATP in the answer to a call that wrote is the ATP it committed, whatever
\* other calls did since the call read it (reserve.py:75, 107-119).
ReportedAtpIsCommitted ==
  [][\A w \in Workers :
       LET r == call[w].cell IN
       (/\ call[w].step = "commit"
        /\ call[w].pending # Unwritten
        /\ call'[w].outcome = "ok")
       => ReportedAtp(call[w]) = inventory'[r].on_hand - inventory'[r].reserved]_vars

\* InsufficientStockError is raised only when the active reservations leave
\* less than was asked for (reserve.py:47-52).
RefusedOnlyWhenHeld ==
  [][\A w \in Workers :
       LET r == call[w].cell IN
       (/\ call[w].outcome = "none"
        /\ call'[w].outcome = "insufficient")
       => call[w].quantity > inventory[r].on_hand - Held(reservations, r)]_vars

\* The calls implement the ledger: whatever happens is explained by grants out
\* of unheld stock and by each reservation being given back at most once.
Ledger == INSTANCE StockLedger WITH on_hand <- [r \in Rows |-> inventory[r].on_hand]

ImplementsLedger == Ledger!Spec

\* Every request that gets a worker is answered: the pool, both row locks and
\* the error paths are all left again.
EveryCallReturns ==
  \A w \in Workers : call[w].step # "idle" ~> call[w].step = "idle"
=============================================================================
