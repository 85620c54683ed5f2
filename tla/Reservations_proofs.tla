------------------------- MODULE Reservations_proofs ------------------------
(***************************************************************************)
(* Reservations is correct for every catalog, every number of workers and  *)
(* connections, every stock and every id range.  The argument is one       *)
(* inductive invariant, IInv: each worker's uncommitted work agrees with   *)
(* the committed tables as long as the worker holds the row locks that its *)
(* step entitles it to.                                                    *)
(*                                                                         *)
(* The second part proves the bench that runs on it, with an invariant of  *)
(* its own, BenchIInv, of which IInv is a conjunct: it says what each      *)
(* phase of the bench has done to the tables so far.  InventoryBench is    *)
(* extended for that part only: nothing before it cites its definitions or *)
(* its assumption.                                                         *)
(***************************************************************************)
EXTENDS InventoryBench, ReservationTable_proofs

-----------------------------------------------------------------------------
(* The inductive invariant *)

\* reserve() past its FOR UPDATE, with its grant not committed yet.
Reserving(c) == c.op = "reserve" /\ c.step \in {"add_reserved", "insert", "commit"}

\* release() past its status check, with the return not committed yet.
Releasing(c) ==
  /\ c.op = "release"
  /\ \/ c.step \in {"mark_released", "sub_reserved"}
     \/ c.step \in {"read_atp", "commit"} /\ c.pending # Unwritten

\* reserve() with the id of its new row in hand.
Inserted(c) == c.op = "reserve" /\ c.step = "commit"

\* The steps at which a call is sure to own the lock of its stock row.
HoldsStock(c) ==
  Reserving(c) \/ (Releasing(c) /\ c.step \in {"read_atp", "commit"})

\* The steps at which a call is sure to own the lock of its reservation.
HoldsReservation(c) ==
  /\ c.op = "release"
  /\ c.step \in {"mark_released", "sub_reserved", "read_atp", "commit"}

\* Which operation runs which steps, and on which arguments.
ArgumentsOK(c) ==
  /\ c.op = "reserve" => c.step \notin ReleaseSteps
  /\ c.op = "release" => c.step \notin ReserveSteps
  /\ c.op = "release" /\ c.step # "idle" => c.id \in Ids
  /\ c.op = "reserve" /\ c.step \notin {"idle", "rollback"} => c.quantity \in Quantities
  /\ c.step \in {"connect", "lock_reservation"} => c.pending = Unwritten
  /\ HoldsReservation(c) => c.cell \in Rows
  /\ c.step \notin {"idle", "rollback"} => c.outcome = "none"

\* Worker w holds its stock row's lock from the statement that took it to the
\* end of the transaction, and no other stock row's.
StockLockOK(w) ==
  LET c == call[w] IN
  /\ \A r \in Rows : stock_lock[r] = w =>
       /\ c.cell = r
       /\ c.step \in {"add_reserved", "insert", "read_atp", "commit", "rollback"}
  /\ HoldsStock(c) => c.cell \in Rows /\ stock_lock[c.cell] = w

\* The same for the lock of the reservation that release() works on.
ReservationLockOK(w) ==
  LET c == call[w] IN
  /\ \A i \in Ids : reservation_lock[i] = w =>
       /\ c.op = "release" /\ c.id = i
       /\ c.step \in {"mark_released", "sub_reserved", "read_atp", "commit", "rollback"}
  /\ HoldsReservation(c) => reservation_lock[c.id] = w

\* What worker w read and wrote is still true of the committed tables.
DraftOK(w) ==
  LET c == call[w] IN
  /\ Reserving(c) =>
       /\ c.atp = CommittedAtp(c.cell)
       /\ c.quantity <= c.atp
       /\ c.step # "add_reserved" =>
            c.pending = inventory[c.cell].reserved + c.quantity
  /\ Inserted(c) =>
       /\ c.id \in Ids /\ c.id < next_id
       /\ reservations[c.id] = NoReservation
  /\ Releasing(c) =>
       /\ IsActive(reservations, c.id)
       /\ reservations[c.id].row = c.cell
       /\ reservations[c.id].quantity = c.quantity
       /\ c.step \in {"read_atp", "commit"} =>
            c.pending = inventory[c.cell].reserved - c.quantity
       /\ c.step = "commit" => c.atp = inventory[c.cell].on_hand - c.pending

WorkerOK(w) ==
  ArgumentsOK(call[w]) /\ StockLockOK(w) /\ ReservationLockOK(w) /\ DraftOK(w)

\* The sequence is ahead of every id in use, and hands each id out once.
IdsFresh ==
  /\ \A i \in Ids : i >= next_id => reservations[i] = NoReservation
  /\ \A v, w \in Workers :
       v # w /\ Inserted(call[v]) /\ Inserted(call[w]) => call[v].id # call[w].id

CountsOK ==
  /\ ReservedIsHeld
  /\ \A r \in Rows : inventory[r].reserved <= inventory[r].on_hand

IInv ==
  /\ TypeOK
  /\ \A w \in Workers : WorkerOK(w)
  /\ IdsFresh
  /\ CountsOK
  /\ BackstopIdle

-----------------------------------------------------------------------------
(* What a step of one worker leaves to the others *)

\* A step of worker w touches no other worker's call ...
OnlyCallOf(w) == \A v \in Workers \ {w} : call'[v] = call[v]

\* ... and takes or gives back row locks for itself only.
OnlyLocksOf(w) ==
  /\ \A r \in Rows : stock_lock'[r] # stock_lock[r] =>
       stock_lock[r] \in {Nobody, w} /\ stock_lock'[r] \in {Nobody, w}
  /\ \A i \in Ids : reservation_lock'[i] # reservation_lock[i] =>
       reservation_lock[i] \in {Nobody, w} /\ reservation_lock'[i] \in {Nobody, w}

\* Whatever one worker does, the other workers keep their arguments and own their
\* locks as before.
LEMMA OthersKeepLocks ==
  ASSUME IInv, NEW w \in Workers, NEW v \in Workers \ {w},
         OnlyCallOf(w), OnlyLocksOf(w)
  PROVE  ArgumentsOK(call[v])' /\ StockLockOK(v)' /\ ReservationLockOK(v)'
<1>1. call'[v] = call[v] /\ v # Nobody /\ WorkerOK(v)
  BY ReservationsAssumption DEF OnlyCallOf, IInv
<1>2. \A r \in Rows : stock_lock'[r] = v <=> stock_lock[r] = v
  BY <1>1 DEF OnlyLocksOf
<1>3. \A i \in Ids : reservation_lock'[i] = v <=> reservation_lock[i] = v
  BY <1>1 DEF OnlyLocksOf
<1>4. ArgumentsOK(call[v])'
  BY <1>1 DEF WorkerOK, ArgumentsOK, HoldsReservation
<1>5. StockLockOK(v)'
  BY <1>1, <1>2 DEF WorkerOK, StockLockOK, HoldsStock, Reserving, Releasing
<1>6. HoldsReservation(call[v]) => call[v].id \in Ids
  BY <1>1 DEF WorkerOK, ArgumentsOK, HoldsReservation
<1>7. ReservationLockOK(v)'
  BY <1>1, <1>3, <1>6 DEF WorkerOK, ReservationLockOK, HoldsReservation
<1>8. QED
  BY <1>4, <1>5, <1>7

\* While no transaction commits, all that holds of the other workers goes on holding.
LEMMA OthersKept ==
  ASSUME IInv, NEW w \in Workers, NEW v \in Workers \ {w},
         UNCHANGED tables, next_id' \in Int, next_id <= next_id',
         OnlyCallOf(w), OnlyLocksOf(w)
  PROVE  WorkerOK(v)'
<1>1. call'[v] = call[v] /\ WorkerOK(v)
  BY DEF OnlyCallOf, IInv
<1>2. Inserted(call[v]) => call[v].id \in Int /\ next_id \in Int
  BY <1>1, TableAssumption DEF IInv, TypeOK, WorkerOK, DraftOK, Inserted, Ids
<1>3. DraftOK(v)'
  BY <1>1, <1>2 DEF WorkerOK, DraftOK, Reserving, Releasing, Inserted, tables,
                    CommittedAtp, IsActive
<1>4. QED
  BY <1>3, OthersKeepLocks DEF WorkerOK

\* Hence a step that commits nothing keeps the invariant if it keeps its own
\* worker's part of it.
LEMMA UncommittedStep ==
  ASSUME IInv, NEW w \in Workers, UNCHANGED tables,
         next_id <= next_id', OnlyCallOf(w), OnlyLocksOf(w),
         TypeOK', WorkerOK(w)', call'[w].outcome # "check_violation",
         \A v \in Workers \ {w} :
           Inserted(call'[w]) /\ Inserted(call[v]) => call'[w].id # call[v].id
  PROVE  IInv'
<1>1. next_id' \in Int /\ next_id \in Int
  BY TableAssumption DEF IInv, TypeOK
<1>2. \A v \in Workers : WorkerOK(v)'
  BY <1>1, OthersKept
<1>3. IdsFresh'
  <2>1. \A i \in Ids : i >= next_id' => reservations'[i] = NoReservation
    BY <1>1, TableAssumption DEF IInv, IdsFresh, tables, Ids
  <2>2. QED
    BY <2>1 DEF IInv, IdsFresh, OnlyCallOf, Inserted
<1>4. CountsOK'
  BY DEF IInv, CountsOK, ReservedIsHeld, tables
<1>5. BackstopIdle'
  BY DEF IInv, BackstopIdle, OnlyCallOf
<1>6. QED
  BY <1>2, <1>3, <1>4, <1>5 DEF IInv

-----------------------------------------------------------------------------
(* Each action keeps the invariant *)

\* The answer of a call that owns no lock any more.
LEMMA ReturnKeeps ==
  ASSUME IInv, NEW w \in Workers, NEW outcome \in Outcomes \ {"check_violation"},
         Return(w, outcome), UNCHANGED <<tables, next_id>>,
         OnlyLocksOf(w),
         stock_lock' \in [Rows -> Workers \cup {Nobody}],
         reservation_lock' \in [Ids -> Workers \cup {Nobody}],
         \A r \in Rows : stock_lock'[r] # w,
         \A i \in Ids : reservation_lock'[i] # w
  PROVE  IInv'
<1>1. NoCall \in Calls
  BY ReservationsAssumption DEF NoCall, Calls, Steps, Connected, Outcomes, Unwritten
<1>2. [NoCall EXCEPT !.outcome = outcome] \in Calls
  BY <1>1 DEF Calls
<1>3. TypeOK'
  BY <1>2 DEF IInv, TypeOK, Return, tables
<1>4. OnlyCallOf(w) /\ call'[w] = [NoCall EXCEPT !.outcome = outcome]
  BY DEF IInv, TypeOK, Return, OnlyCallOf
<1>5. /\ call'[w].step = "idle" /\ call'[w].op = "reserve"
      /\ call'[w].outcome # "check_violation"
  BY <1>4 DEF NoCall
<1>6. WorkerOK(w)'
  BY <1>5 DEF WorkerOK, ArgumentsOK, StockLockOK, ReservationLockOK, DraftOK,
              HoldsStock, HoldsReservation, Reserving, Releasing, Inserted,
              ReserveSteps, ReleaseSteps
<1>7. next_id <= next_id'
  BY TableAssumption DEF IInv, TypeOK
<1>8. QED
  BY <1>3, <1>4, <1>5, <1>6, <1>7, UncommittedStep DEF Inserted

\* An exception inside the with-block, at any step that owns no lock of another
\* row: only the rollback is left to do.
LEMMA FailKeeps ==
  ASSUME IInv, NEW w \in Workers, NEW why \in Outcomes \ {"check_violation"},
         call[w].step \in Connected,
         Fail(w, why), UNCHANGED <<tables, next_id, reservation_lock>>,
         OnlyLocksOf(w),
         stock_lock' \in [Rows -> Workers \cup {Nobody}],
         \A r \in Rows : stock_lock'[r] = w => r = call[w].cell
  PROVE  IInv'
<1>1. [call[w] EXCEPT !.step = "rollback", !.outcome = why] \in Calls
  BY DEF IInv, TypeOK, Calls, Steps, Connected
<1>2. TypeOK'
  BY <1>1 DEF IInv, TypeOK, Fail, tables
<1>3. OnlyCallOf(w) /\ call'[w] = [call[w] EXCEPT !.step = "rollback", !.outcome = why]
  BY DEF IInv, TypeOK, Fail, OnlyCallOf
<1>4. /\ call'[w].step = "rollback" /\ call'[w].outcome # "check_violation"
      /\ call'[w].op = call[w].op /\ call'[w].cell = call[w].cell
      /\ call'[w].id = call[w].id
  BY <1>3 DEF IInv, TypeOK, Calls
<1>5. WorkerOK(w) /\ call[w].step # "idle"
  BY DEF IInv, Connected, ReserveSteps, ReleaseSteps
<1>6. ArgumentsOK(call[w])'
  BY <1>4, <1>5 DEF WorkerOK, ArgumentsOK, ReserveSteps, ReleaseSteps, HoldsReservation
<1>7. StockLockOK(w)'
  BY <1>4 DEF StockLockOK, HoldsStock, Reserving, Releasing
<1>8. ReservationLockOK(w)'
  BY <1>4, <1>5 DEF WorkerOK, ReservationLockOK, HoldsReservation
<1>9. DraftOK(w)'
  BY <1>4 DEF DraftOK, Reserving, Releasing, Inserted
<1>10. next_id <= next_id'
  BY TableAssumption DEF IInv, TypeOK
<1>11. QED
  BY <1>2, <1>3, <1>4, <1>6, <1>7, <1>8, <1>9, <1>10, UncommittedStep
     DEF Inserted, WorkerOK

\* A worker that owns no lock at its step (StockLockOK, ReservationLockOK).
LEMMA NoStockLock ==
  ASSUME IInv, NEW w \in Workers,
         call[w].step \notin {"add_reserved", "insert", "read_atp", "commit", "rollback"}
  PROVE  \A r \in Rows : stock_lock[r] # w
BY DEF IInv, WorkerOK, StockLockOK

\* Nor does it hold a reservation's lock before it has reached one.
LEMMA NoReservationLock ==
  ASSUME IInv, NEW w \in Workers,
         call[w].step \notin {"mark_released", "sub_reserved", "read_atp", "commit", "rollback"}
  PROVE  \A i \in Ids : reservation_lock[i] # w
BY DEF IInv, WorkerOK, ReservationLockOK

\* The quantity check, and a caller that the pool could not serve.
LEMMA RefusalKeeps ==
  ASSUME IInv, NEW w \in Workers,
         PoolTimeout(w) \/ \E q \in 0 .. MaxQuantity : RejectQuantity(w, q)
  PROVE  IInv'
<1>1. /\ call[w].step \in {"idle", "connect"}
      /\ UNCHANGED <<tables, next_id, locks>>
      /\ Return(w, "error") \/ Return(w, "invalid")
  BY DEF PoolTimeout, RejectQuantity
<1>2. UNCHANGED <<stock_lock, reservation_lock>> /\ OnlyLocksOf(w)
  BY <1>1 DEF locks, OnlyLocksOf
<1>3. /\ \A r \in Rows : stock_lock'[r] # w
      /\ \A i \in Ids : reservation_lock'[i] # w
  BY <1>1, <1>2, NoStockLock, NoReservationLock
<1>4. /\ stock_lock' \in [Rows -> Workers \cup {Nobody}]
      /\ reservation_lock' \in [Ids -> Workers \cup {Nobody}]
  BY <1>2 DEF IInv, TypeOK
<1>5. QED
  BY <1>1, <1>2, <1>3, <1>4, ReturnKeeps DEF Outcomes

\* A request arrives at an idle worker (routes_inventory.py).
LEMMA StartKeeps ==
  ASSUME IInv, NEW w \in Workers,
         \/ \E sku \in Skus, code \in WarehouseCodes, q \in 0 .. MaxQuantity :
              StartReserve(w, sku, code, q)
         \/ \E i \in Ids : StartRelease(w, i)
  PROVE  IInv'
<1> DEFINE d == call'[w]
<1>1. /\ call[w].step = "idle"
      /\ UNCHANGED <<tables, next_id, locks>>
  BY DEF StartReserve, StartRelease
<1>2. NoCall \in Calls
  BY ReservationsAssumption DEF NoCall, Calls, Steps, Connected, Outcomes, Unwritten
<1>3. /\ call' \in [Workers -> Calls] /\ OnlyCallOf(w)
      /\ d.step = "connect" /\ d.pending = Unwritten /\ d.outcome = "none"
      /\ \/ d.op = "reserve" /\ d.quantity \in Quantities
         \/ d.op = "release" /\ d.id \in Ids
  <2>1. CASE \E sku \in Skus, code \in WarehouseCodes, q \in 0 .. MaxQuantity :
               StartReserve(w, sku, code, q)
    <3>1. PICK sku \in Skus, code \in WarehouseCodes, q \in 0 .. MaxQuantity :
            StartReserve(w, sku, code, q)
      BY <2>1
    <3>2. q > 0
      BY <3>1, Zenon DEF StartReserve
    <3>3. q \in Quantities /\ q \in Int
      BY <3>2, TableAssumption DEF Quantities
    <3>4. <<sku, code>> \in Cells
      BY DEF Cells
    <3>5. [NoCall EXCEPT !.step = "connect", !.op = "reserve",
                         !.cell = <<sku, code>>, !.quantity = q] \in Calls
      BY <1>2, <3>3, <3>4 DEF Calls, Steps
    <3>6. QED
      BY <3>1, <3>3, <3>5 DEF StartReserve, IInv, TypeOK, NoCall, OnlyCallOf
  <2>2. CASE \E i \in Ids : StartRelease(w, i)
    <3>1. PICK i \in Ids : StartRelease(w, i)
      BY <2>2
    <3>2. i \in Int
      BY TableAssumption DEF Ids
    <3>3. [NoCall EXCEPT !.step = "connect", !.op = "release", !.id = i] \in Calls
      BY <1>2, <3>2 DEF Calls, Steps
    <3>4. QED
      BY <3>1, <3>3 DEF StartRelease, IInv, TypeOK, NoCall, OnlyCallOf
  <2>3. QED
    BY <2>1, <2>2
<1>4. TypeOK' /\ OnlyLocksOf(w) /\ next_id <= next_id'
  BY <1>1, <1>3, TableAssumption DEF IInv, TypeOK, tables, locks, OnlyLocksOf
<1>5. WorkerOK(w)'
  <2>1. /\ \A r \in Rows : stock_lock'[r] # w
        /\ \A i \in Ids : reservation_lock'[i] # w
    BY <1>1, NoStockLock, NoReservationLock DEF locks
  <2>2. QED
    BY <1>3, <2>1 DEF WorkerOK, ArgumentsOK, StockLockOK, ReservationLockOK, DraftOK,
      HoldsStock, HoldsReservation, Reserving, Releasing, Inserted, ReserveSteps, ReleaseSteps
<1>6. QED
  BY <1>1, <1>3, <1>4, <1>5, UncommittedStep DEF Inserted

\* A pooled connection is free: the transaction begins.
LEMMA ConnectKeeps ==
  ASSUME IInv, NEW w \in Workers, Connect(w)
  PROVE  IInv'
<1> DEFINE c == call[w]
           d == call'[w]
           next == IF c.op = "reserve" THEN "find_product" ELSE "lock_reservation"
<1>1. /\ c.step = "connect"
      /\ call' = [call EXCEPT ![w] = [c EXCEPT !.step = next]]
      /\ UNCHANGED <<tables, next_id, locks>>
  BY DEF Connect
<1>2. /\ call' \in [Workers -> Calls] /\ OnlyCallOf(w)
      /\ d = [c EXCEPT !.step = next] /\ c \in Calls
  BY <1>1 DEF IInv, TypeOK, Calls, Steps, Connected, ReserveSteps, ReleaseSteps, OnlyCallOf
<1>3. TypeOK' /\ OnlyLocksOf(w) /\ next_id <= next_id'
  BY <1>1, <1>2, TableAssumption DEF IInv, TypeOK, tables, locks, OnlyLocksOf
<1>4. WorkerOK(w)'
  <2>1. /\ \A r \in Rows : stock_lock'[r] # w
        /\ \A i \in Ids : reservation_lock'[i] # w
    BY <1>1, NoStockLock, NoReservationLock DEF locks
  <2>2. /\ d.step = next /\ d.op = c.op /\ d.id = c.id /\ d.quantity = c.quantity
        /\ d.pending = c.pending /\ c.op \in {"reserve", "release"}
        /\ d.outcome = c.outcome
    BY <1>2 DEF Calls
  <2>3. WorkerOK(w)
    BY DEF IInv
  <2>4. QED
    BY <1>1, <2>1, <2>2, <2>3 DEF WorkerOK, ArgumentsOK, StockLockOK, ReservationLockOK,
      DraftOK, HoldsStock, HoldsReservation, Reserving, Releasing, Inserted,
      ReserveSteps, ReleaseSteps
<1>5. d.step # "commit" /\ d.outcome # "check_violation"
  BY <1>2 DEF IInv, BackstopIdle, Calls
<1>6. QED
  BY <1>1, <1>2, <1>3, <1>4, <1>5, UncommittedStep DEF Inserted

\* A statement that fails with its locks as they are: the SELECTs that match no
\* row, and a connection that dies.
LEMMA UnlockedFailKeeps ==
  ASSUME IInv, NEW w \in Workers, NEW why \in {"not_found", "error"},
         call[w].step \in Connected, Fail(w, why), UNCHANGED <<tables, next_id, locks>>
  PROVE  IInv'
<1>1. OnlyLocksOf(w) /\ UNCHANGED <<stock_lock, reservation_lock>>
  BY DEF OnlyLocksOf, locks
<1>2. \A r \in Rows : stock_lock'[r] = w => r = call[w].cell
  BY <1>1 DEF IInv, WorkerOK, StockLockOK
<1>3. stock_lock' \in [Rows -> Workers \cup {Nobody}]
  BY <1>1 DEF IInv, TypeOK
<1>4. QED
  BY <1>1, <1>2, <1>3, FailKeeps DEF Outcomes

\* A row that does not exist, and a connection that is lost, only fail the call.
LEMMA NotFoundKeeps ==
  ASSUME IInv, NEW w \in Workers,
         StockNotFound(w) \/ ReservationNotFound(w) \/ ConnectionLost(w)
  PROVE  IInv'
BY UnlockedFailKeeps DEF StockNotFound, ReservationNotFound, ConnectionLost, Connected,
   ReserveSteps, ReleaseSteps

\* The product lookup takes no lock.
LEMMA FindProductKeeps ==
  ASSUME IInv, NEW w \in Workers, FindProduct(w)
  PROVE  IInv'
<1> DEFINE c == call[w]
           d == call'[w]
<1>1. c.step = "find_product" /\ UNCHANGED <<tables, next_id, locks>>
  BY DEF FindProduct
<1>2. CASE Fail(w, "not_found")
  BY <1>1, <1>2, UnlockedFailKeeps DEF Connected, ReserveSteps
<1>3. CASE call' = [call EXCEPT ![w] = [c EXCEPT !.step = "lock_stock"]]
  <2>1. /\ call' \in [Workers -> Calls] /\ OnlyCallOf(w)
        /\ d = [c EXCEPT !.step = "lock_stock"] /\ c \in Calls
    BY <1>3 DEF IInv, TypeOK, Calls, Steps, Connected, ReserveSteps, OnlyCallOf
  <2>2. TypeOK' /\ OnlyLocksOf(w) /\ next_id <= next_id'
    BY <1>1, <2>1, TableAssumption DEF IInv, TypeOK, tables, locks, OnlyLocksOf
  <2>3. WorkerOK(w)'
    <3>1. /\ \A r \in Rows : stock_lock'[r] # w
          /\ \A i \in Ids : reservation_lock'[i] # w
      BY <1>1, NoStockLock, NoReservationLock DEF locks
    <3>2. /\ d.step = "lock_stock" /\ d.op = c.op /\ d.quantity = c.quantity
          /\ d.outcome = c.outcome
      BY <2>1 DEF Calls
    <3>3. WorkerOK(w)
      BY DEF IInv
    <3>4. QED
      BY <1>1, <3>1, <3>2, <3>3 DEF WorkerOK, ArgumentsOK, StockLockOK,
        ReservationLockOK, DraftOK, HoldsStock, HoldsReservation, Reserving, Releasing,
        Inserted, ReserveSteps, ReleaseSteps
  <2>4. d.step # "commit" /\ d.outcome # "check_violation"
    BY <2>1 DEF IInv, BackstopIdle, Calls
  <2>5. QED
    BY <1>1, <2>1, <2>2, <2>3, <2>4, UncommittedStep DEF Inserted
<1>4. QED
  BY <1>2, <1>3 DEF FindProduct

\* A statement that succeeds and moves its call on to a step other than reserve()'s
\* commit.
LEMMA StatementKeeps ==
  ASSUME IInv, NEW w \in Workers, NEW d \in Calls, call' = [call EXCEPT ![w] = d],
         UNCHANGED <<tables, next_id>>, OnlyLocksOf(w),
         stock_lock' \in [Rows -> Workers \cup {Nobody}],
         reservation_lock' \in [Ids -> Workers \cup {Nobody}],
         d.outcome = call[w].outcome, ~Inserted(d), WorkerOK(w)'
  PROVE  IInv'
<1>1. call'[w] = d /\ OnlyCallOf(w) /\ TypeOK'
  BY DEF IInv, TypeOK, OnlyCallOf, tables
<1>2. next_id <= next_id'
  BY TableAssumption DEF IInv, TypeOK
<1>3. d.outcome # "check_violation"
  BY DEF IInv, BackstopIdle
<1>4. QED
  BY <1>1, <1>2, <1>3, UncommittedStep

\* SELECT ... FOR UPDATE on the stock row: what it reads under the lock is the
\* committed row, and stays so (reserve.py:33-52).
LEMMA LockStockKeeps ==
  ASSUME IInv, NEW w \in Workers, LockStock(w)
  PROVE  IInv'
<1> DEFINE c == call[w]
           r == c.cell
           d == [c EXCEPT !.step = "add_reserved", !.atp = CommittedAtp(r)]
<1>1. /\ c.step = "lock_stock" /\ r \in Rows /\ stock_lock[r] \in {Nobody, w}
      /\ stock_lock' = [stock_lock EXCEPT ![r] = w]
      /\ UNCHANGED <<tables, next_id, reservation_lock>>
  BY DEF LockStock, CanLock
<1>2. /\ stock_lock \in [Rows -> Workers \cup {Nobody}]
      /\ reservation_lock \in [Ids -> Workers \cup {Nobody}]
      /\ c \in Calls /\ WorkerOK(w) /\ CommittedAtp(r) \in Int
  BY <1>1 DEF IInv, TypeOK, CommittedAtp
<1>3. /\ OnlyLocksOf(w)
      /\ stock_lock' \in [Rows -> Workers \cup {Nobody}]
      /\ stock_lock'[r] = w
      /\ \A s \in Rows : stock_lock'[s] = w => s = r
  BY <1>1, <1>2, NoStockLock DEF OnlyLocksOf
<1>4. CASE c.quantity > CommittedAtp(r)
  <2>1. Fail(w, "insufficient")
    BY <1>4 DEF LockStock
  <2>2. QED
    BY <1>1, <1>3, <2>1, FailKeeps DEF Connected, ReserveSteps, Outcomes
<1>5. CASE ~(c.quantity > CommittedAtp(r))
  <2>1. call' = [call EXCEPT ![w] = d]
    BY <1>5 DEF LockStock
  <2>2. /\ d \in Calls /\ d.step = "add_reserved" /\ d.atp = CommittedAtp(r)
        /\ d.op = c.op /\ d.cell = r /\ d.quantity = c.quantity /\ d.id = c.id
        /\ d.outcome = c.outcome
    BY <1>2 DEF Calls, Steps, Connected, ReserveSteps
  <2>3. call'[w] = d
    BY <2>1 DEF IInv, TypeOK
  <2>4. c.op = "reserve" /\ c.quantity \in Quantities /\ c.quantity <= CommittedAtp(r)
    BY <1>1, <1>2, <1>5, TableAssumption
       DEF WorkerOK, ArgumentsOK, ReserveSteps, Calls, Quantities
  <2>5. CommittedAtp(r)' = CommittedAtp(r)
    BY <1>1, <2>3 DEF CommittedAtp, tables
  <2> HIDE DEF d
  <2>6. WorkerOK(w)'
    <3>1. \A i \in Ids : reservation_lock'[i] # w
      BY <1>1, NoReservationLock
    <3>2. ArgumentsOK(call[w])'
      BY <1>1, <1>2, <2>2, <2>3, <2>4
         DEF WorkerOK, ArgumentsOK, ReleaseSteps, HoldsReservation
    <3>3. StockLockOK(w)'
      BY <1>1, <1>3, <2>2, <2>3 DEF StockLockOK
    <3>4. ReservationLockOK(w)'
      BY <2>2, <2>3, <2>4, <3>1 DEF ReservationLockOK, HoldsReservation
    <3>5. DraftOK(w)'
      BY <2>2, <2>3, <2>4, <2>5 DEF DraftOK, Reserving, Releasing, Inserted
    <3>6. QED
      BY <3>2, <3>3, <3>4, <3>5 DEF WorkerOK
  <2>7. QED
    BY <1>1, <1>2, <1>3, <2>1, <2>2, <2>6, StatementKeeps DEF Inserted
<1>6. QED
  BY <1>4, <1>5

\* The UPDATE of reserve() writes to the version it read and never meets a CHECK
\* (reserve.py:54-60).
LEMMA AddReservedKeeps ==
  ASSUME IInv, NEW w \in Workers, AddReserved(w)
  PROVE  IInv'
<1> DEFINE c == call[w]
           r == c.cell
           n == inventory[r].reserved + c.quantity
           d == [c EXCEPT !.step = "insert", !.pending = n]
<1>1. /\ c.step = "add_reserved"
      /\ stock_lock' = [stock_lock EXCEPT ![r] = w]
      /\ UNCHANGED <<tables, next_id, reservation_lock>>
  BY DEF AddReserved
<1>2. /\ stock_lock \in [Rows -> Workers \cup {Nobody}]
      /\ reservation_lock \in [Ids -> Workers \cup {Nobody}]
      /\ c \in Calls /\ WorkerOK(w)
  BY DEF IInv, TypeOK
<1>3. c.op = "reserve" /\ c.quantity \in Quantities
  BY <1>1, <1>2 DEF WorkerOK, ArgumentsOK, ReleaseSteps, ReserveSteps, HoldsReservation, Calls
<1>4. r \in Rows /\ stock_lock[r] = w /\ Reserving(c)
  BY <1>1, <1>2, <1>3 DEF WorkerOK, StockLockOK, HoldsStock, Reserving
<1>5. c.atp = CommittedAtp(r) /\ c.quantity <= c.atp
  BY <1>2, <1>4 DEF WorkerOK, DraftOK
<1>6. n \in Int /\ ChecksPass(r, n)
  BY <1>3, <1>4, <1>5, TableAssumption
     DEF ChecksPass, CommittedAtp, IInv, TypeOK, Quantities
<1>7. call' = [call EXCEPT ![w] = d]
  BY <1>6 DEF AddReserved
<1>8. UNCHANGED stock_lock /\ OnlyLocksOf(w)
  BY <1>1, <1>2, <1>4 DEF OnlyLocksOf
<1>9. /\ d \in Calls /\ d.step = "insert" /\ d.pending = n
      /\ d.atp = c.atp /\ d.op = c.op /\ d.cell = r /\ d.quantity = c.quantity
      /\ d.id = c.id /\ d.outcome = c.outcome
  BY <1>2, <1>6 DEF Calls, Steps, Connected, ReserveSteps
<1>10. call'[w] = d
  BY <1>7 DEF IInv, TypeOK
<1>11. CommittedAtp(r)' = CommittedAtp(r) /\ n = inventory'[r].reserved + c.quantity
  BY <1>1, <1>10 DEF CommittedAtp, tables
<1> HIDE DEF d, n
<1>12. WorkerOK(w)'
  <2>1. ArgumentsOK(call[w])'
    BY <1>1, <1>2, <1>3, <1>9, <1>10
       DEF WorkerOK, ArgumentsOK, ReleaseSteps, HoldsReservation
  <2>2. StockLockOK(w)'
    BY <1>2, <1>4, <1>8, <1>9, <1>10 DEF StockLockOK, WorkerOK
  <2>3. ReservationLockOK(w)'
    BY <1>1, <1>2, <1>3, <1>9, <1>10 DEF ReservationLockOK, HoldsReservation, WorkerOK
  <2>4. DraftOK(w)'
    BY <1>3, <1>5, <1>9, <1>10, <1>11 DEF DraftOK, Reserving, Releasing, Inserted
  <2>5. QED
    BY <2>1, <2>2, <2>3, <2>4 DEF WorkerOK
<1>13. QED
  BY <1>1, <1>2, <1>7, <1>8, <1>9, <1>12, StatementKeeps DEF Inserted

\* The INSERT gets an id that no row and no other open INSERT has
\* (reserve.py:61-68; schema.sql bigserial).
LEMMA InsertReservationKeeps ==
  ASSUME IInv, NEW w \in Workers, InsertReservation(w)
  PROVE  IInv'
<1> DEFINE c == call[w]
           d == [c EXCEPT !.step = "commit", !.id = next_id]
<1>1. c.step = "insert" /\ UNCHANGED <<tables, locks>>
  BY DEF InsertReservation
<1>2. CASE next_id \notin Ids
  <2>1. Fail(w, "error") /\ UNCHANGED next_id
    BY <1>2 DEF InsertReservation
  <2>2. QED
    BY <1>1, <2>1, UnlockedFailKeeps DEF Connected, ReserveSteps
<1>3. CASE next_id \in Ids
  <2>1. call' = [call EXCEPT ![w] = d] /\ next_id' = next_id + 1
    BY <1>3 DEF InsertReservation
  <2>2. c \in Calls /\ WorkerOK(w) /\ next_id \in Int
    BY TableAssumption DEF IInv, TypeOK
  <2>3. /\ d \in Calls /\ d.step = "commit" /\ d.id = next_id
        /\ d.atp = c.atp /\ d.op = c.op /\ d.cell = c.cell /\ d.quantity = c.quantity
        /\ d.pending = c.pending /\ d.outcome = c.outcome
    BY <2>2 DEF Calls, Steps, Connected
  <2>4. call'[w] = d /\ OnlyCallOf(w)
    BY <2>1 DEF IInv, TypeOK, OnlyCallOf
  <2>5. UNCHANGED <<stock_lock, reservation_lock>> /\ OnlyLocksOf(w)
    BY <1>1 DEF locks, OnlyLocksOf
  <2>6. next_id' \in 1 .. MaxId + 1
    BY <1>3, <2>1, TableAssumption DEF Ids
  <2>7. call' \in [Workers -> Calls]
    BY <2>1, <2>3 DEF IInv, TypeOK
  <2>8. TypeOK'
    BY <1>1, <2>5, <2>6, <2>7 DEF IInv, TypeOK, tables
  <2>9. c.op = "reserve" /\ Reserving(c)
    BY <1>1, <2>2 DEF WorkerOK, ArgumentsOK, Reserving, ReserveSteps, Calls
  <2>10. reservations[next_id] = NoReservation
    BY <1>3, <2>2 DEF IInv, IdsFresh
  <2>11. UNCHANGED inventory /\ UNCHANGED reservations
    BY <1>1 DEF tables
  <2> HIDE DEF d
  <2>12. ArgumentsOK(call[w])'
    BY <1>1, <2>2, <2>3, <2>4, <2>9
       DEF WorkerOK, ArgumentsOK, ReleaseSteps, HoldsReservation
  <2>13. StockLockOK(w)'
    BY <1>1, <2>2, <2>3, <2>4, <2>5, <2>9 DEF WorkerOK, StockLockOK, HoldsStock
  <2>14. ReservationLockOK(w)'
    BY <1>1, <2>2, <2>3, <2>4, <2>5, <2>9 DEF WorkerOK, ReservationLockOK, HoldsReservation
  <2>15. DraftOK(w)'
    BY <1>1, <1>3, <2>1, <2>2, <2>3, <2>4, <2>9, <2>10, <2>11
       DEF WorkerOK, DraftOK, CommittedAtp, Releasing, Inserted, Reserving
  <2>16. \A v \in Workers \ {w} : Inserted(call[v]) => d.id # call[v].id
    BY <2>2, <2>3, TableAssumption DEF IInv, WorkerOK, DraftOK, Ids
  <2>17. d.outcome # "check_violation" /\ next_id <= next_id'
    BY <2>1, <2>2, <2>3 DEF IInv, BackstopIdle
  <2>18. QED
    BY <1>1, <2>4, <2>5, <2>8, <2>12, <2>13, <2>14, <2>15, <2>16, <2>17, UncommittedStep
       DEF WorkerOK
<1>4. QED
  BY <1>2, <1>3

\* SELECT ... FOR UPDATE on the reservation: the status it reads under the lock is
\* the committed one, so two releases of one reservation do not both return its
\* stock (reserve.py:82-94).
LEMMA LockReservationKeeps ==
  ASSUME IInv, NEW w \in Workers, LockReservation(w)
  PROVE  IInv'
<1> DEFINE c == call[w]
           i == c.id
           next == IF reservations[i].status # "released" THEN "mark_released" ELSE "read_atp"
           d == [c EXCEPT !.step = next, !.cell = reservations[i].row,
                          !.quantity = reservations[i].quantity]
<1>1. /\ c.step = "lock_reservation" /\ reservations[i] # NoReservation
      /\ reservation_lock[i] \in {Nobody, w}
      /\ reservation_lock' = [reservation_lock EXCEPT ![i] = w]
      /\ call' = [call EXCEPT ![w] = d]
      /\ UNCHANGED <<tables, next_id, stock_lock>>
  BY DEF LockReservation, CanLock
<1>2. /\ stock_lock \in [Rows -> Workers \cup {Nobody}]
      /\ reservation_lock \in [Ids -> Workers \cup {Nobody}]
      /\ c \in Calls /\ WorkerOK(w)
  BY DEF IInv, TypeOK
<1>3. c.op = "release" /\ i \in Ids /\ c.pending = Unwritten
  BY <1>1, <1>2 DEF WorkerOK, ArgumentsOK, ReleaseSteps, Calls
<1>4. reservations[i] \in Reservation
  BY <1>1, <1>3 DEF IInv, TypeOK, ReservationTables
<1>5. /\ reservations[i].row \in Rows /\ reservations[i].row \in Cells
      /\ reservations[i].quantity \in Int
      /\ reservations[i].status \in {"active", "released"}
  BY <1>4, ReservationsAssumption, TableAssumption
     DEF Reservation, Rows, Cells, Quantities
<1>6. /\ d \in Calls /\ d.step = next /\ d.cell = reservations[i].row
      /\ d.quantity = reservations[i].quantity /\ d.op = c.op /\ d.id = i
      /\ d.pending = c.pending /\ d.outcome = c.outcome
  BY <1>2, <1>5 DEF Calls, Steps, Connected, ReleaseSteps
<1>7. call'[w] = d
  BY <1>1 DEF IInv, TypeOK
<1>8. /\ OnlyLocksOf(w)
      /\ reservation_lock' \in [Ids -> Workers \cup {Nobody}]
      /\ reservation_lock'[i] = w
      /\ \A j \in Ids : reservation_lock'[j] = w => j = i
  BY <1>1, <1>2, <1>3, NoReservationLock DEF OnlyLocksOf
<1>9. UNCHANGED reservations
  BY <1>1 DEF tables
<1> HIDE DEF d
<1>10. WorkerOK(w)'
  <2>1. \A r \in Rows : stock_lock'[r] # w
    BY <1>1, NoStockLock
  <2>2. ArgumentsOK(call[w])'
    BY <1>1, <1>2, <1>3, <1>5, <1>6, <1>7
       DEF WorkerOK, ArgumentsOK, ReserveSteps, HoldsReservation
  <2>3. StockLockOK(w)'
    BY <1>3, <1>6, <1>7, <2>1 DEF StockLockOK, HoldsStock, Reserving, Releasing
  <2>4. ReservationLockOK(w)'
    BY <1>3, <1>6, <1>7, <1>8 DEF ReservationLockOK
  <2>5. DraftOK(w)'
    BY <1>1, <1>3, <1>5, <1>6, <1>7, <1>9
       DEF DraftOK, Reserving, Releasing, Inserted, IsActive
  <2>6. QED
    BY <2>2, <2>3, <2>4, <2>5 DEF WorkerOK
<1>11. ~Inserted(d)
  BY <1>3, <1>6 DEF Inserted
<1>12. QED
  BY <1>1, <1>2, <1>6, <1>8, <1>10, <1>11, StatementKeeps

\* The first UPDATE of release(): its lock is already held.
LEMMA MarkReleasedKeeps ==
  ASSUME IInv, NEW w \in Workers, MarkReleased(w)
  PROVE  IInv'
<1> DEFINE c == call[w]
           d == [c EXCEPT !.step = "sub_reserved"]
<1>1. /\ c.step = "mark_released" /\ call' = [call EXCEPT ![w] = d]
      /\ reservation_lock' = [reservation_lock EXCEPT ![c.id] = w]
      /\ UNCHANGED <<tables, next_id, stock_lock>>
  BY DEF MarkReleased
<1>2. /\ stock_lock \in [Rows -> Workers \cup {Nobody}]
      /\ reservation_lock \in [Ids -> Workers \cup {Nobody}]
      /\ c \in Calls /\ WorkerOK(w)
  BY DEF IInv, TypeOK
<1>3. c.op = "release" /\ c.id \in Ids /\ HoldsReservation(c)
  BY <1>1, <1>2 DEF WorkerOK, ArgumentsOK, ReleaseSteps, Calls, HoldsReservation
<1>4. reservation_lock[c.id] = w /\ c.cell \in Rows
  BY <1>2, <1>3 DEF WorkerOK, ReservationLockOK, ArgumentsOK
<1>5. UNCHANGED reservation_lock /\ OnlyLocksOf(w)
  BY <1>1, <1>2, <1>4 DEF OnlyLocksOf
<1>6. /\ d \in Calls /\ d.step = "sub_reserved" /\ d.cell = c.cell
      /\ d.quantity = c.quantity /\ d.op = c.op /\ d.id = c.id
      /\ d.pending = c.pending /\ d.outcome = c.outcome
  BY <1>2 DEF Calls, Steps, Connected, ReleaseSteps
<1>7. call'[w] = d /\ UNCHANGED reservations
  BY <1>1 DEF IInv, TypeOK, tables
<1> HIDE DEF d
<1>8. WorkerOK(w)'
  <2>1. ArgumentsOK(call[w])'
    BY <1>1, <1>2, <1>3, <1>4, <1>6, <1>7
       DEF WorkerOK, ArgumentsOK, ReserveSteps, HoldsReservation
  <2>2. StockLockOK(w)'
    <3>1. \A r \in Rows : stock_lock'[r] # w
      BY <1>1, NoStockLock
    <3>2. QED
      BY <1>3, <1>6, <1>7, <3>1 DEF StockLockOK, HoldsStock, Reserving, Releasing
  <2>3. ReservationLockOK(w)'
    BY <1>2, <1>3, <1>4, <1>5, <1>6, <1>7 DEF WorkerOK, ReservationLockOK, HoldsReservation
  <2>4. DraftOK(w)'
    BY <1>1, <1>2, <1>3, <1>6, <1>7
       DEF WorkerOK, DraftOK, Reserving, Releasing, Inserted, IsActive
  <2>5. QED
    BY <2>1, <2>2, <2>3, <2>4 DEF WorkerOK
<1>9. ~Inserted(d)
  BY <1>6 DEF Inserted
<1>10. QED
  BY <1>1, <1>2, <1>5, <1>6, <1>8, <1>9, StatementKeeps

\* An active reservation is part of the count: what release() subtracts is there to
\* subtract, so its UPDATE never meets CHECK (reserved >= 0) (reserve.py:99-105).
LEMMA ActiveIsCounted ==
  ASSUME IInv, NEW i \in Ids, IsActive(reservations, i)
  PROVE  /\ reservations[i].row \in Rows /\ reservations[i].quantity \in Quantities
         /\ reservations[i].quantity <= inventory[reservations[i].row].reserved
<1>1. reservations \in ReservationTables /\ reservations[i] \in Reservation
  BY DEF IInv, TypeOK, IsActive, ReservationTables
<1>2. reservations[i].row \in Rows /\ reservations[i].quantity \in Quantities
  BY <1>1 DEF Reservation
<1>3. Held(reservations, reservations[i].row) =
        Held([reservations EXCEPT ![i].status = "released"], reservations[i].row)
          + reservations[i].quantity
  BY <1>1, <1>2, HeldAfterRelease
<1>4. Held([reservations EXCEPT ![i].status = "released"], reservations[i].row) \in Nat
  BY UnitsFinite
<1>5. inventory[reservations[i].row].reserved = Held(reservations, reservations[i].row)
  BY <1>2 DEF IInv, CountsOK, ReservedIsHeld
<1>6. QED
  BY <1>2, <1>3, <1>4, <1>5, TableAssumption DEF Quantities

\* The second UPDATE of release() subtracts from the committed counter under the
\* stock row's lock.
LEMMA SubReservedKeeps ==
  ASSUME IInv, NEW w \in Workers, SubReserved(w)
  PROVE  IInv'
<1> DEFINE c == call[w]
           r == c.cell
           n == inventory[r].reserved - c.quantity
           d == [c EXCEPT !.step = "read_atp", !.pending = n]
<1>1. /\ c.step = "sub_reserved" /\ stock_lock[r] \in {Nobody, w}
      /\ stock_lock' = [stock_lock EXCEPT ![r] = w]
      /\ UNCHANGED <<tables, next_id, reservation_lock>>
  BY DEF SubReserved, CanLock
<1>2. /\ stock_lock \in [Rows -> Workers \cup {Nobody}]
      /\ reservation_lock \in [Ids -> Workers \cup {Nobody}]
      /\ c \in Calls /\ WorkerOK(w)
  BY DEF IInv, TypeOK
<1>3. c.op = "release" /\ c.id \in Ids /\ HoldsReservation(c) /\ Releasing(c)
  BY <1>1, <1>2 DEF WorkerOK, ArgumentsOK, ReleaseSteps, Calls, HoldsReservation, Releasing
<1>4. /\ IsActive(reservations, c.id)
      /\ reservations[c.id].row = r /\ reservations[c.id].quantity = c.quantity
  BY <1>2, <1>3 DEF WorkerOK, DraftOK
<1>5. r \in Rows /\ c.quantity \in Quantities /\ c.quantity <= inventory[r].reserved
  BY <1>3, <1>4, ActiveIsCounted
<1>6. /\ inventory[r].reserved \in Nat /\ inventory[r].on_hand \in Nat
      /\ inventory[r].reserved <= inventory[r].on_hand
  BY <1>5 DEF IInv, TypeOK, CountsOK
<1>7. n \in Int /\ ChecksPass(r, n)
  BY <1>5, <1>6, TableAssumption DEF ChecksPass, Quantities
<1>8. call' = [call EXCEPT ![w] = d]
  BY <1>7 DEF SubReserved
<1>9. /\ OnlyLocksOf(w)
      /\ stock_lock' \in [Rows -> Workers \cup {Nobody}]
      /\ stock_lock'[r] = w
      /\ \A s \in Rows : stock_lock'[s] = w => s = r
  BY <1>1, <1>2, <1>5, NoStockLock DEF OnlyLocksOf
<1>10. /\ d \in Calls /\ d.step = "read_atp" /\ d.pending = n
       /\ d.op = c.op /\ d.cell = r /\ d.quantity = c.quantity
       /\ d.id = c.id /\ d.outcome = c.outcome
  BY <1>2, <1>7 DEF Calls, Steps, Connected, ReleaseSteps
<1>11. call'[w] = d
  BY <1>8 DEF IInv, TypeOK
<1>12. n = inventory'[r].reserved - c.quantity /\ UNCHANGED reservations
  BY <1>1, <1>11 DEF tables
<1> HIDE DEF d, n
<1>13. WorkerOK(w)'
  <2>1. ArgumentsOK(call[w])'
    BY <1>1, <1>2, <1>3, <1>5, <1>10, <1>11
       DEF WorkerOK, ArgumentsOK, ReserveSteps, HoldsReservation
  <2>2. StockLockOK(w)'
    BY <1>5, <1>9, <1>10, <1>11 DEF StockLockOK
  <2>3. ReservationLockOK(w)'
    BY <1>1, <1>2, <1>3, <1>10, <1>11 DEF ReservationLockOK, HoldsReservation, WorkerOK
  <2>4. DraftOK(w)'
    BY <1>3, <1>4, <1>10, <1>11, <1>12
       DEF DraftOK, Reserving, Releasing, Inserted, IsActive
  <2>5. QED
    BY <2>1, <2>2, <2>3, <2>4 DEF WorkerOK
<1>14. QED
  BY <1>1, <1>2, <1>8, <1>9, <1>10, <1>13, StatementKeeps DEF Inserted

\* The SELECT of release() sees its own write, or the committed row.
LEMMA ReadAtpKeeps ==
  ASSUME IInv, NEW w \in Workers, ReadAtp(w)
  PROVE  IInv'
<1> DEFINE c == call[w]
           r == c.cell
           seen == IF c.pending = Unwritten THEN CommittedAtp(r)
                                            ELSE inventory[r].on_hand - c.pending
           d == [c EXCEPT !.step = "commit", !.atp = seen]
<1>1. /\ c.step = "read_atp" /\ call' = [call EXCEPT ![w] = d]
      /\ UNCHANGED <<tables, next_id, locks>>
  BY DEF ReadAtp
<1>2. /\ stock_lock \in [Rows -> Workers \cup {Nobody}]
      /\ reservation_lock \in [Ids -> Workers \cup {Nobody}]
      /\ c \in Calls /\ WorkerOK(w)
  BY DEF IInv, TypeOK
<1>3. c.op = "release" /\ c.id \in Ids /\ HoldsReservation(c) /\ r \in Rows
  BY <1>1, <1>2 DEF WorkerOK, ArgumentsOK, ReleaseSteps, Calls, HoldsReservation
<1>4. seen \in Int
  BY <1>2, <1>3 DEF IInv, TypeOK, Calls, CommittedAtp
<1>5. UNCHANGED <<stock_lock, reservation_lock>> /\ OnlyLocksOf(w)
  BY <1>1 DEF locks, OnlyLocksOf
<1>6. /\ d \in Calls /\ d.step = "commit" /\ d.atp = seen
      /\ d.op = c.op /\ d.cell = r /\ d.quantity = c.quantity
      /\ d.id = c.id /\ d.pending = c.pending /\ d.outcome = c.outcome
  BY <1>2, <1>4 DEF Calls, Steps, Connected
<1>7. call'[w] = d /\ UNCHANGED <<inventory, reservations>>
  BY <1>1 DEF IInv, TypeOK, tables
<1>8. c.pending # Unwritten => seen = inventory[r].on_hand - c.pending
  OBVIOUS
<1> HIDE DEF d, seen
<1>9. WorkerOK(w)'
  <2>1. ArgumentsOK(call[w])'
    BY <1>1, <1>2, <1>3, <1>6, <1>7
       DEF WorkerOK, ArgumentsOK, ReserveSteps, HoldsReservation
  <2>2. StockLockOK(w)'
    BY <1>1, <1>2, <1>3, <1>5, <1>6, <1>7
       DEF WorkerOK, StockLockOK, HoldsStock, Reserving, Releasing
  <2>3. ReservationLockOK(w)'
    BY <1>1, <1>2, <1>3, <1>5, <1>6, <1>7 DEF WorkerOK, ReservationLockOK, HoldsReservation
  <2>4. DraftOK(w)'
    BY <1>1, <1>2, <1>3, <1>6, <1>7, <1>8
       DEF WorkerOK, DraftOK, Reserving, Releasing, Inserted, IsActive
  <2>5. QED
    BY <2>1, <2>2, <2>3, <2>4 DEF WorkerOK
<1>10. ~Inserted(d)
  BY <1>3, <1>6 DEF Inserted
<1>11. QED
  BY <1>1, <1>2, <1>5, <1>6, <1>9, <1>10, StatementKeeps

-----------------------------------------------------------------------------
(* The end of a transaction *)

\* All row locks of the transaction, and no others, are given back.
LEMMA EndTransactionReleases ==
  ASSUME TypeOK, NEW w \in Workers, EndTransaction(w)
  PROVE  /\ OnlyLocksOf(w)
         /\ stock_lock' \in [Rows -> Workers \cup {Nobody}]
         /\ reservation_lock' \in [Ids -> Workers \cup {Nobody}]
         /\ \A r \in Rows : stock_lock'[r] # w
         /\ \A i \in Ids : reservation_lock'[i] # w
<1>1. w # Nobody
  BY ReservationsAssumption
<1>2. QED
  BY <1>1 DEF TypeOK, EndTransaction, OnlyLocksOf

\* A rollback gives back the locks and forgets the draft.
LEMMA RollbackKeeps ==
  ASSUME IInv, NEW w \in Workers, Rollback(w)
  PROVE  IInv'
<1>1. call[w].outcome \in Outcomes \ {"check_violation"}
  BY DEF IInv, TypeOK, BackstopIdle, Calls
<1>2. QED
  BY <1>1, EndTransactionReleases, ReturnKeeps DEF Rollback, IInv

\* What the transaction of reserve() or release() publishes, if it wrote.
LEMMA PublishedTables ==
  ASSUME IInv, NEW w \in Workers, call[w].step = "commit",
         call[w].pending # Unwritten, Publish(w)
  PROVE  LET c == call[w] IN
         /\ c.cell \in Rows /\ c.quantity \in Quantities /\ c.id \in Ids
         /\ stock_lock[c.cell] = w
         /\ inventory' = [inventory EXCEPT ![c.cell].reserved = c.pending]
         /\ \/ /\ Reserving(c) /\ Inserted(c)
               /\ c.pending = inventory[c.cell].reserved + c.quantity
               /\ c.quantity <= CommittedAtp(c.cell) /\ c.atp = CommittedAtp(c.cell)
               /\ c.id < next_id /\ reservations[c.id] = NoReservation
               /\ reservations' =
                    [reservations EXCEPT ![c.id] = NewReservation(c.cell, c.quantity)]
            \/ /\ Releasing(c) /\ HoldsReservation(c) /\ ~Inserted(c)
               /\ reservation_lock[c.id] = w
               /\ c.pending = inventory[c.cell].reserved - c.quantity
               /\ c.atp = inventory[c.cell].on_hand - c.pending
               /\ IsActive(reservations, c.id)
               /\ reservations[c.id].row = c.cell
               /\ reservations[c.id].quantity = c.quantity
               /\ reservations' = [reservations EXCEPT ![c.id].status = "released"]
<1> DEFINE c == call[w]
<1>1. WorkerOK(w) /\ c \in Calls
  BY DEF IInv, TypeOK
<1>2. inventory' = [inventory EXCEPT ![c.cell].reserved = c.pending]
  BY DEF Publish
<1>3. CASE c.op = "reserve"
  <2>1. Reserving(c) /\ Inserted(c) /\ HoldsStock(c)
    BY <1>3 DEF Reserving, Inserted, HoldsStock
  <2>2. c.quantity \in Quantities /\ c.cell \in Rows /\ stock_lock[c.cell] = w
    BY <1>1, <1>3, <2>1 DEF WorkerOK, ArgumentsOK, StockLockOK
  <2>3. reservations' =
          [reservations EXCEPT ![c.id] = NewReservation(c.cell, c.quantity)]
    BY <1>3 DEF Publish
  <2>4. QED
    BY <1>1, <1>2, <2>1, <2>2, <2>3 DEF WorkerOK, DraftOK
<1>4. CASE c.op = "release"
  <2>1. Releasing(c) /\ HoldsReservation(c) /\ ~Inserted(c) /\ HoldsStock(c)
    BY <1>4 DEF Releasing, HoldsReservation, Inserted, HoldsStock
  <2>2. c.id \in Ids /\ c.cell \in Rows /\ stock_lock[c.cell] = w /\ reservation_lock[c.id] = w
    BY <1>1, <1>4, <2>1 DEF WorkerOK, ArgumentsOK, StockLockOK, ReservationLockOK
  <2>3. reservations' = [reservations EXCEPT ![c.id].status = "released"]
    BY <1>4 DEF Publish
  <2>4. /\ IsActive(reservations, c.id)
        /\ reservations[c.id].row = c.cell
        /\ reservations[c.id].quantity = c.quantity
        /\ c.pending = inventory[c.cell].reserved - c.quantity
        /\ c.atp = inventory[c.cell].on_hand - c.pending
    BY <1>1, <2>1 DEF WorkerOK, DraftOK
  <2>5. c.quantity \in Quantities
    BY <2>2, <2>4, ActiveIsCounted
  <2>6. QED
    BY <1>2, <2>1, <2>2, <2>3, <2>4, <2>5
<1>5. QED
  BY <1>1, <1>3, <1>4 DEF Calls

\* The counter and the row it accounts for change together and by the same amount, so
\* the two tables still agree, and never beyond the stock on hand.
LEMMA PublishKeepsCounts ==
  ASSUME IInv, NEW w \in Workers, call[w].step = "commit",
         call[w].pending # Unwritten, Publish(w)
  PROVE  /\ inventory' \in [Rows -> [on_hand : Nat, reserved : Nat]]
         /\ \A r \in Rows : inventory'[r].on_hand = inventory[r].on_hand
         /\ \A r \in Rows \ {call[w].cell} : inventory'[r] = inventory[r]
         /\ reservations' \in ReservationTables
         /\ \A i \in Ids \ {call[w].id} : reservations'[i] = reservations[i]
         /\ CountsOK'
<1> DEFINE c == call[w]
<1>1. /\ c.cell \in Rows /\ c.quantity \in Quantities /\ c.id \in Ids
      /\ inventory' = [inventory EXCEPT ![c.cell].reserved = c.pending]
  BY PublishedTables
<1>2. /\ inventory \in [Rows -> [on_hand : Nat, reserved : Nat]]
      /\ reservations \in ReservationTables
      /\ \A r \in Rows : /\ inventory[r].reserved = Held(reservations, r)
                         /\ inventory[r].reserved <= inventory[r].on_hand
  BY DEF IInv, TypeOK, CountsOK, ReservedIsHeld
<1>3. c.quantity \in Nat /\ c.quantity > 0
  BY <1>1, TableAssumption DEF Quantities
<1>4. CASE Inserted(c)
  <2>1. /\ c.pending = inventory[c.cell].reserved + c.quantity
        /\ c.quantity <= CommittedAtp(c.cell)
        /\ reservations[c.id] = NoReservation
        /\ reservations' = [reservations EXCEPT ![c.id] = NewReservation(c.cell, c.quantity)]
    BY <1>4, PublishedTables
  <2>2. c.pending \in Nat /\ c.pending <= inventory[c.cell].on_hand
    BY <1>1, <1>2, <1>3, <2>1 DEF CommittedAtp
  <2>3. NewReservation(c.cell, c.quantity) \in Reservation
    BY <1>1 DEF NewReservation, Reservation
  <2>4. reservations' \in ReservationTables
    BY <1>1, <1>2, <2>1, <2>3 DEF ReservationTables
  <2>8. \A i \in Ids \ {c.id} : reservations'[i] = reservations[i]
    BY <1>1, <1>2, <2>1 DEF ReservationTables
  <2>5. \A r \in Rows : Held(reservations', r) =
          Held(reservations, r) + (IF r = c.cell THEN c.quantity ELSE 0)
    <3>1. ASSUME NEW r \in Rows
          PROVE  Held([reservations EXCEPT ![c.id] = NewReservation(c.cell, c.quantity)], r)
                   = Held(reservations, r) + (IF r = c.cell THEN c.quantity ELSE 0)
      <4>1. /\ reservations \in ReservationTables /\ reservations[c.id] = NoReservation
            /\ c.id \in Ids /\ c.cell \in Rows /\ c.quantity \in Quantities
        BY <1>1, <1>2, <2>1
      <4> HIDE DEF c
      <4>2. QED
        BY <4>1, HeldAfterInsert, SMT
    <3>2. QED
      BY <2>1, <3>1
  <2>6. \A r \in Rows : inventory'[r].reserved = Held(reservations', r)
    <3>1. ASSUME NEW r \in Rows
          PROVE  inventory'[r].reserved = Held(reservations', r)
      <4>1. Held(reservations, r) \in Nat
        BY UnitsFinite
      <4>2. CASE r = c.cell
        <5>1. inventory'[r].reserved = c.pending
          BY <1>1, <1>2, <4>2
        <5>2. QED
          BY <1>2, <1>3, <2>1, <2>5, <4>1, <4>2, <5>1
      <4>3. CASE r # c.cell
        <5>1. inventory'[r] = inventory[r]
          BY <1>1, <1>2, <4>3
        <5>2. QED
          BY <1>2, <2>5, <4>1, <4>3, <5>1
      <4>4. QED
        BY <4>2, <4>3
    <3>2. QED
      BY <3>1
  <2>7. QED
    BY <1>1, <1>2, <2>2, <2>4, <2>6, <2>8 DEF CountsOK, ReservedIsHeld
<1>5. CASE ~Inserted(c)
  <2>1. /\ c.pending = inventory[c.cell].reserved - c.quantity
        /\ IsActive(reservations, c.id)
        /\ reservations[c.id].row = c.cell
        /\ reservations[c.id].quantity = c.quantity
        /\ reservations' = [reservations EXCEPT ![c.id].status = "released"]
    BY <1>5, PublishedTables
  <2>2. c.quantity <= inventory[c.cell].reserved
    BY <1>1, <2>1, ActiveIsCounted
  <2>3. c.pending \in Nat /\ c.pending <= inventory[c.cell].on_hand
    BY <1>1, <1>2, <1>3, <2>1, <2>2
  <2>4. reservations[c.id] \in Reservation
    BY <1>1, <1>2, <2>1 DEF IsActive, ReservationTables
  <2>5. reservations' \in ReservationTables
    BY <1>1, <1>2, <2>1, <2>4 DEF ReservationTables, Reservation
  <2>10. \A i \in Ids \ {c.id} : reservations'[i] = reservations[i]
    BY <1>1, <1>2, <2>1 DEF ReservationTables
  <2>6. \A r \in Rows : Held(reservations, r) =
          Held(reservations', r) + (IF r = c.cell THEN c.quantity ELSE 0)
    <3>1. ASSUME NEW r \in Rows
          PROVE  Held(reservations, r) =
                   Held([reservations EXCEPT ![c.id].status = "released"], r)
                     + (IF r = reservations[c.id].row
                          THEN reservations[c.id].quantity ELSE 0)
      BY <1>1, <1>2, <2>1, HeldAfterRelease
    <3>2. QED
      BY <2>1, <3>1
  <2>7. \A r \in Rows : Held(reservations', r) \in Nat
    BY UnitsFinite
  <2>8. \A r \in Rows : inventory'[r].reserved = Held(reservations', r)
    <3>1. ASSUME NEW r \in Rows
          PROVE  inventory'[r].reserved = Held(reservations', r)
      <4>1. CASE r = c.cell
        <5>1. inventory'[r].reserved = c.pending
          BY <1>1, <1>2, <4>1
        <5>2. Held(reservations, r) = Held(reservations', r) + c.quantity
          BY <2>6, <4>1
        <5>3. inventory[r].reserved = Held(reservations, r)
          BY <1>2
        <5>4. c.pending = inventory[r].reserved - c.quantity
          BY <2>1, <4>1
        <5>5. Held(reservations', r) \in Nat
          BY <2>7
        <5> HIDE DEF c
        <5>6. QED
          BY <1>3, <5>1, <5>2, <5>3, <5>4, <5>5
      <4>2. CASE r # c.cell
        <5>1. inventory'[r] = inventory[r]
          BY <1>1, <1>2, <4>2
        <5>2. QED
          BY <1>2, <2>6, <2>7, <4>2, <5>1
      <4>3. QED
        BY <4>1, <4>2
    <3>2. QED
      BY <3>1
  <2>9. QED
    BY <1>1, <1>2, <2>3, <2>5, <2>8, <2>10 DEF CountsOK, ReservedIsHeld
<1>6. QED
  BY <1>4, <1>5

\* What a commit publishes is under its own locks, so it overturns nothing that
\* another open transaction has read.
LEMMA PublishKeepsDrafts ==
  ASSUME IInv, NEW w \in Workers, call[w].step = "commit",
         call[w].pending # Unwritten, Publish(w), UNCHANGED next_id,
         NEW v \in Workers \ {w}, call'[v] = call[v]
  PROVE  DraftOK(v)'
<1> DEFINE c == call[w]
           d == call[v]
<1>1. WorkerOK(v)
  BY DEF IInv
<1>2. /\ c.id \in Ids /\ stock_lock[c.cell] = w
      /\ \A j \in Ids \ {c.id} : reservations'[j] = reservations[j]
  BY PublishedTables, PublishKeepsCounts
<1>3. \A r \in Rows \ {c.cell} : inventory'[r] = inventory[r]
  BY PublishKeepsCounts
<1>4. HoldsStock(d) => inventory'[d.cell] = inventory[d.cell]
  <2>1. HoldsStock(d) => d.cell \in Rows /\ stock_lock[d.cell] = v
    BY <1>1 DEF WorkerOK, StockLockOK
  <2>2. QED
    BY <1>2, <1>3, <2>1
<1>5. Inserted(d) => d.id \in Ids /\ reservations'[d.id] = reservations[d.id]
  <2>1. Inserted(d) => d.id \in Ids /\ reservations[d.id] = NoReservation
    BY <1>1 DEF WorkerOK, DraftOK
  <2>2. Inserted(d) /\ Inserted(c) => d.id # c.id
    BY DEF IInv, IdsFresh
  <2>3. ~Inserted(c) => reservations[c.id] # NoReservation
    BY PublishedTables DEF IsActive
  <2>4. QED
    BY <1>2, <2>1, <2>2, <2>3
<1>6. Releasing(d) => d.id \in Ids /\ reservations'[d.id] = reservations[d.id]
  <2>1. Releasing(d) => HoldsReservation(d)
    BY DEF Releasing, HoldsReservation
  <2>2. Releasing(d) =>
          d.id \in Ids /\ reservation_lock[d.id] = v /\ reservations[d.id] # NoReservation
    BY <1>1, <2>1 DEF WorkerOK, ArgumentsOK, ReservationLockOK, DraftOK, IsActive,
                      Releasing, HoldsReservation
  <2>3. Inserted(c) => reservations[c.id] = NoReservation
    BY PublishedTables
  <2>4. ~Inserted(c) => reservation_lock[c.id] = w
    BY PublishedTables
  <2>5. QED
    BY <1>2, <2>2, <2>3, <2>4
<1>7. QED
  BY <1>1, <1>4, <1>5, <1>6 DEF WorkerOK, DraftOK, Reserving, Releasing, Inserted,
     CommittedAtp, IsActive, HoldsStock

\* A commit, answered or not, publishes a draft that kept the books.
LEMMA CommitKeeps ==
  ASSUME IInv, NEW w \in Workers, Commit(w) \/ CommitAnswerLost(w)
  PROVE  IInv'
<1> DEFINE c == call[w]
<1>1. /\ c.step = "commit" /\ Publish(w) /\ EndTransaction(w) /\ UNCHANGED next_id
      /\ \E outcome \in {"ok", "error"} : Return(w, outcome)
  BY DEF Commit, CommitAnswerLost
<1>2. PICK outcome \in {"ok", "error"} : Return(w, outcome)
  BY <1>1
<1>3. /\ OnlyLocksOf(w)
      /\ stock_lock' \in [Rows -> Workers \cup {Nobody}]
      /\ reservation_lock' \in [Ids -> Workers \cup {Nobody}]
      /\ \A r \in Rows : stock_lock'[r] # w
      /\ \A i \in Ids : reservation_lock'[i] # w
  BY <1>1, EndTransactionReleases DEF IInv
<1>4. CASE c.pending = Unwritten
  <2>1. UNCHANGED tables
    BY <1>1, <1>4 DEF Publish
  <2>2. QED
    BY <1>1, <1>2, <1>3, <2>1, ReturnKeeps DEF Outcomes
<1>5. CASE c.pending # Unwritten
  <2>1. NoCall \in Calls
    BY ReservationsAssumption DEF NoCall, Calls, Steps, Connected, Outcomes, Unwritten
  <2>2. [NoCall EXCEPT !.outcome = outcome] \in Calls
    BY <2>1 DEF Calls, Outcomes
  <2>3. /\ call' \in [Workers -> Calls] /\ OnlyCallOf(w)
        /\ call'[w] = [NoCall EXCEPT !.outcome = outcome]
    BY <1>2, <2>2 DEF IInv, TypeOK, Return, OnlyCallOf
  <2>4. call'[w].step = "idle" /\ call'[w].op = "reserve" /\ call'[w].outcome = outcome
    BY <2>3 DEF NoCall
  <2>5. TypeOK'
    BY <1>1, <1>3, <1>5, <2>3, PublishKeepsCounts DEF IInv, TypeOK
  <2>6. WorkerOK(w)'
    BY <1>3, <2>4 DEF WorkerOK, ArgumentsOK, StockLockOK, ReservationLockOK, DraftOK,
       HoldsStock, HoldsReservation, Reserving, Releasing, Inserted, ReserveSteps, ReleaseSteps
  <2>7. \A v \in Workers \ {w} : WorkerOK(v)'
    BY <1>1, <1>3, <1>5, <2>3, OthersKeepLocks, PublishKeepsDrafts DEF WorkerOK, OnlyCallOf
  <2>8. IdsFresh'
    <3>1. c.id \in Ids /\ c.id < next_id
      <4>1. c.id \in Ids /\ (Inserted(c) => c.id < next_id)
                       /\ (~Inserted(c) => reservations[c.id] # NoReservation)
        BY <1>1, <1>5, PublishedTables DEF IsActive
      <4>2. next_id \in Int
        BY TableAssumption DEF IInv, TypeOK
      <4>3. QED
        BY <4>1, <4>2, TableAssumption DEF IInv, IdsFresh, Ids
    <3>2. \A i \in Ids \ {c.id} : reservations'[i] = reservations[i]
      BY <1>1, <1>5, PublishKeepsCounts
    <3>3. next_id \in Int
      BY TableAssumption DEF IInv, TypeOK
    <3>4. \A i \in Ids : i >= next_id' => reservations'[i] = NoReservation
      BY <1>1, <3>1, <3>2, <3>3, TableAssumption DEF IInv, IdsFresh, Ids
    <3>5. ~Inserted(call'[w])
      BY <2>4 DEF Inserted
    <3>6. ASSUME NEW u \in Workers, NEW v \in Workers, u # v,
                 Inserted(call'[u]), Inserted(call'[v])
          PROVE  call'[u].id # call'[v].id
      <4>1. call'[u] = call[u] /\ call'[v] = call[v]
        BY <2>3, <3>5, <3>6 DEF OnlyCallOf
      <4>2. QED
        BY <3>6, <4>1 DEF IInv, IdsFresh
    <3>7. QED
      BY <3>4, <3>6 DEF IdsFresh, Inserted
  <2>9. CountsOK'
    BY <1>1, <1>5, PublishKeepsCounts
  <2>10. BackstopIdle'
    BY <2>3, <2>4 DEF IInv, BackstopIdle, OnlyCallOf
  <2>11. QED
    BY <2>5, <2>6, <2>7, <2>8, <2>9, <2>10 DEF IInv
<1>6. QED
  BY <1>4, <1>5

-----------------------------------------------------------------------------
(* The invariant holds *)

\* The database as seeding leaves it satisfies the invariant.
LEMMA InitEstablishes ==
  ASSUME Init
  PROVE  IInv
<1>1. NoCall \in Calls
  BY ReservationsAssumption DEF NoCall, Calls, Steps, Connected, Outcomes, Unwritten
<1>2. TypeOK
  <2>1. inventory \in [Rows -> [on_hand : Nat, reserved : Nat]]
    <3>1. inventory \in [Rows -> [on_hand : StockLevels, reserved : {0}]]
      BY DEF Init
    <3>2. ASSUME NEW x \in [on_hand : StockLevels, reserved : {0}]
          PROVE  x \in [on_hand : Nat, reserved : Nat]
      <4>1. x.on_hand \in StockLevels /\ x.reserved = 0
        OBVIOUS
      <4>2. x.on_hand \in Nat
        BY <4>1, ReservationsAssumption
      <4>3. x = [on_hand |-> x.on_hand, reserved |-> x.reserved]
        OBVIOUS
      <4>4. QED
        BY <4>1, <4>2, <4>3
    <3>3. QED
      BY <3>1, <3>2
  <2>2. reservations \in ReservationTables
    BY DEF Init, ReservationTables
  <2>3. next_id \in 1 .. MaxId + 1
    BY TableAssumption DEF Init
  <2>4. call \in [Workers -> Calls]
    BY <1>1 DEF Init
  <2>5. QED
    BY <2>1, <2>2, <2>3, <2>4 DEF Init, TypeOK
<1>3. ASSUME NEW w \in Workers
      PROVE  WorkerOK(w) /\ call[w].outcome = "none" /\ ~Inserted(call[w])
  <2>1. call[w].step = "idle" /\ call[w].op = "reserve" /\ call[w].outcome = "none"
    BY DEF Init, NoCall
  <2>2. w # Nobody
    BY ReservationsAssumption
  <2>3. (\A r \in Rows : stock_lock[r] # w) /\ (\A i \in Ids : reservation_lock[i] # w)
    BY <2>2 DEF Init
  <2>4. QED
    BY <2>1, <2>3 DEF WorkerOK, ArgumentsOK, StockLockOK, ReservationLockOK, DraftOK,
      HoldsStock, HoldsReservation, Reserving, Releasing, Inserted, ReserveSteps, ReleaseSteps
<1>4. IdsFresh
  BY <1>3 DEF Init, IdsFresh
<1>5. CountsOK
  <2>1. \A r \in Rows : Held(reservations, r) = 0
    BY HeldEmpty DEF Init
  <2>2. inventory \in [Rows -> [on_hand : StockLevels, reserved : {0}]]
    BY DEF Init
  <2>3. \A r \in Rows : inventory[r].reserved = 0
    BY <2>2
  <2>4. \A r \in Rows : inventory[r].on_hand \in Nat
    BY <1>2 DEF TypeOK
  <2>5. QED
    BY <2>1, <2>3, <2>4 DEF CountsOK, ReservedIsHeld
<1>6. BackstopIdle
  BY <1>3 DEF BackstopIdle
<1>7. QED
  BY <1>2, <1>3, <1>4, <1>5, <1>6 DEF IInv

\* Nothing happens: the invariant speaks of the variables only.
LEMMA StutteringKeeps ==
  ASSUME IInv, UNCHANGED vars
  PROVE  IInv'
BY DEF IInv, TypeOK, WorkerOK, ArgumentsOK, StockLockOK, ReservationLockOK, DraftOK,
   IdsFresh, CountsOK, ReservedIsHeld, BackstopIdle, CommittedAtp, IsActive, vars

\* Every step of every worker keeps it.
LEMMA NextKeeps ==
  ASSUME IInv, [Next]_vars
  PROVE  IInv'
<1>1. CASE Next
  <2>1. PICK w \in Workers : Start(w) \/ Step(w) \/ Fault(w)
    BY <1>1 DEF Next
  <2>2. CASE Start(w)
    BY <2>2, RefusalKeeps, StartKeeps DEF Start
  <2>3. CASE Step(w)
    BY <2>3, ConnectKeeps, FindProductKeeps, NotFoundKeeps, LockStockKeeps,
       AddReservedKeeps, InsertReservationKeeps, LockReservationKeeps, MarkReleasedKeeps,
       SubReservedKeeps, ReadAtpKeeps, CommitKeeps, RollbackKeeps
       DEF Step, ReserveStep, ReleaseStep
  <2>4. CASE Fault(w)
    BY <2>4, RefusalKeeps, NotFoundKeeps, CommitKeeps DEF Fault
  <2>5. QED
    BY <2>1, <2>2, <2>3, <2>4
<1>2. CASE UNCHANGED vars
  BY <1>2, StutteringKeeps
<1>3. QED
  BY <1>1, <1>2

\* The inductive invariant holds in every state the service can reach.
THEOREM Invariance == Spec => []IInv
<1>1. Init => IInv
  BY InitEstablishes
<1>2. IInv /\ [Next]_vars => IInv'
  BY NextKeeps
<1>3. QED
  BY <1>1, <1>2, PTL DEF Spec

-----------------------------------------------------------------------------
(* What follows for the safety properties *)

\* Every variable keeps its type (TypeOK), for every instance.
THEOREM TypeCorrect == Spec => []TypeOK
<1>1. IInv => TypeOK
  BY DEF IInv
<1>2. QED
  BY <1>1, Invariance, PTL

\* inventory.reserved never drifts from the reservations (reserve.py:54-68, 94-105).
THEOREM CounterNeverDrifts == Spec => []ReservedIsHeld
<1>1. IInv => ReservedIsHeld
  BY DEF IInv, CountsOK
<1>2. QED
  BY <1>1, Invariance, PTL

\* Zero oversell (reserve.py:1-8).
THEOREM ZeroOversell == Spec => []NeverOversold
<1>1. IInv => NeverOversold
  BY DEF IInv, CountsOK, ReservedIsHeld, NeverOversold
<1>2. QED
  BY <1>1, Invariance, PTL

\* The CHECK constraints are never what stops an UPDATE (reserve.py:6-7).
THEOREM ChecksNeverFire == Spec => []BackstopIdle
<1>1. IInv => BackstopIdle
  BY DEF IInv
<1>2. QED
  BY <1>1, Invariance, PTL

\* No row lock outlives its transaction (reserve.py:31, 81).
THEOREM LocksNeverLeak == Spec => []LocksAreOwned
<1>1. ASSUME IInv
      PROVE  LocksAreOwned
  <2>1. ASSUME NEW r \in Rows, stock_lock[r] # Nobody
        PROVE  call[stock_lock[r]].step \in Connected /\ call[stock_lock[r]].cell = r
    <3>1. stock_lock[r] \in Workers
      BY <1>1, <2>1 DEF IInv, TypeOK
    <3>2. QED
      BY <1>1, <3>1 DEF IInv, WorkerOK, StockLockOK, Connected, ReserveSteps, ReleaseSteps
  <2>2. ASSUME NEW i \in Ids, reservation_lock[i] # Nobody
        PROVE  call[reservation_lock[i]].step \in Connected /\ call[reservation_lock[i]].id = i
    <3>1. reservation_lock[i] \in Workers
      BY <1>1, <2>2 DEF IInv, TypeOK
    <3>2. QED
      BY <1>1, <3>1 DEF IInv, WorkerOK, ReservationLockOK, Connected, ReserveSteps, ReleaseSteps
  <2>3. QED
    BY <2>1, <2>2 DEF LocksAreOwned
<1>2. QED
  BY <1>1, Invariance, PTL

\* Who can be waiting for whom: only a caller with a connection blocks a caller
\* without one; a reservation's lock is waited for only at the first statement of
\* release(), by a worker that owns no lock yet; and whoever owns a stock row's lock
\* waits for nothing (reserve.py:33-41, 82-105).
LEMMA BlockersByStep ==
  ASSUME IInv, NEW w \in Workers, NEW v \in Blockers(w)
  PROVE  /\ v \in Workers
         /\ \/ call[w].step = "connect" /\ call[v].step \in Connected
            \/ call[w].step = "lock_reservation" /\ call[v].step = "sub_reserved"
            \/ call[w].step \in Connected /\ Blockers(v) = {}
<1>1. WorkerOK(w) /\ TypeOK /\ call[w] \in Calls
  BY DEF IInv, TypeOK
<1>2. ASSUME NEW u \in Workers,
             call[u].step \in {"insert", "read_atp", "commit", "rollback"}
      PROVE  Blockers(u) = {}
  BY <1>2 DEF Blockers
<1>3. ASSUME NEW u \in Workers, call[u].step = "add_reserved"
      PROVE  Blockers(u) = {}
  <2>1. WorkerOK(u) /\ call[u] \in Calls
    BY DEF IInv, TypeOK
  <2>2. HoldsStock(call[u])
    BY <1>3, <2>1 DEF WorkerOK, ArgumentsOK, HoldsStock, Reserving, ReserveSteps, Calls
  <2>3. CanLock(stock_lock, call[u].cell, u)
    BY <2>1, <2>2 DEF WorkerOK, StockLockOK, CanLock
  <2>4. QED
    BY <1>3, <2>3 DEF Blockers
<1>4. ASSUME NEW u \in Workers, call[u].step = "mark_released"
      PROVE  Blockers(u) = {}
  <2>1. WorkerOK(u) /\ call[u] \in Calls
    BY DEF IInv, TypeOK
  <2>2. HoldsReservation(call[u])
    BY <1>4, <2>1 DEF WorkerOK, ArgumentsOK, HoldsReservation, ReleaseSteps, Calls
  <2>3. CanLock(reservation_lock, call[u].id, u)
    BY <2>1, <2>2 DEF WorkerOK, ReservationLockOK, CanLock
  <2>4. QED
    BY <1>4, <2>3 DEF Blockers
<1>5. CASE call[w].step = "connect"
  <2>1. v \in InUse
    BY <1>5 DEF Blockers
  <2>2. QED
    BY <1>5, <2>1 DEF InUse
<1>6. CASE call[w].step \in {"lock_stock", "add_reserved", "sub_reserved"}
  <2>1. call[w].cell \in Rows /\ v = stock_lock[call[w].cell] /\ v # Nobody
    BY <1>6 DEF Blockers, CanLock
  <2>2. v \in Workers
    BY <1>1, <2>1 DEF TypeOK
  <2>3. call[v].step \in {"add_reserved", "insert", "read_atp", "commit", "rollback"}
    BY <2>1, <2>2 DEF IInv, WorkerOK, StockLockOK
  <2>4. QED
    BY <1>2, <1>3, <1>6, <2>2, <2>3 DEF Connected, ReserveSteps, ReleaseSteps
<1>7. CASE call[w].step \in {"lock_reservation", "mark_released"}
  <2>1. call[w].op = "release" /\ call[w].id \in Ids
    BY <1>1, <1>7 DEF WorkerOK, ArgumentsOK, ReleaseSteps, Calls
  <2>2. v = reservation_lock[call[w].id] /\ v # Nobody
    BY <1>7 DEF Blockers, CanLock
  <2>3. v \in Workers
    BY <1>1, <2>1, <2>2 DEF TypeOK
  <2>4. call[v].step \in {"mark_released", "sub_reserved", "read_atp", "commit", "rollback"}
    BY <2>1, <2>2, <2>3 DEF IInv, WorkerOK, ReservationLockOK
  <2>5. call[w].step = "lock_reservation"
    BY <1>4, <1>7
  <2>6. QED
    BY <1>2, <1>4, <2>3, <2>4, <2>5 DEF Connected, ReleaseSteps
<1>8. QED
  BY <1>5, <1>6, <1>7 DEF Blockers

\* No group of workers waits in a circle, on row locks or on the pool.
THEOREM DeadlockFree == Spec => []NoDeadlock
<1>1. ASSUME IInv
      PROVE  NoDeadlock
  <2>1. SUFFICES ASSUME NEW S \in (SUBSET Workers) \ {{}},
                        \A w \in S : Blockers(w) # {} /\ Blockers(w) \subseteq S
                 PROVE  FALSE
    BY DEF NoDeadlock
  <2>2. \A w \in S : call[w].step # "sub_reserved"
    <3>1. SUFFICES ASSUME NEW w \in S, call[w].step = "sub_reserved" PROVE FALSE
      OBVIOUS
    <3>2. PICK v \in Blockers(w) : v \in S
      BY <2>1
    <3>3. QED
      BY <1>1, <2>1, <3>1, <3>2, BlockersByStep
  <2>3. \A w \in S : call[w].step = "connect"
    <3>1. SUFFICES ASSUME NEW w \in S, call[w].step # "connect" PROVE FALSE
      OBVIOUS
    <3>2. PICK v \in Blockers(w) : v \in S
      BY <2>1
    <3>3. QED
      BY <1>1, <2>1, <2>2, <3>1, <3>2, BlockersByStep
  <2>4. PICK w \in S : TRUE
    OBVIOUS
  <2>5. PICK v \in Blockers(w) : v \in S
    BY <2>1
  <2>6. call[v].step \in Connected
    BY <1>1, <2>3, <2>4, <2>5, <2>1, BlockersByStep
  <2>7. QED
    BY <2>3, <2>5, <2>6 DEF Connected, ReserveSteps, ReleaseSteps
<1>2. QED
  BY <1>1, Invariance, PTL

-----------------------------------------------------------------------------
(* What follows for the steps *)

\* At most one worker moves in a step.
LEMMA OneWorkerMoves ==
  ASSUME IInv, NEW w \in Workers, Next, call'[w] # call[w]
  PROVE  Start(w) \/ Step(w) \/ Fault(w)
<1>1. PICK v \in Workers : Start(v) \/ Step(v) \/ Fault(v)
  BY DEF Next
<1>2. call \in [Workers -> Calls]
  BY DEF IInv, TypeOK
<1>3. \E c : call' = [call EXCEPT ![v] = c]
  BY <1>1 DEF Start, Step, Fault, ReserveStep, ReleaseStep, Return, Fail,
     RejectQuantity, StartReserve, StartRelease, Connect, PoolTimeout, FindProduct,
     StockNotFound, LockStock, AddReserved, InsertReservation, ReservationNotFound,
     LockReservation, MarkReleased, SubReserved, ReadAtp, Commit, Rollback,
     ConnectionLost, CommitAnswerLost
<1>4. v = w
  BY <1>2, <1>3
<1>5. QED
  BY <1>1, <1>4

\* The answer of a call that wrote carries the ATP its commit leaves behind
\* (reserve.py:75, 107-119).
THEOREM AnswersAreCommitted == Spec => ReportedAtpIsCommitted
<1> DEFINE Reported(w) ==
      LET r == call[w].cell IN
      (/\ call[w].step = "commit"
       /\ call[w].pending # Unwritten
       /\ call'[w].outcome = "ok")
      => ReportedAtp(call[w]) = inventory'[r].on_hand - inventory'[r].reserved
<1>1. ASSUME IInv, Next, NEW w \in Workers, call[w].step = "commit",
             call[w].pending # Unwritten, call'[w].outcome = "ok"
      PROVE  LET r == call[w].cell IN
             ReportedAtp(call[w]) = inventory'[r].on_hand - inventory'[r].reserved
  <2> DEFINE c == call[w]
             r == c.cell
  <2>1. c.outcome = "none" /\ c \in Calls
    BY <1>1 DEF IInv, WorkerOK, ArgumentsOK, TypeOK
  <2>2. Start(w) \/ Step(w) \/ Fault(w)
    BY <1>1, <2>1, OneWorkerMoves
  <2>3. Commit(w) \/ CommitAnswerLost(w) \/ ConnectionLost(w)
    BY <1>1, <2>2 DEF Start, Step, Fault, ReserveStep, ReleaseStep,
       RejectQuantity, StartReserve, StartRelease, Connect, PoolTimeout, FindProduct,
       StockNotFound, LockStock, AddReserved, InsertReservation, ReservationNotFound,
       LockReservation, MarkReleased, SubReserved, ReadAtp, Rollback
  <2>4. ~ConnectionLost(w)
    <3>1. ConnectionLost(w) => call'[w].outcome = "error"
      BY <1>1 DEF ConnectionLost, Fail, IInv, TypeOK, Calls
    <3>2. QED
      BY <1>1, <3>1
  <2>5. Publish(w)
    BY <2>3, <2>4 DEF Commit, CommitAnswerLost
  <2>6. r \in Rows /\ inventory' = [inventory EXCEPT ![r].reserved = c.pending]
    BY <1>1, <2>5, PublishedTables
  <2>7. /\ inventory'[r].on_hand = inventory[r].on_hand
        /\ inventory'[r].reserved = c.pending
        /\ inventory[r].on_hand \in Int /\ inventory[r].reserved \in Int
    BY <1>1, <2>6 DEF IInv, TypeOK
  <2>8. CASE Inserted(c)
    <3>1. /\ c.atp = inventory[r].on_hand - inventory[r].reserved
          /\ c.pending = inventory[r].reserved + c.quantity /\ c.op = "reserve"
      BY <1>1, <2>5, <2>8, PublishedTables DEF CommittedAtp, Inserted
    <3>2. c.quantity \in Int
      BY <2>1 DEF Calls
    <3>3. QED
      BY <2>7, <3>1, <3>2 DEF ReportedAtp
  <2>9. CASE ~Inserted(c)
    <3>1. c.atp = inventory[r].on_hand - c.pending /\ c.op # "reserve"
      BY <1>1, <2>5, <2>9, PublishedTables DEF Releasing
    <3>2. QED
      BY <2>7, <3>1 DEF ReportedAtp
  <2>10. QED
    BY <2>8, <2>9
<1>2. IInv /\ [Next]_vars => [\A w \in Workers : Reported(w)]_vars
  BY <1>1
<1>3. QED
  BY <1>2, Invariance, PTL DEF Spec, ReportedAtpIsCommitted

\* A request is refused only when the active reservations leave too little for it
\* (reserve.py:47-52).
THEOREM RefusalsAreJustified == Spec => RefusedOnlyWhenHeld
<1> DEFINE Justified(w) ==
      LET r == call[w].cell IN
      (/\ call[w].outcome = "none"
       /\ call'[w].outcome = "insufficient")
      => call[w].quantity > inventory[r].on_hand - Held(reservations, r)
<1>1. ASSUME IInv, Next, NEW w \in Workers, call[w].outcome = "none",
             call'[w].outcome = "insufficient"
      PROVE  call[w].quantity >
               inventory[call[w].cell].on_hand - Held(reservations, call[w].cell)
  <2>1. call \in [Workers -> Calls]
    BY <1>1 DEF IInv, TypeOK
  <2>2. Start(w) \/ Step(w) \/ Fault(w)
    BY <1>1, OneWorkerMoves
  <2>3. LockStock(w)
    <3>1. ASSUME NEW outcome, Return(w, outcome)
          PROVE  call'[w].outcome = outcome
      BY <2>1, <3>1 DEF Return, NoCall
    <3>2. ASSUME NEW outcome, Fail(w, outcome)
          PROVE  call'[w].outcome = outcome
      BY <2>1, <3>2 DEF Fail, Calls
    <3>3. ~Start(w)
      BY <1>1, <2>1, <3>1 DEF Start, RejectQuantity, StartReserve, StartRelease, NoCall
    <3>4. ~Fault(w)
      BY <1>1, <3>1, <3>2 DEF Fault, PoolTimeout, ConnectionLost, CommitAnswerLost
    <3>5. ~Commit(w) /\ ~Rollback(w)
      BY <1>1, <3>1 DEF Commit, Rollback
    <3>6. ~Connect(w) /\ ~ReadAtp(w) /\ ~MarkReleased(w) /\ ~LockReservation(w)
      BY <1>1, <2>1 DEF Connect, ReadAtp, MarkReleased, LockReservation, Calls
    <3>7. ~FindProduct(w) /\ ~StockNotFound(w) /\ ~ReservationNotFound(w)
      BY <1>1, <2>1, <3>2 DEF FindProduct, StockNotFound, ReservationNotFound, Calls
    <3>8. ~AddReserved(w) /\ ~InsertReservation(w) /\ ~SubReserved(w)
      BY <1>1, <2>1, <3>2 DEF AddReserved, InsertReservation, SubReserved, Calls
    <3>9. QED
      BY <2>2, <3>3, <3>4, <3>5, <3>6, <3>7, <3>8 DEF Step, ReserveStep, ReleaseStep
  <2>4. call[w].cell \in Rows /\ call[w].quantity > CommittedAtp(call[w].cell)
    BY <1>1, <2>1, <2>3 DEF LockStock, Calls
  <2>5. QED
    BY <1>1, <2>4 DEF CommittedAtp, IInv, CountsOK, ReservedIsHeld
<1>2. IInv /\ [Next]_vars => [\A w \in Workers : Justified(w)]_vars
  BY <1>1
<1>3. QED
  BY <1>2, Invariance, PTL DEF Spec, RefusedOnlyWhenHeld

-----------------------------------------------------------------------------
(* The calls implement the ledger *)

\* The ledger counts units the way the tables' invariant does.
LEMMA LedgerCounts ==
  ASSUME NEW S
  PROVE  Ledger!Cardinality(S) = Cardinality(S)
BY DEF Ledger!Cardinality, Cardinality

\* A commit that wrote is one step of the ledger.
LEMMA PublishIsLedgerStep ==
  ASSUME IInv, NEW w \in Workers, call[w].step = "commit",
         call[w].pending # Unwritten, Publish(w)
  PROVE  Ledger!Next
<1> DEFINE c == call[w]
           r == c.cell
<1>1. /\ r \in Rows /\ c.quantity \in Quantities /\ c.id \in Ids
      /\ \A s \in Rows : inventory'[s].on_hand = inventory[s].on_hand
  BY PublishedTables, PublishKeepsCounts
<1>2. [s \in Rows |-> inventory[s].on_hand]' = [s \in Rows |-> inventory[s].on_hand]
  BY <1>1
<1>3. CASE Inserted(c)
  <2>1. /\ reservations[c.id] = NoReservation
        /\ c.quantity <= CommittedAtp(r)
        /\ reservations' = [reservations EXCEPT ![c.id] = NewReservation(r, c.quantity)]
    BY <1>3, PublishedTables
  <2>2. CommittedAtp(r) = inventory[r].on_hand - Held(reservations, r)
    BY <1>1 DEF CommittedAtp, IInv, CountsOK, ReservedIsHeld
  <2>3. c.quantity <= Ledger!Promisable(r)
    BY <1>1, <2>1, <2>2, LedgerCounts DEF Ledger!Promisable, Ledger!Held, Ledger!Units, Ledger!Ids,
       Ledger!Quantities, Ledger!IsActive, Ledger!Rows, Held, Units, Ids, Quantities,
       IsActive, Rows
  <2>4. Ledger!Reserve(c.id, r, c.quantity)
    BY <1>2, <2>1, <2>3 DEF Ledger!Reserve, Ledger!NewReservation, NewReservation
  <2>5. QED
    BY <1>1, <2>4 DEF Ledger!Next, Ledger!Ids, Ledger!Rows, Ledger!Quantities,
       Ids, Rows, Quantities
<1>4. CASE ~Inserted(c)
  <2>1. /\ IsActive(reservations, c.id)
        /\ reservations' = [reservations EXCEPT ![c.id].status = "released"]
    BY <1>4, PublishedTables
  <2>2. Ledger!Release(c.id)
    BY <1>2, <2>1 DEF Ledger!Release, Ledger!IsActive, IsActive
  <2>3. QED
    BY <1>1, <2>2 DEF Ledger!Next, Ledger!Ids, Ids
<1>5. QED
  BY <1>3, <1>4

\* Every grant comes out of stock that no active reservation holds, and every
\* reservation is given back at most once, whatever the interleaving, the faults and
\* the retries (reserve.py:1-8).
THEOREM Refinement == Spec => ImplementsLedger
<1>1. Init => Ledger!Init
  <2>1. SUFFICES ASSUME Init PROVE Ledger!Init
    OBVIOUS
  <2>2. \A r \in Rows : inventory[r].on_hand \in Nat
    BY <2>1, InitEstablishes DEF IInv, TypeOK
  <2>3. QED
    BY <2>1, <2>2 DEF Init, Ledger!Init, Ledger!Rows, Ledger!Ids, Rows, Ids
<1>2. ASSUME IInv, Next
      PROVE  Ledger!Next \/ UNCHANGED tables
  <2>1. PICK w \in Workers : Start(w) \/ Step(w) \/ Fault(w)
    BY <1>2 DEF Next
  <2>2. CASE Commit(w) \/ CommitAnswerLost(w)
    <3>1. call[w].step = "commit" /\ Publish(w)
      BY <2>2 DEF Commit, CommitAnswerLost
    <3>2. CASE call[w].pending = Unwritten
      BY <3>1, <3>2 DEF Publish
    <3>3. CASE call[w].pending # Unwritten
      BY <1>2, <3>1, <3>3, PublishIsLedgerStep
    <3>4. QED
      BY <3>2, <3>3
  <2>3. CASE ~(Commit(w) \/ CommitAnswerLost(w))
    BY <2>1, <2>3 DEF Start, Step, Fault, ReserveStep, ReleaseStep,
       RejectQuantity, StartReserve, StartRelease, Connect, PoolTimeout, FindProduct,
       StockNotFound, LockStock, AddReserved, InsertReservation, ReservationNotFound,
       LockReservation, MarkReleased, SubReserved, ReadAtp, Rollback, ConnectionLost
  <2>4. QED
    BY <2>2, <2>3
<1>3. UNCHANGED tables => UNCHANGED Ledger!vars
  BY DEF tables, Ledger!vars, Ledger!Rows, Rows
<1>4. IInv /\ [Next]_vars => [Ledger!Next]_(Ledger!vars)
  BY <1>2, <1>3 DEF vars, tables
<1>5. QED
  BY <1>1, <1>4, Invariance, PTL DEF Spec, ImplementsLedger, Ledger!Spec

-----------------------------------------------------------------------------
(* The bench: its inductive invariant *)

\* How many calls of the lifecycle have returned.
Returned == Len(checks) - 1

\* A call of this phase has raised what the bench does not expect.
Faulted == \E w \in Workers : call[w].outcome = "error"

\* The call the lifecycle is in takes the next lot, or gives back the lot that it
\* has kept longest, of which it will write the return.
LifecycleCallOK(c) ==
  IF Returned < Len(Lots)
    THEN c.op = "reserve" /\ c.cell = LifecycleRow /\ c.quantity = Lots[Returned + 1]
    ELSE /\ c.op = "release" /\ c.id = receipts[Returned + 1 - Len(Lots)]
         /\ c.step \in {"read_atp", "commit"} => c.pending # Unwritten

\* The committed tables hold the lots that have been taken and not given back, and
\* the receipts say under which ids.
LifecycleBooksOK ==
  /\ inventory[LifecycleRow].on_hand = LifecycleStock
  /\ inventory[LifecycleRow].reserved = Cardinality(LotUnits(Returned))
  /\ Len(receipts) = IF Returned < Len(Lots) THEN Returned ELSE Len(Lots)
  /\ \A k \in DOMAIN receipts :
       reservations[receipts[k]] =
         [row |-> LifecycleRow, quantity |-> Lots[k],
          status |-> IF Returned < k + Len(Lots) THEN "active" ELSE "released"]
  /\ \A j, k \in DOMAIN receipts : receipts[j] = receipts[k] => j = k
  /\ \A i \in Ids : IsActive(reservations, i) => \E k \in DOMAIN receipts : receipts[k] = i

\* One call at a time; once one has raised, none follows.
LifecycleOK ==
  /\ trial = 0
  /\ Returned \in 0 .. 2 * Len(Lots)
  /\ Faulted => Returned < 2 * Len(Lots)
  /\ \A w \in Workers :
       /\ call[w].outcome \in {"none", "ok", "error"}
       /\ call[w].step = "rollback" => call[w].outcome = "error"
       /\ call[w].step # "idle" =>
            /\ Returned < 2 * Len(Lots)
            /\ \A v \in Workers \ {w} : call[v].step = "idle"
       /\ call[w].step \notin {"idle", "rollback"} => ~Faulted /\ LifecycleCallOK(call[w])
  /\ ~Faulted => LifecycleBooksOK

\* What a thread of a trial is doing, or was told.
RacerOK(w) ==
  LET t == Trials[trial]
      c == call[w]
  IN
  /\ c.outcome \in {"none", "ok", "insufficient", "error"}
  /\ c.step \notin {"idle", "rollback"} =>
       c.op = "reserve" /\ c.cell = t.row /\ c.quantity = t.qty
  /\ c.outcome = "insufficient" => t.qty > t.on_hand - inventory[t.row].reserved

\* The trial's row holds a lot for every winner.
RaceOK ==
  LET t == Trials[trial] IN
  /\ trial > 0
  /\ inventory[t.row].on_hand = t.on_hand
  /\ \A w \in Workers : RacerOK(w)
  /\ ~Faulted => inventory[t.row].reserved = t.qty * Cardinality(Winners)

\* Nothing is reserved but on the rows of the trials so far.
OnTrialRows ==
  \A i \in Ids : IsActive(reservations, i) =>
    \E u \in 1 .. trial : reservations[i].row = Trials[u].row

BenchTypeOK ==
  /\ stage \in Stages
  /\ trial \in 0 .. Len(Trials)
  /\ checks \in Seq(BOOLEAN)
  /\ receipts \in Seq(Ids)

BenchIInv ==
  /\ IInv
  /\ BenchTypeOK
  /\ stage \notin {"lifecycle", "racing"} => Quiet
  /\ stage \in {"seeded", "ready", "racing"} => OnTrialRows
  /\ stage = "seeded" => trial = 0 /\ receipts = <<>>
  /\ stage = "lifecycle" => LifecycleOK
  /\ stage = "racing" => RaceOK
  /\ SoldExactly
  /\ EveryCheckPasses
  /\ OnlyFaultsAbort

-----------------------------------------------------------------------------
(* Counting the lots of the lifecycle *)

\* Elements of sets that share none add up.
LEMMA DisjointUnion ==
  ASSUME NEW S, IsFiniteSet(S), NEW T, IsFiniteSet(T), S \cap T = {}
  PROVE  Cardinality(S \cup T) = Cardinality(S) + Cardinality(T)
<1>1. Cardinality(S \cup T) = Cardinality(S) + Cardinality(T) - Cardinality(S \cap T)
  BY FS_Union
<1>2. Cardinality(S) \in Nat /\ Cardinality(T) \in Nat /\ Cardinality(S \cap T) = 0
  BY FS_CardinalityType, FS_EmptySet
<1> QED
  BY <1>1, <1>2

\* The units the lifecycle has reserved are finitely many, and none at its beginning.
LEMMA LotUnitsFinite ==
  /\ \A n \in Nat : IsFiniteSet(LotUnits(n)) /\ Cardinality(LotUnits(n)) \in Nat
  /\ Cardinality(LotUnits(0)) = 0
<1>1. Len(Lots) \in Nat /\ DOMAIN Lots = 1 .. Len(Lots)
  BY InventoryBenchAssumption
<1>2. IsFiniteSet(DOMAIN Lots) /\ IsFiniteSet(Quantities)
  BY <1>1, FS_Interval, TableAssumption DEF Quantities
<1>3. IsFiniteSet((DOMAIN Lots) \X Quantities)
  BY <1>2, FS_Product
<1>4. ASSUME NEW n \in Nat
      PROVE  IsFiniteSet(LotUnits(n)) /\ Cardinality(LotUnits(n)) \in Nat
  <2>1. LotUnits(n) \subseteq (DOMAIN Lots) \X Quantities
    BY DEF LotUnits
  <2> QED
    BY <1>3, <2>1, FS_Subset, FS_CardinalityType
<1>5. LotUnits(0) = {}
  BY <1>1 DEF LotUnits
<1> QED
  BY <1>4, <1>5, FS_EmptySet

\* The lots are reserved one after the other, and there is enough for all of them.
LEMMA LotTaken ==
  ASSUME NEW n \in Nat, n < Len(Lots)
  PROVE  /\ Cardinality(LotUnits(n)) \in Nat
         /\ Cardinality(LotUnits(n + 1)) = Cardinality(LotUnits(n)) + Lots[n + 1]
         /\ Cardinality(LotUnits(n + 1)) <= LifecycleStock
<1>1. Lots \in Seq(Quantities) /\ Len(Lots) \in Nat /\ DOMAIN Lots = 1 .. Len(Lots)
  BY InventoryBenchAssumption
<1>2. n + 1 \in DOMAIN Lots /\ Lots[n + 1] \in Quantities /\ Lots[n + 1] \in Nat
  BY <1>1, TableAssumption DEF Quantities
<1>3. \A m \in Nat : IsFiniteSet(LotUnits(m)) /\ Cardinality(LotUnits(m)) \in Nat
  BY LotUnitsFinite
<1>4. LotUnits(n + 1) = LotUnits(n) \cup UnitsOf(n + 1, Lots[n + 1])
  BY <1>1, <1>2, TableAssumption DEF LotUnits, UnitsOf, Quantities
<1>5. LotUnits(n) \cap UnitsOf(n + 1, Lots[n + 1]) = {}
  BY <1>1 DEF LotUnits, UnitsOf
<1>6. Cardinality(LotUnits(n + 1)) = Cardinality(LotUnits(n)) + Lots[n + 1]
  <2>1. /\ IsFiniteSet(UnitsOf(n + 1, Lots[n + 1]))
        /\ Cardinality(UnitsOf(n + 1, Lots[n + 1])) = Lots[n + 1]
    BY <1>2, UnitsOfCount
  <2> QED
    BY <1>3, <1>4, <1>5, <2>1, DisjointUnion
<1>7. LotUnits(n + 1) \subseteq LotUnits(Len(Lots))
  BY <1>1 DEF LotUnits
<1>8. Cardinality(LotUnits(n + 1)) <= Cardinality(LotUnits(Len(Lots)))
  BY <1>1, <1>3, <1>7, FS_Subset
<1>9. Cardinality(LotUnits(n + 1)) <= LifecycleStock
  BY <1>1, <1>3, <1>8, InventoryBenchAssumption
<1> QED
  BY <1>3, <1>6, <1>9

\* They come back in the same order.
LEMMA LotGivenBack ==
  ASSUME NEW n \in Nat, Len(Lots) <= n, n < 2 * Len(Lots)
  PROVE  /\ Cardinality(LotUnits(n + 1)) \in Nat
         /\ Cardinality(LotUnits(n)) = Cardinality(LotUnits(n + 1)) + Lots[n + 1 - Len(Lots)]
<1> DEFINE k == n + 1 - Len(Lots)
<1>1. Lots \in Seq(Quantities) /\ Len(Lots) \in Nat /\ DOMAIN Lots = 1 .. Len(Lots)
  BY InventoryBenchAssumption
<1>2. k \in DOMAIN Lots /\ Lots[k] \in Quantities /\ Lots[k] \in Nat
  BY <1>1, TableAssumption DEF Quantities
<1>3. IsFiniteSet(LotUnits(n + 1)) /\ Cardinality(LotUnits(n + 1)) \in Nat
  <2>1. n + 1 \in Nat
    OBVIOUS
  <2> QED
    BY <2>1, LotUnitsFinite
<1>4. LotUnits(n) = LotUnits(n + 1) \cup UnitsOf(k, Lots[k])
  BY <1>1, <1>2, TableAssumption DEF LotUnits, UnitsOf, Quantities
<1>5. LotUnits(n + 1) \cap UnitsOf(k, Lots[k]) = {}
  BY <1>1 DEF LotUnits, UnitsOf
<1>6. Cardinality(LotUnits(n)) = Cardinality(LotUnits(n + 1)) + Lots[k]
  <2>1. IsFiniteSet(UnitsOf(k, Lots[k])) /\ Cardinality(UnitsOf(k, Lots[k])) = Lots[k]
    BY <1>2, UnitsOfCount
  <2> HIDE DEF k
  <2> QED
    BY <1>3, <1>4, <1>5, <2>1, DisjointUnion
<1> QED
  BY <1>3, <1>6

-----------------------------------------------------------------------------
(* What a step does to a call, for those who wait for its outcome *)

\* The call goes on to its next statement; a release that is not going to write has
\* found its reservation released.
GoesOn(w) ==
  LET c == call[w]
      d == call'[w]
  IN
  /\ UNCHANGED tables
  /\ d.step \notin {"idle", "rollback"} /\ d.outcome = "none" /\ d.op = c.op
  /\ c.op = "reserve" => d.cell = c.cell /\ d.quantity = c.quantity
  /\ c.op = "release" => d.id = c.id
  /\ c.op = "release" /\ d.step \in {"read_atp", "commit"} /\ d.pending = Unwritten =>
       \/ c.step = "read_atp" /\ c.pending = Unwritten
       \/ c.step = "lock_reservation" /\ ~IsActive(reservations, c.id)

\* It raises, for a reason that holds of the committed tables.
GivesUp(w) ==
  LET c == call[w]
      d == call'[w]
  IN
  /\ UNCHANGED tables
  /\ d.step = "rollback"
  /\ \/ d.outcome = "error"
     \/ d.outcome = "not_found" /\ c.op = "reserve" /\ c.cell \notin Rows
     \/ d.outcome = "not_found" /\ c.op = "release" /\ reservations[c.id] = NoReservation
     \/ /\ d.outcome = "insufficient" /\ c.op = "reserve"
        /\ c.cell \in Rows /\ c.quantity > CommittedAtp(c.cell)

\* Its transaction commits, and its caller is told so or not.
Commits(w, outcome) ==
  /\ call[w].step = "commit"
  /\ Publish(w)
  /\ call'[w].step = "idle" /\ call'[w].outcome = outcome

\* A step of a call that no fault meets.
LEMMA StepShapes ==
  ASSUME IInv, NEW w \in Workers, Step(w)
  PROVE  /\ OnlyCallOf(w)
         /\ call[w].step # "idle"
         /\ \/ /\ call[w].step \notin {"rollback", "commit"}
               /\ GoesOn(w) \/ GivesUp(w)
            \/ /\ call[w].step = "rollback" /\ UNCHANGED tables
               /\ call'[w].step = "idle" /\ call'[w].outcome = call[w].outcome
            \/ Commits(w, "ok")
<1>1. IInv' /\ call'[w].outcome # "check_violation"
  BY NextKeeps DEF Next, IInv, BackstopIdle
<1>2. call \in [Workers -> Calls] /\ call[w] \in Calls /\ ArgumentsOK(call[w])
  BY DEF IInv, TypeOK, WorkerOK
<1>3. CASE Connect(w)
  BY <1>2, <1>3 DEF Connect, OnlyCallOf, GoesOn, Calls, ArgumentsOK
<1>4. CASE FindProduct(w)
  BY <1>2, <1>4 DEF FindProduct, Fail, OnlyCallOf, GoesOn, GivesUp, Calls, ArgumentsOK,
     ReleaseSteps, Rows
<1>5. CASE StockNotFound(w)
  BY <1>2, <1>5 DEF StockNotFound, Fail, OnlyCallOf, GivesUp, Calls, ArgumentsOK, ReleaseSteps
<1>6. CASE LockStock(w)
  BY <1>2, <1>6 DEF LockStock, Fail, OnlyCallOf, GoesOn, GivesUp, Calls, ArgumentsOK,
     ReleaseSteps
<1>7. CASE AddReserved(w)
  BY <1>1, <1>2, <1>7 DEF AddReserved, Fail, OnlyCallOf, GoesOn, Calls, ArgumentsOK,
     ReleaseSteps
<1>8. CASE InsertReservation(w)
  BY <1>2, <1>8 DEF InsertReservation, Fail, OnlyCallOf, GoesOn, GivesUp, Calls,
     ArgumentsOK, ReserveSteps
<1>9. CASE ReservationNotFound(w)
  BY <1>2, <1>9 DEF ReservationNotFound, Fail, OnlyCallOf, GivesUp, Calls, ArgumentsOK,
     ReserveSteps
<1>10. CASE LockReservation(w)
  BY <1>2, <1>10 DEF LockReservation, OnlyCallOf, GoesOn, Calls, ArgumentsOK,
     ReserveSteps, IsActive
<1>11. CASE MarkReleased(w)
  BY <1>2, <1>11 DEF MarkReleased, OnlyCallOf, GoesOn, Calls, ArgumentsOK,
     ReserveSteps
<1>12. CASE SubReserved(w)
  BY <1>1, <1>2, <1>12 DEF SubReserved, Fail, OnlyCallOf, GoesOn, Calls, ArgumentsOK,
     ReserveSteps, ChecksPass, Unwritten
<1>13. CASE ReadAtp(w)
  BY <1>2, <1>13 DEF ReadAtp, OnlyCallOf, GoesOn, Calls, ArgumentsOK, ReserveSteps
<1>14. CASE Commit(w)
  BY <1>2, <1>14 DEF Commit, Return, NoCall, OnlyCallOf, Commits
<1>15. CASE Rollback(w)
  BY <1>2, <1>15 DEF Rollback, Return, NoCall, OnlyCallOf
<1> QED
  BY <1>3, <1>4, <1>5, <1>6, <1>7, <1>8, <1>9, <1>10, <1>11, <1>12, <1>13, <1>14, <1>15
     DEF Step, ReserveStep, ReleaseStep

\* A fault: the caller sees an error, whether the transaction committed or not.
LEMMA FaultShapes ==
  ASSUME IInv, NEW w \in Workers, Fault(w)
  PROVE  /\ OnlyCallOf(w)
         /\ call[w].step \notin {"idle", "rollback"}
         /\ call'[w].step \in {"idle", "rollback"} /\ call'[w].outcome = "error"
         /\ UNCHANGED tables \/ Commits(w, "error")
<1>1. call \in [Workers -> Calls] /\ call[w] \in Calls
  BY DEF IInv, TypeOK
<1>2. CASE PoolTimeout(w)
  BY <1>1, <1>2 DEF PoolTimeout, Return, NoCall, OnlyCallOf
<1>3. CASE ConnectionLost(w)
  BY <1>1, <1>3 DEF ConnectionLost, Fail, OnlyCallOf, Calls, Connected, ReserveSteps,
     ReleaseSteps
<1>4. CASE CommitAnswerLost(w)
  BY <1>1, <1>4 DEF CommitAnswerLost, Return, NoCall, OnlyCallOf, Commits
<1> QED
  BY <1>2, <1>3, <1>4 DEF Fault

-----------------------------------------------------------------------------
(* What the main thread of the bench does to the database *)

\* Nothing is held on a row of which no reservation is active.
LEMMA NoneHeld ==
  ASSUME NEW table, NEW r, \A i \in Ids : IsActive(table, i) => table[i].row # r
  PROVE  Held(table, r) = 0
<1>1. Units(table, r) = {}
  BY DEF Units
<1> QED
  BY <1>1, FS_EmptySet DEF Held

\* No call runs, so no row is locked, and all threads may begin anew.
LEMMA FreshCalls ==
  ASSUME IInv, Quiet, call' = [w \in Workers |-> NoCall], UNCHANGED locks
  PROVE  /\ call' \in [Workers -> Calls]
         /\ \A w \in Workers : /\ WorkerOK(w)' /\ ~Inserted(call'[w])
                               /\ call'[w].step = "idle" /\ call'[w].outcome = "none"
<1>1. NoCall \in Calls
  BY ReservationsAssumption DEF NoCall, Calls, Steps, Connected, Outcomes, Unwritten
<1>2. ASSUME NEW w \in Workers
      PROVE  WorkerOK(w)' /\ ~Inserted(call'[w])
             /\ call'[w].step = "idle" /\ call'[w].outcome = "none"
  <2>1. call'[w].step = "idle" /\ call'[w].op = "reserve" /\ call'[w].outcome = "none"
    BY DEF NoCall
  <2>2. WorkerOK(w) /\ call[w].step = "idle"
    BY DEF IInv, Quiet
  <2>3. (\A r \in Rows : stock_lock'[r] # w) /\ (\A i \in Ids : reservation_lock'[i] # w)
    BY <2>2 DEF WorkerOK, StockLockOK, ReservationLockOK, locks
  <2> QED
    BY <2>1, <2>3 DEF WorkerOK, ArgumentsOK, StockLockOK, ReservationLockOK, DraftOK,
      HoldsStock, HoldsReservation, Reserving, Releasing, Inserted, ReserveSteps, ReleaseSteps
<1> QED
  BY <1>1, <1>2

\* _set_stock may zero the counter of a row of which nothing is reserved.
LEMMA SetStockKeeps ==
  ASSUME IInv, NEW row \in Rows, NEW on_hand \in Nat, SetStock(row, on_hand),
         \A i \in Ids : IsActive(reservations, i) => reservations[i].row # row
  PROVE  IInv'
<1>1. /\ call' \in [Workers -> Calls]
      /\ \A w \in Workers : /\ WorkerOK(w)' /\ ~Inserted(call'[w])
                            /\ call'[w].step = "idle" /\ call'[w].outcome = "none"
  BY FreshCalls DEF SetStock
<1>2. /\ inventory' = [inventory EXCEPT ![row] = [on_hand |-> on_hand, reserved |-> 0]]
      /\ inventory \in [Rows -> [on_hand : Nat, reserved : Nat]]
      /\ reservations' = reservations /\ next_id' = next_id
      /\ UNCHANGED <<stock_lock, reservation_lock>>
  BY DEF SetStock, IInv, TypeOK, locks
<1>3. TypeOK'
  BY <1>1, <1>2 DEF IInv, TypeOK
<1>4. IdsFresh'
  BY <1>1, <1>2 DEF IInv, IdsFresh
<1>5. CountsOK'
  <2>1. ASSUME NEW r \in Rows
        PROVE  /\ inventory'[r].reserved = Held(reservations, r)
               /\ inventory'[r].reserved <= inventory'[r].on_hand
    <3>1. CASE r = row
      BY <1>2, <3>1, NoneHeld
    <3>2. CASE r # row
      BY <1>2, <3>2 DEF IInv, CountsOK, ReservedIsHeld
    <3> QED
      BY <3>1, <3>2
  <2> QED
    BY <1>2, <2>1 DEF CountsOK, ReservedIsHeld
<1>6. BackstopIdle'
  BY <1>1 DEF BackstopIdle
<1> QED
  BY <1>1, <1>3, <1>4, <1>5, <1>6 DEF IInv

\* ensure_seeded begins where the service began.
LEMMA SeedingKeeps ==
  ASSUME IInv, Quiet, EnsureSeeded
  PROVE  IInv'
<1>1. Init'
  <2>1. \A w \in Workers : /\ \A r \in Rows : stock_lock[r] # w
                           /\ \A i \in Ids : reservation_lock[i] # w
    BY DEF IInv, Quiet, WorkerOK, StockLockOK, ReservationLockOK
  <2>2. /\ stock_lock = [r \in Rows |-> Nobody]
        /\ reservation_lock = [i \in Ids |-> Nobody]
    BY <2>1 DEF IInv, TypeOK
  <2> QED
    BY <2>2 DEF EnsureSeeded, Init, locks
<1>2. Init' => IInv'
  BY InitEstablishes, PTL
<1> QED
  BY <1>1, <1>2

-----------------------------------------------------------------------------
(* run_reservation_lifecycle keeps the invariant *)

\* The types of what the bench is given.
LEMMA Parameters ==
  /\ Len(Lots) \in Nat /\ DOMAIN Lots = 1 .. Len(Lots)
  /\ \A k \in 1 .. Len(Lots) : Lots[k] \in Quantities /\ Lots[k] \in Nat
  /\ LifecycleRow \in Rows /\ LifecycleStock \in Nat
  /\ Len(Trials) \in Nat /\ DOMAIN Trials = 1 .. Len(Trials)
  /\ \A t \in 1 .. Len(Trials) :
       /\ Trials[t].row \in Rows /\ Trials[t].on_hand \in Nat
       /\ Trials[t].qty \in Quantities /\ Trials[t].qty \in Nat \ {0}
<1>1. \A q \in Quantities : q \in Nat \ {0}
  BY TableAssumption DEF Quantities
<1>2. /\ Len(Lots) \in Nat /\ DOMAIN Lots = 1 .. Len(Lots)
      /\ \A k \in 1 .. Len(Lots) : Lots[k] \in Quantities
  BY InventoryBenchAssumption
<1>3. /\ Len(Trials) \in Nat /\ DOMAIN Trials = 1 .. Len(Trials)
      /\ \A t \in 1 .. Len(Trials) :
           Trials[t] \in [row : Rows, on_hand : Nat, qty : Quantities]
  <2> DEFINE T == [row : Rows, on_hand : Nat, qty : Quantities]
  <2>1. Trials \in Seq(T)
    BY InventoryBenchAssumption, Zenon
  <2> HIDE DEF T
  <2>2. /\ Len(Trials) \in Nat /\ DOMAIN Trials = 1 .. Len(Trials)
        /\ \A t \in 1 .. Len(Trials) : Trials[t] \in T
    BY <2>1
  <2> QED
    BY <2>2, Zenon DEF T
<1>4. LifecycleRow \in Rows /\ LifecycleStock \in Nat
  BY InventoryBenchAssumption
<1>5. \A t \in 1 .. Len(Trials) :
        Trials[t].row \in Rows /\ Trials[t].on_hand \in Nat /\ Trials[t].qty \in Quantities
  BY <1>3
<1> QED
  BY <1>1, <1>2, <1>3, <1>4, <1>5

\* A record of one element.
LEMMA Single ==
  ASSUME NEW S, NEW b \in S
  PROVE  <<b>> \in Seq(S) /\ Len(<<b>>) = 1 /\ \A m \in DOMAIN <<b>> : <<b>>[m] = b
OBVIOUS

LEMMA FirstCheck ==
  <<TRUE>> \in Seq(BOOLEAN) /\ \A m \in DOMAIN <<TRUE>> : <<TRUE>>[m]
<1>1. TRUE \in BOOLEAN
  OBVIOUS
<1> QED
  BY <1>1, Single, Zenon

\* A record that grows.
LEMMA Grow ==
  ASSUME NEW S, NEW s \in Seq(S), NEW b \in S
  PROVE  /\ Append(s, b) \in Seq(S) /\ Len(Append(s, b)) = Len(s) + 1
         /\ \A m \in DOMAIN Append(s, b) :
              (m \in DOMAIN s /\ Append(s, b)[m] = s[m]) \/ Append(s, b)[m] = b
OBVIOUS

LEMMA NextCheck ==
  ASSUME NEW s \in Seq(BOOLEAN), \A m \in DOMAIN s : s[m], NEW b \in BOOLEAN, b
  PROVE  /\ Append(s, b) \in Seq(BOOLEAN) /\ Len(Append(s, b)) = Len(s) + 1
         /\ \A m \in DOMAIN Append(s, b) : Append(s, b)[m]
<1>1. /\ Append(s, b) \in Seq(BOOLEAN) /\ Len(Append(s, b)) = Len(s) + 1
      /\ \A m \in DOMAIN Append(s, b) :
           (m \in DOMAIN s /\ Append(s, b)[m] = s[m]) \/ Append(s, b)[m] = b
  BY Grow, Zenon
<1> QED
  BY <1>1, Zenon

\* A call that reserve() or release() may make keeps the invariant of Reservations.
LEMMA CallsKeep ==
  ASSUME IInv, NEW w \in Workers,
         \/ \E r \in Rows, q \in Quantities : StartReserve(w, r[1], r[2], q)
         \/ \E i \in Ids : StartRelease(w, i)
         \/ Step(w) \/ Fault(w)
  PROVE  IInv'
<1>1. ASSUME NEW r \in Rows, NEW q \in Quantities, StartReserve(w, r[1], r[2], q)
      PROVE  Start(w)
  <2>1. r[1] \in Skus /\ r[2] \in WarehouseCodes
    BY ReservationsAssumption DEF Rows
  <2>2. q \in 0 .. MaxQuantity
    BY TableAssumption DEF Quantities
  <2> QED
    BY <1>1, <2>1, <2>2 DEF Start
<1>2. Next
  BY <1>1 DEF Next, Start
<1> QED
  BY <1>2, NextKeeps

\* The first check: the row as it was set up.
LEMMA BeginLifecycleKeeps ==
  ASSUME BenchIInv, BeginLifecycle
  PROVE  BenchIInv'
<1>1. /\ stage = "seeded" /\ stage' = "lifecycle" /\ trial = 0 /\ trial' = 0
      /\ receipts = <<>> /\ receipts' = <<>>
      /\ SetStock(LifecycleRow, LifecycleStock)
  BY DEF BeginLifecycle, BenchIInv
<1>2. \A i \in Ids : ~IsActive(reservations, i)
  BY <1>1 DEF BenchIInv, OnTrialRows
<1>3. IInv'
  BY <1>1, <1>2, Parameters, SetStockKeeps DEF BenchIInv
<1>4. /\ inventory'[LifecycleRow] = [on_hand |-> LifecycleStock, reserved |-> 0]
      /\ reservations' = reservations
  BY <1>1, Parameters DEF SetStock, BenchIInv, IInv, TypeOK
<1>5. checks' = <<TRUE>> /\ Returned' = 0
  <2>1. CommittedAtp(LifecycleRow)' = LifecycleStock
    BY <1>4, Parameters DEF CommittedAtp
  <2>2. checks' = <<TRUE>>
    BY <2>1 DEF BeginLifecycle
  <2> QED
    BY <2>2 DEF Returned
<1>6. \A w \in Workers : call'[w].step = "idle" /\ call'[w].outcome = "none"
  BY <1>1 DEF SetStock, NoCall
<1>7. LifecycleOK'
  <2>1. LifecycleBooksOK'
    BY <1>1, <1>2, <1>4, <1>5, LotUnitsFinite, Parameters DEF LifecycleBooksOK, IsActive
  <2> QED
    BY <1>1, <1>5, <1>6, <2>1, Parameters DEF LifecycleOK, Faulted
<1>8. BenchTypeOK' /\ EveryCheckPasses'
  <2>1. checks' \in Seq(BOOLEAN) /\ \A m \in DOMAIN checks' : checks'[m]
    BY <1>5, FirstCheck, Zenon
  <2>2. receipts' \in Seq(Ids) /\ trial' \in 0 .. Len(Trials)
    BY <1>1, Parameters
  <2> QED
    BY <1>1, <2>1, <2>2 DEF BenchTypeOK, Stages, EveryCheckPasses
<1> QED
  BY <1>1, <1>3, <1>7, <1>8 DEF BenchIInv, SoldExactly, OnlyFaultsAbort

\* The next lot is taken or given back; no call of the lifecycle has raised so far.
LEMMA LifecycleCallKeeps ==
  ASSUME BenchIInv, NEW w \in Workers, LifecycleCall(w)
  PROVE  BenchIInv'
<1> DEFINE n == Len(checks)
<1>1. /\ stage = "lifecycle" /\ Quiet /\ Answered \subseteq Winners /\ n <= 2 * Len(Lots)
      /\ UNCHANGED bench
      /\ n <= Len(Lots) => StartReserve(w, LifecycleRow[1], LifecycleRow[2], Lots[n])
      /\ ~(n <= Len(Lots)) => StartRelease(w, receipts[n - Len(Lots)])
  BY DEF LifecycleCall
<1>2. /\ LifecycleOK /\ Returned = n - 1 /\ n \in Nat /\ n > 0
      /\ call \in [Workers -> Calls]
  BY <1>1, Parameters DEF BenchIInv, BenchTypeOK, LifecycleOK, Returned, IInv, TypeOK
<1>3. ~Faulted
  BY <1>1 DEF Faulted, Answered, Winners
<1>4. LifecycleBooksOK
  BY <1>2, <1>3 DEF LifecycleOK
<1>5. n <= Len(Lots) => Lots[n] \in Quantities
  BY <1>2, Parameters
<1>6. ~(n <= Len(Lots)) => receipts[n - Len(Lots)] \in Ids
  <2>1. Len(receipts) = IF n - 1 < Len(Lots) THEN n - 1 ELSE Len(Lots)
    BY <1>2, <1>4 DEF LifecycleBooksOK
  <2>2. receipts \in Seq(Ids)
    BY DEF BenchIInv, BenchTypeOK
  <2>3. ~(n <= Len(Lots)) => n - Len(Lots) \in 1 .. Len(receipts)
    BY <1>1, <1>2, <2>1, Parameters
  <2> QED
    BY <2>2, <2>3
<1>7. IInv'
  BY <1>1, <1>5, <1>6, CallsKeep, Parameters DEF BenchIInv
<1>8. /\ UNCHANGED <<inventory, reservations>>
      /\ \A v \in Workers \ {w} : call'[v] = call[v]
      /\ call'[w].step = "connect" /\ call'[w].outcome = "none"
      /\ LifecycleCallOK(call[w])'
  <2>1. Returned' = n - 1 /\ receipts' = receipts
    BY <1>1 DEF Returned, bench
  <2>2. CASE n <= Len(Lots)
    <3>1. /\ UNCHANGED <<inventory, reservations>>
          /\ \A v \in Workers \ {w} : call'[v] = call[v]
          /\ call'[w].step = "connect" /\ call'[w].outcome = "none"
          /\ call'[w].op = "reserve" /\ call'[w].quantity = Lots[n]
          /\ call'[w].cell = <<LifecycleRow[1], LifecycleRow[2]>>
      BY <1>1, <1>2, <2>2 DEF StartReserve, NoCall, tables
    <3>2. LifecycleRow = <<LifecycleRow[1], LifecycleRow[2]>>
      BY Parameters DEF Rows
    <3> QED
      BY <1>2, <2>1, <2>2, <3>1, <3>2, Parameters DEF LifecycleCallOK
  <2>3. CASE ~(n <= Len(Lots))
    <3>1. /\ UNCHANGED <<inventory, reservations>>
          /\ \A v \in Workers \ {w} : call'[v] = call[v]
          /\ call'[w].step = "connect" /\ call'[w].outcome = "none"
          /\ call'[w].op = "release" /\ call'[w].id = receipts[n - Len(Lots)]
      BY <1>1, <1>2, <2>3 DEF StartRelease, NoCall, tables
    <3> QED
      BY <1>2, <2>1, <2>3, <3>1, Parameters DEF LifecycleCallOK
  <2> QED
    BY <2>2, <2>3
<1>9. ~Faulted' /\ LifecycleBooksOK'
  BY <1>1, <1>3, <1>4, <1>8 DEF Faulted, LifecycleBooksOK, Returned, bench, IsActive
<1>10. LifecycleOK'
  BY <1>1, <1>2, <1>8, <1>9 DEF LifecycleOK, Returned, bench, Quiet
<1> QED
  BY <1>1, <1>7, <1>10
     DEF BenchIInv, BenchTypeOK, bench, SoldExactly, EveryCheckPasses, OnlyFaultsAbort

\* A call of the lifecycle that is on its way: nothing has raised yet.
LEMMA LifecycleUnderway ==
  ASSUME BenchIInv, stage = "lifecycle", NEW w \in Workers,
         call[w].step \notin {"idle", "rollback"}
  PROVE  /\ Returned \in Nat /\ Returned < 2 * Len(Lots) /\ trial = 0
         /\ ~Faulted /\ LifecycleCallOK(call[w]) /\ LifecycleBooksOK
         /\ \A v \in Workers \ {w} : call[v].step = "idle"
<1>1. LifecycleOK
  BY DEF BenchIInv
<1>2. Len(Lots) \in Nat
  BY Parameters
<1> QED
  BY <1>1, <1>2 DEF LifecycleOK

\* What the lifecycle holds under a receipt, and that no receipt stands for nothing.
LEMMA ReceiptsHeld ==
  ASSUME BenchIInv, LifecycleBooksOK, Returned \in Nat, Returned < 2 * Len(Lots)
  PROVE  /\ Len(receipts) = (IF Returned < Len(Lots) THEN Returned ELSE Len(Lots))
         /\ Len(receipts) \in Nat /\ DOMAIN receipts = 1 .. Len(receipts)
         /\ \A k \in DOMAIN receipts :
              /\ k \in 1 .. Len(Lots) /\ receipts[k] \in Ids
              /\ reservations[receipts[k]] # NoReservation
              /\ reservations[receipts[k]].row = LifecycleRow
              /\ reservations[receipts[k]].quantity = Lots[k]
              /\ Returned < k + Len(Lots) => IsActive(reservations, receipts[k])
<1>1. receipts \in Seq(Ids) /\ Len(Lots) \in Nat
  BY Parameters DEF BenchIInv, BenchTypeOK
<1>2. Len(receipts) = (IF Returned < Len(Lots) THEN Returned ELSE Len(Lots))
  BY DEF LifecycleBooksOK
<1>3. ASSUME NEW k \in DOMAIN receipts
      PROVE  /\ k \in 1 .. Len(Lots) /\ receipts[k] \in Ids
             /\ reservations[receipts[k]] # NoReservation
             /\ reservations[receipts[k]].row = LifecycleRow
             /\ reservations[receipts[k]].quantity = Lots[k]
             /\ Returned < k + Len(Lots) => IsActive(reservations, receipts[k])
  <2>1. k \in 1 .. Len(Lots) /\ receipts[k] \in Ids
    BY <1>1, <1>2
  <2>2. reservations[receipts[k]] =
          [row |-> LifecycleRow, quantity |-> Lots[k],
           status |-> IF Returned < k + Len(Lots) THEN "active" ELSE "released"]
    BY DEF LifecycleBooksOK
  <2>3. reservations[receipts[k]] \in Reservation
    BY <2>1, <2>2, Parameters DEF Reservation
  <2>4. reservations[receipts[k]] # NoReservation
    BY <2>3, TableAssumption
  <2> QED
    BY <2>1, <2>2, <2>4 DEF IsActive
<1> QED
  BY <1>1, <1>2, <1>3

\* No statement of the lifecycle's call finds a row missing, too little stock, or a
\* reservation that has been released.
LEMMA LifecycleStatement ==
  ASSUME BenchIInv, stage = "lifecycle", NEW w \in Workers, OnlyCallOf(w),
         call[w].step \notin {"idle", "rollback", "commit"}, GoesOn(w) \/ GivesUp(w),
         UNCHANGED bench
  PROVE  LifecycleOK'
<1> DEFINE c == call[w]
           d == call'[w]
<1>1. /\ Returned \in Nat /\ Returned < 2 * Len(Lots) /\ trial = 0
      /\ ~Faulted /\ LifecycleCallOK(c) /\ LifecycleBooksOK
      /\ \A v \in Workers \ {w} : call[v].step = "idle"
  BY LifecycleUnderway
<1>2. /\ Returned' = Returned /\ trial' = 0 /\ checks' = checks /\ receipts' = receipts
      /\ inventory' = inventory /\ reservations' = reservations
  BY <1>1 DEF bench, Returned, GoesOn, GivesUp, tables
<1>3. LifecycleBooksOK'
  BY <1>1, <1>2 DEF LifecycleBooksOK, IsActive
<1>4. c.op = "release" =>
        IsActive(reservations, c.id) /\ reservations[c.id] # NoReservation
  <2>1. SUFFICES ASSUME c.op = "release"
                 PROVE  IsActive(reservations, c.id) /\ reservations[c.id] # NoReservation
    OBVIOUS
  <2> DEFINE k == Returned + 1 - Len(Lots)
  <2>2. ~(Returned < Len(Lots)) /\ c.id = receipts[k]
    BY <1>1, <2>1 DEF LifecycleCallOK
  <2>3. k \in DOMAIN receipts /\ Returned < k + Len(Lots)
    BY <1>1, <2>2, ReceiptsHeld, Parameters
  <2> QED
    BY <1>1, <2>2, <2>3, ReceiptsHeld
<1>5. c.op = "reserve" =>
        c.cell \in Rows /\ ~(c.quantity > CommittedAtp(c.cell))
  <2>1. SUFFICES ASSUME c.op = "reserve"
                 PROVE  c.cell \in Rows /\ ~(c.quantity > CommittedAtp(c.cell))
    OBVIOUS
  <2>2. Returned < Len(Lots) /\ c.cell = LifecycleRow /\ c.quantity = Lots[Returned + 1]
    BY <1>1, <2>1 DEF LifecycleCallOK
  <2>3. CommittedAtp(LifecycleRow) = LifecycleStock - Cardinality(LotUnits(Returned))
    BY <1>1 DEF CommittedAtp, LifecycleBooksOK
  <2>4. /\ Cardinality(LotUnits(Returned)) \in Nat
        /\ Cardinality(LotUnits(Returned)) + Lots[Returned + 1] <= LifecycleStock
    BY <1>1, <2>2, LotTaken
  <2>5. Lots[Returned + 1] \in Nat
    BY <1>1, <2>2, Parameters
  <2> QED
    BY <2>2, <2>3, <2>4, <2>5, Parameters
<1>6. \A v \in Workers \ {w} : call'[v] = call[v] /\ call'[v].step = "idle"
  BY <1>1 DEF OnlyCallOf
<1>7. CASE GoesOn(w)
  <2>1. d.outcome = "none" /\ d.step \notin {"idle", "rollback"}
    BY <1>7 DEF GoesOn
  <2>2. ~Faulted'
    BY <1>1, <1>6, <2>1 DEF Faulted
  <2>3. LifecycleCallOK(call[w])'
    <3>1. d.op = c.op /\ (c.op = "release" => d.id = c.id)
          /\ (c.op = "reserve" => d.cell = c.cell /\ d.quantity = c.quantity)
      BY <1>7 DEF GoesOn
    <3>2. c.op = "release" /\ d.step \in {"read_atp", "commit"} => d.pending # Unwritten
      BY <1>1, <1>4, <1>7 DEF GoesOn, LifecycleCallOK
    <3> QED
      BY <1>1, <1>2, <3>1, <3>2 DEF LifecycleCallOK
  <2> QED
    BY <1>1, <1>2, <1>3, <1>6, <2>1, <2>2, <2>3, Parameters
       DEF LifecycleOK, BenchIInv, Faulted
<1>8. CASE GivesUp(w)
  <2>1. d.step = "rollback" /\ d.outcome = "error"
    BY <1>1, <1>4, <1>5, <1>8 DEF GivesUp, LifecycleCallOK
  <2>2. Faulted'
    BY <2>1 DEF Faulted
  <2> QED
    BY <1>1, <1>2, <1>6, <2>1, <2>2, Parameters DEF LifecycleOK, BenchIInv
<1> QED
  BY <1>7, <1>8

\* A lot is taken: the books say so, and so does the answer.
LEMMA LifecycleReserved ==
  ASSUME BenchIInv, stage = "lifecycle", NEW w \in Workers, call[w].step = "commit",
         call[w].op = "reserve", Publish(w), Returned' = Returned + 1,
         receipts' = Append(receipts, call[w].id)
  PROVE  /\ LifecycleBooksOK'
         /\ receipts' \in Seq(Ids)
         /\ CommittedAtp(LifecycleRow)' = ExpectedAtp(Len(checks))
         /\ ReportedAtp(call[w]) = ExpectedAtp(Len(checks))
<1> DEFINE c == call[w]
           n == Returned + 1
<1>1. /\ Returned \in Nat /\ LifecycleCallOK(c) /\ LifecycleBooksOK
      /\ Len(checks) \in Nat /\ Len(checks) = n /\ Returned' = n
  BY LifecycleUnderway DEF BenchIInv, BenchTypeOK, Returned
<1>2. Returned < Len(Lots) /\ c.cell = LifecycleRow /\ c.quantity = Lots[n]
  BY <1>1 DEF LifecycleCallOK
<1>3. /\ IInv /\ WorkerOK(w)
      /\ inventory \in [Rows -> [on_hand : Nat, reserved : Nat]]
      /\ reservations \in ReservationTables
  BY DEF BenchIInv, IInv, TypeOK
<1>4. c.pending # Unwritten
  <2>1. c.quantity \in Nat \ {0} /\ inventory[c.cell].reserved \in Nat
    BY <1>2, <1>3, Parameters, TableAssumption DEF WorkerOK, ArgumentsOK, Quantities
  <2>2. c.pending = inventory[c.cell].reserved + c.quantity
    BY <1>3 DEF WorkerOK, DraftOK, Reserving
  <2> QED
    BY <2>1, <2>2 DEF Unwritten
<1>5. /\ c.id \in Ids /\ reservations[c.id] = NoReservation
      /\ c.pending = inventory[LifecycleRow].reserved + Lots[n]
      /\ c.atp = CommittedAtp(LifecycleRow)
      /\ inventory' = [inventory EXCEPT ![LifecycleRow].reserved = c.pending]
      /\ reservations' =
           [reservations EXCEPT ![c.id] = NewReservation(LifecycleRow, Lots[n])]
  BY <1>2, <1>3, <1>4, PublishedTables DEF Releasing
<1>6. /\ Cardinality(LotUnits(Returned)) \in Nat /\ Lots[n] \in Nat
      /\ Cardinality(LotUnits(n)) = Cardinality(LotUnits(Returned)) + Lots[n]
  BY <1>1, <1>2, LotTaken, Parameters
<1>7. /\ inventory[LifecycleRow].on_hand = LifecycleStock
      /\ inventory[LifecycleRow].reserved = Cardinality(LotUnits(Returned))
  BY <1>1 DEF LifecycleBooksOK
<1>8. /\ inventory'[LifecycleRow].on_hand = LifecycleStock
      /\ inventory'[LifecycleRow].reserved = Cardinality(LotUnits(n))
  BY <1>3, <1>5, <1>6, <1>7, Parameters
<1>9. CommittedAtp(LifecycleRow)' = ExpectedAtp(n) /\ ReportedAtp(c) = ExpectedAtp(n)
  BY <1>2, <1>5, <1>6, <1>7, <1>8, Parameters DEF CommittedAtp, ExpectedAtp, ReportedAtp
<1>10. /\ Len(receipts) = Returned /\ DOMAIN receipts = 1 .. Returned
       /\ \A k \in DOMAIN receipts :
            receipts[k] \in Ids /\ reservations[receipts[k]] # NoReservation
  BY <1>1, <1>2, ReceiptsHeld, Parameters
<1>11. /\ Len(receipts') = n /\ DOMAIN receipts' = 1 .. n /\ receipts'[n] = c.id
       /\ \A k \in 1 .. Returned : receipts'[k] = receipts[k]
       /\ receipts' \in Seq(Ids)
  BY <1>1, <1>5, <1>10 DEF BenchIInv, BenchTypeOK
<1>12. \A k \in 1 .. Returned : receipts[k] # c.id
  BY <1>5, <1>10
<1>13. ASSUME NEW k \in DOMAIN receipts'
       PROVE  reservations'[receipts'[k]] =
                [row |-> LifecycleRow, quantity |-> Lots[k],
                 status |-> IF n < k + Len(Lots) THEN "active" ELSE "released"]
  <2>1. CASE k = n
    BY <1>1, <1>2, <1>3, <1>5, <1>11, <2>1, Parameters
       DEF ReservationTables, NewReservation
  <2>2. CASE k # n
    <3>1. k \in 1 .. Returned /\ k \in DOMAIN receipts /\ receipts'[k] = receipts[k]
      BY <1>1, <1>10, <1>11, <2>2
    <3>2. reservations[receipts[k]] =
            [row |-> LifecycleRow, quantity |-> Lots[k],
             status |-> IF Returned < k + Len(Lots) THEN "active" ELSE "released"]
      BY <1>1, <3>1 DEF LifecycleBooksOK
    <3>3. reservations'[receipts[k]] = reservations[receipts[k]]
      BY <1>3, <1>5, <1>10, <1>12, <3>1 DEF ReservationTables
    <3>4. Returned < k + Len(Lots) /\ n < k + Len(Lots)
      BY <1>1, <1>2, <3>1, Parameters
    <3> QED
      BY <3>1, <3>2, <3>3, <3>4
  <2> QED
    BY <2>1, <2>2
<1>14. \A j, k \in DOMAIN receipts' : receipts'[j] = receipts'[k] => j = k
  <2>1. \A j, k \in 1 .. Returned : receipts[j] = receipts[k] => j = k
    BY <1>1, <1>10 DEF LifecycleBooksOK
  <2>2. \A k \in 1 .. n : k = n \/ k \in 1 .. Returned
    BY <1>1
  <2> QED
    BY <1>11, <1>12, <2>1, <2>2
<1>15. ASSUME NEW i \in Ids, IsActive(reservations', i)
       PROVE  \E k \in DOMAIN receipts' : receipts'[k] = i
  <2>1. CASE i = c.id
    BY <1>1, <1>11, <2>1
  <2>2. CASE i # c.id
    <3>1. IsActive(reservations, i)
      BY <1>3, <1>5, <1>15, <2>2 DEF IsActive, ReservationTables
    <3>2. PICK k \in DOMAIN receipts : receipts[k] = i
      BY <1>1, <3>1 DEF LifecycleBooksOK
    <3>3. k \in DOMAIN receipts' /\ receipts'[k] = i
      BY <1>1, <1>10, <1>11, <3>2
    <3> QED
      BY <3>3
  <2> QED
    BY <2>1, <2>2
<1>16. Len(receipts') = (IF n < Len(Lots) THEN n ELSE Len(Lots))
  BY <1>1, <1>2, <1>11, Parameters
<1>17. LifecycleBooksOK'
  BY <1>1, <1>8, <1>13, <1>14, <1>15, <1>16 DEF LifecycleBooksOK, IsActive
<1> QED
  BY <1>1, <1>9, <1>11, <1>17

\* A lot is given back: the same.
LEMMA LifecycleReleased ==
  ASSUME BenchIInv, stage = "lifecycle", NEW w \in Workers, call[w].step = "commit",
         call[w].op = "release", Publish(w), Returned' = Returned + 1,
         receipts' = receipts
  PROVE  LifecycleBooksOK' /\ CommittedAtp(LifecycleRow)' = ExpectedAtp(Len(checks))
<1> DEFINE c == call[w]
           n == Returned + 1
           p == n - Len(Lots)
<1>1. /\ Returned \in Nat /\ Returned < 2 * Len(Lots)
      /\ LifecycleCallOK(c) /\ LifecycleBooksOK
      /\ Len(checks) \in Nat /\ Len(checks) = n /\ Returned' = n
  BY LifecycleUnderway DEF BenchIInv, BenchTypeOK, Returned
<1>2. ~(Returned < Len(Lots)) /\ c.id = receipts[p] /\ c.pending # Unwritten
  BY <1>1 DEF LifecycleCallOK
<1>3. /\ IInv /\ reservations \in ReservationTables
      /\ inventory \in [Rows -> [on_hand : Nat, reserved : Nat]]
  BY DEF BenchIInv, IInv, TypeOK
<1>4. /\ Len(receipts) = Len(Lots) /\ DOMAIN receipts = 1 .. Len(Lots)
      /\ \A k \in 1 .. Len(Lots) : receipts[k] \in Ids
      /\ p \in 1 .. Len(Lots)
      /\ reservations[c.id].row = LifecycleRow /\ reservations[c.id].quantity = Lots[p]
  <2>1. p \in 1 .. Len(Lots)
    BY <1>1, <1>2, Parameters
  <2> QED
    BY <1>1, <1>2, <2>1, ReceiptsHeld
<1>5. /\ c.cell = LifecycleRow /\ c.quantity = Lots[p] /\ c.id \in Ids
      /\ c.pending = inventory[LifecycleRow].reserved - Lots[p]
      /\ inventory' = [inventory EXCEPT ![LifecycleRow].reserved = c.pending]
      /\ reservations' = [reservations EXCEPT ![c.id].status = "released"]
  BY <1>2, <1>3, <1>4, PublishedTables DEF Reserving
<1>6. /\ Cardinality(LotUnits(n)) \in Nat /\ Lots[p] \in Nat
      /\ Cardinality(LotUnits(Returned)) = Cardinality(LotUnits(n)) + Lots[p]
  BY <1>1, <1>2, <1>4, LotGivenBack, Parameters
<1>7. /\ inventory[LifecycleRow].on_hand = LifecycleStock
      /\ inventory[LifecycleRow].reserved = Cardinality(LotUnits(Returned))
  BY <1>1 DEF LifecycleBooksOK
<1>8. /\ inventory'[LifecycleRow].on_hand = LifecycleStock
      /\ inventory'[LifecycleRow].reserved = Cardinality(LotUnits(n))
  BY <1>3, <1>5, <1>6, <1>7, Parameters
<1>9. CommittedAtp(LifecycleRow)' = ExpectedAtp(n)
  BY <1>8 DEF CommittedAtp, ExpectedAtp
<1>10. \A j, k \in 1 .. Len(Lots) : receipts[j] = receipts[k] => j = k
  BY <1>1, <1>4 DEF LifecycleBooksOK
<1>11. ASSUME NEW k \in 1 .. Len(Lots)
       PROVE  reservations'[receipts[k]] =
                [row |-> LifecycleRow, quantity |-> Lots[k],
                 status |-> IF n < k + Len(Lots) THEN "active" ELSE "released"]
  <2>1. reservations[receipts[k]] =
          [row |-> LifecycleRow, quantity |-> Lots[k],
           status |-> IF Returned < k + Len(Lots) THEN "active" ELSE "released"]
    BY <1>1, <1>4 DEF LifecycleBooksOK
  <2>2. CASE k = p
    <3>1. reservations'[receipts[k]] = [reservations[receipts[k]] EXCEPT !.status = "released"]
      BY <1>2, <1>3, <1>4, <1>5, <2>2 DEF ReservationTables
    <3>2. ~(n < k + Len(Lots))
      BY <1>1, <2>2, Parameters
    <3> QED
      BY <2>1, <3>1, <3>2
  <2>3. CASE k # p
    <3>1. reservations'[receipts[k]] = reservations[receipts[k]]
      BY <1>2, <1>3, <1>4, <1>5, <1>10, <2>3 DEF ReservationTables
    <3>2. (Returned < k + Len(Lots)) <=> (n < k + Len(Lots))
      BY <1>1, <2>3, Parameters
    <3> QED
      BY <2>1, <3>1, <3>2
  <2> QED
    BY <2>2, <2>3
<1>12. ASSUME NEW i \in Ids, IsActive(reservations', i)
       PROVE  \E k \in DOMAIN receipts : receipts[k] = i
  <2>1. IsActive(reservations, i)
    <3>1. CASE i = c.id
      BY <1>3, <1>5, <1>12, <3>1, PublishedTables, <1>2 DEF IsActive, ReservationTables
    <3>2. CASE i # c.id
      BY <1>3, <1>5, <1>12, <3>2 DEF IsActive, ReservationTables
    <3> QED
      BY <3>1, <3>2
  <2> QED
    BY <1>1, <2>1 DEF LifecycleBooksOK
<1>13. Len(receipts) = (IF n < Len(Lots) THEN n ELSE Len(Lots))
  <2>1. ~(n < Len(Lots))
    BY <1>1, <1>2, Parameters
  <2> QED
    BY <1>4, <2>1
<1>14. LifecycleBooksOK'
  BY <1>1, <1>4, <1>8, <1>10, <1>11, <1>12, <1>13 DEF LifecycleBooksOK, IsActive
<1> QED
  BY <1>1, <1>9, <1>14

\* A statement, a rollback or a commit of the lifecycle's call.
LEMMA LifecycleStepKeeps ==
  ASSUME BenchIInv, NEW w \in Workers, LifecycleStep(w)
  PROVE  BenchIInv'
<1>1. /\ stage = "lifecycle" /\ stage' = "lifecycle" /\ trial' = trial /\ Step(w)
      /\ IInv /\ LifecycleOK /\ BenchTypeOK /\ EveryCheckPasses
  BY DEF LifecycleStep, BenchIInv
<1>2. IInv'
  BY <1>1, CallsKeep
<1>3. /\ OnlyCallOf(w)
      /\ call[w].step # "idle"
      /\ \/ /\ call[w].step \notin {"rollback", "commit"}
            /\ GoesOn(w) \/ GivesUp(w)
         \/ /\ call[w].step = "rollback" /\ UNCHANGED tables
            /\ call'[w].step = "idle" /\ call'[w].outcome = call[w].outcome
         \/ Commits(w, "ok")
  BY <1>1, StepShapes
<1>4. /\ Len(checks) \in Nat /\ Returned \in Nat /\ Returned < 2 * Len(Lots) /\ trial = 0
      /\ \A v \in Workers \ {w} :
           /\ call'[v] = call[v] /\ call'[v].step = "idle"
           /\ call'[v].outcome \in {"none", "ok", "error"}
  BY <1>1, <1>3, Parameters DEF LifecycleOK, OnlyCallOf, BenchTypeOK, Returned
<1>5. CASE call[w].step # "commit"
  <2>1. UNCHANGED bench
    BY <1>1, <1>5 DEF LifecycleStep, bench
  <2>2. CASE call[w].step = "rollback"
    <3>1. call'[w].step = "idle" /\ call'[w].outcome = "error"
      BY <1>1, <1>3, <2>2 DEF LifecycleOK, Commits
    <3>2. Faulted' /\ Returned' = Returned
      BY <2>1, <3>1 DEF Faulted, bench, Returned
    <3> QED
      BY <1>1, <1>2, <1>4, <2>1, <3>1, <3>2
         DEF BenchIInv, BenchTypeOK, LifecycleOK, bench, SoldExactly, EveryCheckPasses,
           OnlyFaultsAbort
  <2>3. CASE call[w].step # "rollback"
    <3>1. LifecycleOK'
      BY <1>1, <1>3, <1>5, <2>1, <2>3, LifecycleStatement DEF Commits
    <3> QED
      BY <1>1, <1>2, <2>1, <3>1
         DEF BenchIInv, BenchTypeOK, bench, SoldExactly, EveryCheckPasses, OnlyFaultsAbort
  <2> QED
    BY <2>2, <2>3
<1>6. CASE call[w].step = "commit"
  <2> DEFINE left == ExpectedAtp(Len(checks))
             passed == /\ CommittedAtp(LifecycleRow)' = left
                       /\ call[w].op = "reserve" => ReportedAtp(call[w]) = left
  <2>1. Publish(w) /\ call'[w].step = "idle" /\ call'[w].outcome = "ok"
    BY <1>3, <1>6 DEF Commits
  <2>2. /\ checks' = Append(checks, passed)
        /\ receipts' = IF call[w].op = "reserve"
                         THEN Append(receipts, call[w].id) ELSE receipts
    BY <1>6 DEF LifecycleStep
  <2>3. checks \in Seq(BOOLEAN) /\ \A m \in DOMAIN checks : checks[m]
    BY <1>1 DEF BenchTypeOK, EveryCheckPasses
  <2>4. passed \in BOOLEAN
    OBVIOUS
  <2>5. Len(checks') = Len(checks) + 1
    <3> HIDE DEF passed
    <3> QED
      BY <2>2, <2>3, <2>4, Grow, Zenon
  <2>6. Returned' = Returned + 1
    BY <1>4, <2>5 DEF Returned
  <2>7. call[w].op \in {"reserve", "release"}
    BY <1>1 DEF IInv, TypeOK, Calls
  <2>8. passed /\ LifecycleBooksOK' /\ receipts' \in Seq(Ids)
    <3>1. CASE call[w].op = "reserve"
      BY <1>1, <1>6, <2>1, <2>2, <2>6, <3>1, LifecycleReserved
    <3>2. CASE call[w].op = "release"
      <4>1. receipts' = receipts
        BY <2>2, <3>2
      <4>2. LifecycleBooksOK' /\ CommittedAtp(LifecycleRow)' = left
        BY <1>1, <1>6, <2>1, <2>6, <3>2, <4>1, LifecycleReleased
      <4> QED
        BY <1>1, <3>2, <4>1, <4>2 DEF BenchTypeOK
    <3> QED
      BY <2>7, <3>1, <3>2
  <2>9. checks' \in Seq(BOOLEAN) /\ \A m \in DOMAIN checks' : checks'[m]
    <3> HIDE DEF passed
    <3> QED
      BY <2>2, <2>3, <2>4, <2>8, NextCheck, Zenon
  <2>10. BenchTypeOK' /\ EveryCheckPasses'
    BY <1>1, <2>8, <2>9 DEF BenchTypeOK, EveryCheckPasses
  <2>11. ~Faulted'
    <3>1. ~Faulted
      BY <1>1, <1>6 DEF LifecycleOK
    <3> QED
      BY <1>4, <2>1, <3>1 DEF Faulted
  <2>12. LifecycleOK'
    BY <1>1, <1>4, <2>1, <2>6, <2>8, <2>11, Parameters DEF LifecycleOK
  <2> QED
    BY <1>1, <1>2, <2>10, <2>12 DEF BenchIInv, SoldExactly, OnlyFaultsAbort
<1> QED
  BY <1>5, <1>6

\* A fault ends the lifecycle before its last call has returned.
LEMMA LifecycleFaultKeeps ==
  ASSUME BenchIInv, NEW w \in Workers, stage = "lifecycle", BenchFault(w)
  PROVE  BenchIInv'
<1>1. /\ UNCHANGED bench /\ Fault(w) /\ IInv /\ LifecycleOK /\ BenchTypeOK
  BY DEF BenchFault, BenchIInv
<1>2. IInv'
  BY <1>1, CallsKeep
<1>3. /\ OnlyCallOf(w)
      /\ call[w].step \notin {"idle", "rollback"}
      /\ call'[w].step \in {"idle", "rollback"} /\ call'[w].outcome = "error"
  BY <1>1, FaultShapes
<1>4. Faulted' /\ Returned' = Returned
  BY <1>1, <1>3 DEF Faulted, Returned, bench
<1>5. /\ Returned \in 0 .. 2 * Len(Lots) /\ Returned < 2 * Len(Lots) /\ trial = 0
      /\ \A v \in Workers \ {w} :
           /\ call'[v] = call[v] /\ call'[v].step = "idle"
           /\ call'[v].outcome \in {"none", "ok", "error"}
  BY <1>1, <1>3 DEF LifecycleOK, OnlyCallOf
<1>6. LifecycleOK'
  BY <1>1, <1>3, <1>4, <1>5 DEF LifecycleOK, bench
<1> QED
  BY <1>1, <1>2, <1>6
     DEF BenchIInv, BenchTypeOK, bench, SoldExactly, EveryCheckPasses, OnlyFaultsAbort

\* All lots are back, so nothing is reserved any more.
LEMMA EndLifecycleKeeps ==
  ASSUME BenchIInv, EndLifecycle
  PROVE  BenchIInv'
<1>1. /\ stage = "lifecycle" /\ Quiet /\ stage' = "ready" /\ Returned = 2 * Len(Lots)
      /\ UNCHANGED <<vars, trial, checks, receipts>>
      /\ IInv /\ LifecycleOK /\ BenchTypeOK /\ EveryCheckPasses /\ Len(Lots) \in Nat
  BY Parameters DEF EndLifecycle, BenchIInv, Returned
<1>2. LifecycleBooksOK /\ trial = 0
  BY <1>1 DEF LifecycleOK
<1>3. \A i \in Ids : ~IsActive(reservations, i)
  <2>1. ASSUME NEW i \in Ids, IsActive(reservations, i)
        PROVE  FALSE
    <3>1. PICK k \in DOMAIN receipts : receipts[k] = i
      BY <1>2, <2>1 DEF LifecycleBooksOK
    <3>2. Len(receipts) = Len(Lots) /\ k \in 1 .. Len(Lots)
      <4>1. ~(Returned < Len(Lots))
        BY <1>1
      <4>2. Len(receipts) = Len(Lots)
        BY <1>2, <4>1 DEF LifecycleBooksOK
      <4> QED
        BY <1>1, <3>1, <4>2 DEF BenchTypeOK
    <3>3. ~(Returned < k + Len(Lots))
      BY <1>1, <3>2
    <3>4. reservations[i].status = "released"
      <4>1. reservations[receipts[k]] =
              [row |-> LifecycleRow, quantity |-> Lots[k],
               status |-> IF Returned < k + Len(Lots) THEN "active" ELSE "released"]
        BY <1>2 DEF LifecycleBooksOK
      <4> QED
        BY <3>1, <3>3, <4>1
    <3> QED
      BY <2>1, <3>4 DEF IsActive
  <2> QED
    BY <2>1
<1>4. IInv' /\ BenchTypeOK' /\ EveryCheckPasses' /\ Quiet'
  <2>1. IInv'
    BY <1>1, StutteringKeeps
  <2> QED
    BY <1>1, <2>1 DEF BenchTypeOK, EveryCheckPasses, Quiet, vars, Stages
<1>5. OnTrialRows'
  BY <1>1, <1>3 DEF OnTrialRows, IsActive, vars
<1> QED
  BY <1>1, <1>2, <1>4, <1>5 DEF BenchIInv, SoldExactly, OnlyFaultsAbort

\* The bench stops, in either stage, only after a fault.
LEMMA AbortKeeps ==
  ASSUME BenchIInv, Abort
  PROVE  BenchIInv'
<1>1. /\ Quiet /\ stage' = "aborted" /\ UNCHANGED <<vars, trial, checks, receipts>>
      /\ IInv /\ BenchTypeOK /\ EveryCheckPasses
  BY DEF Abort, BenchIInv
<1>2. \E w \in Workers : call[w].outcome = "error"
  <2>1. CASE stage = "lifecycle" /\ ~(Answered \subseteq Winners)
    BY <2>1 DEF BenchIInv, LifecycleOK, Answered, Winners
  <2>2. CASE stage = "racing" /\ ~(Answered \subseteq Winners \cup Refused)
    BY <2>2 DEF BenchIInv, RaceOK, RacerOK, Answered, Winners, Refused
  <2> QED
    BY <2>1, <2>2 DEF Abort
<1>3. IInv'
  BY <1>1, StutteringKeeps
<1> QED
  BY <1>1, <1>2, <1>3
     DEF BenchIInv, BenchTypeOK, Stages, SoldExactly, EveryCheckPasses, OnlyFaultsAbort,
       Quiet, vars

-----------------------------------------------------------------------------
(* run_oversell_trials keeps the invariant *)

\* One more winner takes one more lot.
LEMMA TimesNext ==
  ASSUME NEW q \in Nat, NEW c \in Nat
  PROVE  q * (c + 1) = q * c + q /\ q * c \in Nat
OBVIOUS

\* How often a quantity fits: when one more does not, and when at least so often.
LEMMA Quotient ==
  ASSUME NEW a \in Nat, NEW q \in Nat \ {0}, NEW c \in Nat, q * c <= a, a < q * c + q
  PROVE  a \div q = c
OBVIOUS

LEMMA QuotientAtLeast ==
  ASSUME NEW a \in Nat, NEW q \in Nat \ {0}, NEW c \in Nat, q * c <= a
  PROVE  c <= a \div q /\ a \div q \in Nat
OBVIOUS

\* The winners can be counted.
LEMMA WinnersFinite ==
  /\ IsFiniteSet(Winners) /\ Cardinality(Winners) \in Nat
  /\ Cardinality(Winners) <= Cardinality(Workers) /\ Cardinality(Workers) \in Nat
<1>1. IsFiniteSet(Workers) /\ Winners \subseteq Workers
  BY ReservationsAssumption DEF Winners
<1> QED
  BY <1>1, FS_Subset, FS_CardinalityType

\* A trial's row was nobody's before.
LEMMA BeginTrialKeeps ==
  ASSUME BenchIInv, BeginTrial
  PROVE  BenchIInv'
<1> DEFINE t == Trials[trial + 1]
<1>1. /\ stage = "ready" /\ stage' = "racing" /\ trial' = trial + 1
      /\ checks' = checks /\ receipts' = receipts
      /\ trial \in Nat /\ trial < Len(Trials) /\ SetStock(t.row, t.on_hand)
      /\ IInv /\ BenchTypeOK /\ OnTrialRows /\ EveryCheckPasses
  BY Parameters DEF BeginTrial, BenchIInv, BenchTypeOK
<1>2. t.row \in Rows /\ t.on_hand \in Nat /\ t.qty \in Nat
  BY <1>1, Parameters
<1>3. ASSUME NEW i \in Ids, IsActive(reservations, i)
      PROVE  reservations[i].row # t.row
  <2>1. PICK u \in 1 .. trial : reservations[i].row = Trials[u].row
    BY <1>1, <1>3 DEF OnTrialRows
  <2>2. u \in 1 .. (trial + 1) - 1 /\ trial + 1 \in DOMAIN Trials
    BY <1>1, Parameters
  <2>3. Trials[u].row # t.row
    BY <2>2, InventoryBenchAssumption
  <2> QED
    BY <2>1, <2>3
<1>4. IInv'
  BY <1>1, <1>2, <1>3, SetStockKeeps
<1>5. /\ inventory'[t.row] = [on_hand |-> t.on_hand, reserved |-> 0]
      /\ reservations' = reservations
      /\ \A w \in Workers : call'[w].step = "idle" /\ call'[w].outcome = "none"
  BY <1>1, <1>2 DEF SetStock, IInv, TypeOK, NoCall
<1>6. RaceOK'
  <2>1. Winners' = {}
    BY <1>5 DEF Winners
  <2>2. Cardinality(Winners') = 0 /\ t.qty * 0 = 0
    BY <1>2, <2>1, FS_EmptySet
  <2>3. \A w \in Workers : RacerOK(w)'
    BY <1>5 DEF RacerOK
  <2> QED
    BY <1>1, <1>5, <2>2, <2>3 DEF RaceOK
<1>7. BenchTypeOK' /\ OnTrialRows'
  <2>1. trial' \in 0 .. Len(Trials) /\ \A u \in 1 .. trial : u \in 1 .. trial'
    BY <1>1, Parameters
  <2> QED
    BY <1>1, <1>5, <2>1 DEF BenchTypeOK, Stages, OnTrialRows, IsActive
<1> QED
  BY <1>1, <1>4, <1>6, <1>7 DEF BenchIInv, SoldExactly, EveryCheckPasses, OnlyFaultsAbort

\* What a trial is given, while it runs.
LEMMA TrialGiven ==
  ASSUME BenchIInv, trial > 0
  PROVE  LET t == Trials[trial] IN
         /\ trial \in DOMAIN Trials /\ trial \in Nat
         /\ t.row \in Rows /\ t.on_hand \in Nat
         /\ t.qty \in Quantities /\ t.qty \in Nat \ {0}
         /\ t.row = <<t.row[1], t.row[2]>>
<1>1. trial \in 1 .. Len(Trials)
  BY Parameters DEF BenchIInv, BenchTypeOK
<1>2. Trials[trial].row \in Rows
  BY <1>1, Parameters
<1>3. Trials[trial].row = <<Trials[trial].row[1], Trials[trial].row[2]>>
  BY <1>2 DEF Rows
<1> QED
  BY <1>1, <1>2, <1>3, Parameters

\* One more thread joins.
LEMMA AttemptKeeps ==
  ASSUME BenchIInv, NEW w \in Workers, Attempt(w)
  PROVE  BenchIInv'
<1> DEFINE t == Trials[trial]
<1>1. /\ stage = "racing" /\ call[w].outcome = "none" /\ UNCHANGED bench
      /\ StartReserve(w, t.row[1], t.row[2], t.qty)
      /\ IInv /\ RaceOK /\ BenchTypeOK /\ OnTrialRows /\ EveryCheckPasses
  BY DEF Attempt, BenchIInv
<1>2. t.row \in Rows /\ t.qty \in Quantities /\ t.row = <<t.row[1], t.row[2]>>
  BY <1>1, TrialGiven DEF RaceOK
<1>3. IInv'
  BY <1>1, <1>2, CallsKeep
<1>4. /\ UNCHANGED <<inventory, reservations>>
      /\ \A v \in Workers \ {w} : call'[v] = call[v]
      /\ call'[w].step = "connect" /\ call'[w].outcome = "none"
      /\ call'[w].op = "reserve" /\ call'[w].quantity = t.qty
      /\ call'[w].cell = <<t.row[1], t.row[2]>>
  BY <1>1 DEF StartReserve, NoCall, tables, IInv, TypeOK
<1>5. trial' = trial
  BY <1>1 DEF bench
<1>6. Winners' = Winners /\ (Faulted' <=> Faulted)
  BY <1>1, <1>4 DEF Winners, Faulted
<1>7. \A v \in Workers : RacerOK(v)'
  <2>1. RacerOK(w)'
    BY <1>2, <1>4, <1>5 DEF RacerOK
  <2>2. \A v \in Workers \ {w} : RacerOK(v)'
    BY <1>1, <1>4, <1>5 DEF RaceOK, RacerOK
  <2> QED
    BY <2>1, <2>2
<1>8. RaceOK'
  BY <1>1, <1>4, <1>5, <1>6, <1>7 DEF RaceOK
<1> QED
  BY <1>1, <1>3, <1>4, <1>8
     DEF BenchIInv, BenchTypeOK, bench, SoldExactly, EveryCheckPasses, OnlyFaultsAbort,
       OnTrialRows, IsActive

\* An attempt commits, answered or not: its lot is taken from the trial's row.
LEMMA RaceCommit ==
  ASSUME BenchIInv, stage = "racing", NEW w \in Workers, NEW outcome,
         Commits(w, outcome), UNCHANGED bench
  PROVE  LET t == Trials[trial] IN
         /\ call[w].outcome = "none"
         /\ inventory'[t.row].on_hand = t.on_hand
         /\ inventory'[t.row].reserved = inventory[t.row].reserved + t.qty
         /\ inventory[t.row].reserved \in Nat
         /\ OnTrialRows'
<1> DEFINE t == Trials[trial]
           c == call[w]
<1>1. /\ IInv /\ WorkerOK(w) /\ RaceOK /\ RacerOK(w) /\ OnTrialRows /\ trial' = trial
      /\ c.step = "commit" /\ Publish(w)
      /\ inventory \in [Rows -> [on_hand : Nat, reserved : Nat]]
      /\ reservations \in ReservationTables
  BY DEF BenchIInv, RaceOK, IInv, TypeOK, bench, Commits
<1>2. /\ t.row \in Rows /\ t.qty \in Nat \ {0} /\ t.qty \in Quantities
      /\ trial \in Nat /\ trial > 0
  BY <1>1, TrialGiven DEF RaceOK
<1>3. c.op = "reserve" /\ c.cell = t.row /\ c.quantity = t.qty /\ c.outcome = "none"
  BY <1>1 DEF RacerOK, WorkerOK, ArgumentsOK
<1>4. inventory[t.row].reserved \in Nat /\ inventory[t.row].on_hand = t.on_hand
  BY <1>1, <1>2 DEF RaceOK
<1>5. c.pending = inventory[t.row].reserved + t.qty /\ c.pending # Unwritten
  BY <1>1, <1>2, <1>3, <1>4 DEF WorkerOK, DraftOK, Reserving, Unwritten
<1>6. /\ inventory' = [inventory EXCEPT ![t.row].reserved = c.pending]
      /\ c.id \in Ids
      /\ reservations' = [reservations EXCEPT ![c.id] = NewReservation(t.row, t.qty)]
  BY <1>1, <1>3, <1>5, PublishedTables DEF Releasing
<1>7. /\ inventory'[t.row].on_hand = t.on_hand
      /\ inventory'[t.row].reserved = inventory[t.row].reserved + t.qty
  BY <1>1, <1>2, <1>4, <1>5, <1>6
<1>8. ASSUME NEW i \in Ids, IsActive(reservations', i)
      PROVE  \E u \in 1 .. trial : reservations'[i].row = Trials[u].row
  <2>1. CASE i = c.id
    <3>1. reservations'[i].row = t.row
      BY <1>1, <1>6, <2>1 DEF NewReservation, ReservationTables
    <3> QED
      BY <1>2, <3>1
  <2>2. CASE i # c.id
    <3>1. reservations'[i] = reservations[i]
      BY <1>1, <1>6, <2>2 DEF ReservationTables
    <3>2. IsActive(reservations, i)
      BY <1>8, <3>1 DEF IsActive
    <3> QED
      BY <1>1, <3>1, <3>2 DEF OnTrialRows
  <2> QED
    BY <2>1, <2>2
<1>9. OnTrialRows'
  BY <1>1, <1>8 DEF OnTrialRows, IsActive
<1> QED
  BY <1>3, <1>4, <1>7, <1>9

\* Stock does not come back during a trial: who was told that it ran out was told so
\* rightly.
LEMMA RefusedRemain ==
  ASSUME BenchIInv, stage = "racing", NEW w \in Workers, OnlyCallOf(w), trial' = trial,
         LET r == Trials[trial].row IN
         inventory'[r].reserved \in Nat /\ inventory[r].reserved <= inventory'[r].reserved
  PROVE  \A v \in Workers \ {w} : RacerOK(v)'
<1>1. /\ RaceOK /\ Trials[trial].row \in Rows /\ Trials[trial].qty \in Nat
      /\ Trials[trial].on_hand \in Nat
  BY TrialGiven DEF BenchIInv, RaceOK
<1>2. inventory[Trials[trial].row].reserved \in Nat
  BY <1>1 DEF BenchIInv, IInv, TypeOK
<1> QED
  BY <1>1, <1>2 DEF RaceOK, RacerOK, OnlyCallOf

\* A statement, a rollback or a commit of an attempt.
LEMMA AttemptStepKeeps ==
  ASSUME BenchIInv, NEW w \in Workers, AttemptStep(w)
  PROVE  BenchIInv'
<1> DEFINE t == Trials[trial]
           c == call[w]
           d == call'[w]
<1>1. /\ stage = "racing" /\ UNCHANGED bench /\ trial' = trial /\ Step(w)
      /\ IInv /\ RaceOK /\ RacerOK(w) /\ BenchTypeOK /\ OnTrialRows /\ EveryCheckPasses
      /\ inventory \in [Rows -> [on_hand : Nat, reserved : Nat]]
  BY DEF AttemptStep, BenchIInv, bench, RaceOK, IInv, TypeOK
<1>2. IInv'
  BY <1>1, CallsKeep
<1>3. /\ OnlyCallOf(w)
      /\ c.step # "idle"
      /\ \/ /\ c.step \notin {"rollback", "commit"}
            /\ GoesOn(w) \/ GivesUp(w)
         \/ /\ c.step = "rollback" /\ UNCHANGED tables
            /\ d.step = "idle" /\ d.outcome = c.outcome
         \/ Commits(w, "ok")
  BY <1>1, StepShapes
<1>4. /\ t.row \in Rows /\ t.qty \in Nat \ {0} /\ t.on_hand \in Nat
      /\ inventory[t.row].reserved \in Nat /\ inventory[t.row].on_hand = t.on_hand
  BY <1>1, TrialGiven DEF RaceOK
<1>5. c.step # "rollback" =>
        c.op = "reserve" /\ c.cell = t.row /\ c.quantity = t.qty /\ c.outcome = "none"
  BY <1>1, <1>3 DEF RacerOK, IInv, WorkerOK, ArgumentsOK
<1>6. CASE Commits(w, "ok")
  <2>1. /\ c.outcome = "none" /\ d.step = "idle" /\ d.outcome = "ok"
        /\ inventory'[t.row].on_hand = t.on_hand
        /\ inventory'[t.row].reserved = inventory[t.row].reserved + t.qty
        /\ OnTrialRows'
    BY <1>1, <1>6, RaceCommit DEF Commits
  <2>2. \A v \in Workers : RacerOK(v)'
    <3>1. RacerOK(w)'
      BY <2>1 DEF RacerOK
    <3>2. \A v \in Workers \ {w} : RacerOK(v)'
      BY <1>1, <1>3, <1>4, <2>1, RefusedRemain
    <3> QED
      BY <3>1, <3>2
  <2>3. Cardinality(Winners') = Cardinality(Winners) + 1
    <3>1. Winners' = Winners \cup {w} /\ w \notin Winners
      BY <1>3, <2>1 DEF Winners, OnlyCallOf
    <3> QED
      BY <3>1, WinnersFinite, FS_AddElement
  <2>4. ~Faulted' => inventory'[t.row].reserved = t.qty * Cardinality(Winners')
    <3>1. ~Faulted' => ~Faulted
      BY <1>3, <2>1 DEF Faulted, OnlyCallOf
    <3>2. ~Faulted => inventory[t.row].reserved = t.qty * Cardinality(Winners)
      BY <1>1 DEF RaceOK
    <3>3. t.qty * (Cardinality(Winners) + 1) = t.qty * Cardinality(Winners) + t.qty
      BY <1>4, WinnersFinite, TimesNext
    <3> QED
      BY <2>1, <2>3, <3>1, <3>2, <3>3
  <2>5. RaceOK'
    BY <1>1, <2>1, <2>2, <2>4 DEF RaceOK
  <2> QED
    BY <1>1, <1>2, <2>1, <2>5
       DEF BenchIInv, BenchTypeOK, bench, SoldExactly, EveryCheckPasses, OnlyFaultsAbort
<1>7. CASE ~Commits(w, "ok")
  <2>1. /\ inventory' = inventory /\ reservations' = reservations
        /\ d.outcome \in {"none", "ok", "insufficient", "error"}
        /\ d.outcome = "ok" <=> c.outcome = "ok"
        /\ d.outcome # "error" => c.outcome # "error"
        /\ d.step \notin {"idle", "rollback"} =>
             d.op = "reserve" /\ d.cell = t.row /\ d.quantity = t.qty
        /\ d.outcome = "insufficient" => t.qty > t.on_hand - inventory[t.row].reserved
    <3>1. CASE c.step = "rollback"
      BY <1>1, <1>3, <1>7, <3>1 DEF RacerOK, tables, Commits
    <3>2. CASE c.step # "rollback" /\ GoesOn(w)
      BY <1>5, <3>2 DEF GoesOn, tables
    <3>3. CASE c.step # "rollback" /\ GivesUp(w)
      BY <1>4, <1>5, <3>3 DEF GivesUp, tables, CommittedAtp
    <3> QED
      BY <1>3, <1>7, <3>1, <3>2, <3>3
  <2>2. \A v \in Workers : RacerOK(v)'
    <3>1. RacerOK(w)'
      BY <1>1, <2>1 DEF RacerOK
    <3>2. \A v \in Workers \ {w} : RacerOK(v)'
      BY <1>1, <1>3, <1>4, <2>1, RefusedRemain
    <3> QED
      BY <3>1, <3>2
  <2>3. Winners' = Winners /\ (~Faulted' => ~Faulted)
    BY <1>3, <2>1 DEF Winners, Faulted, OnlyCallOf
  <2>4. RaceOK'
    BY <1>1, <2>1, <2>2, <2>3 DEF RaceOK
  <2> QED
    BY <1>1, <1>2, <2>1, <2>4
       DEF BenchIInv, BenchTypeOK, bench, SoldExactly, EveryCheckPasses, OnlyFaultsAbort,
         OnTrialRows, IsActive
<1> QED
  BY <1>6, <1>7

\* A fault of an attempt, which may take its lot all the same.
LEMMA RaceFaultKeeps ==
  ASSUME BenchIInv, NEW w \in Workers, stage = "racing", BenchFault(w)
  PROVE  BenchIInv'
<1> DEFINE t == Trials[trial]
<1>1. /\ UNCHANGED bench /\ trial' = trial /\ Fault(w)
      /\ IInv /\ RaceOK /\ BenchTypeOK /\ OnTrialRows /\ EveryCheckPasses
      /\ inventory \in [Rows -> [on_hand : Nat, reserved : Nat]]
  BY DEF BenchFault, BenchIInv, bench, IInv, TypeOK
<1>2. IInv'
  BY <1>1, CallsKeep
<1>3. /\ OnlyCallOf(w)
      /\ call'[w].step \in {"idle", "rollback"} /\ call'[w].outcome = "error"
      /\ UNCHANGED tables \/ Commits(w, "error")
  BY <1>1, FaultShapes
<1>4. /\ t.row \in Rows /\ t.qty \in Nat \ {0}
      /\ inventory[t.row].reserved \in Nat /\ inventory[t.row].on_hand = t.on_hand
  BY <1>1, TrialGiven DEF RaceOK
<1>5. /\ inventory'[t.row].on_hand = t.on_hand
      /\ inventory'[t.row].reserved \in Nat
      /\ inventory[t.row].reserved <= inventory'[t.row].reserved
      /\ OnTrialRows'
  <2>1. CASE UNCHANGED tables
    BY <1>1, <1>4, <2>1 DEF tables, OnTrialRows, IsActive
  <2>2. CASE Commits(w, "error")
    BY <1>1, <1>4, <2>2, RaceCommit
  <2> QED
    BY <1>3, <2>1, <2>2
<1>6. \A v \in Workers : RacerOK(v)'
  <2>1. RacerOK(w)'
    BY <1>3 DEF RacerOK
  <2>2. \A v \in Workers \ {w} : RacerOK(v)'
    BY <1>1, <1>3, <1>5, RefusedRemain
  <2> QED
    BY <2>1, <2>2
<1>7. Faulted'
  BY <1>3 DEF Faulted
<1>8. RaceOK'
  BY <1>1, <1>5, <1>6, <1>7 DEF RaceOK
<1> QED
  BY <1>1, <1>2, <1>5, <1>8
     DEF BenchIInv, BenchTypeOK, bench, SoldExactly, EveryCheckPasses, OnlyFaultsAbort

\* Nobody raised anything but a refusal: as many won as there were lots.
LEMMA MeasureKeeps ==
  ASSUME BenchIInv, Measure
  PROVE  BenchIInv'
<1> DEFINE t == Trials[trial]
           n == Cardinality(Winners)
           exact == /\ n = t.on_hand \div t.qty
                    /\ inventory[t.row].reserved <= inventory[t.row].on_hand
<1>1. /\ stage = "racing" /\ stage' = "ready" /\ Quiet /\ Winners \cup Refused = Workers
      /\ checks' = Append(checks, exact)
      /\ UNCHANGED <<vars, trial, receipts>>
      /\ IInv /\ RaceOK /\ BenchTypeOK /\ OnTrialRows /\ EveryCheckPasses
  BY DEF Measure, BenchIInv
<1>2. /\ t.row \in Rows /\ t.qty \in Nat \ {0} /\ t.on_hand \in Nat
      /\ trial \in DOMAIN Trials /\ n \in Nat
      /\ inventory[t.row].on_hand = t.on_hand
      /\ inventory[t.row] \in [on_hand : Nat, reserved : Nat]
  BY <1>1, TrialGiven, WinnersFinite DEF RaceOK, IInv, TypeOK
<1>3. inventory[t.row].reserved = t.qty * n
  <2>1. ~Faulted
    BY <1>1 DEF Faulted, Winners, Refused
  <2> QED
    BY <1>1, <2>1 DEF RaceOK
<1>4. inventory[t.row].reserved <= t.on_hand
  BY <1>1, <1>2 DEF IInv, CountsOK
<1>5. n = t.on_hand \div t.qty
  <2>1. CASE Refused = {}
    <3>1. n = Cardinality(Workers) /\ t.on_hand \div t.qty <= Cardinality(Workers)
      BY <1>1, <1>2, <2>1, InventoryBenchAssumption
    <3>2. n <= t.on_hand \div t.qty /\ t.on_hand \div t.qty \in Nat
      <4> HIDE DEF n, t
      <4> QED
        BY <1>2, <1>3, <1>4, QuotientAtLeast
    <3> QED
      BY <1>2, <3>1, <3>2
  <2>2. CASE Refused # {}
    <3>1. t.qty > t.on_hand - inventory[t.row].reserved
      BY <1>1, <2>2 DEF Refused, RaceOK, RacerOK
    <3> HIDE DEF n, t
    <3>2. t.on_hand < t.qty * n + t.qty
      BY <1>2, <1>3, <3>1
    <3> QED
      BY <1>2, <1>3, <1>4, <3>2, Quotient
  <2> QED
    BY <2>1, <2>2
<1>6. exact
  BY <1>2, <1>4, <1>5
<1>7. checks' \in Seq(BOOLEAN) /\ \A m \in DOMAIN checks' : checks'[m]
  <2>1. exact \in BOOLEAN
    OBVIOUS
  <2>2. checks \in Seq(BOOLEAN) /\ \A m \in DOMAIN checks : checks[m]
    BY <1>1 DEF BenchTypeOK, EveryCheckPasses
  <2> HIDE DEF exact
  <2> QED
    BY <1>1, <1>6, <2>1, <2>2, NextCheck, Zenon
<1>8. IInv'
  BY <1>1, StutteringKeeps
<1>9. SoldExactly'
  <2>1. Refused = Workers \ Winners
    BY <1>1 DEF Refused, Winners
  <2>2. inventory[t.row] = [on_hand |-> t.on_hand, reserved |-> t.qty * n]
    <3> HIDE DEF n, t
    <3> QED
      BY <1>2, <1>3
  <2>3. /\ inventory' = inventory /\ trial' = trial
        /\ Winners' = Winners /\ Refused' = Refused
    BY <1>1 DEF vars, Winners, Refused
  <2> QED
    BY <1>5, <2>1, <2>2, <2>3 DEF SoldExactly
<1>10. Quiet' /\ OnTrialRows' /\ BenchTypeOK' /\ EveryCheckPasses'
  BY <1>1, <1>7 DEF vars, Quiet, OnTrialRows, IsActive, BenchTypeOK, Stages, EveryCheckPasses
<1> QED
  BY <1>1, <1>8, <1>9, <1>10 DEF BenchIInv, OnlyFaultsAbort

-----------------------------------------------------------------------------
(* The invariant holds *)

\* The seeding around the bench.
LEMMA SeededFresh ==
  ASSUME stage' = "seeded", trial' = 0, checks' = <<>>, receipts' = <<>>, IInv',
         \A i \in Ids : reservations'[i] = NoReservation, Quiet'
  PROVE  BenchIInv'
<1>1. Len(Trials) \in Nat
  BY Parameters
<1>2. checks' \in Seq(BOOLEAN) /\ \A m \in DOMAIN checks' : checks'[m]
  OBVIOUS
<1>3. BenchTypeOK' /\ EveryCheckPasses'
  BY <1>1, <1>2 DEF BenchTypeOK, EveryCheckPasses, Stages
<1>4. OnTrialRows'
  BY DEF OnTrialRows, IsActive
<1> QED
  BY <1>3, <1>4 DEF BenchIInv, SoldExactly, OnlyFaultsAbort

LEMMA EnsureSeededKeeps ==
  ASSUME BenchIInv, EnsureSeeded
  PROVE  BenchIInv'
<1>1. IInv'
  BY SeedingKeeps DEF BenchIInv, EnsureSeeded
<1>2. Quiet'
  BY DEF EnsureSeeded, NoCall, Quiet
<1> QED
  BY <1>1, <1>2, SeededFresh DEF EnsureSeeded

LEMMA BenchInitEstablishes == BenchInit => BenchIInv
<1>1. SUFFICES ASSUME BenchInit PROVE BenchIInv
  OBVIOUS
<1>2. IInv /\ Quiet /\ \A i \in Ids : ~IsActive(reservations, i)
  BY <1>1, InitEstablishes DEF BenchInit, Init, NoCall, Quiet, IsActive
<1>3. Len(Trials) \in Nat /\ stage = "seeded" /\ trial = 0 /\ checks = <<>> /\ receipts = <<>>
  BY <1>1, Parameters DEF BenchInit
<1>4. checks \in Seq(BOOLEAN) /\ \A m \in DOMAIN checks : checks[m]
  BY <1>3
<1>5. BenchTypeOK /\ EveryCheckPasses /\ OnTrialRows
  BY <1>2, <1>3, <1>4 DEF BenchTypeOK, EveryCheckPasses, Stages, OnTrialRows
<1> QED
  BY <1>2, <1>3, <1>5 DEF BenchIInv, SoldExactly, OnlyFaultsAbort

LEMMA BenchStutteringKeeps ==
  ASSUME BenchIInv, UNCHANGED benchVars
  PROVE  BenchIInv'
<1>1. UNCHANGED vars /\ UNCHANGED bench
  BY DEF benchVars
<1>2. IInv'
  BY <1>1, StutteringKeeps DEF BenchIInv
<1>3. /\ (Quiet' <=> Quiet) /\ (OnTrialRows' <=> OnTrialRows)
      /\ (BenchTypeOK' <=> BenchTypeOK) /\ (Faulted' <=> Faulted)
      /\ (EveryCheckPasses' <=> EveryCheckPasses) /\ (OnlyFaultsAbort' <=> OnlyFaultsAbort)
  BY <1>1 DEF vars, bench, Quiet, OnTrialRows, IsActive, BenchTypeOK, Faulted,
     EveryCheckPasses, OnlyFaultsAbort
<1>4. SoldExactly' <=> SoldExactly
  BY <1>1 DEF vars, bench, SoldExactly, Winners, Refused
<1>5. LifecycleOK' <=> LifecycleOK
  <2>1. LifecycleBooksOK' <=> LifecycleBooksOK
    BY <1>1 DEF vars, bench, LifecycleBooksOK, Returned, IsActive
  <2> QED
    BY <1>1, <1>3, <2>1 DEF vars, bench, LifecycleOK, LifecycleCallOK, Returned
<1>6. RaceOK' <=> RaceOK
  BY <1>1, <1>3 DEF vars, bench, RaceOK, RacerOK, Winners
<1> QED
  BY <1>1, <1>2, <1>3, <1>4, <1>5, <1>6 DEF bench, BenchIInv

LEMMA BenchNextKeeps ==
  ASSUME BenchIInv, BenchNext
  PROVE  BenchIInv'
<1>1. CASE BeginLifecycle
  BY <1>1, BeginLifecycleKeeps
<1>2. CASE EndLifecycle
  BY <1>2, EndLifecycleKeeps
<1>3. CASE BeginTrial
  BY <1>3, BeginTrialKeeps
<1>4. CASE Measure
  BY <1>4, MeasureKeeps
<1>5. CASE Abort
  BY <1>5, AbortKeeps
<1>6. CASE EnsureSeeded
  BY <1>6, EnsureSeededKeeps
<1>7. ASSUME NEW w \in Workers,
             \/ LifecycleCall(w) \/ LifecycleStep(w) \/ Attempt(w) \/ AttemptStep(w)
             \/ BenchFault(w)
      PROVE  BenchIInv'
  <2>1. CASE LifecycleCall(w)
    BY <2>1, LifecycleCallKeeps
  <2>2. CASE LifecycleStep(w)
    BY <2>2, LifecycleStepKeeps
  <2>3. CASE Attempt(w)
    BY <2>3, AttemptKeeps
  <2>4. CASE AttemptStep(w)
    BY <2>4, AttemptStepKeeps
  <2>5. CASE BenchFault(w)
    <3>1. stage \in {"lifecycle", "racing"}
      BY <2>5 DEF BenchFault
    <3> QED
      BY <2>5, <3>1, LifecycleFaultKeeps, RaceFaultKeeps
  <2> QED
    BY <1>7, <2>1, <2>2, <2>3, <2>4, <2>5
<1> QED
  BY <1>1, <1>2, <1>3, <1>4, <1>5, <1>6, <1>7 DEF BenchNext

\* BenchIInv holds in every state the bench can reach, on every catalogue, with every
\* list of lots that fit and every list of trials.
THEOREM BenchInvariance == BenchSpec => []BenchIInv
<1>1. BenchIInv /\ [BenchNext]_benchVars => BenchIInv'
  BY BenchNextKeeps, BenchStutteringKeeps
<1> QED
  BY BenchInitEstablishes, <1>1, PTL DEF BenchSpec

\* Every trial sells as many lots as the stock holds, no lot more and no lot less,
\* whatever the order in which its threads' statements meet the database
\* (tests/test_concurrency.py:53-63; inventory_scenarios.py:114-117).
THEOREM TrialsSellExactly == BenchSpec => []SoldExactly
<1>1. BenchIInv => SoldExactly
  BY DEF BenchIInv
<1> QED
  BY <1>1, BenchInvariance, PTL

\* The bench never records a check that fails, neither of a trial nor of the ATP that
\* the lifecycle compares after every call (inventory_scenarios.py:60-87, 114-131).
THEOREM ChecksAllPass == BenchSpec => []EveryCheckPasses
<1>1. BenchIInv => EveryCheckPasses
  BY DEF BenchIInv
<1> QED
  BY <1>1, BenchInvariance, PTL

\* Without a fault of the pool, the connection or the id sequence the bench runs to its
\* end (inventory_scenarios.py:95-100).
THEOREM AbortsAreFaults == BenchSpec => []OnlyFaultsAbort
<1>1. BenchIInv => OnlyFaultsAbort
  BY DEF BenchIInv
<1> QED
  BY <1>1, BenchInvariance, PTL

\* _set_stock zeroes the denormalised counter without a look at the reservations; it
\* does so only where none is active, so the counter still tells what is held, in the
\* bench as in the service (inventory_scenarios.py:35-45).
THEOREM CounterSurvivesSetStock == BenchSpec => []ReservedIsHeld
<1>1. BenchIInv => ReservedIsHeld
  BY DEF BenchIInv, IInv, CountsOK
<1> QED
  BY <1>1, BenchInvariance, PTL
=============================================================================
