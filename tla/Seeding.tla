------------------------------ MODULE Seeding -------------------------------
(***************************************************************************)
(* catalog/seed.py under traffic: seed_database drops and recreates the    *)
(* tables in one transaction and loads the catalog in another one, at a    *)
(* start with seed_on_start, from the command line or by a test, while     *)
(* requests reserve and release.                                           *)
(*                                                                         *)
(* Statements lock the tables they use until their transaction ends; DROP  *)
(* locks them exclusively, and with a table those its foreign keys refer   *)
(* to.  Transactions may come to wait in a cycle: Postgres aborts one of   *)
(* them, which is a failure like any other here.  What the statements of   *)
(* reserve() and release() do one by one Reservations has in detail, and a *)
(* COMMIT whose answer is lost.                                            *)
(***************************************************************************)
EXTENDS ReservationTable, Sequences

CONSTANTS
  Workers,        \* threads that run reserve() and release()
  Seeders,        \* calls of seed_database()
  OnHand          \* what the generated catalog has in each stock row

Procs == Workers \cup Seeders

ASSUME SeedingAssumption ==
  /\ OnHand \in [Rows -> Nat]
  /\ IsFiniteSet(Procs)
  /\ Workers \cap Seeders = {}

VARIABLES
  loaded,         \* whether products, warehouses and inventory have their rows
  reserved,       \* inventory.reserved, where there is a row
  reservations,   \* the reservations table
  next_id,        \* its id sequence
  step,           \* the statement each process is at, or how it ended
  call,           \* arguments and locals of each worker's call
  todo,           \* tables its statement has still to lock, in order
  granted         \* tables its transaction has locked

tables == <<loaded, reserved, reservations, next_id>>
vars == <<tables, step, call, todo, granted>>

Tables == {"warehouses", "products", "inventory", "reservations"}

\* DROP TABLE reservations, inventory, products, warehouses.  Which of the two
\* tables that the foreign keys refer to is locked first is up to Postgres.
DropOrders ==
  {<<"reservations", "products", "warehouses", "inventory">>,
   <<"reservations", "warehouses", "products", "inventory">>}

\* Tables a statement locks; the INSERT checks its foreign keys at its end.
\* The products that find_product locked are still locked then.
Needs(statement) ==
  CASE statement = "find_product" -> <<"products">>
    [] statement = "lock_stock" -> <<"inventory">>
    [] statement = "insert" -> <<"reservations", "warehouses">>
    [] statement = "find_reservation" -> <<"reservations">>
    [] statement = "give_back" -> <<"inventory">>
    [] statement = "load" -> <<"warehouses">>
    [] statement = "load_rest" -> <<"products", "inventory">>

WorkerStatements ==
  {"find_product", "lock_stock", "insert", "find_reservation", "give_back"}
SeederStatements == {"reset", "load", "load_rest"}

\* And how a call ended: it was answered, "No stock record", or for seedings.
WorkerSteps == WorkerStatements \cup {"idle", "no_stock"}
SeederSteps == SeederStatements \cup {"idle", "seeded", "failed"}

NoCall == [row |-> NoReservation, quantity |-> 0, id |-> 0]

Busy(p) == step[p] \in WorkerStatements \cup SeederStatements

Init ==
  /\ loaded \in BOOLEAN
  /\ reserved = [r \in Rows |-> 0]
  /\ reservations = [i \in Ids |-> NoReservation]
  /\ next_id = 1
  /\ step = [p \in Procs |-> "idle"]
  /\ call = [w \in Workers |-> NoCall]
  /\ todo = [p \in Procs |-> <<>>]
  /\ granted = [p \in Procs |-> {}]

-----------------------------------------------------------------------------
(* Locks *)

\* ACCESS EXCLUSIVE against the modes of SELECT, INSERT and UPDATE, which do
\* not conflict with each other.
Conflict(p, q) == p # q /\ "reset" \in {step[p], step[q]}

TableBlockers(p, t) == {q \in Procs : Conflict(p, q) /\ t \in granted[q]}

\* Mutant: a SELECT of the stock row without FOR UPDATE.
RowBlockersButStock(p) ==
  CASE step[p] = "give_back" ->
         {w \in Workers \ {p} : step[w] = "insert" /\ call[w].row = call[p].row}
    [] step[p] = "find_reservation" ->
         {w \in Workers \ {p} : step[w] = "give_back" /\ call[w].id = call[p].id}
    [] step[p] = "load" -> {s \in Seeders \ {p} : step[s] = "load_rest"}
    [] OTHER -> {}

\* Row locks: the stock row from LockStock to the end of reserve(), the
\* reservation from FindReservation to the end of release(), and the keys of
\* rows inserted by a load that is still open.
RowBlockers(p) ==
  CASE step[p] \in {"lock_stock", "give_back"} ->
         {w \in Workers \ {p} : step[w] = "insert" /\ call[w].row = call[p].row}
    [] step[p] = "find_reservation" ->
         {w \in Workers \ {p} : step[w] = "give_back" /\ call[w].id = call[p].id}
    [] step[p] = "load" -> {s \in Seeders \ {p} : step[s] = "load_rest"}
    [] OTHER -> {}

\* The statement of p has its tables and its row.
At(p, statement) ==
  /\ step[p] = statement
  /\ todo[p] = <<>>
  /\ RowBlockers(p) = {}

Goto(p, statement) ==
  /\ step' = [step EXCEPT ![p] = statement]
  /\ todo' = [todo EXCEPT ![p] = Needs(statement)]

\* COMMIT or ROLLBACK, and the end of the call.
Leave(p, outcome) ==
  /\ step' = [step EXCEPT ![p] = outcome]
  /\ todo' = [todo EXCEPT ![p] = <<>>]
  /\ granted' = [granted EXCEPT ![p] = {}]
  /\ call' = [w \in Workers |-> IF w = p THEN NoCall ELSE call[w]]

LockTable(p) ==
  /\ todo[p] # <<>>
  /\ TableBlockers(p, Head(todo[p])) = {}
  /\ granted' = [granted EXCEPT ![p] = @ \cup {Head(todo[p])}]
  /\ todo' = [todo EXCEPT ![p] = Tail(@)]
  /\ UNCHANGED <<tables, step, call>>

-----------------------------------------------------------------------------
(* reserve() and release() *)

StartReserve(w, r, q) ==
  /\ ~Busy(w)
  /\ Goto(w, "find_product")
  /\ call' = [call EXCEPT ![w] = [row |-> r, quantity |-> q, id |-> 0]]
  /\ UNCHANGED <<tables, granted>>

StartRelease(w, i) ==
  /\ ~Busy(w)
  /\ Goto(w, "find_reservation")
  /\ call' = [call EXCEPT ![w] = [NoCall EXCEPT !.id = i]]
  /\ UNCHANGED <<tables, granted>>

\* Mutant: the SKU is looked up on a connection of its own.
FindProductApart(w) ==
  /\ At(w, "find_product")
  /\ IF loaded
       THEN /\ Goto(w, "lock_stock")
            /\ granted' = [granted EXCEPT ![w] = {}]
            /\ UNCHANGED call
       ELSE Leave(w, "idle")
  /\ UNCHANGED tables

\* _product_id
FindProduct(w) ==
  /\ At(w, "find_product")
  /\ IF loaded THEN Goto(w, "lock_stock") /\ UNCHANGED <<call, granted>>
               ELSE Leave(w, "idle")
  /\ UNCHANGED tables

\* SELECT ... FOR UPDATE: no such row, not enough, or the UPDATE that follows.
LockStock(w) ==
  LET r == call[w].row IN
  /\ At(w, "lock_stock")
  /\ CASE ~loaded -> Leave(w, "no_stock")
       [] loaded /\ call[w].quantity > OnHand[r] - reserved[r] -> Leave(w, "idle")
       [] OTHER -> Goto(w, "insert") /\ UNCHANGED <<call, granted>>
  /\ UNCHANGED tables

\* INSERT ... RETURNING id, and COMMIT of the two writes; or no id is left.
InsertReservation(w) ==
  LET r == call[w].row
      q == call[w].quantity
  IN
  /\ At(w, "insert")
  /\ Leave(w, "idle")
  /\ \/ /\ next_id \in Ids
        /\ reserved' = [reserved EXCEPT ![r] = @ + q]
        /\ reservations' = [reservations EXCEPT ![next_id] = NewReservation(r, q)]
        /\ next_id' = next_id + 1
        /\ UNCHANGED loaded
     \/ next_id \notin Ids /\ UNCHANGED tables

\* The reservation is not there, is released already, or is given back next.
FindReservation(w) ==
  LET i == call[w].id IN
  /\ At(w, "find_reservation")
  /\ IF IsActive(reservations, i)
       THEN /\ Goto(w, "give_back")
            /\ call' = [call EXCEPT ![w].row = reservations[i].row,
                                    ![w].quantity = reservations[i].quantity]
            /\ UNCHANGED granted
       ELSE Leave(w, "idle")
  /\ UNCHANGED tables

\* Both UPDATEs, and COMMIT.
GiveBack(w) ==
  /\ At(w, "give_back")
  /\ reserved' = [reserved EXCEPT ![call[w].row] = @ - call[w].quantity]
  /\ reservations' = [reservations EXCEPT ![call[w].id].status = "released"]
  /\ Leave(w, "idle")
  /\ UNCHANGED <<loaded, next_id>>

-----------------------------------------------------------------------------
(* seed_database() *)

StartSeeding(s) ==
  /\ step[s] = "idle"
  /\ step' = [step EXCEPT ![s] = "reset"]
  /\ \E order \in DropOrders : todo' = [todo EXCEPT ![s] = order]
  /\ UNCHANGED <<tables, call, granted>>

\* Mutant: CREATE TABLE IF NOT EXISTS reservations, and no DROP of it.
ResetSparingReservations(s) ==
  /\ At(s, "reset")
  /\ loaded' = FALSE
  /\ reserved' = [r \in Rows |-> 0]
  /\ Goto(s, "load")
  /\ granted' = [granted EXCEPT ![s] = {}]
  /\ UNCHANGED <<reservations, next_id, call>>

\* reset_schema: every table is dropped and made anew.
Reset(s) ==
  /\ At(s, "reset")
  /\ loaded' = FALSE
  /\ reserved' = [r \in Rows |-> 0]
  /\ reservations' = [i \in Ids |-> NoReservation]
  /\ next_id' = 1
  /\ Goto(s, "load")
  /\ granted' = [granted EXCEPT ![s] = {}]
  /\ UNCHANGED call

\* Mutant: INSERT ... ON CONFLICT DO UPDATE.
LoadOver(s) ==
  /\ At(s, "load")
  /\ Goto(s, "load_rest")
  /\ UNCHANGED <<tables, call, granted>>

\* INSERT INTO warehouses: their codes may be there already.
Load(s) ==
  /\ At(s, "load")
  /\ IF loaded THEN Leave(s, "failed")
               ELSE Goto(s, "load_rest") /\ UNCHANGED <<call, granted>>
  /\ UNCHANGED tables

\* INSERT INTO products and inventory, and COMMIT.
LoadRest(s) ==
  /\ At(s, "load_rest")
  /\ loaded' = TRUE
  /\ reserved' = [r \in Rows |-> 0]
  /\ Leave(s, "seeded")
  /\ UNCHANGED <<reservations, next_id>>

-----------------------------------------------------------------------------
(* Failures *)

\* The process or its connection dies, or Postgres aborts it because it waits
\* in a cycle: its transaction is rolled back, and what it committed stays.
Fail(p) ==
  /\ Busy(p)
  /\ Leave(p, IF p \in Workers THEN "idle" ELSE "failed")
  /\ UNCHANGED tables

Advance(p) ==
  \/ LockTable(p)
  \/ /\ p \in Workers
     /\ \/ FindProduct(p) \/ LockStock(p) \/ InsertReservation(p)
        \/ FindReservation(p) \/ GiveBack(p)
  \/ /\ p \in Seeders
     /\ Reset(p) \/ Load(p) \/ LoadRest(p)

Next ==
  \/ \E w \in Workers :
       \/ \E r \in Rows, q \in Quantities : StartReserve(w, r, q)
       \/ \E i \in Ids : StartRelease(w, i)
  \/ \E s \in Seeders : StartSeeding(s)
  \/ \E p \in Procs : Advance(p) \/ Fail(p)

Spec == Init /\ [][Next]_vars

-----------------------------------------------------------------------------
(* Properties *)

\* Every variable keeps its type.
TypeOK ==
  /\ loaded \in BOOLEAN
  /\ reserved \in [Rows -> Nat]
  /\ reservations \in ReservationTables
  /\ next_id \in 1 .. MaxId + 1
  /\ step \in [Procs -> WorkerSteps \cup SeederSteps]
  /\ \A w \in Workers : step[w] \in WorkerSteps
  /\ \A s \in Seeders : step[s] \in SeederSteps
  /\ call \in [Workers -> [row : Rows \cup {NoReservation},
                           quantity : Quantities \cup {0}, id : Ids \cup {0}]]
  /\ todo \in [Procs -> Seq(Tables)]
  /\ granted \in [Procs -> SUBSET Tables]

\* The counter and the reservations agree through any number of reseedings:
\* none survives the stock it was made of, and none is forgotten by a load that
\* comes late.
BooksBalance ==
  IF loaded
    THEN \A r \in Rows : reserved[r] = Held(reservations, r) /\ reserved[r] <= OnHand[r]
    ELSE reservations = [i \in Ids |-> NoReservation]

\* A reservation whose SKU was found finds its stock row as well: reserve()
\* never answers "No stock record" for what the catalog has, although a reseed
\* may begin between the two statements (reserve.py:32-45).
StockIsFound == \A w \in Workers : step[w] # "no_stock"

\* When seed_database commits what it loaded (seed.py:329), the catalog is as
\* generated: everything is loaded and nothing is reserved, whoever else seeds or
\* reserves.  Between the commit and the return others may write again.
SeededIsFresh ==
  [][\A s \in Seeders :
       (step[s] # "seeded" /\ step'[s] = "seeded") =>
         /\ loaded'
         /\ \A i \in Ids : reservations'[i] = NoReservation
         /\ \A r \in Rows : reserved'[r] = 0]_vars

\* Whoever looks from outside sees the catalog come and go as a whole, every
\* reservation go with it, and no unit granted that another reservation holds:
\* the counter, the statements, locks, aborts and lost processes do not show.
Ledger == INSTANCE CatalogLedger WITH on_hand <- OnHand

ImplementsCatalogLedger == Ledger!CatalogSpec
=============================================================================
