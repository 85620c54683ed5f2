--------------------------- MODULE Seeding_proofs ---------------------------
(***************************************************************************)
(* Theorems about Seeding and their proofs: whatever is reset, loaded,     *)
(* reserved, released and aborted in whatever order, the books balance.    *)
(***************************************************************************)
EXTENDS Seeding, ReservationTable_proofs

-----------------------------------------------------------------------------
(* The inductive invariant *)

\* Tables that a statement must have locked before it runs.
Wanted(statement) ==
  CASE statement = "find_product" -> {"products"}
    [] statement = "lock_stock" -> {"inventory"}
    [] statement = "insert" -> {"reservations", "warehouses"}
    [] statement = "find_reservation" -> {"reservations"}
    [] statement = "give_back" -> {"inventory"}
    [] statement = "load" -> {"warehouses"}
    [] statement = "load_rest" -> {"products", "inventory"}
    [] statement = "reset" -> Tables

\* p has locked, or is still going to lock, every one of these.
Covered(p, wanted) ==
  \A t \in wanted : t \in granted[p] \/ \E i \in 1 .. Len(todo[p]) : todo[p][i] = t

\* Locks end with the transaction, and an exclusive one has its table alone.
LocksOK ==
  /\ \A p \in Procs : ~Busy(p) => granted[p] = {} /\ todo[p] = <<>>
  /\ \A p, q \in Procs : \A t \in Tables :
       (t \in granted[p] /\ t \in granted[q]) => ~Conflict(p, q)
  /\ \A p \in Procs : Busy(p) => Covered(p, Wanted(step[p]))

\* What a worker has established and which lock keeps it true.
WorkerOK(w) ==
  /\ step[w] # "no_stock"
  /\ step[w] \in {"find_product", "lock_stock", "insert"}
       => call[w].row \in Rows /\ call[w].quantity \in Quantities
  /\ step[w] \in {"lock_stock", "insert"} => loaded /\ "products" \in granted[w]
  /\ step[w] = "insert"
       => reserved[call[w].row] + call[w].quantity <= OnHand[call[w].row]
  /\ step[w] \in {"find_reservation", "give_back"} => call[w].id \in Ids
  /\ step[w] = "give_back"
       => /\ "reservations" \in granted[w]
          /\ IsActive(reservations, call[w].id)
          /\ call[w].row = reservations[call[w].id].row
          /\ call[w].quantity = reservations[call[w].id].quantity

SeederOK(s) == step[s] = "load_rest" => "warehouses" \in granted[s] /\ ~loaded

\* Row locks are held by one worker, keys are inserted by one load.
RowsOK ==
  /\ \A v, w \in Workers :
       (step[v] = "insert" /\ step[w] = "insert" /\ call[v].row = call[w].row) => v = w
  /\ \A v, w \in Workers :
       (step[v] = "give_back" /\ step[w] = "give_back" /\ call[v].id = call[w].id) => v = w
  /\ \A s, u \in Seeders : (step[s] = "load_rest" /\ step[u] = "load_rest") => s = u

IdsFresh == \A i \in Ids : i >= next_id => reservations[i] = NoReservation

IInv ==
  /\ TypeOK
  /\ LocksOK
  /\ \A w \in Workers : WorkerOK(w)
  /\ \A s \in Seeders : SeederOK(s)
  /\ RowsOK
  /\ IdsFresh
  /\ BooksBalance

-----------------------------------------------------------------------------
(* Table locks *)

\* Statements of DML, which share their tables.
Sharing == WorkerStatements \cup {"load", "load_rest"}

\* Every statement asks for the tables it wants.
LEMMA NeedsCover ==
  ASSUME NEW statement \in Sharing
  PROVE  /\ Needs(statement) \in Seq(Tables)
         /\ \A t \in Wanted(statement) :
              \E i \in 1 .. Len(Needs(statement)) : Needs(statement)[i] = t
<1>1. Needs(statement) \in Seq(Tables)
  <2>1. \A t, u \in Tables : <<t>> \in Seq(Tables) /\ <<t, u>> \in Seq(Tables)
    OBVIOUS
  <2>2. \E t, u \in Tables : Needs(statement) \in {<<t>>, <<t, u>>}
    BY DEF Sharing, WorkerStatements, Needs, Tables
  <2> QED
    BY <2>1, <2>2
<1>2. CASE statement \in {"insert", "load_rest"}
  <2>1. /\ Len(Needs(statement)) = 2
        /\ Wanted(statement) = {Needs(statement)[1], Needs(statement)[2]}
    BY <1>2 DEF Needs, Wanted
  <2> QED
    BY <1>1, <2>1
<1>3. CASE statement \notin {"insert", "load_rest"}
  <2>1. Len(Needs(statement)) = 1 /\ Wanted(statement) = {Needs(statement)[1]}
    BY <1>3 DEF Sharing, WorkerStatements, Needs, Wanted
  <2> QED
    BY <1>1, <2>1
<1> QED
  BY <1>2, <1>3

\* In either order, the DROPs lock every table.
LEMMA DropsCover ==
  ASSUME NEW order \in DropOrders
  PROVE  order \in Seq(Tables) /\ \A t \in Tables : \E i \in 1 .. Len(order) : order[i] = t
<1>1. order \in Seq(Tables) /\ Len(order) = 4
  <2>1. \A t, u, v, w \in Tables :
          <<t, u, v, w>> \in Seq(Tables) /\ Len(<<t, u, v, w>>) = 4
    OBVIOUS
  <2>2. \E t, u, v, w \in Tables : order = <<t, u, v, w>>
    BY DEF DropOrders, Tables
  <2> QED
    BY <2>1, <2>2
<1>2. Tables = {order[1], order[2], order[3], order[4]}
  BY DEF DropOrders, Tables
<1> QED
  BY <1>1, <1>2

\* What a lock list names is its head or in its tail.
LEMMA HeadOrTail ==
  ASSUME NEW list \in Seq(Tables), list # <<>>, NEW i \in 1 .. Len(list)
  PROVE  \/ list[i] = Head(list)
         \/ \E j \in 1 .. Len(Tail(list)) : Tail(list)[j] = list[i]
<1>1. CASE i = 1
  BY <1>1
<1>2. CASE i # 1
  <2>1. i - 1 \in 1 .. Len(Tail(list)) /\ Tail(list)[i - 1] = list[i]
    BY <1>2
  <2> QED
    BY <2>1
<1> QED
  BY <1>1, <1>2

\* The next statement of a transaction, or the first of one, disturbs no lock.
LEMMA LocksAfterGoto ==
  ASSUME TypeOK, LocksOK, NEW p \in Procs, step[p] # "reset",
         NEW statement \in Sharing, Goto(p, statement), UNCHANGED granted
  PROVE  LocksOK'
<1>1. /\ step'[p] = statement /\ todo'[p] = Needs(statement)
      /\ \A q \in Procs \ {p} : step'[q] = step[q] /\ todo'[q] = todo[q]
  BY DEF Goto, TypeOK
<1>2. Busy(p)' /\ statement # "reset"
  BY <1>1 DEF Busy, Sharing, WorkerStatements, SeederStatements
<1>3. \A q \in Procs : ~Busy(q)' => granted'[q] = {} /\ todo'[q] = <<>>
  BY <1>1, <1>2 DEF LocksOK, Busy
<1>4. \A q, u \in Procs : Conflict(q, u)' <=> Conflict(q, u)
  BY <1>1, <1>2 DEF Conflict
<1>5. ASSUME NEW q \in Procs, Busy(q)'
      PROVE  Covered(q, Wanted(step[q]))'
  <2>1. CASE q = p
    BY <1>1, <2>1, NeedsCover DEF Covered
  <2>2. CASE q # p
    BY <1>1, <1>5, <2>2 DEF LocksOK, Covered, Busy
  <2> QED
    BY <2>1, <2>2
<1> QED
  BY <1>3, <1>4, <1>5 DEF LocksOK

\* A transaction that ends leaves its tables to the others.
LEMMA LocksAfterLeave ==
  ASSUME TypeOK, LocksOK, NEW p \in Procs, Busy(p),
         NEW outcome \in {"idle", "no_stock", "seeded", "failed"}, Leave(p, outcome)
  PROVE  LocksOK'
<1>1. /\ step'[p] = outcome /\ granted'[p] = {} /\ todo'[p] = <<>>
      /\ \A q \in Procs \ {p} : /\ step'[q] = step[q] /\ todo'[q] = todo[q]
                                /\ granted'[q] = granted[q]
  BY DEF Leave, TypeOK
<1>2. ~Busy(p)'
  BY <1>1 DEF Busy, WorkerStatements, SeederStatements
<1>3. \A q \in Procs : ~Busy(q)' => granted'[q] = {} /\ todo'[q] = <<>>
  BY <1>1 DEF LocksOK, Busy
<1>4. ASSUME NEW q \in Procs, NEW u \in Procs, NEW t \in Tables,
             t \in granted'[q], t \in granted'[u]
      PROVE  ~Conflict(q, u)'
  <2>1. q # p /\ u # p
    BY <1>1, <1>4
  <2> QED
    BY <1>1, <1>4, <2>1 DEF LocksOK, Conflict
<1>5. \A q \in Procs : Busy(q)' => Covered(q, Wanted(step[q]))'
  BY <1>1, <1>2 DEF LocksOK, Covered, Busy
<1> QED
  BY <1>3, <1>4, <1>5 DEF LocksOK

\* A lock is granted against those that have the table.
LEMMA LocksAfterGrant ==
  ASSUME TypeOK, LocksOK, NEW p \in Procs, Busy(p), LockTable(p)
  PROVE  LocksOK'
<1> DEFINE h == Head(todo[p])
<1>1. /\ todo[p] \in Seq(Tables) /\ todo[p] # <<>> /\ h \in Tables
      /\ \A q \in Procs : Conflict(p, q) => h \notin granted[q]
  BY DEF LockTable, TypeOK, TableBlockers
<1>2. /\ granted'[p] = granted[p] \cup {h} /\ todo'[p] = Tail(todo[p])
      /\ \A q \in Procs \ {p} : todo'[q] = todo[q] /\ granted'[q] = granted[q]
      /\ step' = step
  BY DEF LockTable, TypeOK
<1> HIDE DEF h
<1>3. \A q \in Procs : ~Busy(q)' => granted'[q] = {} /\ todo'[q] = <<>>
  BY <1>2 DEF LocksOK, Busy
<1>4. ASSUME NEW q \in Procs, NEW u \in Procs, NEW t \in Tables,
             t \in granted'[q], t \in granted'[u]
      PROVE  ~Conflict(q, u)'
  <2>1. Conflict(q, u)' <=> Conflict(q, u)
    BY <1>2 DEF Conflict
  <2>2. CASE t \in granted[q] /\ t \in granted[u]
    BY <2>1, <2>2 DEF LocksOK
  <2>3. CASE t \notin granted[q]
    <3>1. q = p /\ t = h
      BY <1>2, <1>4, <2>3
    <3> QED
      BY <1>1, <1>2, <1>4, <2>1, <3>1 DEF Conflict
  <2>4. CASE t \notin granted[u]
    <3>1. u = p /\ t = h
      BY <1>2, <1>4, <2>4
    <3> QED
      BY <1>1, <1>2, <1>4, <2>1, <3>1 DEF Conflict
  <2> QED
    BY <2>2, <2>3, <2>4
<1>5. ASSUME NEW q \in Procs, Busy(q)'
      PROVE  Covered(q, Wanted(step[q]))'
  <2>1. Covered(q, Wanted(step[q]))
    BY <1>2, <1>5 DEF LocksOK, Busy
  <2>2. CASE q # p
    BY <1>2, <2>1, <2>2 DEF Covered
  <2>3. CASE q = p
    <3>1. ASSUME NEW t \in Wanted(step[p]), t \notin granted'[p]
          PROVE  \E j \in 1 .. Len(todo'[p]) : todo'[p][j] = t
      <4>1. t \notin granted[p] /\ t # h
        BY <1>2, <3>1
      <4>2. PICK i \in 1 .. Len(todo[p]) : todo[p][i] = t
        BY <2>1, <2>3, <4>1 DEF Covered
      <4> QED
        BY <1>1, <1>2, <4>1, <4>2, HeadOrTail DEF h
    <3>2. Covered(p, Wanted(step[p]))'
      BY <1>2, <3>1 DEF Covered
    <3> QED
      BY <2>3, <3>2
  <2> QED
    BY <2>2, <2>3
<1> QED
  BY <1>3, <1>4, <1>5 DEF LocksOK

\* A seeding begins without a lock.
LEMMA LocksAfterStartSeeding ==
  ASSUME TypeOK, LocksOK, NEW s \in Seeders, StartSeeding(s)
  PROVE  LocksOK'
<1>1. PICK order \in DropOrders : todo' = [todo EXCEPT ![s] = order]
  BY DEF StartSeeding
<1>2. /\ s \in Procs /\ step[s] = "idle" /\ step'[s] = "reset" /\ todo'[s] = order
      /\ \A q \in Procs \ {s} : step'[q] = step[q] /\ todo'[q] = todo[q]
      /\ granted' = granted
  BY <1>1 DEF StartSeeding, TypeOK, Procs
<1>3. granted[s] = {} /\ Busy(s)'
  BY <1>2 DEF LocksOK, Busy, WorkerStatements, SeederStatements
<1>4. \A q \in Procs : ~Busy(q)' => granted'[q] = {} /\ todo'[q] = <<>>
  BY <1>2, <1>3 DEF LocksOK, Busy
<1>5. ASSUME NEW q \in Procs, NEW u \in Procs, NEW t \in Tables,
             t \in granted'[q], t \in granted'[u]
      PROVE  ~Conflict(q, u)'
  <2>1. q # s /\ u # s
    BY <1>2, <1>3, <1>5
  <2> QED
    BY <1>2, <1>5, <2>1 DEF LocksOK, Conflict
<1>6. ASSUME NEW q \in Procs, Busy(q)'
      PROVE  Covered(q, Wanted(step[q]))'
  <2>1. CASE q = s
    <3>1. Wanted("reset") = Tables
      BY DEF Wanted
    <3> QED
      BY <1>2, <2>1, <3>1, DropsCover DEF Covered
  <2>2. CASE q # s
    BY <1>2, <1>6, <2>2 DEF LocksOK, Covered, Busy
  <2> QED
    BY <2>1, <2>2
<1> QED
  BY <1>4, <1>5, <1>6 DEF LocksOK

\* Whoever resets has the database for himself.
LEMMA ResetIsAlone ==
  ASSUME TypeOK, LocksOK, NEW s \in Seeders, At(s, "reset")
  PROVE  \A p \in Procs \ {s} : granted[p] = {}
<1>1. s \in Procs /\ Busy(s) /\ step[s] = "reset" /\ todo[s] = <<>>
  BY DEF At, Busy, SeederStatements, Procs
<1>2. Covered(s, Tables)
  BY <1>1 DEF LocksOK, Wanted
<1>3. Tables \subseteq granted[s]
  BY <1>1, <1>2 DEF Covered
<1> QED
  BY <1>1, <1>3 DEF LocksOK, Conflict, TypeOK

\* The reset ends with its transaction and the load begins.
LEMMA LocksAfterReset ==
  ASSUME TypeOK, LocksOK, NEW s \in Seeders, Reset(s)
  PROVE  LocksOK'
<1>1. /\ s \in Procs /\ step'[s] = "load" /\ granted'[s] = {} /\ todo'[s] = Needs("load")
      /\ \A q \in Procs \ {s} : /\ step'[q] = step[q] /\ todo'[q] = todo[q]
                                /\ granted'[q] = granted[q]
  BY DEF Reset, Goto, TypeOK, Procs
<1>2. \A q \in Procs \ {s} : granted[q] = {}
  BY ResetIsAlone DEF Reset
<1>3. \A q \in Procs : granted'[q] = {}
  BY <1>1, <1>2
<1>4. ASSUME NEW q \in Procs, Busy(q)'
      PROVE  Covered(q, Wanted(step[q]))'
  <2>1. CASE q = s
    <3>1. "load" \in Sharing
      BY DEF Sharing
    <3> QED
      BY <1>1, <2>1, <3>1, NeedsCover DEF Covered
  <2>2. CASE q # s
    BY <1>1, <1>4, <2>2 DEF LocksOK, Covered, Busy
  <2> QED
    BY <2>1, <2>2
<1>5. \A q \in Procs : ~Busy(q)' => todo'[q] = <<>>
  BY <1>1 DEF LocksOK, Busy, SeederStatements
<1> QED
  BY <1>3, <1>4, <1>5 DEF LocksOK

-----------------------------------------------------------------------------
(* Types *)

\* TypeOK, in two halves: the database, and the processes.
TablesTyped ==
  /\ loaded \in BOOLEAN
  /\ reserved \in [Rows -> Nat]
  /\ reservations \in ReservationTables
  /\ next_id \in 1 .. MaxId + 1

Calls == [row : Rows \cup {NoReservation}, quantity : Quantities \cup {0}, id : Ids \cup {0}]

ProcessesTyped ==
  /\ step \in [Procs -> WorkerSteps \cup SeederSteps]
  /\ \A w \in Workers : step[w] \in WorkerSteps
  /\ \A s \in Seeders : step[s] \in SeederSteps
  /\ call \in [Workers -> Calls]
  /\ todo \in [Procs -> Seq(Tables)]
  /\ granted \in [Procs -> SUBSET Tables]

\* The two halves make the whole.
LEMMA TypesSplit == TypeOK <=> TablesTyped /\ ProcessesTyped
BY DEF TypeOK, TablesTyped, ProcessesTyped, Calls

\* No process is a worker and a seeder.
LEMMA Roles ==
  ASSUME NEW p \in Procs
  PROVE  /\ p \in Workers <=> p \notin Seeders
         /\ p \in Workers \/ p \in Seeders
BY SeedingAssumption DEF Procs

\* A call that goes on, with good arguments, keeps the types.
LEMMA GotoTyped ==
  ASSUME ProcessesTyped, NEW p \in Procs, NEW statement \in Sharing,
         p \in Workers => statement \in WorkerStatements,
         p \in Seeders => statement \in SeederStatements,
         Goto(p, statement), granted' \in [Procs -> SUBSET Tables],
         call' \in [Workers -> Calls]
  PROVE  ProcessesTyped'
<1>1. step' = [step EXCEPT ![p] = statement] /\ todo' = [todo EXCEPT ![p] = Needs(statement)]
  BY DEF Goto
<1>2. statement \in WorkerSteps \cup SeederSteps /\ Needs(statement) \in Seq(Tables)
  BY NeedsCover, Roles DEF WorkerSteps, SeederSteps
<1>3. \A w \in Workers : step'[w] \in WorkerSteps
  BY <1>1, Roles DEF ProcessesTyped, WorkerSteps, Procs
<1>4. \A s \in Seeders : step'[s] \in SeederSteps
  BY <1>1, Roles DEF ProcessesTyped, SeederSteps, Procs
<1> QED
  BY <1>1, <1>2, <1>3, <1>4 DEF ProcessesTyped

\* How a call of p may end: workers never with "no_stock".
Endings(p) == IF p \in Workers THEN {"idle"} ELSE {"seeded", "failed"}

\* A call that ends keeps the types, and touches nobody else.
LEMMA LeaveTyped ==
  ASSUME ProcessesTyped, NEW p \in Procs, NEW outcome \in Endings(p), Leave(p, outcome)
  PROVE  /\ ProcessesTyped'
         /\ step'[p] = outcome
         /\ \A q \in Procs \ {p} : step'[q] = step[q] /\ granted'[q] = granted[q]
         /\ \A w \in Workers \ {p} : call'[w] = call[w]
<1>1. /\ step' = [step EXCEPT ![p] = outcome] /\ todo' = [todo EXCEPT ![p] = <<>>]
      /\ granted' = [granted EXCEPT ![p] = {}]
      /\ call' = [w \in Workers |-> IF w = p THEN NoCall ELSE call[w]]
  BY DEF Leave
<1>2. outcome \in WorkerSteps \cup SeederSteps
  BY DEF Endings, WorkerSteps, SeederSteps
<1>3. NoCall \in Calls
  BY DEF NoCall, Calls
<1>4. call' \in [Workers -> Calls]
  BY <1>1, <1>3 DEF ProcessesTyped
<1>5. \A w \in Workers : step'[w] \in WorkerSteps
  BY <1>1, Roles DEF ProcessesTyped, WorkerSteps, Procs, Endings
<1>6. \A s \in Seeders : step'[s] \in SeederSteps
  BY <1>1, Roles DEF ProcessesTyped, SeederSteps, Procs, Endings
<1>7. /\ step' \in [Procs -> WorkerSteps \cup SeederSteps]
      /\ todo' \in [Procs -> Seq(Tables)] /\ granted' \in [Procs -> SUBSET Tables]
  BY <1>1, <1>2 DEF ProcessesTyped
<1>8. ProcessesTyped'
  BY <1>4, <1>5, <1>6, <1>7 DEF ProcessesTyped
<1> QED
  BY <1>1, <1>8 DEF ProcessesTyped

-----------------------------------------------------------------------------
(* Steps that only read *)

\* If p changes no row and what it claims is true and claimed by nobody else,
\* the invariant is kept.
LEMMA ReadOnlyStep ==
  ASSUME IInv, NEW p \in Procs, ProcessesTyped', LocksOK', UNCHANGED tables,
         \A q \in Procs \ {p} : step'[q] = step[q] /\ granted'[q] = granted[q],
         \A w \in Workers \ {p} : call'[w] = call[w],
         p \in Workers => WorkerOK(p)',
         p \in Seeders => SeederOK(p)',
         step'[p] = "insert" =>
           \A w \in Workers \ {p} : step[w] = "insert" => call[w].row # call'[p].row,
         step'[p] = "give_back" =>
           \A w \in Workers \ {p} : step[w] = "give_back" => call[w].id # call'[p].id,
         step'[p] = "load_rest" => \A s \in Seeders \ {p} : step[s] # "load_rest"
  PROVE  IInv'
<1>1. TypeOK'
  BY TypesSplit DEF IInv, TablesTyped, tables, TypeOK, ProcessesTyped, Calls
<1>2. /\ loaded' = loaded /\ reserved' = reserved
      /\ reservations' = reservations /\ next_id' = next_id
  BY DEF tables
<1>3. ASSUME NEW w \in Workers
      PROVE  WorkerOK(w)'
  <2>1. CASE w = p
    BY <2>1
  <2>2. CASE w # p
    <3>1. w \in Procs /\ WorkerOK(w)
      BY DEF Procs, IInv
    <3> QED
      BY <1>2, <2>2, <3>1 DEF WorkerOK
  <2> QED
    BY <2>1, <2>2
<1>4. ASSUME NEW s \in Seeders
      PROVE  SeederOK(s)'
  <2>1. CASE s = p
    BY <2>1
  <2>2. CASE s # p
    <3>1. s \in Procs /\ SeederOK(s)
      BY DEF Procs, IInv
    <3> QED
      BY <1>2, <2>2, <3>1 DEF SeederOK
  <2> QED
    BY <2>1, <2>2
<1>5. RowsOK'
  <2>1. ASSUME NEW v \in Workers, NEW w \in Workers, step'[v] = "insert",
               step'[w] = "insert", call'[v].row = call'[w].row
        PROVE  v = w
    BY <2>1 DEF IInv, RowsOK, Procs
  <2>2. ASSUME NEW v \in Workers, NEW w \in Workers, step'[v] = "give_back",
               step'[w] = "give_back", call'[v].id = call'[w].id
        PROVE  v = w
    BY <2>2 DEF IInv, RowsOK, Procs
  <2>3. ASSUME NEW s \in Seeders, NEW u \in Seeders, step'[s] = "load_rest",
               step'[u] = "load_rest"
        PROVE  s = u
    BY <2>3 DEF IInv, RowsOK, Procs
  <2> QED
    BY <2>1, <2>2, <2>3 DEF RowsOK
<1>6. IdsFresh' /\ BooksBalance'
  BY <1>2 DEF IInv, IdsFresh, BooksBalance
<1> QED
  BY <1>1, <1>3, <1>4, <1>5, <1>6 DEF IInv

\* A call that ends and wrote nothing: a refusal, or a failure with its rollback.
LEMMA LeaveStep ==
  ASSUME IInv, NEW p \in Procs, Busy(p), NEW outcome \in Endings(p),
         Leave(p, outcome), UNCHANGED tables
  PROVE  IInv'
<1>1. TypeOK /\ LocksOK /\ ProcessesTyped
  BY TypesSplit DEF IInv
<1>2. outcome \in {"idle", "no_stock", "seeded", "failed"}
  BY DEF Endings
<1>3. LocksOK'
  BY <1>1, <1>2, LocksAfterLeave
<1>4. /\ ProcessesTyped' /\ step'[p] = outcome
      /\ \A q \in Procs \ {p} : step'[q] = step[q] /\ granted'[q] = granted[q]
      /\ \A w \in Workers \ {p} : call'[w] = call[w]
  BY <1>1, LeaveTyped
<1>5. step'[p] \in {"idle", "seeded", "failed"}
  BY <1>4 DEF Endings
<1>6. WorkerOK(p)' /\ SeederOK(p)'
  BY <1>5 DEF WorkerOK, SeederOK
<1> QED
  BY <1>3, <1>4, <1>5, <1>6, ReadOnlyStep

\* A call that goes on, locks in hand, and wrote nothing that is committed.
LEMMA GotoStep ==
  ASSUME IInv, NEW p \in Procs, step[p] # "reset", NEW statement \in Sharing,
         p \in Workers => statement \in WorkerStatements,
         p \in Seeders => statement \in SeederStatements,
         Goto(p, statement), UNCHANGED <<tables, granted>>,
         call' \in [Workers -> Calls], \A w \in Workers \ {p} : call'[w] = call[w],
         p \in Workers => WorkerOK(p)',
         p \in Seeders => SeederOK(p)',
         statement = "insert" =>
           \A w \in Workers \ {p} : step[w] = "insert" => call[w].row # call'[p].row,
         statement = "give_back" =>
           \A w \in Workers \ {p} : step[w] = "give_back" => call[w].id # call'[p].id,
         statement = "load_rest" => \A s \in Seeders \ {p} : step[s] # "load_rest"
  PROVE  IInv'
<1>1. TypeOK /\ LocksOK /\ ProcessesTyped
  BY TypesSplit DEF IInv
<1>2. granted' = granted /\ granted' \in [Procs -> SUBSET Tables] /\ UNCHANGED tables
  BY <1>1 DEF ProcessesTyped
<1>3. LocksOK'
  BY <1>1, <1>2, LocksAfterGoto
<1>4. ProcessesTyped'
  BY <1>1, <1>2, GotoTyped
<1>5. step'[p] = statement /\ \A q \in Procs \ {p} : step'[q] = step[q]
  BY <1>1 DEF Goto, ProcessesTyped
<1> QED
  BY <1>2, <1>3, <1>4, <1>5, ReadOnlyStep

-----------------------------------------------------------------------------
(* One lemma for each action *)

\* A statement runs when the tables it wants are locked.
LEMMA AtHasTables ==
  ASSUME IInv, NEW p \in Procs, NEW statement \in Sharing, At(p, statement)
  PROVE  Wanted(statement) \subseteq granted[p] /\ Busy(p) /\ step[p] # "reset"
<1>1. Busy(p) /\ step[p] = statement /\ todo[p] = <<>> /\ statement # "reset"
  BY DEF At, Busy, Sharing, WorkerStatements, SeederStatements
<1>2. Covered(p, Wanted(statement))
  BY <1>1 DEF IInv, LocksOK
<1> QED
  BY <1>1, <1>2 DEF Covered

\* With nothing reserved the books balance, whether or not the stock is there.
LEMMA EmptyBalances ==
  ASSUME reserved' = [r \in Rows |-> 0],
         reservations' = [i \in Ids |-> NoReservation]
  PROVE  BooksBalance'
<1>1. \A r \in Rows : Held(reservations', r) = 0
  BY HeldEmpty
<1>2. \A r \in Rows : OnHand[r] \in Nat
  BY SeedingAssumption
<1> QED
  BY <1>1, <1>2 DEF BooksBalance

\* The initial states, seeded or not, satisfy the invariant.
LEMMA InitInv ==
  ASSUME Init
  PROVE  IInv
<1>1. ProcessesTyped
  <2>1. NoCall \in Calls
    BY DEF NoCall, Calls
  <2>2. \A p \in Procs : <<>> \in Seq(Tables) /\ {} \in SUBSET Tables
    OBVIOUS
  <2> QED
    BY <2>1, <2>2 DEF Init, ProcessesTyped, WorkerSteps, SeederSteps, Procs
<1>2. TablesTyped
  BY TableAssumption DEF Init, TablesTyped, ReservationTables
<1>3. \A p \in Procs : /\ step[p] = "idle" /\ granted[p] = {} /\ todo[p] = <<>>
                        /\ ~Busy(p)
  BY DEF Init, Busy, WorkerStatements, SeederStatements
<1>4. LocksOK
  BY <1>3 DEF LocksOK
<1>5. (\A w \in Workers : WorkerOK(w)) /\ (\A s \in Seeders : SeederOK(s)) /\ RowsOK
  BY <1>3 DEF WorkerOK, SeederOK, RowsOK, Procs
<1>6. IdsFresh
  BY DEF Init, IdsFresh
<1>7. BooksBalance
  <2>1. \A r \in Rows : Held(reservations, r) = 0
    BY HeldEmpty DEF Init
  <2> QED
    BY <2>1, SeedingAssumption DEF Init, BooksBalance
<1> QED
  BY <1>1, <1>2, <1>4, <1>5, <1>6, <1>7, TypesSplit DEF IInv

\* A reserve() begins.
LEMMA StartReserveInv ==
  ASSUME IInv, NEW w \in Workers, NEW r \in Rows, NEW q \in Quantities,
         StartReserve(w, r, q)
  PROVE  IInv'
<1>1. w \in Procs /\ w \notin Seeders /\ step[w] # "reset"
  BY Roles DEF Procs, StartReserve, Busy, SeederStatements
<1>2. /\ call \in [Workers -> Calls] /\ step \in [Procs -> WorkerSteps \cup SeederSteps]
      /\ Goto(w, "find_product") /\ UNCHANGED <<tables, granted>>
      /\ call' = [call EXCEPT ![w] = [row |-> r, quantity |-> q, id |-> 0]]
  BY TypesSplit DEF IInv, ProcessesTyped, StartReserve
<1>3. call' \in [Workers -> Calls] /\ \A v \in Workers \ {w} : call'[v] = call[v]
  BY <1>2 DEF Calls
<1>4. step'[w] = "find_product" /\ call'[w].row = r /\ call'[w].quantity = q
  BY <1>1, <1>2 DEF Goto
<1>5. WorkerOK(w)'
  BY <1>4 DEF WorkerOK
<1>6. "find_product" \in Sharing /\ "find_product" \in WorkerStatements
  BY DEF Sharing, WorkerStatements
<1> QED
  BY <1>1, <1>2, <1>3, <1>5, <1>6, GotoStep

\* A release() begins.
LEMMA StartReleaseInv ==
  ASSUME IInv, NEW w \in Workers, NEW i \in Ids, StartRelease(w, i)
  PROVE  IInv'
<1>1. w \in Procs /\ w \notin Seeders /\ step[w] # "reset"
  BY Roles DEF Procs, StartRelease, Busy, SeederStatements
<1>2. /\ call \in [Workers -> Calls] /\ step \in [Procs -> WorkerSteps \cup SeederSteps]
      /\ Goto(w, "find_reservation") /\ UNCHANGED <<tables, granted>>
      /\ call' = [call EXCEPT ![w] = [row |-> NoReservation, quantity |-> 0, id |-> i]]
  <2>1. [NoCall EXCEPT !.id = i] = [row |-> NoReservation, quantity |-> 0, id |-> i]
    BY DEF NoCall
  <2> QED
    BY <2>1, TypesSplit DEF IInv, ProcessesTyped, StartRelease
<1>3. call' \in [Workers -> Calls] /\ \A v \in Workers \ {w} : call'[v] = call[v]
  BY <1>2 DEF Calls
<1>4. step'[w] = "find_reservation" /\ call'[w].id = i
  BY <1>1, <1>2 DEF Goto
<1>5. WorkerOK(w)'
  BY <1>4 DEF WorkerOK
<1>6. "find_reservation" \in Sharing /\ "find_reservation" \in WorkerStatements
  BY DEF Sharing, WorkerStatements
<1> QED
  BY <1>1, <1>2, <1>3, <1>5, <1>6, GotoStep

\* The product is found: its table stays locked, and loaded.
LEMMA FindProductInv ==
  ASSUME IInv, NEW w \in Workers, FindProduct(w)
  PROVE  IInv'
<1>1. w \in Procs /\ w \notin Seeders /\ At(w, "find_product") /\ UNCHANGED tables
  BY Roles DEF Procs, FindProduct
<1>2. "find_product" \in Sharing /\ "lock_stock" \in Sharing /\ "lock_stock" \in WorkerStatements
  BY DEF Sharing, WorkerStatements
<1>3. "products" \in granted[w] /\ Busy(w) /\ step[w] # "reset"
  BY <1>1, <1>2, AtHasTables DEF Wanted
<1>4. CASE loaded
  <2>1. /\ Goto(w, "lock_stock") /\ UNCHANGED <<tables, granted>> /\ call' = call
        /\ call \in [Workers -> Calls] /\ step \in [Procs -> WorkerSteps \cup SeederSteps]
    BY <1>1, <1>4, TypesSplit DEF IInv, ProcessesTyped, FindProduct
  <2>2. step'[w] = "lock_stock" /\ step[w] = "find_product"
    BY <1>1, <2>1 DEF Goto, At
  <2>3. WorkerOK(w)'
    <3>1. WorkerOK(w) /\ loaded' /\ granted' = granted /\ call' = call
      BY <1>4, <2>1 DEF IInv, tables
    <3> QED
      BY <1>3, <2>2, <3>1 DEF WorkerOK
  <2> QED
    BY <1>1, <1>2, <1>3, <2>1, <2>3, GotoStep
<1>5. CASE ~loaded
  BY <1>1, <1>3, <1>5, LeaveStep DEF FindProduct, Endings
<1> QED
  BY <1>4, <1>5

\* The stock row is found, and locked unless it has not enough.
LEMMA LockStockInv ==
  ASSUME IInv, NEW w \in Workers, LockStock(w)
  PROVE  IInv'
<1>1. w \in Procs /\ w \notin Seeders /\ At(w, "lock_stock") /\ UNCHANGED tables
  BY Roles DEF Procs, LockStock
<1>2. "lock_stock" \in Sharing /\ "insert" \in Sharing /\ "insert" \in WorkerStatements
  BY DEF Sharing, WorkerStatements
<1>3. Busy(w) /\ step[w] # "reset"
  BY <1>1, <1>2, AtHasTables
<1>4. /\ step[w] = "lock_stock" /\ loaded /\ "products" \in granted[w]
      /\ call[w].row \in Rows /\ call[w].quantity \in Quantities
  BY <1>1 DEF IInv, WorkerOK, At
<1>5. CASE call[w].quantity > OnHand[call[w].row] - reserved[call[w].row]
  BY <1>1, <1>3, <1>4, <1>5, LeaveStep DEF LockStock, Endings
<1>6. CASE ~(call[w].quantity > OnHand[call[w].row] - reserved[call[w].row])
  <2>1. /\ Goto(w, "insert") /\ UNCHANGED <<tables, granted>> /\ call' = call
        /\ call \in [Workers -> Calls] /\ step \in [Procs -> WorkerSteps \cup SeederSteps]
    BY <1>1, <1>4, <1>6, TypesSplit DEF IInv, ProcessesTyped, LockStock
  <2>2. step'[w] = "insert"
    BY <1>1, <2>1 DEF Goto
  <2>3. loaded' = loaded /\ reserved' = reserved /\ granted' = granted /\ call' = call
    BY <2>1 DEF tables
  <2>4. reserved[call[w].row] + call[w].quantity <= OnHand[call[w].row]
    <3>1. reserved[call[w].row] \in Nat /\ OnHand[call[w].row] \in Nat
      BY <1>4, SeedingAssumption DEF IInv, TypeOK
    <3>2. call[w].quantity \in Nat
      BY <1>4, TableAssumption DEF Quantities
    <3> QED
      BY <1>6, <3>1, <3>2
  <2>5. WorkerOK(w)'
    BY <1>4, <2>2, <2>3, <2>4 DEF WorkerOK
  <2>6. \A v \in Workers \ {w} : step[v] = "insert" => call[v].row # call'[w].row
    BY <1>1, <1>4, <2>3 DEF At, RowBlockers
  <2> QED
    BY <1>1, <1>2, <1>3, <2>1, <2>5, <2>6, GotoStep
<1> QED
  BY <1>5, <1>6

\* An active reservation is found, and its row locked.
LEMMA FindReservationInv ==
  ASSUME IInv, NEW w \in Workers, FindReservation(w)
  PROVE  IInv'
<1>1. /\ w \in Procs /\ w \notin Seeders /\ At(w, "find_reservation")
      /\ UNCHANGED tables /\ step[w] = "find_reservation"
  BY Roles DEF Procs, FindReservation, At
<1>2. /\ "find_reservation" \in Sharing /\ "give_back" \in Sharing
      /\ "give_back" \in WorkerStatements
  BY DEF Sharing, WorkerStatements
<1>3. "reservations" \in granted[w] /\ Busy(w) /\ step[w] # "reset"
  BY <1>1, <1>2, AtHasTables DEF Wanted
<1> DEFINE i == call[w].id
           found == reservations[i]
<1>4. i \in Ids /\ TypeOK
  BY <1>1 DEF IInv, WorkerOK
<1>5. CASE IsActive(reservations, i)
  <2>1. found \in Reservation
    BY <1>4, <1>5 DEF TypeOK, ReservationTables, IsActive
  <2>2. /\ Goto(w, "give_back") /\ UNCHANGED <<tables, granted>>
        /\ call' = [call EXCEPT ![w].row = found.row, ![w].quantity = found.quantity]
        /\ call \in [Workers -> Calls] /\ step \in [Procs -> WorkerSteps \cup SeederSteps]
    BY <1>1, <1>4, <1>5, TypesSplit DEF ProcessesTyped, FindReservation
  <2>3. /\ call'[w].row = found.row /\ call'[w].quantity = found.quantity /\ call'[w].id = i
        /\ \A v \in Workers \ {w} : call'[v] = call[v]
    BY <2>2 DEF Calls
  <2>4. call' \in [Workers -> Calls]
    <3>1. \A c \in Calls, r \in Rows, q \in Quantities :
            [[c EXCEPT !.row = r] EXCEPT !.quantity = q] \in Calls
      BY DEF Calls
    <3>2. found.row \in Rows /\ found.quantity \in Quantities
      BY <2>1 DEF Reservation
    <3> HIDE DEF found
    <3>3. call'[w] \in Calls
      BY <2>2, <2>3, <3>1, <3>2
    <3>4. call' = [v \in Workers |-> call'[v]]
      BY <2>2
    <3> QED
      BY <2>2, <2>3, <3>3, <3>4
  <2>5. step'[w] = "give_back" /\ granted' = granted /\ reservations' = reservations
    BY <1>1, <2>2 DEF Goto, tables
  <2>6. WorkerOK(w)'
    <3>1. /\ call'[w].id \in Ids /\ "reservations" \in granted'[w]
          /\ IsActive(reservations', call'[w].id)
          /\ call'[w].row = reservations'[call'[w].id].row
          /\ call'[w].quantity = reservations'[call'[w].id].quantity
      BY <1>3, <1>4, <1>5, <2>3, <2>5
    <3> QED
      BY <2>5, <3>1 DEF WorkerOK
  <2>7. \A v \in Workers \ {w} : step[v] = "give_back" => call[v].id # call'[w].id
    BY <1>1, <2>3 DEF At, RowBlockers
  <2> HIDE DEF i, found
  <2> QED
    BY <1>1, <1>2, <1>3, <2>2, <2>3, <2>4, <2>6, <2>7, GotoStep
<1>6. CASE ~IsActive(reservations, i)
  BY <1>1, <1>3, <1>6, LeaveStep DEF FindReservation, Endings
<1> QED
  BY <1>5, <1>6

\* A table is locked, which changes what no transaction relies on.
LEMMA LockTableInv ==
  ASSUME IInv, NEW p \in Procs, LockTable(p)
  PROVE  IInv'
<1>1. TypeOK /\ LocksOK /\ ProcessesTyped
  BY TypesSplit DEF IInv
<1>2. Busy(p)
  BY <1>1 DEF LockTable, LocksOK
<1>3. LocksOK'
  BY <1>1, <1>2, LocksAfterGrant
<1> DEFINE h == Head(todo[p])
<1>4. /\ todo[p] \in Seq(Tables) /\ todo[p] # <<>> /\ h \in Tables
      /\ granted' = [granted EXCEPT ![p] = @ \cup {h}] /\ todo' = [todo EXCEPT ![p] = Tail(@)]
      /\ UNCHANGED <<step, call>> /\ UNCHANGED tables
  BY <1>1 DEF LockTable, ProcessesTyped
<1>5. Tail(todo[p]) \in Seq(Tables)
  BY <1>4
<1> HIDE DEF h
<1>6. ProcessesTyped'
  BY <1>1, <1>4, <1>5 DEF ProcessesTyped
<1>7. /\ step' = step /\ call' = call
      /\ \A q \in Procs \ {p} : granted'[q] = granted[q]
      /\ granted[p] \subseteq granted'[p]
  BY <1>1, <1>4 DEF ProcessesTyped
<1>8. /\ loaded' = loaded /\ reserved' = reserved /\ reservations' = reservations
  BY <1>4 DEF tables
<1>9. p \in Workers => WorkerOK(p)'
  BY <1>7, <1>8 DEF IInv, WorkerOK
<1>10. p \in Seeders => SeederOK(p)'
  BY <1>7, <1>8 DEF IInv, SeederOK
<1>11. step'[p] = "insert" =>
         \A w \in Workers \ {p} : step[w] = "insert" => call[w].row # call'[p].row
  BY <1>1, <1>7, Roles DEF IInv, RowsOK, ProcessesTyped, SeederSteps, SeederStatements
<1>12. step'[p] = "give_back" =>
         \A w \in Workers \ {p} : step[w] = "give_back" => call[w].id # call'[p].id
  BY <1>1, <1>7, Roles DEF IInv, RowsOK, ProcessesTyped, SeederSteps, SeederStatements
<1>13. step'[p] = "load_rest" => \A s \in Seeders \ {p} : step[s] # "load_rest"
  BY <1>1, <1>7, Roles DEF IInv, RowsOK, ProcessesTyped, WorkerSteps, WorkerStatements
<1> QED
  BY <1>3, <1>4, <1>6, <1>7, <1>9, <1>10, <1>11, <1>12, <1>13, ReadOnlyStep

\* A seeding begins.
LEMMA StartSeedingInv ==
  ASSUME IInv, NEW s \in Seeders, StartSeeding(s)
  PROVE  IInv'
<1>1. TypeOK /\ LocksOK /\ ProcessesTyped
  BY TypesSplit DEF IInv
<1>2. LocksOK'
  BY <1>1, LocksAfterStartSeeding
<1>3. PICK order \in DropOrders : todo' = [todo EXCEPT ![s] = order]
  BY DEF StartSeeding
<1>4. /\ s \in Procs /\ s \notin Workers /\ order \in Seq(Tables)
      /\ step' = [step EXCEPT ![s] = "reset"]
      /\ call' = call /\ granted' = granted /\ UNCHANGED tables
  BY Roles, DropsCover DEF Procs, StartSeeding
<1>5. step'[s] = "reset" /\ \A q \in Procs \ {s} : step'[q] = step[q]
  BY <1>1, <1>4 DEF ProcessesTyped
<1>6. ProcessesTyped'
  <2>1. step' \in [Procs -> WorkerSteps \cup SeederSteps]
    BY <1>1, <1>4 DEF ProcessesTyped, SeederSteps, SeederStatements
  <2>2. \A w \in Workers : step'[w] \in WorkerSteps
    BY <1>1, <1>4, <1>5 DEF ProcessesTyped, Procs
  <2>3. \A u \in Seeders : step'[u] \in SeederSteps
    BY <1>1, <1>4, <1>5 DEF ProcessesTyped, Procs, SeederSteps, SeederStatements
  <2>4. todo' \in [Procs -> Seq(Tables)]
    BY <1>1, <1>3, <1>4 DEF ProcessesTyped
  <2> QED
    BY <1>1, <1>4, <2>1, <2>2, <2>3, <2>4 DEF ProcessesTyped
<1>7. SeederOK(s)'
  BY <1>5 DEF SeederOK
<1> QED
  BY <1>2, <1>4, <1>5, <1>6, <1>7, ReadOnlyStep

\* The warehouses are loaded first, by one seeding at a time.
LEMMA LoadInv ==
  ASSUME IInv, NEW s \in Seeders, Load(s)
  PROVE  IInv'
<1>1. s \in Procs /\ s \notin Workers /\ At(s, "load") /\ UNCHANGED tables
  BY Roles DEF Procs, Load
<1>2. "load" \in Sharing /\ "load_rest" \in Sharing /\ "load_rest" \in SeederStatements
  BY DEF Sharing, SeederStatements
<1>3. "warehouses" \in granted[s] /\ Busy(s) /\ step[s] # "reset"
  BY <1>1, <1>2, AtHasTables DEF Wanted
<1>4. CASE loaded
  BY <1>1, <1>3, <1>4, LeaveStep DEF Load, Endings
<1>5. CASE ~loaded
  <2>1. /\ Goto(s, "load_rest") /\ UNCHANGED <<tables, granted>> /\ call' = call
        /\ call \in [Workers -> Calls] /\ step \in [Procs -> WorkerSteps \cup SeederSteps]
    BY <1>1, <1>5, TypesSplit DEF IInv, ProcessesTyped, Load
  <2>2. granted' = granted /\ loaded' = loaded
    BY <2>1 DEF tables
  <2>3. SeederOK(s)'
    BY <1>3, <1>5, <2>2 DEF SeederOK
  <2>4. \A u \in Seeders \ {s} : step[u] # "load_rest"
    BY <1>1 DEF At, RowBlockers
  <2> QED
    BY <1>1, <1>2, <1>3, <2>1, <2>3, <2>4, GotoStep
<1> QED
  BY <1>4, <1>5

\* A crash, a lost connection or an abort: the transaction leaves no trace.
LEMMA FailInv ==
  ASSUME IInv, NEW p \in Procs, Fail(p)
  PROVE  IInv'
BY LeaveStep DEF Fail, Endings

\* A transaction that writes and ends keeps what it leaves true of the others.
LEMMA WritingStep ==
  ASSUME IInv, NEW p \in Procs, Busy(p), NEW outcome \in Endings(p),
         Leave(p, outcome), TablesTyped', IdsFresh', BooksBalance',
         \A w \in Workers \ {p} : WorkerOK(w)',
         \A s \in Seeders \ {p} : SeederOK(s)'
  PROVE  IInv'
<1>1. TypeOK /\ LocksOK /\ ProcessesTyped
  BY TypesSplit DEF IInv
<1>2. outcome \in {"idle", "no_stock", "seeded", "failed"}
  BY DEF Endings
<1>3. LocksOK'
  BY <1>1, <1>2, LocksAfterLeave
<1>4. /\ ProcessesTyped' /\ step'[p] \in {"idle", "seeded", "failed"}
      /\ \A q \in Procs \ {p} : step'[q] = step[q] /\ granted'[q] = granted[q]
      /\ \A w \in Workers \ {p} : call'[w] = call[w]
  BY <1>1, LeaveTyped DEF Endings
<1>5. WorkerOK(p)' /\ SeederOK(p)'
  BY <1>4 DEF WorkerOK, SeederOK
<1>6. RowsOK'
  BY <1>4 DEF IInv, RowsOK, Procs
<1>7. TypeOK'
  BY <1>4 DEF TypeOK, TablesTyped, ProcessesTyped, Calls
<1>8. (\A w \in Workers : WorkerOK(w)') /\ (\A s \in Seeders : SeederOK(s)')
  BY <1>5
<1> QED
  BY <1>3, <1>6, <1>7, <1>8 DEF IInv

\* The stock is promised and the reservation recorded, in one transaction.
LEMMA InsertReservationInv ==
  ASSUME IInv, NEW w \in Workers, InsertReservation(w)
  PROVE  IInv'
<1> DEFINE r == call[w].row
           q == call[w].quantity
<1>1. /\ w \in Procs /\ w \notin Seeders /\ At(w, "insert") /\ step[w] = "insert"
      /\ Busy(w) /\ Leave(w, "idle") /\ "idle" \in Endings(w)
  BY Roles DEF Procs, InsertReservation, At, Busy, WorkerStatements, Endings
<1>2. /\ r \in Rows /\ q \in Quantities /\ loaded /\ TypeOK /\ TablesTyped
      /\ reserved[r] + q <= OnHand[r] /\ q \in Nat
  BY <1>1, TypesSplit, TableAssumption DEF IInv, WorkerOK, Quantities
<1>3. CASE next_id \notin Ids
  BY <1>1, <1>3, LeaveStep DEF InsertReservation
<1>4. CASE next_id \in Ids
  <2>1. /\ reserved' = [reserved EXCEPT ![r] = @ + q]
        /\ reservations' = [reservations EXCEPT ![next_id] = NewReservation(r, q)]
        /\ next_id' = next_id + 1 /\ loaded' = loaded
    BY <1>4 DEF InsertReservation
  <2>2. reservations[next_id] = NoReservation /\ next_id \in 1 .. MaxId /\ MaxId \in Nat
    BY <1>2, <1>4, TableAssumption DEF IInv, IdsFresh, TypeOK, Ids
  <2>3. NewReservation(r, q) \in Reservation
    BY <1>2 DEF NewReservation, Reservation
  <2>4. /\ \A w2 \in Workers \ {w} : step'[w2] = step[w2] /\ call'[w2] = call[w2]
                                    /\ granted'[w2] = granted[w2]
        /\ \A s \in Seeders : step'[s] = step[s] /\ granted'[s] = granted[s]
    BY <1>1, LeaveTyped, TypesSplit DEF IInv, Procs
  <2> HIDE DEF r, q
  <2>5. TablesTyped'
    BY <1>2, <2>1, <2>2, <2>3 DEF TablesTyped, ReservationTables, Ids
  <2>6. IdsFresh'
    BY <1>2, <2>1, <2>2 DEF IInv, IdsFresh, TablesTyped, ReservationTables, Ids
  <2>7. BooksBalance'
    <3>1. ASSUME NEW s \in Rows
          PROVE  reserved'[s] = Held(reservations', s) /\ reserved'[s] <= OnHand[s]
      <4>1. /\ reserved[s] = Held(reservations, s) /\ reserved[s] <= OnHand[s]
            /\ reserved[s] \in Nat /\ OnHand[s] \in Nat
        BY <1>2, SeedingAssumption DEF IInv, BooksBalance, TypeOK
      <4>2. Held(reservations', s) = Held(reservations, s) + (IF s = r THEN q ELSE 0)
        <5>1. /\ reservations \in ReservationTables /\ next_id \in Ids
              /\ reservations[next_id] = NoReservation /\ r \in Rows /\ q \in Quantities
          BY <1>2, <1>4, <2>2 DEF TypeOK
        <5>2. Held([reservations EXCEPT ![next_id] = NewReservation(r, q)], s)
                = Held(reservations, s) + (IF s = r THEN q ELSE 0)
          BY <5>1, HeldAfterInsert
        <5> QED
          BY <2>1, <5>2
      <4>3. reserved'[s] = reserved[s] + (IF s = r THEN q ELSE 0)
        BY <1>2, <2>1, <4>1 DEF TypeOK
      <4> QED
        BY <1>2, <4>1, <4>2, <4>3
    <3> QED
      BY <1>2, <2>1, <3>1 DEF BooksBalance
  <2>8. ASSUME NEW v \in Workers \ {w}
        PROVE  WorkerOK(v)'
    <3>1. WorkerOK(v) /\ v \in Workers
      BY DEF IInv
    <3>2. step[v] = "insert" => /\ call[v].row \in Rows
                                /\ reserved'[call[v].row] = reserved[call[v].row]
      <4>1. step[v] = "insert" => call[v].row \in Rows /\ call[v].row # r
        BY <1>1, <3>1 DEF IInv, RowsOK, WorkerOK, r
      <4> QED
        BY <1>2, <2>1, <4>1 DEF TypeOK
    <3>3. step[v] = "give_back" =>
            reservations'[call[v].id] = reservations[call[v].id]
      <4>1. step[v] = "give_back" => call[v].id \in Ids /\ call[v].id # next_id
        BY <2>2, <3>1 DEF WorkerOK, IsActive
      <4> QED
        BY <1>2, <2>1, <4>1 DEF TypeOK, ReservationTables
    <3> QED
      BY <2>1, <2>4, <3>1, <3>2, <3>3 DEF WorkerOK, IsActive
  <2>9. ASSUME NEW s \in Seeders \ {w}
        PROVE  SeederOK(s)'
    BY <2>1, <2>4 DEF IInv, SeederOK
  <2> QED
    BY <1>1, <2>5, <2>6, <2>7, <2>8, <2>9, WritingStep
<1> QED
  BY <1>3, <1>4

\* The stock is given back and the reservation marked, in one transaction.
LEMMA GiveBackInv ==
  ASSUME IInv, NEW w \in Workers, GiveBack(w)
  PROVE  IInv'
<1> DEFINE i == call[w].id
           r == reservations[i].row
           q == reservations[i].quantity
<1>1. /\ w \in Procs /\ w \notin Seeders /\ step[w] = "give_back"
      /\ Busy(w) /\ Leave(w, "idle") /\ "idle" \in Endings(w)
  BY Roles DEF Procs, GiveBack, At, Busy, WorkerStatements, Endings
<1>2. /\ i \in Ids /\ IsActive(reservations, i) /\ call[w].row = r
      /\ call[w].quantity = q /\ TypeOK /\ TablesTyped
  BY <1>1, TypesSplit DEF IInv, WorkerOK
<1>3. /\ reservations[i] \in Reservation /\ r \in Rows /\ q \in Quantities /\ q \in Nat
  BY <1>2, TableAssumption
     DEF TypeOK, ReservationTables, IsActive, Reservation, Quantities
<1>4. /\ reserved' = [reserved EXCEPT ![r] = @ - q]
      /\ reservations' = [reservations EXCEPT ![i].status = "released"]
      /\ next_id' = next_id /\ loaded' = loaded
  BY <1>2 DEF GiveBack
<1>5. loaded
  BY <1>2 DEF IInv, BooksBalance, IsActive
<1>6. /\ \A v \in Workers \ {w} : step'[v] = step[v] /\ call'[v] = call[v]
                                  /\ granted'[v] = granted[v]
      /\ \A s \in Seeders : step'[s] = step[s] /\ granted'[s] = granted[s]
  BY <1>1, LeaveTyped, TypesSplit DEF IInv, Procs
<1>7. [reservations[i] EXCEPT !.status = "released"] \in Reservation
  BY <1>3 DEF Reservation
<1> HIDE DEF i, r, q
<1>8. \A s \in Rows :
        /\ Held(reservations, s) = Held(reservations', s) + (IF s = r THEN q ELSE 0)
        /\ Held(reservations', s) \in Nat
  <2>1. reservations \in ReservationTables
    BY <1>2 DEF TypeOK
  <2>2. ASSUME NEW s \in Rows
        PROVE  Held(reservations, s) =
                 Held([reservations EXCEPT ![i].status = "released"], s)
                   + (IF s = r THEN q ELSE 0)
    BY <1>2, <2>1, HeldAfterRelease DEF r, q
  <2> QED
    BY <1>4, <2>2, UnitsFinite
<1>9. \A s \in Rows :
        /\ reserved[s] \in Nat /\ OnHand[s] \in Nat
        /\ reserved[s] = Held(reservations, s) /\ reserved[s] <= OnHand[s]
        /\ reserved'[s] = reserved[s] - (IF s = r THEN q ELSE 0)
  <2>1. \A s \in Rows : reserved[s] \in Nat /\ OnHand[s] \in Nat
    BY <1>2, SeedingAssumption DEF TypeOK
  <2>2. \A s \in Rows : reserved[s] = Held(reservations, s) /\ reserved[s] <= OnHand[s]
    BY <1>5 DEF IInv, BooksBalance
  <2>3. ASSUME NEW s \in Rows
        PROVE  reserved'[s] = reserved[s] - (IF s = r THEN q ELSE 0)
    <3>1. reserved'[s] = IF s = r THEN reserved[s] - q ELSE reserved[s]
      BY <1>2, <1>4 DEF TypeOK
    <3> QED
      BY <1>3, <2>1, <3>1
  <2> QED
    BY <2>1, <2>2, <2>3
<1>10. \A s \in Rows :
         /\ reserved'[s] = Held(reservations', s) /\ reserved'[s] <= reserved[s]
         /\ reserved'[s] <= OnHand[s] /\ reserved'[s] \in Nat
  BY <1>3, <1>8, <1>9
<1>11. TablesTyped'
  <2>1. reserved' \in [Rows -> Nat]
    <3>1. reserved' = [s \in Rows |-> reserved'[s]]
      BY <1>2, <1>4 DEF TypeOK
    <3> QED
      BY <1>10, <3>1
  <2>2. reservations' \in ReservationTables
    BY <1>2, <1>4, <1>7 DEF TypeOK, ReservationTables
  <2> QED
    BY <1>2, <1>4, <2>1, <2>2 DEF TablesTyped
<1>12. IdsFresh'
  <2>1. \A j \in Ids \ {i} : reservations'[j] = reservations[j]
    BY <1>2, <1>4 DEF TypeOK, ReservationTables
  <2>2. ~(i >= next_id)
    BY <1>2 DEF IInv, IdsFresh, IsActive
  <2> QED
    BY <1>4, <2>1, <2>2 DEF IInv, IdsFresh
<1>13. BooksBalance'
  BY <1>4, <1>5, <1>10 DEF BooksBalance
<1>14. ASSUME NEW v \in Workers \ {w}
       PROVE  WorkerOK(v)'
  <2>1. WorkerOK(v) /\ v \in Workers
    BY DEF IInv
  <2>2. step[v] = "insert" =>
          reserved'[call[v].row] + call[v].quantity <= OnHand[call[v].row]
    <3>1. ASSUME step[v] = "insert"
          PROVE  reserved'[call[v].row] + call[v].quantity <= OnHand[call[v].row]
      <4>1. /\ call[v].row \in Rows /\ call[v].quantity \in Nat
            /\ reserved[call[v].row] + call[v].quantity <= OnHand[call[v].row]
        BY <2>1, <3>1, TableAssumption DEF WorkerOK, Quantities
      <4> QED
        BY <1>9, <1>10, <4>1
    <3> QED
      BY <3>1
  <2>3. step[v] = "give_back" => reservations'[call[v].id] = reservations[call[v].id]
    <3>1. step[v] = "give_back" => call[v].id \in Ids /\ call[v].id # i
      BY <1>1, <2>1 DEF IInv, RowsOK, WorkerOK, i
    <3> QED
      BY <1>2, <1>4, <3>1 DEF TypeOK, ReservationTables
  <2> QED
    BY <1>4, <1>6, <2>1, <2>2, <2>3 DEF WorkerOK, IsActive
<1>15. ASSUME NEW s \in Seeders \ {w}
       PROVE  SeederOK(s)'
  BY <1>4, <1>6 DEF IInv, SeederOK
<1> QED
  BY <1>1, <1>11, <1>12, <1>13, <1>14, <1>15, WritingStep

\* The tables are made anew while no other transaction has a lock.
LEMMA ResetInv ==
  ASSUME IInv, NEW s \in Seeders, Reset(s)
  PROVE  IInv'
<1>1. TypeOK /\ LocksOK /\ ProcessesTyped /\ s \in Procs /\ s \notin Workers
  BY TypesSplit, Roles DEF IInv, Procs
<1>2. LocksOK'
  BY <1>1, LocksAfterReset
<1>3. \A p \in Procs \ {s} : granted[p] = {}
  BY <1>1, ResetIsAlone DEF Reset
<1>4. /\ Goto(s, "load") /\ granted' = [granted EXCEPT ![s] = {}] /\ call' = call
      /\ ~loaded' /\ loaded' \in BOOLEAN /\ next_id' = 1
      /\ reserved' = [r \in Rows |-> 0]
      /\ reservations' = [i \in Ids |-> NoReservation]
  BY DEF Reset
<1>5. ProcessesTyped'
  <2>1. "load" \in Sharing /\ "load" \in SeederStatements
    BY DEF Sharing, SeederStatements
  <2>2. granted' \in [Procs -> SUBSET Tables] /\ call' \in [Workers -> Calls]
    BY <1>1, <1>4 DEF ProcessesTyped
  <2> QED
    BY <1>1, <1>4, <2>1, <2>2, GotoTyped
<1>6. TablesTyped'
  BY <1>4, TableAssumption DEF TablesTyped, ReservationTables
<1>7. step'[s] = "load" /\ \A p \in Procs \ {s} : step'[p] = step[p]
  BY <1>1, <1>4 DEF Goto, ProcessesTyped
<1>8. ASSUME NEW w \in Workers
      PROVE  WorkerOK(w)' /\ step'[w] # "insert" /\ step'[w] # "give_back"
  <2>1. w \in Procs \ {s} /\ WorkerOK(w) /\ granted[w] = {}
    BY <1>1, <1>3 DEF Procs, IInv
  <2>2. step[w] \notin {"lock_stock", "insert", "give_back"}
    BY <2>1 DEF WorkerOK
  <2> QED
    BY <1>4, <1>7, <2>1, <2>2 DEF WorkerOK
<1>9. ASSUME NEW u \in Seeders
      PROVE  SeederOK(u)' /\ step'[u] # "load_rest"
  <2>1. CASE u = s
    BY <1>7, <2>1 DEF SeederOK
  <2>2. CASE u # s
    <3>1. u \in Procs \ {s} /\ SeederOK(u) /\ granted[u] = {}
      BY <1>3, <2>2 DEF Procs, IInv
    <3> QED
      BY <1>7, <3>1 DEF SeederOK
  <2> QED
    BY <2>1, <2>2
<1>10. RowsOK'
  BY <1>8, <1>9 DEF RowsOK
<1>11. IdsFresh' /\ BooksBalance'
  BY <1>4, EmptyBalances DEF IdsFresh
<1>12. TypeOK'
  BY <1>5, <1>6 DEF TypeOK, TablesTyped, ProcessesTyped, Calls
<1> QED
  BY <1>2, <1>8, <1>9, <1>10, <1>11, <1>12 DEF IInv

\* The catalog is there, while nobody can have reserved any of it.
LEMMA LoadRestInv ==
  ASSUME IInv, NEW s \in Seeders, LoadRest(s)
  PROVE  /\ IInv'
         /\ loaded' /\ reserved' = [r \in Rows |-> 0]
         /\ reservations' = [i \in Ids |-> NoReservation]
<1>1. /\ s \in Procs /\ s \notin Workers /\ step[s] = "load_rest"
      /\ Busy(s) /\ Leave(s, "seeded") /\ "seeded" \in Endings(s)
  BY Roles DEF Procs, LoadRest, At, Busy, SeederStatements, Endings
<1>2. /\ loaded' /\ loaded' \in BOOLEAN /\ reserved' = [r \in Rows |-> 0]
      /\ reservations' = reservations /\ next_id' = next_id
  BY DEF LoadRest
<1>3. ~loaded /\ reservations = [i \in Ids |-> NoReservation]
  BY <1>1 DEF IInv, SeederOK, BooksBalance
<1>4. TablesTyped'
  BY <1>2, TypesSplit DEF IInv, TablesTyped
<1>5. IdsFresh' /\ BooksBalance'
  BY <1>2, <1>3, EmptyBalances DEF IInv, IdsFresh
<1>6. /\ \A w \in Workers : step'[w] = step[w] /\ call'[w] = call[w]
      /\ \A u \in Seeders \ {s} : step'[u] = step[u]
  BY <1>1, LeaveTyped, TypesSplit DEF IInv, Procs
<1>7. ASSUME NEW w \in Workers
      PROVE  WorkerOK(w)'
  <2>1. WorkerOK(w)
    BY DEF IInv
  <2>2. step[w] \notin {"lock_stock", "insert", "give_back"}
    BY <1>3, <2>1 DEF WorkerOK, IsActive
  <2> QED
    BY <1>6, <2>1, <2>2 DEF WorkerOK
<1>8. \A u \in Seeders \ {s} : SeederOK(u)'
  BY <1>1, <1>6 DEF IInv, RowsOK, SeederOK
<1>9. IInv'
  BY <1>1, <1>4, <1>5, <1>7, <1>8, WritingStep
<1> QED
  BY <1>2, <1>3, <1>9

\* Every step keeps the invariant.
LEMMA NextInv ==
  ASSUME IInv, [Next]_vars
  PROVE  IInv'
<1>1. CASE UNCHANGED vars
  <2>1. /\ UNCHANGED tables /\ loaded' = loaded /\ reserved' = reserved
        /\ reservations' = reservations /\ next_id' = next_id /\ step' = step
        /\ call' = call /\ todo' = todo /\ granted' = granted
    BY <1>1 DEF vars, tables
  <2>2. TypeOK'
    BY <2>1 DEF IInv, TypeOK
  <2>3. LocksOK'
    BY <2>1 DEF IInv, LocksOK, Busy, Conflict, Covered
  <2>4. (\A w \in Workers : WorkerOK(w)') /\ (\A s \in Seeders : SeederOK(s)')
    BY <2>1 DEF IInv, WorkerOK, SeederOK
  <2>5. RowsOK' /\ IdsFresh' /\ BooksBalance'
    BY <2>1 DEF IInv, RowsOK, IdsFresh, BooksBalance
  <2> QED
    BY <2>2, <2>3, <2>4, <2>5 DEF IInv
<1>2. CASE \E w \in Workers : \/ \E r \in Rows, q \in Quantities : StartReserve(w, r, q)
                             \/ \E i \in Ids : StartRelease(w, i)
  BY <1>2, StartReserveInv, StartReleaseInv
<1>3. CASE \E s \in Seeders : StartSeeding(s)
  BY <1>3, StartSeedingInv
<1>4. ASSUME NEW p \in Procs, Advance(p)
      PROVE  IInv'
  <2>1. CASE LockTable(p)
    BY <2>1, LockTableInv
  <2>2. CASE p \in Workers /\ (FindProduct(p) \/ LockStock(p) \/ InsertReservation(p))
    BY <2>2, FindProductInv, LockStockInv, InsertReservationInv
  <2>3. CASE p \in Workers /\ (FindReservation(p) \/ GiveBack(p))
    BY <2>3, FindReservationInv, GiveBackInv
  <2>4. CASE p \in Seeders /\ (Reset(p) \/ Load(p) \/ LoadRest(p))
    BY <2>4, ResetInv, LoadInv, LoadRestInv
  <2> QED
    BY <1>4, <2>1, <2>2, <2>3, <2>4 DEF Advance
<1>5. CASE \E p \in Procs : Advance(p) \/ Fail(p)
  BY <1>4, <1>5, FailInv
<1> QED
  BY <1>1, <1>2, <1>3, <1>5 DEF Next

\* A seeding commits what it loaded with its last statement only.
LEMMA SeededByLoadRest ==
  ASSUME IInv, Next, NEW s \in Seeders, step[s] # "seeded", step'[s] = "seeded"
  PROVE  LoadRest(s)
<1>1. s \in Procs /\ s \notin Workers /\ step \in [Procs -> WorkerSteps \cup SeederSteps]
  BY Roles DEF IInv, TypeOK, Procs
<1>2. ASSUME NEW p \in Procs, NEW statement, statement # "seeded", Goto(p, statement)
      PROVE  FALSE
  BY <1>1, <1>2 DEF Goto
<1>3. ASSUME NEW p \in Procs, NEW outcome, p # s \/ outcome # "seeded", Leave(p, outcome)
      PROVE  FALSE
  BY <1>1, <1>3 DEF Leave
<1>4. \A w \in Workers : ~(\E r \in Rows, q \in Quantities : StartReserve(w, r, q))
  BY <1>2 DEF StartReserve, Procs
<1>5. \A w \in Workers : ~(\E i \in Ids : StartRelease(w, i))
  BY <1>2 DEF StartRelease, Procs
<1>6. \A u \in Seeders : ~StartSeeding(u)
  BY <1>1 DEF StartSeeding, Procs
<1>7. \A p \in Procs : ~Fail(p)
  BY <1>3 DEF Fail
<1>8. \A p \in Procs : ~LockTable(p)
  BY DEF LockTable
<1>9. \A w \in Workers : ~FindProduct(w)
  BY <1>1, <1>2, <1>3 DEF FindProduct, Procs
<1>10. \A w \in Workers : ~LockStock(w)
  BY <1>1, <1>2, <1>3 DEF LockStock, Procs
<1>11. \A w \in Workers : ~InsertReservation(w) /\ ~FindReservation(w) /\ ~GiveBack(w)
  BY <1>1, <1>2, <1>3 DEF InsertReservation, FindReservation, GiveBack, Procs
<1>12. \A u \in Seeders : ~Reset(u) /\ ~Load(u) /\ (LoadRest(u) => u = s)
  BY <1>1, <1>2, <1>3 DEF Reset, Load, LoadRest, Procs
<1> QED
  BY <1>4, <1>5, <1>6, <1>7, <1>8, <1>9, <1>10, <1>11, <1>12 DEF Next, Advance

\* A seeding that commits leaves a catalog as generated.
LEMMA NextSeedsFresh ==
  ASSUME IInv, [Next]_vars, NEW s \in Seeders, step[s] # "seeded", step'[s] = "seeded"
  PROVE  /\ loaded'
         /\ \A i \in Ids : reservations'[i] = NoReservation
         /\ \A r \in Rows : reserved'[r] = 0
<1>1. Next
  BY DEF vars
<1>2. LoadRest(s)
  BY <1>1, SeededByLoadRest
<1>3. /\ loaded' /\ reserved' = [r \in Rows |-> 0]
      /\ reservations' = [i \in Ids |-> NoReservation]
  BY <1>2, LoadRestInv
<1> QED
  BY <1>3

-----------------------------------------------------------------------------
(* Theorems *)

\* The invariant holds in every reachable state.
LEMMA Invariance == Spec => []IInv
<1>1. Init => IInv
  BY InitInv
<1>2. IInv /\ [Next]_vars => IInv'
  BY NextInv
<1> QED
  BY <1>1, <1>2, PTL DEF Spec

\* Every variable keeps its type, through any number of reseedings.
THEOREM TypeCorrect == Spec => []TypeOK
<1>1. IInv => TypeOK
  BY DEF IInv
<1> QED
  BY <1>1, Invariance, PTL

\* Reseeding under traffic (db.py:54-59, seed.py:303-334) never separates the
\* counter from the reservations: none outlives its stock, none is forgotten.
THEOREM BooksAlwaysBalance == Spec => []BooksBalance
<1>1. IInv => BooksBalance
  BY DEF IInv
<1> QED
  BY <1>1, Invariance, PTL

\* A SKU that reserve() found has a stock row (reserve.py:32-45): the lock on
\* products that the first statement took keeps the reset out.
THEOREM StockAlwaysFound == Spec => []StockIsFound
<1>1. IInv => StockIsFound
  BY DEF IInv, WorkerOK, StockIsFound
<1> QED
  BY <1>1, Invariance, PTL

\* When seed_database commits its load (seed.py:303-329), everything is loaded and
\* nothing is reserved.
THEOREM SeedingsAreFresh == Spec => SeededIsFresh
<1>1. IInv /\ [Next]_vars =>
        [\A s \in Seeders :
           (step[s] # "seeded" /\ step'[s] = "seeded") =>
             /\ loaded'
             /\ \A i \in Ids : reservations'[i] = NoReservation
             /\ \A r \in Rows : reserved'[r] = 0]_vars
  BY NextSeedsFresh
<1> QED
  BY <1>1, Invariance, PTL DEF Spec, SeededIsFresh

-----------------------------------------------------------------------------
(* Seeding implements the ledger that comes and goes *)

\* The ledger counts units the way BooksBalance does.
LEMMA LedgerCounts ==
  ASSUME NEW r
  PROVE  Ledger!Held(reservations, r) = Held(reservations, r)
<1>1. \A S : Ledger!Cardinality(S) = Cardinality(S)
  BY DEF Ledger!Cardinality, Cardinality
<1> QED
  BY <1>1 DEF Ledger!Held, Ledger!Units, Ledger!Ids, Ledger!Quantities, Ledger!IsActive,
     Held, Units, Ids, Quantities, IsActive

\* What is granted no other reservation holds (reserve.py:47-68).
LEMMA GrantIsLedgerStep ==
  ASSUME IInv, NEW w \in Workers, InsertReservation(w)
  PROVE  Ledger!CatalogNext \/ UNCHANGED tables
<1> DEFINE r == call[w].row
           q == call[w].quantity
<1>1. /\ step[w] = "insert" /\ r \in Rows /\ q \in Quantities /\ loaded
      /\ reserved[r] + q <= OnHand[r]
  BY DEF InsertReservation, At, IInv, WorkerOK
<1>2. CASE next_id \notin Ids
  BY <1>2 DEF InsertReservation
<1>3. CASE next_id \in Ids
  <2>1. /\ reservations' = [reservations EXCEPT ![next_id] = NewReservation(r, q)]
        /\ UNCHANGED loaded
    BY <1>3 DEF InsertReservation
  <2> HIDE DEF r, q
  <2>2. reservations[next_id] = NoReservation
    <3>1. next_id \in Int
      BY <1>3 DEF Ids
    <3> QED
      BY <1>3, <3>1 DEF IInv, IdsFresh
  <2>3. q <= OnHand[r] - Held(reservations, r)
    <3>1. /\ reserved[r] = Held(reservations, r) /\ reserved[r] \in Nat
          /\ OnHand[r] \in Nat /\ q \in Nat
      BY <1>1, SeedingAssumption, TableAssumption DEF IInv, BooksBalance, TypeOK, Quantities
    <3> QED
      BY <1>1, <3>1
  <2>4. Ledger!Reserve(next_id, r, q)
    BY <2>1, <2>2, <2>3, LedgerCounts DEF Ledger!Reserve, Ledger!Promisable,
       Ledger!NewReservation, NewReservation
  <2>5. Ledger!Next
    BY <1>1, <1>3, <2>4 DEF Ledger!Next, Ledger!Ids, Ledger!Rows, Ledger!Quantities,
       Ids, Rows, Quantities
  <2> QED
    BY <1>1, <2>1, <2>5 DEF Ledger!CatalogNext, Ledger!Trade
<1> QED
  BY <1>2, <1>3

\* What is given back was active, in the same catalog (reserve.py:94-105).
LEMMA GiveBackIsLedgerStep ==
  ASSUME IInv, NEW w \in Workers, GiveBack(w)
  PROVE  Ledger!CatalogNext
<1>1. /\ call[w].id \in Ids /\ IsActive(reservations, call[w].id)
      /\ reservations' = [reservations EXCEPT ![call[w].id].status = "released"]
      /\ UNCHANGED loaded
  BY DEF GiveBack, At, IInv, WorkerOK
<1>2. loaded
  BY <1>1 DEF IInv, BooksBalance, IsActive
<1>3. Ledger!Release(call[w].id)
  BY <1>1 DEF Ledger!Release, Ledger!IsActive, IsActive
<1>4. Ledger!Next
  BY <1>1, <1>3 DEF Ledger!Next, Ledger!Ids, Ids
<1> QED
  BY <1>1, <1>2, <1>4 DEF Ledger!CatalogNext, Ledger!Trade

\* The two transactions of seed_database each are one step (db.py:54-59, seed.py:306-334).
LEMMA SeedingIsLedgerStep ==
  ASSUME IInv, NEW s \in Seeders, Reset(s) \/ LoadRest(s)
  PROVE  Ledger!CatalogNext
<1>1. CASE Reset(s)
  <2>1. ~loaded' /\ loaded' \in BOOLEAN /\ reservations' = [i \in Ids |-> NoReservation]
    BY <1>1 DEF Reset
  <2>2. Ledger!Unload
    BY <2>1 DEF Ledger!Unload, Ledger!Ids, Ids
  <2> QED
    BY <2>2 DEF Ledger!CatalogNext
<1>2. CASE LoadRest(s)
  <2>1. loaded' = TRUE /\ reservations' = reservations
    BY <1>2 DEF LoadRest
  <2>2. ~loaded
    BY <1>2 DEF LoadRest, At, IInv, SeederOK
  <2>3. Ledger!Load
    BY <2>1, <2>2 DEF Ledger!Load, Ledger!vars
  <2> QED
    BY <2>3 DEF Ledger!CatalogNext
<1> QED
  BY <1>1, <1>2

\* All else leaves the tables as they are.
LEMMA NextIsLedgerStep ==
  ASSUME IInv, Next
  PROVE  Ledger!CatalogNext \/ UNCHANGED tables
<1>1. CASE \E w \in Workers : \/ \E r \in Rows, q \in Quantities : StartReserve(w, r, q)
                             \/ \E i \in Ids : StartRelease(w, i)
  BY <1>1 DEF StartReserve, StartRelease
<1>2. CASE \E s \in Seeders : StartSeeding(s)
  BY <1>2 DEF StartSeeding
<1>3. ASSUME NEW p \in Procs, Advance(p)
      PROVE  Ledger!CatalogNext \/ UNCHANGED tables
  <2>1. CASE LockTable(p)
    BY <2>1 DEF LockTable
  <2>2. CASE p \in Workers /\ (FindProduct(p) \/ LockStock(p) \/ FindReservation(p))
    BY <2>2 DEF FindProduct, LockStock, FindReservation
  <2>3. CASE p \in Workers /\ (InsertReservation(p) \/ GiveBack(p))
    BY <2>3, GrantIsLedgerStep, GiveBackIsLedgerStep
  <2>4. CASE p \in Seeders /\ Load(p)
    BY <2>4 DEF Load
  <2>5. CASE p \in Seeders /\ (Reset(p) \/ LoadRest(p))
    BY <2>5, SeedingIsLedgerStep
  <2> QED
    BY <1>3, <2>1, <2>2, <2>3, <2>4, <2>5 DEF Advance
<1>4. CASE \E p \in Procs : Fail(p)
  BY <1>4 DEF Fail
<1> QED
  BY <1>1, <1>2, <1>3, <1>4 DEF Next

\* For any workers, seedings and stock: a reader beside them sees a catalog that comes
\* and goes whole, with every reservation made of it, and in which no unit is granted
\* that another reservation holds (seed.py:302-334, db.py:54-59, reserve.py:30-68).
THEOREM Refinement == Spec => ImplementsCatalogLedger
<1>1. Init => Ledger!CatalogInit
  BY SeedingAssumption DEF Init, Ledger!CatalogInit, Ledger!Init, Ledger!Rows, Ledger!Ids,
     Rows, Ids
<1>2. UNCHANGED tables => UNCHANGED Ledger!catalogVars
  BY DEF tables, Ledger!catalogVars, Ledger!vars
<1>3. IInv /\ [Next]_vars => [Ledger!CatalogNext]_(Ledger!catalogVars)
  BY <1>2, NextIsLedgerStep DEF vars
<1> QED
  BY <1>1, <1>3, Invariance, PTL DEF Spec, ImplementsCatalogLedger, Ledger!CatalogSpec
=============================================================================
