----------------------- MODULE ReservationTable_proofs ----------------------
(***************************************************************************)
(* How the units held on a stock row follow an INSERT into the             *)
(* reservations table and a release in it.  These are the only facts about *)
(* Held that the proofs about Reservations use.                            *)
(***************************************************************************)
EXTENDS ReservationTable, FiniteSetTheorems, TLAPS

\* The units that reservation i stands for while it is active.
UnitsOf(i, q) == {i} \X (1 .. q)

\* A reservation of q units stands for q units (reservations.quantity).
LEMMA UnitsOfCount ==
  ASSUME NEW i, NEW q \in Nat
  PROVE  IsFiniteSet(UnitsOf(i, q)) /\ Cardinality(UnitsOf(i, q)) = q
<1>1. IsFiniteSet({i}) /\ Cardinality({i}) = 1
  BY FS_Singleton
<1>2. IsFiniteSet(1 .. q) /\ Cardinality(1 .. q) = q
  BY FS_Interval
<1>3. /\ IsFiniteSet({i} \X (1 .. q))
      /\ Cardinality({i} \X (1 .. q)) = Cardinality({i}) * Cardinality(1 .. q)
  BY <1>1, <1>2, FS_Product
<1>4. 1 * q = q
  OBVIOUS
<1>5. QED
  BY <1>1, <1>2, <1>3, <1>4 DEF UnitsOf

\* The units held on a row are finitely many (inventory.reserved is a number).
LEMMA UnitsFinite ==
  ASSUME NEW table, NEW r
  PROVE  IsFiniteSet(Units(table, r)) /\ Held(table, r) \in Nat
<1>1. IsFiniteSet(Ids) /\ IsFiniteSet(Quantities)
  BY FS_Interval, TableAssumption DEF Ids, Quantities
<1>2. IsFiniteSet(Ids \X Quantities)
  BY <1>1, FS_Product
<1>3. Units(table, r) \subseteq Ids \X Quantities
  BY DEF Units
<1>4. IsFiniteSet(Units(table, r))
  BY <1>2, <1>3, FS_Subset
<1>5. QED
  BY <1>4, FS_CardinalityType DEF Held

\* An empty table holds nothing (the database as seeding leaves it).
LEMMA HeldEmpty ==
  ASSUME NEW r
  PROVE  Held([i \in Ids |-> NoReservation], r) = 0
<1>1. Units([i \in Ids |-> NoReservation], r) = {}
  BY DEF Units, IsActive
<1>2. QED
  BY <1>1, FS_EmptySet DEF Held

\* The INSERT of reserve() adds its quantity to its own row and to no other
\* (reserve.py:61-68).
LEMMA HeldAfterInsert ==
  ASSUME NEW table \in ReservationTables, NEW i \in Ids, NEW r \in Rows,
         NEW q \in Quantities, NEW s \in Rows, table[i] = NoReservation
  PROVE  Held([table EXCEPT ![i] = NewReservation(r, q)], s)
           = Held(table, s) + (IF s = r THEN q ELSE 0)
<1> DEFINE after == [table EXCEPT ![i] = NewReservation(r, q)]
<1>1. NewReservation(r, q) \in Reservation
  BY DEF NewReservation, Reservation
<1>2. /\ after[i] = NewReservation(r, q)
      /\ after[i] # NoReservation
      /\ after[i].status = "active" /\ after[i].row = r /\ after[i].quantity = q
  BY <1>1, TableAssumption DEF ReservationTables, NewReservation
<1>3. \A j \in Ids \ {i} : after[j] = table[j]
  BY DEF ReservationTables
<1>4. \A k \in Quantities : <<i, k>> \notin Units(table, s)
  BY DEF Units, IsActive
<1>5. q \in Nat /\ 1 .. q \subseteq Quantities
  BY TableAssumption DEF Quantities
<1>6. CASE s = r
  <2>1. Units(after, s) = Units(table, s) \cup UnitsOf(i, q)
    <3>1. ASSUME NEW u \in Ids \X Quantities
          PROVE  u \in Units(after, s) <=> u \in Units(table, s) \/ u \in UnitsOf(i, q)
      <4>1. PICK j \in Ids, k \in Quantities : u = <<j, k>>
        OBVIOUS
      <4>2. CASE j = i
        <5>1. u \in Units(after, s) <=> k <= q
          BY <1>2, <1>6, <4>1, <4>2 DEF Units, IsActive
        <5>2. u \in UnitsOf(i, q) <=> k <= q
          BY <1>5, <4>1, <4>2 DEF UnitsOf, Quantities
        <5>3. QED
          BY <1>4, <4>1, <4>2, <5>1, <5>2
      <4>3. CASE j # i
        <5>1. u \notin UnitsOf(i, q)
          BY <4>1, <4>3 DEF UnitsOf
        <5>2. QED
          BY <1>3, <4>1, <4>3, <5>1 DEF Units, IsActive
      <4>4. QED
        BY <4>2, <4>3
    <3>2. UnitsOf(i, q) \subseteq Ids \X Quantities
      BY <1>5 DEF UnitsOf
    <3>3. QED
      BY <3>1, <3>2 DEF Units
  <2>2. Units(table, s) \cap UnitsOf(i, q) = {}
    BY <1>4, <1>5 DEF UnitsOf
  <2>3. IsFiniteSet(UnitsOf(i, q)) /\ Cardinality(UnitsOf(i, q)) = q
    BY <1>5, UnitsOfCount
  <2>4. Cardinality(Units(after, s)) =
          Cardinality(Units(table, s)) + q - Cardinality({})
    BY <2>1, <2>2, <2>3, UnitsFinite, FS_Union
  <2>5. QED
    BY <1>5, <1>6, <2>4, FS_EmptySet, UnitsFinite DEF Held
<1>7. CASE s # r
  <2>1. Units(after, s) = Units(table, s)
    <3>1. ASSUME NEW u \in Ids \X Quantities
          PROVE  u \in Units(after, s) <=> u \in Units(table, s)
      <4>1. PICK j \in Ids, k \in Quantities : u = <<j, k>>
        OBVIOUS
      <4>2. CASE j = i
        BY <1>2, <1>4, <1>7, <4>1, <4>2 DEF Units, IsActive
      <4>3. CASE j # i
        BY <1>3, <4>1, <4>3 DEF Units, IsActive
      <4>4. QED
        BY <4>2, <4>3
    <3>2. QED
      BY <3>1 DEF Units
  <2>2. QED
    BY <1>7, <2>1, UnitsFinite DEF Held
<1>8. QED
  BY <1>6, <1>7

\* Marking an active reservation released takes its quantity off its own row
\* and off no other (reserve.py:95-105).
LEMMA HeldAfterRelease ==
  ASSUME NEW table \in ReservationTables, NEW i \in Ids, NEW s \in Rows,
         IsActive(table, i)
  PROVE  Held(table, s) =
           Held([table EXCEPT ![i].status = "released"], s)
             + (IF s = table[i].row THEN table[i].quantity ELSE 0)
<1> DEFINE after == [table EXCEPT ![i].status = "released"]
           q == table[i].quantity
<1>1. table[i] \in Reservation /\ table[i].status = "active"
  BY DEF IsActive, ReservationTables
<1>2. after[i].status = "released"
  BY <1>1 DEF ReservationTables, Reservation
<1>3. \A j \in Ids \ {i} : after[j] = table[j]
  BY DEF ReservationTables
<1>4. \A k \in Quantities : <<i, k>> \notin Units(after, s)
  BY <1>2 DEF Units, IsActive
<1>5. q \in Quantities /\ q \in Nat /\ 1 .. q \subseteq Quantities
  BY <1>1, TableAssumption DEF Quantities, Reservation
<1> HIDE DEF after
<1>6. CASE s = table[i].row
  <2>1. Units(table, s) = Units(after, s) \cup UnitsOf(i, q)
    <3>1. ASSUME NEW u \in Ids \X Quantities
          PROVE  u \in Units(table, s) <=> u \in Units(after, s) \/ u \in UnitsOf(i, q)
      <4>1. PICK j \in Ids, k \in Quantities : u = <<j, k>>
        OBVIOUS
      <4>2. CASE j = i
        <5>1. u \in Units(table, s) <=> k <= q
          BY <1>6, <4>1, <4>2 DEF Units
        <5>2. u \in UnitsOf(i, q) <=> k <= q
          BY <1>5, <4>1, <4>2 DEF UnitsOf, Quantities
        <5>3. QED
          BY <1>4, <4>1, <4>2, <5>1, <5>2
      <4>3. CASE j # i
        <5>1. u \notin UnitsOf(i, q)
          BY <4>1, <4>3 DEF UnitsOf
        <5>2. QED
          BY <1>3, <4>1, <4>3, <5>1 DEF Units, IsActive
      <4>4. QED
        BY <4>2, <4>3
    <3>2. UnitsOf(i, q) \subseteq Ids \X Quantities
      BY <1>5 DEF UnitsOf
    <3>3. QED
      BY <3>1, <3>2 DEF Units
  <2>2. Units(after, s) \cap UnitsOf(i, q) = {}
    BY <1>4, <1>5 DEF UnitsOf
  <2>3. IsFiniteSet(UnitsOf(i, q)) /\ Cardinality(UnitsOf(i, q)) = q
    BY <1>5, UnitsOfCount
  <2>4. Cardinality(Units(table, s)) =
          Cardinality(Units(after, s)) + q - Cardinality({})
    BY <2>1, <2>2, <2>3, UnitsFinite, FS_Union
  <2>5. QED
    BY <1>5, <1>6, <2>4, FS_EmptySet, UnitsFinite DEF Held, after
<1>7. CASE s # table[i].row
  <2>1. Units(table, s) = Units(after, s)
    <3>1. ASSUME NEW u \in Ids \X Quantities
          PROVE  u \in Units(table, s) <=> u \in Units(after, s)
      <4>1. PICK j \in Ids, k \in Quantities : u = <<j, k>>
        OBVIOUS
      <4>2. CASE j = i
        BY <1>4, <1>7, <4>1, <4>2 DEF Units
      <4>3. CASE j # i
        BY <1>3, <4>1, <4>3 DEF Units, IsActive
      <4>4. QED
        BY <4>2, <4>3
    <3>2. QED
      BY <3>1 DEF Units
  <2>2. QED
    BY <1>7, <2>1, UnitsFinite DEF Held, after
<1>8. QED
  BY <1>6, <1>7
=============================================================================
