---------------------------- MODULE Availability ----------------------------
(***************************************************************************)
(* inventory/availability.py beside a ledger that moves: get_availability  *)
(* looks the product up and reads its stock rows on two connections, while *)
(* reservations are granted and released around it and the catalog is      *)
(* reset and loaded.                                                       *)
(*                                                                         *)
(* What reserve(), release() and seed_database() do is the CatalogLedger's,*)
(* with inventory.reserved being the units held (Seeding implements it).   *)
(* Readers change nothing, so one of them is enough.                       *)
(***************************************************************************)
EXTENDS CatalogLedger, Sequences, FiniteSetsExt, SequencesExt

CONSTANTS
  Skus,           \* SKUs a client may ask about, known or not
  StockLevels,    \* values on_hand may be seeded with
  Distances,      \* REGION_COORDS: per known region, how far the warehouses are
  Regions,        \* regions a client may name, known or not
  Upper(_),       \* the region in capital letters
  MaxMoments,     \* bound on the moments one call may see
  None            \* "no region", "no warehouse"

\* Warehouses are numbered in the order of their codes.
ASSUME AvailabilityAssumption ==
  /\ Warehouses \subseteq Nat
  /\ IsFiniteSet(Warehouses)
  /\ Products \subseteq Skus
  /\ StockLevels \subseteq Nat
  /\ \A region \in DOMAIN Distances : Distances[region] \in [Warehouses -> Nat]
  /\ None \notin DOMAIN Distances
  /\ None \notin Warehouses

VARIABLES
  query,          \* the call: its step, its arguments and its answer
  moments         \* history: the stock at every moment since the call began

allVars == <<catalogVars, query, moments>>

NoAnswer == [stock |-> <<>>, nearest |-> None, backorder |-> FALSE]

\* The stock rows of one product, by warehouse: one for each, or none at all.
Stock(sku) ==
  [w \in IF loaded THEN Warehouses ELSE {} |->
     [on_hand |-> on_hand[<<sku, w>>], reserved |-> Held(reservations, <<sku, w>>)]]

Atp(stock, w) == stock[w].on_hand - stock[w].reserved

-----------------------------------------------------------------------------
(* What is computed from the rows *)

\* A region that is missing or, in whatever letters, unknown gives no origin.
Origin(region) ==
  IF region # None /\ Upper(region) \in DOMAIN Distances THEN Upper(region) ELSE None

\* What the lists are sorted by: distance, where there is an origin, and code.
Before(origin, v, w) ==
  LET d(x) == IF origin = None THEN 0 ELSE Distances[origin][x]
  IN d(v) < d(w) \/ (d(v) = d(w) /\ v < w)

Sorted(stock, origin) ==
  CHOOSE list \in SetToSeqs(DOMAIN stock) :
    \A i, j \in DOMAIN list : i < j => Before(origin, list[i], list[j])

\* The places of the list whose warehouses can promise stock.
Available(stock, list) == {i \in DOMAIN list : Atp(stock, list[i]) > 0}

\* Mutant: the closest warehouse, whether it has stock or not.
NearestAnyStock(stock, origin) ==
  LET list == Sorted(stock, origin)
  IN IF Available(stock, list) = {} THEN None ELSE Head(list)

\* The first one, or without an origin the first that has the most to promise.
Nearest(stock, origin) ==
  LET list == Sorted(stock, origin)
      available == Available(stock, list)
      best == {i \in available :
                 \/ origin # None
                 \/ \A j \in available : Atp(stock, list[j]) <= Atp(stock, list[i])}
  IN IF available = {} THEN None ELSE list[Min(best)]

TotalAtp(stock) == MapThenSumSet(LAMBDA w : Atp(stock, w), DOMAIN stock)

Answer(stock, origin) ==
  [stock |-> stock, nearest |-> Nearest(stock, origin), backorder |-> TotalAtp(stock) <= 0]

-----------------------------------------------------------------------------
(* The call *)

InitAvailability ==
  /\ on_hand \in [Rows -> StockLevels]
  /\ CatalogInit
  /\ query = [step |-> "idle", sku |-> None, region |-> None, answer |-> NoAnswer]
  /\ moments = {}

\* SELECT id FROM products WHERE part_no = ...
LookUp(sku, region) ==
  /\ query.step # "found"
  /\ LET found == loaded /\ sku \in Products IN
     /\ query' = [step |-> IF found THEN "found" ELSE "not_found",
                  sku |-> sku, region |-> region, answer |-> NoAnswer]
     /\ moments' = IF found THEN {Stock(sku)} ELSE {}
  /\ UNCHANGED catalogVars

\* Mutant: one SELECT per warehouse, each at a moment of its own.
ReadStockPiecemeal ==
  /\ query.step = "found"
  /\ \E moment \in [Warehouses -> {m \in moments : DOMAIN m # {}}] :
       query' = [query EXCEPT
         !.step = "answered",
         !.answer = Answer([w \in Warehouses |-> moment[w][w]], Origin(query.region))]
  /\ UNCHANGED <<catalogVars, moments>>

\* One SELECT reads all stock rows of the product; the rest is computed.
ReadStock ==
  /\ query.step = "found"
  /\ query' = [query EXCEPT
       !.step = "answered",
       !.answer = Answer(Stock(query.sku), Origin(query.region))]
  /\ UNCHANGED <<catalogVars, moments>>

\* Meanwhile the ledger moves, as often as the bound lets it.
Move ==
  /\ query.step = "found" => Cardinality(moments) < MaxMoments
  /\ CatalogNext
  /\ UNCHANGED query
  /\ moments' = IF query.step = "found" THEN moments \cup {Stock(query.sku)'} ELSE moments

NextAvailability ==
  \/ \E sku \in Skus, region \in Regions \cup {None} : LookUp(sku, region)
  \/ ReadStock
  \/ Move

SpecAvailability == InitAvailability /\ [][NextAvailability]_allVars

-----------------------------------------------------------------------------
(* Properties *)

\* An answer about a known product shows the stock of all warehouses as it was
\* at one moment of the call: the totals never add up stock levels that did not
\* exist together, whatever is reserved and released meanwhile, and if the catalog
\* is reseeded all warehouses are listed or none.
AnswerIsOneMoment == query.step = "answered" => query.answer.stock \in moments

\* The warehouse that is named can promise stock, and no other one that can is
\* nearer to the region, in whatever letters it is given; without a known region none
\* has more.  Ties go to the first code (availability.py:47-76).
NearestIsBest ==
  query.step = "answered" =>
    LET stock == query.answer.stock
        nearest == query.answer.nearest
        rivals == {w \in DOMAIN stock : Atp(stock, w) > 0} \ {nearest}
        region == Upper(query.region)
    IN
    IF nearest = None THEN rivals = {} ELSE
      /\ Atp(stock, nearest) > 0
      /\ \A w \in rivals :
           IF query.region # None /\ region \in DOMAIN Distances
             THEN LET d == Distances[region] IN
                  d[nearest] < d[w] \/ (d[nearest] = d[w] /\ nearest < w)
             ELSE \/ Atp(stock, nearest) > Atp(stock, w)
                  \/ Atp(stock, nearest) = Atp(stock, w) /\ nearest < w

\* The backorder flag is raised when nothing is available anywhere and only then
\* (availability.py:5-6).  The flag looks at the total, so this rests on no
\* warehouse ever promising less than nothing.
BackorderMeansNothingLeft ==
  query.step = "answered" =>
    LET stock == query.answer.stock IN
    query.answer.backorder <=> \A w \in DOMAIN stock : Atp(stock, w) <= 0
=============================================================================
