--------------------------- MODULE InventoryBench ----------------------------
(***************************************************************************)
(* bench/inventory_scenarios.py on Reservations: one thread reserves and   *)
(* releases on a row it has set up, then sets up a row per trial and lets  *)
(* many threads reserve from it at the same time.  A fault is an exception *)
(* that ends the bench where it is; each bench begins on a fresh seeding.  *)
(***************************************************************************)
EXTENDS Reservations, Sequences

CONSTANTS
  LifecycleRow, LifecycleStock,   \* where run_reservation_lifecycle works
  Lots,                           \* the quantities it reserves, in order
  Trials                          \* row, on_hand and qty of each oversell trial

\* One element per unit that the lifecycle has reserved when n of its calls have
\* returned: the first of them take the lots, the others give them back in order.
LotUnits(n) ==
  {u \in (DOMAIN Lots) \X Quantities :
     u[1] <= n /\ n < u[1] + Len(Lots) /\ u[2] <= Lots[u[1]]}

\* All lots fit together, and every trial has as many threads as lots; trials have
\* rows of their own, of which only the first may be the row of the lifecycle.
ASSUME InventoryBenchAssumption ==
  /\ LifecycleRow \in Rows
  /\ LifecycleStock \in Nat
  /\ Lots \in Seq(Quantities)
  /\ Cardinality(LotUnits(Len(Lots))) <= LifecycleStock
  /\ Trials \in Seq([row : Rows, on_hand : Nat, qty : Quantities])
  /\ \A t \in DOMAIN Trials :
       /\ Trials[t].on_hand \div Trials[t].qty <= Cardinality(Workers)
       /\ t > 1 => Trials[t].row # LifecycleRow
       /\ \A u \in 1 .. t - 1 : Trials[u].row # Trials[t].row

VARIABLES
  stage,    \* what the main thread is in the middle of
  trial,    \* how many trials it has begun
  checks,   \* the checks it has recorded since the seeding
  receipts  \* the reservation ids the lifecycle got

bench == <<stage, trial, checks, receipts>>
benchVars == <<vars, bench>>

Stages == {"seeded", "lifecycle", "ready", "racing", "aborted"}

Quiet == \A w \in Workers : call[w].step = "idle"
Answered == {w \in Workers : call[w].outcome # "none"}
Winners == {w \in Workers : call[w].outcome = "ok"}
Refused == {w \in Workers : call[w].outcome = "insufficient"}

BenchInit ==
  /\ Init
  /\ stage = "seeded" /\ trial = 0 /\ checks = <<>> /\ receipts = <<>>

\* _set_stock: overwrites both columns and commits.
SetStock(row, on_hand) ==
  /\ Quiet
  /\ inventory' = [inventory EXCEPT ![row] = [on_hand |-> on_hand, reserved |-> 0]]
  /\ call' = [w \in Workers |-> NoCall]
  /\ UNCHANGED <<reservations, next_id, locks>>

-----------------------------------------------------------------------------
(* run_reservation_lifecycle *)

\* What must be left when n of its calls have returned.
ExpectedAtp(n) == LifecycleStock - Cardinality(LotUnits(n))

BeginLifecycle ==
  /\ stage = "seeded"
  /\ SetStock(LifecycleRow, LifecycleStock)
  /\ stage' = "lifecycle"
  /\ checks' = <<CommittedAtp(LifecycleRow)' = LifecycleStock>>
  /\ UNCHANGED <<trial, receipts>>

\* Mutant: the second release is of the first reservation again.
ReleaseFirstAgain(w) ==
  LET n == Len(checks) IN
  /\ stage = "lifecycle" /\ Quiet /\ Answered \subseteq Winners
  /\ n <= 2 * Len(Lots)
  /\ IF n <= Len(Lots)
       THEN StartReserve(w, LifecycleRow[1], LifecycleRow[2], Lots[n])
       ELSE StartRelease(w, receipts[1])
  /\ UNCHANGED bench

LifecycleCall(w) ==
  LET n == Len(checks) IN
  /\ stage = "lifecycle" /\ Quiet /\ Answered \subseteq Winners
  /\ n <= 2 * Len(Lots)
  /\ IF n <= Len(Lots)
       THEN StartReserve(w, LifecycleRow[1], LifecycleRow[2], Lots[n])
       ELSE StartRelease(w, receipts[n - Len(Lots)])
  /\ UNCHANGED bench

\* The call's statements; when it returns, the main thread compares the row's
\* ATP, and the ATP a reserve answers with, with what must be left.
LifecycleStep(w) ==
  /\ stage = "lifecycle"
  /\ Step(w)
  /\ IF call[w].step = "commit"
       THEN LET left == ExpectedAtp(Len(checks)) IN
            /\ checks' = Append(checks,
                 /\ CommittedAtp(LifecycleRow)' = left
                 /\ call[w].op = "reserve" => ReportedAtp(call[w]) = left)
            /\ receipts' = IF call[w].op = "reserve"
                             THEN Append(receipts, call[w].id) ELSE receipts
       ELSE UNCHANGED <<checks, receipts>>
  /\ UNCHANGED <<stage, trial>>

EndLifecycle ==
  /\ stage = "lifecycle" /\ Quiet
  /\ Len(checks) = 1 + 2 * Len(Lots)
  /\ stage' = "ready"
  /\ UNCHANGED <<vars, trial, checks, receipts>>

-----------------------------------------------------------------------------
(* run_oversell_trials *)

BeginTrial ==
  /\ stage = "ready"
  /\ trial < Len(Trials)
  /\ SetStock(Trials[trial + 1].row, Trials[trial + 1].on_hand)
  /\ stage' = "racing"
  /\ trial' = trial + 1
  /\ UNCHANGED <<checks, receipts>>

\* One of the pool's threads makes its attempt.
Attempt(w) ==
  LET t == Trials[trial] IN
  /\ stage = "racing"
  /\ call[w].outcome = "none"
  /\ StartReserve(w, t.row[1], t.row[2], t.qty)
  /\ UNCHANGED bench

AttemptStep(w) == stage = "racing" /\ Step(w) /\ UNCHANGED bench

\* All attempts have returned, none with an exception other than a refusal.
Measure ==
  LET t == Trials[trial]
      after == inventory[t.row]
  IN
  /\ stage = "racing" /\ Quiet
  /\ Winners \cup Refused = Workers
  /\ checks' = Append(checks,
       /\ Cardinality(Winners) = t.on_hand \div t.qty
       /\ after.reserved <= after.on_hand)
  /\ stage' = "ready"
  /\ UNCHANGED <<vars, trial, receipts>>

-----------------------------------------------------------------------------
(* Exceptions and the seeding around the bench *)

\* A call of the lifecycle raised, or an attempt raised something else than
\* InsufficientStockError: the executor cancels the attempts that have not begun
\* and waits for the others.
Abort ==
  /\ Quiet
  /\ \/ stage = "lifecycle" /\ ~(Answered \subseteq Winners)
     \/ stage = "racing" /\ ~(Answered \subseteq Winners \cup Refused)
  /\ stage' = "aborted"
  /\ UNCHANGED <<vars, trial, checks, receipts>>

BenchFault(w) == stage \in {"lifecycle", "racing"} /\ Fault(w) /\ UNCHANGED bench

\* Mutant: a bench starts on what the bench before it left.
StartOver ==
  /\ stage = "aborted" \/ (stage = "ready" /\ trial = Len(Trials))
  /\ stage' = "seeded" /\ trial' = 0 /\ checks' = <<>> /\ receipts' = <<>>
  /\ UNCHANGED vars

\* ensure_seeded, at the end of a bench and at the beginning of the next: the
\* tables are made anew, the id sequence with them.
EnsureSeeded ==
  /\ stage = "aborted" \/ (stage = "ready" /\ trial = Len(Trials))
  /\ stage' = "seeded" /\ trial' = 0 /\ checks' = <<>> /\ receipts' = <<>>
  /\ inventory' \in [Rows -> [on_hand : StockLevels, reserved : {0}]]
  /\ reservations' = [i \in Ids |-> NoReservation]
  /\ next_id' = 1
  /\ call' = [w \in Workers |-> NoCall]
  /\ UNCHANGED locks

BenchNext ==
  \/ BeginLifecycle \/ EndLifecycle \/ BeginTrial \/ Measure \/ Abort \/ EnsureSeeded
  \/ \E w \in Workers :
       LifecycleCall(w) \/ LifecycleStep(w) \/ Attempt(w) \/ AttemptStep(w) \/ BenchFault(w)

BenchSpec == BenchInit /\ [][BenchNext]_benchVars

-----------------------------------------------------------------------------
(* Properties *)

\* Not one unit too many and not one too few: after a trial exactly as many
\* threads won as there were lots, the row holds what they won and nothing else,
\* and every loser was told that stock ran out
\* (tests/test_concurrency.py:53-63; inventory_scenarios.py:114-117).
SoldExactly ==
  stage = "ready" /\ trial > 0 =>
    LET t == Trials[trial] IN
    /\ Cardinality(Winners) = t.on_hand \div t.qty
    /\ inventory[t.row] = [on_hand |-> t.on_hand, reserved |-> t.qty * Cardinality(Winners)]
    /\ Refused = Workers \ Winners

\* Every check the bench records is true, whatever failed before it: all_correct
\* and all_ok of its results, which RESULTS.md reports (inventory_scenarios.py:87, 131).
EveryCheckPasses == \A n \in DOMAIN checks : checks[n]

\* Contention alone never ends a bench: no attempt meets a CHECK constraint, and
\* no lot of the lifecycle is refused, as long as the database can be reached
\* (inventory_scenarios.py:95-100 expects InsufficientStockError only).
OnlyFaultsAbort == stage = "aborted" => \E w \in Workers : call[w].outcome = "error"
=============================================================================
