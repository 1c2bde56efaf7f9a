----------------------------- MODULE EntryGate -----------------------------
(***************************************************************************)
(* The entry gate: the risk engine's halts and limits and the loss-streak  *)
(* probation, while the exit thread closes positions between the main      *)
(* thread's steps.  The kill switch is in HaltLoop, and the equity a       *)
(* drawdown is measured against in CycleAccounting.                        *)
(*                                                                         *)
(* Money is in percent of capital, so the daily limit is an amount.  Time  *)
(* counts fills: opened_at and exit_time are read under the book lock and  *)
(* never coincide.                                                         *)
(***************************************************************************)
EXTENDS Integers, FiniteSets, FiniteSetsExt

CONSTANTS Symbols,
          Strategies,     \* families with their side, as strategy_key joins them
          Modes,          \* "cooldown" while LOSS_STREAK_PROBATION is off, else "raw",
                          \* or "clustered" with LOSS_STREAK_CLUSTER_OVERLAPPING
          BlockAt,        \* losses in a row that block one strategy
          CoolDownAt,     \* losses in a row over all strategies
          Window, MinTrades,  \* the expectancy sample, and its least size
          MaxOpen,        \* concurrent positions
          DailyLoss,
          Gains,          \* of a round trip, per unit of size
          MaxTrades, MaxDays

ASSUME GateAssumption ==
  /\ Modes \subseteq {"cooldown", "raw", "clustered"}
  /\ {BlockAt, CoolDownAt, Window, MinTrades, MaxOpen} \subseteq Nat \ {0}
  /\ DailyLoss \in Nat \ {0} /\ Gains \subseteq Int
  /\ MaxTrades \in Nat /\ MaxDays \in Nat

Full   == 2      \* what the sizer allows
Half   == 1      \* half of it: a trial, or scrutiny
Flat   == [size |-> 0]

VARIABLES
  mode,        \* constant while a desk runs
  time,        \* of the last fill
  midnight,    \* the last fill of the day before
  days,
  positions,   \* open rows, in the ledger and the broker
  trades,      \* closed rows
  order        \* the order the holder of the book lock is about to place

desk == <<mode, midnight, days>>
book == <<time, positions, trades>>
vars == <<desk, book, order>>

Probation == mode # "cooldown"

OpenSymbols == {a \in Symbols : positions[a].size > 0}

(***************************************************************************)
(* Streaks                                                                 *)
(***************************************************************************)
Net(ts) == MapThenSumSet(LAMBDA t : t.net, ts)

\* Losses since the last winner; a flat trade is a loss.
Trailing(ts) ==
  {t \in ts : t.net <= 0 /\ \A w \in ts : w.exit > t.exit => w.net <= 0}

\* Losses whose holds overlap are one cluster.
Clusters(losses) ==
  {t \in losses : \A k \in losses : k.entry < t.entry => k.exit <= t.entry}

Streak(ts) ==
  Cardinality(IF mode = "clustered" THEN Clusters(Trailing(ts)) ELSE Trailing(ts))

Of(strat) == {t \in trades : t.strat = strat}

\* The streak a row was opened at, from the exits before it.
\* Fault: the streak of now, or of the exits since.
StreakNow(strat, p) == Streak(Of(strat))
StreakSince(strat, p) == Streak({t \in Of(strat) : t.exit >= p.opened})
StreakAt(strat, p) == Streak({t \in Of(strat) : t.exit <= p.opened})

TrialOpen(strat) ==
  \E a \in OpenSymbols :
    positions[a].strat = strat /\ StreakAt(strat, positions[a]) >= BlockAt

Recent(strat) ==
  {t \in Of(strat) : Cardinality({u \in Of(strat) : u.exit > t.exit}) < Window}

Scrutiny == Cardinality(Trailing(trades)) >= CoolDownAt

Judge(strat) ==
  IF Streak(Of(strat)) >= BlockAt
  THEN IF TrialOpen(strat) THEN "blocked" ELSE "trial"
  ELSE IF Scrutiny /\ (Cardinality(Recent(strat)) < MinTrades \/ Net(Recent(strat)) < 0)
       THEN "half" ELSE "normal"

(***************************************************************************)
(* The gate                                                                *)
(***************************************************************************)
LostToday == -Net({t \in trades : t.exit > midnight})

Halted == (LostToday >= DailyLoss) \/ (~Probation /\ Scrutiny)

Admits(strat, a) ==
  /\ Cardinality(OpenSymbols) < MaxOpen
  /\ positions[a].size = 0
  /\ Probation => Judge(strat) # "blocked"

Sized(strat) == IF Probation /\ Judge(strat) \in {"trial", "half"} THEN Half ELSE Full

Init ==
  /\ mode \in Modes
  /\ time = 0 /\ midnight = 0 /\ days = 0
  /\ positions = [a \in Symbols |-> Flat] /\ trades = {}
  /\ order = <<>>

\* A signal of a cycle, a poll or F111 reaches the risk engine, which reads
\* the rows under the book lock and keeps the lock for the order.
Attempt(strat, a) ==
  /\ order = <<>> /\ ~Halted /\ Admits(strat, a)
  /\ order' = [strat |-> strat, symbol |-> a, size |-> Sized(strat),
               trial |-> Probation /\ Judge(strat) = "trial"]
  /\ UNCHANGED <<desk, book>>

\* Any other gate may refuse: the kill switch, drawdown, validity, sector,
\* trades of the day, exposure, crowding, an agent, the broker.  (An agent and
\* the overlay may also shrink an order, never enlarge it: left out.)  Or the
\* process dies here; a restart has the rows and trades and nothing else.
Refuse ==
  /\ order # <<>> /\ order' = <<>>
  /\ UNCHANGED <<desk, book>>

Place ==
  /\ order # <<>> /\ order' = <<>>
  /\ time' = time + 1
  /\ positions' = [positions EXCEPT ![order.symbol] =
                     [strat |-> order.strat, size |-> order.size,
                      opened |-> time', trial |-> order.trial]]
  /\ UNCHANGED <<desk, trades>>

\* The exit thread, or the main thread's own supervision.
\* Fault: it does not wait for the lock, or an exit has the time of its entry.
AnyTime == TRUE
LockFree == order = <<>>
ExitAtEntry(a) == positions[a].opened
ExitTime(a) == time + 1
Close(a, gain) ==
  /\ LockFree /\ positions[a].size > 0 /\ Cardinality(trades) < MaxTrades
  /\ time' = time + 1
  /\ trades' = trades \cup
       {[strat |-> positions[a].strat, net |-> positions[a].size * gain,
         entry |-> positions[a].opened, exit |-> ExitTime(a)]}
  /\ positions' = [positions EXCEPT ![a] = Flat]
  /\ UNCHANGED <<desk, order>>

Midnight ==
  /\ days < MaxDays /\ days' = days + 1 /\ midnight' = time
  /\ UNCHANGED <<mode, book, order>>

Next ==
  \/ \E strat \in Strategies, a \in Symbols : Attempt(strat, a)
  \/ Refuse \/ Place
  \/ \E a \in Symbols, gain \in Gains : Close(a, gain)
  \/ Midnight

Spec == Init /\ [][Next]_vars
=============================================================================
