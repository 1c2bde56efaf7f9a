--------------------------- MODULE EntryGateProps ---------------------------
(***************************************************************************)
(* Properties of EntryGate.                                                *)
(***************************************************************************)
EXTENDS EntryGate

Row == [strat : Strategies, size : {Full, Half}, opened : Nat, trial : BOOLEAN]
Trade == [strat : Strategies, net : Int, entry : Nat, exit : Nat]
Order == [strat : Strategies, symbol : Symbols, size : {Full, Half},
          trial : BOOLEAN]

\* Every variable has its type, and a fill has a time of its own.
TypeOK ==
  /\ mode \in Modes
  /\ time \in Nat /\ midnight \in 0..time /\ days \in 0..MaxDays
  /\ \A a \in Symbols : positions[a] = Flat \/ positions[a] \in Row
  /\ \A t \in trades : t \in Trade /\ t.entry < t.exit /\ t.exit <= time
  /\ \A t, u \in trades : t.exit = u.exit => t = u
  /\ order = <<>> \/ order \in Order

\* The trial slot, rebuilt at every decision from timestamps of rows and
\* trades, is taken exactly while a row placed as a trial is open, whatever
\* closed, won or lost in the meantime, and after any restart.
TrialsAreRemembered ==
  Probation => \A strat \in Strategies :
    TrialOpen(strat) <=> \E a \in OpenSymbols :
                           positions[a].strat = strat /\ positions[a].trial

\* loss_streak_probation.py: "half-risk trial (one at a time)".  A strategy
\* that keeps losing has one trial open, at no more than half size.
OneTrialAtATime ==
  \A strat \in Strategies :
    LET trials == {a \in OpenSymbols : positions[a].strat = strat /\ positions[a].trial}
    IN  Cardinality(trials) <= 1 /\ \A a \in trials : positions[a].size = Half

\* A fill meets the limits as the book is then, not as it was when the signal
\* was judged: an exit does not come in between.
FillsMeetTheLimits ==
  [][\A a \in Symbols : positions[a].size = 0 /\ positions'[a].size > 0 =>
       /\ Probation => Judge(positions'[a].strat) # "blocked"
       /\ Probation /\ Judge(positions'[a].strat) # "normal" => positions'[a].size = Half
       /\ ~Probation => ~Scrutiny
       /\ ~(LostToday >= DailyLoss)
       /\ Cardinality(OpenSymbols) < MaxOpen]_vars

\* An open row was placed in the past, and as a trial exactly when the exits
\* before it were a blocking streak; no strategy has two trials.
RowsInv ==
  /\ positions \in [Symbols -> {Flat} \cup Row]
  /\ \A a \in Symbols : \A p \in {positions[a]} \cap Row :
       /\ p.opened <= time
       /\ p.trial <=> Probation /\ StreakAt(p.strat, p) >= BlockAt
       /\ p.trial => p.size = Half
  /\ \A a, b \in OpenSymbols :
       /\ positions[a].trial /\ positions[b].trial
       /\ positions[a].strat = positions[b].strat
       => a = b

\* What the gate decided is still what it would decide.
OrderInv ==
  \A o \in {order} \ {<<>>} :
    /\ positions[o.symbol].size = 0
    /\ ~(LostToday >= DailyLoss)
    /\ Cardinality(OpenSymbols) < MaxOpen
    /\ IF Probation THEN Judge(o.strat) # "blocked" ELSE ~Scrutiny
    /\ o.size = Sized(o.strat)
    /\ o.trial <=> Probation /\ Judge(o.strat) = "trial"

IInv == TypeOK /\ RowsInv /\ OrderInv
=============================================================================
