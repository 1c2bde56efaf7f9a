-------------------------- MODULE CycleAccounting --------------------------
(***************************************************************************)
(* Equity: the reading a pass sizes its entries by, the snapshot a cycle   *)
(* records at its end, and the drawdown measured between the highest       *)
(* snapshot and a later reading, while the exit thread closes positions.   *)
(* Amounts are in percent of capital and count from it; fees and funding   *)
(* are left out.                                                           *)
(***************************************************************************)
EXTENDS Integers, FiniteSets, FiniteSetsExt

CONSTANTS Symbols,
          Gains,       \* the marks, as gain of a row since its entry
          Drawdown,
          MaxTrades    \* round trips

VARIABLES rows,        \* symbol -> gain at its mark, of the open rows
          cash,
          peak,        \* the highest recorded snapshot
          tripped,     \* the kill switch
          pc, equity,  \* the main thread's step, and the pass's equity
          unrealised,  \* between the rows and the cash of a snapshot
          trades,
          truePeak     \* history: the highest equity there was

pass == <<pc, equity, unrealised>>
vars == <<rows, cash, peak, tripped, pass, trades, truePeak>>

Worth(rs) == MapThenSumSet(LAMBDA a : rs[a], DOMAIN rs)
Equity == cash + Worth(rows)
Highest(x, y) == IF x > y THEN x ELSE y

Init ==
  /\ rows = [a \in {} |-> 0] /\ cash = 0 /\ peak = 0 /\ tripped = FALSE
  /\ pc = "idle" /\ equity = 0 /\ unrealised = 0
  /\ trades = 0 /\ truePeak = 0

\* Cash and rows are copied under one hold of the book lock.
BeginPass(kind) ==
  /\ pc = "idle" /\ pc' = kind /\ equity' = Equity
  /\ UNCHANGED <<rows, cash, peak, tripped, unrealised, trades, truePeak>>

\* A signal of the pass is judged by the equity of its beginning.
Declined == Highest(peak, equity) - equity >= Drawdown
Enter(a) ==
  /\ pc \in {"cycle", "poll"} /\ ~tripped /\ ~Declined /\ a \notin DOMAIN rows
  /\ rows' = [b \in DOMAIN rows \cup {a} |-> IF b = a THEN 0 ELSE rows[b]]
  /\ UNCHANGED <<cash, peak, tripped, pass, trades, truePeak>>
Trip ==
  /\ pc \in {"cycle", "poll"} /\ ~tripped /\ Declined
  /\ tripped' = TRUE
  /\ UNCHANGED <<rows, cash, peak, pass, trades, truePeak>>

\* An exit, of either thread, under the lock.
Close(a) ==
  /\ a \in DOMAIN rows /\ trades < MaxTrades
  /\ trades' = trades + 1 /\ cash' = cash + rows[a]
  /\ rows' = [b \in DOMAIN rows \ {a} |-> rows[b]]
  /\ UNCHANGED <<peak, tripped, pass, truePeak>>

\* _record_cycle_accounting: the rows under the lock and their marks, then
\* the cash without it.
ReadRows ==
  /\ pc = "cycle" /\ pc' = "snapshot" /\ unrealised' = Worth(rows)
  /\ UNCHANGED <<rows, cash, peak, tripped, equity, trades, truePeak>>
Record ==
  /\ pc = "snapshot" /\ pc' = "idle"
  /\ peak' = Highest(peak, cash + unrealised)
  /\ unrealised' = 0 /\ equity' = 0
  /\ UNCHANGED <<rows, cash, tripped, trades, truePeak>>

\* A poll records nothing, and a death loses the pass.
Abandon ==
  /\ pc # "idle" /\ pc' = "idle" /\ unrealised' = 0 /\ equity' = 0
  /\ UNCHANGED <<rows, cash, peak, tripped, trades, truePeak>>

Move(a, gain) ==
  /\ a \in DOMAIN rows /\ gain # rows[a]
  /\ rows' = [rows EXCEPT ![a] = gain]
  /\ truePeak' = Highest(truePeak, cash + Worth(rows'))
  /\ UNCHANGED <<cash, peak, tripped, pass, trades>>

Next ==
  \/ \E kind \in {"cycle", "poll"} : BeginPass(kind)
  \/ \E a \in Symbols : Enter(a) \/ Close(a) \/ \E gain \in Gains : Move(a, gain)
  \/ Trip \/ ReadRows \/ Record \/ Abandon

Spec == Init /\ [][Next]_vars

\* limits.py:63: "Peak-to-trough equity decline that trips the kill switch".
\* When the drawdown trips the switch, equity has fallen that far from a
\* height it had really reached.
DrawdownTripIsReal ==
  [][~tripped /\ tripped' => Highest(truePeak, equity) - equity >= Drawdown]_vars
=============================================================================
