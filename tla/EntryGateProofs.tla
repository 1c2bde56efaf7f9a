-------------------------- MODULE EntryGateProofs --------------------------
(***************************************************************************)
(* Proofs about the entry gate, for any symbols, strategies, limits and    *)
(* gains, and any number of trades and days.                               *)
(***************************************************************************)
EXTENDS EntryGateProps, FiniteSetTheorems, TLAPS

(***************************************************************************)
(* The operators                                                           *)
(***************************************************************************)

\* A day without a closed trade has lost nothing.
LEMMA NetOfNothing == Net({}) = 0
<1> DEFINE op(t) == t.net
           pick(s) == CHOOSE x \in s : TRUE
           Sum(f) == f = [s \in SUBSET {} |->
                            IF s = {} THEN 0
                            ELSE LET x == pick(s) IN op(x) + f[s \ {x}]]
           sum == CHOOSE f : Sum(f)
           zero == [s \in SUBSET {} |-> 0]
<1>1. Sum(zero)
  OBVIOUS
<1>2. Sum(sum)
  <2> HIDE DEF Sum
  <2> QED BY <1>1, Zenon
<1>3. sum[{}] = 0
  <2>1. {} \in SUBSET {}
    OBVIOUS
  <2> HIDE DEF sum
  <2> QED BY <1>2, <2>1
<1>4. Net({}) = sum[{}]
  BY Zenon DEF Net, MapThenSumSet, MapThenFoldSet
<1> QED BY <1>3, <1>4

\* Nothing but the rows, the trades and the mode decides.
LEMMA SameBookSameJudgement ==
  ASSUME UNCHANGED <<mode, positions, trades>>
  PROVE  /\ (Scrutiny' <=> Scrutiny) /\ OpenSymbols' = OpenSymbols
         /\ (Probation' <=> Probation)
         /\ \A strat : Judge(strat)' = Judge(strat) /\ Sized(strat)' = Sized(strat)
         /\ \A strat, p : StreakAt(strat, p)' = StreakAt(strat, p)
<1>1. (Scrutiny' <=> Scrutiny) /\ OpenSymbols' = OpenSymbols /\ (Probation' <=> Probation)
  BY DEF Scrutiny, OpenSymbols, Probation, Trailing
<1>2. \A strat, p : StreakAt(strat, p)' = StreakAt(strat, p)
  BY DEF StreakAt, Of, Streak, Clusters, Trailing
<1>3. \A strat : Judge(strat)' = Judge(strat)
  BY DEF Judge, TrialOpen, StreakAt, OpenSymbols, Of, Streak, Clusters, Trailing,
         Recent, Scrutiny
<1>4. \A strat : Sized(strat)' = Sized(strat)
  BY <1>1, <1>3 DEF Sized
<1> QED BY <1>1, <1>2, <1>3, <1>4

\* A row knows its exits: a later one does not change the streak it was
\* opened at.
LEMMA LaterExitsDoNotCount ==
  ASSUME NEW strat, NEW p, mode' = mode, NEW new,
         trades' = trades \cup {new}, ~(new.exit <= p.opened)
  PROVE  StreakAt(strat, p)' = StreakAt(strat, p)
<1> DEFINE Before == {t \in Of(strat) : t.exit <= p.opened}
<1>1. Before' = Before
  BY DEF Of
<1>2. StreakAt(strat, p) = Streak(Before) /\ StreakAt(strat, p)' = Streak(Before)'
  BY DEF StreakAt
<1>3. Streak(Before)' = Streak(Before)
  <2> HIDE DEF Before
  <2> QED BY <1>1 DEF Streak, Clusters, Trailing
<1> QED BY <1>2, <1>3

\* A row placed now is opened at the streak of now.
LEMMA PlacedAtTheStreakOfNow ==
  ASSUME TypeOK, NEW strat, NEW p, time <= p.opened, p.opened \in Nat
  PROVE  StreakAt(strat, p) = Streak(Of(strat))
<1>1. \A t \in Of(strat) : t.exit <= p.opened
  BY DEF TypeOK, Of, Trade
<1>2. {t \in Of(strat) : t.exit <= p.opened} = Of(strat)
  BY <1>1
<1> QED BY <1>2 DEF StreakAt

\* An open symbol is one with a row.
LEMMA OpenHasARow ==
  ASSUME RowsInv, NEW a \in Symbols
  PROVE  /\ a \in OpenSymbols <=> positions[a] \in Row
         /\ positions[a].size = 0 <=> positions[a] = Flat
         /\ positions[a] \in Row \cup {Flat}
<1>1. Flat \notin Row /\ Flat.size = 0
  BY DEF Flat, Row, Full, Half
<1>2. \A p \in Row : p.size > 0 /\ p.size # 0
  BY DEF Row, Full, Half
<1> QED BY <1>1, <1>2 DEF RowsInv, OpenSymbols

\* While every row is remembered, the trial slot is taken by a trial only.
LEMMA SlotIsATrial ==
  ASSUME RowsInv, Probation, NEW strat
  PROVE  TrialOpen(strat) <=> \E a \in OpenSymbols :
                                positions[a].strat = strat /\ positions[a].trial
<1>1. \A a \in OpenSymbols : positions[a] \in Row /\ a \in Symbols
  BY OpenHasARow DEF OpenSymbols
<1>2. \A a \in OpenSymbols :
        positions[a].trial <=> StreakAt(positions[a].strat, positions[a]) >= BlockAt
  BY <1>1 DEF RowsInv
<1> QED BY <1>2 DEF TrialOpen

(***************************************************************************)
(* The actions                                                             *)
(***************************************************************************)

\* The desk opens with no row, no trade and no order.
LEMMA InitHolds ==
  ASSUME Init PROVE IInv
<1> USE GateAssumption
<1>1. TypeOK
  BY DEF Init, TypeOK
<1>2. Flat \notin Row
  BY DEF Flat, Row
<1>3. RowsInv
  BY <1>2 DEF Init, RowsInv, OpenSymbols, Flat
<1> QED BY <1>1, <1>3 DEF Init, OrderInv, IInv

\* The gate judges and remembers what it judged.
LEMMA AttemptKeeps ==
  ASSUME IInv, NEW strat \in Strategies, NEW a \in Symbols, Attempt(strat, a)
  PROVE  IInv'
<1> DEFINE o == [strat |-> strat, symbol |-> a, size |-> Sized(strat),
                 trial |-> Probation /\ Judge(strat) = "trial"]
<1>1. order' = o /\ UNCHANGED <<desk, book>>
  BY DEF Attempt
<1>2. Sized(strat) \in {Full, Half} /\ o \in Order
  BY DEF Order, Sized
<1>3. TypeOK'
  BY <1>1, <1>2 DEF IInv, TypeOK, desk, book
<1>4. UNCHANGED <<mode, positions, trades, midnight, time>>
  BY <1>1 DEF desk, book
<1>5. RowsInv'
  BY <1>4, SameBookSameJudgement DEF IInv, RowsInv
<1>6. LostToday' = LostToday
  BY <1>4 DEF LostToday
<1>7. OrderInv'
  <2>1. /\ o.symbol = a /\ o.strat = strat /\ o.size = Sized(strat)
        /\ o.trial <=> Probation /\ Judge(strat) = "trial"
    OBVIOUS
  <2>2. /\ positions[a].size = 0 /\ ~(LostToday >= DailyLoss)
        /\ Cardinality(OpenSymbols) < MaxOpen
        /\ IF Probation THEN Judge(strat) # "blocked" ELSE ~Scrutiny
    BY DEF Attempt, Admits, Halted
  <2> HIDE DEF o
  <2>3. \A q \in {order'} \ {<<>>} : q = o
    BY <1>1
  <2> QED BY <1>4, <1>6, <2>1, <2>2, <2>3, SameBookSameJudgement DEF OrderInv
<1> QED BY <1>3, <1>5, <1>7 DEF IInv

\* Another gate refuses.
LEMMA RefuseKeeps ==
  ASSUME IInv, Refuse
  PROVE  IInv'
<1>1. order' = <<>> /\ UNCHANGED <<mode, positions, trades, midnight, time, days>>
  BY DEF Refuse, desk, book
<1>2. TypeOK'
  BY <1>1 DEF IInv, TypeOK
<1>3. RowsInv'
  BY <1>1, SameBookSameJudgement DEF IInv, RowsInv
<1> QED BY <1>1, <1>2, <1>3 DEF IInv, OrderInv

\* The day ends, perhaps while an order is in hand.
LEMMA MidnightKeeps ==
  ASSUME IInv, Midnight
  PROVE  IInv'
<1> USE GateAssumption
<1>1. /\ midnight' = time /\ days' = days + 1 /\ days < MaxDays
      /\ UNCHANGED <<mode, positions, trades, time, order>>
  BY DEF Midnight, book
<1>2. TypeOK'
  BY <1>1 DEF IInv, TypeOK
<1>3. RowsInv'
  BY <1>1, SameBookSameJudgement DEF IInv, RowsInv
<1>4. ~(LostToday >= DailyLoss)'
  <2>1. \A t \in trades : ~(t.exit > time)
    BY DEF IInv, TypeOK, Trade
  <2>2. {t \in trades' : t.exit > midnight'} = {}
    BY <1>1, <2>1
  <2>3. LostToday' = -0
    BY <2>2, NetOfNothing DEF LostToday
  <2> QED BY <2>3
<1>5. OrderInv'
  BY <1>1, <1>4, SameBookSameJudgement DEF IInv, OrderInv
<1> QED BY <1>2, <1>3, <1>5 DEF IInv

\* An exit: it is later than every row, so no row changes its streak.
LEMMA CloseKeeps ==
  ASSUME IInv, NEW a \in Symbols, NEW gain \in Gains, Close(a, gain)
  PROVE  IInv'
<1> USE GateAssumption
<1> DEFINE new == [strat |-> positions[a].strat, net |-> positions[a].size * gain,
                   entry |-> positions[a].opened, exit |-> time + 1]
<1>1. /\ order = <<>> /\ order' = <<>> /\ positions[a].size > 0
      /\ time' = time + 1 /\ trades' = trades \cup {new}
      /\ positions' = [positions EXCEPT ![a] = Flat]
      /\ UNCHANGED <<mode, midnight, days>>
  BY DEF Close, LockFree, ExitTime, desk
<1>2. positions[a] \in Row /\ positions[a].opened <= time /\ time \in Nat
  BY <1>1, OpenHasARow DEF IInv, OpenSymbols, RowsInv, TypeOK
<1>3. new \in Trade /\ new.entry < new.exit /\ new.exit = time + 1
  <2>1. positions[a].size * gain \in Int
    <3>1. gain \in Int /\ positions[a].size \in {1, 2}
      BY <1>2 DEF Row, Full, Half
    <3> QED BY <3>1
  <2>2. positions[a].strat \in Strategies /\ positions[a].opened \in Nat
    BY <1>2 DEF Row
  <2> QED BY <1>2, <2>1, <2>2 DEF Trade
<1>4. \A b \in Symbols : positions'[b] = IF b = a THEN Flat ELSE positions[b]
  BY <1>1 DEF IInv, RowsInv
<1>5. TypeOK'
  <2>1. mode' \in Modes /\ time' \in Nat /\ midnight' \in 0..time' /\ days' \in 0..MaxDays
    BY <1>1 DEF IInv, TypeOK
  <2>2. \A b \in Symbols : positions'[b] = Flat \/ positions'[b] \in Row
    BY <1>4 DEF IInv, TypeOK
  <2> HIDE DEF new
  <2>3. \A t \in trades' : t \in Trade /\ t.entry < t.exit /\ t.exit <= time'
    <3>1. new \in Trade /\ new.entry < new.exit /\ new.exit <= time'
      BY <1>1, <1>2, <1>3
    <3>2. \A t \in trades : t \in Trade /\ t.entry < t.exit /\ t.exit <= time
      BY DEF IInv, TypeOK
    <3>3. \A t \in trades : t.exit \in Int
      BY <3>2 DEF Trade
    <3>4. \A t \in trades : t.exit <= time'
      BY <1>1, <1>2, <3>2, <3>3
    <3> QED BY <1>1, <3>1, <3>2, <3>4
  <2>4. \A t \in trades : t.exit # new.exit
    <3>1. \A t \in trades : t.exit <= time /\ t \in Trade
      BY DEF IInv, TypeOK
    <3>2. \A t \in trades : t.exit \in Int
      BY <3>1 DEF Trade
    <3> QED BY <1>2, <1>3, <3>1, <3>2
  <2>5. \A t, u \in trades' : t.exit = u.exit => t = u
    BY <1>1, <2>4 DEF IInv, TypeOK
  <2> QED BY <1>1, <2>1, <2>2, <2>3, <2>5 DEF TypeOK
<1>6. RowsInv'
  <2>1. positions' \in [Symbols -> {Flat} \cup Row]
    BY <1>1 DEF IInv, RowsInv
  <2>2. \A b \in Symbols : \A p \in {positions'[b]} \cap Row :
          b # a /\ positions[b] = p /\ p.opened <= time /\ p \in Row
    BY <1>4 DEF IInv, RowsInv, Row, Flat
  <2>3. ASSUME NEW b \in Symbols, NEW p \in {positions'[b]} \cap Row
        PROVE  StreakAt(p.strat, p)' = StreakAt(p.strat, p)
    <3>1. ~(new.exit <= p.opened)
      BY <1>2, <1>3, <2>2, <2>3 DEF Row
    <3> HIDE DEF new
    <3> QED BY <1>1, <3>1, LaterExitsDoNotCount
  <2>4. ASSUME NEW b \in Symbols, NEW p \in {positions'[b]} \cap Row
        PROVE  /\ p.opened <= time'
               /\ p.trial <=> Probation' /\ StreakAt(p.strat, p)' >= BlockAt
               /\ p.trial => p.size = Half
    <3>1. p \in {positions[b]} \cap Row
      BY <2>2, <2>4
    <3>2. p.opened <= time'
      BY <1>1, <1>2, <2>2, <2>4 DEF Row
    <3>3. Probation' <=> Probation
      BY <1>1 DEF Probation
    <3> QED BY <2>3, <2>4, <3>1, <3>2, <3>3 DEF IInv, RowsInv
  <2>5. \A b \in OpenSymbols' : b \in OpenSymbols /\ positions'[b] = positions[b]
    BY <1>4 DEF OpenSymbols, Flat
  <2>6. \A b, c \in OpenSymbols' :
          /\ positions'[b].trial /\ positions'[c].trial
          /\ positions'[b].strat = positions'[c].strat
          => b = c
    BY <2>5 DEF IInv, RowsInv
  <2> QED BY <2>1, <2>4, <2>6 DEF RowsInv
<1> QED BY <1>1, <1>5, <1>6 DEF IInv, OrderInv

\* The order is placed: as a trial exactly when the streak is one, and then
\* the slot was free.
LEMMA PlaceKeeps ==
  ASSUME IInv, Place
  PROVE  IInv'
<1> USE GateAssumption
<1> DEFINE a == order.symbol
           row == [strat |-> order.strat, size |-> order.size,
                   opened |-> time + 1, trial |-> order.trial]
<1>1. /\ order # <<>> /\ order' = <<>> /\ time' = time + 1
      /\ positions' = [positions EXCEPT ![a] = row]
      /\ UNCHANGED <<mode, midnight, days, trades>>
  BY DEF Place, desk
<1>2. order \in Order /\ a \in Symbols /\ time \in Nat
  BY <1>1 DEF IInv, TypeOK, Order
<1>3. /\ positions[a].size = 0 /\ order.size = Sized(order.strat)
      /\ Probation => Judge(order.strat) # "blocked"
      /\ order.trial <=> Probation /\ Judge(order.strat) = "trial"
  BY <1>1 DEF IInv, OrderInv
<1>4. row \in Row /\ row.opened = time + 1 /\ row.strat = order.strat
      /\ row.size = order.size /\ row.trial = order.trial
  BY <1>2 DEF Order, Row
<1>5. \A b \in Symbols : positions'[b] = IF b = a THEN row ELSE positions[b]
  BY <1>1 DEF IInv, RowsInv
<1>6. TypeOK'
  <2>1. \A b \in Symbols : positions'[b] = Flat \/ positions'[b] \in Row
    BY <1>4, <1>5 DEF IInv, TypeOK
  <2> HIDE DEF a, row
  <2> QED BY <1>1, <1>2, <2>1 DEF IInv, TypeOK, Trade
<1>7. \A strat, p : StreakAt(strat, p)' = StreakAt(strat, p)
  BY <1>1 DEF StreakAt, Of, Streak, Clusters, Trailing
<1>8. Probation' <=> Probation
  BY <1>1 DEF Probation
<1>9. StreakAt(row.strat, row) = Streak(Of(order.strat))
  <2>1. time <= row.opened /\ row.opened \in Nat
    BY <1>2, <1>4
  <2>2. StreakAt(row.strat, row) = Streak(Of(row.strat))
    <3> HIDE DEF row
    <3> QED BY <2>1, PlacedAtTheStreakOfNow DEF IInv
  <2> QED BY <1>4, <2>2
<1>10. row.trial <=> Probation /\ StreakAt(row.strat, row) >= BlockAt
  BY <1>3, <1>4, <1>9 DEF Judge
<1>11. row.trial => row.size = Half /\ ~TrialOpen(order.strat)
  BY <1>3, <1>4 DEF Judge, Sized
<1>12. RowsInv'
  <2>1. positions' \in [Symbols -> {Flat} \cup Row]
    BY <1>1, <1>4 DEF IInv, RowsInv
  <2>2. ASSUME NEW b \in Symbols, NEW p \in {positions'[b]} \cap Row
        PROVE  /\ p.opened <= time'
               /\ p.trial <=> Probation' /\ StreakAt(p.strat, p)' >= BlockAt
               /\ p.trial => p.size = Half
    <3>1. CASE b = a
      <4>1. p = row
        BY <1>5, <3>1
      <4>2. StreakAt(p.strat, p)' = StreakAt(p.strat, p)
        BY <1>7
      <4>3. StreakAt(p.strat, p) = StreakAt(row.strat, row)
        BY <4>1 DEF StreakAt
      <4>4. p.opened <= time'
        BY <1>1, <1>2, <1>4, <4>1
      <4> HIDE DEF row
      <4> QED BY <1>8, <1>10, <1>11, <4>1, <4>2, <4>3, <4>4
    <3>2. CASE b # a
      <4>1. p \in {positions[b]} \cap Row
        BY <1>5, <3>2
      <4>2. p.opened <= time /\ p.opened \in Nat
        BY <4>1 DEF IInv, RowsInv, Row
      <4>3. p.opened <= time'
        BY <1>1, <1>2, <4>2
      <4> QED BY <1>7, <1>8, <4>1, <4>3 DEF IInv, RowsInv
    <3> QED BY <3>1, <3>2
  <2>3. \A b \in OpenSymbols' : b # a => b \in OpenSymbols /\ positions'[b] = positions[b]
    BY <1>5 DEF OpenSymbols
  <2>4. \A b \in OpenSymbols : row.trial /\ positions[b].strat = row.strat
                                 => ~positions[b].trial
    <3>1. row.trial => Probation
      BY <1>10
    <3> QED BY <1>4, <1>11, <3>1, SlotIsATrial DEF IInv
  <2>5. ASSUME NEW b \in OpenSymbols', NEW c \in OpenSymbols', b # c,
               positions'[b].trial, positions'[c].trial,
               positions'[b].strat = positions'[c].strat
        PROVE  FALSE
    <3>0. b \in Symbols /\ c \in Symbols
      BY DEF OpenSymbols
    <3>1. CASE b = a
      <4>1. positions'[b] = row /\ c \in OpenSymbols /\ positions'[c] = positions[c]
        BY <1>5, <2>3, <2>5, <3>0, <3>1
      <4> HIDE DEF row, a
      <4> QED BY <2>4, <2>5, <4>1
    <3>2. CASE c = a
      <4>1. positions'[c] = row /\ b \in OpenSymbols /\ positions'[b] = positions[b]
        BY <1>5, <2>3, <2>5, <3>0, <3>2
      <4> HIDE DEF row, a
      <4> QED BY <2>4, <2>5, <4>1
    <3>3. CASE b # a /\ c # a
      BY <2>3, <2>5, <3>3 DEF IInv, RowsInv
    <3> QED BY <3>1, <3>2, <3>3
  <2> QED BY <2>1, <2>2, <2>5 DEF RowsInv
<1> QED BY <1>1, <1>6, <1>12 DEF IInv, OrderInv

\* The inductive invariant.
LEMMA Inductive == Spec => []IInv
<1>1. Init => IInv
  BY InitHolds
<1>2. IInv /\ [Next]_vars => IInv'
  <2> SUFFICES ASSUME IInv, [Next]_vars PROVE IInv'
    OBVIOUS
  <2>1. CASE UNCHANGED vars
    <3>1. UNCHANGED <<mode, midnight, days, time, positions, trades, order>>
      BY <2>1 DEF vars, desk, book
    <3>2. TypeOK'
      BY <3>1 DEF IInv, TypeOK
    <3>3. RowsInv'
      BY <3>1, SameBookSameJudgement DEF IInv, RowsInv
    <3>4. LostToday' = LostToday
      BY <3>1 DEF LostToday
    <3>5. OrderInv'
      BY <3>1, <3>4, SameBookSameJudgement DEF IInv, OrderInv
    <3> QED BY <3>2, <3>3, <3>5 DEF IInv
  <2>2. ASSUME NEW strat \in Strategies, NEW a \in Symbols, Attempt(strat, a)
        PROVE  IInv'
    BY <2>2, AttemptKeeps
  <2>3. ASSUME NEW a \in Symbols, NEW gain \in Gains, Close(a, gain)
        PROVE  IInv'
    BY <2>3, CloseKeeps
  <2> QED BY <2>1, <2>2, <2>3, RefuseKeeps, PlaceKeeps, MidnightKeeps DEF Next
<1> QED BY <1>1, <1>2, PTL DEF Spec

(***************************************************************************)
(* The theorems                                                            *)
(***************************************************************************)

\* Every variable has its type and no two exits have one time.
THEOREM TypeCorrect == Spec => []TypeOK
BY Inductive, PTL DEF IInv

\* The trial slot that the gate rebuilds from timestamps is the trial's.
THEOREM Remembered == Spec => []TrialsAreRemembered
<1>1. IInv => TrialsAreRemembered
  BY SlotIsATrial DEF IInv, TrialsAreRemembered
<1> QED BY <1>1, Inductive, PTL

\* A losing strategy has one trial at a time, at half size.
THEOREM OneTrial == Spec => []OneTrialAtATime
<1>1. ASSUME IInv, NEW strat \in Strategies
      PROVE  LET trials == {a \in OpenSymbols :
                              positions[a].strat = strat /\ positions[a].trial}
             IN  Cardinality(trials) <= 1 /\ \A a \in trials : positions[a].size = Half
  <2> DEFINE trials == {a \in OpenSymbols : positions[a].strat = strat /\ positions[a].trial}
  <2>1. \A a, b \in trials : a = b
    BY <1>1 DEF IInv, RowsInv
  <2>2. \A a \in trials : positions[a].size = Half
    <3> SUFFICES ASSUME NEW a \in trials PROVE positions[a].size = Half
      OBVIOUS
    <3>1. a \in Symbols /\ positions[a] \in Row
      BY <1>1, OpenHasARow DEF IInv, OpenSymbols
    <3> QED BY <1>1, <3>1 DEF IInv, RowsInv
  <2>3. Cardinality(trials) <= 1
    <3> HIDE DEF trials
    <3>1. CASE trials = {}
      BY <3>1, FS_EmptySet
    <3>2. CASE trials # {}
      <4>1. PICK a : a \in trials
        BY <3>2
      <4>2. trials = {a}
        BY <2>1, <4>1
      <4> QED BY <4>2, FS_Singleton
    <3> QED BY <3>1, <3>2
  <2> QED BY <2>2, <2>3
<1>2. IInv => OneTrialAtATime
  BY <1>1 DEF OneTrialAtATime
<1> QED BY <1>2, Inductive, PTL

\* A fill meets, in the book it changes, the limits its signal was judged by.
THEOREM LimitsHoldAtTheFill == Spec => FillsMeetTheLimits
<1> DEFINE Fill(a) ==
      /\ Probation => Judge(positions'[a].strat) # "blocked"
      /\ Probation /\ Judge(positions'[a].strat) # "normal" => positions'[a].size = Half
      /\ ~Probation => ~Scrutiny
      /\ ~(LostToday >= DailyLoss)
      /\ Cardinality(OpenSymbols) < MaxOpen
<1>1. ASSUME IInv, [Next]_vars, NEW a \in Symbols,
             positions[a].size = 0, positions'[a].size > 0
      PROVE  Fill(a)
  <2>1. CASE Place
    <3>1. a = order.symbol /\ order # <<>> /\ order \in Order
      BY <1>1, <2>1 DEF Place, IInv, RowsInv, TypeOK
    <3>2. positions'[a].strat = order.strat /\ positions'[a].size = order.size
      <4>1. positions' = [positions EXCEPT ![a] =
                            [strat |-> order.strat, size |-> order.size,
                             opened |-> time + 1, trial |-> order.trial]]
        BY <2>1, <3>1 DEF Place
      <4> QED BY <1>1, <4>1 DEF IInv, RowsInv
    <3>3. /\ ~(LostToday >= DailyLoss) /\ Cardinality(OpenSymbols) < MaxOpen
          /\ Probation => Judge(order.strat) # "blocked"
          /\ ~Probation => ~Scrutiny
          /\ order.size = Sized(order.strat)
      BY <1>1, <3>1 DEF IInv, OrderInv
    <3>4. Probation /\ Judge(order.strat) # "normal" => order.size = Half
      BY <3>3 DEF Judge, Sized
    <3> QED BY <3>2, <3>3, <3>4
  <2>2. CASE ~Place
    <3>1. positions' = positions \/ \E b \in Symbols : positions' = [positions EXCEPT ![b] = Flat]
      BY <1>1, <2>2 DEF Next, vars, book, Attempt, Refuse, Close, Midnight
    <3>2. positions'[a] = positions[a] \/ positions'[a] = Flat
      BY <1>1, <3>1 DEF IInv, RowsInv
    <3> QED BY <1>1, <3>2 DEF Flat
  <2> QED BY <2>1, <2>2
<1>2. IInv /\ [Next]_vars =>
        [\A a \in Symbols : positions[a].size = 0 /\ positions'[a].size > 0 => Fill(a)]_vars
  BY <1>1
<1> QED BY <1>2, Inductive, PTL DEF Spec, FillsMeetTheLimits
=============================================================================
