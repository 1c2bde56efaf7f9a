--------------------------- MODULE BarEvalProofs ---------------------------
(***************************************************************************)
(* Proofs about the evaluation of bars, for any plan of sleeves, any time  *)
(* and any number of troubles.                                             *)
(***************************************************************************)
EXTENDS BarEvalProps, TLAPS

(***************************************************************************)
(* The last closed bar                                                     *)
(***************************************************************************)

\* Between zero and l there is no multiple of l.
LEMMA NoMultipleBetween ==
  ASSUME NEW l \in Nat \ {0}, NEW d \in Int, 0 < l * d
  PROVE  l <= l * d
OBVIOUS

\* The last multiple of l does not go back when time goes on.
LEMMA LastMultiple ==
  ASSUME NEW n \in Nat, NEW l \in Nat \ {0}
  PROVE  /\ n - (n % l) \in 0..n
         /\ n - (n % l) <= (n + 1) - ((n + 1) % l)
<1> DEFINE q == n \div l
           r == n % l
           p == (n + 1) \div l
           s == (n + 1) % l
<1>1. /\ q \in Int /\ r \in Int /\ 0 <= r /\ r < l
      /\ p \in Int /\ s \in Int /\ 0 <= s /\ s < l
      /\ r <= n
  OBVIOUS
<1>2. n = l * q + r
  OBVIOUS
<1>3. n + 1 = l * p + s
  OBVIOUS
<1> HIDE DEF q, r, p, s
<1>4. ASSUME s > r + 1 PROVE FALSE
  <2> DEFINE d == q - p
  <2>1. d \in Int /\ l * d = l * q - l * p
    BY <1>1
  <2> HIDE DEF d
  <2> DEFINE a == l * q
             b == l * p
             c == l * d
  <2>2. a \in Int /\ b \in Int /\ c \in Int /\ c = a - b /\ n = a + r /\ n + 1 = b + s
    BY <1>1, <1>2, <1>3, <2>1
  <2> HIDE DEF a, b, c
  <2>3. 0 < c /\ c < l
    BY <1>1, <1>4, <2>2
  <2> USE DEF c
  <2> QED BY <2>1, <2>3, NoMultipleBetween
<1>5. s <= r + 1
  BY <1>1, <1>4
<1>6. n - r \in 0..n /\ n - r <= (n + 1) - s
  BY <1>1, <1>5
<1> QED BY <1>6 DEF r, s

\* A sleeve's last closed bar is an instant, and does not go back.
LEMMA BarOf ==
  ASSUME NEW n \in Times, NEW k \in Sleeves
  PROVE  /\ BarAt(n, k) \in Times
         /\ BarAt(n, k) <= BarAt(n + 1, k)
<1>1. n \in Nat /\ StepOf[k] \in Nat \ {0} /\ MaxTime \in Nat /\ n <= MaxTime
  BY PlanAssumption DEF Times
<1> DEFINE b == BarAt(n, k)
<1>2. b \in 0..n /\ b <= BarAt(n + 1, k)
  BY <1>1, LastMultiple DEF BarAt
<1> HIDE DEF b
<1>3. b \in Times
  BY <1>1, <1>2 DEF Times
<1> QED BY <1>2, <1>3 DEF b

\* The bar the code computes.
LEMMA BarIs == \A k \in Sleeves : Bar(k) = BarAt(now, k)
BY DEF Bar, LastClosed, BarAt

(***************************************************************************)
(* Kinds of step                                                           *)
(***************************************************************************)

\* What MarkedIsFinal says of one step.
FinalStep ==
  \A k \in Sleeves, b \in Times :
    disk[k] = b /\ tries'[k][b] + direct'[k][b] > tries[k][b] + direct[k][b]
      => \/ \E i \in cur : i.sleeve = k /\ i.bar = b
         \/ trips > 0 /\ step = "scan"
         \/ trips > 0 /\ \E i \in batch : ~i.cursor /\ i.sleeve = k /\ i.bar = b

Kept == IInv' /\ FinalStep

\* A history that stands still breaks nothing.
LEMMA NoSubmission ==
  ASSUME TypeOK, UNCHANGED history
  PROVE  FinalStep
<1> SUFFICES ASSUME NEW k \in Sleeves, NEW b \in Times,
                    tries[k][b] + direct[k][b] > tries[k][b] + direct[k][b]
             PROVE  FALSE
  BY DEF FinalStep, history
<1>1. tries[k][b] \in Nat /\ direct[k][b] \in Nat
  BY DEF TypeOK
<1> QED BY <1>1

\* One submission counted.
LEMMA Counted ==
  ASSUME NEW h \in [Sleeves -> [Times -> Nat]], NEW k \in Sleeves, NEW b \in Times
  PROVE  /\ Count(h, k, b) \in [Sleeves -> [Times -> Nat]]
         /\ Count(h, k, b)[k][b] = h[k][b] + 1
         /\ \A l \in Sleeves, c \in Times : l # k \/ c # b => Count(h, k, b)[l][c] = h[l][c]
BY DEF Count

\* What an attempt can do to the positions.
LEMMA Attempted ==
  ASSUME TypeOK, NEW k \in Sleeves, Attempt(k)
  PROVE  open' \subseteq {SymbolOf[j] : j \in Sleeves}
BY DEF TypeOK, Attempt

\* More troubles only excuse more submissions.
LEMMA TriesGrow ==
  ASSUME NEW tr \in [Sleeves -> [Times -> Nat]], NEW g, NEW sn, NEW dk, NEW cu,
         NEW c \in Nat, NEW f \in Nat, NEW c1 \in Nat, NEW f1 \in Nat,
         c1 + f1 >= c + f, TriesOK(tr, g, sn, dk, cu, c + f)
  PROVE  TriesOK(tr, g, sn, dk, cu, c1 + f1)
<1> DEFINE a == c + f
           b == c1 + f1
<1>1. a \in Nat /\ b \in Nat /\ b >= a /\ TriesOK(tr, g, sn, dk, cu, a)
  OBVIOUS
<1> HIDE DEF a, b
<1>2. TriesOK(tr, g, sn, dk, cu, b)
  BY <1>1 DEF TriesOK
<1> QED BY <1>2 DEF b

\* Nothing is submitted or marked: the walk goes on, what is held or gathered
\* is given up, the world moves, or a trouble is counted.
LEMMA QuietStep ==
  ASSUME IInv, TypeOK', WalkOK',
         UNCHANGED <<now, gbn, cur, seen, disk, tries, direct>>,
         hold' \in {hold, NoHold}, batch' \subseteq batch,
         step' = step \/ (cur = {} /\ step' \notin {"mark", "order"}),
         trips' = trips \/ trips' # 0,
         crashes' + faults' >= crashes + faults
  PROVE  Kept
<1>1. FinalStep
  BY NoSubmission DEF IInv, history
<1>2. CursorOK(seen, disk, now)' /\ HoldOK(hold, seen, now)'
  BY DEF IInv, HoldOK, NoHold
<1>3. BatchOK(batch, hold, seen, now, trips)'
  BY DEF IInv, BatchOK, NoHold
<1>4. CurOK(cur, step, seen, disk, tries, now)'
  BY DEF IInv, CurOK
<1>5. TriesOK(tries, gbn, seen, disk, cur, crashes + faults)'
  <2>1. /\ crashes \in Nat /\ faults \in Nat /\ crashes' \in Nat /\ faults' \in Nat
        /\ tries \in [Sleeves -> [Times -> Nat]]
    BY DEF IInv, TypeOK
  <2>2. TriesOK(tries, gbn, seen, disk, cur, crashes + faults)
    BY DEF IInv
  <2>3. TriesOK(tries, gbn, seen, disk, cur, crashes' + faults')
    BY <2>1, <2>2, TriesGrow
  <2> QED BY <2>3
<1> QED BY <1>1, <1>2, <1>3, <1>4, <1>5 DEF IInv, Kept

(***************************************************************************)
(* Walks                                                                   *)
(***************************************************************************)

\* A poll sets out; if a bar rolled, what it held is given up.
LEMMA StartPollKeeps ==
  ASSUME IInv, StartPoll
  PROVE  Kept
<1>1. /\ walk = "none" /\ walk' = "poll" /\ step' = "visit" /\ at' = 1
      /\ hold' \in {hold, NoHold}
      /\ UNCHANGED <<now, gbn, batch, cur, seen, disk, open, tripped, trips, tries, direct,
                     crashes, faults>>
  BY DEF StartPoll, cursorVars, switch, history
<1>2. step = "visit" /\ batch = {} /\ cur = {}
  BY <1>1 DEF IInv, WalkOK, CurOK
<1>3. NoHold \in Hold
  BY DEF NoHold, Hold
<1>4. TypeOK'
  BY <1>1, <1>3, PlanAssumption DEF IInv, TypeOK
<1>5. WalkOK'
  BY <1>1, <1>2 DEF IInv, WalkOK
<1>6. crashes + faults \in Nat
  BY DEF IInv, TypeOK
<1> QED BY <1>1, <1>2, <1>4, <1>5, <1>6, QuietStep

\* A cycle sets out.
LEMMA StartCycleKeeps ==
  ASSUME IInv, StartCycle
  PROVE  Kept
<1>1. /\ walk = "none" /\ walk' = "cycle" /\ step' = "visit" /\ at' = 1
      /\ UNCHANGED <<now, gbn, hold, batch, cur, seen, disk, open, tripped, trips, tries,
                     direct, crashes, faults>>
  BY DEF StartCycle, cursorVars, switch, history
<1>2. step = "visit" /\ batch = {} /\ cur = {}
  BY <1>1 DEF IInv, WalkOK, CurOK
<1>3. TypeOK'
  BY <1>1, PlanAssumption DEF IInv, TypeOK
<1>4. WalkOK'
  BY <1>1, <1>2 DEF IInv, WalkOK
<1>5. crashes + faults \in Nat
  BY DEF IInv, TypeOK
<1> QED BY <1>1, <1>2, <1>3, <1>4, <1>5, QuietStep

\* A poll ends before its last sleeve: its budget is spent, or a bar rolled.
LEMMA PollEndsKeeps ==
  ASSUME IInv, BudgetSpent \/ PollRolled
  PROVE  Kept
<1>1. /\ walk = "poll" /\ step = "visit" /\ walk' = "none" /\ step' = "visit" /\ at' = 1
      /\ hold' \in {hold, NoHold}
      /\ UNCHANGED <<now, gbn, batch, cur, seen, disk, open, tripped, trips, tries, direct,
                     crashes, faults>>
  BY DEF BudgetSpent, PollRolled, EndWalk, Visiting, cursorVars, switch, history
<1>2. batch = {} /\ cur = {}
  BY <1>1 DEF IInv, WalkOK, CurOK
<1>3. NoHold \in Hold
  BY DEF NoHold, Hold
<1>4. TypeOK'
  <2>1. 1 \in 1..N + 1
    BY PlanAssumption
  <2> QED BY <1>1, <1>3, <2>1 DEF IInv, TypeOK
<1>5. WalkOK'
  BY <1>1, <1>2 DEF IInv, WalkOK
<1>6. crashes + faults \in Nat
  BY DEF IInv, TypeOK
<1> QED BY <1>1, <1>2, <1>4, <1>5, <1>6, QuietStep

\* A sleeve is passed over, by a walk or by the cycle's own scan.
LEMMA SkipKeeps ==
  ASSUME IInv, Skip \/ ScanNothing
  PROVE  Kept
<1>1. /\ step \in {"visit", "scan"} /\ walk' = walk /\ step' = "visit" /\ at' = at + 1
      /\ at <= N
      /\ UNCHANGED <<now, gbn, hold, batch, cur, seen, disk, open, tripped, trips, tries,
                     direct, crashes, faults>>
  BY DEF IInv, WalkOK, Skip, ScanNothing, NextSleeve, Visiting, cursorVars, switch, history
<1>2. cur = {} /\ at \in Nat /\ N \in Nat
  BY <1>1, PlanAssumption DEF IInv, TypeOK, CurOK
<1>3. TypeOK'
  <2>1. at' \in 1..N + 1
    BY <1>1, <1>2
  <2> QED BY <1>1, <2>1 DEF IInv, TypeOK
<1>4. WalkOK'
  <2>1. step = "scan" => walk = "cycle"
    BY DEF IInv, WalkOK
  <2>2. walk = "cycle" => \A i \in batch : i.sleeve < at + 1
    <3>1. \A i \in batch : i.sleeve \in Nat
      BY DEF IInv, TypeOK, Item, Sleeves
    <3> QED BY <1>1, <1>2, <3>1 DEF IInv, WalkOK
  <2> QED BY <1>1, <2>1, <2>2 DEF IInv, WalkOK
<1>5. crashes + faults \in Nat
  BY DEF IInv, TypeOK
<1> QED BY <1>1, <1>2, <1>3, <1>4, <1>5, QuietStep

\* The cycle leaves a sleeve to its own scan: its bar is not taken, or the
\* switch tripped.
LEMMA LeaveToScanKeeps ==
  ASSUME IInv, LeaveToScan
  PROVE  Kept
<1>1. /\ walk = "cycle" /\ step = "visit" /\ at <= N /\ step' = "scan"
      /\ tripped \/ seen[at] # Bar(at)
      /\ UNCHANGED <<now, gbn, walk, at, hold, batch, cur, seen, disk, open, tripped, trips,
                     tries, direct, crashes, faults>>
  BY DEF LeaveToScan, Visiting, cursorVars, switch, history
<1>2. cur = {} /\ at \in Sleeves
  BY <1>1 DEF IInv, TypeOK, CurOK, Sleeves
<1>3. TypeOK'
  BY <1>1 DEF IInv, TypeOK
<1>4. trips = 0 => seen[at] < BarAt(now, at)
  <2>1. seen[at] <= BarAt(now, at)
    BY <1>2 DEF IInv, CursorOK
  <2>2. trips = 0 => seen[at] # BarAt(now, at)
    BY <1>1, <1>2, BarIs DEF IInv, WalkOK
  <2>3. seen[at] \in Nat /\ BarAt(now, at) \in Nat
    BY <1>2, BarOf DEF IInv, TypeOK, Times
  <2> QED BY <2>1, <2>2, <2>3
<1>5. WalkOK'
  BY <1>1, <1>4 DEF IInv, WalkOK
<1>6. crashes + faults \in Nat
  BY DEF IInv, TypeOK
<1> QED BY <1>1, <1>2, <1>3, <1>5, <1>6, QuietStep

\* The cycle is through the plan.
LEMMA FinishCycleKeeps ==
  ASSUME IInv, FinishCycle
  PROVE  Kept
<1>1. /\ walk = "cycle" /\ step = "visit" /\ step' = "submit"
      /\ UNCHANGED <<now, gbn, walk, at, hold, batch, cur, seen, disk, open, tripped, trips,
                     tries, direct, crashes, faults>>
  BY DEF FinishCycle, WalkDone, cursorVars, switch, history
<1>2. cur = {}
  BY <1>1 DEF IInv, CurOK
<1>3. TypeOK'
  BY <1>1 DEF IInv, TypeOK
<1>4. WalkOK'
  BY <1>1 DEF IInv, WalkOK
<1>5. crashes + faults \in Nat
  BY DEF IInv, TypeOK
<1> QED BY <1>1, <1>2, <1>3, <1>4, <1>5, QuietStep

\* The poll is through the plan: what it held is the batch.
LEMMA FinishPollKeeps ==
  ASSUME IInv, FinishPoll
  PROVE  Kept
<1>1. /\ walk = "poll" /\ step = "visit" /\ step' = "submit"
      /\ hold' = NoHold \/ (~gbn /\ hold' = hold)
      /\ batch' = hold.pending \/ (~gbn /\ batch' = batch)
      /\ UNCHANGED <<now, gbn, walk, at, cur, seen, disk, open, tripped, trips, tries, direct,
                     crashes, faults>>
  BY DEF FinishPoll, WalkDone, cursorVars, switch, history
<1>2. cur = {} /\ batch = {} /\ (~gbn => hold = NoHold)
  BY <1>1 DEF IInv, WalkOK, CurOK
<1>3. hold' = NoHold /\ batch' \subseteq hold.pending
  BY <1>1, <1>2
<1>4. hold.pending \subseteq Item /\ NoHold \in Hold
  BY DEF IInv, TypeOK, Hold, NoHold
<1>5. TypeOK'
  BY <1>1, <1>3, <1>4 DEF IInv, TypeOK
<1>6. WalkOK'
  <2>1. ~gbn => batch' = {}
    BY <1>2, <1>3 DEF NoHold
  <2> QED BY <1>1, <1>3, <2>1 DEF IInv, WalkOK
<1>7. HoldOK(hold, seen, now)'
  BY <1>3 DEF HoldOK, NoHold
<1>8. BatchOK(batch, hold, seen, now, trips)'
  BY <1>1, <1>3 DEF IInv, HoldOK, BatchOK, NoHold
<1>9. CurOK(cur, step, seen, disk, tries, now)'
  BY <1>1, <1>2 DEF CurOK
<1>10. CursorOK(seen, disk, now)' /\ TriesOK(tries, gbn, seen, disk, cur, crashes + faults)'
  BY <1>1 DEF IInv
<1>11. FinalStep
  BY <1>1, NoSubmission DEF IInv, history
<1> QED BY <1>5, <1>6, <1>7, <1>8, <1>9, <1>10, <1>11 DEF IInv, Kept

(***************************************************************************)
(* Taking a bar                                                            *)
(***************************************************************************)

\* A mark on a sleeve that is not held leaves what is held in order.
LEMMA HoldMarked ==
  ASSUME NEW h, NEW n, NEW sn, NEW sm, HoldOK(h, sn, n),
         \A i \in h.pending : sm[i.sleeve] = sn[i.sleeve]
  PROVE  HoldOK(h, sm, n)
BY DEF HoldOK

\* A mark on a sleeve that is not in a batch leaves the batch in order.
LEMMA BatchMarked ==
  ASSUME NEW b, NEW h, NEW n, NEW sn, NEW sm, NEW t, BatchOK(b, h, sn, n, t),
         \A i \in b : sm[i.sleeve] = sn[i.sleeve]
  PROVE  BatchOK(b, h, sm, n, t)
BY DEF BatchOK

\* When the cursor goes on, what was submitted is still accounted for.
LEMMA TriesMarked ==
  ASSUME NEW tr \in [Sleeves -> [Times -> Nat]], NEW g,
         NEW sn \in [Sleeves -> Times], NEW sm \in [Sleeves -> Times],
         NEW dk \in [Sleeves -> Times], NEW dm \in [Sleeves -> Times],
         NEW cu, NEW cv, NEW c \in Nat, TriesOK(tr, g, sn, dk, cu, c),
         \A k \in Sleeves : sn[k] <= sm[k] /\ dk[k] <= dm[k],
         \A i \in cu : i \in cv \/ i.bar <= sm[i.sleeve]
  PROVE  TriesOK(tr, g, sm, dm, cv, c)
<1> SUFFICES ASSUME NEW k \in Sleeves, NEW b \in Times
             PROVE  IF g THEN tr[k][b] <= (IF b <= dm[k] THEN 1 ELSE 0)
                    ELSE tr[k][b] <= c + (IF b <= sm[k] \/ (\E i \in cv : i.sleeve = k /\ i.bar = b)
                                          THEN 1 ELSE 0)
  BY DEF TriesOK
<1>1. /\ tr[k][b] \in Nat /\ b \in Int /\ sn[k] \in Int /\ sm[k] \in Int
      /\ dk[k] \in Int /\ dm[k] \in Int
  <2>1. Times \subseteq Int
    BY PlanAssumption DEF Times
  <2> QED BY <2>1
<1>2. CASE g
  <2>1. tr[k][b] <= (IF b <= dk[k] THEN 1 ELSE 0)
    BY <1>2 DEF TriesOK
  <2>2. b <= dk[k] => b <= dm[k]
    BY <1>1
  <2> QED BY <1>1, <1>2, <2>1, <2>2
<1>3. CASE ~g
  <2>1. tr[k][b] <= c + (IF b <= sn[k] \/ (\E i \in cu : i.sleeve = k /\ i.bar = b)
                         THEN 1 ELSE 0)
    BY <1>3 DEF TriesOK
  <2>2. b <= sn[k] => b <= sm[k]
    BY <1>1
  <2>3. (\E i \in cu : i.sleeve = k /\ i.bar = b) =>
          b <= sm[k] \/ (\E i \in cv : i.sleeve = k /\ i.bar = b)
    OBVIOUS
  <2> QED BY <1>1, <1>3, <2>1, <2>2, <2>3
<1> QED BY <1>2, <1>3

\* A mark in memory, and the file.
LEMMA Marked ==
  ASSUME IInv, NEW k \in Sleeves, NEW b \in Times, seen[k] < b, b <= BarAt(now, k),
         seen' = [seen EXCEPT ![k] = b], disk' \in {seen', disk}
  PROVE  /\ seen' \in [Sleeves -> Times] /\ disk' \in [Sleeves -> Times]
         /\ seen'[k] = b /\ \A j \in Sleeves : j # k => seen'[j] = seen[j]
         /\ \A j \in Sleeves : seen[j] <= seen'[j] /\ disk[j] <= disk'[j]
         /\ CursorOK(seen', disk', now)
<1>1. /\ seen \in [Sleeves -> Times] /\ disk \in [Sleeves -> Times]
      /\ \A j \in Sleeves : disk[j] <= seen[j] /\ seen[j] <= BarAt(now, j)
  BY DEF IInv, TypeOK, CursorOK
<1>2. /\ seen' \in [Sleeves -> Times] /\ disk' \in [Sleeves -> Times]
      /\ seen'[k] = b /\ \A j \in Sleeves : j # k => seen'[j] = seen[j]
  BY <1>1
<1>3. \A j \in Sleeves : /\ seen[j] \in Int /\ seen'[j] \in Int /\ disk[j] \in Int
                         /\ disk'[j] \in Int /\ BarAt(now, j) \in Int
  <2>1. now \in Times /\ \A n \in Times : n \in Int
    BY DEF IInv, TypeOK, Times
  <2> TAKE j \in Sleeves
  <2>2. /\ seen[j] \in Times /\ seen'[j] \in Times /\ disk[j] \in Times
        /\ disk'[j] \in Times
    BY <1>1, <1>2
  <2>3. BarAt(now, j) \in Times
    BY <2>1, BarOf
  <2> QED BY <2>1, <2>2, <2>3
<1>4. \A j \in Sleeves : seen[j] <= seen'[j] /\ seen'[j] <= BarAt(now, j)
  BY <1>1, <1>2, <1>3
<1>5. \A j \in Sleeves : disk[j] <= disk'[j] /\ disk'[j] <= seen'[j]
  BY <1>1, <1>3, <1>4
<1> QED BY <1>2, <1>4, <1>5 DEF CursorOK

\* The sleeve that is evaluated: its bar is new, and nobody holds it.
LEMMA Evaluated ==
  ASSUME IInv, NEW k \in Sleeves, Evaluates(k)
  PROVE  /\ k = at /\ at <= N /\ step = "visit" /\ walk \in {"poll", "cycle"} /\ cur = {}
         /\ Bar(k) = BarAt(now, k) /\ BarAt(now, k) \in Times
         /\ seen[k] < BarAt(now, k)
         /\ k \notin hold.visited
         /\ walk = "poll" => batch = {}
         /\ \A i \in batch : i.sleeve # k
         /\ gbn /\ walk = "poll" => \A a \in hold.anchors : a[1] = StepOf[k] => a[2] = BarAt(now, k)
<1>1. /\ k = at /\ at <= N /\ step = "visit" /\ walk \in {"poll", "cycle"}
      /\ seen[k] # Bar(k)
      /\ walk = "cycle" => k \notin hold.visited
      /\ gbn /\ walk = "poll" => k \notin hold.visited /\ ~AnchorMoved(k)
  BY DEF Evaluates, Due, Visiting, HeldByPoll
<1>2. Bar(k) = BarAt(now, k) /\ BarAt(now, k) \in Times
  BY BarIs, BarOf DEF IInv, TypeOK
<1>3. seen[k] < BarAt(now, k)
  <2>1. seen[k] <= BarAt(now, k) /\ seen[k] \in Nat /\ BarAt(now, k) \in Nat
    BY <1>2 DEF IInv, CursorOK, TypeOK, Times
  <2> QED BY <1>1, <1>2, <2>1
<1>4. k \notin hold.visited
  BY <1>1 DEF IInv, WalkOK, NoHold
<1>5. cur = {}
  BY <1>1 DEF IInv, CurOK
<1>6. (walk = "poll" => batch = {}) /\ \A i \in batch : i.sleeve # k
  <2>1. \A i \in batch : i.sleeve \in Nat
    BY DEF IInv, TypeOK, Item, Sleeves
  <2>2. k \in Nat
    BY DEF Sleeves
  <2> QED BY <1>1, <2>1, <2>2 DEF IInv, WalkOK
<1>7. gbn /\ walk = "poll" => \A a \in hold.anchors : a[1] = StepOf[k] => a[2] = BarAt(now, k)
  BY <1>1, <1>2 DEF AnchorMoved
<1> QED BY <1>1, <1>2, <1>3, <1>4, <1>5, <1>6, <1>7

\* The next place in the plan.
LEMMA NextPlace ==
  ASSUME IInv, at <= N, at' = at + 1
  PROVE  at' \in 1..N + 1 /\ \A i \in batch : i.sleeve < at => i.sleeve < at'
<1>1. at \in Nat /\ N \in Nat /\ at >= 1
  BY PlanAssumption DEF IInv, TypeOK
<1>2. \A i \in batch : i.sleeve \in Nat
  BY DEF IInv, TypeOK, Item, Sleeves
<1> QED BY <1>1, <1>2

\* What a poll with GBN remembers of a sleeve it has looked at.
LEMMA VisitedOK ==
  ASSUME IInv, NEW k \in Sleeves, Evaluates(k), NEW items,
         items = {} \/ items = {Signal(k, TRUE)}
  PROVE  /\ Visited(k, items) \in Hold
         /\ ~(gbn /\ walk = "poll") => Visited(k, items) = hold
         /\ HoldOK(Visited(k, items), seen, now)
<1>1. CASE ~(gbn /\ walk = "poll")
  BY <1>1 DEF Visited, IInv, TypeOK
<1>2. CASE gbn /\ walk = "poll"
  <2> DEFINE h == Visited(k, items)
             b == BarAt(now, k)
  <2>1. /\ h.visited = hold.visited \cup {k} /\ h.pending = hold.pending \cup items
        /\ h.anchors = hold.anchors \cup {<<StepOf[k], b>>}
        /\ h = [visited |-> hold.visited \cup {k}, pending |-> hold.pending \cup items,
                anchors |-> hold.anchors \cup {<<StepOf[k], b>>}]
    BY <1>2, BarIs DEF Visited
  <2>2. /\ b \in Times /\ seen[k] < b /\ k \notin hold.visited
        /\ \A a \in hold.anchors : a[1] = StepOf[k] => a[2] = b
    BY <1>2, Evaluated
  <2> HIDE DEF h, b
  <2>3. \A i \in items : i \in Item /\ i.sleeve = k /\ i.bar = b /\ i.cursor
    <3>1. Signal(k, TRUE) = [sleeve |-> k, bar |-> b, cursor |-> TRUE]
      BY BarIs DEF b, Signal
    <3> DEFINE s == Signal(k, TRUE)
    <3> HIDE DEF s
    <3>2. s = [sleeve |-> k, bar |-> b, cursor |-> TRUE]
      BY <3>1 DEF s
    <3>3. s \in Item /\ s.sleeve = k /\ s.bar = b /\ s.cursor
      <4>1. s \in Item
        BY <2>2, <3>2 DEF Item
      <4>2. s.sleeve = k /\ s.bar = b /\ s.cursor = TRUE
        BY <3>2
      <4> QED BY <4>1, <4>2
    <3>4. \A i \in items : i = s
      BY DEF s
    <3> QED BY <3>3, <3>4
  <2>4. StepOf[k] \in Nat
    BY PlanAssumption
  <2>5. h \in Hold
    BY <2>1, <2>2, <2>3, <2>4 DEF IInv, TypeOK, Hold
  <2>6. HoldOK(hold, seen, now)
    BY DEF IInv
  <2>7. \A i \in h.pending : /\ i.cursor /\ i.sleeve \in h.visited
                             /\ <<StepOf[i.sleeve], i.bar>> \in h.anchors
                             /\ seen[i.sleeve] < i.bar /\ i.bar <= BarAt(now, i.sleeve)
    <3>1. b <= b
      BY <2>2 DEF Times
    <3> QED BY <2>1, <2>2, <2>3, <2>6, <3>1 DEF HoldOK, b
  <2>8. \A i, j \in h.pending : i.sleeve = j.sleeve => i = j
    <3>1. \A i, j \in items : i = j
      OBVIOUS
    <3>2. \A i \in hold.pending : i.sleeve # k
      BY <2>2, <2>6 DEF HoldOK
    <3> QED BY <2>1, <2>3, <2>6, <3>1, <3>2 DEF HoldOK
  <2>9. \A a, c \in h.anchors : a[1] = c[1] => a[2] = c[2]
    BY <2>1, <2>2, <2>6 DEF HoldOK
  <2>10. HoldOK(h, seen, now)
    BY <2>7, <2>8, <2>9 DEF HoldOK
  <2> QED BY <1>2, <2>5, <2>10 DEF h
<1> QED BY <1>1, <1>2

\* No signal, or nothing to do with it: the bar is marked.
LEMMA MarkFlatKeeps ==
  ASSUME IInv, NEW k \in Sleeves, MarkFlat(k)
  PROVE  Kept
<1> DEFINE b == BarAt(now, k)
<1>1. /\ Evaluates(k) /\ seen' = [seen EXCEPT ![k] = Bar(k)] /\ disk' = seen'
      /\ hold' = Visited(k, {}) /\ walk' = walk /\ step' = step /\ at' = at + 1
      /\ UNCHANGED <<now, gbn, batch, cur, open, tripped, trips, tries, direct, crashes, faults>>
  BY DEF MarkFlat, Mark, NextSleeve, switch, history
<1>2. /\ k = at /\ at <= N /\ step = "visit" /\ walk \in {"poll", "cycle"} /\ cur = {}
      /\ Bar(k) = b /\ b \in Times /\ seen[k] < b /\ k \notin hold.visited
      /\ (walk = "poll" => batch = {}) /\ \A i \in batch : i.sleeve # k
  BY <1>1, Evaluated
<1>3. b <= BarAt(now, k)
  BY <1>2 DEF Times
<1> HIDE DEF b
<1>4. /\ seen' \in [Sleeves -> Times] /\ disk' \in [Sleeves -> Times]
      /\ \A j \in Sleeves : j # k => seen'[j] = seen[j]
      /\ \A j \in Sleeves : seen[j] <= seen'[j] /\ disk[j] <= disk'[j]
      /\ CursorOK(seen', disk', now)
  BY <1>1, <1>2, <1>3, Marked
<1>5. /\ hold' \in Hold /\ HoldOK(hold', seen, now)
      /\ ~(gbn /\ walk = "poll") => hold' = hold
  BY <1>1, VisitedOK
<1>6. at' \in 1..N + 1 /\ \A i \in batch : i.sleeve < at => i.sleeve < at'
  BY <1>1, <1>2, NextPlace
<1>7. TypeOK'
  BY <1>1, <1>4, <1>5, <1>6 DEF IInv, TypeOK
<1>8. WalkOK'
  BY <1>1, <1>2, <1>5, <1>6 DEF IInv, WalkOK
<1>9. HoldOK(hold', seen', now)
  <2>1. hold'.pending = hold.pending
    BY <1>1 DEF Visited
  <2>2. \A i \in hold.pending : i.sleeve # k /\ i.sleeve \in Sleeves
    <3>1. \A i \in hold.pending : i.sleeve \in hold.visited
      BY DEF IInv, HoldOK
    <3>2. hold.pending \subseteq Item
      BY DEF IInv, TypeOK, Hold
    <3> QED BY <1>2, <3>1, <3>2 DEF Item
  <2> QED BY <1>4, <1>5, <2>1, <2>2, HoldMarked
<1>10. BatchOK(batch, hold', seen', now, trips)
  <2>1. BatchOK(batch, hold, seen', now, trips)
    <3>1. \A i \in batch : seen'[i.sleeve] = seen[i.sleeve]
      BY <1>2, <1>4 DEF IInv, TypeOK, Item
    <3> QED BY <3>1, BatchMarked DEF IInv
  <2> QED BY <1>2, <1>5, <2>1 DEF BatchOK
<1>11. CurOK(cur', step', seen', disk', tries', now')
  BY <1>1, <1>2 DEF CurOK
<1>12. TriesOK(tries, gbn, seen', disk', cur, crashes + faults)
  <2>1. crashes + faults \in Nat /\ TriesOK(tries, gbn, seen, disk, cur, crashes + faults)
        /\ tries \in [Sleeves -> [Times -> Nat]] /\ seen \in [Sleeves -> Times]
        /\ disk \in [Sleeves -> Times]
    BY DEF IInv, TypeOK
  <2> QED BY <1>2, <1>4, <2>1, TriesMarked
<1>13. FinalStep
  BY <1>1, NoSubmission DEF IInv, history
<1> QED BY <1>1, <1>4, <1>7, <1>8, <1>9, <1>10, <1>11, <1>12, <1>13 DEF IInv, Kept

\* With GBN the signal is held, or gathered: not marked, and not ordered yet.
LEMMA DeferKeeps ==
  ASSUME IInv, NEW k \in Sleeves, Defer(k)
  PROVE  Kept
<1> DEFINE b == BarAt(now, k)
           s == Signal(k, TRUE)
<1>1. /\ gbn /\ Evaluates(k) /\ hold' = Visited(k, {s}) /\ walk' = walk /\ step' = step
      /\ at' = at + 1 /\ batch' = IF walk = "cycle" THEN batch \cup {s} ELSE batch
      /\ UNCHANGED <<now, gbn, cur, seen, disk, open, tripped, trips, tries, direct, crashes,
                     faults>>
  BY DEF Defer, NextSleeve, cursorVars, switch, history
<1>2. /\ k = at /\ at <= N /\ step = "visit" /\ walk \in {"poll", "cycle"} /\ cur = {}
      /\ Bar(k) = b /\ b \in Times /\ seen[k] < b /\ k \notin hold.visited
      /\ (walk = "poll" => batch = {}) /\ \A i \in batch : i.sleeve # k
  BY <1>1, Evaluated
<1>3. b <= BarAt(now, k)
  BY <1>2 DEF Times
<1>4. s \in Item /\ s.sleeve = k /\ s.bar = b /\ s.cursor
  <2> HIDE DEF s
  <2>1. s = [sleeve |-> k, bar |-> b, cursor |-> TRUE]
    BY <1>2 DEF s, Signal
  <2> HIDE DEF b
  <2>2. s \in Item
    BY <1>2, <2>1 DEF Item
  <2>3. s.sleeve = k /\ s.bar = b /\ s.cursor = TRUE
    BY <2>1
  <2> QED BY <2>2, <2>3
<1>5. /\ hold' \in Hold /\ HoldOK(hold', seen, now)
      /\ ~(gbn /\ walk = "poll") => hold' = hold
  BY <1>1, VisitedOK
<1> HIDE DEF b, s
<1>6. at' \in 1..N + 1 /\ (\A i \in batch : i.sleeve < at => i.sleeve < at') /\ k < at'
  <2>1. at \in Nat
    BY DEF IInv, TypeOK
  <2> QED BY <1>1, <1>2, <2>1, NextPlace
<1>7. TypeOK'
  BY <1>1, <1>4, <1>5, <1>6 DEF IInv, TypeOK
<1>8. WalkOK'
  BY <1>1, <1>2, <1>4, <1>5, <1>6 DEF IInv, WalkOK
<1>9. BatchOK(batch', hold', seen, now, trips)
  <2>1. CASE walk = "poll"
    BY <1>1, <1>2, <2>1 DEF BatchOK
  <2>2. CASE walk = "cycle"
    <3>1. batch' = batch \cup {s} /\ hold' = hold /\ BatchOK(batch, hold, seen, now, trips)
      BY <1>1, <1>5, <2>2 DEF IInv
    <3> QED BY <1>2, <1>3, <1>4, <3>1 DEF BatchOK
  <2> QED BY <1>2, <2>1, <2>2
<1>10. CurOK(cur', step', seen', disk', tries', now')
  BY <1>1, <1>2 DEF CurOK
<1>11. CursorOK(seen', disk', now') /\ TriesOK(tries, gbn, seen, disk, cur, crashes + faults)
  BY <1>1 DEF IInv
<1>12. FinalStep
  BY <1>1, NoSubmission DEF IInv, history
<1> QED BY <1>1, <1>5, <1>7, <1>8, <1>9, <1>10, <1>11, <1>12 DEF IInv, Kept

\* A bar that is new in memory is not marked in the file.
LEMMA NotInTheFile ==
  ASSUME IInv, NEW k \in Sleeves, NEW b \in Times, seen[k] < b
  PROVE  disk[k] # b /\ disk[k] < b
<1>1. disk[k] <= seen[k] /\ disk[k] \in Times /\ seen[k] \in Times
  BY DEF IInv, CursorOK, TypeOK
<1>2. disk[k] \in Int /\ seen[k] \in Int /\ b \in Int
  <2>1. Times \subseteq Int
    BY PlanAssumption DEF Times
  <2> QED BY <1>1, <2>1
<1> QED BY <1>1, <1>2

\* A submission of a bar that is not marked in the file breaks nothing.
LEMMA OneSubmission ==
  ASSUME TypeOK, NEW k \in Sleeves, NEW b \in Times,
         \/ tries' = Count(tries, k, b) /\ direct' = direct
         \/ tries' = tries /\ direct' = Count(direct, k, b),
         \/ disk[k] # b
         \/ \E i \in cur : i.sleeve = k /\ i.bar = b
         \/ trips > 0 /\ step = "scan"
         \/ trips > 0 /\ \E i \in batch : ~i.cursor /\ i.sleeve = k /\ i.bar = b
  PROVE  /\ tries' \in [Sleeves -> [Times -> Nat]] /\ direct' \in [Sleeves -> [Times -> Nat]]
         /\ FinalStep
<1>1. tries \in [Sleeves -> [Times -> Nat]] /\ direct \in [Sleeves -> [Times -> Nat]]
  BY DEF TypeOK
<1>2. /\ tries' \in [Sleeves -> [Times -> Nat]] /\ direct' \in [Sleeves -> [Times -> Nat]]
      /\ \A l \in Sleeves, c \in Times : l # k \/ c # b =>
           tries'[l][c] = tries[l][c] /\ direct'[l][c] = direct[l][c]
  <2>1. CASE tries' = Count(tries, k, b) /\ direct' = direct
    BY <1>1, <2>1, Counted
  <2>2. CASE tries' = tries /\ direct' = Count(direct, k, b)
    BY <1>1, <2>2, Counted
  <2> QED BY <2>1, <2>2
<1>3. ASSUME NEW l \in Sleeves, NEW c \in Times,
             tries'[l][c] + direct'[l][c] > tries[l][c] + direct[l][c]
      PROVE  l = k /\ c = b
  <2> SUFFICES ASSUME l # k \/ c # b PROVE FALSE
    OBVIOUS
  <2>1. tries'[l][c] = tries[l][c] /\ direct'[l][c] = direct[l][c]
    BY <1>2
  <2>2. tries[l][c] \in Nat /\ direct[l][c] \in Nat
    BY <1>1
  <2> QED BY <1>3, <2>1, <2>2
<1> QED BY <1>2, <1>3 DEF FinalStep

\* In plan order the order goes out first.
LEMMA OrderNowKeeps ==
  ASSUME IInv, NEW k \in Sleeves, OrderNow(k)
  PROVE  Kept
<1> DEFINE b == BarAt(now, k)
           s == Signal(k, TRUE)
<1>1. /\ ~gbn /\ Evaluates(k) /\ Attempt(k) /\ tries' = Count(tries, k, Bar(k)) /\ cur' = {s}
      /\ step' = "mark"
      /\ UNCHANGED <<now, gbn, walk, at, hold, batch, seen, disk, tripped, trips, direct,
                     crashes, faults>>
  BY DEF OrderNow, cursorVars, switch
<1>2. /\ k = at /\ at <= N /\ step = "visit" /\ walk \in {"poll", "cycle"} /\ cur = {}
      /\ Bar(k) = b /\ b \in Times /\ seen[k] < b
  BY <1>1, Evaluated
<1>3. b <= BarAt(now, k)
  BY <1>2 DEF Times
<1>4. s \in Item /\ s.sleeve = k /\ s.bar = b
  <2> HIDE DEF s
  <2>1. s = [sleeve |-> k, bar |-> b, cursor |-> TRUE]
    BY <1>2 DEF s, Signal
  <2> HIDE DEF b
  <2> QED BY <1>2, <2>1 DEF Item
<1> HIDE DEF b, s
<1>5. disk[k] # b
  BY <1>2, NotInTheFile
<1>6. tries' \in [Sleeves -> [Times -> Nat]] /\ FinalStep
  BY <1>1, <1>2, <1>5, OneSubmission DEF IInv
<1>7. open' \subseteq {SymbolOf[j] : j \in Sleeves}
  BY <1>1, Attempted DEF IInv
<1>8. TypeOK'
  BY <1>1, <1>4, <1>6, <1>7 DEF IInv, TypeOK
<1>9. WalkOK'
  BY <1>1, <1>2 DEF IInv, WalkOK
<1>10. CurOK(cur', step', seen, disk, tries', now)
  BY <1>1, <1>2, <1>3, <1>4 DEF CurOK
<1>11. TriesOK(tries', gbn, seen, disk, cur', crashes + faults)
  <2> DEFINE c == crashes + faults
  <2>1. c \in Nat /\ tries \in [Sleeves -> [Times -> Nat]] /\ seen[k] \in Nat /\ b \in Nat
    BY <1>2 DEF IInv, TypeOK, Times
  <2>2. TriesOK(tries, gbn, seen, disk, {}, c)
    BY <1>2 DEF IInv
  <2> HIDE DEF c
  <2>3. tries[k][b] <= c
    BY <1>1, <1>2, <2>1, <2>2 DEF TriesOK
  <2>4. /\ tries'[k][b] = tries[k][b] + 1
        /\ \A l \in Sleeves, d \in Times : l # k \/ d # b => tries'[l][d] = tries[l][d]
    BY <1>1, <1>2, <2>1, Counted
  <2>5. ASSUME NEW l \in Sleeves, NEW d \in Times
        PROVE  tries'[l][d] <= c + (IF d <= seen[l] \/ (\E i \in cur' : i.sleeve = l /\ i.bar = d)
                                    THEN 1 ELSE 0)
    <3>1. CASE l = k /\ d = b
      <4>1. \E i \in cur' : i.sleeve = l /\ i.bar = d
        BY <1>1, <1>4, <3>1
      <4>2. tries'[l][d] <= c + 1
        BY <1>2, <2>1, <2>3, <2>4, <3>1
      <4> QED BY <4>1, <4>2
    <3>2. CASE l # k \/ d # b
      <4>1. tries'[l][d] = tries[l][d] /\ tries[l][d] \in Nat
        BY <2>1, <2>4, <3>2
      <4>2. tries[l][d] <= c + (IF d <= seen[l] THEN 1 ELSE 0)
        BY <1>1, <2>2 DEF TriesOK
      <4> QED BY <2>1, <4>1, <4>2
    <3> QED BY <3>1, <3>2
  <2>6. TriesOK(tries', gbn, seen, disk, cur', c)
    BY <1>1, <2>5 DEF TriesOK
  <2> QED BY <2>6 DEF c
<1>12. CursorOK(seen, disk, now) /\ HoldOK(hold, seen, now)
       /\ BatchOK(batch, hold, seen, now, trips)
  BY DEF IInv
<1> QED BY <1>1, <1>6, <1>8, <1>9, <1>10, <1>11, <1>12 DEF IInv, Kept

\* The mark after the order: the bar is taken.
LEMMA MarkOrderedKeeps ==
  ASSUME IInv, NEW i \in cur, MarkOrdered(i)
  PROVE  Kept
<1> DEFINE k == i.sleeve
           b == i.bar
<1>1. /\ step = "mark" /\ seen' = [seen EXCEPT ![k] = b] /\ disk' = seen'
      /\ cur' = {} /\ step' = "visit" /\ at' = at + 1
      /\ UNCHANGED <<now, gbn, walk, hold, batch, open, tripped, trips, tries, direct,
                     crashes, faults>>
  BY DEF MarkOrdered, Mark, switch, history
<1>2. k \in Sleeves /\ b \in Times
  BY DEF IInv, TypeOK, Item
<1>3. /\ seen[k] < b /\ b <= BarAt(now, k) /\ \A j \in cur : j = i
      /\ ~gbn /\ hold = NoHold /\ batch = {} /\ at <= N
  BY <1>1 DEF IInv, CurOK, WalkOK
<1> HIDE DEF k, b
<1>4. /\ seen' \in [Sleeves -> Times] /\ disk' \in [Sleeves -> Times]
      /\ seen'[k] = b
      /\ \A j \in Sleeves : seen[j] <= seen'[j] /\ disk[j] <= disk'[j]
      /\ CursorOK(seen', disk', now)
  BY <1>1, <1>2, <1>3, Marked
<1>5. at' \in 1..N + 1
  BY <1>1, <1>3, NextPlace
<1>6. TypeOK'
  BY <1>1, <1>4, <1>5 DEF IInv, TypeOK
<1>7. WalkOK'
  <2>1. walk # "none"
    BY <1>1 DEF IInv, WalkOK
  <2> QED BY <1>1, <1>3, <2>1 DEF IInv, WalkOK
<1>8. HoldOK(hold, seen', now) /\ BatchOK(batch, hold, seen', now, trips)
  BY <1>3 DEF HoldOK, BatchOK, NoHold
<1>9. CurOK(cur', step', seen', disk', tries', now')
  BY <1>1 DEF CurOK
<1>10. TriesOK(tries, gbn, seen', disk', cur', crashes + faults)
  <2>1. crashes + faults \in Nat /\ TriesOK(tries, gbn, seen, disk, cur, crashes + faults)
        /\ tries \in [Sleeves -> [Times -> Nat]] /\ seen \in [Sleeves -> Times]
        /\ disk \in [Sleeves -> Times]
    BY DEF IInv, TypeOK
  <2>2. \A j \in cur : j \in cur' \/ j.bar <= seen'[j.sleeve]
    <3>1. b <= b
      BY <1>2 DEF Times
    <3> QED BY <1>3, <1>4, <3>1 DEF k, b
  <2> QED BY <1>4, <2>1, <2>2, TriesMarked
<1>11. FinalStep
  BY <1>1, NoSubmission DEF IInv, history
<1> QED BY <1>1, <1>4, <1>6, <1>7, <1>8, <1>9, <1>10, <1>11 DEF IInv, Kept

\* The cycle's own scan found a signal: it is ordered, or gathered with GBN.
LEMMA ScanSignalKeeps ==
  ASSUME IInv, ScanSignal
  PROVE  Kept
<1> DEFINE b == BarAt(now, at)
           s == Signal(at, FALSE)
<1>1. /\ step = "scan" /\ step' = "visit" /\ at' = at + 1
      /\ \/ gbn /\ batch' = batch \cup {s} /\ open' = open /\ direct' = direct
         \/ ~gbn /\ Attempt(at) /\ direct' = Count(direct, at, Bar(at)) /\ batch' = batch
      /\ UNCHANGED <<now, gbn, walk, hold, cur, seen, disk, tripped, trips, tries, crashes, faults>>
  BY DEF ScanSignal, cursorVars, switch
<1>2. /\ walk = "cycle" /\ at <= N /\ cur = {} /\ (trips = 0 => seen[at] < b)
      /\ \A i \in batch : i.sleeve < at
  BY <1>1 DEF IInv, WalkOK, CurOK
<1>3. at \in Sleeves /\ at \in Nat
  BY <1>2 DEF IInv, TypeOK, Sleeves
<1>4. Bar(at) = b /\ b \in Times
  BY <1>3, BarIs, BarOf DEF IInv, TypeOK
<1>5. b <= BarAt(now, at)
  BY <1>4 DEF Times
<1>6. s \in Item /\ s.sleeve = at /\ s.bar = b /\ ~s.cursor
  <2> HIDE DEF s
  <2>1. s = [sleeve |-> at, bar |-> b, cursor |-> FALSE]
    BY <1>4 DEF s, Signal
  <2> HIDE DEF b
  <2>2. s \in Item
    BY <1>3, <1>4, <2>1 DEF Item
  <2>3. s.sleeve = at /\ s.bar = b /\ s.cursor = FALSE
    BY <2>1
  <2> QED BY <2>2, <2>3
<1> HIDE DEF b, s
<1>7. /\ at' \in 1..N + 1 /\ at < at' /\ \A i \in batch : i.sleeve < at'
  BY <1>1, <1>2, <1>3, NextPlace
<1>8. open' \subseteq {SymbolOf[j] : j \in Sleeves}
  BY <1>1, <1>3, Attempted DEF IInv, TypeOK
<1>9. direct' \in [Sleeves -> [Times -> Nat]] /\ FinalStep
  <2>1. CASE direct' = direct
    BY <1>1, <2>1, NoSubmission DEF IInv, TypeOK, history
  <2>2. CASE direct' = Count(direct, at, b)
    <3>1. trips > 0 \/ disk[at] # b
      <4>1. trips \in Nat
        BY DEF IInv, TypeOK
      <4> QED BY <1>2, <1>3, <1>4, <4>1, NotInTheFile
    <3> QED BY <1>1, <1>3, <1>4, <2>2, <3>1, OneSubmission DEF IInv
  <2> QED BY <1>1, <1>4, <2>1, <2>2
<1>10. TypeOK'
  BY <1>1, <1>6, <1>7, <1>8, <1>9 DEF IInv, TypeOK
<1>11. WalkOK'
  BY <1>1, <1>2, <1>6, <1>7 DEF IInv, WalkOK
<1>12. BatchOK(batch', hold, seen, now, trips)
  <2>1. BatchOK(batch, hold, seen, now, trips) /\ \A i \in batch : i.sleeve # at
    <3>1. \A i \in batch : i.sleeve \in Nat
      BY DEF IInv, TypeOK, Item, Sleeves
    <3> QED BY <1>2, <1>3, <3>1 DEF IInv
  <2> QED BY <1>1, <1>2, <1>5, <1>6, <2>1 DEF BatchOK
<1>13. CurOK(cur', step', seen', disk', tries', now')
  BY <1>1, <1>2 DEF CurOK
<1>14. CursorOK(seen, disk, now) /\ HoldOK(hold, seen, now)
       /\ TriesOK(tries, gbn, seen, disk, cur, crashes + faults)
  BY DEF IInv
<1> QED BY <1>1, <1>9, <1>10, <1>11, <1>12, <1>13, <1>14 DEF IInv, Kept

(***************************************************************************)
(* Submission                                                              *)
(***************************************************************************)

\* A signal is dropped, or the batch is through.
LEMMA SubmitNothingKeeps ==
  ASSUME IInv, (\E i \in batch : SubmitNothing(i)) \/ SubmitDone
  PROVE  Kept
<1>1. /\ step = "submit" /\ batch' \subseteq batch
      /\ \/ walk' = walk /\ step' = step /\ at' = at
         \/ walk' = "none" /\ step' = "visit" /\ at' = 1 /\ batch' = {}
      /\ UNCHANGED <<now, gbn, hold, cur, seen, disk, open, tripped, trips, tries, direct,
                     crashes, faults>>
  BY DEF SubmitNothing, SubmitDone, EndWalk, cursorVars, switch, history
<1>2. cur = {}
  BY <1>1 DEF IInv, CurOK
<1>3. TypeOK'
  <2>1. 1 \in 1..N + 1
    BY PlanAssumption
  <2> QED BY <1>1, <2>1 DEF IInv, TypeOK
<1>4. WalkOK'
  BY <1>1 DEF IInv, WalkOK
<1>5. crashes + faults \in Nat
  BY DEF IInv, TypeOK
<1> QED BY <1>1, <1>2, <1>3, <1>4, <1>5, QuietStep

\* With GBN the mark is written first: the bar was not taken, nor submitted.
LEMMA SubmitMarkedKeeps ==
  ASSUME IInv, NEW i \in batch, SubmitMarked(i)
  PROVE  Kept
<1> DEFINE k == i.sleeve
           b == i.bar
<1>1. /\ step = "submit" /\ i.cursor /\ seen' = [seen EXCEPT ![k] = b] /\ disk' = seen'
      /\ batch' = batch \ {i}
      /\ \/ cur' = cur /\ step' = step
         \/ cur' = {i} /\ step' = "order"
      /\ UNCHANGED <<now, gbn, walk, at, hold, open, tripped, trips, tries, direct, crashes,
                     faults>>
  BY DEF SubmitMarked, Mark, switch, history
<1>2. k \in Sleeves /\ b \in Times /\ i \in Item
  BY DEF IInv, TypeOK, Item
<1>3. /\ seen[k] < b /\ b <= BarAt(now, k) /\ k \notin hold.visited
      /\ \A j \in batch : j.sleeve = k => j = i
      /\ gbn /\ cur = {} /\ walk # "none"
  BY <1>1 DEF IInv, BatchOK, WalkOK, CurOK
<1> HIDE DEF k, b
<1>4. /\ seen' \in [Sleeves -> Times] /\ disk' \in [Sleeves -> Times]
      /\ seen'[k] = b /\ \A j \in Sleeves : j # k => seen'[j] = seen[j]
      /\ \A j \in Sleeves : seen[j] <= seen'[j] /\ disk[j] <= disk'[j]
      /\ CursorOK(seen', disk', now)
  BY <1>1, <1>2, <1>3, Marked
<1>5. TypeOK'
  BY <1>1, <1>2, <1>4 DEF IInv, TypeOK
<1>6. WalkOK'
  BY <1>1, <1>3 DEF IInv, WalkOK
<1>7. HoldOK(hold, seen', now)
  <2>1. hold.pending \subseteq Item
    BY DEF IInv, TypeOK, Hold
  <2>2. \A j \in hold.pending : j.sleeve \in Sleeves
    BY <2>1 DEF Item
  <2>3. \A j \in hold.pending : j.sleeve # k
    BY <1>3 DEF IInv, HoldOK
  <2>4. \A j \in hold.pending : seen'[j.sleeve] = seen[j.sleeve]
    BY <1>4, <2>2, <2>3
  <2> QED BY <2>4, HoldMarked DEF IInv
<1>8. BatchOK(batch', hold, seen', now, trips)
  <2>1. BatchOK(batch', hold, seen, now, trips)
    BY <1>1 DEF IInv, BatchOK
  <2>2. \A j \in batch' : seen'[j.sleeve] = seen[j.sleeve]
    <3>1. \A j \in batch' : j.sleeve # k /\ j.sleeve \in Sleeves
      BY <1>1, <1>3 DEF IInv, TypeOK, Item
    <3> QED BY <1>4, <3>1
  <2> QED BY <2>1, <2>2, BatchMarked
<1>9. CurOK(cur', step', seen', disk', tries, now)
  <2>1. CASE cur' = {} /\ step' = "submit"
    BY <2>1 DEF CurOK
  <2>2. CASE cur' = {i} /\ step' = "order"
    <3>1. tries[k][b] = 0
      <4>1. disk[k] < b /\ disk[k] \in Int /\ b \in Int
        <5>1. Times \subseteq Int
          BY PlanAssumption DEF Times
        <5>2. disk[k] < b /\ disk[k] \in Times
          BY <1>2, <1>3, NotInTheFile DEF IInv, TypeOK
        <5> QED BY <1>2, <5>1, <5>2
      <4>2. ~(b <= disk[k])
        BY <4>1
      <4>3. tries[k][b] <= 0 /\ tries[k][b] \in Nat
        BY <1>2, <1>3, <4>2 DEF IInv, TriesOK, TypeOK
      <4> QED BY <4>3
    <3>2. b <= disk'[k]
      BY <1>1, <1>2, <1>4 DEF Times
    <3> QED BY <2>2, <3>1, <3>2 DEF CurOK, k, b
  <2> QED BY <1>1, <1>3, <2>1, <2>2
<1>10. TriesOK(tries, gbn, seen', disk', cur', crashes + faults)
  <2>1. crashes + faults \in Nat /\ TriesOK(tries, gbn, seen, disk, cur, crashes + faults)
        /\ tries \in [Sleeves -> [Times -> Nat]] /\ seen \in [Sleeves -> Times]
        /\ disk \in [Sleeves -> Times]
    BY DEF IInv, TypeOK
  <2>2. \A j \in cur : j \in cur' \/ j.bar <= seen'[j.sleeve]
    BY <1>3
  <2> QED BY <1>4, <2>1, <2>2, TriesMarked
<1>11. FinalStep
  BY <1>1, NoSubmission DEF IInv, history
<1> QED BY <1>1, <1>4, <1>5, <1>6, <1>7, <1>8, <1>9, <1>10, <1>11 DEF IInv, Kept

\* The order after the mark.
LEMMA OrderMarkedKeeps ==
  ASSUME IInv, NEW i \in cur, OrderMarked(i)
  PROVE  Kept
<1> DEFINE k == i.sleeve
           b == i.bar
<1>1. /\ step = "order" /\ Attempt(k) /\ tries' = Count(tries, k, b) /\ cur' = {}
      /\ step' = "submit"
      /\ UNCHANGED <<now, gbn, walk, at, hold, batch, seen, disk, tripped, trips, direct,
                     crashes, faults>>
  BY DEF OrderMarked, cursorVars, switch
<1>2. k \in Sleeves /\ b \in Times
  BY DEF IInv, TypeOK, Item
<1>3. b <= disk[k] /\ tries[k][b] = 0 /\ gbn
  BY <1>1 DEF IInv, CurOK, WalkOK
<1>4. \E j \in cur : j.sleeve = k /\ j.bar = b
  OBVIOUS
<1> HIDE DEF k, b
<1>5. tries' \in [Sleeves -> [Times -> Nat]] /\ FinalStep
  BY <1>1, <1>2, <1>4, OneSubmission DEF IInv
<1>6. open' \subseteq {SymbolOf[j] : j \in Sleeves}
  BY <1>1, <1>2, Attempted DEF IInv
<1>7. TypeOK'
  BY <1>1, <1>5, <1>6 DEF IInv, TypeOK
<1>8. WalkOK'
  BY <1>1 DEF IInv, WalkOK
<1>9. CurOK(cur', step', seen, disk, tries', now)
  BY <1>1 DEF CurOK
<1>10. TriesOK(tries', gbn, seen, disk, cur', crashes + faults)
  <2>1. tries \in [Sleeves -> [Times -> Nat]]
    BY DEF IInv, TypeOK
  <2>2. /\ tries'[k][b] = 1
        /\ \A l \in Sleeves, d \in Times : l # k \/ d # b => tries'[l][d] = tries[l][d]
    BY <1>1, <1>2, <1>3, <2>1, Counted
  <2>3. ASSUME NEW l \in Sleeves, NEW d \in Times
        PROVE  tries'[l][d] <= (IF d <= disk[l] THEN 1 ELSE 0)
    <3>1. CASE l = k /\ d = b
      BY <1>3, <2>2, <3>1
    <3>2. CASE l # k \/ d # b
      <4>1. tries[l][d] <= (IF d <= disk[l] THEN 1 ELSE 0)
        BY <1>3 DEF IInv, TriesOK
      <4> QED BY <2>2, <3>2, <4>1
    <3> QED BY <3>1, <3>2
  <2> QED BY <1>3, <2>3 DEF TriesOK
<1>11. CursorOK(seen, disk, now) /\ HoldOK(hold, seen, now)
       /\ BatchOK(batch, hold, seen, now, trips)
  BY DEF IInv
<1> QED BY <1>1, <1>5, <1>7, <1>8, <1>9, <1>10, <1>11 DEF IInv, Kept

\* A signal of the cycle's own scan is ordered without the cursor.
LEMMA SubmitScannedKeeps ==
  ASSUME IInv, NEW i \in batch, SubmitScanned(i)
  PROVE  Kept
<1> DEFINE k == i.sleeve
           b == i.bar
<1>1. /\ step = "submit" /\ ~i.cursor /\ Attempt(k) /\ direct' = Count(direct, k, b)
      /\ batch' = batch \ {i}
      /\ UNCHANGED <<now, gbn, walk, step, at, hold, cur, seen, disk, tripped, trips, tries,
                     crashes, faults>>
  BY DEF SubmitScanned, cursorVars, switch
<1>2. k \in Sleeves /\ b \in Times
  BY DEF IInv, TypeOK, Item
<1>3. trips = 0 => seen[k] < b
  BY DEF IInv, BatchOK
<1>4. \E j \in batch : ~j.cursor /\ j.sleeve = k /\ j.bar = b
  BY <1>1
<1> HIDE DEF k, b
<1>5. trips > 0 \/ disk[k] # b
  <2>1. trips \in Nat
    BY DEF IInv, TypeOK
  <2> QED BY <1>2, <1>3, <2>1, NotInTheFile
<1>6. direct' \in [Sleeves -> [Times -> Nat]] /\ FinalStep
  BY <1>1, <1>2, <1>4, <1>5, OneSubmission DEF IInv
<1>7. open' \subseteq {SymbolOf[j] : j \in Sleeves}
  BY <1>1, <1>2, Attempted DEF IInv
<1>8. TypeOK'
  BY <1>1, <1>6, <1>7 DEF IInv, TypeOK
<1>9. WalkOK'
  BY <1>1 DEF IInv, WalkOK
<1>10. BatchOK(batch', hold, seen, now, trips)
  BY <1>1 DEF IInv, BatchOK
<1>11. CurOK(cur, step, seen, disk, tries, now) /\ CursorOK(seen, disk, now)
       /\ HoldOK(hold, seen, now) /\ TriesOK(tries, gbn, seen, disk, cur, crashes + faults)
  BY DEF IInv
<1> QED BY <1>1, <1>6, <1>8, <1>9, <1>10, <1>11 DEF IInv, Kept

(***************************************************************************)
(* Troubles                                                                *)
(***************************************************************************)

\* One more trouble excuses one more submission of every bar, in plan order.
LEMMA Troubled ==
  ASSUME NEW tr \in [Sleeves -> [Times -> Nat]], NEW g, NEW sn, NEW sm, NEW dk, NEW cu, NEW cv,
         NEW c \in Nat, TriesOK(tr, g, sn, dk, cu, c)
  PROVE  TriesOK(tr, g, sm, dk, cv, c + 1)
<1> SUFFICES ASSUME NEW k \in Sleeves, NEW b \in Times
             PROVE  IF g THEN tr[k][b] <= (IF b <= dk[k] THEN 1 ELSE 0)
                    ELSE tr[k][b] <= c + 1 + (IF b <= sm[k] \/ (\E i \in cv : i.sleeve = k /\ i.bar = b)
                                              THEN 1 ELSE 0)
  BY DEF TriesOK
<1>1. CASE g
  BY <1>1 DEF TriesOK
<1>2. CASE ~g
  <2>1. tr[k][b] <= c + (IF b <= sn[k] \/ (\E i \in cu : i.sleeve = k /\ i.bar = b)
                         THEN 1 ELSE 0)
    BY <1>2 DEF TriesOK
  <2>2. tr[k][b] \in Nat /\ tr[k][b] <= c + 1
    BY <2>1
  <2> QED BY <1>2, <2>2
<1> QED BY <1>1, <1>2

\* A walk that is abandoned.
LEMMA Abandoned ==
  ASSUME IInv, walk' = "none", step' = "visit", batch' = {}, cur' = {}, at' \in 1..N + 1,
         UNCHANGED <<now, gbn, tripped, trips, tries, direct, open>>,
         hold' \in {hold, NoHold}, disk' = disk, seen' \in [Sleeves -> Times],
         HoldOK(hold', seen', now), CursorOK(seen', disk, now),
         crashes' \in Nat, faults' \in Nat,
         crashes' + faults' = crashes + faults + 1
  PROVE  Kept
<1>1. TypeOK'
  <2>1. NoHold \in Hold
    BY DEF NoHold, Hold
  <2> QED BY <2>1 DEF IInv, TypeOK
<1>2. WalkOK'
  BY DEF IInv, WalkOK
<1>3. BatchOK(batch', hold', seen', now', trips') /\ CurOK(cur', step', seen', disk', tries', now')
  BY DEF BatchOK, CurOK
<1>4. TriesOK(tries, gbn, seen', disk, cur', crashes' + faults')
  <2> DEFINE c == crashes + faults
  <2>1. /\ c \in Nat /\ tries \in [Sleeves -> [Times -> Nat]]
        /\ TriesOK(tries, gbn, seen, disk, cur, c)
    BY DEF IInv, TypeOK
  <2>2. crashes' + faults' = c + 1
    OBVIOUS
  <2> HIDE DEF c
  <2>3. TriesOK(tries, gbn, seen', disk, cur', c + 1)
    BY <2>1, Troubled
  <2> QED BY <2>2, <2>3
<1>5. FinalStep
  BY NoSubmission DEF IInv, history
<1> QED BY <1>1, <1>2, <1>3, <1>4, <1>5 DEF IInv, Kept

\* The mark moved in memory, and the write raised.
LEMMA MarkRaisesKeeps ==
  ASSUME IInv, NEW k \in Sleeves, NEW b \in Times, seen[k] < b, b <= BarAt(now, k),
         k \notin hold.visited, MarkRaises(k, b)
  PROVE  Kept
<1>1. /\ seen' = [seen EXCEPT ![k] = b] /\ faults' = faults + 1 /\ disk' = disk
      /\ walk' = "none" /\ step' = "visit" /\ at' = 1 /\ batch' = {} /\ cur' = {}
      /\ UNCHANGED <<now, gbn, hold, open, tripped, trips, tries, direct, crashes>>
  BY DEF MarkRaises, switch, history
<1>2. /\ seen' \in [Sleeves -> Times] /\ CursorOK(seen', disk, now)
      /\ \A j \in Sleeves : j # k => seen'[j] = seen[j]
  BY <1>1, Marked
<1>3. HoldOK(hold, seen', now)
  <2>1. hold.pending \subseteq Item
    BY DEF IInv, TypeOK, Hold
  <2>2. \A j \in hold.pending : j.sleeve \in Sleeves /\ j.sleeve # k
    BY <2>1 DEF Item, IInv, HoldOK
  <2>3. \A j \in hold.pending : seen'[j.sleeve] = seen[j.sleeve]
    BY <1>2, <2>2
  <2> QED BY <2>3, HoldMarked DEF IInv
<1>4. 1 \in 1..N + 1 /\ crashes \in Nat /\ faults \in Nat
  BY PlanAssumption DEF IInv, TypeOK
<1>5. crashes' + faults' = crashes + faults + 1 /\ crashes' \in Nat /\ faults' \in Nat
  BY <1>1, <1>4
<1> QED BY <1>1, <1>2, <1>3, <1>4, <1>5, Abandoned

\* Wherever it raises, the bar was not taken and its sleeve is not held.
LEMMA WriteRaisesKeeps ==
  ASSUME IInv, WriteRaises
  PROVE  Kept
<1>1. ASSUME NEW k \in Sleeves, Evaluates(k), MarkRaises(k, Bar(k))
      PROVE  Kept
  <2>1. /\ Bar(k) = BarAt(now, k) /\ Bar(k) \in Times /\ seen[k] < Bar(k)
        /\ k \notin hold.visited
    BY <1>1, Evaluated
  <2>2. Bar(k) <= BarAt(now, k)
    BY <2>1 DEF Times
  <2> QED BY <1>1, <2>1, <2>2, MarkRaisesKeeps
<1>2. ASSUME NEW i \in cur, step = "mark", MarkRaises(i.sleeve, i.bar)
      PROVE  Kept
  <2>1. /\ i.sleeve \in Sleeves /\ i.bar \in Times
        /\ seen[i.sleeve] < i.bar /\ i.bar <= BarAt(now, i.sleeve)
    BY <1>2 DEF IInv, TypeOK, Item, CurOK
  <2>2. i.sleeve \notin hold.visited
    BY <1>2 DEF IInv, WalkOK, NoHold
  <2> QED BY <1>2, <2>1, <2>2, MarkRaisesKeeps
<1>3. ASSUME NEW i \in batch, i.cursor, MarkRaises(i.sleeve, i.bar)
      PROVE  Kept
  <2>1. /\ i.sleeve \in Sleeves /\ i.bar \in Times
        /\ seen[i.sleeve] < i.bar /\ i.bar <= BarAt(now, i.sleeve)
        /\ i.sleeve \notin hold.visited
    BY <1>3 DEF IInv, TypeOK, Item, BatchOK
  <2> QED BY <1>3, <2>1, MarkRaisesKeeps
<1> QED BY <1>1, <1>2, <1>3 DEF WriteRaises

\* The order raised: the rest of the walk is dropped.
LEMMA OrderRaisesKeeps ==
  ASSUME IInv, OrderRaises
  PROVE  Kept
<1>1. /\ faults' = faults + 1 /\ walk' = "none" /\ step' = "visit" /\ at' = 1
      /\ batch' = {} /\ cur' = {}
      /\ UNCHANGED <<now, gbn, hold, seen, disk, open, tripped, trips, tries, direct, crashes>>
  BY DEF OrderRaises, EndWalk, cursorVars, switch, history
<1>2. /\ 1 \in 1..N + 1 /\ crashes \in Nat /\ faults \in Nat /\ seen \in [Sleeves -> Times]
      /\ HoldOK(hold, seen, now) /\ CursorOK(seen, disk, now)
  BY PlanAssumption DEF IInv, TypeOK
<1>3. crashes' + faults' = crashes + faults + 1 /\ crashes' \in Nat /\ faults' \in Nat
  BY <1>1, <1>2
<1> QED BY <1>1, <1>2, <1>3, Abandoned

\* The process dies: what was held is gone, the cursor is the file's.
LEMMA CrashKeeps ==
  ASSUME IInv, CrashAndRestart
  PROVE  Kept
<1>1. /\ crashes' = crashes + 1 /\ walk' = "none" /\ step' = "visit" /\ at' = 1
      /\ hold' = NoHold /\ batch' = {} /\ cur' = {} /\ seen' = disk
      /\ UNCHANGED <<now, gbn, disk, open, tripped, trips, tries, direct, faults>>
  BY DEF CrashAndRestart, switch, history
<1>2. /\ crashes \in Nat /\ faults \in Nat /\ disk \in [Sleeves -> Times] /\ now \in Times
      /\ seen \in [Sleeves -> Times]
      /\ \A k \in Sleeves : disk[k] <= seen[k] /\ seen[k] <= BarAt(now, k)
  BY DEF IInv, TypeOK, CursorOK
<1>3. 1 \in 1..N + 1
  BY PlanAssumption
<1>4. CursorOK(disk, disk, now)
  <2>1. \A k \in Sleeves : disk[k] \in Int /\ seen[k] \in Int /\ BarAt(now, k) \in Int
    BY <1>2, BarOf DEF Times
  <2> QED BY <1>2, <2>1 DEF CursorOK
<1>5. HoldOK(NoHold, disk, now)
  BY DEF HoldOK, NoHold
<1>6. crashes' + faults' = crashes + faults + 1 /\ crashes' \in Nat /\ faults' \in Nat
  BY <1>1, <1>2
<1> QED BY <1>1, <1>2, <1>3, <1>4, <1>5, <1>6, Abandoned

(***************************************************************************)
(* Time, the exit thread and the switch                                    *)
(***************************************************************************)

\* Time goes on: no sleeve's bar goes back.
LEMMA TickKeeps ==
  ASSUME IInv, Tick
  PROVE  Kept
<1>1. /\ now < MaxTime /\ now' = now + 1
      /\ UNCHANGED <<gbn, walk, step, at, hold, batch, cur, seen, disk, open, tripped, trips,
                     tries, direct, crashes, faults>>
  BY DEF Tick, cursorVars, switch, history
<1>2. now \in Times /\ now' \in Times /\ Times \subseteq Int
  BY <1>1, PlanAssumption DEF IInv, TypeOK, Times
<1>3. \A k \in Sleeves : /\ BarAt(now, k) <= BarAt(now', k)
                         /\ BarAt(now, k) \in Int /\ BarAt(now', k) \in Int
  BY <1>1, <1>2, BarOf
<1>4. /\ seen \in [Sleeves -> Times] /\ batch \subseteq Item /\ cur \subseteq Item
      /\ hold.pending \subseteq Item /\ at \in 1..N + 1
  BY DEF IInv, TypeOK, Hold
<1>5. \A k \in Sleeves : seen[k] \in Int
  BY <1>2, <1>4
<1>6. \A i \in Item : i.sleeve \in Sleeves /\ i.bar \in Int
  BY <1>2 DEF Item
<1>7. TypeOK'
  BY <1>1, <1>2 DEF IInv, TypeOK
<1>8. CursorOK(seen, disk, now')
  BY <1>3, <1>5 DEF IInv, CursorOK
<1>9. \A i \in Item : i.bar <= BarAt(now, i.sleeve) => i.bar <= BarAt(now', i.sleeve)
  BY <1>3, <1>6
<1>10. HoldOK(hold, seen, now')
  BY <1>4, <1>9 DEF IInv, HoldOK
<1>11. BatchOK(batch, hold, seen, now', trips)
  BY <1>4, <1>9 DEF IInv, BatchOK
<1>12. CurOK(cur, step, seen, disk, tries, now')
  BY <1>4, <1>9 DEF IInv, CurOK
<1>13. WalkOK'
  <2>1. step = "scan" => at \in Sleeves
    BY <1>4 DEF IInv, WalkOK, Sleeves
  <2>2. step = "scan" /\ trips = 0 => seen[at] < BarAt(now', at)
    <3>1. step = "scan" /\ trips = 0 => seen[at] < BarAt(now, at)
      BY DEF IInv, WalkOK
    <3> QED BY <1>3, <1>5, <2>1, <3>1
  <2> QED BY <1>1, <2>2 DEF IInv, WalkOK
<1>14. TriesOK(tries, gbn, seen, disk, cur, crashes + faults)
  BY DEF IInv
<1>15. FinalStep
  BY <1>1, NoSubmission DEF IInv, history
<1> QED BY <1>1, <1>7, <1>8, <1>10, <1>11, <1>12, <1>13, <1>14, <1>15 DEF IInv, Kept

\* A position is closed, or the switch is tripped or reset.
LEMMA WorldKeeps ==
  ASSUME IInv, ExitFills \/ Trip \/ Reset
  PROVE  Kept
<1>1. /\ open' \subseteq open
      /\ \/ trips' = trips /\ (tripped' = tripped \/ ~tripped')
         \/ trips' = trips + 1 /\ tripped'
      /\ tripped' \in BOOLEAN
      /\ UNCHANGED <<now, gbn, walk, step, at, hold, batch, cur, seen, disk, tries, direct,
                     crashes, faults>>
  BY DEF ExitFills, Trip, Reset, cursorVars, switch, history, IInv, TypeOK
<1>2. trips' \in Nat /\ (trips' = trips \/ trips' # 0)
  BY <1>1 DEF IInv, TypeOK
<1>3. TypeOK'
  BY <1>1, <1>2 DEF IInv, TypeOK
<1>4. WalkOK'
  BY <1>1, <1>2 DEF IInv, WalkOK, TypeOK
<1>5. crashes + faults \in Nat
  BY DEF IInv, TypeOK
<1> QED BY <1>1, <1>2, <1>3, <1>4, <1>5, QuietStep

\* Nothing happens.
LEMMA StutterKeeps ==
  ASSUME IInv, UNCHANGED vars
  PROVE  Kept
<1>1. UNCHANGED <<now, gbn, walk, step, at, hold, batch, cur, seen, disk, open, tripped, trips,
                  tries, direct, crashes, faults>>
  BY DEF vars, cursorVars, switch, history
<1>2. TypeOK' /\ WalkOK' /\ crashes + faults \in Nat
  BY <1>1 DEF IInv, TypeOK, WalkOK
<1> QED BY <1>1, <1>2, QuietStep

(***************************************************************************)
(* The specification                                                       *)
(***************************************************************************)

\* No bar is taken, nothing is held.
LEMMA InitHolds ==
  ASSUME Init
  PROVE  IInv
<1>1. /\ now = Start /\ gbn \in BOOLEAN /\ walk = "none" /\ step = "visit" /\ at = 1
      /\ hold = NoHold /\ batch = {} /\ cur = {} /\ seen = [k \in Sleeves |-> 0] /\ disk = seen
      /\ open = {} /\ tripped = FALSE /\ trips = 0
      /\ tries = [k \in Sleeves |-> [b \in Times |-> 0]] /\ direct = tries
      /\ crashes = 0 /\ faults = 0
  BY DEF Init
<1>2. Start \in Times /\ 0 \in Times /\ 1 \in 1..N + 1
  BY PlanAssumption DEF Times
<1>3. NoHold \in Hold
  BY DEF NoHold, Hold
<1>4. tries \in [Sleeves -> [Times -> Nat]]
  BY <1>1
<1>5. TypeOK
  BY <1>1, <1>2, <1>3, <1>4 DEF TypeOK
<1>6. WalkOK
  BY <1>1 DEF WalkOK
<1>7. CursorOK(seen, disk, now)
  <2>1. \A k \in Sleeves : BarAt(now, k) \in Times
    BY <1>1, <1>2, BarOf
  <2>2. \A k \in Sleeves : 0 <= BarAt(now, k)
    BY <2>1 DEF Times
  <2> QED BY <1>1, <2>2 DEF CursorOK
<1>8. /\ HoldOK(hold, seen, now) /\ BatchOK(batch, hold, seen, now, trips)
      /\ CurOK(cur, step, seen, disk, tries, now)
  BY <1>1 DEF HoldOK, BatchOK, CurOK, NoHold
<1>9. TriesOK(tries, gbn, seen, disk, cur, crashes + faults)
  <2>1. \A k \in Sleeves, b \in Times : tries[k][b] = 0
    BY <1>1
  <2> QED BY <1>1, <2>1 DEF TriesOK
<1> QED BY <1>5, <1>6, <1>7, <1>8, <1>9 DEF IInv

\* Every step keeps the invariant, and submits no bar that is marked.
LEMMA StepHolds ==
  ASSUME IInv, [Next]_vars
  PROVE  Kept
<1>1. ASSUME Walk PROVE Kept
  BY <1>1, SkipKeeps, MarkFlatKeeps, DeferKeeps, OrderNowKeeps, PollEndsKeeps, LeaveToScanKeeps,
     ScanSignalKeeps, FinishPollKeeps, FinishCycleKeeps DEF Walk, Take
<1>2. ASSUME Submit PROVE Kept
  BY <1>2, MarkOrderedKeeps, OrderMarkedKeeps, SubmitNothingKeeps, SubmitMarkedKeeps,
     SubmitScannedKeeps DEF Submit
<1> QED BY <1>1, <1>2, StartPollKeeps, StartCycleKeeps, PollEndsKeeps, WriteRaisesKeeps,
           OrderRaisesKeeps, TickKeeps, WorldKeeps, CrashKeeps, StutterKeeps DEF Next

\* The inductive invariant holds in every state.
LEMMA Inductive == Spec => []IInv
<1>1. Init => IInv
  BY InitHolds
<1>2. IInv /\ [Next]_vars => IInv'
  BY StepHolds DEF Kept
<1> QED BY <1>1, <1>2, PTL DEF Spec

\* Types: bars are instants, and a place in the plan stays in it.
THEOREM TypeCorrect == Spec => []TypeOK
<1>1. IInv => TypeOK
  BY DEF IInv
<1> QED BY <1>1, Inductive, PTL

\* A bar's signal is submitted through the cursor once: with GBN always, in
\* plan order unless a death or a failed write came between order and cursor.
THEOREM SubmittedOnceOnly == Spec => []SubmittedOnce
<1>1. IInv => SubmittedOnce
  <2> SUFFICES ASSUME IInv, NEW k \in Sleeves, NEW b \in Times
               PROVE  tries[k][b] <= 1 + (IF gbn THEN 0 ELSE crashes + faults)
    BY DEF SubmittedOnce
  <2>1. tries[k][b] \in Nat /\ crashes \in Nat /\ faults \in Nat
    BY DEF IInv, TypeOK
  <2>2. CASE gbn
    <3>1. tries[k][b] <= (IF b <= disk[k] THEN 1 ELSE 0)
      BY <2>2 DEF IInv, TriesOK
    <3> QED BY <2>1, <2>2, <3>1
  <2>3. CASE ~gbn
    <3>1. tries[k][b] <= crashes + faults
            + (IF b <= seen[k] \/ (\E i \in cur : i.sleeve = k /\ i.bar = b) THEN 1 ELSE 0)
      BY <2>3 DEF IInv, TriesOK
    <3> QED BY <2>1, <2>3, <3>1
  <2> QED BY <2>2, <2>3
<1> QED BY <1>1, Inductive, PTL

\* The batch the poll holds never mixes two bars of one timeframe.
THEOREM OneBarHeld == Spec => []HeldBatchIsOneBar
<1>1. IInv => HeldBatchIsOneBar
  <2> SUFFICES ASSUME IInv, NEW i \in hold.pending, NEW j \in hold.pending,
                      StepOf[i.sleeve] = StepOf[j.sleeve]
               PROVE  i.bar = j.bar
    BY DEF HeldBatchIsOneBar
  <2> DEFINE a == <<StepOf[i.sleeve], i.bar>>
             c == <<StepOf[j.sleeve], j.bar>>
  <2>1. a \in hold.anchors /\ c \in hold.anchors
    BY DEF IInv, HoldOK
  <2>2. a[1] = c[1]
    OBVIOUS
  <2>3. a[2] = c[2]
    BY <2>1, <2>2 DEF IInv, HoldOK
  <2> QED BY <2>3
<1> QED BY <1>1, Inductive, PTL

\* A bar whose mark reached the file is not submitted again, in this process
\* or a later one, but for the order the mark was written for and for a scan
\* during which the switch tripped.
THEOREM MarkedIsFinalAlways == Spec => MarkedIsFinal
<1>1. IInv /\ [Next]_vars => FinalStep
  BY StepHolds DEF Kept
<1>2. Spec => [][FinalStep]_vars
  BY <1>1, Inductive, PTL DEF Spec
<1> QED BY <1>2 DEF MarkedIsFinal, FinalStep

\* A cycle that gathers a batch through the cursor leaves out the sleeves whose
\* signal the poll holds.
THEOREM OneSignalOneHolder == Spec => []OneHolder
<1>1. IInv => OneHolder
  <2> SUFFICES ASSUME IInv, NEW i \in hold.pending, NEW j \in batch, j.cursor
               PROVE  i.sleeve # j.sleeve
    BY DEF OneHolder
  <2>1. i.sleeve \in hold.visited
    BY DEF IInv, HoldOK
  <2>2. j.sleeve \notin hold.visited
    BY DEF IInv, BatchOK
  <2> QED BY <2>1, <2>2
<1> QED BY <1>1, Inductive, PTL
=============================================================================
