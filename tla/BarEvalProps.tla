---------------------------- MODULE BarEvalProps ----------------------------
(***************************************************************************)
(* The properties of BarEval.                                              *)
(***************************************************************************)
EXTENDS BarEval

\* One type invariant: bars are instants, a place in the plan stays in it.
TypeOK ==
  /\ now \in Times
  /\ gbn \in BOOLEAN
  /\ walk \in {"none", "poll", "cycle"}
  /\ step \in {"visit", "scan", "mark", "submit", "order"}
  /\ at \in 1 .. N + 1
  /\ hold \in Hold
  /\ batch \subseteq Item /\ cur \subseteq Item
  /\ seen \in [Sleeves -> Times] /\ disk \in [Sleeves -> Times]
  /\ open \subseteq {SymbolOf[k] : k \in Sleeves}
  /\ tripped \in BOOLEAN
  /\ tries \in [Sleeves -> [Times -> Nat]]
  /\ direct \in [Sleeves -> [Times -> Nat]]
  /\ crashes \in Nat /\ faults \in Nat /\ trips \in Nat

\* Through the cursor a signal is submitted once: with GBN always, because
\* the cursor is written first; in plan order unless a death or a failed
\* cursor write fell between the order and the cursor.
SubmittedOnce ==
  \A k \in Sleeves, b \in Times :
    tries[k][b] <= 1 + (IF gbn THEN 0 ELSE crashes + faults)

\* A signal is never both in the batch the poll holds and in the one a cycle
\* is gathering through the cursor (cycle_paper_bar skips what the poll holds).
OneHolder ==
  \A i \in hold.pending, j \in batch : j.cursor => i.sleeve # j.sleeve

\* The poll never mixes two bars of one timeframe in the batch it holds.
HeldBatchIsOneBar ==
  \A i, j \in hold.pending : StepOf[i.sleeve] = StepOf[j.sleeve] => i.bar = j.bar

\* A bar whose mark reached the disk is never submitted again, by a poll, a
\* cycle or a process started later.  The signal being ordered is the exception
\* (with GBN the mark comes first), and so is a cycle during which the switch
\* tripped, whose own scan does not read the cursor.
MarkedIsFinal ==
  [][ \A k \in Sleeves, b \in Times :
        disk[k] = b /\ tries'[k][b] + direct'[k][b] > tries[k][b] + direct[k][b]
          => \/ \E i \in cur : i.sleeve = k /\ i.bar = b
             \/ trips > 0 /\ step = "scan"
             \/ trips > 0 /\ \E i \in batch : ~i.cursor /\ i.sleeve = k /\ i.bar = b ]_vars

\* Polls keep coming, and now and then one gets through the plan within its
\* budget; a walk that began goes on, an operator resets the switch, and the
\* exchange eventually publishes a bar while the book and the gates allow its
\* sleeve to be visited.
Fairness ==
  /\ []<><<FinishPoll>>_vars
  /\ WF_vars(Walk) /\ WF_vars(Submit) /\ WF_vars(Reset)
  /\ \A k \in Sleeves : SF_vars(Take(k))
  /\ SF_vars(\E i \in batch : SubmitMarked(i))

FairSpec == Spec /\ Fairness

\* While the clock stays inside a bar's window, the bar is taken: no hold,
\* budget, trip or death keeps a due sleeve from the cursor for ever.
DueBarIsTaken ==
  \A k \in Sleeves : (now = MaxTime /\ Due(k)) ~> ~Due(k)

\* One evaluation per closed bar per sleeve, hence one submission
\* (paper_bar_eval.py, module rules).
OneSubmissionPerBar ==
  \A k \in Sleeves, b \in Times : tries[k][b] + direct[k][b] <= 1

\* A batch is never split: while the poll holds a signal of a bar, no signal of
\* that bar and timeframe has been sent to the risk engine
\* (_poll_due_sleeves_gbn, docstring).
BatchIsNotSplit ==
  \A i \in hold.pending, k \in Sleeves :
    StepOf[k] = StepOf[i.sleeve] => tries[k][i.bar] = 0

---------------------------------------------------------------------------
(* The inductive invariant behind the safety properties. *)

BarAt(n, k) == n - (n % StepOf[k])

\* The file is never ahead of memory, nor memory of the last closed bar: a
\* sleeve's bars are taken in the order in which they close.
CursorOK(sn, dk, n) == \A k \in Sleeves : dk[k] <= sn[k] /\ sn[k] <= BarAt(n, k)

\* What the poll holds is one bar per timeframe, one signal per sleeve, and
\* not taken yet.
HoldOK(h, sn, n) ==
  /\ \A i \in h.pending : /\ i.cursor /\ i.sleeve \in h.visited
                          /\ <<StepOf[i.sleeve], i.bar>> \in h.anchors
                          /\ sn[i.sleeve] < i.bar /\ i.bar <= BarAt(n, i.sleeve)
  /\ \A i, j \in h.pending : i.sleeve = j.sleeve => i = j
  /\ \A a, b \in h.anchors : a[1] = b[1] => a[2] = b[2]

\* A batch has one signal per sleeve, none of a sleeve the poll holds; what is
\* in it is not taken yet, unless the switch tripped during the scan.
BatchOK(b, h, sn, n, trouble) ==
  /\ \A i, j \in b : i.sleeve = j.sleeve => i = j
  /\ \A i \in b : i.cursor \/ trouble = 0 => sn[i.sleeve] < i.bar
  /\ \A i \in b : i.bar <= BarAt(n, i.sleeve) /\ (i.cursor => i.sleeve \notin h.visited)

\* The signal being ordered: not marked yet in plan order, marked with GBN.
CurOK(c, st, sn, dk, tr, n) ==
  /\ \A i, j \in c : i = j
  /\ st \notin {"mark", "order"} => c = {}
  /\ st = "mark" => \A i \in c : sn[i.sleeve] < i.bar /\ i.bar <= BarAt(n, i.sleeve)
  /\ st = "order" => \A i \in c : i.bar <= dk[i.sleeve] /\ tr[i.sleeve][i.bar] = 0

\* Submissions through the cursor: with GBN only of bars whose mark is in the
\* file; in plan order, one more than the troubles if the bar is taken.
TriesOK(tr, g, sn, dk, c, trouble) ==
  \A k \in Sleeves, b \in Times :
    IF g THEN tr[k][b] <= (IF b <= dk[k] THEN 1 ELSE 0)
    ELSE tr[k][b] <= trouble + (IF b <= sn[k] \/ (\E i \in c : i.sleeve = k /\ i.bar = b)
                                THEN 1 ELSE 0)

\* Where a walk can be, and what it can have in hand there.
WalkOK ==
  /\ walk = "none" => step = "visit" /\ batch = {}
  /\ walk = "poll" /\ step = "visit" => batch = {}
  /\ walk = "poll" /\ step \in {"submit", "order"} => hold = NoHold
  /\ walk = "cycle" /\ step \in {"visit", "scan"} => \A i \in batch : i.sleeve < at
  /\ step \in {"scan", "mark"} => at <= N
  /\ step = "scan" => walk = "cycle" /\ (trips = 0 => seen[at] < BarAt(now, at))
  /\ step = "mark" => ~gbn
  /\ step = "order" => gbn
  /\ ~gbn => hold = NoHold /\ batch = {}
  /\ tripped => trips # 0

IInv ==
  /\ TypeOK
  /\ WalkOK
  /\ CursorOK(seen, disk, now)
  /\ HoldOK(hold, seen, now)
  /\ BatchOK(batch, hold, seen, now, trips)
  /\ CurOK(cur, step, seen, disk, tries, now)
  /\ TriesOK(tries, gbn, seen, disk, cur, crashes + faults)
===========================================================================
