------------------------------ MODULE BarEval ------------------------------
(***************************************************************************)
(* Which closed bar of which sleeve is evaluated, and when its signal is   *)
(* submitted: the 15 second poll, the 900 second cycle, the cursor on      *)
(* disk, and the batch the poll holds in memory when GBN ordering is on.   *)
(*                                                                         *)
(* One thread runs polls and cycles in turn; between two visits time may   *)
(* pass, a position may be closed by the exit thread, the kill switch may  *)
(* be tripped, or the process may die.                                     *)
(*                                                                         *)
(* A bar is named by its close; time is counted in latency windows.        *)
(* Whether a bar is published, a gate sits the sleeve out or a strategy    *)
(* has a signal is arbitrary at every visit.                               *)
(***************************************************************************)
EXTENDS Integers, FiniteSets

CONSTANTS
  N,           \* sleeves, named by their place in the scan plan
  SymbolOf,    \* symbol of each sleeve
  StepOf,      \* length of each sleeve's bar, in latency windows
  Start,       \* first instant, after one bar of every length
  MaxTime,     \* bound: last instant
  MaxScans,    \* bound: bars that the cycle's own scan submits, each once
  MaxTroubles  \* bound: deaths, exceptions and trips of the kill switch

Sleeves == 1 .. N
Times == 0 .. MaxTime

ASSUME PlanAssumption ==
  /\ N \in Nat /\ Start \in Nat /\ MaxTime \in Nat /\ Start <= MaxTime
  /\ MaxScans \in Nat /\ MaxTroubles \in Nat
  /\ StepOf \in [Sleeves -> Nat \ {0}]
  /\ \A k \in Sleeves : StepOf[k] <= Start

VARIABLES
  now,      \* engine._now
  gbn,      \* the ENTRY_ORDERING_GBN flag of this process
  walk,     \* "none", "poll" or "cycle"
  step,     \* what the walk does next
  at,       \* place in the plan
  hold,     \* BarEvalState.gbn_hold
  batch,    \* signals being submitted, or gathered by a cycle
  cur,      \* the signal being ordered
  seen,     \* the cursor in memory: last bar taken, by sleeve
  disk,     \* paper_bar_eval_state.json
  open,     \* symbols with an open position
  tripped,  \* the kill switch
  tries,    \* history: submissions through the cursor, by sleeve and bar
  direct,   \* history: submissions of the cycle's own scan
  crashes, faults, trips

cursorVars == <<seen, disk>>
history    == <<tries, direct>>
switch     == <<tripped, trips>>
vars == <<now, gbn, walk, step, at, hold, batch, cur, cursorVars, open,
          switch, history, crashes, faults>>

Item   == [sleeve : Sleeves, bar : Times, cursor : BOOLEAN]
Hold   == [visited : SUBSET Sleeves, pending : SUBSET Item,
           anchors : SUBSET (Nat \X Times)]
NoHold == [visited |-> {}, pending |-> {}, anchors |-> {}]
---------------------------------------------------------------------------
(* The clock and the cursor. *)

LastClosed(len) == now - (now % len)
Bar(k) == LastClosed(StepOf[k])
InWindow(len) == now = LastClosed(len)
Actionable(k) == InWindow(StepOf[k])

\* Fault: the cursor is not consulted.
DueAgain(k) == Actionable(k)

\* The sleeve's last closed bar is inside its window and not yet taken.
Due(k) == Actionable(k) /\ seen[k] # Bar(k)

\* An anchored bar is no longer the actionable closed bar.
Rolled == \E a \in hold.anchors : LastClosed(a[1]) # a[2] \/ ~InWindow(a[1])

\* Fault: time passing inside a walk is not noticed.
NeverMoved(k) == FALSE

\* Fault: the bar the batch is anchored on is taken for another one.
AnchorNeverMatches(k) == \E a \in hold.anchors : a[1] = StepOf[k]

\* A bar closed since the batch was anchored on this timeframe.
AnchorMoved(k) == \E a \in hold.anchors : a[1] = StepOf[k] /\ a[2] # Bar(k)

\* Fault: the cycle ignores what the poll holds.
HeldByNobody(k) == FALSE

\* The poll holds this sleeve's signal or has finished its bar.
HeldByPoll(k) == k \in hold.visited

\* Fault: a held signal that does not say which bar it is for.
SignalOfNoBar(k, viaCursor) == [sleeve |-> k, cursor |-> viaCursor]

Signal(k, viaCursor) == [sleeve |-> k, bar |-> Bar(k), cursor |-> viaCursor]

MoreTrouble == crashes + faults + trips < MaxTroubles

\* Fault: the cursor moves in memory only.
MarkInMemory(k, b) ==
  /\ seen' = [seen EXCEPT ![k] = b]
  /\ UNCHANGED <<disk, faults>>

\* BarEvalState.mark: memory, then the whole file.
Mark(k, b) ==
  /\ seen' = [seen EXCEPT ![k] = b]
  /\ disk' = seen'
  /\ UNCHANGED faults

\* The file is not written, and the exception abandons the walk.
MarkRaises(k, b) ==
  /\ MoreTrouble /\ faults' = faults + 1
  /\ seen' = [seen EXCEPT ![k] = b]
  /\ walk' = "none" /\ step' = "visit" /\ at' = 1 /\ batch' = {} /\ cur' = {}
  /\ UNCHANGED <<now, gbn, hold, disk, open, switch, history, crashes>>

\* _attempt_entry: rejected, or filled if the book and the switch allow it.
Attempt(k) ==
  open' \in {open} \cup (IF tripped \/ SymbolOf[k] \in open THEN {}
                         ELSE {open \cup {SymbolOf[k]}})

Count(h, k, b) == [h EXCEPT ![k][b] = @ + 1]
---------------------------------------------------------------------------
Init ==
  /\ now = Start
  /\ gbn \in BOOLEAN
  /\ walk = "none" /\ step = "visit" /\ at = 1
  /\ hold = NoHold
  /\ batch = {} /\ cur = {}
  /\ seen = [k \in Sleeves |-> 0] /\ disk = seen
  /\ open = {}
  /\ tripped = FALSE /\ trips = 0
  /\ tries = [k \in Sleeves |-> [b \in Times |-> 0]] /\ direct = tries
  /\ crashes = 0 /\ faults = 0

Visiting(w) == walk = w /\ step = "visit" /\ at <= N
WalkDone(w) == walk = w /\ step = "visit" /\ at > N
NextSleeve == at' = at + 1 /\ UNCHANGED <<walk, step>>
EndWalk == walk' = "none" /\ step' = "visit" /\ at' = 1
---------------------------------------------------------------------------
(* Walks. *)

StartPoll ==
  /\ walk = "none" /\ ~tripped
  /\ walk' = "poll" /\ step' = "visit" /\ at' = 1
  /\ hold' = IF gbn /\ Rolled THEN NoHold ELSE hold
  /\ UNCHANGED <<now, gbn, batch, cur, cursorVars, open, switch, history,
                 crashes, faults>>

\* A tripped switch ends run_cycle before the scan.
StartCycle ==
  /\ walk = "none" /\ ~tripped
  /\ walk' = "cycle" /\ step' = "visit" /\ at' = 1
  /\ UNCHANGED <<now, gbn, hold, batch, cur, cursorVars, open, switch,
                 history, crashes, faults>>

\* The poll's budget is spent before the next sleeve; the hold is kept.
BudgetSpent ==
  /\ Visiting("poll")
  /\ EndWalk
  /\ UNCHANGED <<now, gbn, hold, batch, cur, cursorVars, open, switch,
                 history, crashes, faults>>

\* The bar rolled during the walk: the held batch is discarded.
PollRolled ==
  /\ Visiting("poll") /\ gbn /\ ~HeldByPoll(at) /\ AnchorMoved(at)
  /\ hold' = NoHold
  /\ EndWalk
  /\ UNCHANGED <<now, gbn, batch, cur, cursorVars, open, switch, history,
                 crashes, faults>>

\* Not due, taken, held, sat out, not published yet, or the feed failed.
Skip ==
  /\ \/ Visiting("poll") /\ (gbn => HeldByPoll(at) \/ ~AnchorMoved(at))
     \/ Visiting("cycle") /\ ~tripped /\ (Actionable(at) \/ HeldByPoll(at) \/ seen[at] = Bar(at))
  /\ NextSleeve
  /\ UNCHANGED <<now, gbn, hold, batch, cur, cursorVars, open, switch,
                 history, crashes, faults>>

\* What _evaluate_published needs before it runs the strategy.
Evaluates(k) ==
  /\ k = at /\ Due(k)
  /\ \/ Visiting("poll") /\ (gbn => ~HeldByPoll(k) /\ ~AnchorMoved(k))
     \/ Visiting("cycle") /\ ~tripped /\ ~HeldByPoll(k)

\* The poll remembers, in memory, a sleeve whose bar it has looked at.
Visited(k, items) ==
  IF gbn /\ walk = "poll"
  THEN [visited |-> hold.visited \cup {k}, pending |-> hold.pending \cup items,
        anchors |-> hold.anchors \cup {<<StepOf[k], Bar(k)>>}]
  ELSE hold

\* No signal, or in plan order a position already open: mark the bar.
MarkFlat(k) ==
  /\ Evaluates(k)
  /\ Mark(k, Bar(k))
  /\ hold' = Visited(k, {})
  /\ NextSleeve
  /\ UNCHANGED <<now, gbn, batch, cur, open, switch, history, crashes>>

\* GBN: keep the signal for the batch; the cursor stays unmarked.
Defer(k) ==
  /\ gbn /\ Evaluates(k)
  /\ hold' = Visited(k, {Signal(k, TRUE)})
  /\ batch' = IF walk = "cycle" THEN batch \cup {Signal(k, TRUE)} ELSE batch
  /\ NextSleeve
  /\ UNCHANGED <<now, gbn, cur, cursorVars, open, switch, history, crashes,
                 faults>>

\* Plan order: the order first, the cursor after it.
OrderNow(k) ==
  /\ ~gbn /\ Evaluates(k) /\ SymbolOf[k] \notin open
  /\ Attempt(k)
  /\ tries' = Count(tries, k, Bar(k))
  /\ cur' = {Signal(k, TRUE)}
  /\ step' = "mark"
  /\ UNCHANGED <<now, gbn, walk, at, hold, batch, cursorVars, switch, direct,
                 crashes, faults>>

MarkOrdered(i) ==
  /\ step = "mark" /\ i \in cur
  /\ Mark(i.sleeve, i.bar)
  /\ cur' = {}
  /\ step' = "visit" /\ at' = at + 1
  /\ UNCHANGED <<now, gbn, walk, hold, batch, open, switch, history, crashes>>

\* cycle_paper_bar hands the sleeve back to the cycle's own scan: the switch
\* is tripped, or a bar neither taken nor held is outside its window or, inside
\* it, sat out at this reading of the regime; the cycle reads the regime again.
LeaveToScan ==
  /\ Visiting("cycle")
  /\ tripped \/ (~HeldByPoll(at) /\ seen[at] # Bar(at))
  /\ step' = "scan"
  /\ UNCHANGED <<now, gbn, walk, at, hold, batch, cur, cursorVars, open,
                 switch, history, crashes, faults>>

\* Sat out, or _evaluate_detail read its own clock and returned no signal.
ScanNothing ==
  /\ step = "scan"
  /\ step' = "visit" /\ at' = at + 1
  /\ UNCHANGED <<now, gbn, walk, hold, batch, cur, cursorVars, open, switch,
                 history, crashes, faults>>

\* Bars submitted past the cursor.  A cycle is as long as a window: it meets
\* the window of a bar once.
Scanned == {e \in Sleeves \X Times : direct[e[1]][e[2]] # 0}

\* By its own clock the bar is inside the window: a signal, no cursor.
ScanSignal ==
  /\ step = "scan" /\ Actionable(at) /\ <<at, Bar(at)>> \notin Scanned
  /\ Cardinality(Scanned) < MaxScans
  /\ IF gbn
     THEN batch' = batch \cup {Signal(at, FALSE)} /\ UNCHANGED <<open, direct>>
     ELSE /\ Attempt(at)
          /\ direct' = Count(direct, at, Bar(at))
          /\ UNCHANGED batch
  /\ step' = "visit" /\ at' = at + 1
  /\ UNCHANGED <<now, gbn, walk, hold, cur, cursorVars, switch, tries,
                 crashes, faults>>

FinishPoll ==
  /\ WalkDone("poll")
  /\ IF gbn THEN /\ batch' = hold.pending
                 /\ hold' = NoHold
            ELSE UNCHANGED <<batch, hold>>
  /\ step' = "submit"
  /\ UNCHANGED <<now, gbn, walk, at, cur, cursorVars, open, switch, history,
                 crashes, faults>>

FinishCycle ==
  /\ WalkDone("cycle")
  /\ step' = "submit"
  /\ UNCHANGED <<now, gbn, walk, at, hold, batch, cur, cursorVars, open,
                 switch, history, crashes, faults>>
---------------------------------------------------------------------------
(* Submission of a batch, in an order that depends on betas and sizes. *)

\* Already taken, or the book is unreadable: dropped and not marked.
SubmitNothing(i) ==
  /\ step = "submit" /\ i \in batch /\ i.cursor
  /\ batch' = batch \ {i}
  /\ UNCHANGED <<now, gbn, walk, step, at, hold, cur, cursorVars, open,
                 switch, history, crashes, faults>>

\* commit_deferred_paper_entry: the cursor first, the order after it.
SubmitMarked(i) ==
  /\ step = "submit" /\ i \in batch /\ i.cursor /\ seen[i.sleeve] # i.bar
  /\ Mark(i.sleeve, i.bar)
  /\ batch' = batch \ {i}
  /\ IF SymbolOf[i.sleeve] \in open
     THEN UNCHANGED <<cur, step>>
     ELSE cur' = {i} /\ step' = "order"
  /\ UNCHANGED <<now, gbn, walk, at, hold, open, switch, history, crashes>>

OrderMarked(i) ==
  /\ step = "order" /\ i \in cur
  /\ Attempt(i.sleeve)
  /\ tries' = Count(tries, i.sleeve, i.bar)
  /\ cur' = {} /\ step' = "submit"
  /\ UNCHANGED <<now, gbn, walk, at, hold, batch, cursorVars, switch, direct,
                 crashes, faults>>

\* A signal of the cycle's own scan.
SubmitScanned(i) ==
  /\ step = "submit" /\ i \in batch /\ ~i.cursor
  /\ Attempt(i.sleeve)
  /\ direct' = Count(direct, i.sleeve, i.bar)
  /\ batch' = batch \ {i}
  /\ UNCHANGED <<now, gbn, walk, step, at, hold, cur, cursorVars, switch,
                 tries, crashes, faults>>

SubmitDone ==
  /\ step = "submit" /\ batch = {}
  /\ EndWalk
  /\ UNCHANGED <<now, gbn, hold, batch, cur, cursorVars, open, switch,
                 history, crashes, faults>>

\* A cursor write raises in one of the four places that mark a bar.
WriteRaises ==
  \/ \E k \in Sleeves : Evaluates(k) /\ MarkRaises(k, Bar(k))
  \/ \E i \in cur : step = "mark" /\ MarkRaises(i.sleeve, i.bar)
  \/ \E i \in batch : /\ step = "submit" /\ i.cursor /\ seen[i.sleeve] # i.bar
                      /\ MarkRaises(i.sleeve, i.bar)

\* _attempt_entry raises: the walk ends and what is left of it is dropped.
OrderRaises ==
  /\ step \in {"mark", "order"} /\ MoreTrouble
  /\ faults' = faults + 1
  /\ EndWalk
  /\ batch' = {} /\ cur' = {}
  /\ UNCHANGED <<now, gbn, hold, cursorVars, open, switch, history, crashes>>
---------------------------------------------------------------------------
(* Time, the exit thread, the switch, death. *)

Tick ==
  /\ now < MaxTime /\ now' = now + 1
  /\ UNCHANGED <<gbn, walk, step, at, hold, batch, cur, cursorVars, open,
                 switch, history, crashes, faults>>

ExitFills ==
  /\ \E s \in open : open' = open \ {s}
  /\ UNCHANGED <<now, gbn, walk, step, at, hold, batch, cur, cursorVars,
                 switch, history, crashes, faults>>

Trip ==
  /\ ~tripped /\ tripped' = TRUE
  /\ MoreTrouble /\ trips' = trips + 1
  /\ UNCHANGED <<now, gbn, walk, step, at, hold, batch, cur, cursorVars, open,
                 history, crashes, faults>>

Reset ==
  /\ tripped /\ tripped' = FALSE
  /\ UNCHANGED <<trips, now, gbn, walk, step, at, hold, batch, cur, cursorVars, open,
                 history, crashes, faults>>

\* Memory is lost; the next process loads the cursor from disk.
CrashAndRestart ==
  /\ MoreTrouble /\ crashes' = crashes + 1
  /\ walk' = "none" /\ step' = "visit" /\ at' = 1
  /\ hold' = NoHold /\ batch' = {} /\ cur' = {}
  /\ seen' = disk
  /\ UNCHANGED <<now, gbn, disk, open, switch, history, faults>>
---------------------------------------------------------------------------
Take(k) == MarkFlat(k) \/ Defer(k) \/ OrderNow(k)

Walk ==
  \/ Skip \/ (\E k \in Sleeves : Take(k)) \/ PollRolled
  \/ LeaveToScan \/ ScanNothing \/ ScanSignal
  \/ FinishPoll \/ FinishCycle

Submit ==
  \/ \E i \in cur : MarkOrdered(i) \/ OrderMarked(i)
  \/ \E i \in batch : SubmitNothing(i) \/ SubmitMarked(i) \/ SubmitScanned(i)
  \/ SubmitDone

Next ==
  \/ StartPoll \/ StartCycle \/ BudgetSpent
  \/ Walk \/ Submit
  \/ WriteRaises \/ OrderRaises
  \/ Tick \/ ExitFills \/ Trip \/ Reset \/ CrashAndRestart

Spec == Init /\ [][Next]_vars
===========================================================================
