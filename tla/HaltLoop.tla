------------------------------ MODULE HaltLoop ------------------------------
(***************************************************************************)
(* The run loop of the paper desk: the hot poll, the cycle, the wait, the  *)
(* exit thread, and what a halt stops and what it must not stop.           *)
(*                                                                         *)
(* The book is counted: ledger rows (each with its RAM row, as PaperBook   *)
(* shows) and RAM rows the ledger never got.  The main thread checks an    *)
(* entry against the kill switch and fills it a step later.                *)
(*                                                                         *)
(* The branch for an unhealthy broker is left out: PaperBroker.get_balance *)
(* neither raises nor returns None, so it is not reached on paper.         *)
(***************************************************************************)
EXTENDS KillSwitch

CONSTANTS
  MaxOpen,     \* bound: positions held at once
  MaxFills,    \* bound: entries over the whole run
  MaxOps,      \* bound: trips and resets by the operator
  MaxTroubles  \* bound: deaths of a process and failed ledger inserts

ASSUME LoopBounds ==
  MaxOpen \in Nat /\ MaxFills \in Nat /\ MaxOps \in Nat /\ MaxTroubles \in Nat

VARIABLES
  stage,     \* where the main thread is
  checked,   \* an entry passed the risk check and is not filled yet
  blocked,   \* report.halted and entries_blocked of this cycle
  open,      \* ledger rows open
  due,       \* of those, past a stop, a target or the holding window
  orphan,    \* RAM rows without a ledger row
  shutdown,  \* _shutdown_requested
  late,      \* history: fills since a trip stands
  fills, ops, troubles

bookVars == <<open, due, orphan>>
loopVars == <<stage, checked, blocked, bookVars, shutdown, late, fills, ops, troubles>>
vars == <<killVars, loopVars>>

Stages == {"down", "poll", "gate", "reconcile", "exits", "scan", "after",
           "wait", "closing", "left"}
Running == stage \notin {"down", "left"}

\* The main thread is between two calls.
MainFree == Running /\ ~checked /\ wr[Desk].job = "none"
At(s) == stage = s /\ MainFree
GoTo(s) == stage' = s

Bigger(a, b) == IF a >= b THEN a ELSE b

\* Fault: only the ledger is asked.
LedgerCount(readable) == IF readable THEN open ELSE 0

\* open_exposure_count: the larger of the two counts; the RAM rows of the
\* paper broker can always be read.
ExposureCount(readable) == Bigger(IF readable THEN open ELSE 0, open + orphan)

Init ==
  /\ KillInit
  /\ stage = "down" /\ checked = FALSE /\ blocked = FALSE
  /\ open = 0 /\ due = 0 /\ orphan = 0 /\ shutdown = FALSE
  /\ late = 0 /\ fills = 0 /\ ops = 0 /\ troubles = 0
---------------------------------------------------------------------------
(* The process. *)

\* Fault: the halt is part of what a start initialises.
StartClears ==
  /\ stage = "down" /\ GoTo("poll")
  /\ file' = None
  /\ orphan' = 0 /\ blocked' = FALSE /\ shutdown' = FALSE
  /\ UNCHANGED <<temp, data, wr, standing, overlapped>>
  /\ UNCHANGED <<checked, open, due, late, fills, ops, troubles>>

\* hydrate rebuilds the RAM rows from the ledger; an empty plan and a flat
\* book end the process, an empty plan alone does not.
Start ==
  /\ stage = "down"
  /\ orphan' = 0 /\ blocked' = FALSE /\ shutdown' = FALSE
  /\ \E planEmpty \in BOOLEAN :
       GoTo(IF planEmpty /\ open <= 0 THEN "left" ELSE "poll")
  /\ UNCHANGED <<killVars, checked, open, due, late, fills, ops, troubles>>

Dies ==
  /\ Running /\ troubles < MaxTroubles
  /\ troubles' = troubles + 1
  /\ GoTo("down") /\ checked' = FALSE
  /\ WriterDies(Desk)
  /\ UNCHANGED <<blocked, bookVars, shutdown, late, fills, ops>>

\* SIGTERM: finish the cycle, then stop.
RequestShutdown ==
  /\ Running /\ ~shutdown /\ ops < MaxOps
  /\ shutdown' = TRUE /\ ops' = ops + 1
  /\ UNCHANGED <<killVars, stage, checked, blocked, bookVars, late, fills, troubles>>
---------------------------------------------------------------------------
(* Entries: in the poll before the cycle, in the scan, in the wait. *)

\* Fault: the answer of the cycle's gate is used again.
CheckEntryByGate ==
  /\ stage \in {"poll", "scan", "wait"} /\ MainFree
  /\ fills < MaxFills /\ open + orphan < MaxOpen
  /\ ~blocked
  /\ checked' = TRUE
  /\ UNCHANGED <<killVars, stage, blocked, bookVars, shutdown, late, fills, ops, troubles>>

\* _check_halts reads the switch for every intent.
CheckEntry ==
  /\ stage \in {"poll", "scan", "wait"} /\ MainFree
  /\ fills < MaxFills /\ open + orphan < MaxOpen
  /\ ~IsTripped
  /\ checked' = TRUE
  /\ UNCHANGED <<killVars, stage, blocked, bookVars, shutdown, late, fills, ops, troubles>>

\* A drawdown beyond its limit trips the switch instead.
DrawdownTrip ==
  /\ stage \in {"poll", "scan", "wait"} /\ MainFree
  /\ ~IsTripped /\ fills < MaxFills
  /\ BeginTrip(Desk)
  /\ UNCHANGED loopVars

\* The order fills and the ledger row is inserted, or the insert raises.
PlaceOrder ==
  /\ checked
  /\ checked' = FALSE /\ fills' = fills + 1
  /\ late' = IF standing THEN late + 1 ELSE late
  /\ \/ open' = open + 1 /\ UNCHANGED <<orphan, stage, troubles>>
     \/ /\ troubles < MaxTroubles
        /\ orphan' = orphan + 1 /\ troubles' = troubles + 1
        /\ stage' = IF stage = "scan" THEN "wait" ELSE stage
        /\ UNCHANGED open
  /\ UNCHANGED <<killVars, blocked, due, shutdown, ops>>
---------------------------------------------------------------------------
(* Exits, by either thread: what is due may be settled, now or later. *)

\* Fault: what was settled stays on the list of due positions.
CloseStaysDue(n) ==
  /\ n \in 0 .. due
  /\ open' = open - n
  /\ UNCHANGED <<due, orphan>>

\* Fault: a halt stops the exits too.
CloseUnlessHalted(n) ==
  /\ n \in 0 .. due
  /\ open' = IF IsTripped THEN open ELSE open - n
  /\ due' = IF IsTripped THEN due ELSE due - n
  /\ UNCHANGED orphan

CloseSome(n) ==
  /\ n \in 0 .. due
  /\ open' = open - n /\ due' = due - n
  /\ UNCHANGED orphan

ExitThread ==
  /\ Running /\ stage # "closing" /\ due > 0
  /\ CloseSome(due)
  /\ UNCHANGED <<killVars, stage, checked, blocked, shutdown, late, fills, ops, troubles>>

Expire ==
  /\ due < open
  /\ due' = due + 1
  /\ UNCHANGED <<killVars, stage, checked, blocked, open, orphan, shutdown, late,
                 fills, ops, troubles>>
---------------------------------------------------------------------------
(* The cycle. *)

HotPollEnds ==
  /\ At("poll") /\ GoTo("gate")
  /\ UNCHANGED <<killVars, checked, blocked, bookVars, shutdown, late, fills, ops, troubles>>

EntryGate ==
  /\ At("gate") /\ GoTo("reconcile")
  /\ blocked' = IsTripped
  /\ UNCHANGED <<killVars, checked, bookVars, shutdown, late, fills, ops, troubles>>

\* No discrepancy; or reconciliation raised, which counts as none.
ReconcilePasses ==
  /\ At("reconcile") /\ GoTo("exits")
  /\ UNCHANGED <<killVars, checked, blocked, bookVars, shutdown, late, fills, ops, troubles>>

\* Fault: a mismatch is only logged.
ReconcileWarns ==
  /\ At("reconcile") /\ orphan > 0 /\ GoTo("exits")
  /\ UNCHANGED <<killVars, checked, blocked, bookVars, shutdown, late, fills, ops, troubles>>

ReconcileTrips ==
  /\ At("reconcile") /\ orphan > 0
  /\ BeginTrip(Desk)
  /\ UNCHANGED loopVars

\* Where the main thread goes on after a trip that returned, and after one
\* that raised: out of the cycle, or back into the poll that caught it.
AfterTrip == IF stage = "reconcile" THEN "exits" ELSE stage
AfterRaise == IF stage \in {"reconcile", "scan"} THEN "wait" ELSE stage

DeskTrips ==
  /\ ReadBeforeTrip(Desk) \/ OpenTemp(Desk) \/ WriteTemp(Desk) \/ Replace(Desk)
  /\ LET returned == wr'[Desk].job = "none"
     IN /\ stage' = IF returned THEN AfterTrip ELSE stage
        /\ blocked' = (blocked \/ (returned /\ stage = "reconcile"))
  /\ UNCHANGED <<checked, bookVars, shutdown, late, fills, ops, troubles>>

DeskTripRaises ==
  /\ ReplaceRaises(Desk)
  /\ GoTo(AfterRaise)
  /\ UNCHANGED <<checked, blocked, bookVars, shutdown, late, fills, ops, troubles>>

\* Exits run under a halt too; only the scan is skipped.
CycleExits ==
  /\ At("exits")
  /\ CloseSome(due)
  /\ GoTo(IF blocked THEN "after" ELSE "scan")
  /\ UNCHANGED <<killVars, checked, blocked, shutdown, late, fills, ops, troubles>>

ScanEnds ==
  /\ At("scan") /\ GoTo("after")
  /\ UNCHANGED <<killVars, checked, blocked, bookVars, shutdown, late, fills, ops, troubles>>

\* may_break_on_halt.
AfterCycle ==
  /\ At("after")
  /\ \E readable \in BOOLEAN :
       GoTo(IF blocked /\ ExposureCount(readable) <= 0 THEN "closing" ELSE "wait")
  /\ UNCHANGED <<killVars, checked, blocked, bookVars, shutdown, late, fills, ops, troubles>>

\* One slice of the wait: an exit pass, then the hot poll.
WaitSlice ==
  /\ At("wait") /\ ~shutdown /\ due > 0
  /\ CloseSome(due)
  /\ UNCHANGED <<killVars, stage, checked, blocked, shutdown, late, fills, ops, troubles>>

WaitEnds ==
  /\ At("wait")
  /\ GoTo(IF shutdown THEN "closing" ELSE "poll")
  /\ UNCHANGED <<killVars, checked, blocked, bookVars, shutdown, late, fills, ops, troubles>>

\* The exit thread is stopped, the engine closed, the pid file removed.
Leave ==
  /\ At("closing") /\ GoTo("left")
  /\ UNCHANGED <<killVars, checked, blocked, bookVars, shutdown, late, fills, ops, troubles>>
---------------------------------------------------------------------------
(* The operator: /api/risk/kill, /api/risk/reset, reset_killswitch.py. *)

OperatorBegins ==
  /\ ops < MaxOps /\ ops' = ops + 1
  /\ \/ BeginTrip(Operator) /\ UNCHANGED late
     \/ BeginReset(Operator) /\ late' = 0
  /\ UNCHANGED <<stage, checked, blocked, bookVars, shutdown, fills, troubles>>

OperatorWrites ==
  /\ \/ ReadBeforeTrip(Operator) \/ OpenTemp(Operator) \/ WriteTemp(Operator)
     \/ Replace(Operator) \/ ReplaceRaises(Operator)
  /\ UNCHANGED loopVars

OperatorDies ==
  /\ wr[Operator].job # "none" /\ troubles < MaxTroubles
  /\ troubles' = troubles + 1
  /\ WriterDies(Operator)
  /\ UNCHANGED <<stage, checked, blocked, bookVars, shutdown, late, fills, ops>>

Main ==
  \/ HotPollEnds \/ EntryGate \/ ReconcilePasses \/ CycleExits \/ ScanEnds
  \/ AfterCycle \/ WaitEnds \/ Leave

Next ==
  \/ Start \/ Dies \/ RequestShutdown
  \/ CheckEntry \/ DrawdownTrip \/ PlaceOrder
  \/ ExitThread \/ Expire
  \/ Main \/ ReconcileTrips \/ WaitSlice
  \/ DeskTrips \/ DeskTripRaises
  \/ OperatorBegins \/ OperatorWrites \/ OperatorDies

Spec == Init /\ [][Next]_vars
===========================================================================
