---------------------------- MODULE HaltLoopProps ----------------------------
(***************************************************************************)
(* The properties of KillSwitch and HaltLoop.                              *)
(***************************************************************************)
EXTENDS HaltLoop

\* One type invariant: inodes, counters and stages stay in range.
TypeOK ==
  /\ file \in Inodes \cup {None} /\ temp \in Inodes \cup {None}
  /\ data \in [Inodes -> Contents]
  /\ wr \in [Writers -> Writer]
  /\ standing \in BOOLEAN /\ overlapped \in BOOLEAN
  /\ stage \in Stages
  /\ checked \in BOOLEAN /\ blocked \in BOOLEAN /\ shutdown \in BOOLEAN
  /\ open \in Nat /\ orphan \in Nat /\ due \in 0 .. open
  /\ late \in Nat /\ fills \in Nat /\ ops \in Nat /\ troubles \in Nat

\* A trip that was reported done stands until somebody begins a reset: deaths
\* of either process in the middle of a write do not undo it, as long as the
\* two have never been past their reads together.
TripStands == standing /\ ~overlapped => IsTripped

\* The same without the exception.  killswitch.py promises it; two writers
\* share one temporary name, and one can publish what the other truncated.
TripIsNotLost == standing => IsTripped

\* "The first trip's cause is preserved": while a trip stands, later trips by
\* the desk or the operator leave the file as it is.
FirstCauseKept ==
  [][standing /\ standing' /\ ~overlapped'
       => file' # None /\ data'[file'] = data[file]]_vars

\* While a trip stands the only entry that can still fill is the one that had
\* passed its check before: poll, scan and wait read the switch each time.
AtMostOneLateFill == ~overlapped => late <= 1

\* The desk leaves on its own only from a flat book, whichever copy of the
\* book it could not read; only an operator takes it down with exposure.
LeavesOnlyFlat ==
  [][stage = "closing" /\ stage' = "left" => shutdown \/ (open = 0 /\ orphan = 0)]_vars
---------------------------------------------------------------------------
(* The inductive strengthening of the invariants above. *)

\* A writer that does nothing is idle, has no file before it opened one, and
\* has one from then on; the temporary file is never the switch itself.
WriterShape ==
  /\ \A w \in Writers :
       /\ wr[w].job = "none" => wr[w] = Idle
       /\ wr[w].at \in {"read", "open"} <=> wr[w].fd = None
  /\ temp # None => temp # file

\* While two writers have never been past their reads together: the one that
\* is has the temporary file to itself and still finds in it what it wrote,
\* and a trip on its way found the switch clear.
OneWriterInside ==
  ~overlapped =>
    /\ \A v, w \in Writers : Inside(v) /\ Inside(w) => v = w
    /\ \A w \in Writers :
         /\ wr[w].at = "write" => temp = wr[w].fd /\ data[temp] = Torn
         /\ wr[w].at = "move" =>
              temp = wr[w].fd /\ (wr[w].job = "trip" => data[temp] = w)
         /\ Inside(w) /\ wr[w].job = "trip" => ~IsTripped

\* No reset is under way while a trip stands, and nobody is about to write.
StandingInv ==
  /\ Resetting => ~standing
  /\ standing /\ ~overlapped => IsTripped /\ \A w \in Writers : ~Inside(w)

\* Late fills are counted from the trip on; an entry checked before it is the
\* one that may still come.
LateInv ==
  /\ ~standing => late = 0
  /\ standing /\ ~overlapped => late <= IF checked THEN 0 ELSE 1

\* Where the main thread can be while an entry or a trip is under way, and
\* what it has seen before it closes down.
LoopInv ==
  /\ checked => stage \in {"poll", "scan", "wait"} /\ wr[Desk].job = "none"
  /\ wr[Desk].job # "none" => stage \in {"poll", "scan", "wait", "reconcile"}
  /\ stage = "closing" => shutdown \/ (open = 0 /\ orphan = 0)

IInv == TypeOK /\ WriterShape /\ OneWriterInside /\ StandingInv /\ LateInv /\ LoopInv
---------------------------------------------------------------------------
(* Liveness *)

\* Threads run, a writer goes on, positions run out of time, reconciliation
\* does not raise for ever, and a dead desk is started again.
Fairness ==
  /\ WF_vars(Start) /\ WF_vars(Main) /\ WF_vars(PlaceOrder)
  /\ WF_vars(DeskTrips \/ DeskTripRaises) /\ WF_vars(OperatorWrites)
  /\ WF_vars(ExitThread) /\ WF_vars(Expire)
  /\ SF_vars(ReconcileTrips)

FairSpec == Spec /\ Fairness

\* A halt that nobody lifts ends with the desk gone and the book flat, whatever
\* it held and however often it died; unless RAM holds a row the ledger never
\* got, which keeps the desk up, as no exit settles that row.
HaltEndsFlat ==
  <>[]IsTripped => \/ <>[](stage = "left" /\ (open = 0 \/ shutdown))
                   \/ <>[](orphan > 0)

\* A RAM row the ledger never got trips the switch, or is gone with the process.
MismatchTrips ==
  orphan > 0 ~> IsTripped \/ orphan = 0 \/ stage = "left"
===========================================================================
