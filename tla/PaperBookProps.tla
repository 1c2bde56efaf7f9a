--------------------------- MODULE PaperBookProps ---------------------------
(***************************************************************************)
(* The properties of PaperBook, and the account it implements.             *)
(***************************************************************************)
EXTENDS PaperBook, FiniteSetsExt

\* One type invariant: ids stay in range, amounts are integers.
TypeOK ==
  /\ phase \in {"up", "down"}
  /\ lock \in Threads \cup {Free}
  /\ pc \in [Threads -> OutsideLock \cup ExitPhases \cup EntryPhases]
  /\ prep \in [Threads -> SUBSET Item]
  /\ cur \subseteq Item
  /\ flight \subseteq EventOf({"close"})
  /\ ram \in [Symbols -> Row]
  /\ cash \in Int /\ realised \in Int
  /\ applied \subseteq EventId
  /\ jnl \in Journal
  /\ status \in [Pos -> {"none", "open", "closed"}]
  /\ deal \in [Pos -> Deal]
  /\ closeEvs \subseteq EventOf({"close"})
  /\ openEvs \subseteq Pos
  /\ expired \subseteq Pos
  /\ tripped \in BOOLEAN
  /\ fills \in 0 .. MaxPos
  /\ paid \in [Pos -> Int]
  /\ crashes \in Nat /\ faults \in Nat
---------------------------------------------------------------------------
(* Safety *)

ClosedEvent(p) == {e \in closeEvs : e.pos = p}
JournaledCloses == {e \in closeEvs : EventKey(e) \in jnl.ids}

\* A position is closed in SQLite exactly when it has a cash event, it has at
\* most one, and RAM and the journal have each applied exactly those closes,
\* except the one a thread committed and is about to apply.  This is what
\* settle_paper_close and apply_journal_close promise across crashes.
SettledOnce ==
  /\ \A p \in Pos : status[p] = "closed" <=> ClosedEvent(p) # {}
  /\ \A e, f \in closeEvs : e.pos = f.pos => e = f
  /\ phase = "up" => /\ JournaledCloses = closeEvs \ flight
                     /\ \A e \in closeEvs : EventKey(e) \in applied <=> e \notin flight

\* A restart never finds more than one close missing from the journal, so the
\* order in which merge_cash_events appends cannot matter.
AtMostOneUnjournaled ==
  \A e, f \in Unjournaled : e = f

\* A mirrored entry event is already in the journal under the same id, so a
\* restart never charges an entry fee twice.
OpenMirrorsAreJournaled ==
  \A p \in openEvs : <<"open", p>> \in jnl.ids

\* Every recorded open position has its RAM row, so stops are watched, unless
\* its close is committed and about to be applied; and no symbol has two open
\* rows.  Holds across deaths, restarts and failed SQLite writes.
OpenPositionsAreWatched ==
  /\ \A p, q \in Pos :
       status[p] = "open" /\ status[q] = "open" /\ deal[p].sym = deal[q].sym => p = q
  /\ phase = "up" =>
       \A p \in Pos : status[p] = "open" =>
         /\ ram[deal[p].sym].pos = p
         /\ ram[deal[p].sym].terms = deal[p].terms

SumOver(f(_), S) == MapThenSumSet(f, S)
GrossNet(e) == e.gross - ExitFee
NetPnl(e) == e.gross - ExitFee - EntryFee - e.funding
PaidOn(p) == paid[p]

\* RAM cash is the capital, minus every entry fee and funding step ever paid,
\* plus every settled close once: no crash, restart or replay moves it.
CashMatchesHistory ==
  phase = "up" =>
    /\ cash = Capital - EntryFee * fills - SumOver(PaidOn, Pos)
                + SumOver(GrossNet, closeEvs \ flight)
    /\ realised = SumOver(NetPnl, closeEvs \ flight)

\* Funding on a RAM row is what was booked while that position was held.
\* accrue_funding and the close both rely on it.
FundingIsOwned ==
  \A s \in Held : ram[s].funding = paid[ram[s].pos]

\* Threads and restarts alone never make the two sides of reconciliation
\* disagree: the kill switch trips on a mismatch only after a failed write.
NoFalseTrip == tripped => faults > 0

\* On a flat book, cash minus contributed capital is realised P&L (paper.py,
\* the comment on realised_pnl).
FlatBookIdentity ==
  phase = "up" /\ lock = Free /\ (\A p \in Pos : status[p] # "open")
    => cash - Capital = realised

\* A manual close closes the position its request was bound to, never one
\* opened afterwards (paper_close_requests.py, module docstring).
ManualCloseKeepsItsPosition ==
  \A e \in closeEvs : e.reason = "manual" => e.seen = e.pos
---------------------------------------------------------------------------
(* The inductive strengthening of SettledOnce, AtMostOneUnjournaled,       *)
(* OpenMirrorsAreJournaled and OpenPositionsAreWatched.                     *)

HolderAt(places) == lock \in Threads /\ pc[lock] \in places

\* Who may be where: the lock, the exit being committed, the close in flight.
LockInv ==
  /\ \A t \in Threads : pc[t] \notin OutsideLock <=> lock = t
  /\ pc[Exit] \notin EntryPhases
  /\ cur # {} => HolderAt({"accruing"})
  /\ \A i \in cur : OpenOn(i.sym) # {}
  /\ flight # {} => HolderAt({"settled"})
  /\ phase = "down" => lock = Free

\* The ledger row of the entry being placed.
EntryInv ==
  /\ \A p \in Pos : p > fills => status[p] = "none"
  /\ HolderAt({"filled"}) =>
       /\ fills > 0 /\ status[fills] = "none"
       /\ OpenOn(deal[fills].sym) = {}
       /\ ram[deal[fills].sym].pos = fills
       /\ ram[deal[fills].sym].terms = deal[fills].terms
  /\ HolderAt({"recorded", "stamped"}) => fills > 0
  /\ HolderAt({"stamped"}) => <<"open", fills>> \in jnl.ids

\* RAM rows: an open position has one, a close in flight still has one.
RowInv ==
  /\ OpenPositionsAreWatched
  /\ \A s \in Symbols : ram[s].pos = 0 => ram[s] = NoRow
  /\ \A e \in flight : OpenOn(e.sym) = {} /\ ram[e.sym] # NoRow

\* Event ids: every one of kind close belongs to a settled close.
EventInv ==
  /\ SettledOnce
  /\ flight \subseteq closeEvs
  /\ \A e, f \in flight : e = f
  /\ \A p \in Pos : <<"close", p>> \in jnl.ids \cup applied => ClosedEvent(p) # {}
  /\ OpenMirrorsAreJournaled
  /\ AtMostOneUnjournaled

IInv == TypeOK /\ LockInv /\ EntryInv /\ RowInv /\ EventInv

\* Rows and fills: a RAM row is of a fill on its symbol, whose close is not
\* applied, and which the ledger has unless it is being placed or a write failed.
HeldInv ==
  \A s \in Held : LET p == ram[s].pos IN
    /\ p \in Pos /\ p <= fills /\ deal[p].sym = s
    /\ status[p] = "closed" => \E e \in flight : e.pos = p /\ e.sym = s
    /\ status[p] = "none" => faults > 0 \/ (HolderAt({"filled"}) /\ p = fills)

\* The journal's open funding on a symbol is its open position's, or that of
\* the one close it lacks.
JournalFunding ==
  /\ \A p \in Pos : status[p] = "open" => jnl.open[deal[p].sym] = paid[p]
  /\ \A e \in Unjournaled : OpenOn(e.sym) = {} /\ jnl.open[e.sym] = e.funding

\* Where neither is, it is that of a RAM row the ledger never recorded, or none.
SpareFunding ==
  \A s \in Symbols : OpenOn(s) = {} /\ (\A e \in Unjournaled : e.sym # s) =>
    jnl.open[s] = IF ram[s].pos = 0 THEN 0 ELSE paid[ram[s].pos]

\* The ledger has every fill but the one being placed.
Recorded == \A p \in 1 .. fills : status[p] = "none" => HolderAt({"filled"}) /\ p = fills

\* Nothing is booked before the ledger has the row.  It takes a fill that never
\* got its row and a failed write to leave spare funding behind, a death to
\* lose its RAM row and a second one to hydrate it onto another position.
Accounted == faults = 0 \/ Recorded
FundInv ==
  /\ \A p \in Pos : p > fills \/ (p = fills /\ HolderAt({"filled"})) => paid[p] = 0
  /\ phase = "down" => crashes > 0 /\ Held = {}
  /\ Accounted \/ crashes <= 1 => FundingIsOwned
  /\ Accounted \/ crashes = 0 \/ (crashes = 1 /\ phase = "down") => JournalFunding
  /\ Accounted \/ crashes = 0 => SpareFunding

OwnInv == IInv /\ HeldInv /\ NoFalseTrip /\ FundInv

\* While the desk is up, the broker's cash and realised P&L are the journal's.
RamIsJournal == phase = "up" => cash = jnl.cash /\ realised = jnl.realised
---------------------------------------------------------------------------
(* The abstract account: what a restart now would restore. *)

Recovered ==
  IF Unjournaled = {} THEN jnl ELSE Record(jnl, CHOOSE e \in Unjournaled : TRUE)
Stage == [p \in Pos |-> IF status[p] = "none" /\ p <= fills THEN "paid"
                        ELSE IF status[p] = "none" THEN "new" ELSE status[p]]

Account == INSTANCE BookAccount WITH
  Positions <- Pos, stage <- Stage, cash <- Recovered.cash,
  realised <- Recovered.realised, held <- Recovered.accrued - Recovered.total

\* CashMatchesHistory of what a restart would restore, every close counted.
RestoredHistory ==
  /\ Recovered.cash = Capital - EntryFee * fills - SumOver(PaidOn, Pos)
                        + SumOver(GrossNet, closeEvs)
  /\ Recovered.realised = SumOver(NetPnl, closeEvs)

\* Funding taken from cash and not yet realised is that of the positions not
\* closed, as long as no fill lacks its row, no write failed or at most one
\* death came.
OwedOn(p) == IF status[p] = "closed" THEN 0 ELSE paid[p]
FundingIsOwed ==
  Accounted \/ crashes <= 1 =>
    Recovered.accrued - Recovered.total = SumOver(OwedOn, Pos)

\* A fill the ledger does not have is being placed, or a write or the desk failed.
FillsAreRecorded == faults = 0 /\ crashes = 0 => Recorded

\* What a restart would restore behaves like one account on which a position
\* is closed at the SQLite commit, once, and a death is invisible.
ImplementsAccount == Account!Spec

\* The documented identity of an open book, on what a restart would restore.
AccountIdentity == Account!Identity
---------------------------------------------------------------------------
(* Liveness *)

\* A thread that holds the lock finishes, both threads keep polling, a dead
\* desk is restarted, a blocked thread is eventually given the lock, a level
\* that keeps being hit is not stale every time, and a symbol that keeps being
\* asked for a price is eventually priced.
Fairness ==
  /\ \A t \in Threads : /\ WF_vars(Prepare(t))
                        /\ SF_vars(TakeBook(t))
                        /\ WF_vars(Commit(t))
                        /\ SF_vars(\E i \in prep[t] : BeginExit(t, i))
                        /\ SF_vars(\E g \in Gross : CommitClose(t, g))
  /\ WF_vars(RecordEntry \/ RecordEntryFails)
  /\ WF_vars(StampEntry)
  /\ WF_vars(MirrorEntry \/ MirrorEntryFails)
  /\ WF_vars(Restart) /\ WF_vars(\E e \in Unjournaled : Recover(e))

FairSpec == Spec /\ Fairness

\* A close committed in SQLite reaches the cash journal, whatever dies first.
SettledReachesJournal ==
  \A p \in Pos : status[p] = "closed" ~> <<"close", p>> \in jnl.ids

\* A position past its holding window is closed.
ExpiredIsClosed ==
  \A p \in Pos : p \in expired ~> status[p] = "closed"
===========================================================================
