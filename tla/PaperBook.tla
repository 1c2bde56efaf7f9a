----------------------------- MODULE PaperBook -----------------------------
(***************************************************************************)
(* The paper book: one process, two threads, three copies of the account.  *)
(*                                                                         *)
(*   RAM      PaperBroker: cash, realised P&L, one row per held symbol     *)
(*   journal  data/paper_cash.json, replayed by a restart                  *)
(*   SQLite   the positions ledger and the durable cash events             *)
(*                                                                         *)
(* The main thread fills entries, accrues funding, reconciles and polls    *)
(* exits; the exit supervisor only polls exits.  Every change of the book  *)
(* is made under BookGuard.  A crash may fall between any two durable      *)
(* writes, and a restart rebuilds RAM from the journal and SQLite.         *)
(*                                                                         *)
(* The journal is represented by what replay_events computes from it and   *)
(* by the event ids it holds: appending an event and replaying the longer  *)
(* list is one step of Replay.  Position ids are fill numbers.  Amounts    *)
(* are integers; quantity and entry price together are one value of Terms. *)
(***************************************************************************)
EXTENDS Integers, FiniteSets

CONSTANTS
  Symbols,         \* tradable symbols
  Terms,           \* (quantity, entry price) pairs a fill can have
  MaxPos,          \* bound: fills over the whole run
  Capital,         \* starting_equity of the first run
  EntryFee,        \* taker fee of one entry
  ExitFee,         \* taker fee of one exit
  Gross,           \* gross P&L a close can have
  FundingTargets,  \* cumulative funding costs CostModel can return
  MaxCrashes,      \* bound: process deaths
  MaxFaults        \* bound: SQLite writes that raise

ASSUME AmountsAssumption ==
  /\ Capital \in Int /\ EntryFee \in Int /\ ExitFee \in Int
  /\ Gross \subseteq Int /\ FundingTargets \subseteq Int
ASSUME BoundsAssumption ==
  MaxPos \in Nat /\ MaxCrashes \in Nat /\ MaxFaults \in Nat
ASSUME SetsAssumption == Symbols # {} /\ Terms # {} /\ Terms \subseteq Nat

VARIABLES
  phase,     \* "up" while the paper process lives
  lock,      \* holder of BookGuard
  pc,        \* where each thread is
  prep,      \* exits each thread has prepared and not yet committed
  cur,       \* the prepared exit the lock holder is committing, if any
  flight,    \* the close committed in SQLite and not yet applied, if any
  ram,       \* PaperBroker._positions
  cash,      \* PaperBroker._cash
  realised,  \* PaperBroker.realised_pnl
  applied,   \* PaperBroker._applied_close_ids
  jnl,       \* the cash journal on disk
  status,    \* SQLite positions.status
  deal,      \* symbol and terms of each fill, on its ledger row and events
  closeEvs,  \* SQLite paper_cash_events of kind close
  openEvs,   \* SQLite paper_cash_events of kind open, by position
  expired,   \* positions past expiry_at
  tripped,   \* the kill switch file
  fills,     \* fills so far
  paid,      \* history: funding booked while a position was held
  crashes,   \* deaths so far
  faults     \* SQLite failures so far

threadVars == <<lock, pc, prep, cur, flight>>
brokerVars == <<ram, cash, realised, applied>>
dbVars     == <<status, deal, closeEvs, openEvs>>
envVars    == <<phase, expired, tripped, fills, crashes, faults>>
vars == <<threadVars, brokerVars, jnl, dbVars, envVars, paid>>

Main == "main"
Exit == "exit"
Threads == {Main, Exit}
Free == "free"
Pos == 1 .. MaxPos

Row   == [pos : 0 .. MaxPos, terms : Nat, funding : Int]
NoRow == [pos |-> 0, terms |-> 0, funding |-> 0]
Deal   == [sym : Symbols, terms : Terms]
Reason == {"level", "timeout", "manual"}
Item   == [sym : Symbols, reason : Reason, seen : Pos]
EventOf(kinds) == [kind : kinds, sym : Symbols, pos : Pos, gross : Int,
                   funding : Int, reason : Reason \cup {"none"}, seen : Pos]
Event   == EventOf({"open", "funding", "close"})
Journal == [cash : Int, realised : Int, accrued : Int, total : Int,
            open : [Symbols -> Int], ids : SUBSET ({"open", "close"} \X Pos)]
EventId == {"open", "close"} \X Pos

OutsideLock == {"idle", "peeked", "prepared"}
ExitPhases  == {"exits", "accruing", "settled"}
EntryPhases == {"filled", "recorded", "stamped"}
---------------------------------------------------------------------------
(* Reads the handlers make. *)

Held == {s \in Symbols : ram[s].pos # 0}
OpenOn(s) == {p \in Pos : status[p] = "open" /\ deal[p].sym = s}
\* Fault: a lookup that forgets the status filter.
FindAny(s) == CHOOSE p \in 1 .. fills : deal[p].sym = s
FindOpen(s) == CHOOSE p \in OpenOn(s) : TRUE
Ledgered == {s \in Symbols : OpenOn(s) # {}}

OpenEvent(p, s) == [kind |-> "open", sym |-> s, pos |-> p,
                    gross |-> 0, funding |-> 0, reason |-> "none", seen |-> p]
\* Fault: an id that names only the symbol.
EventKeyBySymbol(e) == <<e.kind, e.sym>>
EventKey(e) == <<e.kind, e.pos>>

\* Fault: the expiry comparison reversed.
OverdueReversed(t) ==
  {s \in Symbols \ {i.sym : i \in prep[t]} : OpenOn(s) # {} /\ OpenOn(s) \cap expired = {}}

\* Symbols with an expired open row that the peek did not already report.
Overdue(t) ==
  {s \in Symbols \ {i.sym : i \in prep[t]} : OpenOn(s) \cap expired # {}}

\* A thread is inside process_paper_close_requests with a close to settle.
Draining ==
  \E i \in UNION {prep[u] : u \in Threads} \cup cur \cup flight : i.reason = "manual"

\* One iteration of the loop in replay_events.
Replay(j, e) ==
  IF e.kind = "open"
  THEN [j EXCEPT !.cash = @ - EntryFee]
  ELSE IF e.kind = "funding"
  THEN [j EXCEPT !.cash = @ - e.funding, !.accrued = @ + e.funding,
                 !.open[e.sym] = @ + e.funding]
  ELSE [j EXCEPT !.cash = @ + e.gross - ExitFee,
                 !.realised = @ + e.gross - ExitFee - EntryFee - e.funding,
                 !.total = @ + e.funding,
                 !.open[e.sym] = @ - e.funding]

\* Fault: the journal file is not rewritten.
RecordNothing(j, e) == j

\* PaperCashStore.record of an event with a durable id.
Record(j, e) ==
  IF EventKey(e) \in j.ids THEN j
  ELSE [Replay(j, e) EXCEPT !.ids = @ \cup {EventKey(e)}]

\* Fault: a restart replays the journal alone.
DurableIgnored == {}

\* Durable events merge_cash_events adds to the journal after a restart.
Durable == closeEvs \cup {OpenEvent(p, deal[p].sym) : p \in openEvs}
Unjournaled == {e \in Durable : EventKey(e) \notin jnl.ids}

\* Closes find_durable_close_payload accepts for a row, latest first.
MatchingCloses(s) ==
  {e \in closeEvs : e.sym = s /\ deal[e.pos].terms = ram[s].terms}
LatestMatches(s) ==
  {e \in MatchingCloses(s) : \A f \in MatchingCloses(s) : f.pos <= e.pos}

\* Fault: funding already in cash is not copied to the row.
HydratedWithoutFunding(s) ==
  [pos |-> FindOpen(s), terms |-> deal[FindOpen(s)].terms, funding |-> 0]

\* The row hydrate rebuilds for a symbol that is open in the ledger.
HydratedRow(s) ==
  [pos |-> FindOpen(s), terms |-> deal[FindOpen(s)].terms, funding |-> jnl.open[s]]

\* Fault: a repeated event id debits again.
ApplyUnchecked(e) ==
  IF ram[e.sym] = NoRow THEN UNCHANGED <<jnl, brokerVars>>
  ELSE /\ cash' = cash + e.gross - ExitFee
       /\ realised' = realised + e.gross - ExitFee - EntryFee - e.funding
       /\ ram' = [ram EXCEPT ![e.sym] = NoRow]
       /\ applied' = applied \cup {EventKey(e)}
       /\ jnl' = Record(jnl, e)

\* PaperBroker.apply_journal_close of a whole-position close.
ApplyJournalClose(e) ==
  IF EventKey(e) \in applied
  THEN jnl' = Record(jnl, e) /\ UNCHANGED brokerVars
  ELSE IF ram[e.sym] = NoRow
  THEN UNCHANGED <<jnl, brokerVars>>
  ELSE /\ cash' = cash + e.gross - ExitFee
       /\ realised' = realised + e.gross - ExitFee - EntryFee - e.funding
       /\ ram' = [ram EXCEPT ![e.sym] = NoRow]
       /\ applied' = applied \cup {EventKey(e)}
       /\ jnl' = Record(jnl, e)
---------------------------------------------------------------------------
Init ==
  /\ phase = "up"
  /\ lock = Free
  /\ pc = [t \in Threads |-> "idle"]
  /\ prep = [t \in Threads |-> {}]
  /\ cur = {}
  /\ flight = {}
  /\ ram = [s \in Symbols |-> NoRow]
  /\ cash = Capital
  /\ realised = 0
  /\ applied = {}
  /\ jnl = [cash |-> Capital, realised |-> 0, accrued |-> 0, total |-> 0,
            open |-> [s \in Symbols |-> 0], ids |-> {}]
  /\ status = [p \in Pos |-> "none"]
  /\ deal = [p \in Pos |-> CHOOSE d \in Deal : TRUE]
  /\ closeEvs = {}
  /\ openEvs = {}
  /\ expired = {}
  /\ tripped = FALSE
  /\ fills = 0
  /\ paid = [p \in Pos |-> 0]
  /\ crashes = 0
  /\ faults = 0

Running(t, at) == phase = "up" /\ pc[t] = at
Holding(t, at) == Running(t, at) /\ lock = t
Goto(t, to) == pc' = [pc EXCEPT ![t] = to]
Release(t) == lock' = Free /\ Goto(t, "idle")
Fault == faults < MaxFaults /\ faults' = faults + 1
---------------------------------------------------------------------------
(* Entries: _attempt_entry_locked and _place_order, one hold of the lock.  *)

\* The risk engine approved, and _apply_open fills and journals the entry.
FillEntry(s, k) ==
  /\ Running(Main, "idle") /\ lock = Free
  /\ ~tripped /\ OpenOn(s) = {} /\ ram[s] = NoRow
  /\ fills < MaxPos
  /\ fills' = fills + 1
  /\ deal' = [deal EXCEPT ![fills + 1] = [sym |-> s, terms |-> k]]
  /\ ram' = [ram EXCEPT ![s] = [pos |-> fills + 1, terms |-> k, funding |-> 0]]
  /\ cash' = cash - EntryFee
  /\ jnl' = Replay(jnl, OpenEvent(fills + 1, s))
  /\ lock' = Main /\ Goto(Main, "filled")
  /\ UNCHANGED <<prep, cur, flight, realised, applied, status, closeEvs,
                 openEvs, phase, expired, tripped, crashes, faults, paid>>

\* Ledger.open_position commits the row.
RecordEntry ==
  /\ Holding(Main, "filled")
  /\ status' = [status EXCEPT ![fills] = "open"]
  /\ Goto(Main, "recorded")
  /\ UNCHANGED <<lock, prep, cur, flight, brokerVars, jnl, deal, closeEvs,
                 openEvs, envVars, paid>>

\* Ledger.open_position raises: the fill stays in RAM and in the journal.
RecordEntryFails ==
  /\ Holding(Main, "filled")
  /\ Fault /\ Release(Main)
  /\ UNCHANGED <<prep, cur, flight, brokerVars, jnl, dbVars, phase, expired,
                 tripped, fills, crashes, paid>>

\* Fault: the stamp appends a second open event.
StampAppends ==
  /\ Holding(Main, "recorded")
  /\ jnl' = Record(jnl, OpenEvent(fills, deal[fills].sym))
  /\ Goto(Main, "stamped")
  /\ UNCHANGED <<lock, prep, cur, flight, brokerVars, dbVars, envVars, paid>>

\* Fault: the stamp does not reach the journal.
StampLost ==
  /\ Holding(Main, "recorded")
  /\ Goto(Main, "stamped")
  /\ UNCHANGED <<lock, prep, cur, flight, brokerVars, jnl, dbVars, envVars, paid>>

\* stamp_open_cash_event rewrites the journal's open event with its id.
StampEntry ==
  /\ Holding(Main, "recorded")
  /\ jnl' = [jnl EXCEPT !.ids = @ \cup {<<"open", fills>>}]
  /\ Goto(Main, "stamped")
  /\ UNCHANGED <<lock, prep, cur, flight, brokerVars, dbVars, envVars, paid>>

\* persist_paper_open_event inserts the durable copy.
MirrorEntry ==
  /\ Holding(Main, "stamped")
  /\ openEvs' = openEvs \cup {fills}
  /\ Release(Main)
  /\ UNCHANGED <<prep, cur, flight, brokerVars, jnl, status, deal, closeEvs,
                 envVars, paid>>

\* The insert raises: logged, and the fill stands.
MirrorEntryFails ==
  /\ Holding(Main, "stamped")
  /\ Fault /\ Release(Main)
  /\ UNCHANGED <<prep, cur, flight, brokerVars, jnl, dbVars, phase, expired,
                 tripped, fills, crashes, paid>>
---------------------------------------------------------------------------
(* Exits: _prepare_paper_exits outside the lock, then one hold that commits *)
(* every prepared item.  Both threads run them.                             *)

\* peek_exit_triggers: rows copied under the lock, marks read after it.
PeekTriggers(t) ==
  /\ Running(t, "idle") /\ lock = Free
  /\ \E hit \in SUBSET Held :
       prep' = [prep EXCEPT ![t] =
         {[sym |-> s, reason |-> "level", seen |-> ram[s].pos] : s \in hit}]
  /\ Goto(t, "peeked")
  /\ UNCHANGED <<lock, cur, flight, brokerVars, jnl, dbVars, envVars, paid>>

\* The ledger's open rows past expiry_at, read without the lock.
ScanExpiries(t) ==
  /\ Running(t, "peeked")
  /\ prep' = [prep EXCEPT ![t] = @ \cup
       {[sym |-> s, reason |-> "timeout", seen |-> FindOpen(s)] : s \in Overdue(t)}]
  /\ Goto(t, IF prep'[t] = {} THEN "idle" ELSE "prepared")
  /\ UNCHANGED <<lock, cur, flight, brokerVars, jnl, dbVars, envVars, paid>>

\* A manual close request of an open position: quoted outside the lock, by
\* one thread at a time (_CLOSE_DRAIN).
PrepareManual(t, s) ==
  /\ Running(t, "idle") /\ OpenOn(s) # {} /\ ~Draining
  /\ prep' = [prep EXCEPT ![t] =
       {[sym |-> s, reason |-> "manual", seen |-> FindOpen(s)]}]
  /\ Goto(t, "prepared")
  /\ UNCHANGED <<lock, cur, flight, brokerVars, jnl, dbVars, envVars, paid>>

TakeBook(t) ==
  /\ Running(t, "prepared") /\ lock = Free
  /\ lock' = t /\ Goto(t, "exits")
  /\ UNCHANGED <<prep, cur, flight, brokerVars, jnl, dbVars, envVars, paid>>

\* A stop or target quote aged out and its level is no longer hit.
DropStale(t, i) ==
  /\ Holding(t, "exits") /\ i \in prep[t] /\ i.reason = "level"
  /\ prep' = [prep EXCEPT ![t] = @ \ {i}]
  /\ UNCHANGED <<lock, pc, cur, flight, brokerVars, jnl, dbVars, envVars, paid>>

\* No open ledger row: apply a committed close to the RAM row, if one fits.
SkipUnledgered(t, i) ==
  /\ Holding(t, "exits") /\ i \in prep[t] /\ OpenOn(i.sym) = {}
  /\ prep' = [prep EXCEPT ![t] = @ \ {i}]
  /\ IF ram[i.sym] # NoRow /\ MatchingCloses(i.sym) # {}
     THEN \E e \in LatestMatches(i.sym) : ApplyJournalClose(e)
     ELSE UNCHANGED <<brokerVars, jnl>>
  /\ UNCHANGED <<lock, pc, cur, flight, dbVars, envVars, paid>>

\* A position is open on the symbol: accrue funding, then price the close.
BeginExit(t, i) ==
  /\ Holding(t, "exits") /\ i \in prep[t] /\ OpenOn(i.sym) # {}
  /\ prep' = [prep EXCEPT ![t] = @ \ {i}]
  /\ cur' = {i}
  /\ Goto(t, "accruing")
  /\ UNCHANGED <<lock, flight, brokerVars, jnl, dbVars, envVars, paid>>

\* One symbol's step of accrue_funding, in a cycle or before a close.
AccrueFunding(t, s, target) ==
  /\ \/ t = Main /\ Running(t, "idle") /\ lock = Free
     \/ Holding(t, "accruing")
  /\ s \in Held /\ target # ram[s].funding
  /\ LET step == target - ram[s].funding
     IN /\ cash' = cash - step
        /\ ram' = [ram EXCEPT ![s].funding = target]
        /\ jnl' = Replay(jnl, [kind |-> "funding", sym |-> s, pos |-> ram[s].pos,
                        gross |-> 0, funding |-> step, reason |-> "none",
                        seen |-> ram[s].pos])
        /\ paid' = [paid EXCEPT ![ram[s].pos] = @ + step]
  /\ UNCHANGED <<threadVars, realised, applied, dbVars, envVars>>

\* settle_paper_close commits the cash event, the trade and the closed row.
CommitClose(t, g) ==
  /\ Holding(t, "accruing")
  /\ \E i \in cur :
       /\ ram[i.sym] # NoRow
       /\ LET p == FindOpen(i.sym)
              e == [kind |-> "close", sym |-> i.sym, pos |-> p, gross |-> g,
                    funding |-> ram[i.sym].funding, reason |-> i.reason,
                    seen |-> i.seen]
          IN /\ closeEvs' = closeEvs \cup {e}
             /\ status' = [status EXCEPT ![p] = "closed"]
             /\ flight' = {e}
  /\ cur' = {}
  /\ Goto(t, "settled")
  /\ UNCHANGED <<lock, prep, brokerVars, jnl, deal, openEvs, envVars, paid>>

\* No price, or no RAM row to quote: the item is dropped.
GiveUpExit(t) ==
  /\ Holding(t, "accruing")
  /\ cur' = {}
  /\ Goto(t, "exits")
  /\ UNCHANGED <<lock, prep, flight, brokerVars, jnl, dbVars, envVars, paid>>

\* The transaction rolls back and the exception abandons the whole pass.
SettleRaises(t) ==
  /\ Holding(t, "accruing")
  /\ Fault /\ Release(t)
  /\ cur' = {}
  /\ prep' = [prep EXCEPT ![t] = {}]
  /\ UNCHANGED <<flight, brokerVars, jnl, dbVars, phase, expired, tripped,
                 fills, crashes, paid>>

\* apply_journal_close of the committed payload: RAM, then the journal.
ApplyClose(t) ==
  /\ Holding(t, "settled")
  /\ \E e \in flight : ApplyJournalClose(e)
  /\ flight' = {}
  /\ Goto(t, "exits")
  /\ UNCHANGED <<lock, prep, cur, dbVars, envVars, paid>>

LeaveBook(t) ==
  /\ Holding(t, "exits") /\ prep[t] = {}
  /\ Release(t)
  /\ UNCHANGED <<prep, cur, flight, brokerVars, jnl, dbVars, envVars, paid>>
---------------------------------------------------------------------------
(* Reconciliation, the operator, time, death and restart. *)

\* Fault: the snapshot and the ledger are read without the lock.
ReconcileUnlocked ==
  /\ Running(Main, "idle") /\ Held # Ledgered
  /\ tripped' = TRUE
  /\ UNCHANGED <<threadVars, brokerVars, jnl, dbVars, phase, expired, fills,
                 crashes, faults, paid>>

\* A row on one side only, or rows that disagree, trips the kill switch.
Reconcile ==
  /\ Running(Main, "idle") /\ lock = Free
  /\ \/ Held # Ledgered
     \/ \E s \in Held \cap Ledgered : ram[s].terms # deal[FindOpen(s)].terms
  /\ tripped' = TRUE
  /\ UNCHANGED <<threadVars, brokerVars, jnl, dbVars, phase, expired, fills,
                 crashes, faults, paid>>

ResetKillSwitch ==
  /\ tripped /\ tripped' = FALSE
  /\ UNCHANGED <<threadVars, brokerVars, jnl, dbVars, phase, expired, fills,
                 crashes, faults, paid>>

Expire(p) ==
  /\ status[p] = "open"
  /\ expired' = expired \cup {p}
  /\ UNCHANGED <<threadVars, brokerVars, jnl, dbVars, phase, tripped, fills,
                 crashes, faults, paid>>

Crash ==
  /\ phase = "up" /\ crashes < MaxCrashes
  /\ phase' = "down" /\ crashes' = crashes + 1
  /\ lock' = Free
  /\ pc' = [t \in Threads |-> "idle"]
  /\ prep' = [t \in Threads |-> {}]
  /\ cur' = {} /\ flight' = {}
  /\ ram' = [s \in Symbols |-> NoRow]
  /\ cash' = 0 /\ realised' = 0 /\ applied' = {}
  /\ UNCHANGED <<jnl, dbVars, expired, tripped, fills, faults, paid>>

\* _restore_cash appends one durable event the journal lacks.
Recover(e) ==
  /\ phase = "down" /\ e \in Unjournaled
  /\ jnl' = Record(jnl, e)
  /\ UNCHANGED <<threadVars, brokerVars, dbVars, envVars, paid>>

\* hydrate: cash from the journal, then rows from the ledger.
Restart ==
  /\ phase = "down" /\ Unjournaled = {}
  /\ phase' = "up"
  /\ cash' = jnl.cash /\ realised' = jnl.realised
  /\ applied' = jnl.ids
  /\ ram' = [s \in Symbols |->
       IF OpenOn(s) = {} THEN NoRow ELSE HydratedRow(s)]
  /\ UNCHANGED <<threadVars, jnl, dbVars, expired, tripped, fills, crashes,
                 faults, paid>>
---------------------------------------------------------------------------
Entry ==
  \/ \E s \in Symbols, k \in Terms : FillEntry(s, k)
  \/ RecordEntry \/ RecordEntryFails \/ StampEntry
  \/ MirrorEntry \/ MirrorEntryFails

\* The steps a thread takes towards committing what it has prepared.
Commit(t) ==
  \/ \E i \in prep[t] : DropStale(t, i) \/ SkipUnledgered(t, i) \/ BeginExit(t, i)
  \/ \E g \in Gross : CommitClose(t, g)
  \/ GiveUpExit(t) \/ SettleRaises(t) \/ ApplyClose(t) \/ LeaveBook(t)

Prepare(t) ==
  \/ PeekTriggers(t) \/ ScanExpiries(t)
  \/ \E s \in Symbols : PrepareManual(t, s)

Next ==
  \/ Entry
  \/ \E t \in Threads : Prepare(t) \/ TakeBook(t) \/ Commit(t)
  \/ \E t \in Threads, s \in Symbols, f \in FundingTargets : AccrueFunding(t, s, f)
  \/ Reconcile \/ ResetKillSwitch
  \/ \E p \in Pos : Expire(p)
  \/ Crash \/ Restart
  \/ \E e \in Unjournaled : Recover(e)

Spec == Init /\ [][Next]_vars
===========================================================================
