# Verification of the paper trading desk

MAR is a crypto trading firm in one repository: a paper desk that trades by
itself, the agents that research strategies for it, and a web view of both. The
TLA+ here is mostly about the desk: the program that runs unattended, keeps an
account, survives restarts, and must never lose, double or invent money. One
module is about the firm's research, whose job ledger several processes share.

Paths below are relative to the repository root. `core/execution/paper.py:607`
is line 607 of that file.

## 1. Inventory

### The desk (one process, `scripts/run_paper_trading.py`)

| Part | State it keeps | Operations | Correct when |
|---|---|---|---|
| `PaperBroker` (`paper.py`) | RAM: cash, realised P&L, one row per held symbol, applied close ids | fill an entry, accrue funding, peek exit triggers, apply a close from the journal, stamp an event id, hydrate | cash is the sum of everything that happened, once |
| `PaperCashStore` (`paper_cash.py`) | `data/paper_cash.json`: an append-only event list | append, stamp an id, replay, merge with the durable events | a replay gives the account the process had |
| Settlement (`paper_settle.py`) | SQLite `paper_cash_events` | one transaction per close; a mirror of each entry event; load and match durable closes | the SQLite commit decides a close; it is never applied twice |
| `Ledger` (`ledger/store.py`) | SQLite `positions`, trades, equity, risk events | open row, close row, find open, reconcile | one open row per symbol, and it has a broker row |
| `BookGuard` (`book_guard.py`) | one re-entrant lock | hold, release | every change of the book is under it |
| `TradingEngine` (`engine.py`) | the plan, per-cycle equity | cycle: reconcile, funding, exits, scan, entries, accounting | exits before entries; a mismatch stops entries |
| `PaperExitSupervisor` (`exit_supervisor.py`) | a thread | every 15 s: prepare exits, commit them | an expired or stopped position is closed soon |
| Manual close requests (`paper_close_requests.py`) | `data/close_requests/*.json`, `.done`, `.error` | bind, settle, answer | the bound position is closed once; one answer per file |
| Bar evaluation (`paper_bar_eval.py`) | `data/paper_bar_eval_state.json`; a RAM hold of GBN signals | poll, cycle hook, deferred commit | each closed bar is taken once per sleeve |
| Entry ordering (`entry_ordering.py`) | none (pure, per batch) | rank, submit until the slots are used | the batch is ranked as a whole |
| `KillSwitch` (`risk/killswitch.py`) | one JSON file | trip, read, reset | a tripped switch stops entries until an operator resets it |
| Risk engine (`risk/engine.py`, `limits.py`) | none (reads the portfolio) | evaluate an entry, size it | no approval beyond the caps; agents only shrink |
| Loss-streak probation (`loss_streak_probation.py`) | none (reads settled trades) | count a streak, block or shrink | a streak is counted from settled trades only |
| F111 (`f111_paper.py`, `f111_funding.py`) | state file, prepared windows | prepare, minute steps, observed funding | one lifecycle per window; funding booked once |
| Run loop (`run_paper_trading.py`) | halted, stop event | cycle every 900 s, poll every 15 s, stop when halted and flat | a halt keeps supervising until the book is flat |
| Research jobs (`firm/research_jobs.py`) | `research_jobs.json` and a backup; spawned validators | stage, queue, start, finish, refresh liveness, fill a slot | no row is lost; a dead validator frees its slot; a verdict stands |

Two threads run in the process: **main** (cycles, polls, entries, exits, the
reconciliation) and **paper-exit-supervisor** (exits only). They share the
broker, the journal, SQLite and the request directory. Other processes share
files with it: the web view trips and resets the kill switch and drops close
requests; the validators it spawns write the job ledger.

### How the parts interact

* An entry: `_attempt_entry` holds `BookGuard` for the risk check and the order.
  `PaperBroker._apply_open` debits the fee and appends it to the journal; then
  `Ledger.open_position` inserts the row; then `stamp_open_cash_event` writes
  the position id into the journal's event; then `persist_paper_open_event`
  mirrors it in SQLite. Each of the four can be the last thing the process does.
* An exit: `_prepare_paper_exits` reads triggers and expiries *without* the
  lock; `_settle_paper_exit` takes it and commits each prepared item: accrue
  funding, price, one SQLite transaction (cash event, trade, closed row), then
  RAM, then the journal.
* A restart: `_restore_cash` merges the durable events the journal lacks,
  replays it into cash, and `hydrate` rebuilds rows from the ledger's open rows,
  copying open funding to them by symbol.
* Reconciliation compares broker rows with ledger rows and trips the kill switch
  on a mismatch. The switch is read for every intent; the loop leaves only when
  halted and flat.
* F111 runs on the main thread between cycles, trades symbols the sleeves trade
  too, and moves the stop the exit thread reads.

### What is hard in it

Two threads around one lock with work prepared outside it; three copies of the
account (RAM, JSON, SQLite) and no transaction over all three; matching by
symbol where identity is by position id; restart at any point between writes;
files used as queues; one missed bar being an order that never happens. Each of
these, at its line, is in `PROJECT.json` under `hazards`.

### Outside the desk

The live exchange adapter is gated off and is pure HTTP. `core/data` is caching
and I/O. `core/strategy` is about 190 signal functions. `firm/` is agents, the
research pipeline and its job queues: they reach the desk through the approval
book only, and can veto or shrink but not place an entry; of it, the job ledger
is modelled. `api/` reads, except for the two files named above. `research/` and
`legacy/` are batch tools. Section 7 says why these are not modelled.

## 2. Modules

| Module | Role |
|---|---|
| `BookAccount` | abstract: one account, one round trip per position, no threads, no deaths |
| `PaperBook` | the book: broker, journal, settlement, ledger, lock, both threads, death and restart |
| `PaperBookProps` | its properties, the inductive invariant, the refinement mapping, fairness |
| `MCPaperBook` | values for TLC |
| `PaperBookProofs` | theorems about the book |
| `PaperBookRefinement` | `PaperBook` implements `BookAccount` |
| `BarEval` | which closed bar of which sleeve is evaluated and submitted: poll, cycle, cursor file, held batch, death |
| `BarEvalProps`, `MCBarEval` | its properties and fairness; values for TLC |
| `KillSwitch` | the kill switch file at the grain of file operations, with two writing processes |
| `HaltLoop` | extends it: the run loop, the exit thread, the halt, shutdown, deaths of either process |
| `HaltLoopProps` | the properties and fairness of both |
| `CloseRequests` | the files of `data/close_requests` under two draining threads |
| `CloseRequestsProps`, `MCCloseRequests` | its properties; values for TLC |
| `F111` | one symbol's F111 runtime, with the other users of that symbol |
| `F111Props`, `MCF111` | its properties; values for TLC |
| `EntryGate` | halts, limits and probation at an entry, while exits go on |
| `EntryGateProps`, `MCEntryGate` | its properties; values for TLC |
| `CycleAccounting`, `MCCycleAccounting` | the equity a pass, a snapshot and the drawdown use |
| `ResearchJobs`, `ResearchJobsProps` | the research job ledger under several processes; its properties |
| `HaltLoopProofs`, `EntryGateProofs`, `ResearchJobsProofs`, `CloseRequestsProofs`, `BarEvalProofs`, `F111Proofs` | theorems about each (section 5) |

The components meet in three ways. `HaltLoop` composes the kill switch with the
loop and the two threads, and counts positions where `PaperBook` names them.
`PaperBook` contains one settlement of a manual close under the book lock;
`CloseRequests` contains everything around it and takes the settlement as one
step. `EntryGate`, `BarEval` and `F111` each take the exit thread as an action
that may come between any two of their own steps, which is what `PaperBook`
shows it may do.

### PaperBook and the code

| Variable | In the code |
|---|---|
| `ram`, `cash`, `realised`, `applied` | `PaperBroker._positions`, `_cash`, `realised_pnl`, `_applied_close_ids` |
| `jnl` | `data/paper_cash.json`, as what `replay_events` computes from it and the event ids in it |
| `status`, `deal`, `closeEvs`, `openEvs` | SQLite: `positions.status`; symbol, quantity and price; `paper_cash_events` of both kinds |
| `lock`, `pc`, `prep`, `cur`, `flight` | `BookGuard`; where each thread is; the list from `_prepare_paper_exits`; the item being committed; the payload between commit and RAM |
| `expired`, `tripped` | `expiry_at` passed; the kill switch file |
| `paid`, `crashes`, `faults`, `fills` | history and bounds |

Position ids are fill numbers. Quantity and entry price are one value, `Terms`,
because the durable matching compares both and nothing else looks at them.
Actions are named for the code's step; the map in `PROJECT.json` gives the lines
of each. An action is one step the other thread or a death can observe: the
durable writes inside one hold of the lock are separate actions, because a death
may fall between any two; RAM changes in the same hold are not.

Definitions commented `Fault:` are the deviations each property is shown to
catch. `Next` uses none of them.

Left out of `PaperBook`, deliberately:

* a JSON write that raises between memory and file, and a durable read that
  fails during a restart (section 6, `JournalStore`);
* partial closes, contributions and observed F111 funding;
* the id that suppresses a second accrual in the same funding interval: the
  model may accrue more often than the code, never less;
* the branches of `settle_paper_close` for an id that is already there: every
  caller holds the lock and has just found an open row, so they are unreachable;
* rejected entries (cash, instrument limits), which change nothing.

### BarEval and the code

| Variable | In the code |
|---|---|
| `now` | `engine._now()`, in units of the latency window (15 minutes) |
| `gbn` | `ENTRY_ORDERING_GBN`, constant while a desk runs |
| `walk`, `step`, `at` | the poll's or the cycle's loop over `plan.entries`, and the step inside one sleeve |
| `hold` | `BarEvalState.gbn_hold`: `visited`, `pending`, `anchors` |
| `batch`, `cur` | what `execute_entry_ordering` still has to submit; the signal being ordered |
| `seen`, `disk` | `BarEvalState.sleeves` and `paper_bar_eval_state.json` |
| `open`, `tripped` | symbols the duplicate check and the risk engine would refuse; the kill switch |
| `tries`, `direct` | history: submissions through the cursor and past it |

A bar is named by its close. One visit of a sleeve reads the clock once, as the
code does, except where the code reads it twice: a sleeve the cycle hook hands
back, outside its window or sat out, goes to the cycle's own scan, which reads
the clock and the regime again (`LeaveToScan`, then `ScanSignal`). Whether a candle is published, a gate sits a sleeve out, the book
can be read or a strategy has a signal is arbitrary at every visit. In plan
order the order precedes the mark (`OrderNow`, `MarkOrdered`); with GBN the mark
precedes the order (`SubmitMarked`, `OrderMarked`); a death or an exception may
fall between the two. The rank GBN gives a batch depends on betas and sizes, so
a batch is submitted in any order. Left out: the candle cache, the diary, an
unreadable cursor file (nothing is evaluated then), a flag changed across a
restart, and submissions by F111.

### KillSwitch, HaltLoop and the code

| Variable | In the code |
|---|---|
| `file`, `temp`, `data` | the inodes `killswitch.json` and `killswitch.tmp` name, and what is in each |
| `wr` | where each writing process is in `trip`, `reset` or `_write` |
| `stage` | the main thread's place in `run_paper_trading.main` and `run_cycle` |
| `checked` | an intent passed `_check_halts` and is not filled yet |
| `blocked` | `CycleReport.halted` or `entries_blocked` of this cycle |
| `open`, `due`, `orphan` | ledger rows, those an exit is due for, RAM rows the ledger never got |
| `shutdown` | `_shutdown_requested` |
| `standing`, `overlapped`, `late`, `fills`, `ops`, `troubles` | history and bounds |

A file is an inode because both processes use the name `killswitch.tmp`: one
that has it open keeps writing into it after the other has renamed it. Left
out: the cause text of a trip beyond who wrote it, the health branch
(`PaperBroker.get_balance` neither raises nor returns `None`), the pid lock,
reports, and the firm's daily routines, which do not touch the book.

### CloseRequests and the code

| Variable | In the code |
|---|---|
| `file`, `done`, `error` | `<name>.json` with its stored bindings and mtime, `<name>.done`, `<name>.error` |
| `drain` | the locals of `_drain_close_request_files` in each thread |
| `lock` | `_CLOSE_DRAIN` |
| `pos`, `now` | ledger rows with symbol, opening time, state and what closed them; the clock |
| `dropped`, `asked` | history: when a request came, which targets were settled |

The binding of symbols, its save, each location, quote, settlement, verdict,
the answer, the unlink and the rejection are separate actions; each may raise,
and the process may die between any two. Left out: the JSON text (a request is
valid or `Bad`) and the chat and diary messages that announce a close.

### F111 and the code

| Variable | In the code |
|---|---|
| `clock`, `bars` | minutes, and the closed candle of each: which boundaries it touched, which it closed beyond |
| `pc`, `now` | the step inside one minute step, and the clock it read |
| `pending`, `seen`, `protection`, `lastExit` | the same fields of `F111PaperRuntime`, the ones `persist` writes |
| `lastHour` | `last_hour`, in memory only |
| `file` | the state file |
| `broker`, `ledger` | the symbol's row in RAM and in SQLite: id, owner, stop |
| `rows`, `fills`, `crashes`, `faults` | history and bounds |

A price is the favourable move from the entry in quarters of an R, so long and
short read alike. Left out: more than one symbol (the runtime keeps each
symbol's fields apart; they share slots, which `EntryGate` has), sizing, the
agents' veto, the booking of observed funding, and the event log.

### EntryGate, CycleAccounting and the code

| Variable | In the code |
|---|---|
| `mode` | `LOSS_STREAK_PROBATION` and `LOSS_STREAK_CLUSTER_OVERLAPPING` |
| `time`, `midnight`, `days` | order of `opened_at` and `exit_time`, and the UTC day of a trade |
| `positions`, `trades` | open ledger rows; closed trades with net result, entry and exit |
| `order` | the intent approved under the book lock and not placed yet |
| `rows`, `cash`, `peak` | `CycleAccounting`: marks of the open rows, `broker.cash`, the highest equity snapshot |
| `pc`, `equity`, `unrealised` | the pass, the equity it read at its beginning, the half-made snapshot |
| `tripped`, `truePeak` | the kill switch; history |

`trial` in a row is history: the code does not store it, it works out from
timestamps whether an open row was placed as a trial, and `TrialsAreRemembered`
says that this finds the same rows. Left out: the arithmetic of sizes, sector and
exposure caps and the agents' clamp (each may only refuse or shrink, which
`Refuse` covers), fees and funding in an equity.

### ResearchJobs and the code

| Variable | In the code |
|---|---|
| `primary`, `bak` | `research_jobs.json` and its `.bak`, or their absence |
| `noted` | `max_job_id` of the walk-forward history |
| `at` | per process: the operation, the rows it loaded, the job and the spawned process |
| `run` | the validators: alive, zombie or gone, their job and parent |

A load and a save each hold the file lock; they are one action each, and a
death may fall between the two renames of a save (`DieSaving`). Left out: which
hypothesis a job tests, the gates that send a standby row back, saves that
change no status, and process ids the system gives twice. The host is a POSIX one:
on Windows `_jobs_file_lock` finds no `fcntl` and locks nothing, so that a load and
a save are not one step there. A child that ended is a zombie, alive to
`os.kill(pid, 0)`, until its parent collects it or dies.

## 3. Runs

| Run | Checks | Shows |
|---|---|---|
| `PaperBook` | `TypeOK`, `AtMostOneUnjournaled`, `OpenMirrorsAreJournaled`, `FundingIsOwned`, `NoFalseTrip`, `SettledOnce`, `OpenPositionsAreWatched`, `CashMatchesHistory` | Two symbols, two threads, one death and one failing SQLite write: every close settles once, every open position is watched, cash is what its history says, funding belongs to the held position, a restart recovers at most one event, and the threads never make reconciliation trip. |
| `PaperBookLive` | `ImplementsAccount`, `SettledReachesJournal`, `ExpiredIsClosed` | What a restart would restore implements the abstract account through two deaths; under fair scheduling a committed close reaches the journal, and a position past its holding window is closed although a failing write, a stale level or a skipped price may delay it. |
| `BarEval` | `TypeOK`, `SubmittedOnce`, `HeldBatchIsOneBar`, `MarkedIsFinal`, `DueBarIsTaken` | Two sleeves on one symbol, polls and cycles with and without GBN ordering, one death, exception or trip: a signal goes through the cursor once, a marked bar is final, the poll's held batch stays one bar, and under fair polling a due bar is taken while its window lasts. |
| `CloseRequests` | `TypeOK`, `OnePositionPerSymbol`, `LaterCloseNeedsARace`, `AnswersAreTrue`, `AnswerStands`, `EveryRequestLeaves` | The files of data/close_requests under two draining threads, a death, a failing write or raise, stops closing the same rows and entries opening new ones: a symbol asks for one position, a later one is closed only when something else closed the located one just before, the answer is true and stays, and every request is taken out of the directory. |
| `F111` | `TypeOK`, `FilledOnce`, `FillIsConfirmed`, `StopNeverLoosens`, `FloorWaitsASample` | One symbol's F111 runtime, from prepared window to protection, through deaths, raises at each write, late minute steps, the exit thread and a sleeve that shares the symbol: a window fills once and only when its touch and reclaim are in closed minutes, and the floor appears a sample late and never loosens. |
| `StaleProtection` (expected violation) | `OtherRowsAreLeftAlone` | F111's protection is kept by symbol: when the exit thread has closed the F111 row and another sleeve has entered the symbol, the next minute step moves the stop of the other sleeve's row, or closes it. |
| `EntryGate` | `TypeOK`, `TrialsAreRemembered`, `OneTrialAtATime`, `FillsMeetTheLimits` | Two strategies on two symbols under each probation mode, exits racing the check and the fill, overlapping losses, midnight: what the engine admits still meets every limit when it fills, and a strategy on probation has one trial open at a time however its streak moves while the trial runs. |
| `FalsePeak` (expected violation) | `DrawdownTripIsReal` | A winning exit between the row read and the cash read of one equity snapshot is counted twice; the peak it records later trips the kill switch for a drawdown that never was. |
| `HaltLoop` | `TypeOK`, `TripStands`, `AtMostOneLateFill`, `LeavesOnlyFlat`, `HaltEndsFlat`, `MismatchTrips` | The kill switch at file grain with two writers, the run loop, the exit thread, deaths of either process and failing ledger inserts: a trip stands until a reset begins, one entry at most fills after it, the desk leaves only a flat book, and a halt nobody lifts ends flat. |
| `LostTrip` (expected violation) | `TripIsNotLost` | Two writers of the kill switch share one temporary file: one truncates what the other then renames into place, and a trip that was reported done reads as not tripped. |
| `ResearchJobs` | `TypeOK`, `IdsAreKept`, `CollectedJobsLeave` | The job ledger and its backup under the paper loop and two validators that load, change and save whole copies, and a death anywhere, between the two renames included: no row is dropped, and a row does not stay "running" when its validator's process id is free. |
| `LostVerdict` (expected violation) | `VerdictsStand` | A process that loaded the ledger before a validator wrote its verdict saves its old copy afterwards: the finished job is running, or failed, again. |

### Bounds

`PaperBook`: two symbols show that one symbol's exit does not disturb another's;
`MaxPos = 2` gives, on one symbol, a closed position and its successor with the
same terms, the case the durable lookup can confuse. One death and one failing
write together orphan a fill and restart over it. `PaperBookLive` keeps one
position and takes two deaths, so that a restart itself may die. Gross P&L,
fees and funding are small distinct integers: no property compares their size,
and no two mistakes cancel. The run `PaperBook` takes the symbols as symmetric:
no definition tells them apart, the rows `CHOOSE` picks are numbers and do not
depend on a symbol's name, and the one deal `Init` chooses for the positions not
yet filled is written before it is read. `PaperBookLive` checks liveness and uses
none.

`BarEval`: two sleeves on one symbol, so that each blocks the other, on a bar of
two windows. At instant 4 a bar of both is due, at 5 both are outside their
window and a cycle may use its own scan, at 6 the next bar is due. `MaxTroubles`
bounds deaths, exceptions and trips together. `MaxScans = 2` bounds the bars the
cycle's own scan submits past the cursor, which is both sleeves once or one sleeve
on both bars; each is submitted there once, as a cycle is as long as a window and
meets the window of a bar once. `BarBypass` and `BarSplit` use
three sleeves on two lengths of bar.

`HaltLoop`: two writers need two open inodes, the switch's and the temporary
one: four are never used up (`FilesAssumption`). Two positions and two fills
give an entry after an exit and one left open; two operations give a trip and
its reset, two troubles a death of each process, or a death and a failed insert.

`CloseRequests`: one symbol, one name and one content that asks for the same
position by symbol and by id; dropped twice, it is also the second request of
the same name. Two positions give the one asked for and a later one; a clock of
2 against a slack of 1 puts the later one outside the slack. A second file and a
second symbol add only order, as a drain works file by file.

`F111`: `Window = 2` stands for the sixty minutes of an hour and of a retest: a
retest has a first and a last minute, the minute after is its expiry, and five
minutes hold both hours' windows. Three bars are enough: one that touches both
sides, one that reclaims one side as well, and one that only closes beyond both,
which confirms an earlier touch and is quiet without one. The quotes hit the
stop, a floor, and pass activation; two rows on the symbol are the F111 row and
a sleeve's, in either order. The sleeve's stop (`SleeveStop`) lies between F111's
initial stop and its floor, so that a protection that outlived its row could
loosen it or tighten it: `_publish_stop` does only the second (the run
`StaleProtection`). The proofs hold for any `SleeveStop`.

`EntryGate`: thresholds of 2, so that a streak is one trade more than a loss, and
three trades, which build a streak, break it and build it again; two strategies
on two symbols compete for slots and share the cool-down. It was also run with
four trades, and with three symbols. Symmetry is used: the properties name no
symbol and no strategy, and sums do not depend on an order. `CycleAccounting`:
two symbols, marks that win and lose, and a drawdown one loss does not reach.

`ResearchJobs`: two jobs, two validators and one death anywhere. One desk keeps
apart what a validator and its desk can do to each other; two are in
`DuplicateId.cfg`.

`CHECK_DEADLOCK FALSE` stands where the bounds, or a desk that left, end a
behaviour: everything but the book and the bars.

### Fairness

`PaperBookLive` assumes weak fairness of each thread's loop and of the steps
inside a hold of the lock (threads run; nothing in a hold waits), weak fairness
of the restart (a supervisor or an operator starts the desk again), strong
fairness of taking the lock (`RLock` queues are served although not in order),
of beginning an exit that keeps being possible, and of its settlement: a quote
may be missing, or a level stale, any number of times but not for ever. Nothing
else is fair; a death, a failing write, an entry and a reset need never happen.
Strong fairness of `BeginExit` is needed because `_prepare_paper_exits` leaves a
symbol out of the expiry scan while a stop level is reported for it: a level
that is hit in every peek and stale in every commit would hide the timeout.

`BarEval` assumes that polls keep coming and that now and then one gets through
the plan within its budget (`[]<><<FinishPoll>>_vars`: a poll every 15 s, whose
budget is not spent before the last sleeve every time), that a walk or a
submission that began continues, that the operator resets the switch, that a due
sleeve visited again and again is at last published and not sat out, and that the
book is at last readable. Time may stop in a window, which is what lets "while the window lasts"
be said; nothing obliges it to.

`HaltLoop` assumes that threads run, that a process in the middle of a write goes
on, that a dead desk is started again, that a position runs out of time (the
holding window), and, strongly, that reconciliation does not raise in every
cycle. Trips, resets, signals, entries and deaths are not fair.

`CloseRequests` assumes weak fairness of each thread's drain: a step of a pass
that can be taken, beginning it with the lock free included, is taken. Raises
are bounded by `MaxFaults`, and nothing of the operator's is fair.

`ResearchJobs` assumes that a process in an operation goes on, and, strongly,
that the paper loop comes back to the refresh `advance_pipeline` begins with,
which every cycle calls. A child whose parent died is collected by init at once, a
dead child of a living desk when that desk happens to spawn again, or not at all; none
of this is fair.

## 4. What the violated runs show

**`StaleProtection`** (code bug, `core/execution/f111_paper.py:1152`).
protection is keyed by symbol, and _position_still_open answers whether any row
is open on the symbol. A stop or expiry closed by the exit thread does not clear
it; if an hourly sleeve enters the same symbol before the next minute step, that
step applies the old F111 protection to the sleeve's row: it publishes its floor
as that row's stop, or exits it at the F111 stop. f111_paper.py:1146 says 'True
when the broker or the ledger still has the row.' The run shows the other
sleeve's row losing its stop.

**`FalsePeak`** (code bug, `core/execution/engine.py:1210`).
_record_cycle_accounting reads the open rows' unrealised P&L under the book
lock, lets it go, and then reads broker.cash. A winning exit by the exit thread
in between puts the same P&L into both numbers, and the inflated equity is
stored as a snapshot. peak_equity is the highest snapshot, and _check_halts
compares it with the true equity of a later cycle: with a large enough win the
kill switch trips although equity never declined. store.py:580 says 'Highest
equity ever recorded, for drawdown measurement.' and config limits.py:63 'Peak-
to-trough equity decline that trips the kill switch permanently until a human
resets it.' The run shows such a trip.

**`LostTrip`** (code bug, `core/risk/killswitch.py:115`). _write always uses the
one name killswitch.tmp, and the desk and the web view are two processes. If one
has written the temporary file and the other opens it (truncating it) before the
first renames it, the rename publishes an empty or half-overwritten document;
read treats that as not tripped, and if the second writer dies there it stays
so. killswitch.py:113-114 says 'Write-then-rename so a crash mid-write cannot
leave a truncated file', and killswitch.py:6 'The tripped state survives a
process restart.' The run shows the desk's trip done and the switch reading as
clear.

**`LostVerdict`** (code bug, `firm/research_jobs.py:492`). _load and _save each
take the file lock, and nothing holds it in between; _merge_jobs_by_id lets the
saver's copy of every row win. start_job, stamp_job, _record_job and
refresh_job_liveness all save a whole list loaded before, so a verdict a
validator wrote meanwhile is replaced by the old row: "running" again with a
process that is over, which the next refresh marks failed, or marked failed at
once when the refresh finds the process gone. research_jobs.py:380 says
'Serialize ledger reads/writes so two ticks cannot clobber the file.' The run
shows start_job's save after a validator that finished.

### Further disagreements

These configurations are kept beside the runs; each is found violated with
`tlc -config <cfg> <module>`.

| Configuration, module | Property | The code and what it says of itself |
|---|---|---|
| `FlatBook.cfg`, `MCPaperBook` | `FlatBookIdentity` | Dead between the journaled entry fee and the ledger row, the fee of a fill that no longer exists stays: cash minus capital is not realised P&L on a flat book (`core/execution/paper.py:644`). |
| `OrphanFunding.cfg`, `MCPaperBook` | `FundingIsOwned` | After a second death, funding of an orphaned fill is copied to the next row of that symbol (`core/execution/paper.py:234`). With one death it holds, which is what `PaperBook` checks. |
| `ManualClose.cfg`, `MCPaperBook` | `ManualCloseKeepsItsPosition` | A manual close is bound to a position and settled by symbol: a position opened in between is the one closed (`core/execution/engine.py:2319`). |
| `LaterClose.cfg`, `MCCloseRequests` | `LaterPositionsSurvive` | The same gap seen from the request: a stop closes the located position after the second look, an entry opens the next one, and the settlement by symbol closes that, more than the slack after the drop. `core/execution/paper_close_requests.py:600` says "A symbol binding must not close a position opened after the request." `LaterCloseNeedsARace`, which passes, says that this gap is the only way. |
| `BarBypass.cfg`, `MCBarEval` | `OneSubmissionPerBar` | The cycle decides with one clock reading that a sleeve is outside its window and evaluates it with a later one; a bar that closed in between is submitted outside the cursor and again through it (`core/execution/engine.py:1389`). The same after a due bar is sat out by the hook (`core/execution/paper_bar_eval.py:661`) and not by the scan, which reads the regime again (`engine.py:1381`). |
| `BarSplit.cfg`, `MCBarEval` | `BatchIsNotSplit` | A cycle submits some signals of a bar while the poll holds others of the same bar (`core/execution/paper_bar_eval.py:660`). |
| `RejectedRequest.cfg`, `MCCloseRequests` | `OnlyBadRequestsAreRejected` | Any exception, a busy database included, turns a good request into `.error` for good (`core/execution/paper_close_requests.py:121`; its lines 12-15 speak of invalid files). |
| `StuckJob.cfg`, `ResearchJobsProps` | `DeadJobsLeave` | A dead child nobody waited for answers `os.kill(pid, 0)`; its row stays "running" and holds the slot while its desk lives (`firm/research_jobs.py:527`; line 520: "If a spawned validator died, mark the job failed so the desk does not spin"). `CollectedJobsLeave`, which passes, is the part that holds. |
| `DuplicateId.cfg`, `ResearchJobsProps` | `OneJobPerId` | The paper loop and the API load the same rows and both take the next id; the second save replaces the first job (`firm/research_jobs.py:837`). |

Met while reading, outside every property: `last_exit.setdefault` keeps an older
exit time, so the cool-down after a later exit is not renewed
(`core/execution/f111_paper.py:583`); a row left "queued" by a death is not found
by the refresh, which asks for "running" only; a request dropped again under a
name that has a `.done` is unlinked unread; with probation off, the streak
cool-down ends only with a winner, which it does not admit.

## 5. Proofs

Eight modules hold theorems. Each theorem is about every value of the constants
that its module's assumptions allow: any sets of symbols, threads, files,
sleeves, jobs and amounts, any number of positions, restarts and failures. The
bounds of the runs are constants too, and no proof uses more of them than that
they are numbers. The assumptions are stated in the module they belong to, and
TLC evaluates them on every run. They are types, except for: `Threads` has no
member "free" and `Files` is finite (`CloseRequests`), four inodes and two
writers (`KillSwitch`), a positive `StepOf` no longer than `Start` (`BarEval`),
positive limits (`EntryGate`).

A theorem `Spec => []P` or `Spec => [][A]_vars` is proved from an invariant
`IInv` of the same specification, written in the component's `Props` module. TLC
checked each one as an invariant of the instance of its run before it was proved.
Below, what each invariant adds to the property and why it is needed.

### The book (`PaperBookProofs`)

| Theorem | Says |
|---|---|
| `Inductive` | `Spec => []IInv` |
| `TypeCorrect` | every variable keeps its type |
| `ClosesSettleOnce` | `SettledOnce`: a close has one event, and RAM and journal apply exactly the committed ones |
| `OpenAreWatched` | `OpenPositionsAreWatched`: every open row has its broker row, with the same terms |
| `OneEventToRecover` | `AtMostOneUnjournaled`: a restart never has to order two missing events |
| `EntryFeesChargedOnce` | `OpenMirrorsAreJournaled`: a mirrored entry fee is never merged again |
| `Owned` | `Spec => []OwnInv` |
| `TripsAreTrue` | `NoFalseTrip`: reconciliation trips only after a write failed |
| `FundingHasAnOwner` | `FundingIsOwned`, if every fill has its row, no write failed or at most one death came |
| `RestartKeepsCash` | `RamIsJournal`: cash and realised P&L in RAM are what the journal replays to |

None of these properties is inductive. `IInv` adds what makes the first four so:
`LockInv` (who may be where: a thread inside a hold owns the lock, an exit being
committed belongs to the holder, a close in flight means the holder is between
commit and RAM), `EntryInv` (the row of the entry being placed: not in the
ledger until recorded, in RAM since the fill), `RowInv` (an empty row is empty; a
close in flight still has its RAM row and no open ledger row), and `EventInv`
(every close id in the journal or in RAM belongs to a settled close). The proof
is in three layers. Types: a lemma per group of actions. The lock: `NextLock`,
each action moves it only as its thread's place says. Rows and events: the
actions are split into *quiet* ones, which leave the book alone and follow from
one frame lemma (`BookFrame`), and *loud* ones (`FillEntry`, `RecordEntry`,
`StampEntry`, `MirrorEntry`, `CommitClose`, `ApplyClose`, `SkipUnledgered`,
`AccrueFunding`, `Crash`, `Recover`, `Restart`), taken one by one. The step that
carries the argument is `CommitClose`: it is the only action that makes a close
durable, it happens with nothing else unjournaled, and until `ApplyClose` or a
death the holder can do nothing else.

`OwnInv` answers whose row and whose funding. `HeldInv` says of which fill a RAM
row is. `FundInv` follows funding through the journal, which knows the symbol
only: as long as no write failed or the ledger has every fill but the one being
placed (`Accounted`), the journal's sum on a symbol belongs to its open position
or to the one close the journal lacks (`JournalFunding`), and where there is
neither it is nought (`SpareFunding`). A failed write can leave a fill without its
row and spare funding behind; it takes a death to lose the RAM row the funding
belongs to and a second one to hydrate it onto another position. Hence the
hypothesis of `FundingHasAnOwner`: with one such fill, one failed write and two
deaths `OrphanFunding.cfg` is violated. That the condition never comes back once
lost (`AccountedBack`: a fill that missed its row never gets one) is what makes
`FundInv` inductive. In the run `PaperBook` the hypothesis is always
true, so the theorem states what the run checks.

### The refinement (`PaperBookRefinement`)

| Theorem | Says |
|---|---|
| `BookIsOneAccount` | `ImplementsAccount`: `PaperBook` implements `BookAccount` under the mapping |
| `OpenBookBalances` | `AccountIdentity`: cash is capital plus realised P&L, less funding and entry fees of what is held |
| `CashIsItsHistory` | `CashMatchesHistory`: cash is the capital, less every fee and funding step, plus every settled close once |
| `RestoresItsHistory` | `RestoredHistory`: the same of what a restart now would restore, the close in flight included |
| `FundingOwedIsBooked` | `FundingIsOwed`: funding taken and not realised is what was booked on the positions not closed |
| `EveryFillIsRecorded` | `FillsAreRecorded`: if nothing failed, a fill without a row is being placed |
| `FlatBookBalances` | `Recorded => FlatBookIdentity`: the documented identity of a flat book, and when it holds |
| `QuietDeskBalances` | `FlatBookIdentity` while no write failed and nothing died |

The mapping shows the account that a restart now would restore: the journal, and
the one committed close it may lack (`OneEventToRecover`). `FillEntry` maps to
`PayEntry`, `RecordEntry` to `RecordPosition`, `CommitClose` to `Close`,
`AccrueFunding` to `Fund`. Everything else is a stutter, and the steps where that
is not plain are the point: `ApplyClose` and a restart append to the journal the
very close the mapping already counted, and a death loses RAM only. Two closes
missing at a time would leave the restored account open to the order of the
merge, which is why `IInv` is needed here. The identity counts live positions;
each step moves the count and the sums together.

`CashMatchesHistory` sums a history: fees over the fills, funding over the
positions, gross over the settled closes. The folds of the library recurse on
sets, and their values are proved here from the library's induction on natural
numbers, in the form that ranges over sets of numbers (`CountUp`): `FoldExists`
and `FoldsAgree` say the fold's function exists and is unique on the subsets of a
finite set, `TotalAdds`, `TotalMoves` and `TotalOfZeros` what one more member, one
changed amount and nothing amount to. The history itself (`HistoryInv`) is
inductive of what a restart would restore, since that account moves at the commit:
one lemma for each of the steps `FillEntry`, `CommitClose` and `AccrueFunding`, and
`FourKinds` for all others, which leave it alone. RAM lags behind by the close in
flight (`InFlight`), which is why `CashMatchesHistory` sums `closeEvs \ flight`.

`FlatBookBalances` bounds a documented claim that does not hold always
(`FlatBook.cfg`, section 4): `paper.py` says that on a flat book cash less the
contributed capital is the realised P&L. By `OpenBookBalances` the difference is
the funding and the entry fees of what is still held. The fees are nought when
every fill has its row (`Recorded`); the funding is nought when each close
realised what was booked on its position (`FundingOwedIsBooked`), which `Recorded`
implies as well. So one condition is enough, whatever writes fail and however
often the desk dies otherwise, and `FlatBook.cfg` shows that without it a death
after the journaled fee is enough to break the identity. `QuietDeskBalances` is
the case the comment has in mind: while nothing failed, every fill has its row
(`EveryFillIsRecorded`). TLC checked `FundInv`, `FundingIsOwed`, `FillsAreRecorded`
and the conditional identity with two deaths and one failed write on two symbols
before they were proved; the last three are not in a run of their own.

### The halt (`HaltLoopProofs`)

`TypeCorrect`; `ATripStands` (`TripStands`); `OneLateFill`
(`AtMostOneLateFill`); `LeavesFlat` (`LeavesOnlyFlat`); `CauseIsKept`
(`FirstCauseKept`: while a trip stands its file is not replaced). `WriterShape`
and `OneWriterInside` say that, unless the two writers have been past their reads
together, one of them at most is between opening and renaming, the temporary
name is its own inode, and the inode holds what the step says. `StandingInv`:
while a trip stands no reset is under way and nobody is about to write.
`LateInv` counts the entry that passed its check before the trip as the one late
fill that may still come. The theorems keep the hypothesis `~overlapped`,
because without it `TripStands` is false: run `LostTrip`.

### The entry gate (`EntryGateProofs`)

`TypeCorrect`; `Remembered` (`TrialsAreRemembered`); `OneTrial`
(`OneTrialAtATime`); `LimitsHoldAtTheFill` (`FillsMeetTheLimits`). The gate
rebuilds from timestamps whether an open row is a trial. `RowsInv` ties the flag
history keeps to the streak before the row's opening, which later exits do not
change, since every exit is later than every opening it could be confused with.
`OrderInv` says that what was decided under the book lock is still what would be
decided at the fill. Exits in between would change the verdict, and the lock keeps
them out; a midnight in between leaves a day without losses, which can only be
within the limit. `Net` is a fold over a set; the proofs need its value on the
empty set only (`NetOfNothing`).

### Research jobs (`ResearchJobsProofs`)

`TypeCorrect`; `NoIdIsDropped` (`IdsAreKept`); `OnlyOverwritesLoseVerdicts`.
`SessionOK`: what a process holds
is a copy of the rows whose ids the files still have, and a validator it spawned
names the job it is for. `FilesInv`: the backup's ids are in the primary, or the
primary is absent and a load sees the empty ledger. A save of an old copy keeps
the ids, because it merges by id into what it loads under the file lock.
The verdict of a finished job is another matter: run `LostVerdict` shows one lost,
and `OnlyOverwritesLoseVerdicts` (`VerdictsAreOverwritten`) names all the ways: the
process that saves loaded before the verdict was written, is recording a new job
under that id, or set out to queue or start the job. Each handler is shown
`Faithful`: the rows it saves say "done" wherever it does not overwrite; a death
between the two renames leaves the rows in the backup.

### Manual closes (`CloseRequestsProofs`)

`TypeCorrect`; `OnePosition` (`OnePositionPerSymbol`); `LaterNeedsARace`
(`LaterCloseNeedsARace`); `AnswersTrue` (`AnswersAreTrue`); `AnswerIsFinal`
(`AnswerStands`). The invariant says of each request what its file binds
(`BindingOK`, `RequestOK`), that everything asked for is in the binding saved
first (`AskedOK`), and what the thread inside a drain holds (`WorkOK`,
`SessionOK`): its targets are the file's, its items are true of the ledger, it has
no answer yet. The lock makes the session of the other thread idle, so a file
changes under no one's feet but the operator's, who may only add one.

`LaterNeedsARace` is about the position a settlement really closes, whatever was
asked for: `_settle_paper_exit` goes by symbol. It is the located position, and for
a symbol one opened in time, or a newer one of the symbol. `NewestOpen`, a second
invariant over `IInv`, says that of the positions of a symbol only the latest can
be open; so a newer one can be closed only if the located one was closed in between
by something else. The promise of `paper_close_requests.py:600` has no such gap and
is not kept: `LaterClose.cfg`, section 4.

### Bars (`BarEvalProofs`)

`TypeCorrect`; `SubmittedOnceOnly` (`SubmittedOnce`); `OneBarHeld`
(`HeldBatchIsOneBar`); `OneSignalOneHolder` (`OneHolder`); `MarkedIsFinalAlways`
(`MarkedIsFinal`). `CursorOK`: the
file is never ahead of memory, memory never ahead of the last closed bar.
`HoldOK` and `BatchOK`: whatever waits to be ordered is not taken yet, one signal
a sleeve. `CurOK`: the signal in hand is unmarked in plan order and marked with
GBN. `TriesOK` counts submissions against deaths and failed writes in plan order,
and against the mark with GBN. The arithmetic of "last multiple of the bar length" is
`LastMultiple`.

### F111 (`F111Proofs`)

`TypeCorrect`; `OneFill` (`FilledOnce`); `OnlyConfirmedFills` (`FillIsConfirmed`);
`NoStopLoosens` (`StopNeverLoosens`); `FloorWaits` (`FloorWaitsASample`).
`RetestsOK` says of a watched retest that no bar before the awaited one confirms
it, of a scheduled one that the bar before its action is the first that does, and
says so of the file as well, since a restart reads it. `BookOK`: a ledger row is the
broker's, whose stop may be tighter, and no effective level is ahead of a decided
one. `FillsOK`: what this process filled is not scheduled any more, or an
unledgered row blocks it, which only a death removes; so the once in `FilledOnce`
is per process. `OnlyStaleReaches` (`OnlyStaleProtectionReaches`) is the other side
of run `StaleProtection`: another strategy's row is touched under the lock only
while the process remembers an earlier position's protection. `OwnRows` says a
protection, in memory or in the file, is of a row of F111 or of one that is gone;
`Remains` says a step under the lock changes no number and no owner of a row.

### Only model-checked

* Liveness: `SettledReachesJournal`, `ExpiredIsClosed`, `DueBarIsTaken`,
  `EveryRequestLeaves`, `HaltEndsFlat`, `MismatchTrips`, and
  `CollectedJobsLeave`. They need fairness and `ENABLED`.
* `CycleAccounting`: its one run shows a disagreement.

No module with a theorem reaches a RECURSIVE operator; sums are folds.

## 6. Plan

Done: `BookAccount` and `PaperBook`; `BarEval`; `KillSwitch` and `HaltLoop`;
`CloseRequests`; `F111`; `EntryGate` and `CycleAccounting`; `ResearchJobs`; the
proofs of section 5. Next, in order of what can hurt the account or the desk most:

1. `JournalStore`: the JSON journal with memory and file apart, writes that
   raise, observed funding journaled before cash moves, a durable read that
   fails during a restart.
2. `GbnOrdering`: the ranking of a batch, its fallback in mid-batch, and the
   slots it competes for.
3. The arithmetic of a size: caps, clamp and overlay only ever shrink it.
4. The firm's trust ladder and continuity slots, over the job ledger.
5. The pid file of the paper loop and the read cache.

Proofs next: what `CycleAccounting` does keep (an exit between its reads moves
equity one way only); for every module, the safety half of its liveness properties
(what a waiting request, job or bar cannot turn into).

The project keeps one run per question. A later component shares the run of one
it interacts with, or takes the place of a violated run once the code changed.

## 7. Not modelled

* Strategies, indicators, sleeve templates and their generators
  (`core/strategy`, `firm/sleeve_factory.py`, `firm/research_catalog.py`,
  `legacy/`): numeric functions of price series and tables of text, most of the
  repository's lines. What they keep (candidates, envelopes, reports) reaches the
  desk as a plan it reads; a signal is an arbitrary choice in every module.
* `research/`: statistics over history (walk-forward, permutation tests) on
  floating point numbers, outside the running desk.
* Replay and the execution contract: price-path arithmetic on floats, compared
  with the desk by the repository's own tests.
* The live adapter, market data and notifications: requests and caching; a
  price, a candle and their absence are inputs.
* `api/` and the dashboard: views. What they write is modelled where it lands.
* Agents and the orchestrator: what they say comes from a language model; what
  it can do to an entry is refuse or shrink it.
* Entry ordering's ranking: a function of betas and sizes. `BarEval` submits a
  batch in any order.
