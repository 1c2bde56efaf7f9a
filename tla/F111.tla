-------------------------------- MODULE F111 --------------------------------
(***************************************************************************)
(* The F111 paper lifecycle on one symbol: hourly signals, retests of the  *)
(* minutes that follow, entries under the book lock, and the protection    *)
(* record that tightens a stop once a minute.  The same symbol can be      *)
(* traded by an hourly sleeve, and the exit thread closes any row.         *)
(*                                                                         *)
(* Time is in minutes: an actionable window of 60 s is the minute itself.  *)
(* A price is the favourable move from the protected entry, in quarters of *)
(* an R; Window stands for the 60 minutes of an hour and of a retest.      *)
(***************************************************************************)
EXTENDS Integers, FiniteSets, FiniteSetsExt, Sequences

CONSTANTS Sides,      \* "LONG" and "SHORT"
          Window,     \* minutes of a retest, and of an hour
          MaxTime,    \* the last minute
          Moves,      \* the quotes a sample may see, as favourable moves
          Fundings,   \* cumulative funding, as a fraction of entry
          Bars,       \* shapes of a closed minute: [touch, beyond : SUBSET Sides]
          SleeveStop, \* where a sleeve's row on the symbol has its stop
          MaxRows,    \* rows this symbol may ever have
          MaxCrashes, MaxFaults

ASSUME F111Assumption ==
  /\ Window \in Nat \ {0} /\ MaxTime \in Nat /\ MaxRows \in Nat
  /\ MaxCrashes \in Nat /\ MaxFaults \in Nat
  /\ Moves \subseteq Int /\ Fundings \subseteq Int /\ SleeveStop \in Int
  /\ Bars \subseteq [touch : SUBSET Sides, beyond : SUBSET Sides]

InitialStop == -4     \* -1 R
Activation  == 5      \* 1.25 R
Target      == 6      \* 4 ATR against a stop of 3 ATR, rounded up
Floor       == 1      \* 0.25 R, before fees and funding

NoQuote == -99        \* no usable price
Unknown == -99        \* funding that could not be observed
Quotes  == Moves \cup {NoQuote}
Rates   == Fundings \cup {Unknown}

Minutes == 0..MaxTime
None    == -1
Hours   == {t \in Minutes : t % Window = 0 /\ t + Window < MaxTime}
Signals == Sides \X Hours
Unseen  == [status |-> "none", touched |-> FALSE, next |-> None, action |-> None]
NoRow   == [id |-> 0, owner |-> "none", stop |-> InitialStop, ledgered |-> FALSE]
NoProtection == [id |-> 0, last |-> None, best |-> 0, armed |-> FALSE,
                 eff |-> InitialStop, dec |-> InitialStop]

VARIABLES clock, bars,
          pc, now,                                  \* the main thread's step
          pending, seen, protection, lastExit,      \* what persist writes
          lastHour,                                 \* in memory only
          file,                                     \* the state file
          broker, ledger,                           \* the symbol's rows
          rows, fills,                              \* history
          crashes, faults

runtime == <<pending, seen, protection, lastExit>>
book    == <<broker, ledger>>
world   == <<clock, bars>>
history == <<rows, fills>>
limits  == <<crashes, faults>>
vars == <<world, pc, now, runtime, lastHour, file, book, history, limits>>

Init ==
  /\ clock = 0 /\ bars = [m \in Minutes |-> [touch |-> {}, beyond |-> {}]]
  /\ pc = "idle" /\ now = 0
  /\ pending = [s \in Signals |-> Unseen] /\ seen = {}
  /\ protection = NoProtection /\ lastExit = None /\ lastHour = None
  /\ file = [pending |-> pending, seen |-> seen, protection |-> protection,
             lastExit |-> lastExit]
  /\ broker = NoRow /\ ledger = NoRow
  /\ rows = 0 /\ fills = <<>>
  /\ crashes = 0 /\ faults = 0

(***************************************************************************)
(* Hourly signals                                                          *)
(***************************************************************************)
HourOf(t) == t - (t % Window)
Active    == \E s \in Signals : pending[s].status \in {"watching", "scheduled"}

\* A passing signal opens a retest only in the minute its hour closed.
Observe(passed) ==
  LET fresh == {s \in Signals : s[1] \in passed /\ s[2] = HourOf(clock)} \ seen
  IN  /\ seen' = seen \cup fresh
      /\ pending' = [s \in Signals |->
           IF s \in fresh /\ clock = s[2]
           THEN [status |-> "watching", touched |-> FALSE, next |-> s[2], action |-> None]
           ELSE pending[s]]

Begin ==
  /\ pc = "idle"
  /\ \/ /\ lastHour # HourOf(clock) /\ lastHour' = HourOf(clock)
        /\ \E passed \in SUBSET Sides : Observe(passed)
     \/ UNCHANGED <<pending, seen, lastHour>>  \* entries disabled, or hour done
  /\ pc' = IF Active' \/ protection.id # 0 THEN "replay" ELSE "save"
  /\ UNCHANGED <<world, now, protection, lastExit, file, book, history, limits>>

(***************************************************************************)
(* Replay of the minutes that closed since                                 *)
(***************************************************************************)
Expiry(s) == s[2] + Window - 1

TouchedBy(s, m) ==
  pending[s].touched \/ \E k \in pending[s].next..m : s[1] \in bars[k].touch
Reclaims(s, m) == TouchedBy(s, m) /\ s[1] \in bars[m].beyond

\* The closed minutes from the one awaited to the end of the retest.
ReplayableLate(s) == {m \in Minutes : m >= pending[s].next /\ m < clock /\ m <= Expiry(s) + 1}
Replayable(s) == {m \in Minutes : m >= pending[s].next /\ m < clock /\ m <= Expiry(s)}

Replayed(s, frame) ==
  LET p == pending[s]
      reclaims == {m \in Replayable(s) : Reclaims(s, m)}
  IN  IF p.status # "watching" THEN p
      ELSE IF ~frame THEN IF p.next < clock THEN [p EXCEPT !.status = "rejected"] ELSE p
      ELSE IF reclaims # {}
           THEN [status |-> "scheduled", touched |-> TRUE,
                 next |-> Min(reclaims) + 1, action |-> Min(reclaims) + 1]
      ELSE IF clock > Expiry(s) THEN [p EXCEPT !.status = "rejected"]
      ELSE [p EXCEPT !.touched = TouchedBy(s, clock - 1), !.next = clock]

\* A protection whose position is gone is dropped; an exit time already
\* there stays (last_exit.setdefault).
Dropped(b, t) ==
  IF b.protection.id # 0 /\ b.broker.id = 0
  THEN [b EXCEPT !.protection = NoProtection,
                 !.lastExit = IF @ = None THEN t ELSE @]
  ELSE b
Book == [protection |-> protection, lastExit |-> lastExit, broker |-> broker,
         ledger |-> ledger]
SetBook(b) == /\ protection' = b.protection /\ lastExit' = b.lastExit
              /\ broker' = b.broker /\ ledger' = b.ledger

Needs(b, t) == b.protection.id # 0 /\ t > b.protection.last
DueIn(p, t) == {s \in Signals : p[s].status = "scheduled" /\ p[s].action <= t}

Replay ==
  /\ pc = "replay"
  /\ \E frame \in BOOLEAN : pending' = [s \in Signals |-> Replayed(s, frame)]
  /\ SetBook(Dropped(Book, clock))
  /\ IF Needs(Dropped(Book, clock), clock) \/ DueIn(pending', clock) # {}
     THEN pc' = "apply" /\ now' = clock
     ELSE pc' = "save" /\ now' = 0
  /\ UNCHANGED <<world, seen, lastHour, file, history, limits>>

(***************************************************************************)
(* One protection sample                                                   *)
(***************************************************************************)
Higher(a, b) == IF a > b THEN a ELSE b
EffectiveSum(p) == p.eff + p.dec
Effective(p) == Higher(p.eff, p.dec)
Hit(p, q)    == q <= Effective(p) \/ q >= Target

SampledEagerly(p, q, f) ==
  LET best  == Higher(p.best, q)
      armed == p.armed \/ (best >= Activation /\ q > Floor + f)
      dec   == IF armed THEN Higher(p.dec, Floor + f) ELSE p.dec
  IN  IF Hit(p, q) THEN [p EXCEPT !.eff = Effective(p)]
      ELSE [p EXCEPT !.eff = Higher(Effective(p), dec), !.best = best, !.armed = armed,
                     !.dec = dec]
\* step_protection: what an earlier sample decided becomes effective first.
Sampled(p, q, f) ==
  LET best  == Higher(p.best, q)
      armed == p.armed \/ (best >= Activation /\ q > Floor + f)
      dec   == IF armed THEN Higher(p.dec, Floor + f) ELSE p.dec
  IN  IF Hit(p, q) THEN [p EXCEPT !.eff = Effective(p)]
      ELSE [p EXCEPT !.eff = Effective(p), !.best = best, !.armed = armed,
                     !.dec = dec]
Unfunded(p, q) ==
  IF Hit(p, q) THEN [p EXCEPT !.eff = Effective(p)]
  ELSE [p EXCEPT !.eff = Effective(p), !.best = Higher(@, q)]

TighterAlways(stop, row) == TRUE
Tighter(stop, row) == stop >= row.stop
\* The broker's stop moves first, then the ledger's row of that position.
PublishToBroker(b) ==
  IF b.broker.id # 0 /\ Tighter(b.protection.eff, b.broker)
  THEN [b EXCEPT !.broker.stop = b.protection.eff] ELSE b
Publish(b) ==
  IF b.broker.id # 0 /\ Tighter(b.protection.eff, b.broker) /\ b.ledger.id = b.protection.id
  THEN [PublishToBroker(b) EXCEPT !.ledger.stop = b.protection.eff]
  ELSE PublishToBroker(b)

\* Closes whatever row the ledger has for the symbol; with none, replays the
\* durable close of the protected position, when there is one.
CanClose(b) == b.ledger.id # 0 \/ (b.broker.ledgered /\ b.broker.id = b.protection.id)
Exited(b) ==
  IF CanClose(b)
  THEN [protection |-> NoProtection, lastExit |-> clock, broker |-> NoRow, ledger |-> NoRow]
  ELSE b

Steps(b) == Needs(b, now) /\ clock > b.protection.last
AfterSample(b, q, f) ==
  [b EXCEPT !.protection = IF f = Unknown THEN Unfunded(@, q) ELSE Sampled(@, q, f)]
Protected(b, q, f) ==
  IF ~Steps(b) \/ q = NoQuote THEN b
  ELSE LET p == Publish(AfterSample(b, q, f))
       IN  IF Hit(b.protection, q) THEN Exited(p)
           ELSE [p EXCEPT !.protection.last = clock]

(***************************************************************************)
(* Entries                                                                 *)
(***************************************************************************)
Due == DueIn(pending, now)
Opposite(s) == \E t \in Due : t[1] # s[1] /\ pending[t].action = pending[s].action
OccupiedInLedger(b) == b.ledger.id # 0 \/ b.protection.id # 0
Occupied(b) == b.broker.id # 0 \/ b.ledger.id # 0 \/ b.protection.id # 0

Admissible(b, s, q) ==
  /\ ~Opposite(s) /\ q # NoQuote
  /\ clock = pending[s].action
  /\ pending[s].action > b.lastExit
  /\ ~Occupied(b)
  /\ rows < MaxRows

Row(owner, stop) == [id |-> rows + 1, owner |-> owner, stop |-> stop, ledgered |-> TRUE]
Filled(b) ==
  [b EXCEPT !.broker = Row("f111", InitialStop), !.ledger = Row("f111", InitialStop),
            !.protection = [NoProtection EXCEPT !.id = rows + 1, !.last = clock]]
Settled(filled) ==
  [s \in Signals |-> IF s \in filled THEN [pending[s] EXCEPT !.status = "filled"]
                     ELSE IF s \in Due THEN [pending[s] EXCEPT !.status = "rejected"]
                     ELSE pending[s]]

(***************************************************************************)
(* Under the book lock: recheck, protect, fill                             *)
(***************************************************************************)
ApplyWithoutFill ==
  /\ pc = "apply" /\ now' = 0
  /\ \E q \in Quotes, f \in Rates :
       LET b == Protected(Dropped(Book, now), q, f)
       IN  /\ SetBook(b)
           /\ pending' = Settled({})       \* the rest by risk, veto or staleness
  /\ pc' = "hold"
  /\ UNCHANGED <<world, seen, lastHour, file, rows, fills, limits>>

ApplyWithFill ==
  /\ pc = "apply" /\ now' = 0
  /\ \E q \in Quotes, f \in Rates : \E s \in Due :
       LET b == Protected(Dropped(Book, now), q, f)
       IN  /\ Admissible(b, s, q)
           /\ SetBook(Filled(b))
           /\ pending' = Settled({s})
           /\ fills' = Append(fills, [signal |-> s, life |-> crashes])
  /\ rows' = rows + 1
  /\ pc' = "hold"
  /\ UNCHANGED <<world, seen, lastHour, file, limits>>

\* An exception anywhere under the lock abandons the step without a persist.
Raise(b) ==
  /\ faults < MaxFaults /\ faults' = faults + 1
  /\ SetBook(b) /\ pc' = "idle"
  /\ UNCHANGED <<world, seen, lastHour, file, crashes>>

\* The insert of the new row raises: the broker has filled, the retest stays.
InsertRaises ==
  /\ pc = "apply" /\ now' = 0
  /\ \E q \in Quotes, f \in Rates : \E s \in Due :
       LET b == Protected(Dropped(Book, now), q, f)
       IN  /\ Admissible(b, s, q)
           /\ Raise([b EXCEPT !.broker = [Row("f111", InitialStop) EXCEPT !.ledgered = FALSE]])
           /\ fills' = Append(fills, [signal |-> s, life |-> crashes])
           /\ \E left \in SUBSET Due :
                /\ s \in left
                /\ pending' = [t \in Signals |-> IF t \in left THEN pending[t] ELSE Settled({})[t]]
  /\ rows' = rows + 1

\* The close raises, before its commit or between the commit and the RAM row.
CloseRaises ==
  /\ pc = "apply" /\ now' = 0
  /\ \E q \in Moves, f \in Rates :
       LET b == Publish(AfterSample(Dropped(Book, now), q, f))
       IN  /\ Steps(Dropped(Book, now)) /\ Hit(Dropped(Book, now).protection, q) /\ CanClose(b)
           /\ \/ Raise(b)
              \/ Raise([b EXCEPT !.ledger = NoRow])
  /\ UNCHANGED <<pending, history>>

\* Recording the stop in the ledger raises after the broker has it.
StopUpdateRaises ==
  /\ pc = "apply" /\ now' = 0
  /\ \E q \in Moves, f \in Rates :
       LET b == AfterSample(Dropped(Book, now), q, f)
       IN  /\ Steps(Dropped(Book, now)) /\ Publish(b) # PublishToBroker(b)
           /\ Raise(PublishToBroker(b))
  /\ UNCHANGED <<pending, history>>

Saved == [pending |-> pending, seen |-> seen, protection |-> protection,
          lastExit |-> lastExit]
Persist ==
  /\ pc \in {"save", "hold"} /\ pc' = "idle"
  /\ file' = Saved
  /\ UNCHANGED <<world, now, runtime, lastHour, book, history, limits>>
PersistRaises ==
  /\ pc \in {"save", "hold"} /\ pc' = "idle"
  /\ faults < MaxFaults /\ faults' = faults + 1
  /\ UNCHANGED <<world, now, runtime, lastHour, file, book, history, crashes>>

(***************************************************************************)
(* The rest of the process, the operator, the market                       *)
(***************************************************************************)
\* The entry poll of an hourly sleeve, on the same thread after this step.
OtherEnters ==
  /\ pc = "idle" /\ rows < MaxRows
  /\ broker.id = 0 /\ ledger.id = 0
  /\ broker' = Row("other", SleeveStop) /\ ledger' = Row("other", SleeveStop)
  /\ rows' = rows + 1
  /\ UNCHANGED <<world, pc, now, runtime, lastHour, file, fills, limits>>

\* A pass of the exit thread takes the lock, closes the row at a level, or
\* applies a close the ledger has and RAM has not.
ExitThread ==
  /\ pc # "hold"
  /\ broker.id # 0 /\ (ledger.id # 0 \/ broker.ledgered)
  /\ broker' = NoRow /\ ledger' = NoRow
  /\ UNCHANGED <<world, pc, now, runtime, lastHour, file, rows, fills, limits>>

CrashAndRestart ==
  /\ crashes < MaxCrashes /\ crashes' = crashes + 1
  /\ pc' = "idle" /\ now' = 0 /\ lastHour' = None
  /\ pending' = file.pending /\ seen' = file.seen
  /\ protection' = file.protection /\ lastExit' = file.lastExit
  /\ broker' = ledger
  /\ UNCHANGED <<world, file, ledger, history, faults>>

\* The minute closes with the shape of its bar, which matters to a retest only.
Tick ==
  /\ clock < MaxTime /\ clock' = clock + 1
  /\ \E bar \in IF Active THEN Bars ELSE {bars[clock]} : bars' = [bars EXCEPT ![clock] = bar]
  /\ UNCHANGED <<pc, now, runtime, lastHour, file, book, history, limits>>

Apply == ApplyWithoutFill \/ ApplyWithFill \/ InsertRaises \/ CloseRaises \/ StopUpdateRaises
Step  == Begin \/ Replay \/ Apply \/ Persist \/ PersistRaises
Next  == Step \/ OtherEnters \/ ExitThread \/ CrashAndRestart \/ Tick
Spec  == Init /\ [][Next]_vars

\* The hot poll comes back every slice, and time passes.
FairSpec == Spec /\ WF_vars(Step) /\ WF_vars(Tick)
=============================================================================
