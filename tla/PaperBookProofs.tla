-------------------------- MODULE PaperBookProofs --------------------------
(***************************************************************************)
(* Proofs that PaperBook keeps its settlement invariants for every set of  *)
(* symbols, every bound on fills, deaths and failed writes, and every fee. *)
(***************************************************************************)
EXTENDS PaperBookProps, TLAPS

\* The lookup of an open row returns one when there is one.
LEMMA FindOpenIsOpen ==
  ASSUME NEW s, OpenOn(s) # {}
  PROVE  FindOpen(s) \in OpenOn(s) /\ FindOpen(s) \in Pos
BY DEF FindOpen, OpenOn

\* The empty row has the type of a row.
LEMMA NoRowIsRow == NoRow \in Row
BY BoundsAssumption DEF NoRow, Row

\* Replaying one event keeps a journal a journal and its event ids as they are.
LEMMA ReplayType ==
  ASSUME NEW j \in Journal, NEW e \in Event
  PROVE  Replay(j, e) \in Journal /\ Replay(j, e).ids = j.ids
<1>1. e.kind \in {"open", "funding", "close"} /\ e.sym \in Symbols
      /\ e.gross \in Int /\ e.funding \in Int
  BY DEF Event, EventOf
<1>2. /\ j.cash \in Int /\ j.realised \in Int /\ j.accrued \in Int
      /\ j.total \in Int /\ j.open \in [Symbols -> Int]
      /\ j.ids \in SUBSET ({"open", "close"} \X Pos)
  BY DEF Journal
<1>3. CASE e.kind = "open"
  <2>1. Replay(j, e) = [cash |-> j.cash - EntryFee, realised |-> j.realised,
                        accrued |-> j.accrued, total |-> j.total,
                        open |-> j.open, ids |-> j.ids]
    BY <1>3 DEF Replay, Journal
  <2> QED BY <1>2, <2>1, AmountsAssumption DEF Journal
<1>4. CASE e.kind = "funding"
  <2> DEFINE o == [j.open EXCEPT ![e.sym] = @ + e.funding]
  <2>1. o \in [Symbols -> Int]
    BY <1>1, <1>2
  <2>2. Replay(j, e) = [cash |-> j.cash - e.funding, realised |-> j.realised,
                        accrued |-> j.accrued + e.funding, total |-> j.total,
                        open |-> o, ids |-> j.ids]
    BY <1>4 DEF Replay, Journal
  <2> QED BY <1>1, <1>2, <2>1, <2>2 DEF Journal
<1>5. CASE e.kind = "close"
  <2> DEFINE o == [j.open EXCEPT ![e.sym] = @ - e.funding]
  <2>1. o \in [Symbols -> Int]
    BY <1>1, <1>2
  <2>2. Replay(j, e) = [cash |-> j.cash + e.gross - ExitFee,
                        realised |-> j.realised + e.gross - ExitFee - EntryFee - e.funding,
                        accrued |-> j.accrued, total |-> j.total + e.funding,
                        open |-> o, ids |-> j.ids]
    BY <1>5 DEF Replay, Journal
  <2> QED BY <1>1, <1>2, <2>1, <2>2, AmountsAssumption DEF Journal
<1> QED BY <1>1, <1>3, <1>4, <1>5

\* Recording an event with a durable id adds that id and no other.
LEMMA RecordType ==
  ASSUME NEW j \in Journal, NEW e \in EventOf({"open", "close"})
  PROVE  /\ Record(j, e) \in Journal
         /\ Record(j, e).ids = j.ids \cup {EventKey(e)}
<1>1. e \in Event /\ EventKey(e) \in {"open", "close"} \X Pos
  BY DEF Event, EventOf, EventKey
<1>2. Replay(j, e) \in Journal /\ Replay(j, e).ids = j.ids
  BY <1>1, ReplayType
<1>3. CASE EventKey(e) \in j.ids
  BY <1>3 DEF Record
<1>4. CASE EventKey(e) \notin j.ids
  <2> DEFINE r == Replay(j, e)
  <2>1. Record(j, e) = [r EXCEPT !.ids = @ \cup {EventKey(e)}]
    BY <1>4 DEF Record
  <2>2. r.ids \cup {EventKey(e)} \in SUBSET ({"open", "close"} \X Pos)
    BY <1>1, <1>2 DEF Journal
  <2> QED BY <1>2, <2>1, <2>2 DEF Journal
<1> QED BY <1>3, <1>4

\* What applying a close does to the broker and to the journal's ids.
LEMMA ApplyEffect ==
  ASSUME TypeOK, NEW e \in EventOf({"close"}), ApplyJournalClose(e)
  PROVE  /\ ram' \in [Symbols -> Row] /\ cash' \in Int /\ realised' \in Int
         /\ applied' \subseteq EventId /\ jnl' \in Journal
         /\ EventKey(e) \in applied =>
              ram' = ram /\ applied' = applied /\ jnl'.ids = jnl.ids \cup {EventKey(e)}
         /\ EventKey(e) \notin applied /\ ram[e.sym] # NoRow =>
              /\ ram' = [ram EXCEPT ![e.sym] = NoRow]
              /\ applied' = applied \cup {EventKey(e)}
              /\ jnl'.ids = jnl.ids \cup {EventKey(e)}
         /\ ram' = ram \/ ram' = [ram EXCEPT ![e.sym] = NoRow]
<1>1. e \in EventOf({"open", "close"}) /\ e.sym \in Symbols /\ e.gross \in Int
      /\ e.funding \in Int /\ EventKey(e) \in EventId
  BY DEF EventOf, EventKey, EventId
<1>2. /\ Record(jnl, e) \in Journal
      /\ Record(jnl, e).ids = jnl.ids \cup {EventKey(e)}
  BY <1>1, RecordType DEF TypeOK
<1>3. /\ ram \in [Symbols -> Row] /\ cash \in Int /\ realised \in Int
      /\ applied \subseteq EventId /\ jnl \in Journal
  BY DEF TypeOK
<1>4. CASE EventKey(e) \in applied
  BY <1>2, <1>3, <1>4 DEF ApplyJournalClose, brokerVars
<1>5. CASE EventKey(e) \notin applied /\ ram[e.sym] = NoRow
  BY <1>3, <1>5 DEF ApplyJournalClose, brokerVars
<1>6. CASE EventKey(e) \notin applied /\ ram[e.sym] # NoRow
  BY <1>1, <1>2, <1>3, <1>6, NoRowIsRow, AmountsAssumption DEF ApplyJournalClose
<1> QED BY <1>4, <1>5, <1>6

\* Every durable event carries a durable id.
LEMMA DurableType ==
  ASSUME TypeOK
  PROVE  Durable \subseteq EventOf({"open", "close"})
<1>1. closeEvs \subseteq EventOf({"open", "close"})
  BY DEF TypeOK, EventOf
<1>2. ASSUME NEW p \in openEvs
      PROVE  OpenEvent(p, deal[p].sym) \in EventOf({"open", "close"})
  BY DEF TypeOK, OpenEvent, EventOf, Deal
<1> QED BY <1>1, <1>2 DEF Durable
---------------------------------------------------------------------------
(* Type correctness. *)

\* A fresh desk is well typed.
LEMMA InitType == Init => TypeOK
<1> SUFFICES ASSUME Init PROVE TypeOK OBVIOUS
<1>1. ram \in [Symbols -> Row]
  BY NoRowIsRow DEF Init
<1>2. deal \in [Pos -> Deal]
  <2>1. PICK s \in Symbols, k \in Terms : TRUE
    BY SetsAssumption
  <2>2. [sym |-> s, terms |-> k] \in Deal
    BY DEF Deal
  <2>3. (CHOOSE d \in Deal : TRUE) \in Deal
    BY <2>2
  <2> QED BY <2>3 DEF Init
<1>3. jnl \in Journal
  BY AmountsAssumption DEF Init, Journal
<1>4. fills \in 0 .. MaxPos
  BY BoundsAssumption DEF Init
<1>5. pc \in [Threads -> OutsideLock \cup ExitPhases \cup EntryPhases]
  BY DEF Init, OutsideLock
<1>6. /\ status \in [Pos -> {"none", "open", "closed"}]
      /\ paid \in [Pos -> Int] /\ prep \in [Threads -> SUBSET Item]
  BY DEF Init
<1>7. cash \in Int /\ realised \in Int
  BY AmountsAssumption DEF Init
<1>8. /\ phase \in {"up", "down"} /\ lock \in Threads \cup {Free}
      /\ cur \subseteq Item /\ flight \subseteq EventOf({"close"})
      /\ applied \subseteq EventId
      /\ closeEvs \subseteq EventOf({"close"}) /\ openEvs \subseteq Pos
      /\ expired \subseteq Pos /\ tripped \in BOOLEAN
      /\ crashes \in Nat /\ faults \in Nat
  BY DEF Init
<1> QED BY <1>1, <1>2, <1>3, <1>4, <1>5, <1>6, <1>7, <1>8 DEF TypeOK

\* Filling, recording and stamping an entry (_place_order) keep every type.
LEMMA EntryType ==
  ASSUME TypeOK, EntryInv, LockInv, Entry
  PROVE  TypeOK'
<1>0. /\ phase \in {"up", "down"} /\ lock \in Threads \cup {Free}
      /\ pc \in [Threads -> OutsideLock \cup ExitPhases \cup EntryPhases]
      /\ jnl \in Journal /\ status \in [Pos -> {"none", "open", "closed"}]
      /\ deal \in [Pos -> Deal] /\ fills \in 0 .. MaxPos
      /\ faults \in Nat
  BY DEF TypeOK
<1>1. ASSUME NEW s \in Symbols, NEW k \in Terms, FillEntry(s, k)
      PROVE  TypeOK'
  <2>1. fills + 1 \in Pos /\ fills' \in 0 .. MaxPos
    BY <1>0, <1>1, BoundsAssumption DEF FillEntry, Pos
  <2>2. OpenEvent(fills + 1, s) \in Event
    BY <2>1 DEF OpenEvent, Event, EventOf
  <2>3. jnl' \in Journal
    BY <1>0, <1>1, <2>2, ReplayType DEF FillEntry
  <2>4. [pos |-> fills + 1, terms |-> k, funding |-> 0] \in Row
    BY <1>0, <1>1, <2>1, SetsAssumption, BoundsAssumption DEF Row, Pos
  <2>5. ram' \in [Symbols -> Row]
    BY <1>1, <2>4 DEF FillEntry, TypeOK
  <2>6. deal' \in [Pos -> Deal]
    BY <1>0, <1>1, <2>1 DEF FillEntry, Deal
  <2>7. pc' \in [Threads -> OutsideLock \cup ExitPhases \cup EntryPhases]
    BY <1>0, <1>1 DEF FillEntry, Goto, EntryPhases
  <2>8. cash' \in Int /\ lock' \in Threads \cup {Free}
    BY <1>1, AmountsAssumption DEF FillEntry, TypeOK, Threads
  <2> QED BY <1>1, <2>1, <2>3, <2>5, <2>6, <2>7, <2>8 DEF TypeOK, FillEntry
<1>2. CASE RecordEntry
  <2>1. pc' \in [Threads -> OutsideLock \cup ExitPhases \cup EntryPhases]
    BY <1>0, <1>2 DEF RecordEntry, Goto, EntryPhases
  <2>2. status' \in [Pos -> {"none", "open", "closed"}]
    BY <1>0, <1>2 DEF RecordEntry
  <2> QED BY <1>2, <2>1, <2>2 DEF TypeOK, RecordEntry, brokerVars, envVars
<1>3. CASE StampEntry
  <2>1. pc' \in [Threads -> OutsideLock \cup ExitPhases \cup EntryPhases]
    BY <1>0, <1>3 DEF StampEntry, Goto, EntryPhases
  <2>2. fills \in Pos
    BY <1>0, <1>3 DEF StampEntry, Holding, Running, EntryInv, HolderAt, Threads,
                      Main, Pos
  <2>3. jnl.ids \cup {<<"open", fills>>} \in SUBSET ({"open", "close"} \X Pos)
    BY <1>0, <2>2 DEF Journal
  <2>4. jnl' \in Journal
    BY <1>0, <1>3, <2>3 DEF StampEntry, Journal
  <2> QED BY <1>3, <2>1, <2>4 DEF TypeOK, StampEntry, brokerVars, dbVars, envVars
<1>4. CASE MirrorEntry
  <2>1. pc' \in [Threads -> OutsideLock \cup ExitPhases \cup EntryPhases]
    BY <1>0, <1>4 DEF MirrorEntry, Release, Goto, OutsideLock
  <2>2. fills \in Pos
    BY <1>0, <1>4 DEF MirrorEntry, Holding, Running, EntryInv, HolderAt, Threads,
                      Main, Pos
  <2> QED BY <1>4, <2>1, <2>2 DEF TypeOK, MirrorEntry, Release, brokerVars, envVars
<1>5. CASE RecordEntryFails \/ MirrorEntryFails
  <2>1. pc' \in [Threads -> OutsideLock \cup ExitPhases \cup EntryPhases]
    BY <1>0, <1>5 DEF RecordEntryFails, MirrorEntryFails, Release, Goto, OutsideLock
  <2>2. faults' \in Nat /\ lock' \in Threads \cup {Free}
    BY <1>0, <1>5 DEF RecordEntryFails, MirrorEntryFails, Release, Fault
  <2> QED BY <1>5, <2>1, <2>2 DEF TypeOK, RecordEntryFails, MirrorEntryFails,
                                  brokerVars, dbVars
<1> QED BY <1>1, <1>2, <1>3, <1>4, <1>5 DEF Entry

\* Preparing exits outside the lock keeps every type.
LEMMA PrepareType ==
  ASSUME TypeOK, NEW t \in Threads, Prepare(t) \/ TakeBook(t)
  PROVE  TypeOK'
<1>0. /\ lock \in Threads \cup {Free}
      /\ pc \in [Threads -> OutsideLock \cup ExitPhases \cup EntryPhases]
      /\ prep \in [Threads -> SUBSET Item] /\ ram \in [Symbols -> Row]
  BY DEF TypeOK
<1>1. CASE PeekTriggers(t)
  <2>1. pc' \in [Threads -> OutsideLock \cup ExitPhases \cup EntryPhases]
    BY <1>0, <1>1 DEF PeekTriggers, Goto, OutsideLock
  <2>2. PICK hit \in SUBSET Held :
          prep' = [prep EXCEPT ![t] =
            {[sym |-> s, reason |-> "level", seen |-> ram[s].pos] : s \in hit}]
    BY <1>1 DEF PeekTriggers
  <2>3. ASSUME NEW s \in hit
        PROVE  [sym |-> s, reason |-> "level", seen |-> ram[s].pos] \in Item
    <3>1. s \in Symbols /\ ram[s].pos # 0 /\ ram[s] \in Row
      BY <1>0, <2>2 DEF Held
    <3>2. ram[s].pos \in Pos
      BY <3>1, BoundsAssumption DEF Row, Pos
    <3> QED BY <3>1, <3>2 DEF Item, Reason
  <2>4. prep' \in [Threads -> SUBSET Item]
    BY <1>0, <2>2, <2>3
  <2> QED BY <1>1, <2>1, <2>4 DEF TypeOK, PeekTriggers, brokerVars, dbVars, envVars
<1>2. CASE ScanExpiries(t)
  <2>1. pc' \in [Threads -> OutsideLock \cup ExitPhases \cup EntryPhases]
    BY <1>0, <1>2 DEF ScanExpiries, Goto, OutsideLock
  <2>2. ASSUME NEW s \in Overdue(t)
        PROVE  [sym |-> s, reason |-> "timeout", seen |-> FindOpen(s)] \in Item
    <3>1. s \in Symbols /\ OpenOn(s) # {}
      BY <2>2 DEF Overdue
    <3>2. FindOpen(s) \in Pos
      BY <3>1, FindOpenIsOpen
    <3> QED BY <3>1, <3>2 DEF Item, Reason
  <2>3. prep' \in [Threads -> SUBSET Item]
    BY <1>0, <1>2, <2>2 DEF ScanExpiries
  <2> QED BY <1>2, <2>1, <2>3 DEF TypeOK, ScanExpiries, brokerVars, dbVars, envVars
<1>3. ASSUME NEW s \in Symbols, PrepareManual(t, s)
      PROVE  TypeOK'
  <2>1. pc' \in [Threads -> OutsideLock \cup ExitPhases \cup EntryPhases]
    BY <1>0, <1>3 DEF PrepareManual, Goto, OutsideLock
  <2>2. FindOpen(s) \in Pos
    BY <1>3, FindOpenIsOpen DEF PrepareManual
  <2>3. [sym |-> s, reason |-> "manual", seen |-> FindOpen(s)] \in Item
    BY <2>2 DEF Item, Reason
  <2>4. prep' \in [Threads -> SUBSET Item]
    BY <1>0, <1>3, <2>3 DEF PrepareManual
  <2> QED BY <1>3, <2>1, <2>4 DEF TypeOK, PrepareManual, brokerVars, dbVars, envVars
<1>4. CASE TakeBook(t)
  <2>1. pc' \in [Threads -> OutsideLock \cup ExitPhases \cup EntryPhases]
    BY <1>0, <1>4 DEF TakeBook, Goto, ExitPhases
  <2> QED BY <1>4, <2>1 DEF TypeOK, TakeBook, brokerVars, dbVars, envVars
<1> QED BY <1>1, <1>2, <1>3, <1>4 DEF Prepare

\* The exit thread's hold of the lock, from the first item to the last, keeps
\* every type.
LEMMA CommitType ==
  ASSUME TypeOK, LockInv, NEW t \in Threads, Commit(t)
  PROVE  TypeOK'
<1>0. /\ lock \in Threads \cup {Free}
      /\ pc \in [Threads -> OutsideLock \cup ExitPhases \cup EntryPhases]
      /\ prep \in [Threads -> SUBSET Item] /\ ram \in [Symbols -> Row]
      /\ cur \subseteq Item /\ flight \subseteq EventOf({"close"})
      /\ closeEvs \subseteq EventOf({"close"})
      /\ status \in [Pos -> {"none", "open", "closed"}] /\ faults \in Nat
  BY DEF TypeOK
<1>1. ASSUME NEW i \in prep[t], DropStale(t, i)
      PROVE  TypeOK'
  <2>1. prep' \in [Threads -> SUBSET Item]
    BY <1>0, <1>1 DEF DropStale
  <2> QED BY <1>1, <2>1 DEF TypeOK, DropStale, brokerVars, dbVars, envVars
<1>2. ASSUME NEW i \in prep[t], SkipUnledgered(t, i)
      PROVE  TypeOK'
  <2>1. prep' \in [Threads -> SUBSET Item]
    BY <1>0, <1>2 DEF SkipUnledgered
  <2> DEFINE G == /\ ram' \in [Symbols -> Row] /\ cash' \in Int /\ realised' \in Int
                  /\ applied' \subseteq EventId /\ jnl' \in Journal
  <2>2. G
    <3>1. CASE UNCHANGED <<brokerVars, jnl>>
      BY <3>1 DEF TypeOK, brokerVars
    <3>2. ASSUME NEW e \in LatestMatches(i.sym), ApplyJournalClose(e)
          PROVE  G
      <4>1. e \in EventOf({"close"})
        BY <1>0 DEF LatestMatches, MatchingCloses
      <4> QED BY <3>2, <4>1, ApplyEffect
    <3> QED BY <1>2, <3>1, <3>2 DEF SkipUnledgered
  <2> QED BY <1>2, <2>1, <2>2 DEF TypeOK, SkipUnledgered, dbVars, envVars
<1>3. ASSUME NEW i \in prep[t], BeginExit(t, i)
      PROVE  TypeOK'
  <2>1. prep' \in [Threads -> SUBSET Item] /\ cur' \subseteq Item
    BY <1>0, <1>3 DEF BeginExit
  <2>2. pc' \in [Threads -> OutsideLock \cup ExitPhases \cup EntryPhases]
    BY <1>0, <1>3 DEF BeginExit, Goto, ExitPhases
  <2> QED BY <1>3, <2>1, <2>2 DEF TypeOK, BeginExit, brokerVars, dbVars, envVars
<1>4. ASSUME NEW g \in Gross, CommitClose(t, g)
      PROVE  TypeOK'
  <2> DEFINE ev(i) == [kind |-> "close", sym |-> i.sym, pos |-> FindOpen(i.sym),
                       gross |-> g, funding |-> ram[i.sym].funding,
                       reason |-> i.reason, seen |-> i.seen]
  <2>1. PICK i \in cur :
          /\ closeEvs' = closeEvs \cup {ev(i)}
          /\ status' = [status EXCEPT ![FindOpen(i.sym)] = "closed"]
          /\ flight' = {ev(i)}
    BY <1>4 DEF CommitClose
  <2>2. /\ i.sym \in Symbols /\ i.reason \in Reason /\ i.seen \in Pos
        /\ ram[i.sym].funding \in Int /\ g \in Int
    BY <1>0, <2>1, AmountsAssumption DEF Item, Row
  <2>3. FindOpen(i.sym) \in Pos
    BY <2>1, FindOpenIsOpen DEF LockInv
  <2>4. ev(i) \in EventOf({"close"})
    BY <2>2, <2>3 DEF EventOf
  <2>5. pc' \in [Threads -> OutsideLock \cup ExitPhases \cup EntryPhases]
    BY <1>0, <1>4 DEF CommitClose, Goto, ExitPhases
  <2>6. /\ closeEvs' \subseteq EventOf({"close"}) /\ flight' \subseteq EventOf({"close"})
        /\ status' \in [Pos -> {"none", "open", "closed"}] /\ cur' \subseteq Item
    BY <1>0, <1>4, <2>1, <2>3, <2>4 DEF CommitClose
  <2> QED BY <1>4, <2>5, <2>6 DEF TypeOK, CommitClose, brokerVars, envVars
<1>5. CASE GiveUpExit(t)
  <2>1. pc' \in [Threads -> OutsideLock \cup ExitPhases \cup EntryPhases]
    BY <1>0, <1>5 DEF GiveUpExit, Goto, ExitPhases
  <2> QED BY <1>5, <2>1 DEF TypeOK, GiveUpExit, brokerVars, dbVars, envVars
<1>6. CASE SettleRaises(t)
  <2>1. pc' \in [Threads -> OutsideLock \cup ExitPhases \cup EntryPhases]
    BY <1>0, <1>6 DEF SettleRaises, Release, Goto, OutsideLock
  <2>2. prep' \in [Threads -> SUBSET Item] /\ lock' = Free /\ faults' \in Nat
    BY <1>0, <1>6 DEF SettleRaises, Release, Fault
  <2> QED BY <1>6, <2>1, <2>2 DEF TypeOK, SettleRaises, brokerVars, dbVars
<1>7. CASE ApplyClose(t)
  <2>1. pc' \in [Threads -> OutsideLock \cup ExitPhases \cup EntryPhases]
    BY <1>0, <1>7 DEF ApplyClose, Goto, ExitPhases
  <2>2. /\ ram' \in [Symbols -> Row] /\ cash' \in Int /\ realised' \in Int
        /\ applied' \subseteq EventId /\ jnl' \in Journal
    BY <1>0, <1>7, ApplyEffect DEF ApplyClose
  <2> QED BY <1>7, <2>1, <2>2 DEF TypeOK, ApplyClose, dbVars, envVars
<1>8. CASE LeaveBook(t)
  <2>1. pc' \in [Threads -> OutsideLock \cup ExitPhases \cup EntryPhases]
    BY <1>0, <1>8 DEF LeaveBook, Release, Goto, OutsideLock
  <2> QED BY <1>8, <2>1 DEF TypeOK, LeaveBook, Release, brokerVars, dbVars, envVars
<1> QED BY <1>1, <1>2, <1>3, <1>4, <1>5, <1>6, <1>7, <1>8 DEF Commit

\* An accrual keeps every type.
LEMMA FundingType ==
  ASSUME TypeOK, NEW t \in Threads, NEW s \in Symbols, NEW target \in FundingTargets,
         AccrueFunding(t, s, target)
  PROVE  TypeOK' /\ jnl'.ids = jnl.ids
<1> DEFINE step == target - ram[s].funding
           e == [kind |-> "funding", sym |-> s, pos |-> ram[s].pos, gross |-> 0,
                 funding |-> step, reason |-> "none", seen |-> ram[s].pos]
<1>1. /\ ram \in [Symbols -> Row] /\ jnl \in Journal /\ cash \in Int
      /\ paid \in [Pos -> Int]
  BY DEF TypeOK
<1>2. ram[s] \in Row /\ ram[s].pos # 0 /\ target \in Int
  BY <1>1, AmountsAssumption DEF AccrueFunding, Held
<1>3. /\ ram[s].pos \in Pos /\ ram[s].funding \in Int /\ ram[s].terms \in Nat
      /\ ram[s].pos \in 0 .. MaxPos
  BY <1>2, BoundsAssumption DEF Row, Pos
<1>4. e \in Event
  BY <1>2, <1>3 DEF Event, EventOf
<1>5. jnl' = Replay(jnl, e)
  BY DEF AccrueFunding
<1>6. jnl' \in Journal /\ jnl'.ids = jnl.ids
  BY <1>1, <1>4, <1>5, ReplayType
<1>7. [ram[s] EXCEPT !.funding = target] \in Row
  BY <1>2, <1>3 DEF Row
<1>8. ram' \in [Symbols -> Row]
  BY <1>1, <1>7 DEF AccrueFunding
<1>9. cash' \in Int /\ paid' \in [Pos -> Int]
  BY <1>1, <1>2, <1>3 DEF AccrueFunding
<1> QED BY <1>6, <1>8, <1>9 DEF TypeOK, AccrueFunding, threadVars, dbVars, envVars

\* Reconciliation, the operator, time, death and restart.
DeskStep ==
  \/ Reconcile \/ ResetKillSwitch
  \/ \E p \in Pos : Expire(p)
  \/ Crash \/ Restart
  \/ \E e \in Unjournaled : Recover(e)

\* Reconciliation, the operator, time, a death and a restart keep every type.
LEMMA DeskType ==
  ASSUME TypeOK, DeskStep
  PROVE  TypeOK'
<1>1. CASE Reconcile \/ ResetKillSwitch
  BY <1>1 DEF TypeOK, Reconcile, ResetKillSwitch, threadVars, brokerVars, dbVars
<1>2. ASSUME NEW p \in Pos, Expire(p)
      PROVE  TypeOK'
  BY <1>2 DEF TypeOK, Expire, threadVars, brokerVars, dbVars
<1>3. CASE Crash
  <2>1. /\ pc' \in [Threads -> OutsideLock \cup ExitPhases \cup EntryPhases]
        /\ prep' \in [Threads -> SUBSET Item]
    BY <1>3 DEF Crash, OutsideLock
  <2>2. ram' \in [Symbols -> Row]
    BY <1>3, NoRowIsRow DEF Crash
  <2>3. /\ cash' \in Int /\ realised' \in Int /\ applied' \subseteq EventId
        /\ cur' \subseteq Item /\ flight' \subseteq EventOf({"close"})
        /\ crashes' \in Nat /\ phase' \in {"up", "down"}
        /\ lock' \in Threads \cup {Free}
    BY <1>3 DEF Crash, TypeOK
  <2> QED BY <1>3, <2>1, <2>2, <2>3 DEF TypeOK, Crash, dbVars
<1>4. CASE Restart
  <2>1. jnl \in Journal /\ deal \in [Pos -> Deal]
    BY DEF TypeOK
  <2>2. ASSUME NEW s \in Symbols, OpenOn(s) # {}
        PROVE  HydratedRow(s) \in Row
    <3>1. FindOpen(s) \in Pos /\ FindOpen(s) \in 0 .. MaxPos
      BY <2>2, FindOpenIsOpen, BoundsAssumption DEF Pos
    <3>2. deal[FindOpen(s)].terms \in Nat /\ jnl.open[s] \in Int
      BY <2>1, <3>1, SetsAssumption DEF Deal, Journal
    <3> QED BY <3>1, <3>2 DEF HydratedRow, Row
  <2>3. ram' \in [Symbols -> Row]
    BY <1>4, <2>2, NoRowIsRow DEF Restart
  <2>4. cash' \in Int /\ realised' \in Int /\ applied' \subseteq EventId
    BY <1>4, <2>1 DEF Restart, Journal, EventId
  <2> QED BY <1>4, <2>3, <2>4 DEF TypeOK, Restart, threadVars, dbVars
<1>5. ASSUME NEW e \in Unjournaled, Recover(e)
      PROVE  TypeOK'
  <2>1. e \in EventOf({"open", "close"}) /\ jnl \in Journal
    BY DurableType DEF Unjournaled, TypeOK
  <2>2. jnl' \in Journal
    BY <1>5, <2>1, RecordType DEF Recover
  <2> QED BY <1>5, <2>2 DEF TypeOK, Recover, threadVars, brokerVars, dbVars, envVars
<1> QED BY <1>1, <1>2, <1>3, <1>4, <1>5 DEF DeskStep

\* Every step keeps every type.
LEMMA NextType ==
  ASSUME TypeOK, LockInv, EntryInv, [Next]_vars
  PROVE  TypeOK'
<1>1. CASE Next
  BY <1>1, EntryType, PrepareType, CommitType, FundingType, DeskType
     DEF Next, DeskStep
<1>2. CASE UNCHANGED vars
  BY <1>2 DEF TypeOK, vars, threadVars, brokerVars, dbVars, envVars
<1> QED BY <1>1, <1>2
---------------------------------------------------------------------------
(* Who may be where. *)

\* Every step keeps the lock invariant: BookGuard has one holder, and the places
\* inside a hold are his.
LEMMA NextLock ==
  ASSUME TypeOK, LockInv, [Next]_vars
  PROVE  LockInv'
<1> USE DEF Threads, Main, Exit, Free
<1>0. /\ lock \in Threads \cup {Free}
      /\ pc \in [Threads -> OutsideLock \cup ExitPhases \cup EntryPhases]
  BY DEF TypeOK
<1>1. CASE UNCHANGED <<threadVars, status, deal>> /\ (phase' = "down" => phase = "down")
  BY <1>1 DEF LockInv, HolderAt, threadVars, OpenOn
<1>2. CASE Entry
  <2>1. ASSUME NEW s \in Symbols, NEW k \in Terms, FillEntry(s, k)
        PROVE  LockInv'
    <3>1. cur = {} /\ flight = {} /\ UNCHANGED <<cur, flight, phase>>
          /\ lock = Free /\ lock' = Main /\ phase = "up"
      BY <2>1 DEF FillEntry, LockInv, HolderAt, Running
    <3>2. pc' = [pc EXCEPT ![Main] = "filled"]
      BY <2>1 DEF FillEntry, Goto
    <3> QED BY <1>0, <3>1, <3>2 DEF LockInv, OutsideLock, EntryPhases
  <2>2. ASSUME NEW to \in {"recorded", "stamped"}, Goto(Main, to), lock = Main,
               pc[Main] \in {"filled", "recorded"}, UNCHANGED <<lock, cur, flight, phase>>
        PROVE  LockInv'
    BY <1>0, <2>2 DEF LockInv, HolderAt, Goto, OutsideLock, EntryPhases
  <2>3. ASSUME Release(Main), lock = Main, pc[Main] \in {"filled", "stamped"},
               UNCHANGED <<cur, flight, phase>>, phase = "up"
        PROVE  LockInv'
    BY <1>0, <2>3 DEF LockInv, HolderAt, Release, Goto, OutsideLock, EntryPhases
  <2>4. CASE RecordEntry \/ StampEntry
    BY <2>2, <2>4 DEF RecordEntry, StampEntry, Holding, Running, envVars
  <2>5. CASE RecordEntryFails \/ MirrorEntry \/ MirrorEntryFails
    BY <2>3, <2>5 DEF RecordEntryFails, MirrorEntry, MirrorEntryFails, Holding,
                      Running, envVars
  <2> QED BY <1>2, <2>1, <2>4, <2>5 DEF Entry
<1>3. ASSUME NEW t \in Threads, Prepare(t) \/ TakeBook(t)
      PROVE  LockInv'
  <2>1. ASSUME NEW to \in OutsideLock, Goto(t, to), pc[t] \in OutsideLock,
               UNCHANGED <<lock, cur, flight, phase, status, deal>>
        PROVE  LockInv'
    BY <1>0, <2>1 DEF LockInv, HolderAt, Goto, OutsideLock, EntryPhases, OpenOn
  <2>2. CASE TakeBook(t)
    <3>1. cur = {} /\ flight = {}
      BY <2>2 DEF TakeBook, LockInv, HolderAt
    <3> QED BY <1>0, <2>2, <3>1 DEF TakeBook, Running, LockInv, Goto, OutsideLock,
                                    EntryPhases, envVars
  <2>3. CASE Prepare(t)
    BY <2>1, <2>3 DEF Prepare, PeekTriggers, ScanExpiries, PrepareManual, Running,
                      OutsideLock, envVars, dbVars
  <2> QED BY <1>3, <2>2, <2>3
<1>4. ASSUME NEW t \in Threads, Commit(t)
      PROVE  LockInv'
  <2>1. ASSUME NEW i \in prep[t], DropStale(t, i) \/ SkipUnledgered(t, i)
        PROVE  LockInv'
    BY <2>1 DEF DropStale, SkipUnledgered, LockInv, HolderAt, OpenOn, dbVars, envVars
  <2>2. ASSUME NEW i \in prep[t], BeginExit(t, i)
        PROVE  LockInv'
    <3>1. flight = {} /\ flight' = {} /\ phase' = "up" /\ lock' = t /\ lock = t
      BY <2>2 DEF BeginExit, Holding, Running, LockInv, HolderAt, envVars
    <3>2. pc' = [pc EXCEPT ![t] = "accruing"] /\ pc[t] = "exits"
      BY <2>2 DEF BeginExit, Goto, Holding, Running
    <3>3. \A j \in cur' : OpenOn(j.sym)' # {}
      BY <2>2 DEF BeginExit, OpenOn, dbVars
    <3> QED BY <1>0, <3>1, <3>2, <3>3 DEF LockInv, HolderAt, OutsideLock, EntryPhases
  <2>3. ASSUME NEW g \in Gross, CommitClose(t, g)
        PROVE  LockInv'
    <3>1. cur' = {} /\ phase' = "up" /\ lock' = t /\ lock = t
      BY <2>3 DEF CommitClose, Holding, Running, envVars
    <3>2. pc' = [pc EXCEPT ![t] = "settled"] /\ pc[t] = "accruing"
      BY <2>3 DEF CommitClose, Goto, Holding, Running
    <3> QED BY <1>0, <3>1, <3>2 DEF LockInv, HolderAt, OutsideLock, EntryPhases
  <2>4. CASE GiveUpExit(t) \/ ApplyClose(t)
    <3>1. cur' = {} /\ flight' = {} /\ phase' = "up" /\ lock' = t /\ lock = t
      BY <2>4 DEF GiveUpExit, ApplyClose, Holding, Running, LockInv, HolderAt, envVars
    <3>2. pc' = [pc EXCEPT ![t] = "exits"] /\ pc[t] \in {"accruing", "settled"}
      BY <2>4 DEF GiveUpExit, ApplyClose, Goto, Holding, Running
    <3> QED BY <1>0, <3>1, <3>2 DEF LockInv, HolderAt, OutsideLock, EntryPhases
  <2>5. CASE SettleRaises(t) \/ LeaveBook(t)
    <3>1. cur' = {} /\ flight' = {} /\ lock' = Free /\ lock = t
      BY <2>5 DEF SettleRaises, LeaveBook, Holding, Running, Release, LockInv, HolderAt
    <3>2. pc' = [pc EXCEPT ![t] = "idle"] /\ pc[t] \in {"accruing", "exits"}
      BY <2>5 DEF SettleRaises, LeaveBook, Release, Goto, Holding, Running
    <3> QED BY <1>0, <3>1, <3>2 DEF LockInv, HolderAt, OutsideLock, EntryPhases
  <2> QED BY <1>4, <2>1, <2>2, <2>3, <2>4, <2>5 DEF Commit
<1>5. CASE Crash
  BY <1>5 DEF Crash, LockInv, HolderAt, OutsideLock, EntryPhases
<1>6. CASE UNCHANGED vars \/ Reconcile \/ ResetKillSwitch
  BY <1>1, <1>6 DEF vars, Reconcile, ResetKillSwitch, dbVars, envVars
<1>7. CASE \E p \in Pos : Expire(p)
  BY <1>1, <1>7 DEF Expire, dbVars
<1>8. CASE Restart \/ \E e \in Unjournaled : Recover(e)
  BY <1>1, <1>8 DEF Restart, Recover, dbVars, envVars
<1>9. CASE \E t \in Threads, s \in Symbols, f \in FundingTargets : AccrueFunding(t, s, f)
  BY <1>1, <1>9 DEF AccrueFunding, dbVars, envVars
<1> QED BY <1>2, <1>3, <1>4, <1>5, <1>6, <1>7, <1>8, <1>9 DEF Next

---------------------------------------------------------------------------
(* The ledger row of the entry being placed. *)

\* A fresh desk satisfies the inductive invariant.
LEMMA InitInv == Init => IInv
<1> SUFFICES ASSUME Init PROVE IInv OBVIOUS
<1>1. TypeOK
  BY InitType
<1>2. \A t \in Threads : pc[t] = "idle"
  BY DEF Init
<1>3. LockInv
  BY <1>2 DEF Init, LockInv, Threads, Main, Exit, Free, OutsideLock, EntryPhases
<1>4. ~HolderAt({"filled"}) /\ ~HolderAt({"recorded", "stamped"}) /\ ~HolderAt({"stamped"})
  BY DEF Init, HolderAt, Threads, Main, Exit, Free
<1>5. EntryInv
  BY <1>4 DEF Init, EntryInv
<1>6. RowInv
  BY DEF Init, RowInv, OpenPositionsAreWatched, NoRow
<1>7. /\ flight = {} /\ closeEvs = {} /\ openEvs = {} /\ jnl.ids = {} /\ applied = {}
      /\ \A p \in Pos : status[p] = "none"
  BY DEF Init
<1>8. Durable = {}
  BY <1>7 DEF Durable
<1>9. EventInv
  BY <1>7, <1>8 DEF EventInv, SettledOnce, ClosedEvent, JournaledCloses,
                    OpenMirrorsAreJournaled, AtMostOneUnjournaled, Unjournaled
<1> QED BY <1>1, <1>3, <1>5, <1>6, <1>9 DEF IInv

\* A closed or open row belongs to an earlier fill.
LEMMA NextEntry ==
  ASSUME IInv, [Next]_vars
  PROVE  EntryInv'
<1> USE DEF Threads, Main, Exit, Free
<1>0. /\ lock \in Threads \cup {Free}
      /\ pc \in [Threads -> OutsideLock \cup ExitPhases \cup EntryPhases]
      /\ ram \in [Symbols -> Row] /\ deal \in [Pos -> Deal] /\ fills \in 0 .. MaxPos
      /\ status \in [Pos -> {"none", "open", "closed"}]
      /\ EntryInv /\ LockInv /\ TypeOK /\ jnl \in Journal
  BY DEF IInv, TypeOK
<1>1. ASSUME UNCHANGED <<status, fills, deal, ram, jnl>>,
             \A S \in SUBSET EntryPhases : HolderAt(S)' => HolderAt(S)
      PROVE  EntryInv'
  <2>1. /\ HolderAt({"filled"})' => HolderAt({"filled"})
        /\ HolderAt({"recorded", "stamped"})' => HolderAt({"recorded", "stamped"})
        /\ HolderAt({"stamped"})' => HolderAt({"stamped"})
    BY <1>1 DEF EntryPhases
  <2> QED BY <1>0, <1>1, <2>1 DEF EntryInv, OpenOn
<1>2. ASSUME fills' = fills, lock' \in Threads => pc'[lock'] \notin EntryPhases,
             \A p \in Pos : p > fills => status'[p] = status[p]
      PROVE  EntryInv'
  BY <1>0, <1>2 DEF EntryInv, HolderAt, EntryPhases
<1>3. CASE Entry
  <2>1. ASSUME NEW s \in Symbols, NEW k \in Terms, FillEntry(s, k)
        PROVE  EntryInv'
    <3>1. /\ fills' = fills + 1 /\ fills + 1 \in Pos /\ status' = status
          /\ lock' = Main /\ pc'[Main] = "filled"
      BY <1>0, <2>1, BoundsAssumption DEF FillEntry, Goto, Pos
    <3>2. /\ deal'[fills + 1] = [sym |-> s, terms |-> k]
          /\ ram'[s] = [pos |-> fills + 1, terms |-> k, funding |-> 0]
      BY <1>0, <2>1, <3>1 DEF FillEntry
    <3>3. \A p \in Pos : p > fills => status[p] = "none"
      BY <1>0 DEF EntryInv
    <3>4. \A p \in Pos : status[p] = "open" => deal'[p] = deal[p]
      BY <1>0, <2>1, <3>1, <3>3 DEF FillEntry, Pos
    <3>5. OpenOn(s)' = {}
      BY <2>1, <3>1, <3>4 DEF FillEntry, OpenOn
    <3> QED BY <1>0, <3>1, <3>2, <3>3, <3>5 DEF EntryInv, HolderAt, Pos
  <2>2. CASE RecordEntry
    <3>1. fills \in Pos /\ lock' = Main /\ pc'[Main] = "recorded" /\ fills' = fills
          /\ fills > 0
      BY <1>0, <2>2 DEF RecordEntry, Holding, Running, Goto, EntryInv, HolderAt, Pos,
                        envVars
    <3>2. \A p \in Pos : p > fills => status'[p] = "none"
      BY <1>0, <2>2, <3>1 DEF RecordEntry, EntryInv, Pos
    <3> QED BY <3>1, <3>2 DEF EntryInv, HolderAt
  <2>3. CASE StampEntry
    <3>1. fills > 0 /\ lock' = Main /\ pc'[Main] = "stamped" /\ fills' = fills
          /\ status' = status
      BY <1>0, <2>3 DEF StampEntry, Holding, Running, Goto, EntryInv, HolderAt,
                        envVars, dbVars
    <3>2. <<"open", fills>> \in jnl'.ids
      BY <1>0, <2>3 DEF StampEntry, Journal
    <3> QED BY <1>0, <3>1, <3>2 DEF EntryInv, HolderAt
  <2>4. CASE MirrorEntry \/ RecordEntryFails \/ MirrorEntryFails
    BY <1>2, <2>4 DEF MirrorEntry, RecordEntryFails, MirrorEntryFails, Release,
                      envVars, dbVars
  <2> QED BY <1>3, <2>1, <2>2, <2>3, <2>4 DEF Entry
<1>4. ASSUME NEW t \in Threads, Prepare(t) \/ TakeBook(t)
      PROVE  EntryInv'
  <2>1. CASE TakeBook(t)
    BY <1>0, <1>2, <2>1 DEF TakeBook, Goto, EntryPhases, envVars, dbVars
  <2>2. CASE Prepare(t)
    <3>1. PICK to \in OutsideLock : pc' = [pc EXCEPT ![t] = to]
      BY <2>2 DEF Prepare, PeekTriggers, ScanExpiries, PrepareManual, Goto, OutsideLock
    <3>2. lock' = lock /\ UNCHANGED <<status, fills, deal, ram, jnl>>
      BY <2>2 DEF Prepare, PeekTriggers, ScanExpiries, PrepareManual, brokerVars,
                  dbVars, envVars
    <3>3. \A S \in SUBSET EntryPhases : HolderAt(S)' => HolderAt(S)
      BY <1>0, <3>1, <3>2 DEF HolderAt, OutsideLock, EntryPhases
    <3> QED BY <1>1, <3>2, <3>3
  <2> QED BY <1>4, <2>1, <2>2
<1>5. ASSUME NEW t \in Threads, Commit(t)
      PROVE  EntryInv'
  <2>1. lock' \in Threads => pc'[lock'] \notin EntryPhases
    BY <1>0, <1>5 DEF Commit, DropStale, SkipUnledgered, BeginExit, CommitClose,
       GiveUpExit, SettleRaises, ApplyClose, LeaveBook, Holding, Running, Release,
       Goto, EntryPhases
  <2>2. fills' = fills
    BY <1>5 DEF Commit, DropStale, SkipUnledgered, BeginExit, CommitClose,
       GiveUpExit, SettleRaises, ApplyClose, LeaveBook, envVars
  <2>3. \A p \in Pos : p > fills => status'[p] = status[p]
    <3>1. CASE status' = status
      BY <3>1
    <3>2. ASSUME NEW g \in Gross, CommitClose(t, g)
          PROVE  \A p \in Pos : p > fills => status'[p] = status[p]
      <4>1. PICK i \in cur : status' = [status EXCEPT ![FindOpen(i.sym)] = "closed"]
        BY <3>2 DEF CommitClose
      <4>2. FindOpen(i.sym) \in Pos /\ status[FindOpen(i.sym)] = "open"
        BY <1>0, <4>1, FindOpenIsOpen DEF LockInv, OpenOn
      <4>3. ~(FindOpen(i.sym) > fills)
        BY <1>0, <4>2 DEF EntryInv
      <4> QED BY <1>0, <4>1, <4>3
    <3> QED BY <1>5, <3>1, <3>2 DEF Commit, DropStale, SkipUnledgered, BeginExit,
               GiveUpExit, SettleRaises, ApplyClose, LeaveBook, dbVars
  <2> QED BY <1>2, <2>1, <2>2, <2>3
<1>6. CASE \E t \in Threads, s \in Symbols, f \in FundingTargets : AccrueFunding(t, s, f)
  <2>1. lock \in Threads => pc[lock] \notin EntryPhases
    BY <1>6 DEF AccrueFunding, Holding, Running, EntryPhases
  <2> QED BY <1>2, <1>6, <2>1 DEF AccrueFunding, threadVars, envVars, dbVars
<1>7. CASE UNCHANGED vars \/ Reconcile \/ ResetKillSwitch \/ \E p \in Pos : Expire(p)
  <2>1. UNCHANGED <<status, fills, deal, ram, jnl, lock, pc>>
    BY <1>7 DEF vars, Reconcile, ResetKillSwitch, Expire, threadVars, brokerVars,
                dbVars, envVars
  <2>2. \A S \in SUBSET EntryPhases : HolderAt(S)' => HolderAt(S)
    BY <2>1 DEF HolderAt
  <2> QED BY <1>1, <2>1, <2>2
<1>8. CASE Crash \/ Restart \/ \E e \in Unjournaled : Recover(e)
  <2>1. lock' = Free /\ fills' = fills /\ status' = status
    BY <1>0, <1>8 DEF Crash, Restart, Recover, LockInv, threadVars, dbVars, envVars
  <2> QED BY <1>2, <2>1
<1> QED BY <1>3, <1>4, <1>5, <1>6, <1>7, <1>8 DEF Next

---------------------------------------------------------------------------
(* RAM rows, and the events that settle them. *)

bookVars == <<phase, flight, ram, applied, jnl, dbVars>>

\* Most steps of a pass leave the book as it is.
LEMMA BookFrame ==
  ASSUME IInv, UNCHANGED bookVars
  PROVE  RowInv' /\ EventInv'
<1>1. \A s : OpenOn(s)' = OpenOn(s)
  BY DEF OpenOn, bookVars, dbVars
<1>2. RowInv'
  BY <1>1 DEF IInv, RowInv, OpenPositionsAreWatched, bookVars, dbVars
<1>3. Unjournaled' = Unjournaled /\ JournaledCloses' = JournaledCloses
  BY DEF Unjournaled, Durable, JournaledCloses, EventKey, OpenEvent, bookVars, dbVars
<1>4. SettledOnce'
  BY <1>3 DEF IInv, EventInv, SettledOnce, ClosedEvent, EventKey, bookVars, dbVars
<1>5. EventInv'
  BY <1>3, <1>4 DEF IInv, EventInv, ClosedEvent, OpenMirrorsAreJournaled,
                    AtMostOneUnjournaled, bookVars, dbVars
<1> QED BY <1>2, <1>5

\* Which steps those are.
LEMMA QuietSteps ==
  ASSUME NEW t \in Threads,
         \/ RecordEntryFails \/ MirrorEntryFails \/ Prepare(t) \/ TakeBook(t)
         \/ \E i \in prep[t] : DropStale(t, i) \/ BeginExit(t, i)
         \/ GiveUpExit(t) \/ SettleRaises(t) \/ LeaveBook(t)
         \/ Reconcile \/ ResetKillSwitch \/ \E p \in Pos : Expire(p)
         \/ UNCHANGED vars
  PROVE  UNCHANGED bookVars
BY DEF RecordEntryFails, MirrorEntryFails, Prepare, PeekTriggers, ScanExpiries,
   PrepareManual, TakeBook, DropStale, BeginExit, GiveUpExit, SettleRaises,
   LeaveBook, Reconcile, ResetKillSwitch, Expire, vars, threadVars, brokerVars,
   dbVars, envVars, bookVars

\* Only the steps left over can disturb the book.
LEMMA LoudSteps ==
  ASSUME [Next]_vars
  PROVE  \/ UNCHANGED bookVars
         \/ \E s \in Symbols, k \in Terms : FillEntry(s, k)
         \/ RecordEntry \/ StampEntry \/ MirrorEntry
         \/ \E t \in Threads :
              \/ \E i \in prep[t] : SkipUnledgered(t, i)
              \/ \E g \in Gross : CommitClose(t, g)
              \/ ApplyClose(t)
              \/ \E s \in Symbols, f \in FundingTargets : AccrueFunding(t, s, f)
         \/ Crash \/ Restart \/ \E e \in Unjournaled : Recover(e)
<1>1. Main \in Threads
  BY DEF Threads
<1> QED BY <1>1, QuietSteps DEF Next, Entry, Commit

\* Facts of the current state the two preservation proofs share.
LEMMA BookFacts ==
  ASSUME IInv
  PROVE  /\ TypeOK /\ LockInv /\ EntryInv /\ RowInv /\ EventInv
         /\ ram \in [Symbols -> Row] /\ deal \in [Pos -> Deal]
         /\ status \in [Pos -> {"none", "open", "closed"}]
         /\ jnl \in Journal /\ applied \subseteq EventId /\ fills \in 0 .. MaxPos
         /\ closeEvs \subseteq EventOf({"close"}) /\ openEvs \subseteq Pos
         /\ \A e \in closeEvs : e.pos \in Pos /\ e.sym \in Symbols /\ EventKey(e) = <<"close", e.pos>>
         /\ lock \notin Threads => flight = {}
         /\ \A t \in Threads : lock = t /\ pc[t] # "settled" => flight = {}
         /\ flight \subseteq closeEvs
BY DEF IInv, TypeOK, EventOf, EventKey, EventInv, LockInv, HolderAt

\* Every step keeps the row invariant: an open position has its RAM row.
LEMMA NextRow ==
  ASSUME IInv, [Next]_vars
  PROVE  RowInv'
<1> USE BookFacts
<1>1. CASE UNCHANGED bookVars
  BY <1>1, BookFrame
<1>2. ASSUME NEW s \in Symbols, NEW k \in Terms, FillEntry(s, k)
      PROVE  RowInv'
  <2>1. /\ status' = status /\ phase' = phase /\ flight' = flight /\ flight = {}
        /\ ram' = [ram EXCEPT ![s] = [pos |-> fills + 1, terms |-> k, funding |-> 0]]
        /\ OpenOn(s) = {}
    BY <1>2 DEF FillEntry, Free, Threads, Main, Exit
  <2>2. \A p \in Pos : status[p] = "open" => deal'[p] = deal[p] /\ deal[p].sym # s
    BY <1>2, <2>1 DEF FillEntry, EntryInv, OpenOn, Pos
  <2>3. fills + 1 # 0
    OBVIOUS
  <2>4. \A p \in Pos : deal[p].sym \in Symbols
    BY DEF Deal
  <2> QED BY <2>1, <2>2, <2>3, <2>4 DEF RowInv, OpenPositionsAreWatched
<1>3. CASE RecordEntry
  <2>1. /\ fills \in Pos /\ flight = {} /\ flight' = {} /\ UNCHANGED <<ram, deal, phase>>
        /\ status' = [status EXCEPT ![fills] = "open"]
        /\ HolderAt({"filled"})
    BY <1>3 DEF RecordEntry, Holding, Running, EntryInv, HolderAt, Threads, Main,
                Pos, brokerVars, envVars
  <2>2. /\ \A p \in Pos : status[p] = "open" => deal[p].sym # deal[fills].sym
        /\ ram[deal[fills].sym].pos = fills
        /\ ram[deal[fills].sym].terms = deal[fills].terms
    BY <2>1 DEF EntryInv, OpenOn
  <2> QED BY <2>1, <2>2 DEF RowInv, OpenPositionsAreWatched
<1>4. CASE StampEntry \/ MirrorEntry \/ \E e \in Unjournaled : Recover(e)
  <2>1. UNCHANGED <<phase, flight, ram, status, deal>>
    BY <1>4 DEF StampEntry, MirrorEntry, Recover, brokerVars, dbVars, envVars, threadVars
  <2> QED BY <2>1 DEF RowInv, OpenPositionsAreWatched, OpenOn
<1>5. ASSUME NEW t \in Threads, NEW i \in prep[t], SkipUnledgered(t, i)
      PROVE  RowInv'
  <2>1. /\ UNCHANGED <<phase, flight, status, deal>> /\ flight = {}
        /\ OpenOn(i.sym) = {}
    BY <1>5 DEF SkipUnledgered, Holding, Running, dbVars, envVars
  <2>2. ram' = ram \/ ram' = [ram EXCEPT ![i.sym] = NoRow]
    <3>1. CASE UNCHANGED brokerVars
      BY <3>1 DEF brokerVars
    <3>2. ASSUME NEW e \in LatestMatches(i.sym), ApplyJournalClose(e)
          PROVE  ram' = ram \/ ram' = [ram EXCEPT ![i.sym] = NoRow]
      <4>1. e \in EventOf({"close"}) /\ e.sym = i.sym
        BY DEF LatestMatches, MatchingCloses
      <4> QED BY <3>2, <4>1, ApplyEffect
    <3> QED BY <1>5, <3>1, <3>2 DEF SkipUnledgered
  <2>3. \A p \in Pos : status[p] = "open" => deal[p].sym # i.sym
    BY <2>1 DEF OpenOn
  <2> QED BY <2>1, <2>2, <2>3 DEF RowInv, OpenPositionsAreWatched, Deal
<1>6. ASSUME NEW t \in Threads, NEW g \in Gross, CommitClose(t, g)
      PROVE  RowInv'
  <2>1. PICK i \in cur :
          /\ ram[i.sym] # NoRow
          /\ status' = [status EXCEPT ![FindOpen(i.sym)] = "closed"]
          /\ flight' = {[kind |-> "close", sym |-> i.sym, pos |-> FindOpen(i.sym),
                         gross |-> g, funding |-> ram[i.sym].funding,
                         reason |-> i.reason, seen |-> i.seen]}
    BY <1>6 DEF CommitClose
  <2>2. FindOpen(i.sym) \in OpenOn(i.sym)
    BY <2>1, FindOpenIsOpen DEF LockInv
  <2>3. UNCHANGED <<phase, ram, deal>>
    BY <1>6 DEF CommitClose, brokerVars, envVars
  <2>4. OpenOn(i.sym)' = {}
    BY <2>1, <2>2, <2>3 DEF RowInv, OpenPositionsAreWatched, OpenOn
  <2> QED BY <2>1, <2>3, <2>4 DEF RowInv, OpenPositionsAreWatched
<1>7. ASSUME NEW t \in Threads, ApplyClose(t)
      PROVE  RowInv'
  <2>1. PICK e \in flight : ApplyJournalClose(e)
    BY <1>7 DEF ApplyClose
  <2>2. ram' = ram \/ ram' = [ram EXCEPT ![e.sym] = NoRow]
    BY <2>1, ApplyEffect
  <2>3. \A p \in Pos : status[p] = "open" => deal[p].sym # e.sym
    BY <2>1 DEF RowInv, OpenOn
  <2>4. UNCHANGED <<phase, status, deal>> /\ flight' = {}
    BY <1>7 DEF ApplyClose, dbVars, envVars
  <2> QED BY <2>2, <2>3, <2>4 DEF RowInv, OpenPositionsAreWatched, Deal
<1>8. ASSUME NEW t \in Threads, NEW s \in Symbols, NEW f \in FundingTargets,
             AccrueFunding(t, s, f)
      PROVE  RowInv'
  <2>1. UNCHANGED <<phase, flight, status, deal>> /\ ram[s].pos # 0
        /\ ram' = [ram EXCEPT ![s].funding = f]
    BY <1>8 DEF AccrueFunding, Held, threadVars, dbVars, envVars
  <2>2. /\ ram'[s].pos = ram[s].pos /\ ram'[s].terms = ram[s].terms
        /\ \A r \in Symbols \ {s} : ram'[r] = ram[r]
    BY <2>1 DEF Row
  <2>3. \A r \in Symbols : /\ ram'[r].pos = ram[r].pos /\ ram'[r].terms = ram[r].terms
                           /\ ram'[r] = NoRow <=> ram[r] = NoRow
    BY <2>1, <2>2 DEF NoRow
  <2> QED BY <2>1, <2>3 DEF RowInv, OpenPositionsAreWatched, OpenOn, Deal, EventOf
<1>9. CASE Crash
  BY <1>9 DEF Crash, dbVars, RowInv, OpenPositionsAreWatched
<1>10. CASE Restart
  <2>1. UNCHANGED <<status, deal>> /\ flight' = flight /\ flight = {}
    BY <1>10 DEF Restart, threadVars, dbVars, LockInv, Free, Threads, Main, Exit
  <2>2. \A p \in Pos : status[p] = "open" => OpenOn(deal[p].sym) # {} /\ FindOpen(deal[p].sym) = p
    <3>1. ASSUME NEW p \in Pos, status[p] = "open"
          PROVE  OpenOn(deal[p].sym) # {} /\ FindOpen(deal[p].sym) = p
      <4>1. p \in OpenOn(deal[p].sym)
        BY <3>1 DEF OpenOn
      <4>2. FindOpen(deal[p].sym) \in OpenOn(deal[p].sym)
        BY <4>1, FindOpenIsOpen
      <4> QED BY <4>1, <4>2 DEF OpenOn, RowInv, OpenPositionsAreWatched
    <3> QED BY <3>1
  <2>3. ASSUME NEW p \in Pos, status[p] = "open"
        PROVE  ram'[deal[p].sym].pos = p /\ ram'[deal[p].sym].terms = deal[p].terms
    BY <1>10, <2>2, <2>3 DEF Restart, HydratedRow, Deal
  <2>4. ASSUME NEW s \in Symbols, ram'[s].pos = 0
        PROVE  ram'[s] = NoRow
    BY <1>10, <2>4, FindOpenIsOpen DEF Restart, HydratedRow, Pos
  <2> QED BY <2>1, <2>3, <2>4 DEF RowInv, OpenPositionsAreWatched
<1> QED BY <1>1, <1>2, <1>3, <1>4, <1>5, <1>6, <1>7, <1>8, <1>9, <1>10, LoudSteps

\* While mirrored entries are journaled, only a close can be missing.
LEMMA MissingAreCloses ==
  ASSUME IInv
  PROVE  Unjournaled = {e \in closeEvs : EventKey(e) \notin jnl.ids}
BY DEF IInv, EventInv, OpenMirrorsAreJournaled, Unjournaled, Durable, EventKey, OpenEvent

\* Every step keeps the event invariant: a close is settled, journaled and
\* applied once.
LEMMA NextEvent ==
  ASSUME IInv, [Next]_vars
  PROVE  EventInv'
<1> USE BookFacts
<1>0. /\ \A p \in Pos : status[p] = "closed" <=> \E e \in closeEvs : e.pos = p
      /\ \A e, f \in closeEvs : e.pos = f.pos => e = f
      /\ phase = "up" => \A e \in closeEvs : /\ EventKey(e) \in jnl.ids <=> e \notin flight
                                             /\ EventKey(e) \in applied <=> e \notin flight
      /\ \A e, f \in flight : e = f
      /\ \A p \in Pos : <<"close", p>> \in jnl.ids \cup applied =>
           \E e \in closeEvs : e.pos = p
      /\ \A p \in openEvs : <<"open", p>> \in jnl.ids
      /\ \A e, f \in {c \in closeEvs : EventKey(c) \notin jnl.ids} : e = f
  BY MissingAreCloses DEF EventInv, SettledOnce, ClosedEvent, JournaledCloses,
     OpenMirrorsAreJournaled, AtMostOneUnjournaled
<1> DEFINE Good ==
      /\ \A p \in Pos : status'[p] = "closed" <=> \E e \in closeEvs' : e.pos = p
      /\ \A e, f \in closeEvs' : e.pos = f.pos => e = f
      /\ phase' = "up" => \A e \in closeEvs' :
           /\ EventKey(e) \in jnl'.ids <=> e \notin flight'
           /\ EventKey(e) \in applied' <=> e \notin flight'
      /\ flight' \subseteq closeEvs'
      /\ \A e, f \in flight' : e = f
      /\ \A p \in Pos : <<"close", p>> \in jnl'.ids \cup applied' =>
           \E e \in closeEvs' : e.pos = p
      /\ \A p \in openEvs' : <<"open", p>> \in jnl'.ids
      /\ \A e, f \in {c \in closeEvs' : EventKey(c) \notin jnl'.ids} : e = f
<1>a. Good => EventInv'
  <2> SUFFICES ASSUME Good PROVE EventInv' OBVIOUS
  <2>1. SettledOnce'
    BY DEF SettledOnce, ClosedEvent, JournaledCloses, EventKey
  <2>2. Unjournaled' \subseteq {c \in closeEvs' : EventKey(c) \notin jnl'.ids}
    BY DEF Unjournaled, Durable, EventKey, OpenEvent
  <2> QED BY <2>1, <2>2 DEF EventInv, ClosedEvent, OpenMirrorsAreJournaled,
                            AtMostOneUnjournaled
<1>1. CASE UNCHANGED bookVars
  BY <1>1, BookFrame
<1>2. ASSUME NEW s \in Symbols, NEW k \in Terms, FillEntry(s, k)
      PROVE  EventInv'
  <2>1. fills + 1 \in Pos
    BY <1>2, BoundsAssumption DEF FillEntry, Pos
  <2>2. OpenEvent(fills + 1, s) \in Event
    BY <2>1 DEF OpenEvent, Event, EventOf
  <2>3. jnl'.ids = jnl.ids
    BY <1>2, <2>2, ReplayType DEF FillEntry
  <2>4. UNCHANGED <<status, closeEvs, openEvs, flight, applied, phase>>
    BY <1>2 DEF FillEntry
  <2>5. Good
    BY <1>0, <2>3, <2>4
  <2> QED BY <1>a, <2>5
<1>3. CASE RecordEntry
  <2>1. /\ fills \in Pos /\ status' = [status EXCEPT ![fills] = "open"]
        /\ status[fills] = "none"
    BY <1>3 DEF RecordEntry, Holding, Running, EntryInv, HolderAt, Threads, Main, Pos
  <2>2. UNCHANGED <<jnl, closeEvs, openEvs, flight, applied, phase>>
    BY <1>3 DEF RecordEntry, brokerVars, envVars
  <2>3. Good
    BY <1>0, <2>1, <2>2
  <2> QED BY <1>a, <2>3
<1>4. CASE StampEntry
  <2>1. jnl'.ids = jnl.ids \cup {<<"open", fills>>}
    BY <1>4 DEF StampEntry, Journal
  <2>2. UNCHANGED <<status, closeEvs, openEvs, flight, applied, phase>>
    BY <1>4 DEF StampEntry, brokerVars, dbVars, envVars
  <2>3. Good
    BY <1>0, <2>1, <2>2 DEF EventKey
  <2> QED BY <1>a, <2>3
<1>5. CASE MirrorEntry
  <2>1. openEvs' = openEvs \cup {fills} /\ <<"open", fills>> \in jnl.ids
    BY <1>5 DEF MirrorEntry, Holding, Running, EntryInv, HolderAt, Threads, Main
  <2>2. UNCHANGED <<status, closeEvs, jnl, flight, applied, phase>>
    BY <1>5 DEF MirrorEntry, brokerVars, envVars
  <2>3. Good
    BY <1>0, <2>1, <2>2
  <2> QED BY <1>a, <2>3
<1>6. ASSUME NEW t \in Threads, NEW i \in prep[t], SkipUnledgered(t, i)
      PROVE  EventInv'
  <2>1. flight = {} /\ phase = "up"
        /\ UNCHANGED <<phase, flight, status, closeEvs, openEvs>>
    BY <1>6 DEF SkipUnledgered, Holding, Running, dbVars, envVars
  <2>2. applied' = applied /\ jnl'.ids = jnl.ids
    <3>1. CASE UNCHANGED <<brokerVars, jnl>>
      BY <3>1 DEF brokerVars
    <3>2. ASSUME NEW e \in LatestMatches(i.sym), ApplyJournalClose(e)
          PROVE  applied' = applied /\ jnl'.ids = jnl.ids
      <4>1. e \in closeEvs /\ e \in EventOf({"close"})
        BY DEF LatestMatches, MatchingCloses
      <4>2. EventKey(e) \in applied /\ EventKey(e) \in jnl.ids
        BY <1>0, <2>1, <4>1
      <4>3. applied' = applied /\ jnl'.ids = jnl.ids \cup {EventKey(e)}
        BY <3>2, <4>1, <4>2, ApplyEffect
      <4> QED BY <4>2, <4>3
    <3> QED BY <1>6, <3>1, <3>2 DEF SkipUnledgered
  <2>3. Good
    BY <1>0, <2>1, <2>2
  <2> QED BY <1>a, <2>3
<1>7. ASSUME NEW t \in Threads, NEW g \in Gross, CommitClose(t, g)
      PROVE  EventInv'
  <2>0. PICK i \in cur : \E e :
          /\ e.pos = FindOpen(i.sym) /\ e.kind = "close"
          /\ closeEvs' = closeEvs \cup {e}
          /\ status' = [status EXCEPT ![e.pos] = "closed"]
          /\ flight' = {e}
    BY <1>7 DEF CommitClose
  <2>1. PICK e :
          /\ e.pos = FindOpen(i.sym) /\ e.kind = "close"
          /\ closeEvs' = closeEvs \cup {e}
          /\ status' = [status EXCEPT ![e.pos] = "closed"]
          /\ flight' = {e}
    BY <2>0
  <2>2. e.pos \in Pos /\ status[e.pos] = "open"
    BY <2>1, FindOpenIsOpen DEF LockInv, OpenOn
  <2>3. phase = "up" /\ flight = {} /\ UNCHANGED <<phase, jnl, applied, openEvs>>
    BY <1>7 DEF CommitClose, Holding, Running, brokerVars, envVars
  <2>4. /\ \A f \in closeEvs : f.pos # e.pos
        /\ EventKey(e) \notin jnl.ids \cup applied
    BY <1>0, <2>1, <2>2 DEF EventKey
  <2>5. \A f \in closeEvs : EventKey(f) \in jnl.ids /\ EventKey(f) \in applied
    BY <1>0, <2>3
  <2>6. Good
    BY <1>0, <2>1, <2>2, <2>3, <2>4, <2>5
  <2> QED BY <1>a, <2>6
<1>8. ASSUME NEW t \in Threads, ApplyClose(t)
      PROVE  EventInv'
  <2>1. PICK e \in flight : ApplyJournalClose(e)
    BY <1>8 DEF ApplyClose
  <2>2. /\ phase = "up" /\ flight' = {}
        /\ UNCHANGED <<phase, status, closeEvs, openEvs>>
    BY <1>8 DEF ApplyClose, Holding, Running, dbVars, envVars
  <2>3. /\ EventKey(e) \notin applied /\ ram[e.sym] # NoRow
        /\ e \in closeEvs /\ e \in EventOf({"close"}) /\ EventKey(e) = <<"close", e.pos>>
    BY <1>0, <2>1, <2>2 DEF RowInv
  <2>4. /\ applied' = applied \cup {<<"close", e.pos>>}
        /\ jnl'.ids = jnl.ids \cup {<<"close", e.pos>>}
    BY <2>1, <2>3, ApplyEffect
  <2>5. \A f \in closeEvs : EventKey(f) \in jnl'.ids /\ EventKey(f) \in applied'
    BY <1>0, <2>1, <2>2, <2>3, <2>4
  <2>6. Good
    BY <1>0, <2>2, <2>3, <2>4, <2>5
  <2> QED BY <1>a, <2>6
<1>9. ASSUME NEW t \in Threads, NEW s \in Symbols, NEW f \in FundingTargets,
             AccrueFunding(t, s, f)
      PROVE  EventInv'
  <2>1. jnl'.ids = jnl.ids
    BY <1>9, FundingType
  <2>2. UNCHANGED <<status, closeEvs, openEvs, flight, applied, phase>>
    BY <1>9 DEF AccrueFunding, threadVars, dbVars, envVars
  <2>3. Good
    BY <1>0, <2>1, <2>2
  <2> QED BY <1>a, <2>3
<1>10. CASE Crash
  <2>1. /\ phase' = "down" /\ applied' = {} /\ flight' = {}
        /\ UNCHANGED <<jnl, status, closeEvs, openEvs>>
    BY <1>10 DEF Crash, dbVars
  <2>2. Good
    BY <1>0, <2>1
  <2> QED BY <1>a, <2>2
<1>11. CASE Restart
  <2>1. /\ flight' = {} /\ applied' = jnl.ids /\ Unjournaled = {}
        /\ UNCHANGED <<jnl, status, closeEvs, openEvs>>
    BY <1>11 DEF Restart, threadVars, dbVars, LockInv, Free, Threads, Main, Exit
  <2>2. \A e \in closeEvs : EventKey(e) \in jnl.ids
    BY <2>1, MissingAreCloses
  <2>3. Good
    BY <1>0, <2>1, <2>2
  <2> QED BY <1>a, <2>3
<1>12. ASSUME NEW e \in Unjournaled, Recover(e)
      PROVE  EventInv'
  <2>1. e \in closeEvs /\ e \in EventOf({"open", "close"})
    BY MissingAreCloses, DurableType DEF Unjournaled
  <2>2. jnl'.ids = jnl.ids \cup {<<"close", e.pos>>}
    BY <1>12, <2>1, RecordType DEF Recover
  <2>3. phase = "down" /\ UNCHANGED <<phase, flight, applied, status, closeEvs, openEvs>>
    BY <1>12 DEF Recover, threadVars, brokerVars, dbVars, envVars
  <2>4. Good
    BY <1>0, <2>1, <2>2, <2>3
  <2> QED BY <1>a, <2>4
<1> QED BY <1>1, <1>2, <1>3, <1>4, <1>5, <1>6, <1>7, <1>8, <1>9, <1>10, <1>11, <1>12,
           LoudSteps
---------------------------------------------------------------------------
(* Whose row, whose funding, and when reconciliation trips.                *)

\* Fills and deals move at a fill only, and RAM only at the steps named.
LEMMA FillsFrame ==
  ASSUME [Next]_vars
  PROVE  \/ fills' = fills /\ deal' = deal
         \/ \E s \in Symbols, k \in Terms : FillEntry(s, k)
<1>1. CASE RecordEntry \/ RecordEntryFails \/ StampEntry \/ MirrorEntry \/ MirrorEntryFails
  BY <1>1 DEF RecordEntry, RecordEntryFails, StampEntry, MirrorEntry, MirrorEntryFails,
              envVars, dbVars
<1>2. CASE \E t \in Threads : Prepare(t) \/ TakeBook(t) \/ Commit(t)
  BY <1>2 DEF Prepare, PeekTriggers, ScanExpiries, PrepareManual, TakeBook, Commit,
     DropStale, SkipUnledgered, BeginExit, CommitClose, GiveUpExit, SettleRaises, ApplyClose,
     LeaveBook, envVars, dbVars
<1>3. CASE \E t \in Threads, s \in Symbols, f \in FundingTargets : AccrueFunding(t, s, f)
  BY <1>3 DEF AccrueFunding, envVars, dbVars
<1>4. CASE Reconcile \/ ResetKillSwitch \/ (\E p \in Pos : Expire(p)) \/ Crash \/ Restart
           \/ (\E e \in Unjournaled : Recover(e)) \/ UNCHANGED vars
  BY <1>4 DEF Reconcile, ResetKillSwitch, Expire, Crash, Restart, Recover, vars, envVars, dbVars
<1> QED BY <1>1, <1>2, <1>3, <1>4 DEF Next, Entry

\* Counters only grow, and what a fill is for is settled when it is made.
LEMMA Counters ==
  ASSUME IInv, [Next]_vars
  PROVE  /\ faults \in Nat /\ faults' \in Nat /\ crashes \in Nat /\ crashes' \in Nat
         /\ faults' >= faults /\ crashes' >= crashes
         /\ fills \in Nat /\ fills' >= fills /\ fills' \in Nat
         /\ \A p \in Pos : p <= fills => deal'[p] = deal[p]
<1>0. /\ faults \in Nat /\ crashes \in Nat /\ fills \in Nat /\ deal \in [Pos -> Deal]
  BY BoundsAssumption DEF IInv, TypeOK
<1>1. faults' = faults \/ faults' = faults + 1
  BY DEF Next, Entry, FillEntry, RecordEntry, RecordEntryFails, StampEntry, MirrorEntry,
     MirrorEntryFails, Prepare, PeekTriggers, ScanExpiries, PrepareManual, TakeBook, Commit,
     DropStale, SkipUnledgered, BeginExit, CommitClose, GiveUpExit, SettleRaises, ApplyClose,
     LeaveBook, AccrueFunding, Reconcile, ResetKillSwitch, Expire, Crash, Restart, Recover,
     Fault, vars, envVars
<1>2. crashes' = crashes \/ crashes' = crashes + 1
  BY DEF Next, Entry, FillEntry, RecordEntry, RecordEntryFails, StampEntry, MirrorEntry,
     MirrorEntryFails, Prepare, PeekTriggers, ScanExpiries, PrepareManual, TakeBook, Commit,
     DropStale, SkipUnledgered, BeginExit, CommitClose, GiveUpExit, SettleRaises, ApplyClose,
     LeaveBook, AccrueFunding, Reconcile, ResetKillSwitch, Expire, Crash, Restart, Recover,
     vars, envVars
<1>3. \/ fills' = fills /\ deal' = deal
      \/ \E s \in Symbols, k \in Terms : FillEntry(s, k)
  BY FillsFrame
<1>4. fills' = fills \/ fills' = fills + 1
  BY <1>3 DEF FillEntry
<1>5. ASSUME NEW p \in Pos, p <= fills
      PROVE  deal'[p] = deal[p]
  <2>1. CASE deal' = deal
    BY <2>1
  <2>2. ASSUME NEW s \in Symbols, NEW k \in Terms, FillEntry(s, k)
        PROVE  deal'[p] = deal[p]
    <3>1. deal' = [deal EXCEPT ![fills + 1] = [sym |-> s, terms |-> k]]
      BY <2>2 DEF FillEntry
    <3>2. p # fills + 1
      BY <1>0, <1>5 DEF Pos
    <3> QED BY <1>0, <3>1, <3>2
  <2> QED BY <1>3, <2>1, <2>2
<1>6. fills' \in Nat /\ fills' >= fills
  BY <1>0, <1>4
<1>7. faults' \in Nat /\ faults' >= faults /\ crashes' \in Nat /\ crashes' >= crashes
  BY <1>0, <1>1, <1>2
<1> QED BY <1>0, <1>5, <1>6, <1>7

\* Funding is booked by an accrual only.
LEMMA PaidFrame ==
  ASSUME [Next]_vars
  PROVE  \/ paid' = paid
         \/ \E t \in Threads, s \in Symbols, f \in FundingTargets : AccrueFunding(t, s, f)
BY DEF Next, Entry, FillEntry, RecordEntry, RecordEntryFails, StampEntry, MirrorEntry,
   MirrorEntryFails, Prepare, PeekTriggers, ScanExpiries, PrepareManual, TakeBook, Commit,
   DropStale, SkipUnledgered, BeginExit, CommitClose, GiveUpExit, SettleRaises, ApplyClose,
   LeaveBook, Reconcile, ResetKillSwitch, Expire, Crash, Restart, Recover, vars

\* An entry being placed stays so until the ledger answers or the desk dies,
\* and starts with a fill.
LEMMA FilledStays ==
  ASSUME IInv, [Next]_vars
  PROVE  /\ HolderAt({"filled"}) /\ ~RecordEntry /\ ~Crash =>
              fills' = fills /\ (HolderAt({"filled"})' \/ faults' > 0)
         /\ HolderAt({"filled"})' =>
              \/ HolderAt({"filled"}) /\ fills' = fills
              \/ \E s \in Symbols, k \in Terms : FillEntry(s, k)
<1> USE DEF Threads, Main, Exit, Free
<1>0. /\ lock \in Threads \cup {Free} /\ faults \in Nat /\ LockInv
      /\ pc \in [Threads -> OutsideLock \cup ExitPhases \cup EntryPhases]
  BY DEF IInv, TypeOK
<1>1. HolderAt({"filled"}) <=> lock = Main /\ pc[Main] = "filled"
  BY <1>0 DEF LockInv, HolderAt, EntryPhases
<1>2. HolderAt({"filled"})' <=> lock' \in Threads /\ pc'[lock'] = "filled"
  BY DEF HolderAt
<1>3. CASE \E s \in Symbols, k \in Terms : FillEntry(s, k)
  BY <1>1, <1>3 DEF FillEntry
<1>4. CASE RecordEntry \/ StampEntry \/ MirrorEntry \/ MirrorEntryFails \/ RecordEntryFails
  <2>1. fills' = fills /\ pc[Main] \in {"filled", "recorded", "stamped"} /\ lock = Main
    BY <1>4 DEF RecordEntry, StampEntry, MirrorEntry, MirrorEntryFails, RecordEntryFails,
                Holding, Running, envVars
  <2>2. \/ lock' = Free
        \/ lock' = Main /\ pc'[Main] \in {"recorded", "stamped"}
    BY <1>0, <1>4, <2>1 DEF RecordEntry, StampEntry, MirrorEntry, MirrorEntryFails,
       RecordEntryFails, Holding, Running, Release, Goto
  <2>3. pc[Main] = "filled" /\ ~RecordEntry => faults' > 0
    BY <1>0, <1>4 DEF StampEntry, MirrorEntry, MirrorEntryFails, RecordEntryFails,
                      Holding, Running, Fault
  <2> QED BY <1>1, <1>2, <2>1, <2>2, <2>3
<1>5. ASSUME NEW t \in Threads, Prepare(t)
      PROVE  /\ fills' = fills /\ lock' = lock
             /\ lock \in Threads => (pc'[lock] = "filled" <=> pc[lock] = "filled")
  <2>1. PICK to \in OutsideLock : pc' = [pc EXCEPT ![t] = to]
    BY <1>5 DEF Prepare, PeekTriggers, ScanExpiries, PrepareManual, Goto, OutsideLock
  <2>2. fills' = fills /\ lock' = lock /\ pc[t] \in OutsideLock
    BY <1>5 DEF Prepare, PeekTriggers, ScanExpiries, PrepareManual, Running, OutsideLock, envVars
  <2> QED BY <1>0, <2>1, <2>2 DEF OutsideLock
<1>6. ASSUME NEW t \in Threads, TakeBook(t)
      PROVE  fills' = fills /\ lock = Free /\ lock' = t /\ pc'[t] = "exits"
  BY <1>0, <1>6 DEF TakeBook, Goto, envVars
<1>7. ASSUME NEW t \in Threads, Commit(t)
      PROVE  /\ fills' = fills /\ lock = t /\ pc[t] \in ExitPhases
             /\ lock' = Free \/ (lock' = t /\ pc'[t] \in ExitPhases)
  BY <1>0, <1>7 DEF Commit, DropStale, SkipUnledgered, BeginExit, CommitClose, GiveUpExit,
     SettleRaises, ApplyClose, LeaveBook, Holding, Running, Release, Goto, ExitPhases, envVars
<1>8. CASE \E t \in Threads, s \in Symbols, f \in FundingTargets : AccrueFunding(t, s, f)
  BY <1>1, <1>2, <1>8 DEF AccrueFunding, threadVars, envVars, HolderAt
<1>9. CASE Crash
  BY <1>2, <1>9 DEF Crash
<1>10. CASE UNCHANGED <<lock, pc, fills>>
  BY <1>1, <1>2, <1>10 DEF HolderAt
<1>11. Reconcile \/ ResetKillSwitch \/ (\E p \in Pos : Expire(p)) \/ Restart
         \/ (\E e \in Unjournaled : Recover(e)) \/ UNCHANGED vars => UNCHANGED <<lock, pc, fills>>
  BY DEF Reconcile, ResetKillSwitch, Expire, Restart, Recover, vars, threadVars, envVars
<1>12. CASE \E t \in Threads : Prepare(t)
  <2>1. PICK t \in Threads : Prepare(t)
    BY <1>12
  <2>2. /\ fills' = fills /\ lock' = lock
        /\ lock \in Threads => (pc'[lock] = "filled" <=> pc[lock] = "filled")
    BY <1>5, <2>1
  <2>3. CASE lock = Free
    BY <1>0, <1>1, <1>2, <2>2, <2>3
  <2>4. CASE lock # Free
    BY <1>0, <1>2, <2>2, <2>4 DEF HolderAt
  <2> QED BY <2>3, <2>4
<1>13. CASE \E t \in Threads : TakeBook(t)
  BY <1>1, <1>2, <1>6, <1>13
<1>14. CASE \E t \in Threads : Commit(t)
  BY <1>1, <1>2, <1>7, <1>14 DEF ExitPhases
<1> QED BY <1>3, <1>4, <1>8, <1>9, <1>10, <1>11, <1>12, <1>13, <1>14 DEF Next, Entry

\* Rows that stay, with the deals, statuses and close in flight as they were,
\* stay explained.
LEMMA HeldFrame ==
  ASSUME IInv, HeldInv, [Next]_vars, ~RecordEntry, ~Crash, UNCHANGED <<status, flight>>,
         \A s \in Held' : s \in Held /\ ram'[s].pos = ram[s].pos
  PROVE  HeldInv'
<1> SUFFICES ASSUME NEW s \in Held'
             PROVE  LET p == ram'[s].pos IN
                      /\ p \in Pos /\ p <= fills' /\ deal'[p].sym = s
                      /\ status[p] = "closed" => \E e \in flight : e.pos = p /\ e.sym = s
                      /\ status[p] = "none" => faults' > 0 \/ (HolderAt({"filled"})' /\ p = fills')
  BY DEF HeldInv
<1>1. s \in Held /\ ram'[s].pos = ram[s].pos
  OBVIOUS
<1>2. LET p == ram[s].pos IN
        /\ p \in Pos /\ p <= fills /\ deal[p].sym = s
        /\ status[p] = "closed" => \E e \in flight : e.pos = p /\ e.sym = s
        /\ status[p] = "none" => faults > 0 \/ (HolderAt({"filled"}) /\ p = fills)
  BY <1>1 DEF HeldInv
<1>3. ram[s].pos <= fills' /\ deal'[ram[s].pos] = deal[ram[s].pos]
  BY <1>2, Counters DEF Pos
<1>4. faults > 0 => faults' > 0
  BY Counters
<1> QED BY <1>1, <1>2, <1>3, <1>4, FilledStays

\* Every step keeps rows explained: each is of a fill on its symbol, which the
\* ledger has unless it is being placed or a write failed.
LEMMA NextHeld ==
  ASSUME IInv, HeldInv, [Next]_vars
  PROVE  HeldInv'
<1> USE BookFacts
<1>f. RecordEntry => status[fills] = "none" /\ fills \in Pos /\ lock = Main /\ pc[Main] = "filled"
                     /\ HolderAt({"filled"})
  BY DEF RecordEntry, Holding, Running, EntryInv, HolderAt, Threads, Main, Pos
<1>r. RecordEntry => status' # status
  BY <1>f DEF RecordEntry
<1>c. Crash => phase' # phase
  BY DEF Crash
<1>1. CASE UNCHANGED bookVars
  BY <1>1, <1>r, <1>c, HeldFrame DEF bookVars, dbVars, Held
<1>2. ASSUME NEW s \in Symbols, NEW k \in Terms, FillEntry(s, k)
      PROVE  HeldInv'
  <2>1. /\ status' = status /\ flight' = flight /\ flight = {} /\ lock = Free
        /\ fills' = fills + 1 /\ fills + 1 \in Pos
        /\ ram' = [ram EXCEPT ![s] = [pos |-> fills + 1, terms |-> k, funding |-> 0]]
        /\ deal' = [deal EXCEPT ![fills + 1] = [sym |-> s, terms |-> k]]
        /\ lock' = Main /\ pc'[Main] = "filled"
    BY <1>2, BoundsAssumption DEF FillEntry, Free, Threads, Main, Exit, Pos, Goto, TypeOK
  <2>2. status[fills + 1] = "none"
    BY <2>1 DEF EntryInv
  <2>3. HolderAt({"filled"})'
    BY <2>1 DEF HolderAt, Threads
  <2>4. ASSUME NEW r \in Held', r = s
        PROVE  LET p == ram'[r].pos IN p = fills + 1 /\ deal'[p].sym = r
    BY <2>1, <2>4
  <2>5. ASSUME NEW r \in Held', r # s
        PROVE  LET p == ram'[r].pos IN
                 /\ p \in Pos /\ p <= fills' /\ deal'[p].sym = r
                 /\ status[p] # "closed"
                 /\ status[p] = "none" => faults' > 0
    <3>1. r \in Held /\ ram'[r] = ram[r] /\ r \in Symbols
      BY <2>1, <2>5 DEF Held
    <3>2. LET p == ram[r].pos IN
            /\ p \in Pos /\ p <= fills /\ deal[p].sym = r
            /\ status[p] = "closed" => FALSE
            /\ status[p] = "none" => faults > 0
      BY <2>1, <3>1 DEF HeldInv, HolderAt, Free, Threads, Main, Exit
    <3>3. faults > 0 => faults' > 0
      BY Counters
    <3>4. deal'[ram[r].pos] = deal[ram[r].pos] /\ ram[r].pos <= fills'
      BY <3>2, Counters DEF Pos
    <3> QED BY <3>1, <3>2, <3>3, <3>4
  <2> QED BY <2>1, <2>2, <2>3, <2>4, <2>5 DEF HeldInv
<1>3. CASE RecordEntry
  <2>1. /\ status' = [status EXCEPT ![fills] = "open"] /\ fills' = fills
        /\ UNCHANGED <<ram, deal, flight, faults>>
    BY <1>3 DEF RecordEntry, brokerVars, envVars
  <2>2. Held' = Held
    BY <2>1 DEF Held
  <2> QED BY <1>3, <1>f, <2>1, <2>2 DEF HeldInv
<1>4. CASE StampEntry \/ MirrorEntry \/ \E e \in Unjournaled : Recover(e)
  <2>1. UNCHANGED <<phase, flight, ram, status>>
    BY <1>4 DEF StampEntry, MirrorEntry, Recover, brokerVars, dbVars, envVars, threadVars
  <2> QED BY <1>r, <1>c, <2>1, HeldFrame DEF Held
<1>5. ASSUME NEW t \in Threads, NEW i \in prep[t], SkipUnledgered(t, i)
      PROVE  HeldInv'
  <2>1. UNCHANGED <<phase, flight, status>>
    BY <1>5 DEF SkipUnledgered, dbVars, envVars
  <2>2. ram' = ram \/ ram' = [ram EXCEPT ![i.sym] = NoRow]
    <3>1. CASE UNCHANGED brokerVars
      BY <3>1 DEF brokerVars
    <3>2. ASSUME NEW e \in LatestMatches(i.sym), ApplyJournalClose(e)
          PROVE  ram' = ram \/ ram' = [ram EXCEPT ![i.sym] = NoRow]
      <4>1. e \in EventOf({"close"}) /\ e.sym = i.sym
        BY DEF LatestMatches, MatchingCloses
      <4> QED BY <3>2, <4>1, ApplyEffect
    <3> QED BY <1>5, <3>1, <3>2 DEF SkipUnledgered
  <2>3. \A s \in Held' : s \in Held /\ ram'[s].pos = ram[s].pos
    BY <2>2 DEF Held, NoRow
  <2> QED BY <1>r, <1>c, <2>1, <2>3, HeldFrame
<1>6. ASSUME NEW t \in Threads, NEW g \in Gross, CommitClose(t, g)
      PROVE  HeldInv'
  <2>1. PICK i \in cur :
          /\ status' = [status EXCEPT ![FindOpen(i.sym)] = "closed"]
          /\ flight' = {[kind |-> "close", sym |-> i.sym, pos |-> FindOpen(i.sym),
                         gross |-> g, funding |-> ram[i.sym].funding,
                         reason |-> i.reason, seen |-> i.seen]}
    BY <1>6 DEF CommitClose
  <2>2. \E x \in flight' : x.pos = FindOpen(i.sym) /\ x.sym = i.sym
    <3> DEFINE c == [kind |-> "close", sym |-> i.sym, pos |-> FindOpen(i.sym),
                     gross |-> g, funding |-> ram[i.sym].funding,
                     reason |-> i.reason, seen |-> i.seen]
    <3>1. c \in flight' /\ c.pos = FindOpen(i.sym) /\ c.sym = i.sym
      BY <2>1
    <3> QED BY <3>1
  <2>3. FindOpen(i.sym) \in Pos /\ deal[FindOpen(i.sym)].sym = i.sym
    BY <2>1, FindOpenIsOpen DEF LockInv, OpenOn
  <2>4. UNCHANGED <<ram, deal, fills, faults>> /\ lock = t /\ pc[t] = "accruing" /\ flight = {}
    BY <1>6 DEF CommitClose, brokerVars, envVars, Holding, Running
  <2>5. ~HolderAt({"filled"})
    BY <2>4 DEF HolderAt
  <2>6. Held' = Held
    BY <2>4 DEF Held
  <2> SUFFICES ASSUME NEW s \in Held
               PROVE  LET p == ram[s].pos IN
                        /\ p \in Pos /\ p <= fills /\ deal[p].sym = s
                        /\ status'[p] = "closed" => \E x \in flight' : x.pos = p /\ x.sym = s
                        /\ status'[p] = "none" => faults > 0
    BY <2>4, <2>6 DEF HeldInv
  <2>7. LET p == ram[s].pos IN
          /\ p \in Pos /\ p <= fills /\ deal[p].sym = s
          /\ status[p] # "closed" /\ (status[p] = "none" => faults > 0)
    BY <2>4, <2>5 DEF HeldInv
  <2>8. CASE ram[s].pos = FindOpen(i.sym)
    BY <2>1, <2>2, <2>3, <2>7, <2>8
  <2>9. CASE ram[s].pos # FindOpen(i.sym)
    BY <2>1, <2>7, <2>9
  <2> QED BY <2>8, <2>9
<1>7. ASSUME NEW t \in Threads, ApplyClose(t)
      PROVE  HeldInv'
  <2>1. PICK e \in flight : ApplyJournalClose(e)
    BY <1>7 DEF ApplyClose
  <2>2. /\ phase = "up" /\ flight' = {} /\ lock = t /\ pc[t] = "settled"
        /\ UNCHANGED <<phase, status, deal, fills, faults>>
    BY <1>7 DEF ApplyClose, Holding, Running, dbVars, envVars
  <2>3. ram' = [ram EXCEPT ![e.sym] = NoRow] /\ \A x \in flight : x = e
    <3>1. EventKey(e) \notin applied /\ e \in EventOf({"close"})
      BY <2>1, <2>2 DEF EventInv, SettledOnce
    <3>2. ram[e.sym] # NoRow /\ \A x \in flight : x = e
      BY <2>1 DEF RowInv, EventInv
    <3> QED BY <2>1, <3>1, <3>2, ApplyEffect
  <2>4. ASSUME NEW s \in Held'
        PROVE  LET p == ram'[s].pos IN
                 /\ p \in Pos /\ p <= fills /\ deal[p].sym = s
                 /\ status[p] # "closed" /\ (status[p] = "none" => faults > 0)
    <3>1. s \in Held /\ ram'[s] = ram[s] /\ s # e.sym
      BY <2>3, <2>4 DEF Held, NoRow
    <3>2. ~HolderAt({"filled"})
      BY <2>2 DEF HolderAt
    <3> QED BY <2>3, <3>1, <3>2 DEF HeldInv
  <2> QED BY <2>2, <2>4 DEF HeldInv
<1>8. ASSUME NEW t \in Threads, NEW s \in Symbols, NEW f \in FundingTargets,
             AccrueFunding(t, s, f)
      PROVE  HeldInv'
  <2>1. UNCHANGED <<phase, flight, status>> /\ ram' = [ram EXCEPT ![s].funding = f]
    BY <1>8 DEF AccrueFunding, threadVars, dbVars, envVars
  <2>2. \A r \in Symbols : ram'[r].pos = ram[r].pos
    BY <2>1 DEF Row
  <2>3. \A r \in Held' : r \in Held /\ ram'[r].pos = ram[r].pos
    BY <2>2 DEF Held
  <2> QED BY <1>r, <1>c, <2>1, <2>3, HeldFrame
<1>9. CASE Crash
  <2>1. Held' = {}
    BY <1>9 DEF Crash, Held, NoRow
  <2> QED BY <2>1 DEF HeldInv
<1>10. CASE Restart
  <2>1. UNCHANGED <<status, deal, fills>>
    BY <1>10 DEF Restart, dbVars
  <2>2. ASSUME NEW s \in Held'
        PROVE  LET p == ram'[s].pos IN
                 p \in Pos /\ p <= fills /\ deal[p].sym = s /\ status[p] = "open"
    <3>1. s \in Symbols /\ OpenOn(s) # {} /\ ram'[s].pos = FindOpen(s)
      BY <1>10, <2>2 DEF Restart, Held, HydratedRow, NoRow
    <3>2. FindOpen(s) \in Pos /\ status[FindOpen(s)] = "open" /\ deal[FindOpen(s)].sym = s
      BY <3>1, FindOpenIsOpen DEF OpenOn
    <3>3. ~(FindOpen(s) > fills)
      BY <3>2 DEF EntryInv
    <3> QED BY <3>1, <3>2, <3>3 DEF Pos
  <2> QED BY <2>1, <2>2 DEF HeldInv
<1> QED BY <1>1, <1>2, <1>3, <1>4, <1>5, <1>6, <1>7, <1>8, <1>9, <1>10, LoudSteps

\* Reconciliation finds two sides that agree unless a write has failed.
LEMMA NextTrip ==
  ASSUME IInv, HeldInv, NoFalseTrip, [Next]_vars
  PROVE  NoFalseTrip'
<1> USE BookFacts
<1>1. CASE Reconcile
  <2> SUFFICES ASSUME faults = 0 PROVE FALSE
    BY <1>1, Counters DEF Reconcile, NoFalseTrip
  <2>1. lock = Free /\ phase = "up" /\ flight = {} /\ ~HolderAt({"filled"})
    BY <1>1 DEF Reconcile, Running, HolderAt, Free, Threads, Main, Exit
  <2>2. ASSUME NEW s \in Held PROVE ram[s].pos \in OpenOn(s) /\ s \in Symbols
    BY <2>1 DEF HeldInv, OpenOn, Held
  <2>3. ASSUME NEW s \in Symbols, OpenOn(s) # {}
        PROVE  ram[s].pos = FindOpen(s) /\ ram[s].terms = deal[FindOpen(s)].terms
               /\ FindOpen(s) \in Pos
    BY <2>1, <2>3, FindOpenIsOpen DEF OpenOn, RowInv, OpenPositionsAreWatched
  <2>4. Held = Ledgered
    BY <2>2, <2>3 DEF Held, Ledgered, Pos
  <2> QED BY <1>1, <2>3, <2>4 DEF Reconcile, Ledgered
<1>2. CASE ~Reconcile
  <2>1. tripped' => tripped
    BY <1>2 DEF Next, Entry, FillEntry, RecordEntry, RecordEntryFails, StampEntry, MirrorEntry,
       MirrorEntryFails, Prepare, PeekTriggers, ScanExpiries, PrepareManual, TakeBook, Commit,
       DropStale, SkipUnledgered, BeginExit, CommitClose, GiveUpExit, SettleRaises, ApplyClose,
       LeaveBook, AccrueFunding, ResetKillSwitch, Expire, Crash, Restart, Recover,
       vars, envVars
  <2> QED BY <2>1, Counters DEF NoFalseTrip
<1> QED BY <1>1, <1>2

---------------------------------------------------------------------------
(* What a replayed event does to each account of the journal.              *)

\* One iteration of replay_events, field by field.
LEMMA ReplayFields ==
  ASSUME NEW j \in Journal, NEW e \in Event
  PROVE  /\ e.kind = "open" =>
              /\ Replay(j, e).cash = j.cash - EntryFee /\ Replay(j, e).realised = j.realised
              /\ Replay(j, e).accrued = j.accrued /\ Replay(j, e).total = j.total
              /\ Replay(j, e).open = j.open
         /\ e.kind = "funding" =>
              /\ Replay(j, e).cash = j.cash - e.funding /\ Replay(j, e).realised = j.realised
              /\ Replay(j, e).accrued = j.accrued + e.funding /\ Replay(j, e).total = j.total
              /\ Replay(j, e).open = [j.open EXCEPT ![e.sym] = @ + e.funding]
         /\ e.kind = "close" =>
              /\ Replay(j, e).cash = j.cash + e.gross - ExitFee
              /\ Replay(j, e).realised = j.realised + e.gross - ExitFee - EntryFee - e.funding
              /\ Replay(j, e).accrued = j.accrued /\ Replay(j, e).total = j.total + e.funding
              /\ Replay(j, e).open = [j.open EXCEPT ![e.sym] = @ - e.funding]
<1>1. CASE e.kind = "open"
  BY <1>1 DEF Replay, Journal
<1>2. CASE e.kind = "funding"
  BY <1>2 DEF Replay, Journal
<1>3. CASE e.kind = "close"
  BY <1>3 DEF Replay, Journal
<1> QED BY <1>1, <1>2, <1>3 DEF Event, EventOf

\* Recording a close the journal has changes nothing, and one it lacks is
\* replayed.
LEMMA RecordClose ==
  ASSUME NEW j \in Journal, NEW e \in EventOf({"close"})
  PROVE  /\ EventKey(e) \in j.ids => Record(j, e) = j
         /\ EventKey(e) \notin j.ids =>
              /\ Record(j, e).cash = j.cash + e.gross - ExitFee
              /\ Record(j, e).realised = j.realised + e.gross - ExitFee - EntryFee - e.funding
              /\ Record(j, e).accrued = j.accrued /\ Record(j, e).total = j.total + e.funding
              /\ Record(j, e).open = [j.open EXCEPT ![e.sym] = @ - e.funding]
<1>1. e \in Event /\ e.kind = "close"
  BY DEF Event, EventOf
<1>2. Replay(j, e) \in Journal
  BY <1>1, ReplayType
<1>3. EventKey(e) \in j.ids => Record(j, e) = j
  BY DEF Record
<1>4. CASE EventKey(e) \notin j.ids
  <2> DEFINE r == Replay(j, e)
  <2>1. Record(j, e) = [r EXCEPT !.ids = @ \cup {EventKey(e)}]
    BY <1>4 DEF Record
  <2>2. /\ Record(j, e).cash = r.cash /\ Record(j, e).realised = r.realised
        /\ Record(j, e).accrued = r.accrued /\ Record(j, e).total = r.total
        /\ Record(j, e).open = r.open
    BY <1>2, <2>1 DEF Journal
  <2> QED BY <1>1, <1>4, <2>2, ReplayFields
<1> QED BY <1>3, <1>4

---------------------------------------------------------------------------
(* Whose funding the journal holds. *)

\* JournalFunding and SpareFunding, of given rows, funding and missing closes.
Unopened(st, dl, s) == \A q \in Pos : ~(st[q] = "open" /\ dl[q].sym = s)
Owed(st, dl, op, pd, miss) ==
  /\ \A p \in Pos : st[p] = "open" => op[dl[p].sym] = pd[p]
  /\ \A e \in miss : Unopened(st, dl, e.sym) /\ op[e.sym] = e.funding
Spare(st, dl, op, pd, miss, rows) ==
  \A s \in Symbols : Unopened(st, dl, s) /\ (\A e \in miss : e.sym # s) =>
    op[s] = IF rows[s].pos = 0 THEN 0 ELSE pd[rows[s].pos]
Missing(evs, ids) == {e \in evs : EventKey(e) \notin ids}

\* Both are about the closes missing from the journal.
LEMMA OwedNow ==
  ASSUME IInv
  PROVE  /\ JournalFunding => Owed(status, deal, jnl.open, paid, Missing(closeEvs, jnl.ids))
         /\ SpareFunding =>
              Spare(status, deal, jnl.open, paid, Missing(closeEvs, jnl.ids), ram)
<1>1. Unjournaled = Missing(closeEvs, jnl.ids)
  BY MissingAreCloses DEF Missing
<1>2. \A s : OpenOn(s) = {} <=> Unopened(status, deal, s)
  BY DEF OpenOn, Unopened
<1> QED BY <1>1, <1>2 DEF JournalFunding, SpareFunding, Owed, Spare

\* And so they are after a step.
LEMMA OwedNext ==
  ASSUME IInv'
  PROVE  /\ Owed(status', deal', jnl'.open, paid', Missing(closeEvs', jnl'.ids)) => JournalFunding'
         /\ Spare(status', deal', jnl'.open, paid', Missing(closeEvs', jnl'.ids), ram')
              => SpareFunding'
<1>1. Unjournaled' = Missing(closeEvs', jnl'.ids)
  BY DEF IInv, EventInv, OpenMirrorsAreJournaled, Unjournaled, Durable, EventKey, OpenEvent,
         Missing
<1>2. \A s : OpenOn(s)' = {} <=> Unopened(status', deal', s)
  BY DEF OpenOn, Unopened
<1> QED BY <1>1, <1>2 DEF JournalFunding, SpareFunding, Owed, Spare

\* While the desk is up, the journal misses the close in flight and no other.
LEMMA MissingIsInFlight ==
  ASSUME IInv, phase = "up"
  PROVE  Missing(closeEvs, jnl.ids) = flight
BY DEF IInv, EventInv, SettledOnce, JournaledCloses, Missing

\* What an accrual does, and where it can happen.
LEMMA AccrueEffect ==
  ASSUME IInv, HeldInv, NEW t \in Threads, NEW s \in Symbols, NEW f \in FundingTargets,
         AccrueFunding(t, s, f), NEW step, step = f - ram[s].funding
  PROVE  /\ ram[s].pos \in Pos /\ ram[s].pos <= fills /\ deal[ram[s].pos].sym = s
         /\ status[ram[s].pos] # "closed" /\ (status[ram[s].pos] = "none" => faults > 0)
         /\ s \in Held /\ phase = "up" /\ flight = {} /\ ~HolderAt({"filled"}) /\ step \in Int
         /\ ram' = [ram EXCEPT ![s].funding = f]
         /\ paid' = [paid EXCEPT ![ram[s].pos] = @ + step]
         /\ jnl'.open[s] = jnl.open[s] + step /\ jnl'.ids = jnl.ids
         /\ \A x \in Symbols : x # s => jnl'.open[x] = jnl.open[x]
         /\ jnl'.cash = jnl.cash - step /\ jnl'.realised = jnl.realised
         /\ jnl'.accrued = jnl.accrued + step /\ jnl'.total = jnl.total
         /\ UNCHANGED <<threadVars, dbVars, envVars>>
<1> USE BookFacts
<1> DEFINE p == ram[s].pos
           e == [kind |-> "funding", sym |-> s, pos |-> p, gross |-> 0,
                 funding |-> step, reason |-> "none", seen |-> p]
<1>1. /\ s \in Held /\ phase = "up"
      /\ (lock = Free \/ (lock = t /\ pc[t] = "accruing"))
      /\ ram' = [ram EXCEPT ![s].funding = f]
      /\ paid' = [paid EXCEPT ![p] = @ + step]
      /\ jnl' = Replay(jnl, e)
      /\ UNCHANGED <<threadVars, dbVars, envVars>>
  BY DEF AccrueFunding, Holding, Running
<1>2. flight = {} /\ ~HolderAt({"filled"})
  BY <1>1 DEF HolderAt, Free, Threads, Main, Exit
<1>3. /\ p \in Pos /\ p <= fills /\ deal[p].sym = s /\ status[p] # "closed"
      /\ status[p] = "none" => faults > 0
  BY <1>1, <1>2 DEF HeldInv
<1>4. step \in Int
  BY AmountsAssumption DEF Row
<1>5. e \in Event
  BY <1>3, <1>4 DEF Event, EventOf
<1>6. /\ e.kind = "funding" /\ e.sym = s /\ e.funding = step
      /\ jnl'.ids = jnl.ids
      /\ jnl'.cash = jnl.cash - e.funding /\ jnl'.realised = jnl.realised
      /\ jnl'.accrued = jnl.accrued + e.funding /\ jnl'.total = jnl.total
      /\ jnl'.open = [jnl.open EXCEPT ![e.sym] = @ + e.funding]
  BY <1>1, <1>5, ReplayFields, ReplayType
<1>7. jnl'.open[s] = jnl.open[s] + step /\ \A x \in Symbols : x # s => jnl'.open[x] = jnl.open[x]
  <2>1. jnl.open \in [Symbols -> Int]
    BY DEF Journal
  <2> QED BY <1>6, <2>1
<1>8. jnl'.cash = jnl.cash - step /\ jnl'.accrued = jnl.accrued + step
  BY <1>6
<1> QED BY <1>1, <1>2, <1>3, <1>4, <1>6, <1>7, <1>8

\* What a fill does to the ledger, the journal and RAM.
LEMMA FillEffect ==
  ASSUME IInv, NEW s \in Symbols, NEW k \in Terms, FillEntry(s, k)
  PROVE  /\ fills + 1 \in Pos /\ fills' = fills + 1 /\ status[fills + 1] = "none"
         /\ deal' = [deal EXCEPT ![fills + 1] = [sym |-> s, terms |-> k]]
         /\ ram' = [ram EXCEPT ![s] = [pos |-> fills + 1, terms |-> k, funding |-> 0]]
         /\ jnl'.open = jnl.open /\ jnl'.ids = jnl.ids /\ jnl'.cash = jnl.cash - EntryFee
         /\ jnl'.realised = jnl.realised /\ jnl'.accrued = jnl.accrued
         /\ jnl'.total = jnl.total
         /\ UNCHANGED <<status, closeEvs, openEvs, flight, phase, faults, paid>>
         /\ phase = "up" /\ flight = {}
<1> USE BookFacts
<1>1. fills + 1 \in Pos
  BY BoundsAssumption DEF FillEntry, Pos
<1>2. OpenEvent(fills + 1, s) \in Event /\ OpenEvent(fills + 1, s).kind = "open"
  BY <1>1 DEF OpenEvent, Event, EventOf
<1>3. jnl' = Replay(jnl, OpenEvent(fills + 1, s)) /\ lock \notin Threads /\ phase = "up"
  BY DEF FillEntry, Running, Free, Threads, Main, Exit
<1>4. fills + 1 > fills
  OBVIOUS
<1>5. /\ jnl'.open = jnl.open /\ jnl'.ids = jnl.ids /\ jnl'.cash = jnl.cash - EntryFee
      /\ jnl'.realised = jnl.realised /\ jnl'.accrued = jnl.accrued /\ jnl'.total = jnl.total
  <2> DEFINE e == OpenEvent(fills + 1, s)
  <2> HIDE DEF e
  <2>1. e \in Event /\ e.kind = "open" /\ jnl' = Replay(jnl, e)
    BY <1>2, <1>3 DEF e
  <2> QED BY <2>1, ReplayFields, ReplayType
<1>6. status[fills + 1] = "none" /\ flight = {}
  BY <1>1, <1>3, <1>4 DEF EntryInv
<1> QED BY <1>1, <1>3, <1>5, <1>6 DEF FillEntry

\* Settling a close in the journal: what it does where it was missing.
LEMMA SettleEffect ==
  ASSUME IInv, NEW e \in closeEvs, EventKey(e) \notin jnl.ids, jnl' = Record(jnl, e)
  PROVE  /\ jnl'.open = [jnl.open EXCEPT ![e.sym] = @ - e.funding]
         /\ jnl'.ids = jnl.ids \cup {EventKey(e)}
         /\ jnl'.cash = jnl.cash + e.gross - ExitFee
         /\ jnl'.realised = jnl.realised + e.gross - ExitFee - EntryFee - e.funding
         /\ jnl'.accrued = jnl.accrued /\ jnl'.total = jnl.total + e.funding
         /\ Missing(closeEvs, jnl.ids) = {e} /\ Missing(closeEvs, jnl'.ids) = {}
<1> USE BookFacts
<1>1. e \in EventOf({"close"}) /\ e \in EventOf({"open", "close"})
  BY DEF EventOf
<1>2. /\ jnl'.open = [jnl.open EXCEPT ![e.sym] = @ - e.funding]
      /\ jnl'.cash = jnl.cash + e.gross - ExitFee
      /\ jnl'.realised = jnl.realised + e.gross - ExitFee - EntryFee - e.funding
      /\ jnl'.accrued = jnl.accrued /\ jnl'.total = jnl.total + e.funding
  BY <1>1, RecordClose
<1>3. jnl'.ids = jnl.ids \cup {EventKey(e)}
  BY <1>1, RecordType
<1>4. \A x \in closeEvs : EventKey(x) \notin jnl.ids => x = e
  BY MissingAreCloses DEF EventInv, AtMostOneUnjournaled
<1> QED BY <1>2, <1>3, <1>4 DEF Missing

\* Only a crash takes the desk down.
LEMMA DownIsDeath ==
  ASSUME [Next]_vars
  PROVE  phase' = "down" => phase = "down" \/ Crash
BY DEF Next, Entry, FillEntry, RecordEntry, RecordEntryFails, StampEntry, MirrorEntry,
   MirrorEntryFails, Prepare, PeekTriggers, ScanExpiries, PrepareManual, TakeBook, Commit,
   DropStale, SkipUnledgered, BeginExit, CommitClose, GiveUpExit, SettleRaises, ApplyClose,
   LeaveBook, AccrueFunding, Reconcile, ResetKillSwitch, Expire, Restart, Recover,
   vars, envVars

\* What RAM holds after a step, of rows that were and rows that are new.
LEMMA RowsAfter ==
  ASSUME IInv, HeldInv, [Next]_vars
  PROVE  \/ \A s \in Held' : s \in Held /\ ram'[s] = ram[s]
         \/ \E s \in Symbols, k \in Terms : FillEntry(s, k)
         \/ \E t \in Threads, s \in Symbols, f \in FundingTargets : AccrueFunding(t, s, f)
         \/ Restart
<1> USE BookFacts
<1>1. ASSUME NEW e \in EventOf({"close"}), ApplyJournalClose(e)
      PROVE  \A s \in Held' : s \in Held /\ ram'[s] = ram[s]
  BY <1>1, ApplyEffect DEF Held, NoRow
<1>2. ASSUME NEW t \in Threads, NEW i \in prep[t], SkipUnledgered(t, i)
      PROVE  \A s \in Held' : s \in Held /\ ram'[s] = ram[s]
  <2>1. CASE UNCHANGED brokerVars
    BY <2>1 DEF brokerVars, Held
  <2>2. CASE \E e \in LatestMatches(i.sym) : ApplyJournalClose(e)
    BY <1>1, <2>2 DEF LatestMatches, MatchingCloses
  <2> QED BY <1>2, <2>1, <2>2 DEF SkipUnledgered
<1>3. ASSUME NEW t \in Threads, ApplyClose(t)
      PROVE  \A s \in Held' : s \in Held /\ ram'[s] = ram[s]
  BY <1>1, <1>3 DEF ApplyClose
<1>4. CASE Crash
  BY <1>4 DEF Crash, Held, NoRow
<1>5. CASE UNCHANGED ram
  BY <1>5 DEF Held
<1>6. RecordEntry \/ StampEntry \/ MirrorEntry \/ (\E e \in Unjournaled : Recover(e))
        \/ (\E t \in Threads, g \in Gross : CommitClose(t, g)) \/ UNCHANGED bookVars
        => UNCHANGED ram
  BY DEF RecordEntry, StampEntry, MirrorEntry, Recover, CommitClose, brokerVars, bookVars
<1> QED BY <1>2, <1>3, <1>4, <1>5, <1>6, LoudSteps

\* A fill that lost its chance of a row never gets one.
LEMMA OrphansStay ==
  ASSUME IInv, [Next]_vars, Recorded'
  PROVE  Recorded
<1> USE BookFacts
<1> SUFFICES ASSUME NEW p \in 1 .. fills, status[p] = "none",
                    ~(HolderAt({"filled"}) /\ p = fills)
             PROVE  FALSE
  BY DEF Recorded
<1>1. fills \in Nat /\ fills' \in Nat /\ fills' >= fills /\ p \in 1 .. fills'
  BY Counters
<1>2. p \in Pos
  BY <1>1, BoundsAssumption DEF IInv, TypeOK, Pos
<1>3. status'[p] = "none"
  <2>1. CASE RecordEntry
    <3>1. status' = [status EXCEPT ![fills] = "open"] /\ HolderAt({"filled"})
      BY <2>1 DEF RecordEntry, Holding, Running, HolderAt, Threads, Main
    <3> QED BY <1>2, <3>1
  <2>2. ASSUME NEW t \in Threads, NEW g \in Gross, CommitClose(t, g)
        PROVE  status'[p] = "none"
    <3>1. PICK i \in cur : status' = [status EXCEPT ![FindOpen(i.sym)] = "closed"]
      BY <2>2 DEF CommitClose
    <3>2. status[FindOpen(i.sym)] = "open"
      BY FindOpenIsOpen DEF LockInv, OpenOn
    <3> QED BY <1>2, <3>1, <3>2
  <2>3. CASE status' = status
    BY <2>3
  <2>4. RecordEntry \/ (\E t \in Threads, g \in Gross : CommitClose(t, g)) \/ status' = status
    BY LoudSteps DEF FillEntry, StampEntry, MirrorEntry, SkipUnledgered, ApplyClose, Recover,
       AccrueFunding, Crash, Restart, dbVars, bookVars
  <2> QED BY <2>1, <2>2, <2>3, <2>4
<1>4. HolderAt({"filled"})' /\ p = fills'
  BY <1>1, <1>3 DEF Recorded
<1>5. ASSUME NEW s \in Symbols, NEW k \in Terms, FillEntry(s, k) PROVE FALSE
  <2>1. fills' = fills + 1
    BY <1>5 DEF FillEntry
  <2> QED BY <1>1, <1>4, <2>1
<1> QED BY <1>1, <1>4, <1>5, FilledStays

\* Nor is a failed write undone.
LEMMA AccountedBack ==
  ASSUME IInv, [Next]_vars, Accounted'
  PROVE  Accounted
<1>1. faults' = 0 => faults = 0
  BY Counters
<1> QED BY <1>1, OrphansStay DEF Accounted

\* No funding is booked before the ledger has the row, and a dead desk is a crash.
LEMMA NextUnpaid ==
  ASSUME IInv, HeldInv, FundInv, [Next]_vars
  PROVE  /\ \A p \in Pos : p > fills' \/ (p = fills' /\ HolderAt({"filled"})') => paid'[p] = 0
         /\ phase' = "down" => crashes' > 0 /\ Held' = {}
<1> USE BookFacts
<1>0. /\ \A p \in Pos : p > fills \/ (p = fills /\ HolderAt({"filled"})) => paid[p] = 0
      /\ phase = "down" => crashes > 0 /\ Held = {}
  BY DEF FundInv
<1>1. ASSUME NEW s \in Symbols, NEW k \in Terms, FillEntry(s, k), NEW p \in Pos,
             p > fills' \/ p = fills'
      PROVE  paid'[p] = 0
  <2>1. fills' = fills + 1 /\ paid' = paid
    BY <1>1, FillEffect
  <2>2. p > fills
    BY <1>1, <2>1, Counters DEF Pos
  <2> QED BY <1>0, <2>1, <2>2
<1>2. ASSUME NEW t \in Threads, NEW s \in Symbols, NEW f \in FundingTargets,
             AccrueFunding(t, s, f), NEW p \in Pos,
             p > fills' \/ (p = fills' /\ HolderAt({"filled"})')
      PROVE  paid'[p] = 0
  <2>0. /\ ram[s].pos <= fills /\ ram[s].pos \in Pos /\ ~HolderAt({"filled"})
        /\ UNCHANGED <<threadVars, dbVars, envVars>>
    BY <1>2, AccrueEffect
  <2>a. paid' = [paid EXCEPT ![ram[s].pos] = @ + (f - ram[s].funding)]
    BY <1>2 DEF AccrueFunding
  <2>1. /\ fills' = fills /\ lock' = lock /\ pc' = pc /\ ram[s].pos <= fills
        /\ ram[s].pos \in Pos /\ ~HolderAt({"filled"})
        /\ paid' = [paid EXCEPT ![ram[s].pos] = @ + (f - ram[s].funding)]
    BY <2>0, <2>a DEF threadVars, envVars
  <2>2. p > fills
    BY <1>2, <2>1 DEF HolderAt
  <2>3. p # ram[s].pos
    BY <2>1, <2>2, Counters DEF Pos
  <2> QED BY <1>0, <2>1, <2>2, <2>3 DEF TypeOK
<1>3. ASSUME fills' = fills, paid' = paid, NEW p \in Pos,
             p > fills' \/ (p = fills' /\ HolderAt({"filled"})')
      PROVE  paid'[p] = 0
  <2>1. p = fills /\ ~HolderAt({"filled"}) => \E s \in Symbols, k \in Terms : FillEntry(s, k)
    BY <1>3, FilledStays
  <2>2. ASSUME NEW s \in Symbols, NEW k \in Terms, FillEntry(s, k) PROVE FALSE
    <3>1. fills' = fills + 1 /\ fills \in Nat
      BY <2>2, FillEffect, Counters
    <3> QED BY <1>3, <3>1
  <2> QED BY <1>0, <1>3, <2>1, <2>2
<1>6. phase = "down" /\ phase' = "down" => Held' = {}
  <2> SUFFICES ASSUME phase = "down", phase' = "down" PROVE Held' = {} OBVIOUS
  <2>1. ~(\E s \in Symbols, k \in Terms : FillEntry(s, k)) /\ ~Restart
    BY DEF FillEntry, Running, Restart
  <2>2. ~(\E t \in Threads, s \in Symbols, f \in FundingTargets : AccrueFunding(t, s, f))
    BY DEF AccrueFunding, Holding, Running
  <2> QED BY <1>0, <2>1, <2>2, RowsAfter
<1>7. Crash => Held' = {}
  BY DEF Crash, Held, NoRow
<1>5. phase' = "down" => crashes' > 0
  <2>1. Crash => crashes' > 0
    BY Counters DEF Crash
  <2> QED BY <1>0, DownIsDeath, <2>1, Counters
<1> QED BY <1>1, <1>2, <1>3, <1>5, <1>6, <1>7, FillsFrame, PaidFrame, DownIsDeath

\* Funding on a RAM row is that of its position, unless a fill has no row, a
\* write has failed and the desk has died twice.
LEMMA NextFunding ==
  ASSUME IInv, HeldInv, FundInv, [Next]_vars, Accounted' \/ crashes' <= 1
  PROVE  FundingIsOwned'
<1> USE BookFacts
<1>0. /\ Accounted \/ crashes <= 1
      /\ \A s \in Held : ram[s].funding = paid[ram[s].pos]
      /\ paid \in [Pos -> Int]
  BY Counters, AccountedBack DEF FundInv, FundingIsOwned, TypeOK
<1>1. ASSUME NEW s \in Symbols, NEW k \in Terms, FillEntry(s, k)
      PROVE  FundingIsOwned'
  <2>1. /\ ram' = [ram EXCEPT ![s] = [pos |-> fills + 1, terms |-> k, funding |-> 0]]
        /\ paid' = paid /\ fills + 1 \in Pos
    BY <1>1, FillEffect
  <2>2. paid[fills + 1] = 0
    <3>1. fills + 1 > fills
      BY Counters
    <3> QED BY <2>1, <3>1 DEF FundInv
  <2>3. ASSUME NEW r \in Held', r # s
        PROVE  ram'[r].funding = paid[ram'[r].pos]
    BY <1>0, <2>1, <2>3 DEF Held
  <2>4. s \in Held' => ram'[s].funding = paid[ram'[s].pos]
    BY <2>1, <2>2 DEF Held
  <2> QED BY <2>1, <2>3, <2>4 DEF FundingIsOwned
<1>2. ASSUME NEW t \in Threads, NEW s \in Symbols, NEW f \in FundingTargets,
             AccrueFunding(t, s, f)
      PROVE  FundingIsOwned'
  <2> DEFINE p == ram[s].pos
             step == f - ram[s].funding
  <2>0. /\ p \in Pos /\ deal[p].sym = s /\ step \in Int /\ s \in Held
    BY <1>2, AccrueEffect
  <2>b. ram' = [ram EXCEPT ![s].funding = f]
    BY <1>2 DEF AccrueFunding
  <2>a. paid' = [paid EXCEPT ![p] = @ + step]
    BY <1>2 DEF AccrueFunding
  <2>1. /\ p \in Pos /\ deal[p].sym = s /\ step \in Int /\ s \in Held
        /\ ram' = [ram EXCEPT ![s].funding = f]
        /\ paid' = [paid EXCEPT ![p] = @ + step]
    BY <2>0, <2>a, <2>b
  <2>2. paid'[p] = f /\ ram'[s].pos = p /\ ram'[s].funding = f
    <3>1. paid[p] = ram[s].funding /\ ram[s].funding \in Int /\ f \in Int
      BY <1>0, <2>1, AmountsAssumption DEF Row
    <3>2. ram'[s].pos = p /\ ram'[s].funding = f
      BY <2>1 DEF Row, Held
    <3>3. paid'[p] = paid[p] + (f - ram[s].funding)
      BY <1>0, <2>1
    <3> QED BY <3>1, <3>2, <3>3
  <2>3. ASSUME NEW r \in Held', r # s
        PROVE  ram'[r].funding = paid'[ram'[r].pos]
    <3>1. ram'[r] = ram[r] /\ r \in Held
      BY <2>1, <2>3 DEF Held
    <3>2. ram[r].pos \in Pos /\ ram[r].pos # p
      BY <2>1, <2>3, <3>1 DEF HeldInv
    <3> QED BY <1>0, <2>1, <3>1, <3>2
  <2> QED BY <2>2, <2>3 DEF FundingIsOwned
<1>3. CASE Restart
  <2>1. phase = "down" /\ crashes' = crashes /\ faults' = faults /\ paid' = paid
        /\ Unjournaled = {}
    BY <1>3 DEF Restart, envVars
  <2>2. crashes > 0
    BY <2>1 DEF FundInv
  <2>3. JournalFunding
    BY <1>0, <2>1, <2>2, Counters DEF FundInv
  <2>4. ASSUME NEW s \in Held'
        PROVE  ram'[s].funding = paid[ram'[s].pos]
    <3>1. s \in Symbols /\ OpenOn(s) # {} /\ ram'[s].pos = FindOpen(s)
          /\ ram'[s].funding = jnl.open[s]
      BY <1>3, <2>4 DEF Restart, Held, HydratedRow, NoRow
    <3>2. FindOpen(s) \in Pos /\ status[FindOpen(s)] = "open" /\ deal[FindOpen(s)].sym = s
      BY <3>1, FindOpenIsOpen DEF OpenOn
    <3> QED BY <2>3, <3>1, <3>2 DEF JournalFunding
  <2> QED BY <2>1, <2>4 DEF FundingIsOwned
<1>4. CASE \A s \in Held' : s \in Held /\ ram'[s] = ram[s]
  <2>1. CASE paid' = paid
    BY <1>0, <1>4, <2>1 DEF FundingIsOwned
  <2>2. CASE \E t \in Threads, s \in Symbols, f \in FundingTargets : AccrueFunding(t, s, f)
    BY <1>2, <2>2
  <2> QED BY <2>1, <2>2, PaidFrame
<1> QED BY <1>1, <1>2, <1>3, <1>4, RowsAfter

\* A prepared exit whose position is already closed finds its close applied.
LEMMA SkipKeepsBook ==
  ASSUME IInv, NEW t \in Threads, NEW i \in prep[t], SkipUnledgered(t, i)
  PROVE  jnl' = jnl /\ ram' = ram /\ cash' = cash /\ realised' = realised
<1> USE BookFacts
<1>1. phase = "up" /\ flight = {}
  BY DEF SkipUnledgered, Holding, Running
<1>2. ASSUME NEW e \in LatestMatches(i.sym), ApplyJournalClose(e)
      PROVE  jnl' = jnl /\ ram' = ram /\ cash' = cash /\ realised' = realised
  <2>1. e \in closeEvs /\ EventKey(e) \in jnl.ids /\ EventKey(e) \in applied
    BY <1>1, MissingIsInFlight DEF LatestMatches, MatchingCloses, Missing, EventInv, SettledOnce
  <2>2. jnl' = Record(jnl, e) /\ ram' = ram /\ cash' = cash /\ realised' = realised
    BY <1>2, <2>1 DEF ApplyJournalClose, brokerVars
  <2> QED BY <2>1, <2>2, RecordClose
<1> QED BY <1>2 DEF SkipUnledgered, brokerVars

\* The journal's open funding stays that of the open positions and of the
\* close it lacks, and what is spare that of the row the ledger never recorded.
LEMMA NextOwed ==
  ASSUME IInv, IInv', HeldInv, FundInv, [Next]_vars,
         Accounted' \/ crashes' = 0 \/ (crashes' = 1 /\ phase' = "down")
  PROVE  JournalFunding' /\ (Accounted' \/ crashes' = 0 => SpareFunding')
<1> USE BookFacts
<1> DEFINE Few == Accounted' \/ crashes' = 0
           GoodO == Owed(status', deal', jnl'.open, paid', Missing(closeEvs', jnl'.ids))
           GoodS == Spare(status', deal', jnl'.open, paid', Missing(closeEvs', jnl'.ids), ram')
           Good == GoodO /\ (Few => GoodS)
<1>a. Good => JournalFunding' /\ (Few => SpareFunding')
  BY OwedNext
<1>b. phase' = "up" => Few
  OBVIOUS
<1>0. /\ Owed(status, deal, jnl.open, paid, Missing(closeEvs, jnl.ids))
      /\ Few => FundingIsOwned
      /\ Few => Spare(status, deal, jnl.open, paid, Missing(closeEvs, jnl.ids), ram)
      /\ paid \in [Pos -> Int] /\ jnl.open \in [Symbols -> Int]
  <2>1. Few => Accounted \/ crashes = 0
    BY Counters, AccountedBack
  <2>2. Accounted \/ crashes = 0 \/ (crashes = 1 /\ phase = "down")
    <3>1. CASE Few
      BY <2>1, <3>1
    <3>2. CASE crashes' = 1 /\ phase' = "down" /\ phase = "down"
      <4>1. crashes > 0 /\ crashes <= 1
        BY <3>2, Counters DEF FundInv
      <4> QED BY <3>2, <4>1, Counters
    <3>3. CASE crashes' = 1 /\ phase' = "down" /\ phase # "down"
      <4>1. crashes' = crashes + 1
        BY <3>3, DownIsDeath DEF Crash
      <4> QED BY <3>3, <4>1, Counters
    <3> QED BY <3>1, <3>2, <3>3
  <2>3. Few => Accounted \/ crashes <= 1
    BY <2>1
  <2> QED BY <2>1, <2>2, <2>3, OwedNow DEF FundInv, TypeOK, Journal
<1>1. ASSUME UNCHANGED <<status, deal, closeEvs, paid, ram>> /\ jnl'.open = jnl.open
      /\ Missing(closeEvs, jnl'.ids) = Missing(closeEvs, jnl.ids)
      PROVE  Good
  <2>1. /\ status' = status /\ deal' = deal /\ paid' = paid /\ ram' = ram /\ jnl'.open = jnl.open
        /\ Missing(closeEvs', jnl'.ids) = Missing(closeEvs, jnl.ids)
    BY <1>1
  <2>2. GoodO
    BY <1>0, <2>1
  <2>3. Few => GoodS
    BY <1>0, <2>1
  <2> QED BY <2>2, <2>3
<1>2. ASSUME NEW s \in Symbols, NEW k \in Terms, FillEntry(s, k)
      PROVE  Good
  <2>1. /\ status' = status /\ jnl'.open = jnl.open /\ paid' = paid
        /\ Missing(closeEvs', jnl'.ids) = Missing(closeEvs, jnl.ids)
        /\ fills + 1 \in Pos /\ status[fills + 1] = "none"
        /\ deal' = [deal EXCEPT ![fills + 1] = [sym |-> s, terms |-> k]]
    BY <1>2, FillEffect
  <2>2. \A p \in Pos : status[p] = "open" => deal'[p] = deal[p]
    BY <2>1
  <2>3. \A x : Unopened(status, deal', x) <=> Unopened(status, deal, x)
    BY <2>2 DEF Unopened
  <2>4. Owed(status, deal', jnl.open, paid, Missing(closeEvs, jnl.ids))
    BY <1>0, <2>2, <2>3 DEF Owed
  <2>5. /\ ram' = [ram EXCEPT ![s] = [pos |-> fills + 1, terms |-> k, funding |-> 0]]
        /\ ram[s] = NoRow /\ phase' = "up"
    BY <1>2, FillEffect DEF FillEntry
  <2>6. paid[fills + 1] = 0
    BY <2>1, Counters DEF FundInv
  <2>7. Spare(status, deal, jnl.open, paid, Missing(closeEvs, jnl.ids), ram)
    BY <1>0, <1>b, <2>5
  <2>8. ASSUME NEW x \in Symbols, Unopened(status, deal', x),
               \A e \in Missing(closeEvs, jnl.ids) : e.sym # x
        PROVE  jnl.open[x] = IF ram'[x].pos = 0 THEN 0 ELSE paid[ram'[x].pos]
    <3>1. jnl.open[x] = IF ram[x].pos = 0 THEN 0 ELSE paid[ram[x].pos]
      BY <2>3, <2>7, <2>8 DEF Spare
    <3>2. CASE x = s
      BY <2>5, <2>6, <3>1, <3>2 DEF NoRow
    <3>3. CASE x # s
      BY <2>5, <3>1, <3>3
    <3> QED BY <3>2, <3>3
  <2>9. Spare(status, deal', jnl.open, paid, Missing(closeEvs, jnl.ids), ram')
    BY <2>8 DEF Spare
  <2> QED BY <2>1, <2>4, <2>9
<1>3. ASSUME RecordEntry
      PROVE  Good
  <2>1. /\ status' = [status EXCEPT ![fills] = "open"] /\ fills \in Pos
        /\ UNCHANGED <<deal, jnl, closeEvs, paid, ram, phase>> /\ phase = "up" /\ HolderAt({"filled"})
        /\ lock = Main /\ pc[Main] = "filled" /\ Main \in Threads
    BY <1>3 DEF RecordEntry, Holding, Running, EntryInv, HolderAt, Threads, Main, Pos, brokerVars, envVars
  <2>2. Missing(closeEvs, jnl.ids) = {}
    BY <2>1, MissingIsInFlight
  <2>3. /\ paid[fills] = 0 /\ Unopened(status, deal, deal[fills].sym)
        /\ ram[deal[fills].sym].pos = fills
    BY <2>1 DEF FundInv, EntryInv, OpenOn, Unopened
  <2>4. deal[fills].sym \in Symbols
    BY <2>1 DEF Deal
  <2>s. Spare(status, deal, jnl.open, paid, {}, ram)
    BY <1>0, <1>b, <2>1, <2>2
  <2>5. jnl.open[deal[fills].sym] = 0
    BY <2>1, <2>3, <2>4, <2>s DEF Spare
  <2>6. Owed(status', deal, jnl.open, paid, {})
    BY <1>0, <2>1, <2>3, <2>5 DEF Owed
  <2>7. \A s : Unopened(status', deal, s) => Unopened(status, deal, s)
    BY <2>1 DEF Unopened
  <2>8. Spare(status', deal, jnl.open, paid, {}, ram)
    BY <2>7, <2>s DEF Spare
  <2>9. /\ deal' = deal /\ jnl' = jnl /\ paid' = paid /\ ram' = ram
        /\ Missing(closeEvs', jnl'.ids) = {}
    BY <2>1, <2>2
  <2>10. GoodO
    BY <2>6, <2>9
  <2>11. GoodS
    BY <2>8, <2>9
  <2> QED BY <2>10, <2>11
<1>4. ASSUME StampEntry \/ MirrorEntry
      PROVE  Good
  <2>1. UNCHANGED <<status, deal, closeEvs, paid, ram>>
    BY <1>4 DEF StampEntry, MirrorEntry, dbVars, brokerVars
  <2>2. jnl'.open = jnl.open /\ (jnl'.ids = jnl.ids \/ jnl'.ids = jnl.ids \cup {<<"open", fills>>})
    BY <1>4 DEF StampEntry, MirrorEntry, Journal
  <2>3. Missing(closeEvs, jnl'.ids) = Missing(closeEvs, jnl.ids)
    BY <2>2 DEF Missing
  <2> QED BY <1>1, <2>1, <2>2, <2>3
<1>5. ASSUME NEW t \in Threads, NEW i \in prep[t], SkipUnledgered(t, i)
      PROVE  Good
  <2>1. UNCHANGED <<status, deal, closeEvs, paid>>
    BY <1>5 DEF SkipUnledgered, dbVars, envVars
  <2>2. jnl' = jnl /\ ram' = ram
    BY <1>5, SkipKeepsBook
  <2> QED BY <1>1, <2>1, <2>2
<1>6. ASSUME NEW t \in Threads, NEW g \in Gross, CommitClose(t, g)
      PROVE  Good
  <2>1. PICK i \in cur :
          /\ ram[i.sym] # NoRow
          /\ status' = [status EXCEPT ![FindOpen(i.sym)] = "closed"]
          /\ closeEvs' = closeEvs \cup
               {[kind |-> "close", sym |-> i.sym, pos |-> FindOpen(i.sym), gross |-> g,
                 funding |-> ram[i.sym].funding, reason |-> i.reason, seen |-> i.seen]}
    BY <1>6 DEF CommitClose
  <2> DEFINE e == [kind |-> "close", sym |-> i.sym, pos |-> FindOpen(i.sym), gross |-> g,
                   funding |-> ram[i.sym].funding, reason |-> i.reason, seen |-> i.seen]
  <2>2. /\ e.sym = i.sym /\ e.pos = FindOpen(i.sym) /\ e.kind = "close"
        /\ e.funding = ram[i.sym].funding /\ ram[i.sym] # NoRow
        /\ closeEvs' = closeEvs \cup {e}
        /\ status' = [status EXCEPT ![e.pos] = "closed"]
    BY <2>1
  <2> HIDE DEF e
  <2>3. /\ phase = "up" /\ flight = {} /\ UNCHANGED <<deal, jnl, paid, ram, phase>>
    BY <1>6 DEF CommitClose, Holding, Running, brokerVars, envVars
  <2>4. /\ e.pos \in Pos /\ status[e.pos] = "open" /\ deal[e.pos].sym = e.sym /\ e.sym \in Symbols
    BY <2>2, FindOpenIsOpen DEF LockInv, OpenOn, Deal
  <2>5. Missing(closeEvs, jnl.ids) = {} /\ Missing(closeEvs', jnl.ids) \subseteq {e}
    <3>1. Missing(closeEvs, jnl.ids) = {}
      BY <2>3, MissingIsInFlight
    <3> QED BY <2>2, <3>1 DEF Missing
  <2>6. ram[e.sym].pos = e.pos /\ \A q \in Pos : status[q] = "open" /\ deal[q].sym = e.sym => q = e.pos
    BY <2>3, <2>4 DEF RowInv, OpenPositionsAreWatched
  <2>7. jnl.open[e.sym] = e.funding
    <3>1. e.funding = paid[e.pos]
      BY <1>0, <1>b, <2>2, <2>3, <2>4, <2>6 DEF FundingIsOwned, Held, Pos
    <3> QED BY <1>0, <2>4, <3>1 DEF Owed
  <2>8. Unopened(status', deal, e.sym)
    BY <2>2, <2>4, <2>6 DEF Unopened
  <2>9. \A p \in Pos : status'[p] = "open" => jnl.open[deal[p].sym] = paid[p]
    BY <1>0, <2>2, <2>4 DEF Owed
  <2>10. e \in Missing(closeEvs', jnl.ids)
    BY <2>2, <2>4 DEF EventInv, SettledOnce, ClosedEvent, Missing, EventKey
  <2>11. Owed(status', deal, jnl.open, paid, Missing(closeEvs', jnl.ids))
    BY <2>5, <2>7, <2>8, <2>9 DEF Owed
  <2>12. ASSUME NEW s \in Symbols, Unopened(status', deal, s),
                \A x \in Missing(closeEvs', jnl.ids) : x.sym # s
         PROVE  jnl.open[s] = IF ram[s].pos = 0 THEN 0 ELSE paid[ram[s].pos]
    <3>1. s # e.sym
      BY <2>10, <2>12
    <3>2. Unopened(status, deal, s)
      BY <2>2, <2>4, <2>12, <3>1 DEF Unopened
    <3>3. Spare(status, deal, jnl.open, paid, {}, ram)
      BY <1>0, <1>b, <2>3, <2>5
    <3> QED BY <3>2, <3>3 DEF Spare
  <2>13. Spare(status', deal, jnl.open, paid, Missing(closeEvs', jnl.ids), ram)
    BY <2>12 DEF Spare
  <2> QED BY <2>3, <2>11, <2>13
<1>7. ASSUME NEW e \in closeEvs, EventKey(e) \notin jnl.ids, jnl' = Record(jnl, e),
             UNCHANGED <<status, deal, closeEvs, paid>>,
             ram'[e.sym].pos = 0, \A s \in Symbols : s # e.sym => ram'[s] = ram[s]
      PROVE  Good
  <2>1. /\ jnl'.open = [jnl.open EXCEPT ![e.sym] = @ - e.funding]
        /\ Missing(closeEvs, jnl.ids) = {e} /\ Missing(closeEvs, jnl'.ids) = {}
    BY <1>7, SettleEffect
  <2>2. Unopened(status, deal, e.sym) /\ jnl.open[e.sym] = e.funding
    BY <1>0, <2>1 DEF Owed
  <2>3. jnl'.open[e.sym] = 0 /\ \A s \in Symbols : s # e.sym => jnl'.open[s] = jnl.open[s]
    BY <1>0, <1>7, <2>1, <2>2
  <2>4. \A p \in Pos : status[p] = "open" => jnl'.open[deal[p].sym] = paid[p]
    BY <1>0, <2>2, <2>3 DEF Owed, Unopened, Deal
  <2>5. Owed(status, deal, jnl'.open, paid, {})
    BY <2>4 DEF Owed
  <2>6. Few => Spare(status, deal, jnl'.open, paid, {}, ram')
    <3> SUFFICES ASSUME Few, NEW s \in Symbols, Unopened(status, deal, s)
                 PROVE  jnl'.open[s] = IF ram'[s].pos = 0 THEN 0 ELSE paid[ram'[s].pos]
      BY DEF Spare
    <3>1. CASE s = e.sym
      BY <1>7, <2>3, <3>1
    <3>2. CASE s # e.sym
      <4>1. jnl.open[s] = IF ram[s].pos = 0 THEN 0 ELSE paid[ram[s].pos]
        BY <1>0, <2>1, <3>2 DEF Spare
      <4> QED BY <1>7, <2>3, <3>2, <4>1
    <3> QED BY <3>1, <3>2
  <2> QED BY <1>7, <2>1, <2>5, <2>6
<1>8. ASSUME NEW t \in Threads, ApplyClose(t)
      PROVE  Good
  <2>1. PICK e \in flight : ApplyJournalClose(e)
    BY <1>8 DEF ApplyClose
  <2>2. /\ phase = "up" /\ UNCHANGED <<status, deal, closeEvs, paid>>
    BY <1>8 DEF ApplyClose, Holding, Running, dbVars, envVars
  <2>3. e \in closeEvs /\ EventKey(e) \notin jnl.ids /\ EventKey(e) \notin applied
        /\ ram[e.sym] # NoRow
    BY <2>1, <2>2, MissingIsInFlight DEF Missing, EventInv, SettledOnce, RowInv
  <2>4. jnl' = Record(jnl, e) /\ ram' = [ram EXCEPT ![e.sym] = NoRow]
    BY <2>1, <2>3 DEF ApplyJournalClose
  <2>5. ram'[e.sym].pos = 0 /\ \A s \in Symbols : s # e.sym => ram'[s] = ram[s]
    BY <2>3, <2>4 DEF NoRow
  <2> QED BY <1>7, <2>2, <2>3, <2>4, <2>5
<1>9. ASSUME NEW e \in Unjournaled, Recover(e)
      PROVE  Good
  <2>1. e \in closeEvs /\ EventKey(e) \notin jnl.ids
    BY MissingAreCloses
  <2>2. /\ jnl' = Record(jnl, e) /\ UNCHANGED <<status, deal, closeEvs, paid, ram>>
        /\ phase = "down"
    BY <1>9 DEF Recover, dbVars, brokerVars
  <2>3. ram'[e.sym].pos = 0
    BY <2>1, <2>2 DEF FundInv, Held
  <2> QED BY <1>7, <2>1, <2>2, <2>3
<1>10. ASSUME NEW t \in Threads, NEW s \in Symbols, NEW f \in FundingTargets,
              AccrueFunding(t, s, f)
       PROVE  Good
  <2> DEFINE p == ram[s].pos
             step == f - ram[s].funding
  <2>1. /\ p \in Pos /\ deal[p].sym = s /\ status[p] # "closed"
        /\ phase = "up" /\ flight = {} /\ step \in Int
        /\ paid' = [paid EXCEPT ![p] = @ + step]
        /\ jnl'.open[s] = jnl.open[s] + step /\ jnl'.ids = jnl.ids
        /\ \A x \in Symbols : x # s => jnl'.open[x] = jnl.open[x]
        /\ UNCHANGED <<status, deal, closeEvs>>
    BY <1>10, AccrueEffect DEF dbVars
  <2>2. ram' = [ram EXCEPT ![s].funding = f] /\ phase' = "up"
    BY <1>10, <2>1 DEF AccrueFunding, envVars
  <2>r. \A x \in Symbols : ram'[x].pos = ram[x].pos
    BY <2>2 DEF Row
  <2>p. p = ram[s].pos
    OBVIOUS
  <2> HIDE DEF p, step
  <2>3. Missing(closeEvs, jnl'.ids) = {} /\ Missing(closeEvs, jnl.ids) = {}
    BY <2>1, MissingIsInFlight
  <2>4. Spare(status, deal, jnl.open, paid, {}, ram)
    BY <1>0, <1>b, <2>2, <2>3
  <2>5. \A x \in Symbols : x # s => jnl'.open[x] = jnl.open[x]
    BY <1>0, <2>1
  <2>6. \A q \in Pos : status[q] = "open" /\ deal[q].sym = s => q = p
    BY <2>1, <2>p DEF RowInv, OpenPositionsAreWatched
  <2>7. jnl.open[s] = paid[p] /\ jnl'.open[s] = paid'[p]
    <3>1. CASE status[p] = "open"
      BY <1>0, <2>1, <3>1 DEF Owed
    <3>2. CASE status[p] = "none"
      <4>1. Unopened(status, deal, s) /\ p # 0
        BY <2>1, <2>6, <3>2 DEF Unopened, Pos
      <4>2. jnl.open[s] = paid[p]
        BY <2>4, <2>p, <4>1 DEF Spare
      <4> QED BY <1>0, <2>1, <4>2
    <3> QED BY <2>1, <3>1, <3>2
  <2>8. ASSUME NEW q \in Pos, status[q] = "open" PROVE jnl'.open[deal[q].sym] = paid'[q]
    <3>1. CASE q = p
      BY <2>1, <2>7, <3>1
    <3>2. CASE q # p
      <4>1. deal[q].sym # s /\ deal[q].sym \in Symbols
        BY <2>6, <2>8, <3>2 DEF Deal
      <4> QED BY <1>0, <2>1, <2>5, <2>8, <3>2, <4>1 DEF Owed
    <3> QED BY <3>1, <3>2
  <2>9. Owed(status, deal, jnl'.open, paid', {})
    BY <2>8 DEF Owed
  <2>10. ASSUME NEW x \in Symbols, Unopened(status, deal, x)
         PROVE  jnl'.open[x] = IF ram[x].pos = 0 THEN 0 ELSE paid'[ram[x].pos]
    <3>1. CASE x = s
      <4>1. p # 0
        BY <2>1 DEF Pos
      <4> QED BY <2>7, <2>p, <3>1, <4>1
    <3>2. CASE x # s
      <4>1. jnl.open[x] = IF ram[x].pos = 0 THEN 0 ELSE paid[ram[x].pos]
        BY <2>4, <2>10 DEF Spare
      <4>2. ram[x].pos # 0 => ram[x].pos \in Pos /\ deal[ram[x].pos].sym = x
        BY DEF HeldInv, Held
      <4>3. ram[x].pos # 0 => paid'[ram[x].pos] = paid[ram[x].pos]
        BY <1>0, <2>1, <3>2, <4>2
      <4> QED BY <2>5, <3>2, <4>1, <4>3
    <3> QED BY <3>1, <3>2
  <2>11. Spare(status, deal, jnl'.open, paid', {}, ram')
    BY <2>10, <2>r DEF Spare
  <2> QED BY <2>1, <2>3, <2>9, <2>11
<1>11. ASSUME UNCHANGED bookVars /\ paid' = paid
      PROVE  Good
  BY <1>1, <1>11 DEF bookVars, dbVars
<1>12. ASSUME Crash
      PROVE  Good
  <2>1. /\ UNCHANGED <<status, deal, closeEvs, paid, jnl>> /\ phase = "up" /\ faults' = faults
        /\ crashes' = crashes + 1 /\ ram' = [s \in Symbols |-> NoRow]
    BY <1>12 DEF Crash, dbVars
  <2>2. Few => Accounted
    BY <2>1, Counters, AccountedBack
  <2>3. ASSUME Few, NEW s \in Symbols, Unopened(status, deal, s),
               \A e \in Missing(closeEvs, jnl.ids) : e.sym # s
        PROVE  jnl.open[s] = 0
    <3>1. jnl.open[s] = IF ram[s].pos = 0 THEN 0 ELSE paid[ram[s].pos]
      BY <1>0, <2>3 DEF Spare
    <3>2. CASE ram[s].pos # 0
      <4>1. /\ ram[s].pos \in Pos /\ deal[ram[s].pos].sym = s
            /\ status[ram[s].pos] = "closed" => \E e \in flight : e.pos = ram[s].pos /\ e.sym = s
            /\ status[ram[s].pos] = "none" =>
                 faults > 0 \/ (HolderAt({"filled"}) /\ ram[s].pos = fills)
            /\ ram[s].pos \in 1 .. fills
        BY <3>2, Counters DEF HeldInv, Held, Pos
      <4>2. status[ram[s].pos] # "closed"
        BY <2>1, <2>3, <4>1, MissingIsInFlight
      <4>3. status[ram[s].pos] # "open"
        BY <2>3, <4>1 DEF Unopened
      <4>4. HolderAt({"filled"}) /\ ram[s].pos = fills
        BY <2>2, <2>3, <4>1, <4>2, <4>3, Counters DEF Accounted, Recorded
      <4>5. paid[ram[s].pos] = 0
        BY <4>1, <4>4 DEF FundInv
      <4> QED BY <3>1, <4>5
    <3> QED BY <3>1, <3>2
  <2>4. Few => Spare(status, deal, jnl.open, paid, Missing(closeEvs, jnl.ids), ram')
    BY <2>1, <2>3 DEF Spare, NoRow
  <2>5. /\ status' = status /\ deal' = deal /\ paid' = paid /\ jnl' = jnl /\ closeEvs' = closeEvs
    BY <2>1
  <2>6. GoodO
    BY <1>0, <2>5
  <2>7. Few => GoodS
    BY <2>4, <2>5
  <2> QED BY <2>6, <2>7
<1>13. ASSUME Restart
      PROVE  Good
  <2>1. /\ UNCHANGED <<status, deal, closeEvs, paid, jnl>> /\ phase = "down"
        /\ ram' = [s \in Symbols |-> IF OpenOn(s) = {} THEN NoRow ELSE HydratedRow(s)]
    BY <1>13 DEF Restart, dbVars
  <2>2. ASSUME NEW s \in Symbols, Unopened(status, deal, s)
        PROVE  ram'[s].pos = 0 /\ ram[s].pos = 0
    <3>1. OpenOn(s) = {}
      BY <2>2 DEF OpenOn, Unopened
    <3> QED BY <2>1, <3>1 DEF NoRow, FundInv, Held
  <2>3. Few => Spare(status, deal, jnl.open, paid, Missing(closeEvs, jnl.ids), ram')
    BY <1>0, <2>2 DEF Spare
  <2>5. /\ status' = status /\ deal' = deal /\ paid' = paid /\ jnl' = jnl /\ closeEvs' = closeEvs
    BY <2>1
  <2>6. GoodO
    BY <1>0, <2>5
  <2>7. Few => GoodS
    BY <2>3, <2>5
  <2> QED BY <2>6, <2>7
<1>14. UNCHANGED bookVars => paid' = paid
         \/ \E t \in Threads, s \in Symbols, f \in FundingTargets : AccrueFunding(t, s, f)
  BY PaidFrame
<1>16. (\E t \in Threads : \/ \E i \in prep[t] : SkipUnledgered(t, i)
                           \/ \E g \in Gross : CommitClose(t, g)
                           \/ ApplyClose(t)
                           \/ \E s \in Symbols, f \in FundingTargets : AccrueFunding(t, s, f))
         => Good
  BY <1>5, <1>6, <1>8, <1>10
<1>17. UNCHANGED bookVars => Good
  BY <1>10, <1>11, <1>14
<1>18. /\ (\E s \in Symbols, k \in Terms : FillEntry(s, k)) => Good
       /\ RecordEntry \/ StampEntry \/ MirrorEntry \/ Crash \/ Restart => Good
       /\ (\E e \in Unjournaled : Recover(e)) => Good
  BY <1>2, <1>3, <1>4, <1>9, <1>12, <1>13
<1>15. Good
  <2>1. CASE UNCHANGED bookVars
    BY <1>17, <2>1
  <2>2. CASE \E t \in Threads : \/ \E i \in prep[t] : SkipUnledgered(t, i)
                                \/ \E g \in Gross : CommitClose(t, g)
                                \/ ApplyClose(t)
                                \/ \E s \in Symbols, f \in FundingTargets : AccrueFunding(t, s, f)
    BY <1>16, <2>2
  <2>3. CASE \E s \in Symbols, k \in Terms : FillEntry(s, k)
    BY <1>18, <2>3
  <2>4. CASE RecordEntry \/ StampEntry \/ MirrorEntry \/ Crash \/ Restart
    BY <1>18, <2>4
  <2>5. CASE \E e \in Unjournaled : Recover(e)
    BY <1>18, <2>5
  <2> QED BY <2>1, <2>2, <2>3, <2>4, <2>5, LoudSteps
<1> QED BY <1>a, <1>15

\* Every step keeps funding where it belongs.
LEMMA NextFund ==
  ASSUME IInv, IInv', HeldInv, FundInv, [Next]_vars
  PROVE  FundInv'
BY NextUnpaid, NextFunding, NextOwed DEF FundInv

\* The desk starts flat, with nothing booked.
LEMMA InitOwn == Init => OwnInv
<1> SUFFICES ASSUME Init PROVE OwnInv OBVIOUS
<1>1. IInv
  BY InitInv
<1>2. Held = {} /\ Unjournaled = {}
  BY DEF Init, Held, NoRow, Unjournaled, Durable
<1>3. HeldInv /\ NoFalseTrip /\ FundingIsOwned
  BY <1>2 DEF Init, HeldInv, NoFalseTrip, FundingIsOwned
<1>4. JournalFunding /\ SpareFunding
  BY <1>2 DEF Init, JournalFunding, SpareFunding, NoRow
<1> QED BY <1>1, <1>3, <1>4 DEF Init, OwnInv, FundInv

\* The broker's cash moves at a fill, an accrual, a close, a death or a restart.
LEMMA CashFrame ==
  ASSUME [Next]_vars
  PROVE  \/ UNCHANGED <<cash, realised>>
         \/ \E s \in Symbols, k \in Terms : FillEntry(s, k)
         \/ \E t \in Threads, s \in Symbols, f \in FundingTargets : AccrueFunding(t, s, f)
         \/ \E t \in Threads : ApplyClose(t)
         \/ \E t \in Threads : \E i \in prep[t] : SkipUnledgered(t, i)
         \/ Crash \/ Restart
<1>1. CASE RecordEntry \/ RecordEntryFails \/ StampEntry \/ MirrorEntry \/ MirrorEntryFails
  BY <1>1 DEF RecordEntry, RecordEntryFails, StampEntry, MirrorEntry, MirrorEntryFails, brokerVars
<1>2. CASE \E t \in Threads : Prepare(t) \/ TakeBook(t) \/ Commit(t)
  BY <1>2 DEF Prepare, PeekTriggers, ScanExpiries, PrepareManual, TakeBook, Commit,
     DropStale, BeginExit, CommitClose, GiveUpExit, SettleRaises, LeaveBook, brokerVars
<1>3. CASE Reconcile \/ ResetKillSwitch \/ (\E p \in Pos : Expire(p))
           \/ (\E e \in Unjournaled : Recover(e)) \/ UNCHANGED vars
  BY <1>3 DEF Reconcile, ResetKillSwitch, Expire, Recover, vars, brokerVars
<1> QED BY <1>1, <1>2, <1>3 DEF Next, Entry

\* Every step moves the broker's cash and the journal's together.
LEMMA NextRam ==
  ASSUME IInv, HeldInv, RamIsJournal, [Next]_vars
  PROVE  RamIsJournal'
<1> USE BookFacts
<1>1. ASSUME NEW s \in Symbols, NEW k \in Terms, FillEntry(s, k)
      PROVE  RamIsJournal'
  <2>1. jnl'.cash = jnl.cash - EntryFee /\ jnl'.realised = jnl.realised /\ phase = "up"
    BY <1>1, FillEffect
  <2>2. cash' = cash - EntryFee /\ realised' = realised
    BY <1>1 DEF FillEntry
  <2> QED BY <2>1, <2>2 DEF RamIsJournal
<1>2. ASSUME NEW t \in Threads, NEW s \in Symbols, NEW f \in FundingTargets,
             AccrueFunding(t, s, f)
      PROVE  RamIsJournal'
  <2> DEFINE step == f - ram[s].funding
  <2>1. cash' = cash - step /\ realised' = realised
    BY <1>2 DEF AccrueFunding
  <2>2. step = f - ram[s].funding
    OBVIOUS
  <2> HIDE DEF step
  <2>3. jnl'.cash = jnl.cash - step /\ jnl'.realised = jnl.realised /\ phase = "up"
    BY <1>2, <2>2, AccrueEffect
  <2> QED BY <2>1, <2>3 DEF RamIsJournal
<1>3. ASSUME NEW t \in Threads, ApplyClose(t)
      PROVE  RamIsJournal'
  <2>1. PICK e \in flight : ApplyJournalClose(e)
    BY <1>3 DEF ApplyClose
  <2>2. phase = "up"
    BY <1>3 DEF ApplyClose, Holding, Running
  <2>3. e \in closeEvs /\ EventKey(e) \notin jnl.ids /\ EventKey(e) \notin applied
        /\ ram[e.sym] # NoRow
    BY <2>1, <2>2, MissingIsInFlight DEF Missing, EventInv, SettledOnce, RowInv
  <2>4. /\ jnl' = Record(jnl, e) /\ cash' = cash + e.gross - ExitFee
        /\ realised' = realised + e.gross - ExitFee - EntryFee - e.funding
    BY <2>1, <2>3 DEF ApplyJournalClose
  <2>5. /\ jnl'.cash = jnl.cash + e.gross - ExitFee
        /\ jnl'.realised = jnl.realised + e.gross - ExitFee - EntryFee - e.funding
    BY <2>3, <2>4, SettleEffect
  <2> QED BY <2>2, <2>4, <2>5 DEF RamIsJournal
<1>4. ASSUME NEW t \in Threads, NEW i \in prep[t], SkipUnledgered(t, i)
      PROVE  RamIsJournal'
  <2>1. jnl' = jnl /\ cash' = cash /\ realised' = realised
    BY <1>4, SkipKeepsBook
  <2>2. phase' = phase
    BY <1>4 DEF SkipUnledgered, envVars
  <2> QED BY <2>1, <2>2 DEF RamIsJournal
<1>5. ASSUME Crash \/ Restart
      PROVE  RamIsJournal'
  BY <1>5 DEF Crash, Restart, RamIsJournal
<1>6. ASSUME UNCHANGED <<cash, realised>>, phase' = "up" => phase = "up",
             jnl'.cash = jnl.cash, jnl'.realised = jnl.realised
      PROVE  RamIsJournal'
  BY <1>6 DEF RamIsJournal
<1>7. ASSUME UNCHANGED <<cash, realised>>
      PROVE  RamIsJournal'
  <2>1. CASE UNCHANGED bookVars
    BY <1>6, <1>7, <2>1 DEF bookVars
  <2>2. CASE RecordEntry \/ MirrorEntry \/ \E t \in Threads, g \in Gross : CommitClose(t, g)
    BY <1>6, <1>7, <2>2 DEF RecordEntry, MirrorEntry, CommitClose, envVars
  <2>3. CASE StampEntry
    <3>1. jnl'.cash = jnl.cash /\ jnl'.realised = jnl.realised
      BY <2>3 DEF StampEntry, Journal
    <3> QED BY <1>6, <1>7, <2>3, <3>1 DEF StampEntry, envVars
  <2>4. CASE \E e \in Unjournaled : Recover(e)
    BY <2>4 DEF Recover, envVars, RamIsJournal
  <2> QED BY <1>1, <1>2, <1>3, <1>4, <1>5, <2>1, <2>2, <2>3, <2>4, LoudSteps
<1> QED BY <1>1, <1>2, <1>3, <1>4, <1>5, <1>7, CashFrame
---------------------------------------------------------------------------
(* The theorems. *)

\* The settlement invariant holds in every reachable state: the lock protocol,
\* the entry in progress, one RAM row per open position, one cash event per
\* settled close.
THEOREM Inductive == Spec => []IInv
<1>1. Init => IInv
  BY InitInv
<1>2. IInv /\ [Next]_vars => IInv'
  BY NextType, NextLock, NextEntry, NextRow, NextEvent DEF IInv
<1> QED BY <1>1, <1>2, PTL DEF Spec

\* Every variable keeps its type, in particular each prepared exit, ledger row
\* and cash event names a fill that happened within bounds.
THEOREM TypeCorrect == Spec => []TypeOK
<1>1. IInv => TypeOK
  BY DEF IInv
<1> QED BY <1>1, Inductive, PTL

\* settle_paper_close and apply_journal_close: a position is closed in SQLite
\* exactly when it has one cash event, and RAM and journal have applied it.
THEOREM ClosesSettleOnce == Spec => []SettledOnce
<1>1. IInv => SettledOnce
  BY DEF IInv, EventInv
<1> QED BY <1>1, Inductive, PTL

\* open_position, hydrate and apply_journal_close: an open ledger row always
\* has its RAM row while the desk is up, and no symbol has two.
THEOREM OpenAreWatched == Spec => []OpenPositionsAreWatched
<1>1. IInv => OpenPositionsAreWatched
  BY DEF IInv, RowInv
<1> QED BY <1>1, Inductive, PTL

\* _restore_cash: a restart finds at most one durable event to append, so the
\* order of merge_cash_events cannot matter.
THEOREM OneEventToRecover == Spec => []AtMostOneUnjournaled
<1>1. IInv => AtMostOneUnjournaled
  BY DEF IInv, EventInv
<1> QED BY <1>1, Inductive, PTL

\* stamp_open_cash_event before persist_paper_open_event: no mirrored entry
\* fee can be charged again by a restart.
THEOREM EntryFeesChargedOnce == Spec => []OpenMirrorsAreJournaled
<1>1. IInv => OpenMirrorsAreJournaled
  BY DEF IInv, EventInv
<1> QED BY <1>1, Inductive, PTL

\* _apply_open, accrue_funding and hydrate: of which fill each RAM row is, and to
\* which position the funding in the journal belongs.
THEOREM Owned == Spec => []OwnInv
<1>1. Init => OwnInv
  BY InitOwn
<1>2. OwnInv /\ [Next]_vars => OwnInv'
  <2> SUFFICES ASSUME OwnInv, [Next]_vars PROVE OwnInv' OBVIOUS
  <2>1. IInv /\ HeldInv /\ NoFalseTrip /\ FundInv
    BY DEF OwnInv
  <2>2. IInv'
    BY <2>1, NextType, NextLock, NextEntry, NextRow, NextEvent DEF IInv
  <2>3. HeldInv'
    BY <2>1, NextHeld
  <2>4. NoFalseTrip'
    BY <2>1, NextTrip
  <2>5. FundInv'
    BY <2>1, <2>2, NextFund
  <2> QED BY <2>2, <2>3, <2>4, <2>5 DEF OwnInv
<1> QED BY <1>1, <1>2, PTL DEF Spec

\* reconcile_positions: interleavings, deaths and restarts alone never make RAM
\* and ledger disagree where reconciliation looks, so a trip means a failed write.
THEOREM TripsAreTrue == Spec => []NoFalseTrip
<1>1. OwnInv => NoFalseTrip
  BY DEF OwnInv
<1> QED BY <1>1, Owned, PTL

\* accrue_funding, hydrate and settle_paper_close: the funding on a RAM row is
\* what was booked while that position was held.  It takes a fill without its
\* row, a write that failed and two deaths to break it: OrphanFunding.cfg has
\* that one case.
THEOREM FundingHasAnOwner ==
  Spec => [](Accounted \/ crashes <= 1 => FundingIsOwned)
<1>1. OwnInv => (Accounted \/ crashes <= 1 => FundingIsOwned)
  BY DEF OwnInv, FundInv
<1> QED BY <1>1, Owned, PTL

\* PaperBroker._cash and the journal's replay: while the desk is up the two
\* never differ, so a restart gives back the cash the dead process had.
THEOREM RestartKeepsCash == Spec => []RamIsJournal
<1>1. Init => RamIsJournal
  BY DEF Init, RamIsJournal
<1>2. OwnInv /\ [Next]_vars /\ RamIsJournal => RamIsJournal'
  BY NextRam DEF OwnInv
<1> QED BY <1>1, <1>2, Owned, PTL DEF Spec
===========================================================================
