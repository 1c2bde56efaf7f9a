------------------------- MODULE PaperBookRefinement -------------------------
(***************************************************************************)
(* PaperBook implements BookAccount: what a restart now would restore is   *)
(* one account, whatever interleaving, failed write or death came before.  *)
(* From it follow what the broker's cash is made of and, with the funding  *)
(* owed, when the cash of a flat book is its realised P&L.                 *)
(***************************************************************************)
EXTENDS PaperBookProofs, FiniteSetTheorems, WellFoundedInduction

(* What a restart would restore, from the journal and the closes it lacks. *)

Restored(j, miss) == IF miss = {} THEN j ELSE Record(j, CHOOSE e \in miss : TRUE)

\* A restart that misses no close restores the journal; one that misses one
\* adds that close to it.
LEMMA RestoredFields ==
  ASSUME NEW j \in Journal, NEW miss, miss \subseteq EventOf({"close"}),
         \A e \in miss : EventKey(e) \notin j.ids, \A e, f \in miss : e = f
  PROVE  /\ miss = {} => Restored(j, miss) = j
         /\ \A e \in miss :
              /\ Restored(j, miss).cash = j.cash + e.gross - ExitFee
              /\ Restored(j, miss).realised =
                   j.realised + e.gross - ExitFee - EntryFee - e.funding
              /\ Restored(j, miss).accrued = j.accrued
              /\ Restored(j, miss).total = j.total + e.funding
<1>1. miss = {} => Restored(j, miss) = j
  BY DEF Restored
<1>2. ASSUME NEW e \in miss
      PROVE  /\ Restored(j, miss).cash = j.cash + e.gross - ExitFee
             /\ Restored(j, miss).realised =
                  j.realised + e.gross - ExitFee - EntryFee - e.funding
             /\ Restored(j, miss).accrued = j.accrued
             /\ Restored(j, miss).total = j.total + e.funding
  <2>1. (CHOOSE x \in miss : TRUE) = e
    OBVIOUS
  <2>2. Restored(j, miss) = Record(j, e)
    BY <2>1 DEF Restored
  <2>3. e \in EventOf({"close"}) /\ EventKey(e) \notin j.ids
    OBVIOUS
  <2>4. /\ Record(j, e).cash = j.cash + e.gross - ExitFee
        /\ Record(j, e).realised = j.realised + e.gross - ExitFee - EntryFee - e.funding
        /\ Record(j, e).accrued = j.accrued
        /\ Record(j, e).total = j.total + e.funding
    BY <2>3, RecordClose
  <2> QED BY <2>2, <2>4
<1> QED BY <1>1, <1>2

\* The account in a state of the book.
LEMMA RestoredNow ==
  ASSUME IInv
  PROVE  /\ Recovered = Restored(jnl, Missing(closeEvs, jnl.ids))
         /\ jnl \in Journal /\ Missing(closeEvs, jnl.ids) \subseteq EventOf({"close"})
         /\ \A e \in Missing(closeEvs, jnl.ids) : EventKey(e) \notin jnl.ids
         /\ \A e, f \in Missing(closeEvs, jnl.ids) : e = f
<1>1. Unjournaled = Missing(closeEvs, jnl.ids)
  BY MissingAreCloses DEF Missing
<1> QED BY <1>1 DEF Recovered, Restored, IInv, EventInv, AtMostOneUnjournaled, TypeOK, Missing

\* And after a step.
LEMMA RestoredNext ==
  ASSUME IInv'
  PROVE  /\ Recovered' = Restored(jnl', Missing(closeEvs', jnl'.ids))
         /\ jnl' \in Journal /\ Missing(closeEvs', jnl'.ids) \subseteq EventOf({"close"})
         /\ \A e \in Missing(closeEvs', jnl'.ids) : EventKey(e) \notin jnl'.ids
         /\ \A e, f \in Missing(closeEvs', jnl'.ids) : e = f
<1>1. Unjournaled' = Missing(closeEvs', jnl'.ids)
  BY DEF IInv, EventInv, OpenMirrorsAreJournaled, Unjournaled, Durable, EventKey, OpenEvent,
         Missing
<1> QED BY <1>1 DEF Recovered, Restored, IInv, EventInv, AtMostOneUnjournaled, TypeOK, Missing

\* What a restart would restore is a journal.
LEMMA RestoredType ==
  ASSUME NEW j \in Journal, NEW miss, miss \subseteq EventOf({"close"})
  PROVE  Restored(j, miss) \in Journal
<1>1. CASE miss = {}
  BY <1>1 DEF Restored
<1>2. CASE miss # {}
  <2> DEFINE e == CHOOSE x \in miss : TRUE
  <2>1. e \in EventOf({"open", "close"})
    BY <1>2 DEF EventOf
  <2>2. Record(j, e) \in Journal
    BY <2>1, RecordType
  <2> QED BY <1>2, <2>2 DEF Restored
<1> QED BY <1>1, <1>2

\* Its accounts are integers.
LEMMA AccountTypes ==
  ASSUME IInv
  PROVE  /\ Recovered \in Journal
         /\ Recovered.cash \in Int /\ Recovered.realised \in Int
         /\ Recovered.accrued - Recovered.total \in Int
<1>1. Recovered \in Journal
  BY RestoredNow, RestoredType
<1> QED BY <1>1 DEF Journal

\* And stay integers.
LEMMA AccountTypesNext ==
  ASSUME IInv'
  PROVE  /\ Recovered'.cash \in Int /\ Recovered'.realised \in Int
         /\ Recovered'.accrued - Recovered'.total \in Int
<1>1. Recovered' \in Journal
  BY RestoredNext, RestoredType
<1> QED BY <1>1 DEF Journal

\* A journal that misses no close is what a restart restores.
LEMMA NothingMissing ==
  ASSUME IInv, Missing(closeEvs, jnl.ids) = {}
  PROVE  Recovered = jnl
BY RestoredNow, RestoredFields

---------------------------------------------------------------------------
(* Steps of the account. *)

\* A step that keeps what a restart would restore is invisible.
SameAccount ==
  /\ Recovered'.cash = Recovered.cash /\ Recovered'.realised = Recovered.realised
  /\ Recovered'.accrued - Recovered'.total = Recovered.accrued - Recovered.total

LEMMA Invisible ==
  ASSUME SameAccount, UNCHANGED <<status, fills>>
  PROVE  UNCHANGED Account!account
<1>1. Stage' = Stage
  BY DEF Stage
<1> QED BY <1>1 DEF SameAccount, Account!account

\* Appending the missing close to the journal is what a restart would have done.
LEMMA AppendingIsInvisible ==
  ASSUME IInv, IInv', NEW e \in closeEvs, EventKey(e) \notin jnl.ids, jnl' = Record(jnl, e),
         closeEvs' = closeEvs
  PROVE  SameAccount
<1> DEFINE now == Missing(closeEvs, jnl.ids)
           next == Missing(closeEvs', jnl'.ids)
<1>1. /\ jnl'.cash = jnl.cash + e.gross - ExitFee
      /\ jnl'.realised = jnl.realised + e.gross - ExitFee - EntryFee - e.funding
      /\ jnl'.accrued = jnl.accrued /\ jnl'.total = jnl.total + e.funding
      /\ now = {e} /\ next = {}
  BY SettleEffect
<1>2. Recovered' = jnl'
  BY <1>1, RestoredNext, RestoredFields
<1>3. /\ Recovered.cash = jnl.cash + e.gross - ExitFee
      /\ Recovered.realised = jnl.realised + e.gross - ExitFee - EntryFee - e.funding
      /\ Recovered.accrued = jnl.accrued /\ Recovered.total = jnl.total + e.funding
  BY <1>1, RestoredNow, RestoredFields
<1> QED BY <1>1, <1>2, <1>3 DEF SameAccount

\* A step that keeps closes, the journal's accounts and its close ids.
LEMMA SameJournal ==
  ASSUME IInv, IInv', UNCHANGED closeEvs,
         jnl' = jnl \/ (\E p : jnl' = [jnl EXCEPT !.ids = @ \cup {<<"open", p>>}])
  PROVE  SameAccount
<1> DEFINE now == Missing(closeEvs, jnl.ids)
           next == Missing(closeEvs', jnl'.ids)
<1>1. /\ jnl'.cash = jnl.cash /\ jnl'.realised = jnl.realised
      /\ jnl'.accrued = jnl.accrued /\ jnl'.total = jnl.total
      /\ jnl'.ids = jnl.ids \/ \E p : jnl'.ids = jnl.ids \cup {<<"open", p>>}
  BY RestoredNow DEF Journal
<1>2. next = now
  BY <1>1, BookFacts DEF Missing
<1>3. CASE now = {}
  <2>1. Recovered = jnl /\ Recovered' = jnl'
    BY <1>2, <1>3, RestoredNow, RestoredNext, RestoredFields
  <2> QED BY <1>1, <2>1 DEF SameAccount
<1>4. ASSUME NEW e \in now
      PROVE  SameAccount
  <2>1. /\ Recovered.cash = jnl.cash + e.gross - ExitFee
        /\ Recovered.realised = jnl.realised + e.gross - ExitFee - EntryFee - e.funding
        /\ Recovered.accrued = jnl.accrued /\ Recovered.total = jnl.total + e.funding
    BY <1>4, RestoredNow, RestoredFields
  <2>2. /\ Recovered'.cash = jnl'.cash + e.gross - ExitFee
        /\ Recovered'.realised = jnl'.realised + e.gross - ExitFee - EntryFee - e.funding
        /\ Recovered'.accrued = jnl'.accrued /\ Recovered'.total = jnl'.total + e.funding
    BY <1>2, <1>4, RestoredNext, RestoredFields
  <2> QED BY <1>1, <2>1, <2>2 DEF SameAccount
<1> QED BY <1>3, <1>4

\* _apply_open pays the entry fee of the next position.
LEMMA FillPays ==
  ASSUME IInv, IInv', NEW s \in Symbols, NEW k \in Terms, FillEntry(s, k)
  PROVE  Account!PayEntry(fills + 1)
<1>1. /\ fills + 1 \in Pos /\ fills' = fills + 1 /\ status[fills + 1] = "none"
      /\ status' = status /\ closeEvs' = closeEvs /\ phase = "up" /\ flight = {}
      /\ jnl'.ids = jnl.ids /\ jnl'.cash = jnl.cash - EntryFee
      /\ jnl'.realised = jnl.realised /\ jnl'.accrued = jnl.accrued /\ jnl'.total = jnl.total
  BY FillEffect
<1>2. Missing(closeEvs, jnl.ids) = {} /\ Missing(closeEvs', jnl'.ids) = {}
  BY <1>1, MissingIsInFlight
<1>3. Recovered = jnl /\ Recovered' = jnl'
  BY <1>2, RestoredNow, RestoredNext, RestoredFields
<1>4. fills \in Nat
  BY BookFacts, BoundsAssumption
<1>5. Stage[fills + 1] = "new" /\ Stage' = [Stage EXCEPT ![fills + 1] = "paid"]
  <2>1. Stage[fills + 1] = "new"
    BY <1>1, <1>4 DEF Stage
  <2>2. ASSUME NEW p \in Pos PROVE Stage'[p] = [Stage EXCEPT ![fills + 1] = "paid"][p]
    <3>1. CASE p = fills + 1
      BY <1>1, <1>4, <3>1 DEF Stage
    <3>2. CASE p # fills + 1
      <4>1. p <= fills' <=> p <= fills
        BY <1>1, <1>4, <3>2 DEF Pos
      <4> QED BY <1>1, <3>2, <4>1 DEF Stage
    <3> QED BY <3>1, <3>2
  <2> QED BY <2>1, <2>2 DEF Stage
<1> QED BY <1>1, <1>3, <1>5 DEF Account!PayEntry

\* Ledger.open_position records the position whose fee was paid.
LEMMA RecordOpens ==
  ASSUME IInv, IInv', RecordEntry
  PROVE  fills \in Pos /\ Account!RecordPosition(fills)
<1>1. /\ status' = [status EXCEPT ![fills] = "open"] /\ fills \in Pos /\ status[fills] = "none"
      /\ UNCHANGED <<fills, jnl, closeEvs>>
  BY BookFacts DEF RecordEntry, Holding, Running, EntryInv, HolderAt, Threads, Main, Pos, envVars
<1>2. SameAccount
  BY <1>1, SameJournal
<1>3. Stage[fills] = "paid" /\ Stage' = [Stage EXCEPT ![fills] = "open"]
  <2>1. Stage[fills] = "paid"
    BY <1>1 DEF Stage, Pos
  <2>2. ASSUME NEW p \in Pos PROVE Stage'[p] = [Stage EXCEPT ![fills] = "open"][p]
    BY <1>1, BookFacts DEF Stage
  <2> QED BY <2>1, <2>2 DEF Stage
<1> QED BY <1>1, <1>2, <1>3 DEF Account!RecordPosition, SameAccount

\* settle_paper_close closes the position and adds its event, and with that the
\* close counts in what a restart would restore.
LEMMA CommitEffect ==
  ASSUME IInv, IInv', NEW t \in Threads, NEW g \in Gross, CommitClose(t, g)
  PROVE  \E e \in EventOf({"close"}) :
           /\ e.gross = g /\ e.pos \in Pos /\ status[e.pos] = "open"
           /\ e.sym \in Held /\ ram[e.sym].pos = e.pos /\ e.funding = ram[e.sym].funding
           /\ status' = [status EXCEPT ![e.pos] = "closed"]
           /\ closeEvs' = closeEvs \cup {e} /\ e \notin closeEvs /\ fills' = fills
           /\ Recovered'.cash = Recovered.cash + g - ExitFee
           /\ Recovered'.realised = Recovered.realised + g - ExitFee - EntryFee - e.funding
           /\ Recovered'.accrued = Recovered.accrued
           /\ Recovered'.total = Recovered.total + e.funding
<1> USE BookFacts
<1>1. PICK i \in cur :
        /\ ram[i.sym] # NoRow
        /\ status' = [status EXCEPT ![FindOpen(i.sym)] = "closed"]
        /\ closeEvs' = closeEvs \cup
             {[kind |-> "close", sym |-> i.sym, pos |-> FindOpen(i.sym), gross |-> g,
               funding |-> ram[i.sym].funding, reason |-> i.reason, seen |-> i.seen]}
  BY DEF CommitClose
<1> DEFINE e == [kind |-> "close", sym |-> i.sym, pos |-> FindOpen(i.sym), gross |-> g,
                 funding |-> ram[i.sym].funding, reason |-> i.reason, seen |-> i.seen]
<1>2. /\ e.pos = FindOpen(i.sym) /\ e.kind = "close" /\ e.gross = g
      /\ e.sym = i.sym /\ e.funding = ram[i.sym].funding
      /\ closeEvs' = closeEvs \cup {e}
      /\ status' = [status EXCEPT ![e.pos] = "closed"]
  BY <1>1
<1> HIDE DEF e
<1>3. /\ phase = "up" /\ flight = {} /\ UNCHANGED <<jnl, fills>>
  BY DEF CommitClose, Holding, Running, brokerVars, envVars
<1>4. e.pos \in Pos /\ status[e.pos] = "open" /\ deal[e.pos].sym = e.sym
  BY <1>1, <1>2, FindOpenIsOpen DEF LockInv, OpenOn
<1>5. Missing(closeEvs, jnl.ids) = {}
  BY <1>3, MissingIsInFlight
<1>6. e \notin closeEvs
  BY <1>4 DEF EventInv, SettledOnce, ClosedEvent
<1>7. e \in Missing(closeEvs', jnl'.ids)
  BY <1>2, <1>3, <1>4 DEF EventInv, SettledOnce, ClosedEvent, Missing, EventKey
<1>8. e \in EventOf({"close"})
  BY <1>7, RestoredNext
<1>9. Recovered = jnl
  BY <1>5, NothingMissing
<1>10. /\ Recovered'.cash = jnl'.cash + e.gross - ExitFee
       /\ Recovered'.realised = jnl'.realised + e.gross - ExitFee - EntryFee - e.funding
       /\ Recovered'.accrued = jnl'.accrued /\ Recovered'.total = jnl'.total + e.funding
  BY <1>7, RestoredNext, RestoredFields
<1>11. /\ Recovered'.cash = Recovered.cash + g - ExitFee
       /\ Recovered'.realised = Recovered.realised + g - ExitFee - EntryFee - e.funding
       /\ Recovered'.accrued = Recovered.accrued
       /\ Recovered'.total = Recovered.total + e.funding
  BY <1>2, <1>3, <1>9, <1>10
<1>12. ram[e.sym].pos = e.pos /\ e.sym \in Symbols
  BY <1>3, <1>4, <1>8 DEF RowInv, OpenPositionsAreWatched, EventOf
<1>13. e.sym \in Held /\ e.funding = ram[e.sym].funding
  BY <1>2, <1>4, <1>12 DEF Held, Pos
<1> QED BY <1>2, <1>3, <1>4, <1>6, <1>8, <1>11, <1>12, <1>13

\* In the account that is one close.
LEMMA CommitCloses ==
  ASSUME IInv, IInv', NEW t \in Threads, NEW g \in Gross, CommitClose(t, g)
  PROVE  \E p \in Pos : Account!Close(p)
<1>1. PICK e \in EventOf({"close"}) :
        /\ e.pos \in Pos /\ status[e.pos] = "open"
        /\ status' = [status EXCEPT ![e.pos] = "closed"] /\ fills' = fills
        /\ Recovered'.cash = Recovered.cash + g - ExitFee
        /\ Recovered'.realised = Recovered.realised + g - ExitFee - EntryFee - e.funding
        /\ Recovered'.accrued = Recovered.accrued
        /\ Recovered'.total = Recovered.total + e.funding
  BY CommitEffect
<1>2. Stage[e.pos] = "open" /\ Stage' = [Stage EXCEPT ![e.pos] = "closed"]
  <2>1. Stage[e.pos] = "open"
    BY <1>1 DEF Stage
  <2>2. ASSUME NEW p \in Pos PROVE Stage'[p] = [Stage EXCEPT ![e.pos] = "closed"][p]
    BY <1>1, BookFacts DEF Stage
  <2> QED BY <2>1, <2>2 DEF Stage
<1>3. /\ Recovered.realised \in Int /\ Recovered.accrued \in Int /\ Recovered.total \in Int
      /\ e.funding \in Int
  BY AccountTypes DEF Journal, EventOf
<1>4. Recovered'.realised = Recovered.realised + g - ExitFee - EntryFee
         + ((Recovered'.accrued - Recovered'.total) - (Recovered.accrued - Recovered.total))
  BY <1>1, <1>3, AmountsAssumption
<1> QED BY <1>1, <1>2, <1>4 DEF Account!Close

\* accrue_funding takes the step out of cash and adds it to what is accrued.
LEMMA AccrualEffect ==
  ASSUME IInv, IInv', HeldInv, NEW t \in Threads, NEW s \in Symbols, NEW f \in FundingTargets,
         AccrueFunding(t, s, f)
  PROVE  \E p \in Pos, step \in Int :
           /\ p <= fills /\ status[p] # "closed" /\ UNCHANGED <<status, fills, closeEvs>>
           /\ paid' = [paid EXCEPT ![p] = @ + step]
           /\ Recovered'.cash = Recovered.cash - step
           /\ Recovered'.realised = Recovered.realised
           /\ Recovered'.accrued = Recovered.accrued + step
           /\ Recovered'.total = Recovered.total
<1> DEFINE p == ram[s].pos
           step == f - ram[s].funding
<1> HIDE DEF step
<1>1. step = f - ram[s].funding
  BY DEF step
<1>2. /\ p \in Pos /\ p <= fills /\ status[p] # "closed" /\ phase = "up" /\ flight = {}
      /\ step \in Int /\ jnl'.ids = jnl.ids /\ paid' = [paid EXCEPT ![p] = @ + step]
      /\ jnl'.cash = jnl.cash - step /\ jnl'.realised = jnl.realised
      /\ jnl'.accrued = jnl.accrued + step /\ jnl'.total = jnl.total
  BY <1>1, AccrueEffect
<1>3. UNCHANGED <<status, fills, closeEvs>>
  BY DEF AccrueFunding, dbVars, envVars
<1> HIDE DEF p
<1>4. Missing(closeEvs, jnl.ids) = {} /\ Missing(closeEvs', jnl'.ids) = {}
  BY <1>2, <1>3, MissingIsInFlight
<1>5. Recovered = jnl /\ Recovered' = jnl'
  BY <1>4, RestoredNow, RestoredNext, RestoredFields
<1> QED BY <1>2, <1>3, <1>5

\* In the account it moves cash into the funding not yet realised.
LEMMA AccrualFunds ==
  ASSUME IInv, IInv', HeldInv, NEW t \in Threads, NEW s \in Symbols, NEW f \in FundingTargets,
         AccrueFunding(t, s, f)
  PROVE  Account!Fund
<1>1. PICK p \in Pos, step \in Int :
        /\ p <= fills /\ status[p] # "closed" /\ UNCHANGED <<status, fills>>
        /\ Recovered'.cash = Recovered.cash - step
        /\ Recovered'.realised = Recovered.realised
        /\ Recovered'.accrued = Recovered.accrued + step
        /\ Recovered'.total = Recovered.total
  BY AccrualEffect
<1>2. Stage' = Stage /\ Stage[p] \in {"paid", "open"}
  BY <1>1, BookFacts DEF Stage
<1>3. Recovered.cash \in Int /\ Recovered.accrued \in Int /\ Recovered.total \in Int
  BY AccountTypes DEF Journal
<1>4. Recovered'.cash + (Recovered'.accrued - Recovered'.total)
        = Recovered.cash + (Recovered.accrued - Recovered.total)
  BY <1>1, <1>3
<1> QED BY <1>1, <1>2, <1>4 DEF Account!Fund

\* What no fill, close or accrual does, a restart would not notice.
Unnoticed ==
  /\ SameAccount /\ UNCHANGED <<fills, closeEvs, paid>>
  /\ RecordEntry \/ status' = status

\* Every step of the book fills, closes, accrues or goes unnoticed.
LEMMA FourKinds ==
  ASSUME IInv, IInv', [Next]_vars
  PROVE  \/ \E s \in Symbols, k \in Terms : FillEntry(s, k)
         \/ \E t \in Threads, g \in Gross : CommitClose(t, g)
         \/ \E t \in Threads, s \in Symbols, f \in FundingTargets : AccrueFunding(t, s, f)
         \/ Unnoticed
<1> DEFINE Loud == \/ \E s \in Symbols, k \in Terms : FillEntry(s, k)
                   \/ \E t \in Threads, s \in Symbols, f \in FundingTargets :
                        AccrueFunding(t, s, f)
<1>1. Loud \/ (paid' = paid /\ fills' = fills)
  BY PaidFrame, FillsFrame
<1>2. ASSUME RecordEntry
      PROVE  SameAccount /\ closeEvs' = closeEvs
  <2>1. UNCHANGED <<jnl, closeEvs>>
    BY <1>2 DEF RecordEntry
  <2> QED BY <2>1, SameJournal
<1>3. ASSUME UNCHANGED bookVars
      PROVE  SameAccount /\ closeEvs' = closeEvs /\ status' = status
  <2>1. jnl' = jnl /\ closeEvs' = closeEvs /\ status' = status
    BY <1>3 DEF bookVars, dbVars
  <2> QED BY <2>1, SameJournal
<1>4. ASSUME StampEntry \/ MirrorEntry
      PROVE  SameAccount /\ closeEvs' = closeEvs /\ status' = status
  <2>1. /\ closeEvs' = closeEvs /\ status' = status
        /\ jnl' = jnl \/ (\E p : jnl' = [jnl EXCEPT !.ids = @ \cup {<<"open", p>>}])
    BY <1>4 DEF StampEntry, MirrorEntry, dbVars
  <2> QED BY <2>1, SameJournal
<1>5. ASSUME NEW t \in Threads, NEW i \in prep[t], SkipUnledgered(t, i)
      PROVE  SameAccount /\ closeEvs' = closeEvs /\ status' = status
  <2>1. closeEvs' = closeEvs /\ status' = status /\ jnl' = jnl
    BY <1>5, SkipKeepsBook DEF SkipUnledgered, dbVars
  <2> QED BY <2>1, SameJournal
<1>6. ASSUME NEW t \in Threads, ApplyClose(t)
      PROVE  SameAccount /\ closeEvs' = closeEvs /\ status' = status
  <2>1. PICK e \in flight : ApplyJournalClose(e)
    BY <1>6 DEF ApplyClose
  <2>2. phase = "up" /\ UNCHANGED <<status, closeEvs>>
    BY <1>6 DEF ApplyClose, Holding, Running, dbVars
  <2>3. e \in closeEvs /\ EventKey(e) \notin jnl.ids /\ EventKey(e) \notin applied
        /\ ram[e.sym] # NoRow
    BY <2>1, <2>2, MissingIsInFlight, BookFacts DEF Missing, EventInv, SettledOnce, RowInv
  <2>4. jnl' = Record(jnl, e)
    BY <2>1, <2>3 DEF ApplyJournalClose
  <2> QED BY <2>2, <2>3, <2>4, AppendingIsInvisible
<1>7. ASSUME Crash \/ Restart
      PROVE  SameAccount /\ closeEvs' = closeEvs /\ status' = status
  <2>1. closeEvs' = closeEvs /\ status' = status /\ jnl' = jnl
    BY <1>7 DEF Crash, Restart, dbVars
  <2> QED BY <2>1, SameJournal
<1>8. ASSUME NEW e \in Unjournaled, Recover(e)
      PROVE  SameAccount /\ closeEvs' = closeEvs /\ status' = status
  <2>1. e \in closeEvs /\ EventKey(e) \notin jnl.ids
    BY MissingAreCloses
  <2>2. jnl' = Record(jnl, e) /\ UNCHANGED <<status, closeEvs>>
    BY <1>8 DEF Recover, dbVars
  <2> QED BY <2>1, <2>2, AppendingIsInvisible
<1>9. \/ Loud
      \/ \E t \in Threads, g \in Gross : CommitClose(t, g)
      \/ SameAccount /\ closeEvs' = closeEvs /\ (RecordEntry \/ status' = status)
  <2>1. CASE UNCHANGED bookVars
    BY <1>3, <2>1
  <2>2. CASE \E t \in Threads : \/ \E i \in prep[t] : SkipUnledgered(t, i)
                                \/ \E g \in Gross : CommitClose(t, g)
                                \/ ApplyClose(t)
                                \/ \E s \in Symbols, f \in FundingTargets : AccrueFunding(t, s, f)
    BY <1>5, <1>6, <2>2
  <2>3. CASE \E s \in Symbols, k \in Terms : FillEntry(s, k)
    BY <2>3
  <2>4. CASE RecordEntry \/ StampEntry \/ MirrorEntry \/ Crash \/ Restart
    BY <1>2, <1>4, <1>7, <2>4
  <2>5. CASE \E e \in Unjournaled : Recover(e)
    BY <1>8, <2>5
  <2> QED BY <2>1, <2>2, <2>3, <2>4, <2>5, LoudSteps
<1> QED BY <1>1, <1>9 DEF Unnoticed

\* Every step of the book is a step of the account, or none.
LEMMA EveryStep ==
  ASSUME IInv, IInv', HeldInv, [Next]_vars
  PROVE  Account!Next \/ UNCHANGED Account!account
<1>1. ASSUME NEW s \in Symbols, NEW k \in Terms, FillEntry(s, k)
      PROVE  Account!Next
  <2>1. fills + 1 \in Pos
    BY <1>1, FillEffect
  <2> QED BY <1>1, <2>1, FillPays DEF Account!Next
<1>2. ASSUME NEW t \in Threads, NEW g \in Gross, CommitClose(t, g)
      PROVE  Account!Next
  BY <1>2, CommitCloses DEF Account!Next
<1>3. ASSUME NEW t \in Threads, NEW s \in Symbols, NEW f \in FundingTargets,
             AccrueFunding(t, s, f)
      PROVE  Account!Next
  BY <1>3, AccrualFunds DEF Account!Next
<1>4. ASSUME Unnoticed
      PROVE  Account!Next \/ UNCHANGED Account!account
  <2>1. CASE RecordEntry
    BY <2>1, RecordOpens DEF Account!Next
  <2>2. CASE status' = status
    BY <1>4, <2>2, Invisible DEF Unnoticed
  <2> QED BY <1>4, <2>1, <2>2 DEF Unnoticed
<1> QED BY <1>1, <1>2, <1>3, <1>4, FourKinds

\* The desk's first state is an account of the starting capital.
LEMMA StartsEmpty == Init => Account!Init
<1> SUFFICES ASSUME Init PROVE Account!Init OBVIOUS
<1>1. Unjournaled = {}
  BY DEF Init, Unjournaled, Durable
<1>2. Recovered = jnl
  BY <1>1 DEF Recovered
<1>3. Stage = [p \in Pos |-> "new"]
  BY DEF Init, Stage, Pos
<1> QED BY <1>2, <1>3 DEF Init, Account!Init

\* paper.py, paper_cash.py and paper_settle.py against the account they keep:
\* whatever the threads, failed writes and deaths, what a restart would restore
\* moves by one entry, record, funding step or close at a time, and by no death.
THEOREM BookIsOneAccount == Spec => ImplementsAccount
<1>1. Init => Account!Init
  BY StartsEmpty
<1>2. OwnInv /\ OwnInv' /\ [Next]_vars => [Account!Next]_(Account!account)
  BY EveryStep DEF OwnInv
<1> QED BY <1>1, <1>2, Owned, PTL DEF Spec, ImplementsAccount, Account!Spec

---------------------------------------------------------------------------
(* The identity of an open book. *)

\* Positions whose entry fee is paid and not yet realised.
Live(st) == {p \in Pos : st[p] \in {"paid", "open"}}

\* They are finitely many, and one entry or close counts one.
LEMMA LiveCount ==
  ASSUME NEW st
  PROVE  /\ IsFiniteSet(Live(st)) /\ Cardinality(Live(st)) \in Nat
         /\ \A x : x \notin Live(st) =>
              Cardinality(Live(st) \cup {x}) = Cardinality(Live(st)) + 1
         /\ \A x \in Live(st) : Cardinality(Live(st) \ {x}) = Cardinality(Live(st)) - 1
<1>1. IsFiniteSet(Pos)
  BY FS_Interval, BoundsAssumption DEF Pos
<1>2. Live(st) \in SUBSET Pos
  BY DEF Live
<1>3. IsFiniteSet(Live(st))
  BY <1>1, <1>2, FS_Subset
<1>4. Cardinality(Live(st)) \in Nat
  BY <1>3, FS_CardinalityType
<1> QED BY <1>3, <1>4, FS_AddElement, FS_RemoveElement

\* The account counts the same way.
LEMMA SameCount ==
  ASSUME NEW S
  PROVE  Account!Cardinality(S) = Cardinality(S)
BY DEF Account!Cardinality, Cardinality

\* One more or one fewer fee.
LEMMA OneFee ==
  ASSUME NEW a \in Int, NEW n \in Int
  PROVE  a * (n + 1) = a * n + a /\ a * (n - 1) = a * n - a /\ a * n \in Int
OBVIOUS

\* Every step of the account keeps the identity.
LEMMA StaysBalanced ==
  ASSUME IInv, IInv', Account!Identity, Account!Next \/ UNCHANGED Account!account
  PROVE  Account!Identity'
<1> DEFINE c == Recovered.cash
           r == Recovered.realised
           h == Recovered.accrued - Recovered.total
           cc == Recovered'.cash
           rr == Recovered'.realised
           hh == Recovered'.accrued - Recovered'.total
           n == Cardinality(Live(Stage))
           nn == Cardinality(Live(Stage'))
<1>1. c \in Int /\ r \in Int /\ h \in Int /\ cc \in Int /\ rr \in Int /\ hh \in Int
  BY AccountTypes, AccountTypesNext
<1>2. n \in Int /\ nn \in Int
  BY LiveCount
<1>3. c = Capital + r - h - EntryFee * n
  <2>1. Cardinality({p \in Pos : Stage[p] \in {"paid", "open"}}) = n
    BY DEF Live
  <2>2. c = Capital + r - h - EntryFee * Cardinality({p \in Pos : Stage[p] \in {"paid", "open"}})
    BY SameCount DEF Account!Identity
  <2> QED BY <2>1, <2>2
<1>4. cc = Capital + rr - hh - EntryFee * nn => Account!Identity'
  <2>1. Cardinality({p \in Pos : Stage'[p] \in {"paid", "open"}}) = nn
    BY DEF Live
  <2>2. cc = Capital + rr - hh
               - EntryFee * Cardinality({p \in Pos : Stage'[p] \in {"paid", "open"}})
          => Account!Identity'
    BY SameCount DEF Account!Identity
  <2> QED BY <2>1, <2>2
<1>5. /\ EntryFee * (n + 1) = EntryFee * n + EntryFee
      /\ EntryFee * (n - 1) = EntryFee * n - EntryFee
      /\ EntryFee * n \in Int
  BY <1>2, OneFee, AmountsAssumption
<1>6. ASSUME NEW p \in Pos, Account!PayEntry(p)
      PROVE  cc = c - EntryFee /\ rr = r /\ hh = h /\ nn = n + 1
  <2>1. cc = c - EntryFee /\ rr = r /\ hh = h /\ Stage[p] = "new"
        /\ Stage' = [Stage EXCEPT ![p] = "paid"]
    BY <1>6 DEF Account!PayEntry
  <2>2. Live(Stage') = Live(Stage) \cup {p} /\ p \notin Live(Stage)
    BY <2>1 DEF Live, Stage
  <2> QED BY <2>1, <2>2, LiveCount
<1>7. ASSUME NEW p \in Pos, Account!RecordPosition(p)
      PROVE  cc = c /\ rr = r /\ hh = h /\ nn = n
  <2>1. cc = c /\ rr = r /\ hh = h /\ Stage[p] = "paid"
        /\ Stage' = [Stage EXCEPT ![p] = "open"]
    BY <1>7 DEF Account!RecordPosition
  <2>2. Live(Stage') = Live(Stage)
    BY <2>1 DEF Live, Stage
  <2> QED BY <2>1, <2>2
<1>8. ASSUME NEW p \in Pos, Account!Close(p)
      PROVE  nn = n - 1 /\ \E g \in Int : /\ cc = c + g - ExitFee
                                          /\ rr = r + g - ExitFee - EntryFee + (hh - h)
  <2>1. Stage[p] = "open" /\ Stage' = [Stage EXCEPT ![p] = "closed"]
    BY <1>8 DEF Account!Close
  <2>2. \E g \in Gross : cc = c + g - ExitFee /\ rr = r + g - ExitFee - EntryFee + (hh - h)
    BY <1>8 DEF Account!Close
  <2>3. Live(Stage') = Live(Stage) \ {p} /\ p \in Live(Stage)
    BY <2>1 DEF Live, Stage
  <2>4. nn = n - 1
    BY <2>3, LiveCount
  <2> QED BY <2>2, <2>4, AmountsAssumption
<1>9. ASSUME Account!Fund
      PROVE  cc + hh = c + h /\ rr = r /\ nn = n
  BY <1>9 DEF Account!Fund
<1>10. ASSUME UNCHANGED Account!account
       PROVE  cc = c /\ rr = r /\ hh = h /\ nn = n
  BY <1>10 DEF Account!account
<1> HIDE DEF c, r, h, cc, rr, hh, n, nn
<1>11. ASSUME NEW p \in Pos, Account!PayEntry(p)
       PROVE  cc = Capital + rr - hh - EntryFee * nn
  BY <1>1, <1>2, <1>3, <1>5, <1>6, <1>11, AmountsAssumption
<1>12. ASSUME NEW p \in Pos, Account!RecordPosition(p)
       PROVE  cc = Capital + rr - hh - EntryFee * nn
  BY <1>3, <1>7, <1>12
<1>13. ASSUME NEW p \in Pos, Account!Close(p)
       PROVE  cc = Capital + rr - hh - EntryFee * nn
  <2>1. PICK g \in Int : /\ cc = c + g - ExitFee
                         /\ rr = r + g - ExitFee - EntryFee + (hh - h)
    BY <1>8, <1>13
  <2>2. EntryFee * nn = EntryFee * n - EntryFee
    BY <1>5, <1>8, <1>13
  <2> DEFINE fees == EntryFee * n
  <2>3. fees \in Int /\ c = Capital + r - h - fees /\ EntryFee * nn = fees - EntryFee
    BY <1>3, <1>5, <2>2
  <2> HIDE DEF fees
  <2>4. cc = Capital + rr - hh - (fees - EntryFee)
    BY <1>1, <2>1, <2>3, AmountsAssumption
  <2> QED BY <2>3, <2>4
<1>14. ASSUME Account!Fund
       PROVE  cc = Capital + rr - hh - EntryFee * nn
  <2> DEFINE fees == EntryFee * n
  <2>1. fees \in Int /\ c = Capital + r - h - fees /\ EntryFee * nn = fees
    BY <1>3, <1>5, <1>9, <1>14
  <2> HIDE DEF fees
  <2>2. cc = Capital + rr - hh - fees
    BY <1>1, <1>9, <1>14, <2>1, AmountsAssumption
  <2> QED BY <2>1, <2>2
<1>15. ASSUME UNCHANGED Account!account
       PROVE  cc = Capital + rr - hh - EntryFee * nn
  BY <1>3, <1>10, <1>15
<1> QED BY <1>4, <1>11, <1>12, <1>13, <1>14, <1>15 DEF Account!Next

\* The comment on replay_events: on an open book, cash is the capital and the
\* realised P&L, less the funding and the entry fees of what is still held, for
\* every number of positions and every amount.
THEOREM OpenBookBalances == Spec => []AccountIdentity
<1>1. Init => AccountIdentity
  <2> SUFFICES ASSUME Init PROVE Account!Identity BY DEF AccountIdentity
  <2>1. Account!Init
    BY StartsEmpty
  <2>2. {p \in Pos : Stage[p] \in {"paid", "open"}} = {}
    BY <2>1 DEF Account!Init
  <2>3. Cardinality({p \in Pos : Stage[p] \in {"paid", "open"}}) = 0
    BY <2>2, FS_EmptySet
  <2>4. Recovered.cash = Capital /\ Recovered.realised = 0
        /\ Recovered.accrued - Recovered.total = 0
    BY <2>1 DEF Account!Init
  <2>5. Capital = Capital + 0 - 0 - EntryFee * 0
    BY AmountsAssumption
  <2>6. Recovered.cash = Capital + Recovered.realised - (Recovered.accrued - Recovered.total)
          - EntryFee * Cardinality({p \in Pos : Stage[p] \in {"paid", "open"}})
    BY <2>3, <2>4, <2>5
  <2> QED BY <2>6, SameCount DEF Account!Identity
<1>2. OwnInv /\ OwnInv' /\ [Next]_vars /\ AccountIdentity => AccountIdentity'
  BY EveryStep, StaysBalanced DEF OwnInv, AccountIdentity
<1> QED BY <1>1, <1>2, Owned, PTL DEF Spec

---------------------------------------------------------------------------
(***************************************************************************)
(* Sums over finite sets                                                   *)
(***************************************************************************)

\* Induction on the numbers in a set.
LEMMA CountUp ==
  ASSUME NEW G, 0 \in G, \A n \in Nat : n \in G => n + 1 \in G
  PROVE  \A n \in Nat : n \in G
<1> DEFINE Bad == {n \in Nat : n \notin G}
<1>1. SUFFICES ASSUME Bad # {} PROVE FALSE
  OBVIOUS
<1>2. PICK x \in Bad : \A y \in Bad : ~(<<y, x>> \in OpToRel(<, Nat))
  BY <1>1, NatLessThanWellFounded, WFMin
<1>3. x \in Nat /\ x \notin G /\ x # 0
  OBVIOUS
<1>4. x - 1 \in Nat /\ x - 1 < x /\ (x - 1) + 1 = x
  BY <1>3
<1>5. <<x - 1, x>> \in Nat \X Nat /\ <<x - 1, x>>[1] < <<x - 1, x>>[2]
  BY <1>3, <1>4
<1>6. <<x - 1, x>> \in OpToRel(<, Nat)
  BY <1>5, Zenon DEF OpToRel
<1>7. x - 1 \in G
  BY <1>2, <1>4, <1>6
<1> QED BY <1>3, <1>4, <1>7

\* The element a fold takes out first, and what it computes over the subsets
\* of S.
Pick(S) == CHOOSE x \in S : TRUE
IsFold(h, f, S) ==
  h = [s \in SUBSET S |-> IF s = {} THEN 0 ELSE f[Pick(s)] + h[s \ {Pick(s)}]]
Total(f, S) == (CHOOSE h : IsFold(h, f, S))[S]

\* Taking out the picked element leaves one element less.
LEMMA Picked ==
  ASSUME NEW S, IsFiniteSet(S), S # {}
  PROVE  /\ Pick(S) \in S /\ IsFiniteSet(S \ {Pick(S)})
         /\ Cardinality(S) \in Nat /\ Cardinality(S) # 0
         /\ Cardinality(S \ {Pick(S)}) = Cardinality(S) - 1
<1>1. Pick(S) \in S
  BY DEF Pick
<1> QED BY <1>1, FS_RemoveElement, FS_CardinalityType, FS_EmptySet

\* The value of a fold at a subset.
LEMMA FoldAt ==
  ASSUME NEW h, NEW f, NEW S, IsFold(h, f, S), NEW s \in SUBSET S
  PROVE  /\ s = {} => h[s] = 0
         /\ s # {} => h[s] = f[Pick(s)] + h[s \ {Pick(s)}]
<1> DEFINE val(t) == IF t = {} THEN 0 ELSE f[Pick(t)] + h[t \ {Pick(t)}]
<1>1. h = [t \in SUBSET S |-> val(t)]
  BY Zenon DEF IsFold
<1>2. h[s] = val(s)
  <2> HIDE DEF val
  <2> QED BY <1>1
<1> QED BY <1>2

\* Folds over a finite set of integers exist.
LEMMA FoldExists ==
  ASSUME NEW f, NEW D, IsFiniteSet(D), \A x \in D : f[x] \in Int
  PROVE  \E h : IsFold(h, f, D) /\ \A s \in SUBSET D : h[s] \in Int
<1> DEFINE Upto(n) == {s \in SUBSET D : Cardinality(s) <= n}
           val(h, s) == IF s = {} THEN 0 ELSE f[Pick(s)] + h[s \ {Pick(s)}]
           Part(h, n) == /\ \A s \in Upto(n) : h[s] = val(h, s) /\ h[s] \in Int
           G == {n \in Nat : \E h : Part(h, n)}
<1>0. \A s \in SUBSET D : IsFiniteSet(s) /\ Cardinality(s) \in Nat /\ Cardinality(s) <= Cardinality(D)
  BY FS_Subset, FS_CardinalityType
<1>1. 0 \in G
  <2> DEFINE h == [s \in SUBSET D |-> 0]
  <2>1. ASSUME NEW s \in Upto(0) PROVE h[s] = val(h, s) /\ h[s] \in Int
    <3>1. s = {}
      BY <1>0, FS_EmptySet
    <3> QED BY <3>1
  <2> HIDE DEF h, Upto, val
  <2>2. Part(h, 0)
    BY <2>1
  <2> QED BY <2>2
<1>2. ASSUME NEW n \in Nat, n \in G PROVE n + 1 \in G
  <2>1. PICK h : Part(h, n)
    BY <1>2
  <2> DEFINE g == [s \in SUBSET D |-> val(h, s)]
  <2>2. ASSUME NEW s \in Upto(n + 1), s # {}
        PROVE  Pick(s) \in D /\ s \ {Pick(s)} \in Upto(n)
    BY <1>0, <2>2, Picked
  <2>3. \A s \in Upto(n + 1) : g[s] = val(h, s)
    <3> HIDE DEF val
    <3> QED OBVIOUS
  <2>4. ASSUME NEW s \in Upto(n) PROVE g[s] = h[s]
    <3>1. s \in Upto(n + 1)
      BY <1>0
    <3> HIDE DEF val, g, Upto
    <3> QED BY <2>1, <2>3, <3>1
  <2> HIDE DEF g, Upto
  <2>5. ASSUME NEW s \in Upto(n + 1) PROVE g[s] = val(g, s) /\ g[s] \in Int
    <3>1. CASE s = {}
      BY <2>3, <3>1
    <3>2. CASE s # {}
      <4>1. /\ f[Pick(s)] \in Int /\ h[s \ {Pick(s)}] \in Int
            /\ g[s \ {Pick(s)}] = h[s \ {Pick(s)}]
        BY <2>1, <2>2, <2>4, <3>2
      <4> QED BY <2>3, <3>2, <4>1
    <3> QED BY <3>1, <3>2
  <2>6. Part(g, n + 1)
    <3> HIDE DEF val
    <3> QED BY <2>5
  <2> HIDE DEF Part
  <2> QED BY <2>6
<1>3. Cardinality(D) \in G
  <2> HIDE DEF G
  <2>1. \A n \in Nat : n \in G
    BY <1>1, <1>2, CountUp
  <2> QED BY <2>1, FS_CardinalityType
<1>4. PICK h : Part(h, Cardinality(D))
  BY <1>3
<1>5. \A s \in SUBSET D : h[s] = val(h, s) /\ h[s] \in Int
  BY <1>0, <1>4
<1> DEFINE k == [s \in SUBSET D |-> val(h, s)]
<1>6. \A s \in SUBSET D : k[s] = h[s]
  BY <1>5
<1>7. \A s \in SUBSET D : val(k, s) = val(h, s)
  <2> SUFFICES ASSUME NEW s \in SUBSET D, s # {} PROVE k[s \ {Pick(s)}] = h[s \ {Pick(s)}]
    OBVIOUS
  <2> QED BY <1>6
<1>8. k = [s \in SUBSET D |-> val(k, s)]
  <2> HIDE DEF val
  <2> QED BY <1>7
<1> HIDE DEF k
<1>9. IsFold(k, f, D)
  BY <1>8, Zenon DEF IsFold
<1> QED BY <1>5, <1>6, <1>9

\* Two folds agree where the functions do.
LEMMA FoldsAgree ==
  ASSUME NEW h, NEW f, NEW S, IsFold(h, f, S), NEW g, NEW e, NEW T, IsFold(g, e, T),
         NEW U, IsFiniteSet(U), U \subseteq S, U \subseteq T, \A x \in U : f[x] = e[x]
  PROVE  h[U] = g[U]
<1> DEFINE G == {n \in Nat : \A u \in SUBSET U : Cardinality(u) = n => h[u] = g[u]}
<1>0. \A u \in SUBSET U : IsFiniteSet(u) /\ Cardinality(u) \in Nat
  BY FS_Subset, FS_CardinalityType
<1>1. 0 \in G
  <2>1. ASSUME NEW u \in SUBSET U, Cardinality(u) = 0 PROVE h[u] = g[u]
    <3>1. u = {}
      BY <1>0, <2>1, FS_EmptySet
    <3>2. h[{}] = 0 /\ g[{}] = 0
      <4>1. {} \in SUBSET S /\ {} \in SUBSET T
        OBVIOUS
      <4> QED BY <4>1, FoldAt
    <3> QED BY <3>1, <3>2
  <2> QED BY <2>1
<1>2. ASSUME NEW n \in Nat, n \in G PROVE n + 1 \in G
  <2>1. ASSUME NEW u \in SUBSET U, Cardinality(u) = n + 1 PROVE h[u] = g[u]
    <3>1. u # {}
      BY <2>1, FS_EmptySet
    <3>2. /\ Pick(u) \in u /\ Cardinality(u \ {Pick(u)}) = n
          /\ u \ {Pick(u)} \in SUBSET U
      BY <1>0, <2>1, <3>1, Picked
    <3>3. h[u \ {Pick(u)}] = g[u \ {Pick(u)}]
      BY <1>2, <3>2
    <3>4. /\ h[u] = f[Pick(u)] + h[u \ {Pick(u)}]
          /\ g[u] = e[Pick(u)] + g[u \ {Pick(u)}]
      <4>1. u \in SUBSET S /\ u \in SUBSET T
        OBVIOUS
      <4> QED BY <3>1, <4>1, FoldAt
    <3> QED BY <3>2, <3>3, <3>4
  <2> QED BY <2>1
<1>3. Cardinality(U) \in G
  <2> HIDE DEF G
  <2>1. \A n \in Nat : n \in G
    BY <1>1, <1>2, CountUp
  <2> QED BY <1>0, <2>1
<1> QED BY <1>3

\* One fold over a finite set holds the totals of all its subsets.
LEMMA TotalIsFold ==
  ASSUME NEW f, NEW S, IsFiniteSet(S), \A x \in S : f[x] \in Int
  PROVE  \E h : /\ IsFold(h, f, S)
                /\ \A U \in SUBSET S : h[U] \in Int /\ Total(f, U) = h[U]
<1>1. PICK h : IsFold(h, f, S) /\ \A s \in SUBSET S : h[s] \in Int
  BY FoldExists
<1>2. ASSUME NEW U \in SUBSET S PROVE Total(f, U) = h[U]
  <2> DEFINE k == CHOOSE g : IsFold(g, f, U)
  <2>1. IsFiniteSet(U) /\ \A x \in U : f[x] \in Int
    BY FS_Subset
  <2>2. \E g : IsFold(g, f, U)
    BY <2>1, FoldExists
  <2>3. IsFold(k, f, U)
    BY <2>2, Zenon
  <2> HIDE DEF k
  <2>4. k[U] = h[U]
    BY <1>1, <2>1, <2>3, FoldsAgree
  <2> QED BY <2>4 DEF Total, k
<1> QED BY <1>1, <1>2

\* A total is an integer, nothing totals nothing, and any element can be taken
\* out first.
LEMMA TotalFacts ==
  ASSUME NEW f, NEW S, IsFiniteSet(S), \A x \in S : f[x] \in Int
  PROVE  /\ Total(f, S) \in Int /\ Total(f, {}) = 0
         /\ \A x \in S : Total(f, S) = f[x] + Total(f, S \ {x})
<1>1. PICK h : /\ IsFold(h, f, S)
               /\ \A U \in SUBSET S : h[U] \in Int /\ Total(f, U) = h[U]
  BY TotalIsFold
<1> DEFINE G == {n \in Nat : \A u \in SUBSET S : Cardinality(u) = n =>
                               \A x \in u : h[u] = f[x] + h[u \ {x}]}
<1>0. \A u \in SUBSET S : IsFiniteSet(u) /\ Cardinality(u) \in Nat
  BY FS_Subset, FS_CardinalityType
<1>2. 0 \in G
  <2>1. \A u \in SUBSET S : Cardinality(u) = 0 => u = {}
    BY <1>0, FS_EmptySet
  <2> QED BY <2>1
<1>3. ASSUME NEW n \in Nat, n \in G PROVE n + 1 \in G
  <2>1. ASSUME NEW u \in SUBSET S, Cardinality(u) = n + 1, NEW x \in u
        PROVE  h[u] = f[x] + h[u \ {x}]
    <3> DEFINE y == Pick(u)
    <3>1. y \in u /\ Cardinality(u \ {y}) = n /\ h[u] = f[y] + h[u \ {y}]
      <4>1. u # {} /\ IsFiniteSet(u)
        BY <1>0
      <4>2. Pick(u) \in u /\ Cardinality(u \ {Pick(u)}) = (n + 1) - 1
        BY <2>1, <4>1, Picked
      <4>3. h[u] = f[Pick(u)] + h[u \ {Pick(u)}]
        BY <1>1, <4>1, FoldAt
      <4> QED BY <4>2, <4>3
    <3> HIDE DEF y
    <3>2. CASE x = y
      BY <3>1, <3>2
    <3>3. CASE x # y
      <4>1. /\ u \ {y} \in SUBSET S /\ x \in u \ {y}
            /\ u \ {x} \in SUBSET S /\ y \in u \ {x}
            /\ (u \ {x}) \ {y} = (u \ {y}) \ {x} /\ (u \ {y}) \ {x} \in SUBSET S
        BY <3>1, <3>3
      <4>2. Cardinality(u \ {x}) = n
        <5>1. IsFiniteSet(u)
          BY <1>0
        <5>2. Cardinality(u \ {x}) = Cardinality(u) - 1
          BY <5>1, FS_RemoveElement
        <5> QED BY <2>1, <5>2
      <4>3. h[u \ {y}] = f[x] + h[(u \ {y}) \ {x}]
        BY <1>3, <3>1, <4>1
      <4>4. h[u \ {x}] = f[y] + h[(u \ {x}) \ {y}]
        BY <1>3, <4>1, <4>2
      <4>5. f[x] \in Int /\ f[y] \in Int
        BY <3>1
      <4>6. h[(u \ {y}) \ {x}] \in Int
        BY <1>1, <4>1
      <4>7. h[u \ {x}] = f[y] + h[(u \ {y}) \ {x}]
        BY <4>1, <4>4
      <4>8. h[u] \in Int /\ h[u \ {y}] \in Int /\ h[u \ {x}] \in Int
        BY <1>1, <4>1
      <4> QED BY <3>1, <4>3, <4>5, <4>6, <4>7, <4>8
    <3> QED BY <3>2, <3>3
  <2> QED BY <2>1
<1>4. Cardinality(S) \in G
  <2> HIDE DEF G
  <2>1. \A n \in Nat : n \in G
    BY <1>2, <1>3, CountUp
  <2> QED BY <1>0, <2>1
<1>5. \A x \in S : h[S] = f[x] + h[S \ {x}]
  BY <1>4
<1>6. h[{}] = 0 /\ {} \in SUBSET S
  BY <1>1, FoldAt
<1> QED BY <1>1, <1>5, <1>6

\* A total depends on the function where it is summed only.
LEMMA TotalAgrees ==
  ASSUME NEW f, NEW g, NEW S, IsFiniteSet(S), \A x \in S : f[x] \in Int /\ g[x] = f[x]
  PROVE  Total(g, S) = Total(f, S)
<1>1. PICK h : IsFold(h, f, S) /\ Total(f, S) = h[S]
  BY TotalIsFold
<1>2. PICK k : IsFold(k, g, S) /\ Total(g, S) = k[S]
  BY TotalIsFold
<1> QED BY <1>1, <1>2, FoldsAgree

\* An element that was not counted adds its value.
LEMMA TotalAdds ==
  ASSUME NEW f, NEW S, IsFiniteSet(S), NEW x, x \notin S,
         \A y \in S \cup {x} : f[y] \in Int
  PROVE  Total(f, S \cup {x}) = Total(f, S) + f[x]
<1>1. IsFiniteSet(S \cup {x}) /\ (S \cup {x}) \ {x} = S
  BY FS_AddElement
<1>2. Total(f, S \cup {x}) = f[x] + Total(f, S)
  BY <1>1, TotalFacts
<1> QED BY <1>2, TotalFacts

\* Nothing but zeros total zero.
LEMMA TotalOfZeros ==
  ASSUME NEW f, NEW S, IsFiniteSet(S), \A x \in S : f[x] = 0
  PROVE  Total(f, S) = 0
<1> DEFINE zero == [s \in SUBSET S |-> 0]
<1>1. PICK h : IsFold(h, f, S) /\ Total(f, S) = h[S]
  BY TotalIsFold
<1>2. ASSUME NEW s \in SUBSET S, s # {} PROVE f[Pick(s)] + zero[s \ {Pick(s)}] = 0
  <2>1. Pick(s) \in s
    BY <1>2 DEF Pick
  <2> QED BY <2>1
<1>3. zero = [s \in SUBSET S |-> IF s = {} THEN 0 ELSE f[Pick(s)] + zero[s \ {Pick(s)}]]
  BY <1>2
<1>4. zero[S] = 0
  OBVIOUS
<1> HIDE DEF zero
<1>5. IsFold(zero, f, S)
  BY <1>3, Zenon DEF IsFold
<1> QED BY <1>1, <1>4, <1>5, FoldsAgree

\* One value that moves moves the total as much.
LEMMA TotalMoves ==
  ASSUME NEW f, NEW g, NEW S, IsFiniteSet(S), NEW x \in S, NEW d \in Int,
         \A y \in S : f[y] \in Int, g[x] = f[x] + d, \A y \in S : y # x => g[y] = f[y]
  PROVE  Total(g, S) = Total(f, S) + d
<1>1. IsFiniteSet(S \ {x})
  BY FS_RemoveElement
<1>2. Total(g, S \ {x}) = Total(f, S \ {x}) /\ Total(f, S \ {x}) \in Int
  BY <1>1, TotalAgrees, TotalFacts
<1>3. \A y \in S : g[y] \in Int
  OBVIOUS
<1>4. Total(g, S) = g[x] + Total(g, S \ {x}) /\ Total(f, S) = f[x] + Total(f, S \ {x})
  BY <1>3, TotalFacts
<1> QED BY <1>2, <1>4

---------------------------------------------------------------------------
(***************************************************************************)
(* The history of the account                                              *)
(***************************************************************************)

\* The sum of the funding paid is a total, in a state and after a step.
LEMMA PaidTotal ==
  SumOver(PaidOn, Pos) = Total(paid, Pos) /\ SumOver(PaidOn, Pos)' = Total(paid', Pos)
BY Zenon DEF SumOver, MapThenSumSet, MapThenFoldSet, PaidOn, Total, IsFold, Pick

\* What a close brings, as functions.
GrossOf == [e \in EventOf({"close"}) |-> GrossNet(e)]
NetOf == [e \in EventOf({"close"}) |-> NetPnl(e)]

\* They are integers.
LEMMA EventAmounts ==
  \A e \in EventOf({"close"}) : /\ GrossOf[e] = e.gross - ExitFee /\ GrossOf[e] \in Int
                                /\ NetOf[e] = e.gross - ExitFee - EntryFee - e.funding
                                /\ NetOf[e] \in Int
<1> SUFFICES ASSUME NEW e \in EventOf({"close"})
             PROVE  /\ GrossOf[e] = e.gross - ExitFee /\ GrossOf[e] \in Int
                    /\ NetOf[e] = e.gross - ExitFee - EntryFee - e.funding
                    /\ NetOf[e] \in Int
  OBVIOUS
<1>1. e.gross \in Int /\ e.funding \in Int
  BY DEF EventOf
<1>2. GrossOf[e] = e.gross - ExitFee /\ NetOf[e] = e.gross - ExitFee - EntryFee - e.funding
  BY DEF GrossOf, NetOf, GrossNet, NetPnl
<1> QED BY <1>1, <1>2, AmountsAssumption

\* The sum of what closes bring to cash is a total.
LEMMA GrossTotal ==
  ASSUME NEW S, S \subseteq EventOf({"close"})
  PROVE  SumOver(GrossNet, S) = Total(GrossOf, S)
<1> DEFINE byEvent(h) == h = [s \in SUBSET S |-> IF s = {} THEN 0
                                ELSE GrossNet(Pick(s)) + h[s \ {Pick(s)}]]
           byFold(h) == IsFold(h, GrossOf, S)
<1>1. ASSUME NEW s \in SUBSET S, s # {} PROVE GrossOf[Pick(s)] = GrossNet(Pick(s))
  <2>1. Pick(s) \in s
    BY <1>1 DEF Pick
  <2> QED BY <1>1, <2>1 DEF GrossOf
<1>2. ASSUME NEW h PROVE byEvent(h) <=> byFold(h)
  <2>1. [s \in SUBSET S |-> IF s = {} THEN 0 ELSE GrossNet(Pick(s)) + h[s \ {Pick(s)}]]
        = [s \in SUBSET S |-> IF s = {} THEN 0 ELSE GrossOf[Pick(s)] + h[s \ {Pick(s)}]]
    BY <1>1
  <2> QED BY <2>1, Zenon DEF IsFold
<1>3. (CHOOSE h : byEvent(h)) = (CHOOSE h : byFold(h))
  <2> HIDE DEF byEvent, byFold
  <2> QED BY <1>2, Zenon
<1>4. SumOver(GrossNet, S) = (CHOOSE h : byEvent(h))[S]
  BY Zenon DEF SumOver, MapThenSumSet, MapThenFoldSet, Pick
<1>5. Total(GrossOf, S) = (CHOOSE h : byFold(h))[S]
  BY Zenon DEF Total
<1> QED BY <1>3, <1>4, <1>5

\* And so is that of what they realise.
LEMMA RealisedTotal ==
  ASSUME NEW S, S \subseteq EventOf({"close"})
  PROVE  SumOver(NetPnl, S) = Total(NetOf, S)
<1> DEFINE byEvent(h) == h = [s \in SUBSET S |-> IF s = {} THEN 0
                                ELSE NetPnl(Pick(s)) + h[s \ {Pick(s)}]]
           byFold(h) == IsFold(h, NetOf, S)
<1>1. ASSUME NEW s \in SUBSET S, s # {} PROVE NetOf[Pick(s)] = NetPnl(Pick(s))
  <2>1. Pick(s) \in s
    BY <1>1 DEF Pick
  <2> QED BY <1>1, <2>1 DEF NetOf
<1>2. ASSUME NEW h PROVE byEvent(h) <=> byFold(h)
  <2>1. [s \in SUBSET S |-> IF s = {} THEN 0 ELSE NetPnl(Pick(s)) + h[s \ {Pick(s)}]]
        = [s \in SUBSET S |-> IF s = {} THEN 0 ELSE NetOf[Pick(s)] + h[s \ {Pick(s)}]]
    BY <1>1
  <2> QED BY <2>1, Zenon DEF IsFold
<1>3. (CHOOSE h : byEvent(h)) = (CHOOSE h : byFold(h))
  <2> HIDE DEF byEvent, byFold
  <2> QED BY <1>2, Zenon
<1>4. SumOver(NetPnl, S) = (CHOOSE h : byEvent(h))[S]
  BY Zenon DEF SumOver, MapThenSumSet, MapThenFoldSet, Pick
<1>5. Total(NetOf, S) = (CHOOSE h : byFold(h))[S]
  BY Zenon DEF Total
<1> QED BY <1>3, <1>4, <1>5

\* CashMatchesHistory of what a restart would restore, with totals.
Balanced(c, r, n, pays, evs) ==
  /\ c = Capital - EntryFee * n - Total(pays, Pos) + Total(GrossOf, evs)
  /\ r = Total(NetOf, evs)

LEMMA HistoryNow ==
  ASSUME closeEvs \subseteq EventOf({"close"})
  PROVE  RestoredHistory <=>
           Balanced(Recovered.cash, Recovered.realised, fills, paid, closeEvs)
BY PaidTotal, GrossTotal, RealisedTotal DEF RestoredHistory, Balanced

\* And after a step.
LEMMA HistoryNext ==
  ASSUME closeEvs' \subseteq EventOf({"close"})
  PROVE  RestoredHistory' <=>
           Balanced(Recovered'.cash, Recovered'.realised, fills', paid', closeEvs')
BY PaidTotal, GrossTotal, RealisedTotal DEF RestoredHistory, Balanced

\* Pos is finite and its funding integer.
LEMMA PaidFacts ==
  ASSUME IInv
  PROVE  /\ IsFiniteSet(Pos) /\ \A p \in Pos : paid[p] \in Int
         /\ Total(paid, Pos) \in Int /\ fills \in Int
<1>1. IsFiniteSet(Pos)
  BY FS_Interval, BoundsAssumption DEF Pos
<1>2. paid \in [Pos -> Int] /\ fills \in Int
  BY BoundsAssumption DEF IInv, TypeOK
<1> QED BY <1>1, <1>2, TotalFacts

\* Totals over finitely many closes are integers, and a new close adds its own.
LEMMA CloseTotals ==
  ASSUME NEW evs, IsFiniteSet(evs), evs \subseteq EventOf({"close"})
  PROVE  /\ Total(GrossOf, evs) \in Int /\ Total(NetOf, evs) \in Int
         /\ \A e \in EventOf({"close"}) : e \notin evs =>
              /\ Total(GrossOf, evs \cup {e}) = Total(GrossOf, evs) + GrossOf[e]
              /\ Total(NetOf, evs \cup {e}) = Total(NetOf, evs) + NetOf[e]
<1>1. \A e \in evs : GrossOf[e] \in Int /\ NetOf[e] \in Int
  BY EventAmounts
<1>2. Total(GrossOf, evs) \in Int /\ Total(NetOf, evs) \in Int
  BY <1>1, TotalFacts
<1>3. ASSUME NEW e \in EventOf({"close"}), e \notin evs
      PROVE  /\ Total(GrossOf, evs \cup {e}) = Total(GrossOf, evs) + GrossOf[e]
             /\ Total(NetOf, evs \cup {e}) = Total(NetOf, evs) + NetOf[e]
  <2>1. \A y \in evs \cup {e} : GrossOf[y] \in Int /\ NetOf[y] \in Int
    BY <1>1, EventAmounts
  <2> QED BY <1>3, <2>1, TotalAdds
<1> QED BY <1>2, <1>3

\* The history and the finiteness of its sums, inductive on OwnInv.
HistoryInv == RestoredHistory /\ IsFiniteSet(closeEvs)

\* A desk that has done nothing has no history.
LEMMA NoHistory == Init => HistoryInv
<1> SUFFICES ASSUME Init PROVE HistoryInv OBVIOUS
<1>1. IInv /\ closeEvs = {} /\ fills = 0 /\ paid = [p \in Pos |-> 0]
  BY InitOwn DEF OwnInv, Init
<1>2. Recovered.cash = Capital /\ Recovered.realised = 0
  BY StartsEmpty DEF Account!Init
<1>3. Total(paid, Pos) = 0
  BY <1>1, PaidFacts, TotalOfZeros
<1>4. Total(GrossOf, {}) = 0 /\ Total(NetOf, {}) = 0 /\ IsFiniteSet({})
  BY FS_EmptySet, TotalOfZeros
<1>5. Capital = Capital - EntryFee * 0 - 0 + 0
  BY AmountsAssumption
<1>6. Balanced(Recovered.cash, Recovered.realised, fills, paid, closeEvs)
  BY <1>1, <1>2, <1>3, <1>4, <1>5 DEF Balanced
<1> QED BY <1>1, <1>4, <1>6, HistoryNow DEF HistoryInv

\* _apply_open adds one entry fee.
LEMMA FillHistory ==
  ASSUME IInv, IInv', HistoryInv, NEW s \in Symbols, NEW k \in Terms, FillEntry(s, k)
  PROVE  HistoryInv'
<1>1. /\ Recovered'.cash = Recovered.cash - EntryFee
      /\ Recovered'.realised = Recovered.realised
  BY FillPays DEF Account!PayEntry
<1>2. fills' = fills + 1 /\ paid' = paid /\ closeEvs' = closeEvs
  BY FillEffect
<1>3. closeEvs \subseteq EventOf({"close"}) /\ IsFiniteSet(closeEvs)
  BY BookFacts DEF HistoryInv
<1> DEFINE m == Total(paid, Pos)
           g == Total(GrossOf, closeEvs)
           c == Recovered.cash
           cc == Recovered'.cash
           a == EntryFee * fills
           b == EntryFee * (fills + 1)
<1>4. m \in Int /\ g \in Int /\ c \in Int /\ a \in Int /\ b = a + EntryFee
  BY <1>3, PaidFacts, CloseTotals, AccountTypes, OneFee, AmountsAssumption
<1>5. c = Capital - a - m + g /\ Recovered.realised = Total(NetOf, closeEvs)
  BY <1>3, HistoryNow DEF HistoryInv, Balanced
<1>6. cc = c - EntryFee
  BY <1>1
<1> HIDE DEF m, g, c, cc, a, b
<1>7. cc = Capital - b - m + g
  BY <1>4, <1>5, <1>6, AmountsAssumption
<1>8. Balanced(Recovered'.cash, Recovered'.realised, fills', paid', closeEvs')
  BY <1>1, <1>2, <1>5, <1>7 DEF Balanced, m, g, cc, b
<1> QED BY <1>2, <1>3, <1>8, HistoryNext DEF HistoryInv

\* settle_paper_close adds one close, which was not there.
LEMMA CloseHistory ==
  ASSUME IInv, IInv', HistoryInv, NEW t \in Threads, NEW v \in Gross, CommitClose(t, v)
  PROVE  HistoryInv'
<1>1. PICK e \in EventOf({"close"}) :
        /\ e.gross = v /\ closeEvs' = closeEvs \cup {e} /\ e \notin closeEvs /\ fills' = fills
        /\ Recovered'.cash = Recovered.cash + v - ExitFee
        /\ Recovered'.realised = Recovered.realised + v - ExitFee - EntryFee - e.funding
  BY CommitEffect
<1>2. paid' = paid
  BY DEF CommitClose
<1>3. closeEvs \subseteq EventOf({"close"}) /\ IsFiniteSet(closeEvs)
  BY BookFacts DEF HistoryInv
<1>4. closeEvs' \subseteq EventOf({"close"}) /\ IsFiniteSet(closeEvs')
  BY <1>1, <1>3, FS_AddElement
<1> DEFINE m == Total(paid, Pos)
           g == Total(GrossOf, closeEvs)
           n == Total(NetOf, closeEvs)
           gg == Total(GrossOf, closeEvs')
           nn == Total(NetOf, closeEvs')
           c == Recovered.cash
           r == Recovered.realised
           cc == Recovered'.cash
           rr == Recovered'.realised
           a == EntryFee * fills
<1>5. m \in Int /\ g \in Int /\ n \in Int /\ c \in Int /\ r \in Int /\ a \in Int
  BY <1>3, PaidFacts, CloseTotals, AccountTypes, OneFee, AmountsAssumption
<1>6. c = Capital - a - m + g /\ r = n
  BY <1>3, HistoryNow DEF HistoryInv, Balanced
<1>7. gg = g + GrossOf[e] /\ nn = n + NetOf[e]
  BY <1>1, <1>3, CloseTotals
<1>8. cc = c + v - ExitFee /\ rr = r + v - ExitFee - EntryFee - e.funding
  BY <1>1
<1>9. /\ GrossOf[e] = v - ExitFee /\ NetOf[e] = v - ExitFee - EntryFee - e.funding
      /\ v \in Int /\ e.funding \in Int
  BY <1>1, EventAmounts, AmountsAssumption DEF EventOf
<1> HIDE DEF m, g, n, gg, nn, c, r, cc, rr, a
<1>10. cc = Capital - a - m + gg
  BY <1>5, <1>6, <1>7, <1>8, <1>9, AmountsAssumption
<1>11. rr = nn
  BY <1>5, <1>6, <1>7, <1>8, <1>9, AmountsAssumption
<1>12. Balanced(Recovered'.cash, Recovered'.realised, fills', paid', closeEvs')
  BY <1>1, <1>2, <1>10, <1>11 DEF Balanced, m, gg, nn, cc, rr, a
<1> QED BY <1>4, <1>12, HistoryNext DEF HistoryInv

\* accrue_funding adds its step to one position's funding.
LEMMA AccrualHistory ==
  ASSUME IInv, IInv', HeldInv, HistoryInv, NEW t \in Threads, NEW s \in Symbols,
         NEW f \in FundingTargets, AccrueFunding(t, s, f)
  PROVE  HistoryInv'
<1>1. PICK p \in Pos, step \in Int :
        /\ fills' = fills /\ closeEvs' = closeEvs
        /\ paid' = [paid EXCEPT ![p] = @ + step]
        /\ Recovered'.cash = Recovered.cash - step
        /\ Recovered'.realised = Recovered.realised
  BY AccrualEffect
<1>2. closeEvs \subseteq EventOf({"close"}) /\ IsFiniteSet(closeEvs)
  BY BookFacts DEF HistoryInv
<1>3. paid'[p] = paid[p] + step /\ \A q \in Pos : q # p => paid'[q] = paid[q]
  <2>1. paid \in [Pos -> Int]
    BY DEF IInv, TypeOK
  <2> QED BY <1>1, <2>1
<1> DEFINE m == Total(paid, Pos)
           mm == Total(paid', Pos)
           g == Total(GrossOf, closeEvs)
           c == Recovered.cash
           cc == Recovered'.cash
           a == EntryFee * fills
<1>4. mm = m + step
  BY <1>3, PaidFacts, TotalMoves
<1>5. m \in Int /\ g \in Int /\ c \in Int /\ a \in Int
  BY <1>2, PaidFacts, CloseTotals, AccountTypes, OneFee, AmountsAssumption
<1>6. c = Capital - a - m + g /\ Recovered.realised = Total(NetOf, closeEvs)
  BY <1>2, HistoryNow DEF HistoryInv, Balanced
<1>7. cc = c - step
  BY <1>1
<1> HIDE DEF m, mm, g, c, cc, a
<1>8. cc = Capital - a - mm + g
  BY <1>4, <1>5, <1>6, <1>7, AmountsAssumption
<1>9. Balanced(Recovered'.cash, Recovered'.realised, fills', paid', closeEvs')
  BY <1>1, <1>6, <1>8 DEF Balanced, mm, g, cc, a
<1> QED BY <1>1, <1>2, <1>9, HistoryNext DEF HistoryInv

\* Every step keeps the history.
LEMMA KeepsHistory ==
  ASSUME OwnInv, OwnInv', HistoryInv, [Next]_vars
  PROVE  HistoryInv'
<1>1. IInv /\ IInv' /\ HeldInv
  BY DEF OwnInv
<1>2. ASSUME Unnoticed
      PROVE  HistoryInv'
  <2>1. /\ UNCHANGED <<fills, closeEvs, paid>>
        /\ Recovered'.cash = Recovered.cash /\ Recovered'.realised = Recovered.realised
    BY <1>2 DEF Unnoticed, SameAccount
  <2>2. closeEvs \subseteq EventOf({"close"}) /\ IsFiniteSet(closeEvs)
    BY <1>1, BookFacts DEF HistoryInv
  <2>3. Balanced(Recovered.cash, Recovered.realised, fills, paid, closeEvs)
    BY <2>2, HistoryNow DEF HistoryInv
  <2>4. Balanced(Recovered'.cash, Recovered'.realised, fills', paid', closeEvs')
    BY <2>1, <2>3
  <2> QED BY <2>1, <2>2, <2>4, HistoryNext DEF HistoryInv
<1> QED BY <1>1, <1>2, FourKinds, FillHistory, CloseHistory, AccrualHistory

\* A restart, whenever it comes, restores the capital less every entry fee and
\* every funding step ever paid, and every settled close once.
THEOREM RestoresItsHistory == Spec => []RestoredHistory
<1>1. Init => HistoryInv
  BY NoHistory
<1>2. OwnInv /\ OwnInv' /\ [Next]_vars /\ HistoryInv => HistoryInv'
  BY KeepsHistory
<1>3. HistoryInv => RestoredHistory
  BY DEF HistoryInv
<1> QED BY <1>1, <1>2, <1>3, Owned, PTL DEF Spec

\* While the desk is up, what a restart would restore and the journal differ
\* by the close in flight.
LEMMA InFlight ==
  ASSUME IInv, RamIsJournal, phase = "up", HistoryInv
  PROVE  /\ cash = Capital - EntryFee * fills - Total(paid, Pos)
                     + Total(GrossOf, closeEvs \ flight)
         /\ realised = Total(NetOf, closeEvs \ flight)
<1>1. closeEvs \subseteq EventOf({"close"}) /\ IsFiniteSet(closeEvs) /\ flight \subseteq closeEvs
  BY BookFacts DEF HistoryInv
<1>2. Missing(closeEvs, jnl.ids) = flight
  BY MissingIsInFlight
<1>3. cash = jnl.cash /\ realised = jnl.realised
  BY DEF RamIsJournal
<1>4. /\ Recovered.cash = Capital - EntryFee * fills - Total(paid, Pos) + Total(GrossOf, closeEvs)
      /\ Recovered.realised = Total(NetOf, closeEvs)
  BY <1>1, HistoryNow DEF HistoryInv, Balanced
<1>5. CASE flight = {}
  <2>1. Recovered = jnl /\ closeEvs \ flight = closeEvs
    BY <1>2, <1>5, NothingMissing
  <2> QED BY <1>3, <1>4, <2>1
<1>6. ASSUME NEW e \in flight
      PROVE  /\ cash = Capital - EntryFee * fills - Total(paid, Pos)
                         + Total(GrossOf, closeEvs \ flight)
             /\ realised = Total(NetOf, closeEvs \ flight)
  <2> DEFINE rest == closeEvs \ flight
  <2>1. flight = {e} /\ e \in EventOf({"close"})
    BY <1>1, <1>2, <1>6, RestoredNow
  <2>2. /\ IsFiniteSet(rest) /\ rest \subseteq EventOf({"close"})
        /\ e \notin rest /\ closeEvs = rest \cup {e}
    BY <1>1, <1>6, <2>1, FS_RemoveElement
  <2>3. /\ Recovered.cash = jnl.cash + e.gross - ExitFee
        /\ Recovered.realised = jnl.realised + e.gross - ExitFee - EntryFee - e.funding
    BY <1>2, <1>6, RestoredNow, RestoredFields
  <2> HIDE DEF rest
  <2> DEFINE g == Total(GrossOf, rest)
             n == Total(NetOf, rest)
             m == Total(paid, Pos)
             a == EntryFee * fills
             jc == jnl.cash
             jr == jnl.realised
             x == e.gross
             y == e.funding
  <2>4. Total(GrossOf, closeEvs) = g + GrossOf[e] /\ Total(NetOf, closeEvs) = n + NetOf[e]
    BY <2>1, <2>2, CloseTotals
  <2>5. /\ GrossOf[e] = e.gross - ExitFee
        /\ NetOf[e] = e.gross - ExitFee - EntryFee - e.funding
        /\ x \in Int /\ y \in Int
    BY <2>1, EventAmounts DEF EventOf
  <2>6. g \in Int /\ n \in Int /\ m \in Int /\ a \in Int /\ jc \in Int /\ jr \in Int
    BY <2>2, PaidFacts, CloseTotals, RestoredNow, OneFee, AmountsAssumption DEF Journal
  <2>7. /\ jc + x - ExitFee = Capital - a - m + (g + (x - ExitFee))
        /\ jr + x - ExitFee - EntryFee - y = n + (x - ExitFee - EntryFee - y)
    BY <1>4, <2>3, <2>4, <2>5
  <2>8. x \in Int /\ y \in Int
    BY <2>5
  <2> HIDE DEF g, n, m, a, jc, jr, x, y
  <2>9. jc = Capital - a - m + g
    BY <2>6, <2>7, <2>8, AmountsAssumption
  <2>10. jr = n
    BY <2>6, <2>7, <2>8, AmountsAssumption
  <2> QED BY <1>3, <2>9, <2>10 DEF g, n, m, a, jc, jr, rest
<1> QED BY <1>5, <1>6

\* PaperBroker._cash and realised_pnl against everything that ever happened:
\* no interleaving, failed write, death, restart or replay loses, repeats or
\* changes an amount, for every number of positions and every amount.
THEOREM CashIsItsHistory == Spec => []CashMatchesHistory
<1>1. Init => HistoryInv
  BY NoHistory
<1>2. OwnInv /\ OwnInv' /\ [Next]_vars /\ HistoryInv => HistoryInv'
  BY KeepsHistory
<1>3. OwnInv /\ RamIsJournal /\ HistoryInv => CashMatchesHistory
  <2> SUFFICES ASSUME OwnInv, RamIsJournal, HistoryInv, phase = "up"
               PROVE  /\ cash = Capital - EntryFee * fills - SumOver(PaidOn, Pos)
                                  + SumOver(GrossNet, closeEvs \ flight)
                      /\ realised = SumOver(NetPnl, closeEvs \ flight)
    BY DEF CashMatchesHistory
  <2>1. IInv
    BY DEF OwnInv
  <2>2. closeEvs \ flight \subseteq EventOf({"close"})
    BY <2>1, BookFacts
  <2>3. /\ SumOver(GrossNet, closeEvs \ flight) = Total(GrossOf, closeEvs \ flight)
        /\ SumOver(NetPnl, closeEvs \ flight) = Total(NetOf, closeEvs \ flight)
    BY <2>2, GrossTotal, RealisedTotal
  <2> QED BY <2>1, <2>3, InFlight, PaidTotal
<1> QED BY <1>1, <1>2, <1>3, Owned, RestartKeepsCash, PTL DEF Spec

---------------------------------------------------------------------------
(***************************************************************************)
(* The funding still owed, and the identity of a flat book                 *)
(***************************************************************************)

\* Funding booked on the positions not closed, as a function.
OwedFor(st, pays) == [p \in Pos |-> IF st[p] = "closed" THEN 0 ELSE pays[p]]

\* The sum of FundingIsOwed is a total.
LEMMA OwedTotal == SumOver(OwedOn, Pos) = Total(OwedFor(status, paid), Pos)
<1> DEFINE val(h, s) == IF s = {} THEN 0 ELSE OwedOn(Pick(s)) + h[s \ {Pick(s)}]
           byPosition(h) == h = [s \in SUBSET Pos |-> val(h, s)]
           byFold(h) == IsFold(h, OwedFor(status, paid), Pos)
<1>1. ASSUME NEW s \in SUBSET Pos, s # {}
      PROVE  OwedFor(status, paid)[Pick(s)] = OwedOn(Pick(s))
  <2>1. Pick(s) \in s
    BY <1>1 DEF Pick
  <2> QED BY <1>1, <2>1 DEF OwedFor, OwedOn
<1>2. ASSUME NEW h PROVE byPosition(h) <=> byFold(h)
  <2>1. [s \in SUBSET Pos |-> val(h, s)]
        = [s \in SUBSET Pos |-> IF s = {} THEN 0
                                ELSE OwedFor(status, paid)[Pick(s)] + h[s \ {Pick(s)}]]
    BY <1>1
  <2> HIDE DEF val
  <2> QED BY <2>1, Zenon DEF IsFold
<1>3. (CHOOSE h : byPosition(h)) = (CHOOSE h : byFold(h))
  <2> HIDE DEF byPosition, byFold
  <2> QED BY <1>2, Zenon
<1>4. SumOver(OwedOn, Pos) = (CHOOSE h : byPosition(h))[Pos]
  BY Zenon DEF SumOver, MapThenSumSet, MapThenFoldSet, Pick, OwedOn
<1>5. Total(OwedFor(status, paid), Pos) = (CHOOSE h : byFold(h))[Pos]
  BY Zenon DEF Total
<1> QED BY <1>3, <1>4, <1>5

\* And after a step.
LEMMA OwedTotalNext == SumOver(OwedOn, Pos)' = Total(OwedFor(status', paid'), Pos)
<1> DEFINE val(h, s) == IF s = {} THEN 0 ELSE (IF status'[Pick(s)] = "closed" THEN 0 ELSE paid'[Pick(s)]) + h[s \ {Pick(s)}]
           byPosition(h) == h = [s \in SUBSET Pos |-> val(h, s)]
           byFold(h) == IsFold(h, OwedFor(status', paid'), Pos)
<1>1. ASSUME NEW s \in SUBSET Pos, s # {}
      PROVE  OwedFor(status', paid')[Pick(s)] = (IF status'[Pick(s)] = "closed" THEN 0 ELSE paid'[Pick(s)])
  <2>1. Pick(s) \in s
    BY <1>1 DEF Pick
  <2> QED BY <1>1, <2>1 DEF OwedFor, OwedOn
<1>2. ASSUME NEW h PROVE byPosition(h) <=> byFold(h)
  <2>1. [s \in SUBSET Pos |-> val(h, s)]
        = [s \in SUBSET Pos |-> IF s = {} THEN 0
                                ELSE OwedFor(status', paid')[Pick(s)] + h[s \ {Pick(s)}]]
    BY <1>1
  <2> HIDE DEF val
  <2> QED BY <2>1, Zenon DEF IsFold
<1>3. (CHOOSE h : byPosition(h)) = (CHOOSE h : byFold(h))
  <2> HIDE DEF byPosition, byFold
  <2> QED BY <1>2, Zenon
<1>4. SumOver(OwedOn, Pos)' = (CHOOSE h : byPosition(h))[Pos]
  BY Zenon DEF SumOver, MapThenSumSet, MapThenFoldSet, Pick, OwedOn
<1>5. Total(OwedFor(status', paid'), Pos) = (CHOOSE h : byFold(h))[Pos]
  BY Zenon DEF Total
<1> QED BY <1>3, <1>4, <1>5

\* Few enough troubles for every row to know its funding.
Few == Accounted \/ crashes <= 1

\* FundingIsOwed, now and after a step.
LEMMA OwedIs ==
  FundingIsOwed <=>
    (Few => Recovered.accrued - Recovered.total = Total(OwedFor(status, paid), Pos))
BY OwedTotal DEF FundingIsOwed, Few

LEMMA OwedWillBe ==
  FundingIsOwed' <=>
    (Few' => Recovered'.accrued - Recovered'.total = Total(OwedFor(status', paid'), Pos))
BY OwedTotalNext DEF FundingIsOwed, Few

\* Nothing is booked on a position before its fill.
LEMMA NothingOwed == Init => FundingIsOwed
<1> SUFFICES ASSUME Init PROVE FundingIsOwed OBVIOUS
<1>1. Recovered.accrued - Recovered.total = 0
  BY StartsEmpty DEF Account!Init
<1>2. \A p \in Pos : OwedFor(status, paid)[p] = 0
  BY DEF Init, OwedFor
<1>3. IsFiniteSet(Pos)
  BY InitOwn, PaidFacts DEF OwnInv
<1>4. Total(OwedFor(status, paid), Pos) = 0
  BY <1>2, <1>3, TotalOfZeros
<1> QED BY <1>1, <1>4, OwedIs

\* One position whose owed funding moves.
LEMMA OwedMoves ==
  ASSUME IInv, NEW p \in Pos, NEW d \in Int,
         OwedFor(status', paid')[p] = OwedFor(status, paid)[p] + d,
         \A q \in Pos : q # p => OwedFor(status', paid')[q] = OwedFor(status, paid)[q]
  PROVE  /\ Total(OwedFor(status', paid'), Pos) = Total(OwedFor(status, paid), Pos) + d
         /\ Total(OwedFor(status, paid), Pos) \in Int
<1>1. \A q \in Pos : OwedFor(status, paid)[q] \in Int
  BY PaidFacts DEF OwedFor
<1> QED BY <1>1, PaidFacts, TotalFacts, TotalMoves

\* What a restart would owe changes as the positions' funding does.
LEMMA KeepsOwed ==
  ASSUME OwnInv, OwnInv', FundingIsOwed, [Next]_vars
  PROVE  FundingIsOwed'
<1> DEFINE held == Recovered.accrued - Recovered.total
           heldNext == Recovered'.accrued - Recovered'.total
           owed == Total(OwedFor(status, paid), Pos)
           owedNext == Total(OwedFor(status', paid'), Pos)
<1>0. IInv /\ IInv' /\ HeldInv /\ (Few => FundingIsOwned)
  BY DEF OwnInv, FundInv, Few
<1>1. SUFFICES ASSUME Few' PROVE heldNext = owedNext
  BY OwedWillBe
<1>2. Few
  BY <1>0, <1>1, Counters, AccountedBack DEF Few
<1>3. held = owed
  BY <1>2, OwedIs
<1>4. ASSUME NEW s \in Symbols, NEW k \in Terms, FillEntry(s, k)
      PROVE  heldNext = owedNext
  <2>1. status' = status /\ paid' = paid
    BY <1>0, <1>4, FillEffect
  <2>2. heldNext = held
    BY <1>0, <1>4, FillPays DEF Account!PayEntry
  <2> QED BY <1>3, <2>1, <2>2
<1>5. ASSUME NEW t \in Threads, NEW g \in Gross, CommitClose(t, g)
      PROVE  heldNext = owedNext
  <2>1. PICK e \in EventOf({"close"}) :
          /\ e.pos \in Pos /\ status[e.pos] = "open"
          /\ e.sym \in Held /\ ram[e.sym].pos = e.pos /\ e.funding = ram[e.sym].funding
          /\ status' = [status EXCEPT ![e.pos] = "closed"]
          /\ Recovered'.accrued = Recovered.accrued
          /\ Recovered'.total = Recovered.total + e.funding
    BY <1>0, <1>5, CommitEffect
  <2>2. e.funding = paid[e.pos] /\ e.funding \in Int
    BY <1>0, <1>2, <2>1 DEF FundingIsOwned, EventOf
  <2>3. paid' = paid
    BY <1>5 DEF CommitClose
  <2> DEFINE d == -e.funding
  <2>4. d \in Int /\ heldNext = held + d
    BY <1>0, <2>1, <2>2, AccountTypes DEF Journal
  <2>5. /\ OwedFor(status', paid')[e.pos] = OwedFor(status, paid)[e.pos] + d
        /\ \A q \in Pos : q # e.pos => OwedFor(status', paid')[q] = OwedFor(status, paid)[q]
    BY <1>0, <2>1, <2>2, <2>3, BookFacts DEF OwedFor
  <2> HIDE DEF d
  <2>6. owedNext = owed + d
    BY <1>0, <2>1, <2>4, <2>5, OwedMoves
  <2> QED BY <1>3, <2>4, <2>6
<1>6. ASSUME NEW t \in Threads, NEW s \in Symbols, NEW f \in FundingTargets,
             AccrueFunding(t, s, f)
      PROVE  heldNext = owedNext
  <2>1. PICK p \in Pos, step \in Int :
          /\ status[p] # "closed" /\ status' = status
          /\ paid' = [paid EXCEPT ![p] = @ + step]
          /\ Recovered'.accrued = Recovered.accrued + step
          /\ Recovered'.total = Recovered.total
    BY <1>0, <1>6, AccrualEffect
  <2>2. heldNext = held + step
    BY <1>0, <2>1, AccountTypes DEF Journal
  <2>3. paid \in [Pos -> Int]
    BY <1>0 DEF IInv, TypeOK
  <2>4. /\ OwedFor(status', paid')[p] = OwedFor(status, paid)[p] + step
        /\ \A q \in Pos : q # p => OwedFor(status', paid')[q] = OwedFor(status, paid)[q]
    BY <2>1, <2>3 DEF OwedFor
  <2>5. owedNext = owed + step
    BY <1>0, <2>1, <2>4, OwedMoves
  <2> QED BY <1>3, <2>2, <2>5
<1>7. ASSUME Unnoticed
      PROVE  heldNext = owedNext
  <2>1. heldNext = held /\ paid' = paid /\ (RecordEntry \/ status' = status)
    BY <1>7 DEF Unnoticed, SameAccount
  <2>2. CASE RecordEntry
    <3>1. status' = [status EXCEPT ![fills] = "open"] /\ fills \in Pos /\ status[fills] = "none"
      BY <1>0, <2>2, BookFacts DEF RecordEntry, Holding, Running, EntryInv, HolderAt,
                                   Threads, Main, Pos
    <3>2. OwedFor(status', paid') = OwedFor(status, paid)
      BY <1>0, <2>1, <3>1, BookFacts DEF OwedFor
    <3> QED BY <1>3, <2>1, <3>2
  <2>3. CASE status' = status
    BY <1>3, <2>1, <2>3
  <2> QED BY <2>1, <2>2, <2>3
<1> QED BY <1>0, <1>4, <1>5, <1>6, <1>7, FourKinds

\* A ledger row once written stays, and an entry being recorded is written.
LEMMA StatusMoves ==
  ASSUME IInv, IInv', [Next]_vars, NEW p \in Pos, status'[p] = "none"
  PROVE  status[p] = "none" /\ (RecordEntry => p # fills)
<1>1. status \in [Pos -> {"none", "open", "closed"}]
  BY BookFacts
<1>2. CASE RecordEntry
  BY <1>1, <1>2 DEF RecordEntry
<1>3. CASE status' = status /\ ~RecordEntry
  BY <1>3
<1>4. ASSUME NEW t \in Threads, NEW g \in Gross, CommitClose(t, g)
      PROVE  status[p] = "none"
  <2>1. \E e : status' = [status EXCEPT ![e] = "closed"]
    BY <1>4 DEF CommitClose
  <2> QED BY <1>1, <2>1
<1>5. ASSUME NEW s \in Symbols, NEW k \in Terms, FillEntry(s, k)
      PROVE  status' = status
  BY <1>5 DEF FillEntry
<1>6. ASSUME NEW t \in Threads, NEW s \in Symbols, NEW f \in FundingTargets,
             AccrueFunding(t, s, f)
      PROVE  status' = status
  BY <1>6 DEF AccrueFunding, dbVars
<1>7. RecordEntry \/ status[p] = "none"
  BY <1>3, <1>4, <1>5, <1>6, FourKinds DEF Unnoticed
<1> QED BY <1>2, <1>7

\* A fill reaches the ledger in the hold that made it, or something failed.
LEMMA KeepsRecorded ==
  ASSUME IInv, IInv', FillsAreRecorded, [Next]_vars
  PROVE  FillsAreRecorded'
<1> SUFFICES ASSUME faults' = 0, crashes' = 0, NEW p \in 1 .. fills', status'[p] = "none"
             PROVE  HolderAt({"filled"})' /\ p = fills'
  BY DEF FillsAreRecorded, Recorded
<1>1. fills \in Nat /\ fills' \in Nat /\ faults = 0 /\ crashes = 0 /\ Recorded
  BY Counters DEF FillsAreRecorded
<1>2. p \in Pos
  BY <1>1, BoundsAssumption DEF IInv, TypeOK, Pos
<1>3. status[p] = "none" /\ (RecordEntry => p # fills)
  BY <1>2, StatusMoves
<1>4. ASSUME NEW s \in Symbols, NEW k \in Terms, FillEntry(s, k)
      PROVE  HolderAt({"filled"})' /\ p = fills'
  <2>1. fills' = fills + 1 /\ lock = Free /\ lock' = Main /\ pc' = [pc EXCEPT ![Main] = "filled"]
    BY <1>4 DEF FillEntry, Goto
  <2>2. HolderAt({"filled"})'
    BY <2>1 DEF HolderAt, Threads, Main, IInv, TypeOK
  <2>3. ~HolderAt({"filled"})
    BY <2>1 DEF HolderAt, Threads, Main, Exit, Free
  <2>4. p = fills' \/ p \in 1 .. fills
    BY <1>1, <2>1
  <2> QED BY <1>1, <1>3, <2>2, <2>3, <2>4 DEF Recorded
<1>5. CASE fills' = fills
  <2>1. HolderAt({"filled"}) /\ p = fills
    BY <1>1, <1>3, <1>5 DEF Recorded
  <2>2. ~RecordEntry /\ ~Crash
    BY <1>1, <1>3, <2>1 DEF Crash
  <2>3. HolderAt({"filled"})'
    BY <2>1, <2>2, FilledStays
  <2> QED BY <1>5, <2>1, <2>3
<1> QED BY <1>4, <1>5, FillsFrame

\* accrue_funding and the closes: what funding took from cash and no close
\* realised is what was booked on the positions not closed.
THEOREM FundingOwedIsBooked == Spec => []FundingIsOwed
<1>1. OwnInv /\ OwnInv' /\ [Next]_vars /\ FundingIsOwed => FundingIsOwed'
  BY KeepsOwed
<1> QED BY <1>1, NothingOwed, Owned, PTL DEF Spec

\* _place_order: without a failed write or a death, every fill but the one being
\* placed is in the ledger.
THEOREM EveryFillIsRecorded == Spec => []FillsAreRecorded
<1>1. Init => FillsAreRecorded
  BY DEF Init, FillsAreRecorded, Recorded
<1>2. OwnInv /\ OwnInv' /\ [Next]_vars /\ FillsAreRecorded => FillsAreRecorded'
  BY KeepsRecorded DEF OwnInv
<1> QED BY <1>1, <1>2, Owned, PTL DEF Spec

\* A flat book whose fills all have their row owes no funding, and no entry fee
\* outside the realised P&L.
LEMMA FlatIsBalanced ==
  ASSUME OwnInv, RamIsJournal, AccountIdentity, FundingIsOwed, Recorded
  PROVE  FlatBookIdentity
<1> SUFFICES ASSUME phase = "up", lock = Free, \A p \in Pos : status[p] # "open"
             PROVE  cash - Capital = realised
  BY DEF FlatBookIdentity
<1>0. IInv /\ FundInv
  BY DEF OwnInv
<1>1. Few /\ \A p \in Pos : p <= fills => status[p] = "closed"
  <2>1. ~HolderAt({"filled"})
    BY DEF HolderAt, Threads, Main, Exit, Free
  <2>2. \A p \in 1 .. fills : status[p] # "none"
    BY <2>1 DEF Recorded
  <2>3. ASSUME NEW p \in Pos, p <= fills PROVE status[p] = "closed"
    <3>1. p \in 1 .. fills /\ status[p] \in {"none", "open", "closed"}
      BY <1>0, <2>3, BookFacts DEF Pos
    <3> QED BY <2>2, <3>1
  <2> QED BY <2>3 DEF Few, Accounted
<1>2. \A p \in Pos : OwedFor(status, paid)[p] = 0
  <2> SUFFICES ASSUME NEW p \in Pos, status[p] # "closed" PROVE paid[p] = 0
    BY DEF OwedFor
  <2>1. p > fills
    BY <1>0, <1>1, PaidFacts DEF Pos
  <2> QED BY <1>0, <2>1 DEF FundInv
<1>3. Recovered.accrued - Recovered.total = 0
  <2>1. Total(OwedFor(status, paid), Pos) = 0
    BY <1>0, <1>2, PaidFacts, TotalOfZeros
  <2> QED BY <1>1, <2>1, OwedIs
<1>4. Cardinality({p \in Pos : Stage[p] \in {"paid", "open"}}) = 0
  <2>1. \A p \in Pos : Stage[p] \notin {"paid", "open"}
    BY <1>0, <1>1, BookFacts DEF Stage
  <2>2. {p \in Pos : Stage[p] \in {"paid", "open"}} = {}
    BY <2>1
  <2> QED BY <2>2, FS_EmptySet
<1>5. Recovered = jnl
  <2>1. flight = {}
    BY <1>0, BookFacts DEF Threads, Main, Exit, Free
  <2> QED BY <1>0, <2>1, MissingIsInFlight, NothingMissing
<1>6. cash = Recovered.cash /\ realised = Recovered.realised /\ realised \in Int
  BY <1>0, <1>5, AccountTypes DEF RamIsJournal
<1>7. Recovered.cash = Capital + Recovered.realised - 0 - EntryFee * 0
  <2>1. Recovered.cash = Capital + Recovered.realised - (Recovered.accrued - Recovered.total)
          - EntryFee * Cardinality({p \in Pos : Stage[p] \in {"paid", "open"}})
    BY SameCount DEF AccountIdentity, Account!Identity
  <2> QED BY <1>3, <1>4, <2>1
<1> QED BY <1>6, <1>7, AmountsAssumption

\* paper.py, the comment on realised_pnl: on a flat book, cash less the capital is
\* the realised P&L, whatever failed and however often the desk died, as long as
\* no fill was left without its row; FlatBook.cfg has the death that leaves one.
THEOREM FlatBookBalances == Spec => [](Recorded => FlatBookIdentity)
<1>1. OwnInv /\ RamIsJournal /\ AccountIdentity /\ FundingIsOwed =>
        (Recorded => FlatBookIdentity)
  BY FlatIsBalanced
<1> QED BY <1>1, Owned, RestartKeepsCash, OpenBookBalances, FundingOwedIsBooked, PTL

\* So it holds on every desk on which no write failed and nothing died.
COROLLARY QuietDeskBalances ==
  Spec => [](faults = 0 /\ crashes = 0 => FlatBookIdentity)
<1>1. FillsAreRecorded /\ (Recorded => FlatBookIdentity) =>
        (faults = 0 /\ crashes = 0 => FlatBookIdentity)
  BY DEF FillsAreRecorded
<1> QED BY <1>1, FlatBookBalances, EveryFillIsRecorded, PTL
============================================================================
