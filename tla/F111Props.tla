----------------------------- MODULE F111Props -----------------------------
(***************************************************************************)
(* Properties of F111.                                                     *)
(***************************************************************************)
EXTENDS F111

Levels == {x \in Int : x >= InitialStop}
Retests == [status : {"none", "watching", "scheduled", "filled", "rejected"},
            touched : BOOLEAN, next : {None} \cup Minutes, action : {None} \cup Minutes]
RowType == [id : 0..MaxRows, owner : {"none", "f111", "other"},
            stop : Levels \cup {SleeveStop}, ledgered : BOOLEAN]
ProtectionType ==
  [id : 0..MaxRows, last : {None} \cup Minutes, best : 0..Target, armed : BOOLEAN,
   eff : Levels, dec : Levels]

\* Every variable has its type.
TypeOK ==
  /\ clock \in Minutes /\ now \in Minutes
  /\ pc \in {"idle", "replay", "apply", "save", "hold"}
  /\ pending \in [Signals -> Retests] /\ seen \subseteq Signals
  /\ protection \in ProtectionType /\ lastExit \in {None} \cup Minutes
  /\ file.pending \in [Signals -> Retests] /\ file.seen \subseteq Signals
  /\ file.protection \in ProtectionType /\ file.lastExit \in {None} \cup Minutes
  /\ broker \in RowType /\ ledger \in RowType

\* An F111 entry is the minute after the first bar of its retest that closed
\* back beyond a boundary some bar of the retest had touched, whatever polls
\* were missed, repeated after a restart or slow, and never a later minute.
Reclaimed(s, m) == /\ s[1] \in bars[m].beyond
                   /\ \E k \in s[2]..m : s[1] \in bars[k].touch
FillIsConfirmed ==
  [][Len(fills') > Len(fills) =>
       LET s == fills'[Len(fills')].signal
           m == clock - 1
       IN  /\ m \in s[2]..Expiry(s) /\ Reclaimed(s, m)
           /\ \A k \in s[2]..(m - 1) : ~Reclaimed(s, k)]_vars

\* One process fills a signal at most once, although an exception can leave
\* the retest scheduled after the broker has filled it.
FilledOnce ==
  \A i, j \in DOMAIN fills : fills[i] = fills[j] => i = j

\* The stop of an F111 position is never loosened: not in the ledger, by any
\* step, restart or late protection record, and not in RAM within a process.
\* Nor does a protection that outlived its row loosen the stop of another's.
StopNeverLoosens ==
  [][/\ ledger'.id = ledger.id => ledger'.stop >= ledger.stop
     /\ broker'.id = broker.id /\ crashes' = crashes => broker'.stop >= broker.stop]_vars

\* A stop is raised only to a level an earlier sample decided: the quote that
\* decides a floor cannot be the quote it exits on.  (A minute sampled again,
\* because its update raised, counts as two samples.)
FloorWaitsASample ==
  [][broker'.id = broker.id /\ broker'.id = protection'.id /\ broker'.stop > broker.stop
       => protection.dec >= broker'.stop]_vars

\* f111_paper.py:1146: "True when the broker or the ledger still has the row."
\* A step under the lock, which protects the position it remembers, leaves a
\* row alone that another strategy opened on the symbol.
OtherRowsAreLeftAlone ==
  [][broker.owner = "other" /\ pc = "apply" /\ pc' = "hold" => broker' = broker]_vars

\* How far the promise above holds: under the lock, another strategy's row is
\* touched only by a process that still remembers the protection of an earlier
\* position of its own (f111_paper.py:1146).
OnlyStaleProtectionReaches ==
  [][broker.owner = "other" /\ pc = "apply" /\ pc' # pc /\ crashes' = crashes /\ broker' # broker
       => protection.id \notin {0, broker.id}]_vars

-----------------------------------------------------------------------------
(* The inductive invariant behind the safety properties. *)

\* The retest of a signal, at time t and with the bars bs: while it watches,
\* no bar before the one awaited confirms it; when scheduled, the bar before
\* its action is the first that does.
Touches(s, m, bs)  == \E k \in s[2]..m : s[1] \in bs[k].touch
Confirms(s, m, bs) == s[1] \in bs[m].beyond /\ Touches(s, m, bs)
RetestOK(p, s, t, bs) ==
  /\ p.status = "watching" =>
       /\ p.next \in s[2]..t
       /\ p.touched <=> Touches(s, p.next - 1, bs)
       /\ \A k \in s[2]..(p.next - 1) : ~Confirms(s, k, bs)
  /\ p.status = "scheduled" =>
       /\ p.action <= t /\ p.action - 1 \in s[2]..Expiry(s)
       /\ Confirms(s, p.action - 1, bs)
       /\ \A k \in s[2]..(p.action - 2) : ~Confirms(s, k, bs)

\* The retests p of the signals sn, in memory or in the file.
RetestsOK(p, sn, t, bs) ==
  \A s \in Signals : RetestOK(p[s], s, t, bs) /\ (p[s].status # "none" => s \in sn)

\* The book after n rows: a row in the ledger is the broker's, whose stop may
\* be tighter; what a sample decided is never behind what is effective.
BookType == [protection : ProtectionType, lastExit : {None} \cup Minutes,
             broker : RowType, ledger : RowType]
BookOK(b, n) ==
  /\ b \in BookType
  /\ b.broker.id <= n /\ b.ledger.id <= n
  /\ b.broker.id = 0 => b.broker = NoRow
  /\ b.ledger.id = 0 => b.ledger = NoRow
  /\ b.ledger.id # 0 => b.broker.id = b.ledger.id /\ b.ledger.stop <= b.broker.stop
  /\ b.protection.eff <= b.protection.dec

\* A row the broker has and the ledger never had: only a death removes it.
Stuck(br, ld) == br.id # 0 /\ ~br.ledgered /\ ld.id = 0

\* What this process (life c) filled is not scheduled, or blocked by the row.
Fill == [signal : Signals, life : Nat]
FillsOK(fs, p, br, ld, c) ==
  /\ fs \in Seq(Fill)
  /\ \A i \in DOMAIN fs : fs[i].life <= c
  /\ \A i \in DOMAIN fs : fs[i].life = c =>
       LET st == p[fs[i].signal].status
       IN  st \notin {"none", "watching"} /\ (st = "scheduled" => Stuck(br, ld))
  /\ \A i, j \in DOMAIN fs : fs[i] = fs[j] => i = j

IInv ==
  /\ TypeOK
  /\ bars \in [Minutes -> [touch : SUBSET Sides, beyond : SUBSET Sides]]
  /\ rows \in 0..MaxRows /\ crashes \in Nat /\ now <= clock
  /\ BookOK(Book, rows)
  /\ file.protection.eff <= file.protection.dec
  /\ RetestsOK(pending, seen, clock, bars)
  /\ RetestsOK(file.pending, file.seen, clock, bars)
  /\ FillsOK(fills, pending, broker, ledger, crashes)

\* The rows a protection can be of are F111's: the one in memory and the one
\* in the file (fid), which a restart reads; neither is of a row to come.
OwnRows(b, fid, n) ==
  /\ b.protection.id <= n /\ fid <= n
  /\ b.broker.id # 0 /\ b.broker.id \in {b.protection.id, fid} => b.broker.owner = "f111"
  /\ b.ledger.id # 0 /\ b.ledger.id \in {b.protection.id, fid} => b.ledger.owner = "f111"
OwnRowsInv == OwnRows(Book, file.protection.id, rows)
=============================================================================
