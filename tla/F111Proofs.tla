----------------------------- MODULE F111Proofs -----------------------------
(***************************************************************************)
(* Proofs about the F111 lifecycle, for any retest length, horizon, quotes,*)
(* funding and bars, and any number of rows, deaths and exceptions.        *)
(***************************************************************************)
EXTENDS F111Props, TLAPS, WellFoundedInduction

(***************************************************************************)
(* The book of the symbol                                                  *)
(***************************************************************************)

\* What no step may do to the stops of rows that stay: the ledger's is not
\* loosened, and the broker's is raised only to what was decided before.
Guarded(b, c) ==
  /\ c.ledger.id = b.ledger.id => c.ledger.stop >= b.ledger.stop
  /\ c.broker.id = b.broker.id /\ c.broker.id = c.protection.id /\ c.broker.stop > b.broker.stop
       => b.protection.dec >= c.broker.stop
\* What no step but a death may do: loosen the broker's stop, remove a row the
\* ledger never had.
Within(b, c) ==
  /\ c.broker.id = b.broker.id => c.broker.stop >= b.broker.stop
  /\ Stuck(b.broker, b.ledger) => Stuck(c.broker, c.ledger)
Advances(b, c) == Guarded(b, c) /\ Within(b, c)

\* The records a book starts from have their types.
LEMMA Blank ==
  /\ NoRow \in RowType /\ NoProtection \in ProtectionType
  /\ NoRow.id = 0 /\ NoRow.stop = InitialStop /\ NoProtection.id = 0
  /\ NoProtection.eff <= NoProtection.dec
BY F111Assumption DEF NoRow, NoProtection, RowType, ProtectionType, Levels, InitialStop, Target,
   None

\* The fields of a well-formed book have their types.
LEMMA BookFields ==
  ASSUME NEW b, NEW n \in Nat, BookOK(b, n)
  PROVE  /\ b.protection \in ProtectionType /\ b.lastExit \in {None} \cup Minutes
         /\ b.broker \in RowType /\ b.ledger \in RowType
         /\ b = [protection |-> b.protection, lastExit |-> b.lastExit,
                 broker |-> b.broker, ledger |-> b.ledger]
         /\ b.broker.id \in Nat /\ b.ledger.id \in Nat /\ b.protection.id \in Nat
         /\ b.broker.stop \in Int /\ b.ledger.stop \in Int
         /\ b.protection.eff \in Int /\ b.protection.dec \in Int
         /\ b.protection.eff >= InitialStop /\ b.protection.dec >= InitialStop
<1>1. b \in BookType
  BY DEF BookOK
<1>2. /\ b.protection \in ProtectionType /\ b.lastExit \in {None} \cup Minutes
      /\ b.broker \in RowType /\ b.ledger \in RowType
      /\ b = [protection |-> b.protection, lastExit |-> b.lastExit,
              broker |-> b.broker, ledger |-> b.ledger]
  BY <1>1 DEF BookType
<1>3. /\ b.broker.id \in Nat /\ b.ledger.id \in Nat
      /\ b.broker.stop \in Levels \cup {SleeveStop} /\ b.ledger.stop \in Levels \cup {SleeveStop}
  BY <1>2, F111Assumption DEF RowType
<1>4. b.protection.id \in Nat /\ b.protection.eff \in Levels /\ b.protection.dec \in Levels
  BY <1>2, F111Assumption DEF ProtectionType
<1> QED BY <1>2, <1>3, <1>4, F111Assumption DEF Levels

\* A book that did not change advances.
LEMMA Unchanged ==
  ASSUME NEW b, NEW n \in Nat, BookOK(b, n)
  PROVE  Advances(b, b)
BY BookFields DEF Advances, Guarded, Within

\* Dropping the protection of a position that is gone.
LEMMA DroppedBook ==
  ASSUME NEW b, NEW n \in Nat, BookOK(b, n), NEW t \in Minutes
  PROVE  /\ BookOK(Dropped(b, t), n)
         /\ Dropped(b, t).broker = b.broker /\ Dropped(b, t).ledger = b.ledger
         /\ b.broker.id # 0 => Dropped(b, t) = b
         /\ Advances(b, Dropped(b, t))
<1> DEFINE d == Dropped(b, t)
<1>1. CASE b.protection.id # 0 /\ b.broker.id = 0
  <2>1. /\ d.protection = NoProtection /\ d.broker = b.broker /\ d.ledger = b.ledger
        /\ d.lastExit = (IF b.lastExit = None THEN t ELSE b.lastExit)
        /\ d = [protection |-> d.protection, lastExit |-> d.lastExit,
                broker |-> d.broker, ledger |-> d.ledger]
    <3>1. d = [b EXCEPT !.protection = NoProtection,
                        !.lastExit = IF @ = None THEN t ELSE @]
      BY <1>1 DEF Dropped
    <3>2. b = [protection |-> b.protection, lastExit |-> b.lastExit,
               broker |-> b.broker, ledger |-> b.ledger]
      BY BookFields
    <3>3. d = [protection |-> NoProtection,
               lastExit |-> IF b.lastExit = None THEN t ELSE b.lastExit,
               broker |-> b.broker, ledger |-> b.ledger]
      BY <3>1, <3>2
    <3> HIDE DEF d
    <3> QED BY <3>3
  <2> HIDE DEF d
  <2>2. d.lastExit \in {None} \cup Minutes
    BY <2>1, BookFields
  <2>3. d \in BookType
    BY <2>1, <2>2, BookFields, Blank DEF BookType
  <2>4. BookOK(d, n)
    BY <2>1, <2>3, Blank, BookFields DEF BookOK
  <2>5. Advances(b, d)
    BY <2>1, BookFields DEF Advances, Guarded, Within
  <2> QED BY <1>1, <2>1, <2>4, <2>5 DEF d
<1>2. CASE ~(b.protection.id # 0 /\ b.broker.id = 0)
  <2>1. d = b
    BY <1>2 DEF Dropped
  <2> QED BY <2>1, Unchanged
<1> QED BY <1>1, <1>2

\* What follows a drop follows the book before it.
LEMMA AfterDrop ==
  ASSUME NEW b, NEW n \in Nat, BookOK(b, n), NEW t \in Minutes,
         NEW c, NEW m \in Nat, BookOK(c, m), Advances(Dropped(b, t), c)
  PROVE  Advances(b, c)
<1>1. CASE b.broker.id # 0
  BY <1>1, DroppedBook
<1>2. CASE b.broker.id = 0
  <2> DEFINE d == Dropped(b, t)
  <2>1. d.broker = b.broker /\ d.ledger = b.ledger
    BY DroppedBook
  <2> HIDE DEF d
  <2>2. Advances(d, c)
    BY DEF d
  <2>3. c.broker.id = b.broker.id => c.broker = b.broker
    BY <1>2 DEF BookOK
  <2>4. c.broker.stop > b.broker.stop => c.broker # b.broker
    BY BookFields
  <2> QED BY <2>1, <2>2, <2>3, <2>4 DEF Advances, Guarded, Within
<1> QED BY <1>1, <1>2

\* One sample of a protection record: what was decided becomes effective, and
\* what it decides is no looser.
LEMMA OneSample ==
  ASSUME NEW p \in ProtectionType, p.eff <= p.dec, NEW q \in Int, NEW f \in Rates
  PROVE  LET r == IF f = Unknown THEN Unfunded(p, q) ELSE Sampled(p, q, f)
         IN  r \in ProtectionType /\ r.id = p.id /\ r.eff = p.dec /\ r.eff <= r.dec
<1> DEFINE r == IF f = Unknown THEN Unfunded(p, q) ELSE Sampled(p, q, f)
           best  == Higher(p.best, q)
           armed == p.armed \/ (best >= Activation /\ q > Floor + f)
           dec   == IF armed THEN Higher(p.dec, Floor + f) ELSE p.dec
<1>1. /\ p.id \in 0..MaxRows /\ p.last \in {None} \cup Minutes /\ p.best \in 0..Target
      /\ p.armed \in BOOLEAN /\ p.eff \in Levels /\ p.dec \in Levels
      /\ p = [id |-> p.id, last |-> p.last, best |-> p.best, armed |-> p.armed,
              eff |-> p.eff, dec |-> p.dec]
  BY DEF ProtectionType
<1>2. Effective(p) = p.dec
  BY <1>1 DEF Effective, Higher, Levels
<1>3. f # Unknown => f \in Int
  BY F111Assumption DEF Rates
<1>4. CASE Hit(p, q)
  <2>1. r = [p EXCEPT !.eff = p.dec]
    BY <1>2, <1>4 DEF Sampled, Unfunded
  <2>2. r = [id |-> p.id, last |-> p.last, best |-> p.best, armed |-> p.armed,
             eff |-> p.dec, dec |-> p.dec]
    BY <1>1, <2>1
  <2> HIDE DEF r
  <2>3. r \in ProtectionType
    BY <1>1, <2>2 DEF ProtectionType
  <2>4. r.id = p.id /\ r.eff = p.dec /\ r.eff <= r.dec
    BY <1>1, <2>2 DEF Levels
  <2> QED BY <2>3, <2>4 DEF r
<1>5. CASE ~Hit(p, q)
  <2>1. best \in 0..Target
    BY <1>1, <1>5 DEF Hit, Higher, Target
  <2>2. armed \in BOOLEAN
    BY <1>1
  <2>3. f # Unknown => dec \in Levels /\ p.dec <= dec
    BY <1>1, <1>3 DEF Higher, Floor, Levels, InitialStop
  <2>4. r = [p EXCEPT !.eff = p.dec, !.best = best,
                      !.armed = IF f = Unknown THEN @ ELSE armed,
                      !.dec = IF f = Unknown THEN @ ELSE dec]
    <3>1. CASE f = Unknown
      <4>1. r = [p EXCEPT !.eff = p.dec, !.best = best]
        BY <1>2, <1>5, <3>1 DEF Unfunded
      <4> HIDE DEF r, best, armed, dec
      <4> QED BY <4>1, <3>1, <1>1
    <3>2. CASE f # Unknown
      <4>1. r = [p EXCEPT !.eff = p.dec, !.best = best, !.armed = armed, !.dec = dec]
        BY <1>2, <1>5, <3>2 DEF Sampled
      <4> HIDE DEF r, best, armed, dec
      <4> QED BY <4>1, <3>2, <1>1
    <3> QED BY <3>1, <3>2
  <2> HIDE DEF best, armed, dec
  <2>5. r = [id |-> p.id, last |-> p.last, best |-> best,
             armed |-> IF f = Unknown THEN p.armed ELSE armed, eff |-> p.dec,
             dec |-> IF f = Unknown THEN p.dec ELSE dec]
    <3> HIDE DEF r
    <3> QED BY <1>1, <2>4
  <2> HIDE DEF r
  <2>6. r \in ProtectionType
    BY <1>1, <2>1, <2>2, <2>3, <2>5 DEF ProtectionType
  <2>7. r.id = p.id /\ r.eff = p.dec /\ r.eff <= r.dec
    BY <1>1, <2>3, <2>5 DEF Levels
  <2> QED BY <2>6, <2>7 DEF r
<1> QED BY <1>4, <1>5

\* The book after a sample, before its stop is published.
LEMMA SampledBook ==
  ASSUME NEW b, NEW n \in Nat, BookOK(b, n), NEW q \in Int, NEW f \in Rates
  PROVE  LET c == AfterSample(b, q, f)
         IN  /\ BookOK(c, n) /\ Advances(b, c)
             /\ c.broker = b.broker /\ c.ledger = b.ledger
             /\ c.protection.id = b.protection.id /\ c.protection.eff = b.protection.dec
<1> DEFINE c == AfterSample(b, q, f)
           r == IF f = Unknown THEN Unfunded(b.protection, q) ELSE Sampled(b.protection, q, f)
<1>1. c = [b EXCEPT !.protection = r]
  BY DEF AfterSample
<1>2. /\ r \in ProtectionType /\ r.id = b.protection.id
      /\ r.eff = b.protection.dec /\ r.eff <= r.dec
  <2>1. b.protection \in ProtectionType /\ b.protection.eff <= b.protection.dec
    BY BookFields DEF BookOK
  <2> QED BY <2>1, OneSample
<1> HIDE DEF c, r
<1>3. c = [protection |-> r, lastExit |-> b.lastExit, broker |-> b.broker, ledger |-> b.ledger]
  BY <1>1, BookFields
<1>4. /\ c.protection = r /\ c.broker = b.broker /\ c.ledger = b.ledger
      /\ c.lastExit = b.lastExit
  BY <1>3
<1>5. c \in BookType
  BY <1>2, <1>3, BookFields DEF BookType
<1>6. BookOK(c, n)
  BY <1>2, <1>4, <1>5 DEF BookOK
<1>7. Advances(b, c)
  BY <1>4, BookFields DEF Advances, Guarded, Within
<1> QED BY <1>2, <1>4, <1>6, <1>7 DEF c

\* A stop put on the broker's row, and perhaps on the ledger's, when it is no
\* looser.
LEMMA PublishedBook ==
  ASSUME NEW b, NEW n \in Nat, BookOK(b, n), b.protection.id # 0,
         NEW c \in {PublishToBroker(b), Publish(b)}
  PROVE  /\ BookOK(c, n)
         /\ c.protection = b.protection /\ c.lastExit = b.lastExit
         /\ c.broker.id = b.broker.id /\ c.ledger.id = b.ledger.id
         /\ c.broker.ledgered = b.broker.ledgered
         /\ c.broker.stop >= b.broker.stop /\ c.ledger.stop >= b.ledger.stop
         /\ c.broker.stop # b.broker.stop => c.broker.stop = b.protection.eff
<1> DEFINE e == b.protection.eff
           br == IF b.broker.id # 0 /\ Tighter(e, b.broker)
                 THEN [b.broker EXCEPT !.stop = e] ELSE b.broker
<1>f. /\ b = [protection |-> b.protection, lastExit |-> b.lastExit,
              broker |-> b.broker, ledger |-> b.ledger]
      /\ b.broker \in RowType /\ b.ledger \in RowType /\ e \in Levels
  BY BookFields DEF Levels
<1>1. PublishToBroker(b) = [b EXCEPT !.broker = br]
  BY <1>f DEF PublishToBroker
<1>b. /\ br \in RowType /\ br.id = b.broker.id /\ br.ledgered = b.broker.ledgered
      /\ br.stop = IF b.broker.id # 0 /\ e >= b.broker.stop THEN e ELSE b.broker.stop
      /\ b.broker.id = 0 => br = b.broker
  BY <1>f DEF Tighter, RowType
<1> HIDE DEF br
<1>2. PublishToBroker(b) = [protection |-> b.protection, lastExit |-> b.lastExit,
                            broker |-> br, ledger |-> b.ledger]
  BY <1>1, <1>f
<1>3. PICK ld \in {b.ledger, [b.ledger EXCEPT !.stop = e]} :
        /\ c = [protection |-> b.protection, lastExit |-> b.lastExit,
                broker |-> br, ledger |-> ld]
        /\ ld # b.ledger => /\ b.broker.id # 0 /\ e >= b.broker.stop
                            /\ b.ledger.id = b.protection.id
  <2>1. CASE c = PublishToBroker(b)
    BY <1>2, <2>1
  <2>2. CASE c = Publish(b)
    <3>1. CASE /\ b.broker.id # 0 /\ Tighter(b.protection.eff, b.broker)
               /\ b.ledger.id = b.protection.id
      <4>1. c = [PublishToBroker(b) EXCEPT !.ledger.stop = e]
        BY <2>2, <3>1 DEF Publish
      <4>2. c = [protection |-> b.protection, lastExit |-> b.lastExit,
                 broker |-> br, ledger |-> [b.ledger EXCEPT !.stop = e]]
        BY <4>1, <1>2
      <4> QED BY <3>1, <4>2 DEF Tighter
    <3>2. CASE ~(/\ b.broker.id # 0 /\ Tighter(b.protection.eff, b.broker)
                 /\ b.ledger.id = b.protection.id)
      BY <1>2, <2>2, <3>2 DEF Publish
    <3> QED BY <3>1, <3>2
  <2> QED BY <2>1, <2>2
<1>4. /\ c.protection = b.protection /\ c.lastExit = b.lastExit
      /\ c.broker = br /\ c.ledger = ld
  BY <1>3
<1>5. /\ ld \in RowType /\ ld.id = b.ledger.id
      /\ ld = b.ledger \/ ld.stop = e
  BY <1>f, <1>3 DEF RowType
<1>6. c \in BookType
  BY <1>3, <1>5, <1>b, BookFields DEF BookType
<1>7. b.ledger.id # 0 => b.broker.id = b.ledger.id /\ b.ledger.stop <= b.broker.stop
  BY DEF BookOK
<1>8. ld # b.ledger => /\ ld.stop = e /\ br.stop = e /\ b.ledger.id # 0
                       /\ e >= b.ledger.stop
  BY <1>3, <1>5, <1>7, <1>b, BookFields
<1>9. br.stop >= b.broker.stop /\ ld.stop >= b.ledger.stop
  BY <1>8, <1>b, BookFields
<1>10. BookOK(c, n)
  <2>1. c.broker.id <= n /\ c.ledger.id <= n
    BY <1>4, <1>5, <1>b DEF BookOK
  <2>2. c.broker.id = 0 => c.broker = NoRow
    BY <1>4, <1>b DEF BookOK
  <2>3. c.ledger.id = 0 => c.ledger = NoRow
    BY <1>4, <1>5, <1>8 DEF BookOK
  <2>4. c.ledger.id # 0 => c.broker.id = c.ledger.id /\ c.ledger.stop <= c.broker.stop
    <3>1. CASE ld = b.ledger
      BY <3>1, <1>4, <1>7, <1>9, <1>b, BookFields
    <3>2. CASE ld # b.ledger
      BY <3>2, <1>4, <1>5, <1>7, <1>8, <1>b, BookFields
    <3> QED BY <3>1, <3>2
  <2> QED BY <1>4, <1>6, <2>1, <2>2, <2>3, <2>4 DEF BookOK
<1> QED BY <1>4, <1>5, <1>9, <1>10, <1>b

\* A sample and what it publishes.
LEMMA PublishedSample ==
  ASSUME NEW b, NEW n \in Nat, BookOK(b, n), b.protection.id # 0,
         NEW q \in Int, NEW f \in Rates,
         NEW c \in {PublishToBroker(AfterSample(b, q, f)), Publish(AfterSample(b, q, f))}
  PROVE  BookOK(c, n) /\ Advances(b, c)
<1> DEFINE a == AfterSample(b, q, f)
<1>1. /\ BookOK(a, n) /\ a.broker = b.broker /\ a.ledger = b.ledger
      /\ a.protection.id = b.protection.id /\ a.protection.eff = b.protection.dec
  BY SampledBook
<1>0. c \in {PublishToBroker(a), Publish(a)}
  OBVIOUS
<1> HIDE DEF a
<1>2. /\ BookOK(c, n)
      /\ c.broker.id = a.broker.id /\ c.ledger.id = a.ledger.id
      /\ c.broker.ledgered = a.broker.ledgered
      /\ c.broker.stop >= a.broker.stop /\ c.ledger.stop >= a.ledger.stop
      /\ c.broker.stop # a.broker.stop => c.broker.stop = a.protection.eff
  BY <1>0, <1>1, PublishedBook
<1>3. c.broker.stop > b.broker.stop => b.protection.dec >= c.broker.stop
  BY <1>1, <1>2, BookFields
<1> QED BY <1>1, <1>2, <1>3 DEF Advances, Guarded, Within, Stuck

\* A close that comes after a step of the book: both rows go, or the
\* broker's row stays and the ledger's row leaves RAM.
LEMMA ClosedBook ==
  ASSUME NEW b, NEW n \in Nat, BookOK(b, n), NEW c, BookOK(c, n), Advances(b, c),
         clock \in Minutes
  PROVE  /\ BookOK(Exited(c), n) /\ Advances(b, Exited(c))
         /\ BookOK([c EXCEPT !.ledger = NoRow], n)
         /\ Advances(b, [c EXCEPT !.ledger = NoRow])
<1>1. /\ b.ledger.id = 0 => b.ledger = NoRow
      /\ b.broker.id = 0 => b.broker = NoRow
  BY DEF BookOK
<1>2. BookOK(Exited(c), n) /\ Advances(b, Exited(c))
  <2>1. CASE ~CanClose(c)
    BY <2>1 DEF Exited
  <2>2. CASE CanClose(c)
    <3> DEFINE x == Exited(c)
    <3>1. x = [protection |-> NoProtection, lastExit |-> clock, broker |-> NoRow,
               ledger |-> NoRow]
      BY <2>2 DEF Exited
    <3> HIDE DEF x
    <3>2. /\ x.protection = NoProtection /\ x.lastExit = clock
          /\ x.broker = NoRow /\ x.ledger = NoRow
      BY <3>1
    <3>3. x \in BookType
      BY <3>1, Blank DEF BookType
    <3>4. BookOK(x, n)
      BY <3>2, <3>3, Blank DEF BookOK
    <3>5. ~Stuck(b.broker, b.ledger)
      BY <2>2 DEF CanClose, Stuck, Advances, Within
    <3>6. Advances(b, x)
      BY <1>1, <3>2, <3>5, Blank, BookFields DEF Advances, Guarded, Within, InitialStop
    <3> QED BY <3>4, <3>6 DEF x
  <2> QED BY <2>1, <2>2
<1>3. BookOK([c EXCEPT !.ledger = NoRow], n) /\ Advances(b, [c EXCEPT !.ledger = NoRow])
  <2> DEFINE x == [c EXCEPT !.ledger = NoRow]
  <2>1. x = [protection |-> c.protection, lastExit |-> c.lastExit, broker |-> c.broker,
             ledger |-> NoRow]
    BY BookFields
  <2> HIDE DEF x
  <2>2. /\ x.protection = c.protection /\ x.lastExit = c.lastExit
        /\ x.broker = c.broker /\ x.ledger = NoRow
    BY <2>1
  <2>3. x \in BookType
    BY <2>1, Blank, BookFields DEF BookType
  <2>4. BookOK(x, n)
    BY <2>2, <2>3, Blank DEF BookOK
  <2>5. Advances(b, x)
    <3>1. x.ledger.id = b.ledger.id => x.ledger.stop >= b.ledger.stop
      BY <1>1, <2>2, Blank, BookFields DEF InitialStop
    <3>2. Stuck(b.broker, b.ledger) => Stuck(x.broker, x.ledger)
      BY <2>2, Blank DEF Advances, Within, Stuck
    <3> QED BY <2>2, <3>1, <3>2 DEF Advances, Guarded, Within
  <2> QED BY <2>4, <2>5 DEF x
<1> QED BY <1>2, <1>3

\* One step of the protection, whatever the quote and the funding.
LEMMA ProtectedBook ==
  ASSUME NEW b, NEW n \in Nat, BookOK(b, n), clock \in Minutes,
         NEW q \in Quotes, NEW f \in Rates
  PROVE  BookOK(Protected(b, q, f), n) /\ Advances(b, Protected(b, q, f))
<1>1. CASE ~Steps(b) \/ q = NoQuote
  <2>1. Protected(b, q, f) = b
    BY <1>1 DEF Protected
  <2> QED BY <2>1, Unchanged
<1>2. CASE ~(~Steps(b) \/ q = NoQuote)
  <2> DEFINE p == Publish(AfterSample(b, q, f))
  <2>1. q \in Int
    BY <1>2, F111Assumption DEF Quotes
  <2>2. b.protection.id # 0
    BY <1>2 DEF Steps, Needs
  <2>3. BookOK(p, n) /\ Advances(b, p)
    BY <2>1, <2>2, PublishedSample
  <2>4. CASE Hit(b.protection, q)
    <3>1. Protected(b, q, f) = Exited(p)
      BY <1>2, <2>4 DEF Protected
    <3> QED BY <2>3, <3>1, ClosedBook
  <2>5. CASE ~Hit(b.protection, q)
    <3> DEFINE x == Protected(b, q, f)
    <3>1. x = [p EXCEPT !.protection.last = clock]
      BY <1>2, <2>5 DEF Protected
    <3> HIDE DEF x, p
    <3>2. x = [protection |-> [p.protection EXCEPT !.last = clock], lastExit |-> p.lastExit,
               broker |-> p.broker, ledger |-> p.ledger]
      BY <2>3, <3>1, BookFields
    <3>3. p.protection \in ProtectionType
      BY <2>3, BookFields
    <3>4. /\ [p.protection EXCEPT !.last = clock] \in ProtectionType
          /\ [p.protection EXCEPT !.last = clock].id = p.protection.id
          /\ [p.protection EXCEPT !.last = clock].eff = p.protection.eff
          /\ [p.protection EXCEPT !.last = clock].dec = p.protection.dec
      BY <3>3 DEF ProtectionType
    <3>5. /\ x.broker = p.broker /\ x.ledger = p.ledger
          /\ x.protection.id = p.protection.id
          /\ x.protection.eff = p.protection.eff /\ x.protection.dec = p.protection.dec
      BY <3>2, <3>4
    <3>6. x \in BookType
      BY <2>3, <3>2, <3>4, BookFields DEF BookType
    <3>7. BookOK(x, n)
      BY <2>3, <3>5, <3>6 DEF BookOK
    <3>8. Advances(b, x)
      BY <2>3, <3>5 DEF Advances, Guarded, Within
    <3> QED BY <3>7, <3>8 DEF x
  <2> QED BY <2>4, <2>5
<1> QED BY <1>1, <1>2

\* A new row has the next number and the stop it is opened with.
LEMMA NewRow ==
  ASSUME rows \in 0..MaxRows, rows < MaxRows, NEW o \in {"f111", "other"}, NEW l \in BOOLEAN,
         NEW at \in {InitialStop, SleeveStop}
  PROVE  LET r == [Row(o, at) EXCEPT !.ledgered = l]
             w == Row(o, at)
         IN  /\ r \in RowType /\ r.id = rows + 1 /\ r.stop = at /\ r.ledgered = l
             /\ w \in RowType /\ w.id = rows + 1 /\ w.stop = at
<1>1. Row(o, at) = [id |-> rows + 1, owner |-> o, stop |-> at, ledgered |-> TRUE]
  BY DEF Row
<1>2. [Row(o, at) EXCEPT !.ledgered = l]
        = [id |-> rows + 1, owner |-> o, stop |-> at, ledgered |-> l]
  BY <1>1
<1>3. rows + 1 \in 0..MaxRows /\ at \in Levels \cup {SleeveStop}
  BY F111Assumption DEF Levels, InitialStop
<1> QED BY <1>1, <1>2, <1>3 DEF RowType

\* A new position is protected by a record at the initial stop.
LEMMA NewProtection ==
  ASSUME NEW i \in 0..MaxRows, NEW t \in Minutes
  PROVE  LET p == [NoProtection EXCEPT !.id = i, !.last = t]
         IN  p \in ProtectionType /\ p.eff <= p.dec
<1> DEFINE n == NoProtection
           p == [n EXCEPT !.id = i, !.last = t]
<1>1. /\ n \in ProtectionType
      /\ n.best = 0 /\ n.armed = FALSE /\ n.eff = InitialStop /\ n.dec = InitialStop
  BY Blank DEF NoProtection
<1> HIDE DEF n
<1>2. p \in ProtectionType /\ p.eff = n.eff /\ p.dec = n.dec
  BY <1>1 DEF ProtectionType
<1> HIDE DEF p
<1>3. p.eff <= p.dec
  BY <1>1, <1>2 DEF InitialStop
<1> QED BY <1>2, <1>3 DEF p, n

\* An entry takes an empty book to one whose two rows are new; when its insert
\* raises, the broker's row is there and the ledger never has it.
LEMMA FilledBook ==
  ASSUME NEW b, rows \in 0..MaxRows, rows < MaxRows, BookOK(b, rows), clock \in Minutes,
         NEW a, BookOK(a, rows), Advances(a, b), ~Occupied(b)
  PROVE  LET h == [b EXCEPT !.broker = [Row("f111", InitialStop) EXCEPT !.ledgered = FALSE]]
         IN  /\ BookOK(Filled(b), rows + 1) /\ Advances(a, Filled(b))
             /\ BookOK(h, rows + 1) /\ Advances(a, h) /\ Stuck(h.broker, h.ledger)
             /\ ~Stuck(a.broker, a.ledger)
<1>0. rows \in Nat /\ rows + 1 \in 0..MaxRows
  BY F111Assumption
<1>1. /\ b.ledger.id = 0 /\ b.ledger = NoRow /\ ~Stuck(b.broker, b.ledger)
      /\ a.broker.id <= rows /\ a.ledger.id <= rows
  BY DEF Occupied, BookOK, Stuck
<1>2. ~Stuck(a.broker, a.ledger)
  BY <1>1 DEF Advances, Within
<1>3. BookOK(Filled(b), rows + 1) /\ Advances(a, Filled(b))
  <2> DEFINE x == Filled(b)
             r == Row("f111", InitialStop)
             p == [NoProtection EXCEPT !.id = rows + 1, !.last = clock]
  <2>1. r \in RowType /\ r.id = rows + 1 /\ r.stop = InitialStop
    BY NewRow
  <2>2. p \in ProtectionType /\ p.eff <= p.dec
    BY <1>0, NewProtection
  <2>3. x = [b EXCEPT !.broker = r, !.ledger = r, !.protection = p]
    BY DEF Filled
  <2> HIDE DEF x, r, p
  <2>4. x = [protection |-> p, lastExit |-> b.lastExit, broker |-> r, ledger |-> r]
    <3>1. b = [protection |-> b.protection, lastExit |-> b.lastExit,
               broker |-> b.broker, ledger |-> b.ledger]
      BY <1>0, BookFields
    <3> QED BY <2>3, <3>1
  <2>5. x.protection = p /\ x.broker = r /\ x.ledger = r
    BY <2>4
  <2>6. x \in BookType
    BY <1>0, <2>1, <2>2, <2>4, BookFields DEF BookType
  <2>7. BookOK(x, rows + 1)
    BY <1>0, <2>1, <2>2, <2>5, <2>6 DEF BookOK, InitialStop
  <2>8. Advances(a, x)
    BY <1>0, <1>1, <1>2, <2>1, <2>5, BookFields DEF Advances, Guarded, Within
  <2> QED BY <2>7, <2>8 DEF x
<1>4. LET h == [b EXCEPT !.broker = [Row("f111", InitialStop) EXCEPT !.ledgered = FALSE]]
      IN  BookOK(h, rows + 1) /\ Advances(a, h) /\ Stuck(h.broker, h.ledger)
  <2> DEFINE r == [Row("f111", InitialStop) EXCEPT !.ledgered = FALSE]
             x == [b EXCEPT !.broker = r]
  <2>1. r \in RowType /\ r.id = rows + 1 /\ r.stop = InitialStop /\ r.ledgered = FALSE
    BY NewRow
  <2> HIDE DEF r
  <2>2. x = [protection |-> b.protection, lastExit |-> b.lastExit, broker |-> r,
             ledger |-> NoRow]
    BY <1>0, <1>1, BookFields
  <2> HIDE DEF x
  <2>3. x.protection = b.protection /\ x.broker = r /\ x.ledger = NoRow
    BY <2>2
  <2>4. x \in BookType
    BY <1>0, <2>1, <2>2, BookFields, Blank DEF BookType
  <2>5. BookOK(x, rows + 1)
    BY <1>0, <2>1, <2>3, <2>4, Blank DEF BookOK
  <2>6. Stuck(x.broker, x.ledger)
    BY <1>0, <2>1, <2>3, Blank DEF Stuck
  <2>7. x.broker.id # a.broker.id /\ x.ledger = b.ledger
    BY <1>0, <1>1, <2>1, <2>3, BookFields
  <2>8. Advances(a, x)
    BY <2>6, <2>7 DEF Advances, Guarded, Within
  <2> QED BY <2>5, <2>6, <2>8 DEF x, r
<1> QED BY <1>2, <1>3, <1>4

(***************************************************************************)
(* The retests                                                             *)
(***************************************************************************)

\* Signals, minutes and the end of a retest are what arithmetic needs.
LEMMA Instants ==
  /\ Minutes \subseteq Nat /\ None = -1
  /\ \A s \in Signals : s[1] \in Sides /\ s[2] \in Minutes /\ s[2] \in Nat /\ Expiry(s) \in Int
<1>1. Minutes \subseteq Nat /\ None = -1
  BY F111Assumption DEF Minutes, None
<1>2. ASSUME NEW s \in Signals PROVE s[1] \in Sides /\ s[2] \in Minutes
  BY DEF Signals, Hours
<1>3. ASSUME NEW s \in Signals PROVE s[2] \in Nat /\ Expiry(s) \in Int
  <2>1. s[2] \in Nat
    BY <1>1, <1>2
  <2> QED BY <2>1, F111Assumption DEF Expiry
<1> QED BY <1>1, <1>2, <1>3

\* A set of naturals that is not empty has a least element, and Min is it.
LEMMA Least ==
  ASSUME NEW S, S \subseteq Nat, S # {}
  PROVE  Min(S) \in S /\ \A y \in S : Min(S) <= y
<1>1. PICK x \in S : \A y \in S : ~(<<y, x>> \in OpToRel(<, Nat))
  BY NatLessThanWellFounded, WFMin
<1>2. \A y \in S : x <= y
  <2> SUFFICES ASSUME NEW y \in S, y < x PROVE FALSE
    OBVIOUS
  <2>1. <<y, x>> \in Nat \X Nat /\ <<y, x>>[1] < <<y, x>>[2]
    OBVIOUS
  <2>2. <<y, x>> \in OpToRel(<, Nat)
    BY <2>1, Zenon DEF OpToRel
  <2> QED BY <1>1, <2>2
<1>3. \E z \in S : \A y \in S : z <= y
  BY <1>2
<1> QED BY <1>3 DEF Min

\* What minutes before t say of a retest does not depend on the bar of t.
LEMMA SameBars ==
  ASSUME NEW s \in Signals, NEW t \in Int, NEW bs, NEW cs,
         \A k \in Nat : k < t => cs[k] = bs[k], NEW m \in Int, m < t
  PROVE  /\ Touches(s, m, cs) <=> Touches(s, m, bs)
         /\ m >= s[2] => (Confirms(s, m, cs) <=> Confirms(s, m, bs))
<1>1. \A k \in s[2]..m : cs[k] = bs[k]
  BY Instants
<1> QED BY <1>1, Instants DEF Touches, Confirms

\* A retest stays well formed as time passes and later bars change.
LEMMA RetestLater ==
  ASSUME NEW s \in Signals, NEW p \in Retests, NEW t \in Minutes, NEW u \in Minutes, t <= u,
         NEW bs, NEW cs, \A k \in Nat : k < t => cs[k] = bs[k], RetestOK(p, s, t, bs)
  PROVE  RetestOK(p, s, u, cs)
<1>1. /\ t \in Nat /\ u \in Nat /\ s[2] \in Nat /\ p.next \in Int /\ p.action \in Int
      /\ Expiry(s) \in Int
  <2>1. p.next \in {None} \cup Minutes /\ p.action \in {None} \cup Minutes
    BY DEF Retests
  <2>2. Minutes \subseteq Nat /\ None \in Int
    BY Instants
  <2>3. s[2] \in Nat /\ Expiry(s) \in Int
    BY Instants
  <2>4. \A x \in {None} \cup Minutes : x \in Int
    BY <2>2
  <2>5. p.next \in Int /\ p.action \in Int
    BY <2>1, <2>4
  <2> QED BY <2>2, <2>3, <2>5
<1>2. CASE p.status = "watching"
  <2>1. /\ p.next \in s[2]..t
        /\ p.touched <=> Touches(s, p.next - 1, bs)
        /\ \A k \in s[2]..(p.next - 1) : ~Confirms(s, k, bs)
    BY <1>2 DEF RetestOK
  <2>2. Touches(s, p.next - 1, cs) <=> Touches(s, p.next - 1, bs)
    BY <1>1, <2>1, SameBars
  <2>3. \A k \in s[2]..(p.next - 1) : Confirms(s, k, cs) <=> Confirms(s, k, bs)
    BY <1>1, <2>1, SameBars
  <2> QED BY <1>1, <1>2, <2>1, <2>2, <2>3 DEF RetestOK
<1>3. CASE p.status = "scheduled"
  <2>1. /\ p.action <= t /\ p.action - 1 \in s[2]..Expiry(s)
        /\ Confirms(s, p.action - 1, bs)
        /\ \A k \in s[2]..(p.action - 2) : ~Confirms(s, k, bs)
    BY <1>3 DEF RetestOK
  <2>2. Confirms(s, p.action - 1, cs)
    BY <1>1, <2>1, SameBars
  <2>3. \A k \in s[2]..(p.action - 2) : Confirms(s, k, cs) <=> Confirms(s, k, bs)
    BY <1>1, <2>1, SameBars
  <2> QED BY <1>1, <1>3, <2>1, <2>2, <2>3 DEF RetestOK
<1> QED BY <1>2, <1>3 DEF RetestOK

\* A step of a retest forgets no verdict and reopens nothing.
Onward(p, r) ==
  p.status \notin {"none", "watching"} =>
    /\ r.status \notin {"none", "watching"}
    /\ r.status = "scheduled" => p.status = "scheduled"

\* Replaying the closed minutes since keeps a retest well formed.
LEMMA ReplayedOK ==
  ASSUME NEW s \in Signals, pending[s] \in Retests, clock \in Minutes,
         RetestOK(pending[s], s, clock, bars), NEW frame \in BOOLEAN
  PROVE  LET r == Replayed(s, frame)
         IN  /\ r \in Retests /\ RetestOK(r, s, clock, bars) /\ Onward(pending[s], r)
             /\ r.status # "none" => pending[s].status # "none"
<1> DEFINE p == pending[s]
           r == Replayed(s, frame)
           reclaims == {m \in Replayable(s) : Reclaims(s, m)}
<1>0. /\ clock \in Nat /\ s[2] \in Nat /\ p.next \in Int /\ p.action \in Int /\ Expiry(s) \in Int
      /\ p.touched \in BOOLEAN
  BY Instants DEF Retests
<1>1. CASE p.status # "watching"
  <2>1. r = p
    BY <1>1 DEF Replayed
  <2> QED BY <2>1 DEF Onward
<1>2. CASE p.status = "watching"
  <2>1. /\ p.next \in s[2]..clock
        /\ p.touched <=> Touches(s, p.next - 1, bars)
        /\ \A k \in s[2]..(p.next - 1) : ~Confirms(s, k, bars)
    BY <1>2 DEF RetestOK
  <2>2. ASSUME NEW m \in Int, m >= p.next - 1
        PROVE  TouchedBy(s, m) <=> Touches(s, m, bars)
    <3>1. s[2]..m = s[2]..(p.next - 1) \cup p.next..m
      BY <1>0, <2>1, <2>2
    <3> QED BY <2>1, <3>1 DEF TouchedBy, Touches
  <2>3. ASSUME NEW m \in Int, m >= p.next
        PROVE  Reclaims(s, m) <=> Confirms(s, m, bars)
    BY <1>0, <2>2, <2>3 DEF Reclaims, Confirms
  <2>4. ASSUME NEW x \in Retests, x = [p EXCEPT !.status = "rejected"], r = x
        PROVE  r \in Retests /\ RetestOK(r, s, clock, bars) /\ Onward(p, r)
    BY <1>2, <2>4 DEF RetestOK, Onward, Retests
  <2>5. [p EXCEPT !.status = "rejected"] \in Retests
    BY DEF Retests
  <2>6. CASE ~frame
    <3>1. r = p \/ r = [p EXCEPT !.status = "rejected"]
      BY <1>2, <2>6 DEF Replayed
    <3> QED BY <1>2, <2>4, <2>5, <3>1 DEF Onward
  <2>7. CASE frame /\ reclaims # {}
    <3> DEFINE a == Min(reclaims)
    <3>1. reclaims \subseteq Nat
      BY Instants DEF Replayable
    <3>2. a \in reclaims /\ \A y \in reclaims : a <= y
      BY <2>7, <3>1, Least
    <3>3. r = [status |-> "scheduled", touched |-> TRUE, next |-> a + 1, action |-> a + 1]
      BY <1>2, <2>7 DEF Replayed
    <3>4. /\ a \in Nat /\ a \in Minutes /\ a >= p.next /\ a < clock /\ a <= Expiry(s)
          /\ Reclaims(s, a)
      BY <3>1, <3>2 DEF Replayable
    <3>5. \A k \in s[2]..(a - 1) : ~Confirms(s, k, bars)
      <4> SUFFICES ASSUME NEW k \in s[2]..(a - 1), k >= p.next PROVE ~Confirms(s, k, bars)
        BY <1>0, <2>1, <3>4
      <4>1. k \in Replayable(s)
        BY <1>0, <3>4, F111Assumption DEF Replayable, Minutes
      <4>2. k \notin reclaims
        BY <1>0, <3>2, <3>4
      <4> QED BY <1>0, <2>3, <3>4, <4>1, <4>2
    <3> HIDE DEF a, r, reclaims
    <3>6. a + 1 \in Minutes
      BY <1>0, <3>4, F111Assumption DEF Minutes
    <3>7. r \in Retests /\ r.status = "scheduled" /\ r.action = a + 1
      BY <3>3, <3>6 DEF Retests
    <3>8. Confirms(s, a, bars)
      BY <2>3, <3>4
    <3>9. RetestOK(r, s, clock, bars)
      <4>1. r.action - 1 = a /\ r.action - 2 = a - 1 /\ r.action <= clock
        BY <1>0, <3>4, <3>7
      <4>2. a \in s[2]..Expiry(s)
        BY <1>0, <2>1, <3>4
      <4> QED BY <3>5, <3>7, <3>8, <4>1, <4>2 DEF RetestOK
    <3> QED BY <1>2, <3>7, <3>9 DEF Onward, r
  <2>8. CASE frame /\ reclaims = {} /\ clock > Expiry(s)
    <3>1. r = [p EXCEPT !.status = "rejected"]
      BY <1>2, <2>8 DEF Replayed
    <3> QED BY <1>2, <2>4, <2>5, <3>1
  <2>9. CASE frame /\ reclaims = {} /\ ~(clock > Expiry(s))
    <3>1. r = [p EXCEPT !.touched = TouchedBy(s, clock - 1), !.next = clock]
      BY <1>2, <2>9 DEF Replayed
    <3>2. TouchedBy(s, clock - 1) <=> Touches(s, clock - 1, bars)
      BY <1>0, <2>1, <2>2
    <3>3. \A k \in s[2]..(clock - 1) : ~Confirms(s, k, bars)
      <4> SUFFICES ASSUME NEW k \in s[2]..(clock - 1), k >= p.next PROVE ~Confirms(s, k, bars)
        BY <1>0, <2>1
      <4>1. k \in Replayable(s)
        BY <1>0, <2>9, F111Assumption DEF Replayable, Minutes
      <4> QED BY <1>0, <2>3, <2>9, <4>1
    <3>4. TouchedBy(s, clock - 1) \in BOOLEAN
      BY <1>0 DEF TouchedBy
    <3> DEFINE tb == TouchedBy(s, clock - 1)
    <3> HIDE DEF tb, r
    <3>5. /\ r \in Retests /\ r.status = "watching" /\ r.next = clock
          /\ r.touched = tb
      BY <1>2, <3>1, <3>4 DEF Retests, tb
    <3>6. RetestOK(r, s, clock, bars)
      BY <1>0, <2>1, <3>2, <3>3, <3>5 DEF RetestOK, tb
    <3> QED BY <1>2, <3>5, <3>6 DEF Onward, r
  <2> QED BY <1>2, <2>6, <2>7, <2>8, <2>9
<1> QED BY <1>1, <1>2

(***************************************************************************)
(* The fills                                                               *)
(***************************************************************************)

\* A fill names a signal and a life.
LEMMA FillFields ==
  ASSUME NEW fs \in Seq(Fill)
  PROVE  \A i \in DOMAIN fs : fs[i].signal \in Signals /\ fs[i].life \in Nat
<1>1. \A i \in DOMAIN fs : fs[i] \in Fill
  OBVIOUS
<1> QED BY <1>1 DEF Fill

\* Fills stay accounted for when retests only move onward and a row the ledger
\* never had stays.
LEMMA FillsStay ==
  ASSUME NEW fs, NEW p, NEW r, NEW br, NEW ld, NEW br2, NEW ld2, NEW c,
         FillsOK(fs, p, br, ld, c), \A s \in Signals : Onward(p[s], r[s]),
         Stuck(br, ld) => Stuck(br2, ld2)
  PROVE  FillsOK(fs, r, br2, ld2, c)
<1>1. \A i \in DOMAIN fs : fs[i].signal \in Signals
  BY FillFields DEF FillsOK
<1> QED BY <1>1 DEF FillsOK, Onward

\* A fill of a scheduled signal, on a symbol that has no row, is a new one.
LEMMA FillAdded ==
  ASSUME NEW fs, NEW p, NEW r, NEW br, NEW ld, NEW br2, NEW ld2, NEW c \in Nat,
         FillsOK(fs, p, br, ld, c), \A s \in Signals : Onward(p[s], r[s]),
         ~Stuck(br, ld),
         NEW s \in Signals, p[s].status = "scheduled", r[s].status \notin {"none", "watching"},
         r[s].status = "scheduled" => Stuck(br2, ld2)
  PROVE  FillsOK(Append(fs, [signal |-> s, life |-> c]), r, br2, ld2, c)
<1> DEFINE x == [signal |-> s, life |-> c]
           gs == Append(fs, x)
<1>1. /\ fs \in Seq(Fill)
      /\ \A i \in DOMAIN fs : fs[i] \in Fill /\ fs[i].life <= c
      /\ \A i \in DOMAIN fs : fs[i].life = c =>
           p[fs[i].signal].status \notin {"none", "watching", "scheduled"}
      /\ \A i, j \in DOMAIN fs : fs[i] = fs[j] => i = j
  BY DEF FillsOK
<1>2. x \in Fill /\ x.signal = s /\ x.life = c
  BY DEF Fill
<1> HIDE DEF x
<1>3. /\ gs \in Seq(Fill) /\ DOMAIN gs = DOMAIN fs \cup {Len(fs) + 1}
      /\ Len(fs) + 1 \notin DOMAIN fs
      /\ \A i \in DOMAIN fs : gs[i] = fs[i]
      /\ gs[Len(fs) + 1] = x
  BY <1>1, <1>2
<1> HIDE DEF gs
<1>4. \A i \in DOMAIN fs : fs[i] # x
  BY <1>1, <1>2
<1>5. \A i \in DOMAIN gs : gs[i].life <= c
  BY <1>1, <1>2, <1>3
<1>6. ASSUME NEW i \in DOMAIN gs, gs[i].life = c
      PROVE  LET st == r[gs[i].signal].status
             IN  st \notin {"none", "watching"} /\ (st = "scheduled" => Stuck(br2, ld2))
  <2>1. CASE i \in DOMAIN fs
    <3>1. fs[i].signal \in Signals /\ fs[i].life = c /\ gs[i] = fs[i]
      BY <1>1, <1>3, <1>6, <2>1 DEF Fill
    <3> QED BY <1>1, <2>1, <3>1 DEF Onward
  <2>2. CASE i = Len(fs) + 1
    BY <1>2, <1>3, <2>2
  <2> QED BY <1>3, <2>1, <2>2
<1>7. ASSUME NEW i \in DOMAIN gs, NEW j \in DOMAIN gs, gs[i] = gs[j] PROVE i = j
  BY <1>1, <1>3, <1>4, <1>7
<1> QED BY <1>3, <1>5, <1>6, <1>7 DEF FillsOK, gs, x

\* The next life has filled nothing yet.
LEMMA FillsOfTheNextLife ==
  ASSUME NEW fs, NEW p, NEW r, NEW br, NEW ld, NEW br2, NEW ld2, NEW c \in Nat,
         FillsOK(fs, p, br, ld, c)
  PROVE  FillsOK(fs, r, br2, ld2, c + 1)
<1>1. \A i \in DOMAIN fs : fs[i].life \in Nat /\ fs[i].life <= c
  BY FillFields DEF FillsOK
<1> QED BY <1>1 DEF FillsOK

(***************************************************************************)
(* The parts of the invariant                                              *)
(***************************************************************************)

\* The retests p of the signals sn, at time t with the bars bs.
RetestsHold(p, sn, t, bs) ==
  p \in [Signals -> Retests] /\ sn \subseteq Signals /\ RetestsOK(p, sn, t, bs)

\* What the state file f holds.
FileHolds(f, t, bs) ==
  /\ RetestsHold(f.pending, f.seen, t, bs)
  /\ f.protection \in ProtectionType /\ f.lastExit \in {None} \cup Minutes
  /\ f.protection.eff <= f.protection.dec

\* The rest of the state.
WorldHolds(t, at, step, bs, n, c) ==
  /\ t \in Minutes /\ at \in Minutes /\ at <= t
  /\ step \in {"idle", "replay", "apply", "save", "hold"}
  /\ bs \in [Minutes -> [touch : SUBSET Sides, beyond : SUBSET Sides]]
  /\ n \in 0..MaxRows /\ c \in Nat

\* The inductive invariant is its parts, before a step and after it.
LEMMA Parts ==
  IInv <=> /\ WorldHolds(clock, now, pc, bars, rows, crashes)
           /\ RetestsHold(pending, seen, clock, bars)
           /\ FileHolds(file, clock, bars)
           /\ BookOK(Book, rows)
           /\ FillsOK(fills, pending, broker, ledger, crashes)
<1>1. ASSUME BookOK(Book, rows), rows \in 0..MaxRows
      PROVE  /\ protection \in ProtectionType /\ lastExit \in {None} \cup Minutes
             /\ broker \in RowType /\ ledger \in RowType
  BY <1>1 DEF BookOK, BookType, Book
<1> QED BY <1>1 DEF IInv, TypeOK, WorldHolds, RetestsHold, FileHolds

\* The parts after a step.
LEMMA PartsAfter ==
  IInv' <=> /\ WorldHolds(clock', now', pc', bars', rows', crashes')
            /\ RetestsHold(pending', seen', clock', bars')
            /\ FileHolds(file', clock', bars')
            /\ BookOK(Book', rows')
            /\ FillsOK(fills', pending', broker', ledger', crashes')
<1>1. ASSUME BookOK(Book', rows'), rows' \in 0..MaxRows
      PROVE  /\ protection' \in ProtectionType /\ lastExit' \in {None} \cup Minutes
             /\ broker' \in RowType /\ ledger' \in RowType
  BY <1>1 DEF BookOK, BookType, Book
<1> QED BY <1>1 DEF IInv, TypeOK, WorldHolds, RetestsHold, FileHolds

(***************************************************************************)
(* Every step keeps the invariant                                          *)
(***************************************************************************)

\* What a step may do to the rows, and when it may fill.
BookStep == Guarded(Book, Book') /\ (crashes' = crashes => Within(Book, Book'))
FillStep ==
  Len(fills') > Len(fills) =>
    LET s == fills'[Len(fills')].signal
        m == clock - 1
    IN  /\ m \in s[2]..Expiry(s) /\ Reclaimed(s, m)
        /\ \A k \in s[2]..(m - 1) : ~Reclaimed(s, k)
Kept == IInv' /\ BookStep /\ FillStep

\* A book put into the variables is the book after the step.
LEMMA BookSet ==
  ASSUME NEW b, NEW n \in Nat, BookOK(b, n), SetBook(b)
  PROVE  Book' = b
<1>1. b = [protection |-> b.protection, lastExit |-> b.lastExit,
           broker |-> b.broker, ledger |-> b.ledger]
  BY BookFields
<1> QED BY <1>1 DEF Book, SetBook

\* A step within a minute that fills nothing.
LEMMA QuietStep ==
  ASSUME IInv, clock' = clock, bars' = bars, fills' = fills, crashes' = crashes,
         now' \in {0, now, clock}, pc' \in {"idle", "replay", "apply", "save", "hold"},
         rows' \in 0..MaxRows, BookOK(Book', rows'), Advances(Book, Book'),
         FileHolds(file', clock, bars), RetestsHold(pending', seen', clock, bars),
         \A s \in Signals : Onward(pending[s], pending'[s])
  PROVE  Kept
<1>1. WorldHolds(clock', now', pc', bars', rows', crashes')
  <2>1. WorldHolds(clock, now, pc, bars, rows, crashes) /\ clock \in Nat
    BY Parts, Instants DEF WorldHolds
  <2>2. now' \in Minutes /\ now' <= clock
    BY <2>1, F111Assumption DEF WorldHolds, Minutes
  <2> QED BY <2>1, <2>2 DEF WorldHolds
<1>2. FillsOK(fills', pending', broker', ledger', crashes')
  <2>1. Stuck(broker, ledger) => Stuck(broker', ledger')
    BY DEF Advances, Within, Book
  <2>2. FillsOK(fills, pending, broker, ledger, crashes)
    BY Parts
  <2>3. FillsOK(fills, pending', broker', ledger', crashes)
    BY <2>1, <2>2, FillsStay
  <2> QED BY <2>3
<1>3. IInv'
  BY <1>1, <1>2, PartsAfter
<1>4. ~(Len(fills') > Len(fills))
  <2>1. Len(fills) \in Nat
    BY Parts DEF FillsOK
  <2> QED BY <2>1
<1> QED BY <1>3, <1>4 DEF Kept, BookStep, FillStep, Advances

\* A step of the thread that fills the scheduled signal s the minute it is due.
LEMMA FillingStep ==
  ASSUME IInv, clock' = clock, bars' = bars, crashes' = crashes, seen' = seen, file' = file,
         NEW s \in Signals, fills' = Append(fills, [signal |-> s, life |-> crashes]),
         pending[s].status = "scheduled", pending[s].action = clock,
         now' = 0, pc' \in {"idle", "hold"}, rows < MaxRows, rows' = rows + 1,
         BookOK(Book', rows'), Advances(Book, Book'), ~Stuck(broker, ledger),
         RetestsHold(pending', seen, clock, bars),
         \A t \in Signals : Onward(pending[t], pending'[t]),
         pending'[s].status \notin {"none", "watching"},
         pending'[s].status = "scheduled" => Stuck(broker', ledger')
  PROVE  Kept
<1>0. WorldHolds(clock, now, pc, bars, rows, crashes) /\ clock \in Nat
  BY Parts, Instants DEF WorldHolds
<1>1. WorldHolds(clock', now', pc', bars', rows', crashes')
  <2>1. rows' \in 0..MaxRows /\ 0 \in Minutes /\ 0 <= clock
    BY <1>0, F111Assumption DEF WorldHolds, Minutes
  <2> QED BY <1>0, <2>1 DEF WorldHolds
<1>2. FillsOK(fills', pending', broker', ledger', crashes')
  <2>1. FillsOK(fills, pending, broker, ledger, crashes) /\ crashes \in Nat
    BY <1>0, Parts DEF WorldHolds
  <2>2. FillsOK(Append(fills, [signal |-> s, life |-> crashes]), pending', broker', ledger',
                crashes)
    BY <2>1, FillAdded
  <2> QED BY <2>2
<1>3. FileHolds(file', clock', bars')
  BY Parts
<1>4. IInv'
  BY <1>1, <1>2, <1>3, PartsAfter
<1>5. FillStep
  <2>1. fills \in Seq(Fill) /\ [signal |-> s, life |-> crashes] \in Fill
    BY <1>0, Parts DEF FillsOK, WorldHolds, Fill
  <2>2. fills'[Len(fills')] = [signal |-> s, life |-> crashes]
    BY <2>1
  <2>3. fills'[Len(fills')].signal = s
    BY <2>2
  <2>4. RetestOK(pending[s], s, clock, bars)
    BY Parts DEF RetestsHold, RetestsOK
  <2>5. /\ clock - 1 \in s[2]..Expiry(s)
        /\ Confirms(s, clock - 1, bars)
        /\ \A k \in s[2]..(clock - 2) : ~Confirms(s, k, bars)
    BY <2>4 DEF RetestOK
  <2>6. (clock - 1) - 1 = clock - 2
    BY <1>0
  <2>7. \A k : Confirms(s, k, bars) <=> Reclaimed(s, k)
    BY DEF Confirms, Touches, Reclaimed
  <2> QED BY <2>3, <2>5, <2>6, <2>7 DEF FillStep
<1> QED BY <1>4, <1>5 DEF Kept, BookStep, Advances

\* What most steps leave alone.
LEMMA Given ==
  ASSUME IInv
  PROVE  /\ clock \in Minutes /\ now \in Minutes /\ rows \in 0..MaxRows /\ rows \in Nat
         /\ pc \in {"idle", "replay", "apply", "save", "hold"}
         /\ BookOK(Book, rows) /\ Advances(Book, Book)
         /\ FileHolds(file, clock, bars) /\ RetestsHold(pending, seen, clock, bars)
         /\ \A s \in Signals : /\ pending[s] \in Retests /\ RetestOK(pending[s], s, clock, bars)
                               /\ pending[s].status # "none" => s \in seen
                               /\ Onward(pending[s], pending[s])
<1>1. /\ clock \in Minutes /\ now \in Minutes /\ rows \in 0..MaxRows /\ rows \in Nat
      /\ pc \in {"idle", "replay", "apply", "save", "hold"}
  BY Parts, F111Assumption DEF WorldHolds
<1>2. BookOK(Book, rows) /\ FileHolds(file, clock, bars) /\ RetestsHold(pending, seen, clock, bars)
  BY Parts
<1>3. Advances(Book, Book)
  BY <1>1, <1>2, Unchanged
<1> QED BY <1>1, <1>2, <1>3 DEF RetestsHold, RetestsOK, Onward

\* The retests after a step, signal by signal.
LEMMA RetestsAfter ==
  ASSUME NEW p, NEW sn, sn \subseteq Signals, NEW r \in [Signals -> Retests], NEW t, NEW bs,
         \A s \in Signals : RetestOK(r[s], s, t, bs) /\ (r[s].status # "none" => s \in sn)
  PROVE  RetestsHold(r, sn, t, bs)
BY DEF RetestsHold, RetestsOK

\* The first poll of an hour opens the retests of the signals that passed.
LEMMA BeginKeeps ==
  ASSUME IInv, Begin
  PROVE  Kept
<1>1. /\ RetestsHold(pending', seen', clock, bars)
      /\ \A s \in Signals : Onward(pending[s], pending'[s])
  <2>1. CASE UNCHANGED <<pending, seen, lastHour>>
    BY <2>1, Given
  <2>2. ASSUME NEW passed \in SUBSET Sides, Observe(passed)
        PROVE  /\ RetestsHold(pending', seen', clock, bars)
               /\ \A s \in Signals : Onward(pending[s], pending'[s])
    <3> DEFINE fresh == {s \in Signals : s[1] \in passed /\ s[2] = HourOf(clock)} \ seen
               open(s) == [status |-> "watching", touched |-> FALSE, next |-> s[2],
                           action |-> None]
    <3>1. /\ seen' = seen \cup fresh
          /\ pending' = [s \in Signals |-> IF s \in fresh /\ clock = s[2] THEN open(s)
                                           ELSE pending[s]]
      BY <2>2 DEF Observe
    <3>2. fresh \subseteq Signals /\ fresh \cap seen = {} /\ seen \subseteq Signals
      BY Given DEF RetestsHold
    <3> HIDE DEF fresh
    <3>3. ASSUME NEW s \in Signals
          PROVE  /\ pending'[s] \in Retests /\ RetestOK(pending'[s], s, clock, bars)
                 /\ pending'[s].status # "none" => s \in seen'
                 /\ Onward(pending[s], pending'[s])
      <4>1. CASE s \in fresh /\ clock = s[2]
        <5>1. pending'[s] = open(s)
          BY <3>1, <4>1
        <5>2. s[2] \in Minutes /\ s[2] \in Nat
          BY Instants
        <5>3. open(s) \in Retests
          BY <5>2 DEF Retests
        <5>4. s[2]..(s[2] - 1) = {}
          BY <5>2
        <5>5. RetestOK(open(s), s, clock, bars)
          BY <4>1, <5>2, <5>4 DEF RetestOK, Touches
        <5>6. pending[s].status = "none"
          BY <3>2, <4>1, Given
        <5> QED BY <3>1, <4>1, <5>1, <5>3, <5>5, <5>6 DEF Onward
      <4>2. CASE ~(s \in fresh /\ clock = s[2])
        BY <3>1, <4>2, Given
      <4> QED BY <4>1, <4>2
    <3>4. pending' \in [Signals -> Retests]
      BY <3>1, <3>3
    <3>5. seen' \subseteq Signals
      BY <3>1, <3>2
    <3> QED BY <3>3, <3>4, <3>5, RetestsAfter
  <2> QED BY <2>1, <2>2 DEF Begin
<1>2. /\ clock' = clock /\ bars' = bars /\ fills' = fills /\ crashes' = crashes /\ rows' = rows
      /\ now' = now /\ file' = file /\ pc' \in {"replay", "save"} /\ Book' = Book
  BY DEF Begin, world, book, history, limits, Book
<1> QED BY <1>1, <1>2, Given, QuietStep

\* Replaying the closed minutes drops a protection whose position is gone.
LEMMA ReplayKeeps ==
  ASSUME IInv, Replay
  PROVE  Kept
<1>1. PICK frame \in BOOLEAN : pending' = [s \in Signals |-> Replayed(s, frame)]
  BY DEF Replay
<1>2. ASSUME NEW s \in Signals
      PROVE  /\ pending'[s] \in Retests /\ RetestOK(pending'[s], s, clock, bars)
             /\ pending'[s].status # "none" => s \in seen
             /\ Onward(pending[s], pending'[s])
  BY <1>1, Given, ReplayedOK
<1>3. RetestsHold(pending', seen, clock, bars)
  <2>1. pending' \in [Signals -> Retests]
    BY <1>1, <1>2
  <2>2. seen \subseteq Signals
    BY Given DEF RetestsHold
  <2> QED BY <1>2, <2>1, <2>2, RetestsAfter
<1>4. BookOK(Book', rows) /\ Advances(Book, Book')
  <2>1. BookOK(Dropped(Book, clock), rows) /\ Advances(Book, Dropped(Book, clock))
    BY Given, DroppedBook
  <2>2. Book' = Dropped(Book, clock)
    BY <2>1, Given, BookSet DEF Replay
  <2> QED BY <2>1, <2>2
<1>5. /\ clock' = clock /\ bars' = bars /\ fills' = fills /\ crashes' = crashes /\ rows' = rows
      /\ now' \in {0, clock} /\ file' = file /\ pc' \in {"apply", "save"} /\ seen' = seen
  BY DEF Replay, world, history, limits
<1> QED BY <1>2, <1>3, <1>4, <1>5, Given, QuietStep

\* What the step under the lock makes of the due retests: one may be filled,
\* the others are rejected.
LEMMA SettledOK ==
  ASSUME IInv, NEW filled, filled \subseteq Due
  PROVE  /\ RetestsHold(Settled(filled), seen, clock, bars)
         /\ \A s \in Signals : /\ Onward(pending[s], Settled(filled)[s])
                               /\ s \in filled => Settled(filled)[s].status = "filled"
<1> DEFINE r == Settled(filled)
<1>1. ASSUME NEW s \in Signals
      PROVE  /\ r[s] \in Retests /\ RetestOK(r[s], s, clock, bars)
             /\ r[s].status # "none" => s \in seen
             /\ Onward(pending[s], r[s])
             /\ s \in filled => r[s].status = "filled"
  <2>1. s \in Due => pending[s].status = "scheduled"
    BY DEF Due, DueIn
  <2>2. r[s] = IF s \in filled THEN [pending[s] EXCEPT !.status = "filled"]
               ELSE IF s \in Due THEN [pending[s] EXCEPT !.status = "rejected"]
               ELSE pending[s]
    BY DEF Settled
  <2>3. pending[s] \in Retests
    BY Given
  <2> HIDE DEF r
  <2>4. CASE s \in Due
    <3>1. r[s] \in Retests /\ r[s].status \in {"filled", "rejected"}
      BY <2>2, <2>3, <2>4 DEF Retests
    <3>2. s \in filled => r[s].status = "filled"
      BY <2>2, <2>3 DEF Retests
    <3> QED BY <2>1, <2>4, <3>1, <3>2, Given DEF RetestOK, Onward
  <2>5. CASE s \notin Due
    BY <2>2, <2>5, Given
  <2> QED BY <2>4, <2>5
<1>2. r \in [Signals -> Retests]
  <2>1. \A s \in Signals : r[s] \in Retests
    BY <1>1
  <2> QED BY <2>1 DEF Settled
<1>3. seen \subseteq Signals
  BY Given DEF RetestsHold
<1> HIDE DEF r
<1>4. RetestsHold(r, seen, clock, bars)
  BY <1>1, <1>2, <1>3, RetestsAfter
<1> QED BY <1>1, <1>4 DEF r

\* The book after the recheck and the protection, under the lock.
LEMMA UnderTheLock ==
  ASSUME IInv, NEW q \in Quotes, NEW f \in Rates
  PROVE  LET b == Protected(Dropped(Book, now), q, f)
         IN  BookOK(b, rows) /\ Advances(Book, b)
<1> DEFINE d == Dropped(Book, now)
           b == Protected(d, q, f)
<1>1. BookOK(d, rows)
  BY Given, DroppedBook
<1>2. BookOK(b, rows) /\ Advances(d, b)
  BY <1>1, Given, ProtectedBook
<1> QED BY <1>2, Given, AfterDrop

\* The step under the lock that fills nothing.
LEMMA ApplyWithoutFillKeeps ==
  ASSUME IInv, ApplyWithoutFill
  PROVE  Kept
<1>1. BookOK(Book', rows) /\ Advances(Book, Book')
  <2>1. PICK q \in Quotes, f \in Rates : SetBook(Protected(Dropped(Book, now), q, f))
    BY DEF ApplyWithoutFill
  <2> DEFINE b == Protected(Dropped(Book, now), q, f)
  <2>2. BookOK(b, rows) /\ Advances(Book, b)
    BY UnderTheLock
  <2>3. Book' = b
    BY <2>1, <2>2, Given, BookSet
  <2> QED BY <2>2, <2>3
<1>2. /\ RetestsHold(pending', seen, clock, bars)
      /\ \A s \in Signals : Onward(pending[s], pending'[s])
  <2>1. pending' = Settled({})
    BY DEF ApplyWithoutFill
  <2> QED BY <2>1, SettledOK
<1>3. /\ clock' = clock /\ bars' = bars /\ fills' = fills /\ crashes' = crashes /\ rows' = rows
      /\ now' = 0 /\ file' = file /\ pc' = "hold" /\ seen' = seen
  BY DEF ApplyWithoutFill, world, limits
<1> QED BY <1>1, <1>2, <1>3, Given, QuietStep

\* What an admissible entry knows.
LEMMA AdmissibleEntry ==
  ASSUME IInv, NEW q \in Quotes, NEW f \in Rates, NEW s \in Due,
         Admissible(Protected(Dropped(Book, now), q, f), s, q)
  PROVE  /\ s \in Signals /\ pending[s].status = "scheduled" /\ pending[s].action = clock
         /\ rows < MaxRows
         /\ LET b == Protected(Dropped(Book, now), q, f)
                h == [b EXCEPT !.broker = [Row("f111", InitialStop) EXCEPT !.ledgered = FALSE]]
            IN  /\ BookOK(Filled(b), rows + 1) /\ Advances(Book, Filled(b))
                /\ BookOK(h, rows + 1) /\ Advances(Book, h) /\ Stuck(h.broker, h.ledger)
         /\ ~Stuck(broker, ledger)
<1> DEFINE b == Protected(Dropped(Book, now), q, f)
<1>1. BookOK(b, rows) /\ Advances(Book, b)
  BY UnderTheLock
<1>2. /\ s \in Signals /\ pending[s].status = "scheduled" /\ pending[s].action = clock
      /\ rows < MaxRows /\ ~Occupied(b)
  BY DEF Admissible, Due, DueIn
<1> HIDE DEF b
<1>3. /\ BookOK(Filled(b), rows + 1) /\ Advances(Book, Filled(b))
      /\ LET h == [b EXCEPT !.broker = [Row("f111", InitialStop) EXCEPT !.ledgered = FALSE]]
         IN  BookOK(h, rows + 1) /\ Advances(Book, h) /\ Stuck(h.broker, h.ledger)
      /\ ~Stuck(Book.broker, Book.ledger)
  BY <1>1, <1>2, Given, FilledBook
<1>4. Book.broker = broker /\ Book.ledger = ledger
  BY DEF Book
<1> QED BY <1>2, <1>3, <1>4 DEF b

\* The step under the lock that fills one due signal.
LEMMA ApplyWithFillKeeps ==
  ASSUME IInv, ApplyWithFill
  PROVE  Kept
<1>1. PICK q \in Quotes, f \in Rates, s \in Due :
        LET b == Protected(Dropped(Book, now), q, f)
        IN  /\ Admissible(b, s, q)
            /\ SetBook(Filled(b))
            /\ pending' = Settled({s})
            /\ fills' = Append(fills, [signal |-> s, life |-> crashes])
  BY DEF ApplyWithFill
<1> DEFINE b == Protected(Dropped(Book, now), q, f)
<1>2. /\ s \in Signals /\ pending[s].status = "scheduled" /\ pending[s].action = clock
      /\ rows < MaxRows /\ ~Stuck(broker, ledger)
      /\ BookOK(Filled(b), rows + 1) /\ Advances(Book, Filled(b))
  BY <1>1, AdmissibleEntry
<1>3. Book' = Filled(b)
  <2>1. rows + 1 \in Nat
    BY Given
  <2> QED BY <1>1, <1>2, <2>1, BookSet
<1>4. /\ clock' = clock /\ bars' = bars /\ crashes' = crashes /\ rows' = rows + 1
      /\ now' = 0 /\ file' = file /\ pc' = "hold" /\ seen' = seen
  BY DEF ApplyWithFill, world, limits
<1>5. BookOK(Book', rows') /\ Advances(Book, Book')
  BY <1>2, <1>3, <1>4
<1>6. /\ RetestsHold(pending', seen, clock, bars)
      /\ \A t \in Signals : Onward(pending[t], pending'[t])
      /\ pending'[s].status = "filled"
  <2>1. pending' = Settled({s})
    BY <1>1
  <2> QED BY <1>2, <2>1, SettledOK
<1>7. fills' = Append(fills, [signal |-> s, life |-> crashes])
  BY <1>1
<1> QED BY <1>2, <1>4, <1>5, <1>6, <1>7, FillingStep

\* The insert of the new row raises: the retest may stay scheduled, and the
\* broker's row without the ledger's keeps it from filling again.
LEMMA InsertRaisesKeeps ==
  ASSUME IInv, InsertRaises
  PROVE  Kept
<1>1. PICK q \in Quotes, f \in Rates, s \in Due :
        LET b == Protected(Dropped(Book, now), q, f)
        IN  /\ Admissible(b, s, q)
            /\ Raise([b EXCEPT !.broker = [Row("f111", InitialStop) EXCEPT !.ledgered = FALSE]])
            /\ fills' = Append(fills, [signal |-> s, life |-> crashes])
            /\ \E left \in SUBSET Due :
                 /\ s \in left
                 /\ pending' = [t \in Signals |-> IF t \in left THEN pending[t]
                                                  ELSE Settled({})[t]]
  BY DEF InsertRaises
<1> DEFINE b == Protected(Dropped(Book, now), q, f)
           h == [b EXCEPT !.broker = [Row("f111", InitialStop) EXCEPT !.ledgered = FALSE]]
<1>2. /\ s \in Signals /\ pending[s].status = "scheduled" /\ pending[s].action = clock
      /\ rows < MaxRows /\ ~Stuck(broker, ledger)
      /\ BookOK(h, rows + 1) /\ Advances(Book, h) /\ Stuck(h.broker, h.ledger)
  BY <1>1, AdmissibleEntry
<1>r. Raise(h)
  BY <1>1
<1> HIDE DEF h
<1>3. Book' = h
  <2>1. rows + 1 \in Nat
    BY Given
  <2> QED BY <1>r, <1>2, <2>1, BookSet DEF Raise
<1>4. /\ clock' = clock /\ bars' = bars /\ crashes' = crashes /\ rows' = rows + 1
      /\ now' = 0 /\ file' = file /\ pc' = "idle" /\ seen' = seen
  BY <1>r DEF InsertRaises, Raise, world
<1>5. /\ BookOK(Book', rows') /\ Advances(Book, Book')
      /\ Stuck(broker', ledger')
  <2>1. Book'.broker = broker' /\ Book'.ledger = ledger'
    BY DEF Book
  <2> QED BY <1>2, <1>3, <1>4, <2>1
<1>6. PICK left \in SUBSET Due :
        /\ s \in left
        /\ pending' = [t \in Signals |-> IF t \in left THEN pending[t] ELSE Settled({})[t]]
  BY <1>1
<1>7. /\ RetestsHold(Settled({}), seen, clock, bars)
      /\ \A t \in Signals : Onward(pending[t], Settled({})[t])
  BY SettledOK
<1>8. ASSUME NEW t \in Signals
      PROVE  /\ pending'[t] \in Retests /\ RetestOK(pending'[t], t, clock, bars)
             /\ pending'[t].status # "none" => t \in seen
             /\ Onward(pending[t], pending'[t])
  <2>1. CASE t \in left
    BY <1>6, <2>1, Given
  <2>2. CASE t \notin left
    BY <1>6, <1>7, <2>2 DEF RetestsHold, RetestsOK
  <2> QED BY <2>1, <2>2
<1>9. RetestsHold(pending', seen, clock, bars)
  <2>1. pending' \in [Signals -> Retests]
    BY <1>6, <1>8
  <2>2. seen \subseteq Signals
    BY Given DEF RetestsHold
  <2> QED BY <1>8, <2>1, <2>2, RetestsAfter
<1>10. pending'[s].status = "scheduled"
  BY <1>2, <1>6
<1>11. fills' = Append(fills, [signal |-> s, life |-> crashes])
  BY <1>1
<1> QED BY <1>2, <1>4, <1>5, <1>8, <1>9, <1>10, <1>11, FillingStep

\* An exception after some of the book moved: the rest of the state stays.
LEMMA RaisedBook ==
  ASSUME IInv, NEW b, BookOK(b, rows), Advances(Book, b), Raise(b), now' = 0,
         UNCHANGED <<pending, history>>
  PROVE  Kept
<1>1. Book' = b
  BY Given, BookSet DEF Raise
<1>2. /\ clock' = clock /\ bars' = bars /\ fills' = fills /\ crashes' = crashes /\ rows' = rows
      /\ file' = file /\ pc' = "idle" /\ seen' = seen /\ pending' = pending
  BY DEF Raise, world, history
<1> QED BY <1>1, <1>2, Given, QuietStep

\* The book after the recheck, which a step of the protection starts from.
LEMMA Rechecked ==
  ASSUME IInv
  PROVE  /\ BookOK(Dropped(Book, now), rows) /\ rows \in Nat /\ clock \in Minutes
         /\ \A b : BookOK(b, rows) /\ Advances(Dropped(Book, now), b) => Advances(Book, b)
<1>1. BookOK(Dropped(Book, now), rows) /\ rows \in Nat /\ clock \in Minutes
  BY Given, DroppedBook
<1>2. ASSUME NEW b, BookOK(b, rows), Advances(Dropped(Book, now), b) PROVE Advances(Book, b)
  BY <1>2, Given, AfterDrop
<1> QED BY <1>1, <1>2

\* The close raises, before its commit or between the commit and the RAM row.
LEMMA CloseRaisesKeeps ==
  ASSUME IInv, CloseRaises
  PROVE  Kept
<1> DEFINE d == Dropped(Book, now)
<1>1. PICK q \in Moves, f \in Rates :
        LET b == Publish(AfterSample(d, q, f))
        IN  /\ Steps(d)
            /\ Raise(b) \/ Raise([b EXCEPT !.ledger = NoRow])
  BY DEF CloseRaises
<1> DEFINE b == Publish(AfterSample(d, q, f))
<1>2. q \in Int /\ d.protection.id # 0
  BY <1>1, F111Assumption DEF Steps, Needs
<1>3. BookOK(b, rows) /\ Advances(d, b)
  BY <1>2, Rechecked, PublishedSample
<1> HIDE DEF d, b
<1>4. Advances(Book, b)
  BY <1>3, Rechecked DEF d
<1>5. BookOK([b EXCEPT !.ledger = NoRow], rows) /\ Advances(Book, [b EXCEPT !.ledger = NoRow])
  BY <1>3, <1>4, Given, ClosedBook
<1>6. now' = 0 /\ UNCHANGED <<pending, history>>
  BY DEF CloseRaises
<1>7. Raise(b) \/ Raise([b EXCEPT !.ledger = NoRow])
  BY <1>1 DEF b
<1> QED BY <1>3, <1>4, <1>5, <1>6, <1>7, RaisedBook

\* The ledger's stop raises after the broker has it.
LEMMA StopUpdateRaisesKeeps ==
  ASSUME IInv, StopUpdateRaises
  PROVE  Kept
<1> DEFINE d == Dropped(Book, now)
<1>1. PICK q \in Moves, f \in Rates :
        Steps(d) /\ Raise(PublishToBroker(AfterSample(d, q, f)))
  BY DEF StopUpdateRaises
<1> DEFINE b == PublishToBroker(AfterSample(d, q, f))
<1>2. q \in Int /\ d.protection.id # 0
  BY <1>1, F111Assumption DEF Steps, Needs
<1>3. BookOK(b, rows) /\ Advances(d, b)
  BY <1>2, Rechecked, PublishedSample
<1> HIDE DEF d, b
<1>4. Advances(Book, b)
  BY <1>3, Rechecked DEF d
<1>5. now' = 0 /\ UNCHANGED <<pending, history>>
  BY DEF StopUpdateRaises
<1>6. Raise(b)
  BY <1>1 DEF b
<1> QED BY <1>3, <1>4, <1>5, <1>6, RaisedBook

\* The state file takes what memory has, or keeps what it had.
LEMMA PersistKeeps ==
  ASSUME IInv, Persist \/ PersistRaises
  PROVE  Kept
<1>1. FileHolds(Saved, clock, bars)
  <2>1. Book.protection = protection /\ Book.lastExit = lastExit
    BY DEF Book
  <2>2. /\ protection \in ProtectionType /\ lastExit \in {None} \cup Minutes
        /\ protection.eff <= protection.dec
    BY <2>1, Given, BookFields DEF BookOK
  <2> QED BY <2>2, Given DEF FileHolds, Saved
<1>2. file' \in {file, Saved}
  BY DEF Persist, PersistRaises
<1>3. /\ clock' = clock /\ bars' = bars /\ fills' = fills /\ crashes' = crashes /\ rows' = rows
      /\ now' = now /\ pc' = "idle" /\ seen' = seen /\ pending' = pending /\ Book' = Book
  BY DEF Persist, PersistRaises, world, history, limits, runtime, book, Book
<1> QED BY <1>1, <1>2, <1>3, Given, QuietStep

\* An hourly sleeve opens a row on the symbol.
LEMMA OtherEntersKeeps ==
  ASSUME IInv, OtherEnters
  PROVE  Kept
<1> DEFINE r == Row("other", SleeveStop)
<1>1. /\ broker.id = 0 /\ ledger.id = 0 /\ rows < MaxRows /\ rows' = rows + 1
      /\ broker' = r /\ ledger' = r /\ protection' = protection /\ lastExit' = lastExit
  BY DEF OtherEnters, runtime
<1>2. r \in RowType /\ r.id = rows + 1 /\ r.stop = SleeveStop
  BY <1>1, Given, NewRow
<1>3. rows' \in 0..MaxRows
  BY <1>1, Given, F111Assumption
<1> HIDE DEF r
<1>4. /\ Book.protection = protection /\ Book.lastExit = lastExit
      /\ Book.broker = broker /\ Book.ledger = ledger
      /\ Book' = [protection |-> protection, lastExit |-> lastExit, broker |-> r, ledger |-> r]
  BY <1>1 DEF Book
<1>5. /\ protection \in ProtectionType /\ lastExit \in {None} \cup Minutes
      /\ protection.eff <= protection.dec
  BY <1>4, Given, BookFields DEF BookOK
<1>6. Book' \in BookType
  BY <1>2, <1>4, <1>5 DEF BookType
<1>7. BookOK(Book', rows')
  BY <1>1, <1>2, <1>4, <1>5, <1>6, Given, F111Assumption DEF BookOK
<1>8. Advances(Book, Book')
  BY <1>1, <1>2, <1>4, Given DEF Advances, Guarded, Within, Stuck
<1>9. /\ clock' = clock /\ bars' = bars /\ fills' = fills /\ crashes' = crashes
      /\ now' = now /\ pc' = pc /\ seen' = seen /\ pending' = pending /\ file' = file
  BY DEF OtherEnters, world, limits, runtime
<1> QED BY <1>3, <1>7, <1>8, <1>9, Given, QuietStep

\* The exit thread closes the row of the symbol, but for one it cannot find.
LEMMA ExitThreadKeeps ==
  ASSUME IInv, ExitThread
  PROVE  Kept
<1>1. /\ broker.id # 0 /\ (ledger.id # 0 \/ broker.ledgered)
      /\ broker' = NoRow /\ ledger' = NoRow /\ protection' = protection /\ lastExit' = lastExit
  BY DEF ExitThread, runtime
<1>2. /\ Book.protection = protection /\ Book.lastExit = lastExit
      /\ Book.broker = broker /\ Book.ledger = ledger
      /\ Book' = [protection |-> protection, lastExit |-> lastExit, broker |-> NoRow,
                  ledger |-> NoRow]
  BY <1>1 DEF Book
<1>3. /\ protection \in ProtectionType /\ lastExit \in {None} \cup Minutes
      /\ protection.eff <= protection.dec
  BY <1>2, Given, BookFields DEF BookOK
<1>4. Book' \in BookType
  BY <1>2, <1>3, Blank DEF BookType
<1>5. BookOK(Book', rows)
  BY <1>2, <1>3, <1>4, Blank, Given DEF BookOK
<1>6. Advances(Book, Book')
  <2>1. ledger.id = 0 => ledger = NoRow
    BY <1>2, Given DEF BookOK
  <2>2. ledger.id = NoRow.id => NoRow.stop >= ledger.stop
    BY <2>1, Blank DEF InitialStop
  <2> QED BY <1>1, <1>2, <2>2, Blank DEF Advances, Guarded, Within, Stuck
<1>7. /\ clock' = clock /\ bars' = bars /\ fills' = fills /\ crashes' = crashes /\ rows' = rows
      /\ now' = now /\ pc' = pc /\ seen' = seen /\ pending' = pending /\ file' = file
  BY DEF ExitThread, world, limits, runtime
<1> QED BY <1>5, <1>6, <1>7, Given, QuietStep

\* A restart reads the file, and the broker's row from the ledger.
LEMMA CrashKeeps ==
  ASSUME IInv, CrashAndRestart
  PROVE  Kept
<1>0. crashes \in Nat /\ Len(fills) \in Nat
  BY Parts DEF WorldHolds, FillsOK
<1>1. /\ pc' = "idle" /\ now' = 0 /\ crashes' = crashes + 1 /\ clock' = clock /\ bars' = bars
      /\ fills' = fills /\ rows' = rows /\ file' = file
      /\ pending' = file.pending /\ seen' = file.seen
      /\ protection' = file.protection /\ lastExit' = file.lastExit
      /\ broker' = ledger /\ ledger' = ledger
  BY DEF CrashAndRestart, world, history
<1>2. WorldHolds(clock', now', pc', bars', rows', crashes')
  <2>1. WorldHolds(clock, now, pc, bars, rows, crashes) /\ clock \in Nat
    BY Parts, Instants DEF WorldHolds
  <2>2. 0 \in Minutes /\ 0 <= clock /\ crashes + 1 \in Nat
    BY <1>0, <2>1, F111Assumption DEF Minutes
  <2> QED BY <1>1, <2>1, <2>2 DEF WorldHolds
<1>3. RetestsHold(pending', seen', clock', bars') /\ FileHolds(file', clock', bars')
  BY <1>1, Given DEF FileHolds
<1>4. /\ Book.protection = protection /\ Book.lastExit = lastExit
      /\ Book.broker = broker /\ Book.ledger = ledger
      /\ Book' = [protection |-> file.protection, lastExit |-> file.lastExit,
                  broker |-> ledger, ledger |-> ledger]
  BY <1>1 DEF Book
<1>5. /\ ledger.stop \in Int /\ broker.stop \in Int /\ ledger \in RowType
      /\ broker.id = 0 => broker = NoRow
      /\ ledger.id = 0 => ledger = NoRow
      /\ ledger.id # 0 => broker.id = ledger.id /\ ledger.stop <= broker.stop
      /\ ledger.id <= rows
  BY <1>4, Given, BookFields DEF BookOK
<1>6. BookOK(Book', rows')
  <2>1. /\ file.protection \in ProtectionType /\ file.lastExit \in {None} \cup Minutes
        /\ file.protection.eff <= file.protection.dec
    BY Given DEF FileHolds
  <2>2. Book' \in BookType
    BY <1>4, <1>5, <2>1 DEF BookType
  <2> QED BY <1>1, <1>4, <1>5, <2>1, <2>2 DEF BookOK
<1>7. Guarded(Book, Book')
  <2>1. ledger.id = broker.id => ~(ledger.stop > broker.stop)
    BY <1>5
  <2> QED BY <1>4, <1>5, <2>1 DEF Guarded
<1>8. FillsOK(fills', pending', broker', ledger', crashes')
  BY <1>0, <1>1, Parts, FillsOfTheNextLife
<1>9. IInv'
  BY <1>2, <1>3, <1>6, <1>8, PartsAfter
<1>10. crashes' # crashes /\ ~(Len(fills') > Len(fills))
  BY <1>0, <1>1
<1> QED BY <1>7, <1>9, <1>10 DEF Kept, BookStep, FillStep

\* A minute closes: its bar is one no retest has replayed.
LEMMA TickKeeps ==
  ASSUME IInv, Tick
  PROVE  Kept
<1>0. /\ clock \in Nat /\ clock \in Minutes /\ clock' = clock + 1 /\ clock' \in Minutes
      /\ WorldHolds(clock, now, pc, bars, rows, crashes)
  BY Parts, Instants, F111Assumption DEF WorldHolds, Tick, Minutes
<1>1. PICK bar : bars' = [bars EXCEPT ![clock] = bar] /\ (bar \in Bars \/ bar = bars[clock])
  BY DEF Tick
<1>2. bars' \in [Minutes -> [touch : SUBSET Sides, beyond : SUBSET Sides]]
  BY <1>0, <1>1, F111Assumption DEF WorldHolds
<1>3. \A k \in Nat : k < clock => bars'[k] = bars[k]
  <2> SUFFICES ASSUME NEW k \in Nat, k < clock PROVE bars'[k] = bars[k]
    OBVIOUS
  <2>1. k \in Minutes /\ k # clock
    BY <1>0, F111Assumption DEF Minutes
  <2> QED BY <1>0, <1>1, <2>1 DEF WorldHolds
<1>4. ASSUME NEW p, NEW sn, RetestsHold(p, sn, clock, bars)
      PROVE  RetestsHold(p, sn, clock', bars')
  <2>1. p \in [Signals -> Retests] /\ sn \subseteq Signals
    BY <1>4 DEF RetestsHold
  <2>2. ASSUME NEW s \in Signals PROVE RetestOK(p[s], s, clock', bars')
    <3>1. RetestOK(p[s], s, clock, bars) /\ p[s] \in Retests
      BY <1>4, <2>1 DEF RetestsHold, RetestsOK
    <3>2. clock <= clock'
      BY <1>0
    <3> QED BY <1>0, <1>3, <3>1, <3>2, RetestLater
  <2> QED BY <1>4, <2>1, <2>2 DEF RetestsHold, RetestsOK
<1>5. /\ now' = now /\ pc' = pc /\ pending' = pending /\ seen' = seen /\ file' = file
      /\ rows' = rows /\ fills' = fills /\ crashes' = crashes /\ Book' = Book
      /\ broker' = broker /\ ledger' = ledger
  BY DEF Tick, runtime, book, history, limits, Book
<1>6. WorldHolds(clock', now', pc', bars', rows', crashes')
  <2>1. now' <= clock'
    BY <1>0, <1>5, Instants DEF WorldHolds
  <2> QED BY <1>0, <1>2, <1>5, <2>1 DEF WorldHolds
<1>7. RetestsHold(pending', seen', clock', bars') /\ FileHolds(file', clock', bars')
  BY <1>4, <1>5, Given DEF FileHolds
<1>8. IInv'
  BY <1>5, <1>6, <1>7, Parts, PartsAfter
<1>9. BookStep
  BY <1>5, Given DEF BookStep, Advances
<1>10. FillStep
  <2>1. Len(fills) \in Nat
    BY Parts DEF FillsOK
  <2> QED BY <1>5, <2>1 DEF FillStep
<1> QED BY <1>8, <1>9, <1>10 DEF Kept

\* A step that changes nothing.
LEMMA StutterKeeps ==
  ASSUME IInv, UNCHANGED vars
  PROVE  Kept
<1>1. /\ clock' = clock /\ bars' = bars /\ fills' = fills /\ crashes' = crashes /\ rows' = rows
      /\ now' = now /\ pc' = pc /\ seen' = seen /\ pending' = pending /\ file' = file
      /\ Book' = Book
  BY DEF vars, world, runtime, book, history, limits, Book
<1> QED BY <1>1, Given, QuietStep

\* The first start.
LEMMA InitHolds == Init => IInv
<1> SUFFICES ASSUME Init PROVE IInv
  OBVIOUS
<1>1. WorldHolds(clock, now, pc, bars, rows, crashes)
  BY F111Assumption DEF Init, WorldHolds, Minutes
<1>2. RetestsHold(pending, seen, clock, bars)
  <2>1. Unseen \in Retests /\ Unseen.status = "none"
    BY DEF Unseen, Retests
  <2>2. pending \in [Signals -> Retests] /\ \A s \in Signals : pending[s] = Unseen
    BY <2>1 DEF Init
  <2> QED BY <2>1, <2>2 DEF Init, RetestsHold, RetestsOK, RetestOK
<1>3. FileHolds(file, clock, bars)
  BY <1>2, Blank DEF Init, FileHolds
<1>4. BookOK(Book, rows)
  <2>1. Book \in BookType
    BY Blank DEF Init, Book, BookType
  <2> QED BY <2>1, Blank DEF Init, Book, BookOK
<1>5. FillsOK(fills, pending, broker, ledger, crashes)
  BY DEF Init, FillsOK
<1> QED BY <1>1, <1>2, <1>3, <1>4, <1>5, Parts

\* Every step keeps the invariant, moves no stop of a row that stays back, and
\* fills only what the bars confirmed.
LEMMA StepHolds ==
  ASSUME IInv, [Next]_vars
  PROVE  Kept
<1>1. ASSUME Step PROVE Kept
  BY <1>1, BeginKeeps, ReplayKeeps, ApplyWithoutFillKeeps, ApplyWithFillKeeps,
     InsertRaisesKeeps, CloseRaisesKeeps, StopUpdateRaisesKeeps, PersistKeeps DEF Step, Apply
<1> QED BY <1>1, OtherEntersKeeps, ExitThreadKeeps, CrashKeeps, TickKeeps, StutterKeeps
        DEF Next

(***************************************************************************)
(* The theorems                                                            *)
(***************************************************************************)

\* The inductive invariant holds in every state.
LEMMA Inductive == Spec => []IInv
<1>1. IInv /\ [Next]_vars => IInv'
  BY StepHolds DEF Kept
<1> QED BY InitHolds, <1>1, PTL DEF Spec

\* Types: a stop is never below the initial one, a best move never at or past
\* the target, a protection names a row that exists.
THEOREM TypeCorrect == Spec => []TypeOK
<1>1. IInv => TypeOK
  BY DEF IInv
<1> QED BY <1>1, Inductive, PTL

\* One process fills a signal at most once, although an exception can leave
\* the retest scheduled after the broker has filled it.
THEOREM OneFill == Spec => []FilledOnce
<1>1. IInv => FilledOnce
  BY DEF IInv, FillsOK, FilledOnce
<1> QED BY <1>1, Inductive, PTL

\* A fill is the minute after the first bar of its retest that closed back
\* beyond a boundary some bar of the retest had touched.
THEOREM OnlyConfirmedFills == Spec => FillIsConfirmed
<1>1. IInv /\ [Next]_vars => FillStep
  BY StepHolds DEF Kept
<1>2. Spec => [][FillStep]_vars
  BY <1>1, Inductive, PTL DEF Spec
<1> QED BY <1>2 DEF FillIsConfirmed, FillStep

\* The two formulas about the stops, of one step.
StopStep ==
  /\ ledger'.id = ledger.id => ledger'.stop >= ledger.stop
  /\ broker'.id = broker.id /\ crashes' = crashes => broker'.stop >= broker.stop
FloorStep ==
  broker'.id = broker.id /\ broker'.id = protection'.id /\ broker'.stop > broker.stop
    => protection.dec >= broker'.stop

\* What a step does to the book is what it does to the stops.
LEMMA StopsStep ==
  ASSUME IInv, [Next]_vars
  PROVE  StopStep /\ FloorStep
<1>1. BookStep
  BY StepHolds DEF Kept
<1> QED BY <1>1 DEF BookStep, Guarded, Within, Book, StopStep, FloorStep

\* The stop of a position is never loosened: not in the ledger, by any step,
\* restart or late protection record, and not in RAM within a process.
THEOREM NoStopLoosens == Spec => StopNeverLoosens
<1>1. IInv /\ [Next]_vars => StopStep
  BY StopsStep
<1>2. Spec => [][StopStep]_vars
  BY <1>1, Inductive, PTL DEF Spec
<1> QED BY <1>2 DEF StopNeverLoosens, StopStep

\* A stop is raised only to a level an earlier sample decided.
THEOREM FloorWaits == Spec => FloorWaitsASample
<1>1. IInv /\ [Next]_vars => FloorStep
  BY StopsStep
<1>2. Spec => [][FloorStep]_vars
  BY <1>1, Inductive, PTL DEF Spec
<1> QED BY <1>2 DEF FloorWaitsASample, FloorStep

(***************************************************************************)
(* Whose row a protection is of                                            *)
(***************************************************************************)

\* What is left of the rows and the protection of b is the same in c.
Remains(b, c) ==
  /\ c.protection.id \in {0, b.protection.id}
  /\ c.broker.id = 0 \/ (c.broker.id = b.broker.id /\ c.broker.owner = b.broker.owner)
  /\ c.ledger.id = 0 \/ (c.ledger.id = b.ledger.id /\ c.ledger.owner = b.ledger.owner)

\* Then c has no row of another owner under the protection's number.
LEMMA OwnRowsRemain ==
  ASSUME NEW b, NEW n \in Nat, BookOK(b, n), NEW fid, OwnRows(b, fid, n),
         NEW c, Remains(b, c), c.protection.id \in Nat
  PROVE  OwnRows(c, fid, n)
<1>1. c.protection.id <= n
  BY BookFields DEF Remains, OwnRows
<1>2. c.protection.id \in {0, b.protection.id}
  BY DEF Remains
<1> QED BY <1>1, <1>2 DEF Remains, OwnRows

\* Remaining is reflexive and transitive.
LEMMA StillRemains ==
  ASSUME NEW a, NEW b, NEW c
  PROVE  Remains(a, a) /\ (Remains(a, b) /\ Remains(b, c) => Remains(a, c))
BY DEF Remains

\* The recheck, a sample and a stop published change no number and no owner.
LEMMA DropRemains ==
  ASSUME NEW b, NEW n \in Nat, BookOK(b, n), NEW t \in Minutes
  PROVE  Remains(b, Dropped(b, t))
<1>1. Dropped(b, t).broker = b.broker /\ Dropped(b, t).ledger = b.ledger
  BY DroppedBook
<1>2. Dropped(b, t).protection \in {NoProtection, b.protection}
  <2>1. CASE b.protection.id # 0 /\ b.broker.id = 0
    <3>1. Dropped(b, t) = [b EXCEPT !.protection = NoProtection,
                                    !.lastExit = IF @ = None THEN t ELSE @]
      BY <2>1 DEF Dropped
    <3>2. b = [protection |-> b.protection, lastExit |-> b.lastExit,
               broker |-> b.broker, ledger |-> b.ledger]
      BY BookFields
    <3> QED BY <3>1, <3>2
  <2>2. CASE ~(b.protection.id # 0 /\ b.broker.id = 0)
    BY <2>2 DEF Dropped
  <2> QED BY <2>1, <2>2
<1> QED BY <1>1, <1>2, Blank DEF Remains

LEMMA PublishRemains ==
  ASSUME NEW b, NEW n \in Nat, BookOK(b, n), NEW c \in {PublishToBroker(b), Publish(b)}
  PROVE  Remains(b, c)
<1> DEFINE e == b.protection.eff
<1>1. /\ b = [protection |-> b.protection, lastExit |-> b.lastExit,
              broker |-> b.broker, ledger |-> b.ledger]
      /\ b.broker \in RowType /\ b.ledger \in RowType
  BY BookFields
<1>2. PICK br \in {b.broker, [b.broker EXCEPT !.stop = e]} :
        PublishToBroker(b) = [protection |-> b.protection, lastExit |-> b.lastExit,
                              broker |-> br, ledger |-> b.ledger]
  <2>1. PublishToBroker(b) \in {b, [b EXCEPT !.broker.stop = e]}
    BY DEF PublishToBroker
  <2>2. [b EXCEPT !.broker.stop = e]
          = [protection |-> b.protection, lastExit |-> b.lastExit,
             broker |-> [b.broker EXCEPT !.stop = e], ledger |-> b.ledger]
    BY <1>1
  <2> QED BY <1>1, <2>1, <2>2
<1>3. PICK ld \in {b.ledger, [b.ledger EXCEPT !.stop = e]} :
        c = [protection |-> b.protection, lastExit |-> b.lastExit, broker |-> br, ledger |-> ld]
  <2>1. c \in {PublishToBroker(b), [PublishToBroker(b) EXCEPT !.ledger.stop = e]}
    BY DEF Publish
  <2>2. [PublishToBroker(b) EXCEPT !.ledger.stop = e]
          = [protection |-> b.protection, lastExit |-> b.lastExit, broker |-> br,
             ledger |-> [b.ledger EXCEPT !.stop = e]]
    BY <1>2
  <2> QED BY <1>2, <2>1, <2>2
<1>4. br.id = b.broker.id /\ br.owner = b.broker.owner
  BY <1>1 DEF RowType
<1>5. ld.id = b.ledger.id /\ ld.owner = b.ledger.owner
  BY <1>1 DEF RowType
<1>6. c.protection = b.protection /\ c.broker = br /\ c.ledger = ld
  BY <1>3
<1> QED BY <1>4, <1>5, <1>6 DEF Remains

LEMMA SampleRemains ==
  ASSUME NEW b, NEW n \in Nat, BookOK(b, n), NEW q \in Int, NEW f \in Rates,
         NEW c \in {PublishToBroker(AfterSample(b, q, f)), Publish(AfterSample(b, q, f))}
  PROVE  Remains(b, c)
<1> DEFINE a == AfterSample(b, q, f)
<1>1. /\ BookOK(a, n) /\ a.broker = b.broker /\ a.ledger = b.ledger
      /\ a.protection.id = b.protection.id
  BY SampledBook
<1>2. c \in {PublishToBroker(a), Publish(a)}
  OBVIOUS
<1> HIDE DEF a
<1>3. Remains(a, c)
  BY <1>1, <1>2, PublishRemains
<1>4. Remains(b, a)
  BY <1>1 DEF Remains
<1> QED BY <1>3, <1>4, StillRemains

\* So does one step of the protection, which may also close the position.
LEMMA ProtectRemains ==
  ASSUME NEW b, NEW n \in Nat, BookOK(b, n), clock \in Minutes,
         NEW q \in Quotes, NEW f \in Rates
  PROVE  Remains(b, Protected(b, q, f))
<1>1. CASE ~Steps(b) \/ q = NoQuote
  <2>1. Protected(b, q, f) = b
    BY <1>1 DEF Protected
  <2> QED BY <2>1, StillRemains
<1>2. CASE ~(~Steps(b) \/ q = NoQuote)
  <2> DEFINE p == Publish(AfterSample(b, q, f))
  <2>1. q \in Int /\ b.protection.id # 0
    BY <1>2, F111Assumption DEF Quotes, Steps, Needs
  <2>2. BookOK(p, n) /\ Remains(b, p)
    BY <2>1, PublishedSample, SampleRemains
  <2>3. Protected(b, q, f) \in {Exited(p), [p EXCEPT !.protection.last = clock]}
    BY <1>2 DEF Protected
  <2> HIDE DEF p
  <2>4. Remains(p, Exited(p))
    <3>1. CASE CanClose(p)
      <4>1. Exited(p) = [protection |-> NoProtection, lastExit |-> clock, broker |-> NoRow,
                         ledger |-> NoRow]
        BY <3>1 DEF Exited
      <4>2. Exited(p).protection.id = 0 /\ Exited(p).broker.id = 0 /\ Exited(p).ledger.id = 0
        BY <4>1, Blank
      <4> QED BY <4>2 DEF Remains
    <3>2. CASE ~CanClose(p)
      BY <3>2, StillRemains DEF Exited
    <3> QED BY <3>1, <3>2
  <2>5. Remains(p, [p EXCEPT !.protection.last = clock])
    <3> DEFINE x == [p EXCEPT !.protection.last = clock]
    <3>1. /\ p = [protection |-> p.protection, lastExit |-> p.lastExit,
                  broker |-> p.broker, ledger |-> p.ledger]
          /\ p.protection \in ProtectionType
      BY <2>2, BookFields
    <3>2. x = [protection |-> [p.protection EXCEPT !.last = clock], lastExit |-> p.lastExit,
               broker |-> p.broker, ledger |-> p.ledger]
      BY <3>1
    <3>3. [p.protection EXCEPT !.last = clock].id = p.protection.id
      BY <3>1 DEF ProtectionType
    <3> HIDE DEF x
    <3>4. x.protection.id = p.protection.id /\ x.broker = p.broker /\ x.ledger = p.ledger
      BY <3>2, <3>3
    <3> QED BY <3>4 DEF Remains, x
  <2> QED BY <2>2, <2>3, <2>4, <2>5, StillRemains
<1> QED BY <1>1, <1>2

\* The same of the whole step under the lock.
LEMMA LockRemains ==
  ASSUME IInv, NEW q \in Quotes, NEW f \in Rates
  PROVE  Remains(Book, Protected(Dropped(Book, now), q, f))
<1>1. BookOK(Dropped(Book, now), rows) /\ Remains(Book, Dropped(Book, now))
  BY Given, DroppedBook, DropRemains
<1>2. Remains(Dropped(Book, now), Protected(Dropped(Book, now), q, f))
  BY <1>1, Given, ProtectRemains
<1> QED BY <1>1, <1>2, StillRemains

\* The fields of the book after a step.
LEMMA BookNext ==
  /\ Book.protection = protection /\ Book.broker = broker /\ Book.ledger = ledger
  /\ Book'.protection = protection' /\ Book'.broker = broker' /\ Book'.ledger = ledger'
BY DEF Book

\* A step that leaves the file and numbers no row.
LEMMA RemainingStep ==
  ASSUME IInv, IInv', OwnRowsInv, Remains(Book, Book'), file' = file, rows' = rows
  PROVE  OwnRowsInv'
<1>1. Book'.protection.id \in Nat
  BY BookNext, Parts, PartsAfter, BookFields, F111Assumption DEF WorldHolds
<1>2. BookOK(Book, rows) /\ rows \in Nat
  BY Given
<1>3. OwnRows(Book', file.protection.id, rows)
  BY <1>1, <1>2, OwnRowsRemain DEF OwnRowsInv
<1> QED BY <1>3 DEF OwnRowsInv

\* A row numbered by an entry of F111 is its own; the file knows an older one.
LEMMA EntryOwns ==
  ASSUME IInv, OwnRowsInv, NEW b, BookOK(b, rows), Remains(Book, b), ~Occupied(b)
  PROVE  LET h == [b EXCEPT !.broker = [Row("f111", InitialStop) EXCEPT !.ledgered = FALSE]]
         IN  /\ OwnRows(Filled(b), file.protection.id, rows + 1)
             /\ OwnRows(h, file.protection.id, rows + 1)
<1> DEFINE r == Row("f111", InitialStop)
           u == [Row("f111", InitialStop) EXCEPT !.ledgered = FALSE]
           p == [NoProtection EXCEPT !.id = rows + 1, !.last = clock]
           x == Filled(b)
           h == [b EXCEPT !.broker = u]
<1>1. /\ r.owner = "f111" /\ u.owner = "f111" /\ p.id = rows + 1
  BY DEF Row, NoProtection
<1>2. /\ b = [protection |-> b.protection, lastExit |-> b.lastExit,
              broker |-> b.broker, ledger |-> b.ledger]
      /\ b.protection.id \in Nat /\ rows \in Nat
  BY Given, BookFields
<1>3. x = [b EXCEPT !.broker = r, !.ledger = r, !.protection = p]
  BY DEF Filled
<1> HIDE DEF r, u, p, x
<1>4. x = [protection |-> p, lastExit |-> b.lastExit, broker |-> r, ledger |-> r]
  BY <1>2, <1>3
<1>5. h = [protection |-> b.protection, lastExit |-> b.lastExit, broker |-> u,
           ledger |-> b.ledger]
  BY <1>2
<1> HIDE DEF h
<1>6. x.protection = p /\ x.broker = r /\ x.ledger = r
  BY <1>4
<1>7. h.protection = b.protection /\ h.broker = u /\ h.ledger = b.ledger
  BY <1>5
<1>8. b.protection.id = 0 /\ b.ledger.id = 0
  BY DEF Occupied
<1>9. file.protection.id <= rows /\ file.protection.id \in Nat
  <2>1. file.protection \in ProtectionType
    BY Given DEF FileHolds
  <2> QED BY <2>1, F111Assumption DEF OwnRowsInv, OwnRows, ProtectionType
<1>10. OwnRows(x, file.protection.id, rows + 1)
  BY <1>1, <1>2, <1>6, <1>9 DEF OwnRows
<1>11. OwnRows(h, file.protection.id, rows + 1)
  BY <1>1, <1>2, <1>7, <1>8, <1>9 DEF OwnRows
<1> QED BY <1>10, <1>11 DEF x, h, u

\* Every step keeps the owners.
LEMMA OwnersKept ==
  ASSUME IInv, IInv', OwnRowsInv, [Next]_vars
  PROVE  OwnRowsInv'
<1>1. ASSUME Begin \/ Tick \/ UNCHANGED vars \/ PersistRaises PROVE OwnRowsInv'
  <2>1. Book' = Book /\ file' = file /\ rows' = rows
    BY <1>1 DEF Begin, Tick, vars, PersistRaises, runtime, book, history, Book
  <2> QED BY <2>1, StillRemains, RemainingStep
<1>2. ASSUME Persist PROVE OwnRowsInv'
  <2>1. Book' = Book /\ rows' = rows /\ file'.protection = protection
    BY <1>2 DEF Persist, runtime, book, history, Book, Saved
  <2>2. protection.id \in Nat /\ rows \in Nat
    BY Given, BookFields, BookNext
  <2> QED BY <2>1, <2>2, BookNext DEF OwnRowsInv, OwnRows
<1>3. ASSUME Replay PROVE OwnRowsInv'
  <2>1. SetBook(Dropped(Book, clock)) /\ file' = file /\ rows' = rows
    BY <1>3 DEF Replay, history
  <2>2. Book' = Dropped(Book, clock)
    BY <2>1, Given, DroppedBook, BookSet
  <2> QED BY <2>1, <2>2, Given, DropRemains, RemainingStep
<1>4. ASSUME ApplyWithoutFill PROVE OwnRowsInv'
  <2>1. PICK q \in Quotes, f \in Rates : SetBook(Protected(Dropped(Book, now), q, f))
    BY <1>4 DEF ApplyWithoutFill
  <2>2. Book' = Protected(Dropped(Book, now), q, f)
    BY <2>1, UnderTheLock, Given, BookSet
  <2>3. file' = file /\ rows' = rows
    BY <1>4 DEF ApplyWithoutFill
  <2> QED BY <2>2, <2>3, LockRemains, RemainingStep
<1>5. ASSUME ApplyWithFill PROVE OwnRowsInv'
  <2>1. PICK q \in Quotes, f \in Rates, s \in Due :
          LET b == Protected(Dropped(Book, now), q, f)
          IN  Admissible(b, s, q) /\ SetBook(Filled(b))
    BY <1>5 DEF ApplyWithFill
  <2> DEFINE b == Protected(Dropped(Book, now), q, f)
  <2>2. BookOK(b, rows) /\ Remains(Book, b)
    BY UnderTheLock, LockRemains
  <2>3. ~Occupied(b)
    BY <2>1 DEF Admissible
  <2>a. BookOK(Filled(b), rows + 1)
    BY <2>1, AdmissibleEntry
  <2>4. BookOK(Filled(b), rows + 1) /\ rows + 1 \in Nat
    BY <2>a, Given
  <2>5. SetBook(Filled(b))
    BY <2>1
  <2> HIDE DEF b
  <2>6. Book' = Filled(b)
    BY <2>4, <2>5, BookSet
  <2>7. file' = file /\ rows' = rows + 1
    BY <1>5 DEF ApplyWithFill
  <2>8. OwnRows(Filled(b), file.protection.id, rows + 1)
    BY <2>2, <2>3, EntryOwns
  <2> QED BY <2>6, <2>7, <2>8 DEF OwnRowsInv
<1>6. ASSUME InsertRaises PROVE OwnRowsInv'
  <2>1. PICK q \in Quotes, f \in Rates, s \in Due :
          LET b == Protected(Dropped(Book, now), q, f)
          IN  /\ Admissible(b, s, q)
              /\ Raise([b EXCEPT !.broker = [Row("f111", InitialStop) EXCEPT !.ledgered = FALSE]])
    BY <1>6 DEF InsertRaises
  <2> DEFINE b == Protected(Dropped(Book, now), q, f)
             h == [b EXCEPT !.broker = [Row("f111", InitialStop) EXCEPT !.ledgered = FALSE]]
  <2>2. BookOK(b, rows) /\ Remains(Book, b)
    BY UnderTheLock, LockRemains
  <2>3. ~Occupied(b)
    BY <2>1 DEF Admissible
  <2>a. BookOK(h, rows + 1)
    BY <2>1, AdmissibleEntry
  <2>4. BookOK(h, rows + 1) /\ rows + 1 \in Nat
    BY <2>a, Given
  <2>5. Raise(h)
    BY <2>1
  <2> HIDE DEF b
  <2>6. OwnRows(h, file.protection.id, rows + 1)
    BY <2>2, <2>3, EntryOwns
  <2> HIDE DEF h
  <2>7. Book' = h /\ file' = file
    BY <2>4, <2>5, BookSet DEF Raise
  <2>8. rows' = rows + 1
    BY <1>6 DEF InsertRaises
  <2> QED BY <2>6, <2>7, <2>8 DEF OwnRowsInv
<1>7. ASSUME NEW b, BookOK(b, rows), Raise(b) \/ Raise([b EXCEPT !.ledger = NoRow]),
             Remains(Dropped(Book, now), b), UNCHANGED history
      PROVE  OwnRowsInv'
  <2> DEFINE x == [b EXCEPT !.ledger = NoRow]
  <2>1. BookOK(x, rows) /\ Remains(b, x)
    <3>1. b \in BookType /\ b = [protection |-> b.protection, lastExit |-> b.lastExit,
                                 broker |-> b.broker, ledger |-> b.ledger]
      BY <1>7, Given, BookFields DEF BookOK
    <3>2. x = [protection |-> b.protection, lastExit |-> b.lastExit, broker |-> b.broker,
               ledger |-> NoRow]
      BY <3>1
    <3>3. BookOK(x, rows)
      BY <1>7, Given, Unchanged, ClosedBook
    <3>4. x.protection = b.protection /\ x.broker = b.broker /\ x.ledger = NoRow
      BY <3>2
    <3> HIDE DEF x
    <3> QED BY <3>3, <3>4, Blank DEF Remains
  <2>2. Remains(Book, Dropped(Book, now))
    BY Given, DropRemains
  <2>3. ASSUME NEW c, BookOK(c, rows), Raise(c), Remains(b, c) PROVE OwnRowsInv'
    <3>1. Book' = c /\ file' = file /\ rows' = rows
      BY <1>7, <2>3, Given, BookSet DEF Raise, history
    <3>2. Remains(Book, c)
      BY <1>7, <2>2, <2>3, StillRemains
    <3> QED BY <3>1, <3>2, RemainingStep
  <2> HIDE DEF x
  <2> QED BY <1>7, <2>1, <2>3, StillRemains DEF x
<1>8. ASSUME CloseRaises \/ StopUpdateRaises PROVE OwnRowsInv'
  <2> DEFINE d == Dropped(Book, now)
  <2>0. PICK q \in Moves, f \in Rates :
          \E b \in {PublishToBroker(AfterSample(d, q, f)), Publish(AfterSample(d, q, f))} :
            Steps(d) /\ (Raise(b) \/ Raise([b EXCEPT !.ledger = NoRow]))
    BY <1>8 DEF CloseRaises, StopUpdateRaises
  <2>1. PICK b \in {PublishToBroker(AfterSample(d, q, f)), Publish(AfterSample(d, q, f))} :
          Steps(d) /\ (Raise(b) \/ Raise([b EXCEPT !.ledger = NoRow]))
    BY <2>0
  <2>2. q \in Int /\ d.protection.id # 0 /\ BookOK(d, rows) /\ rows \in Nat
    BY <2>1, Rechecked, F111Assumption DEF Steps, Needs
  <2> HIDE DEF d
  <2>3. BookOK(b, rows) /\ Remains(d, b)
    BY <2>1, <2>2, PublishedSample, SampleRemains
  <2>4. UNCHANGED history
    BY <1>8 DEF CloseRaises, StopUpdateRaises
  <2> QED BY <1>7, <2>1, <2>3, <2>4 DEF d
<1>9. ASSUME OtherEnters PROVE OwnRowsInv'
  <2>1. /\ broker' = Row("other", SleeveStop) /\ ledger' = Row("other", SleeveStop)
        /\ protection' = protection /\ rows' = rows + 1 /\ file' = file
    BY <1>9 DEF OtherEnters, runtime
  <2>2. Row("other", SleeveStop).id = rows + 1
    BY DEF Row
  <2>3. protection.id \in Nat /\ rows \in Nat
    BY Given, BookFields, BookNext
  <2>4. file.protection.id \in Nat
    BY Given, F111Assumption DEF FileHolds, ProtectionType
  <2>5. protection.id <= rows /\ file.protection.id <= rows
    BY BookNext DEF OwnRowsInv, OwnRows
  <2> QED BY <2>1, <2>2, <2>3, <2>4, <2>5, BookNext DEF OwnRowsInv, OwnRows
<1>10. ASSUME ExitThread PROVE OwnRowsInv'
  <2>1. broker' = NoRow /\ ledger' = NoRow /\ protection' = protection /\ rows' = rows
        /\ file' = file
    BY <1>10 DEF ExitThread, runtime
  <2>2. Remains(Book, Book')
    BY <2>1, Blank, BookNext DEF Remains
  <2> QED BY <2>1, <2>2, RemainingStep
<1>11. ASSUME CrashAndRestart PROVE OwnRowsInv'
  <2>1. protection' = file.protection /\ broker' = ledger /\ ledger' = ledger /\ rows' = rows
        /\ file' = file
    BY <1>11 DEF CrashAndRestart, history
  <2> QED BY <2>1, BookNext DEF OwnRowsInv, OwnRows
<1> QED BY <1>1, <1>2, <1>3, <1>4, <1>5, <1>6, <1>8, <1>9, <1>10, <1>11 DEF Next, Step, Apply

\* Nothing is protected at first.
LEMMA InitOwns == Init => OwnRowsInv
<1> SUFFICES ASSUME Init PROVE OwnRowsInv OBVIOUS
<1>1. /\ Book.protection.id = 0 /\ file.protection.id = 0 /\ rows = 0
      /\ Book.broker.id = 0 /\ Book.ledger.id = 0
  BY Blank, BookNext DEF Init
<1> QED BY <1>1 DEF OwnRowsInv, OwnRows

LEMMA Owners == Spec => [](IInv /\ OwnRowsInv)
<1>1. IInv /\ OwnRowsInv /\ [Next]_vars => (IInv /\ OwnRowsInv)'
  BY StepHolds, OwnersKept DEF Kept
<1> QED BY <1>1, InitHolds, InitOwns, PTL DEF Spec

\* What OnlyStaleProtectionReaches says of one step.
ReachStep ==
  broker.owner = "other" /\ pc = "apply" /\ pc' # pc /\ crashes' = crashes /\ broker' # broker
    => protection.id \notin {0, broker.id}

\* Without a protection the step under the lock fills an empty symbol only.
LEMMA NoProtectionNoReach ==
  ASSUME IInv, Apply, protection.id = 0, broker.id # 0
  PROVE  broker' = broker
<1>1. Dropped(Book, now) = Book /\ ~Steps(Book)
  BY BookNext DEF Dropped, Steps, Needs
<1>2. \A q, f : Protected(Dropped(Book, now), q, f) = Book
  BY <1>1 DEF Protected
<1>3. Occupied(Book)
  BY BookNext DEF Occupied
<1>4. CASE ApplyWithoutFill
  BY <1>2, <1>4, BookNext DEF ApplyWithoutFill, SetBook
<1>5. ~ApplyWithFill /\ ~InsertRaises
  BY <1>2, <1>3 DEF ApplyWithFill, InsertRaises, Admissible
<1>6. ~CloseRaises /\ ~StopUpdateRaises
  BY <1>1 DEF CloseRaises, StopUpdateRaises
<1> QED BY <1>4, <1>5, <1>6 DEF Apply

\* Under the lock, another strategy's row is touched only by a process that
\* remembers the protection of an earlier position.
THEOREM OnlyStaleReaches == Spec => OnlyStaleProtectionReaches
<1>1. ASSUME IInv, OwnRowsInv, [Next]_vars PROVE ReachStep
  <2> SUFFICES ASSUME broker.owner = "other", pc = "apply", pc' # pc, crashes' = crashes,
                      broker' # broker
               PROVE  protection.id \notin {0, broker.id}
    BY DEF ReachStep
  <2>1. broker.id # 0
    <3>1. broker.id = 0 => broker = NoRow
      BY <1>1, Given, BookNext DEF BookOK
    <3> QED BY <3>1 DEF NoRow
  <2>2. broker.id # protection.id
    BY <1>1, <2>1, BookNext DEF OwnRowsInv, OwnRows
  <2>3. Apply
    <3>1. crashes \in Nat
      BY <1>1, Parts DEF WorldHolds
    <3>2. ~CrashAndRestart
      BY <3>1 DEF CrashAndRestart
    <3>3. ~OtherEnters /\ ~ExitThread /\ ~Tick /\ ~UNCHANGED vars
      BY DEF OtherEnters, ExitThread, Tick, vars
    <3>4. ~Begin /\ ~Replay /\ ~Persist /\ ~PersistRaises
      BY DEF Begin, Replay, Persist, PersistRaises
    <3> QED BY <1>1, <3>2, <3>3, <3>4 DEF Next, Step
  <2>4. protection.id # 0
    BY <1>1, <2>1, <2>3, NoProtectionNoReach
  <2> QED BY <2>2, <2>4
<1>2. Spec => [][ReachStep]_vars
  BY <1>1, Owners, PTL DEF Spec
<1> QED BY <1>2 DEF OnlyStaleProtectionReaches, ReachStep
=============================================================================
