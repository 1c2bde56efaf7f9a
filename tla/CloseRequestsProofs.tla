------------------------ MODULE CloseRequestsProofs ------------------------
(***************************************************************************)
(* Proofs about manual closes, for any number of threads, requests,        *)
(* positions, deaths and failures.                                         *)
(***************************************************************************)
EXTENDS CloseRequestsProps, FiniteSetTheorems, SequenceTheorems, TLAPS

(***************************************************************************)
(* Sequences                                                               *)
(***************************************************************************)

\* The first of a sequence, and what is left of it.
LEMMA HeadAndTail ==
  ASSUME NEW S, NEW s \in Seq(S), s # <<>>
  PROVE  /\ Head(s) \in Range(s) /\ Head(s) \in S
         /\ Tail(s) \in Seq(S) /\ Range(Tail(s)) \subseteq Range(s)
BY DEF Range

\* A sequence with an element more.
LEMMA OneMore ==
  ASSUME NEW S, NEW s \in Seq(S), NEW e \in S
  PROVE  Append(s, e) \in Seq(S) /\ Range(Append(s, e)) = Range(s) \cup {e}
<1>1. /\ Append(s, e) \in Seq(S) /\ DOMAIN Append(s, e) = 1..(Len(s) + 1)
      /\ \A i \in 1..Len(s) : Append(s, e)[i] = s[i]
      /\ Append(s, e)[Len(s) + 1] = e
      /\ DOMAIN s = 1..Len(s) /\ Len(s) \in Nat
  OBVIOUS
<1> QED BY <1>1 DEF Range

\* Nothing is in an empty sequence.
LEMMA EmptyRange == Range(<<>>) = {} /\ \A S : <<>> \in Seq(S)
BY DEF Range

\* Two sequences, one after the other.
LEMMA RangeOfConcat ==
  ASSUME NEW S, NEW s \in Seq(S), NEW t \in Seq(S)
  PROVE  s \o t \in Seq(S) /\ Range(s \o t) \subseteq Range(s) \cup Range(t)
<1>1. /\ s \o t \in Seq(S) /\ DOMAIN (s \o t) = 1..(Len(s) + Len(t))
      /\ \A i \in 1..(Len(s) + Len(t)) :
           (s \o t)[i] = IF i <= Len(s) THEN s[i] ELSE t[i - Len(s)]
      /\ DOMAIN s = 1..Len(s) /\ Len(s) \in Nat /\ DOMAIN t = 1..Len(t) /\ Len(t) \in Nat
  BY ConcatProperties, LenProperties
<1>2. ASSUME NEW i \in DOMAIN (s \o t)
      PROVE  (s \o t)[i] \in Range(s) \cup Range(t)
  <2>1. CASE i <= Len(s)
    <3>1. i \in DOMAIN s /\ (s \o t)[i] = s[i]
      BY <1>1, <2>1
    <3> QED BY <3>1 DEF Range
  <2>2. CASE ~(i <= Len(s))
    <3>1. i - Len(s) \in DOMAIN t /\ (s \o t)[i] = t[i - Len(s)]
      BY <1>1, <2>2
    <3> QED BY <3>1 DEF Range
  <2> QED BY <2>1, <2>2
<1> QED BY <1>1, <1>2 DEF Range

(***************************************************************************)
(* The ledger only grows: rows keep symbol and time, and a closed one      *)
(* stays as it was closed.                                                 *)
(***************************************************************************)
Grows(p, q) ==
  /\ DOMAIN p \subseteq DOMAIN q
  /\ \A id \in DOMAIN p :
       /\ q[id].at = p[id].at
       /\ ~p[id].open => ~q[id].open /\ q[id].by = p[id].by

\* A ledger grows into itself.
LEMMA GrowsIdle == \A p : Grows(p, p)
BY DEF Grows

\* An item that was true stays true.
LEMMA TrueStays ==
  ASSUME NEW item, NEW p, NEW q, ItemTrue(item, p), Grows(p, q)
  PROVE  ItemTrue(item, q)
BY DEF ItemTrue, Closed, Grows

\* A request stays in order.
LEMMA RequestStays ==
  ASSUME NEW r, NEW d, NEW a, NEW p, NEW q, RequestOK(r, d, a, p), Grows(p, q)
  PROVE  RequestOK(r, d, a, q)
<1>1. \A x \in Range(r.bound) : BindingOK(x, d, q)
  BY DEF RequestOK, BindingOK, Closed, Grows
<1> QED BY <1>1 DEF RequestOK

\* A thread's work stays in order.
LEMMA WorkStays ==
  ASSUME NEW s, NEW r, NEW y, NEW p, NEW q, WorkOK(s, r, y, p), Grows(p, q)
  PROVE  WorkOK(s, r, y, q)
<1>1. \A item \in Range(s.items) : ItemTrue(item, q)
  BY TrueStays DEF WorkOK
<1>2. s.pc \in {"settle", "numbers"} => s.id \in DOMAIN q
  BY DEF WorkOK, Grows
<1>3. s.pc = "settle" =>
        LET x == Head(s.targets)
        IN  s.id = x.id /\ (x.symbol # "any" => q[x.id].at <= x.mtime + Slack)
  BY DEF WorkOK, Grows
<1> QED BY <1>1, <1>2, <1>3 DEF WorkOK

\* And so does a whole session while the files are left alone.
LEMMA SessionStays ==
  ASSUME NEW s, NEW fl, NEW dn, NEW p, NEW q, SessionOK(s, fl, dn, p), Grows(p, q)
  PROVE  SessionOK(s, fl, dn, q)
BY WorkStays DEF SessionOK

\* A thread that does no work does not care what the files are.
LEMMA IdleSession ==
  ASSUME NEW s, NEW fl, NEW dn, NEW p, NEW gl, NEW en, NEW q,
         SessionOK(s, fl, dn, p),
         s.pc \notin {"bind", "target", "quote", "settle", "numbers"}
  PROVE  SessionOK(s, gl, en, q)
BY DEF SessionOK

\* A row of the ledger.
LEMMA RowAt ==
  ASSUME WorldOK, NEW id \in DOMAIN pos
  PROVE  pos[id] \in Position /\ pos[id].at \in Nat
<1>1. pos \in [1..Len(pos) -> Position] /\ DOMAIN pos = 1..Len(pos)
  BY LenProperties DEF WorldOK
<1>2. pos[id] \in Position
  BY <1>1
<1>3. pos[id].at \in 0..MaxTime
  BY <1>2 DEF Position
<1> QED BY <1>2, <1>3

\* Closing rows makes the ledger grow.
LEMMA CloseGrows ==
  ASSUME WorldOK, NEW ids, NEW by \in {"stop", "manual"}, Close(ids, by),
         \A id \in ids : id \in DOMAIN pos => pos[id].open
  PROVE  /\ pos' \in Seq(Position) /\ Len(pos') = Len(pos) /\ Grows(pos, pos')
         /\ \A id \in ids : id \in DOMAIN pos => ~pos'[id].open /\ pos'[id].by = by
<1> DEFINE New(id) == IF id \in ids THEN [pos[id] EXCEPT !.open = FALSE, !.by = by]
                                    ELSE pos[id]
<1>1. pos \in Seq(Position) /\ DOMAIN pos = 1..Len(pos) /\ Len(pos) \in Nat
  BY LenProperties DEF WorldOK
<1>2. pos' = [id \in 1..Len(pos) |-> New(id)]
  BY <1>1 DEF Close
<1>3. \A id \in 1..Len(pos) : pos[id] \in Position
  BY <1>1
<1>4. \A id \in 1..Len(pos) :
        /\ New(id) \in Position /\ New(id).at = pos[id].at
        /\ id \in ids => New(id).open = FALSE /\ New(id).by = by
        /\ id \notin ids => New(id) = pos[id]
  BY <1>3 DEF Position
<1> HIDE DEF New
<1>5. pos' \in Seq(Position) /\ Len(pos') = Len(pos) /\ DOMAIN pos' = 1..Len(pos)
      /\ \A id \in 1..Len(pos) : pos'[id] = New(id)
  BY <1>1, <1>2, <1>4
<1>6. Grows(pos, pos')
  BY <1>1, <1>4, <1>5 DEF Grows
<1> QED BY <1>1, <1>4, <1>5, <1>6

(***************************************************************************)
(* A step of one thread                                                    *)
(***************************************************************************)

\* An answer stays, and no settlement is asked for under its name.
AnswersKept ==
  \A f \in Files : done[f] # NoAnswer =>
    /\ done'[f] = done[f]
    /\ asked'[f] \subseteq asked[f]

Kept == IInv' /\ AnswersKept

\* One thread is inside.
LEMMA OneInside ==
  ASSUME IInv, NEW t \in Threads, drain[t].pc # "idle"
  PROVE  /\ lock = t /\ \A u \in Threads : u # t => drain[u].pc = "idle"
         /\ SessionOK(drain[t], file, done, pos) /\ drain[t] \in Session
BY DEF IInv, SessionOK

\* Only one thread's session has changed.
OnlyMoves(t) ==
  /\ drain' = [u \in Threads |-> drain'[u]]
  /\ \A u \in Threads : u # t => drain'[u] = drain[u]

\* An update of one thread is one.
LEMMA ExceptMoves ==
  ASSUME IInv, NEW t \in Threads, NEW s, drain' = [drain EXCEPT ![t] = s]
  PROVE  OnlyMoves(t) /\ drain'[t] = s
<1>1. drain = [u \in Threads |-> drain[u]]
  BY DEF IInv
<1> DEFINE d == [u \in Threads |-> IF u = t THEN s ELSE drain[u]]
<1>2. drain' = d
  BY <1>1
<1> QED BY <1>2 DEF OnlyMoves

\* A step that leaves all but the sessions in order, for any other thread.
LEMMA StepKeeps ==
  ASSUME IInv, NEW t \in Threads, OnlyMoves(t),
         \A u \in Threads : u # t => drain[u].pc = "idle",
         SessionOK(drain'[t], file', done', pos'),
         lock' = IF drain'[t].pc = "idle" THEN "free" ELSE t,
         WorldOK', error' \subseteq Files,
         file' = [f \in Files |-> file'[f]], done' = [f \in Files |-> done'[f]],
         dropped' = [f \in Files |-> dropped'[f]], asked' = [f \in Files |-> asked'[f]],
         \A f \in Files : RequestOK(file'[f], dropped'[f], asked'[f], pos'),
         \A f \in Files : \A i \in DOMAIN done'[f] : ItemTrue(done'[f][i], pos')
  PROVE  IInv'
<1>1. \A u \in Threads : SessionOK(drain'[u], file', done', pos')
  <2> SUFFICES ASSUME NEW u \in Threads, u # t PROVE SessionOK(drain'[u], file', done', pos')
    OBVIOUS
  <2>1. SessionOK(drain[u], file, done, pos) /\ drain[u].pc = "idle"
    BY DEF IInv
  <2>2. SessionOK(drain[u], file', done', pos')
    BY <2>1, IdleSession
  <2> QED BY <2>2 DEF OnlyMoves
<1>2. \A u \in Threads : drain'[u].pc # "idle" <=> lock' = u
  BY ThreadsAssumption DEF OnlyMoves
<1>3. drain' = [u \in Threads |-> drain'[u]] /\ lock' \in Threads \cup {"free"}
  BY DEF OnlyMoves
<1> QED BY <1>1, <1>2, <1>3 DEF IInv

\* Most steps touch neither a request, an answer nor the ledger.
LEMMA DrainOnly ==
  ASSUME IInv, NEW t \in Threads, drain[t].pc # "idle", OnlyMoves(t),
         SessionOK(drain'[t], file, done, pos),
         lock' = IF drain'[t].pc = "idle" THEN "free" ELSE t,
         UNCHANGED <<file, done, dropped, asked, now, pos>>, error' \subseteq Files
  PROVE  Kept
<1>1. WorldOK'
  BY DEF IInv, WorldOK
<1>2. /\ file' = [f \in Files |-> file'[f]] /\ done' = [f \in Files |-> done'[f]]
      /\ dropped' = [f \in Files |-> dropped'[f]] /\ asked' = [f \in Files |-> asked'[f]]
  BY DEF IInv
<1>3. /\ \A f \in Files : RequestOK(file'[f], dropped'[f], asked'[f], pos')
      /\ \A f \in Files : \A i \in DOMAIN done'[f] : ItemTrue(done'[f][i], pos')
  BY DEF IInv
<1>4. IInv'
  BY <1>1, <1>2, <1>3, OneInside, StepKeeps
<1> QED BY <1>4 DEF Kept, AnswersKept

\* What the rest of the desk does: the ledger grows, the drain stands still.
LEMMA WorldKeeps ==
  ASSUME IInv, WorldOK', Grows(pos, pos'),
         UNCHANGED <<file, done, error, drain, lock, dropped, asked>>
  PROVE  Kept
<1>1. \A f \in Files : RequestOK(file[f], dropped[f], asked[f], pos')
  BY RequestStays DEF IInv
<1>2. \A f \in Files : \A i \in DOMAIN done[f] : ItemTrue(done[f][i], pos')
  BY TrueStays DEF IInv
<1>3. \A t \in Threads : SessionOK(drain[t], file, done, pos')
  BY SessionStays DEF IInv
<1> QED BY <1>1, <1>2, <1>3 DEF IInv, Kept, AnswersKept

(***************************************************************************)
(* Sessions                                                                *)
(***************************************************************************)

\* A session that has nothing but a list of names to go through.
LEMMA QuietSession ==
  ASSUME NEW pc \in {"next", "unlink", "reject", "unlink_error"}, NEW todo \in Seq(Files),
         pc = "next" \/ todo # <<>>
  PROVE  /\ [Idle EXCEPT !.pc = pc, !.todo = todo].pc = pc
         /\ \A fl, dn, p : SessionOK([Idle EXCEPT !.pc = pc, !.todo = todo], fl, dn, p)
<1> DEFINE d == Idle
           s == [d EXCEPT !.pc = pc, !.todo = todo]
<1>1. d \in Session
  BY EmptyRange DEF Idle, Session, Steps
<1>2. s \in Session /\ s.pc = pc /\ s.todo = todo /\ s.items = <<>>
  <2>1. d.items = <<>>
    BY DEF Idle
  <2> HIDE DEF d
  <2> QED BY <1>1, <2>1 DEF Session, Steps
<1> HIDE DEF s
<1>3. \A fl, dn, p : SessionOK(s, fl, dn, p)
  BY <1>2 DEF SessionOK
<1> QED BY <1>2, <1>3 DEF s

\* The next name of the list.
LEMMA RestOK ==
  ASSUME IInv, NEW t \in Threads, drain[t].pc # "idle", drain[t].todo # <<>>
  PROVE  Rest(t).pc = "next" /\ \A fl, dn, p : SessionOK(Rest(t), fl, dn, p)
<1>1. Tail(drain[t].todo) \in Seq(Files)
  BY OneInside, HeadAndTail DEF Session
<1> QED BY <1>1, QuietSession DEF Rest

\* Nothing in hand.
LEMMA IdleOK == Idle.pc = "idle" /\ \A fl, dn, p : SessionOK(Idle, fl, dn, p)
<1>1. Idle \in Session
  BY EmptyRange DEF Idle, Session, Steps
<1> QED BY <1>1 DEF Idle, SessionOK

\* A list of names has a current one.
LEMMA CurrentFile ==
  ASSUME IInv, NEW t \in Threads, drain[t].pc # "idle", drain[t].todo # <<>>
  PROVE  Current(t) \in Files
BY OneInside, HeadAndTail DEF Session, Current

(***************************************************************************)
(* The actions of a drain                                                  *)
(***************************************************************************)

\* A thread takes the drain and lists the directory.
LEMMA BeginDrainKeeps ==
  ASSUME IInv, NEW t \in Threads, BeginDrain(t)
  PROVE  Kept
<1>1. PICK s \in Listing : drain' = [drain EXCEPT ![t] = [Idle EXCEPT !.pc = "next", !.todo = s]]
  BY DEF BeginDrain
<1>2. /\ lock = "free" /\ lock' = t /\ error' = error
      /\ UNCHANGED <<file, done, dropped, asked, now, pos>>
  BY DEF BeginDrain, MayDrain, disk, world
<1>3. s \in Seq(Files)
  <2>1. Present \subseteq Files /\ Cardinality(Present) \in Nat
    BY FilesAssumption, FS_Subset, FS_CardinalityType DEF Present
  <2>2. s \in [1..Cardinality(Present) -> Files]
    BY <2>1 DEF Listing
  <2> QED BY <2>1, <2>2
<1> DEFINE q == [Idle EXCEPT !.pc = "next", !.todo = s]
<1>q. q.pc = "next" /\ SessionOK(q, file, done, pos)
  BY <1>3, QuietSession
<1> HIDE DEF q
<1>4. OnlyMoves(t) /\ drain'[t].pc = "next" /\ SessionOK(drain'[t], file, done, pos)
  <2>1. OnlyMoves(t) /\ drain'[t] = q
    BY <1>1, ExceptMoves DEF q
  <2> QED BY <1>q, <2>1
<1>5. \A u \in Threads : u # t => drain[u].pc = "idle"
  BY <1>2, ThreadsAssumption DEF IInv
<1>6. WorldOK' /\ error' \subseteq Files
  BY <1>2 DEF IInv, WorldOK
<1>7. /\ file' = [f \in Files |-> file'[f]] /\ done' = [f \in Files |-> done'[f]]
      /\ dropped' = [f \in Files |-> dropped'[f]] /\ asked' = [f \in Files |-> asked'[f]]
  BY <1>2 DEF IInv
<1>8. /\ \A f \in Files : RequestOK(file'[f], dropped'[f], asked'[f], pos')
      /\ \A f \in Files : \A i \in DOMAIN done'[f] : ItemTrue(done'[f][i], pos')
  BY <1>2 DEF IInv
<1>9. SessionOK(drain'[t], file', done', pos')
  BY <1>2, <1>4
<1>10. IInv'
  BY <1>2, <1>4, <1>5, <1>6, <1>7, <1>8, <1>9, StepKeeps
<1> QED BY <1>2, <1>10 DEF Kept, AnswersKept

\* The list is through: the drain is given back.
LEMMA EndDrainKeeps ==
  ASSUME IInv, NEW t \in Threads, EndDrain(t)
  PROVE  Kept
<1>1. /\ drain[t].pc # "idle" /\ lock' = "free" /\ error' = error
      /\ drain' = [drain EXCEPT ![t] = Idle]
      /\ UNCHANGED <<file, done, dropped, asked, now, pos>>
  BY DEF EndDrain, At, disk, world
<1>2. OnlyMoves(t) /\ drain'[t] = Idle
  BY <1>1, ExceptMoves
<1>3. SessionOK(drain'[t], file, done, pos) /\ drain'[t].pc = "idle"
  BY <1>2, IdleOK
<1>4. error' \subseteq Files
  BY <1>1 DEF IInv
<1> QED BY <1>1, <1>2, <1>3, <1>4, DrainOnly

\* The write of the answers failed: the request is left for the next pass.
LEMMA WriteDoneFailsKeeps ==
  ASSUME IInv, NEW t \in Threads, WriteDoneFails(t) \/ RejectRaises(t)
  PROVE  Kept
<1>1. /\ drain[t].pc \notin {"idle", "next"} /\ lock' = lock /\ error' = error
      /\ drain' = [drain EXCEPT ![t] = Rest(t)]
      /\ UNCHANGED <<file, done, dropped, asked, now, pos>>
  BY DEF WriteDoneFails, RejectRaises, At, disk, world
<1>2. drain[t].todo # <<>>
  BY <1>1, OneInside DEF SessionOK
<1>3. OnlyMoves(t) /\ drain'[t] = Rest(t)
  BY <1>1, ExceptMoves
<1>4. SessionOK(drain'[t], file, done, pos) /\ drain'[t].pc = "next"
  BY <1>1, <1>2, <1>3, RestOK
<1>5. error' \subseteq Files /\ lock = t
  BY <1>1, OneInside DEF IInv
<1> QED BY <1>1, <1>3, <1>4, <1>5, DrainOnly

\* Whatever raises: the request is to be rejected.
LEMMA FileRaisesKeeps ==
  ASSUME IInv, NEW t \in Threads, FileRaises(t)
  PROVE  Kept
<1>1. /\ drain[t].pc # "idle" /\ lock' = lock /\ error' = error
      /\ drain' = [drain EXCEPT ![t] = [Idle EXCEPT !.pc = "reject", !.todo = drain[t].todo]]
      /\ UNCHANGED <<file, done, dropped, asked, now, pos>>
  BY DEF FileRaises, At, disk, world
<1>2. drain[t].todo # <<>> /\ drain[t].todo \in Seq(Files)
  BY <1>1, OneInside DEF SessionOK, FileRaises, At, Session
<1> DEFINE q == [Idle EXCEPT !.pc = "reject", !.todo = drain[t].todo]
<1>q. q.pc = "reject" /\ SessionOK(q, file, done, pos)
  BY <1>2, QuietSession
<1> HIDE DEF q
<1>3. OnlyMoves(t) /\ drain'[t].pc = "reject" /\ SessionOK(drain'[t], file, done, pos)
  <2>1. OnlyMoves(t) /\ drain'[t] = q
    BY <1>1, ExceptMoves DEF q
  <2> QED BY <1>q, <2>1
<1>4. error' \subseteq Files /\ lock = t
  BY <1>1, OneInside DEF IInv
<1> QED BY <1>1, <1>3, <1>4, DrainOnly

\* The request has an answer or was rejected: it leaves the directory.
LEMMA UnlinkedKeeps ==
  ASSUME IInv, NEW t \in Threads, drain[t].pc # "idle", drain[t].todo # <<>>,
         Unlinked(Current(t)), drain' = [drain EXCEPT ![t] = Rest(t)],
         UNCHANGED <<done, error, lock, now, pos>>
  PROVE  Kept
<1> DEFINE f == Current(t)
<1>1. f \in Files
  BY CurrentFile
<1> HIDE DEF f
<1>2. /\ file' = [file EXCEPT ![f] = NoFile] /\ dropped' = [dropped EXCEPT ![f] = 0]
      /\ asked' = [asked EXCEPT ![f] = {}]
  BY DEF Unlinked, f
<1>3. /\ file' = [g \in Files |-> IF g = f THEN NoFile ELSE file[g]]
      /\ dropped' = [g \in Files |-> IF g = f THEN 0 ELSE dropped[g]]
      /\ asked' = [g \in Files |-> IF g = f THEN {} ELSE asked[g]]
  BY <1>1, <1>2 DEF IInv
<1>4. \A p : RequestOK(NoFile, 0, {}, p)
  <2>1. NoFile \in Request /\ NoFile.bound = <<>> /\ NoFile.mtime = 0
    BY EmptyRange DEF NoFile, Request
  <2> QED BY <2>1, EmptyRange DEF RequestOK
<1>5. \A g \in Files : RequestOK(file'[g], dropped'[g], asked'[g], pos')
  <2> TAKE g \in Files
  <2>1. CASE g = f
    BY <1>3, <1>4, <2>1
  <2>2. CASE g # f
    <3>1. file'[g] = file[g] /\ dropped'[g] = dropped[g] /\ asked'[g] = asked[g]
      BY <1>3, <2>2
    <3> QED BY <3>1 DEF IInv
  <2> QED BY <2>1, <2>2
<1>6. OnlyMoves(t) /\ drain'[t] = Rest(t)
  BY ExceptMoves
<1>7. SessionOK(drain'[t], file', done', pos') /\ drain'[t].pc = "next"
  BY <1>6, RestOK
<1>8. lock = t /\ \A u \in Threads : u # t => drain[u].pc = "idle"
  BY OneInside
<1>9. /\ WorldOK' /\ error' \subseteq Files /\ done' = [g \in Files |-> done'[g]]
      /\ \A g \in Files : \A i \in DOMAIN done'[g] : ItemTrue(done'[g][i], pos')
  BY DEF IInv, WorldOK
<1>10. /\ file' = [g \in Files |-> file'[g]] /\ dropped' = [g \in Files |-> dropped'[g]]
       /\ asked' = [g \in Files |-> asked'[g]]
  BY <1>3
<1>11. IInv'
  BY <1>5, <1>6, <1>7, <1>8, <1>9, <1>10, StepKeeps
<1>12. AnswersKept
  BY <1>3 DEF AnswersKept
<1> QED BY <1>11, <1>12 DEF Kept

\* A request that has its answer already is only unlinked.
LEMMA DropAnsweredKeeps ==
  ASSUME IInv, NEW t \in Threads, DropAnswered(t)
  PROVE  Kept
BY UnlinkedKeeps DEF DropAnswered, At

\* A request leaves after its answer, or its rejection, was written.
LEMMA UnlinkKeeps ==
  ASSUME IInv, NEW t \in Threads, Unlink(t)
  PROVE  Kept
<1>1. drain[t].pc # "idle" /\ drain[t].todo # <<>>
  BY OneInside DEF Unlink, SessionOK
<1> QED BY <1>1, UnlinkedKeeps DEF Unlink

\* The rejection is written down.
LEMMA RejectKeeps ==
  ASSUME IInv, NEW t \in Threads, Reject(t)
  PROVE  Kept
<1>1. /\ drain[t].pc = "reject" /\ lock' = lock /\ error' = error \cup {Current(t)}
      /\ drain' = [drain EXCEPT ![t].pc = "unlink_error"]
      /\ UNCHANGED <<file, done, dropped, asked, now, pos>>
  BY DEF Reject, At, Goto, world
<1> DEFINE s == [drain[t] EXCEPT !.pc = "unlink_error"]
<1>2. s \in Session /\ s.pc = "unlink_error" /\ s.todo = drain[t].todo /\ s.todo # <<>>
  BY <1>1, OneInside DEF Session, Steps, SessionOK
<1>3. drain' = [drain EXCEPT ![t] = s]
  BY <1>1
<1> HIDE DEF s
<1>4. OnlyMoves(t) /\ drain'[t] = s
  BY <1>3, ExceptMoves
<1>5. SessionOK(drain'[t], file, done, pos)
  BY <1>2, <1>4 DEF SessionOK
<1>6. error' \subseteq Files /\ lock = t
  BY <1>1, <1>2, OneInside, CurrentFile DEF IInv
<1> QED BY <1>1, <1>2, <1>4, <1>5, <1>6, DrainOnly

(***************************************************************************)
(* The work on one request                                                 *)
(***************************************************************************)

\* A working thread: its request, and what is known of its targets.
LEMMA AtWork ==
  ASSUME IInv, NEW t \in Threads, drain[t].pc \in {"bind", "target", "quote", "settle", "numbers"}
  PROVE  /\ drain[t] \in Session /\ lock = t /\ drain[t].todo # <<>>
         /\ Current(t) \in Files
         /\ WorkOK(drain[t], file[Current(t)], done[Current(t)], pos)
         /\ RequestOK(file[Current(t)], dropped[Current(t)], asked[Current(t)], pos)
         /\ \A u \in Threads : u # t => drain[u].pc = "idle"
<1>1. drain[t].pc # "idle"
  OBVIOUS
<1>2. drain[t].todo # <<>>
  BY <1>1, OneInside DEF SessionOK
<1>3. Current(t) \in Files
  BY <1>1, <1>2, CurrentFile
<1>4. WorkOK(drain[t], file[Current(t)], done[Current(t)], pos)
  BY <1>1, OneInside DEF SessionOK, Current
<1> QED BY <1>1, <1>2, <1>3, <1>4, OneInside DEF IInv

\* The targets of a request: its bindings, and the ids the operator named.
LEMMA TargetsOfShape ==
  ASSUME NEW bound \in Seq(Target), NEW ids \in Seq(Ids)
  PROVE  /\ TargetsOf(bound, ids) \in Seq(Target)
         /\ \A x \in Range(TargetsOf(bound, ids)) :
              (x.symbol = "any" /\ x.absent = "") \/ x \in Range(bound)
<1> DEFINE named == [i \in DOMAIN ids |->
                       [symbol |-> "any", id |-> ids[i], bound |-> FALSE, mtime |-> 0,
                        absent |-> ""]]
<1>1. named \in Seq(Target)
  <2>1. DOMAIN ids = 1..Len(ids) /\ Len(ids) \in Nat /\ \A i \in DOMAIN ids : ids[i] \in Ids
    BY LenProperties
  <2>2. \A i \in DOMAIN ids :
          [symbol |-> "any", id |-> ids[i], bound |-> FALSE, mtime |-> 0, absent |-> ""] \in Target
    BY <2>1 DEF Target
  <2>3. named \in [1..Len(ids) -> Target]
    BY <2>1, <2>2
  <2> HIDE DEF named
  <2> QED BY <2>1, <2>3
<1>2. \A x \in Range(named) : x.symbol = "any" /\ x.absent = ""
  <2>1. DOMAIN named = DOMAIN ids
        /\ \A i \in DOMAIN ids : named[i].symbol = "any" /\ named[i].absent = ""
    OBVIOUS
  <2> HIDE DEF named
  <2> QED BY <2>1 DEF Range
<1>3. TargetsOf(bound, ids) = bound \o named
  BY DEF TargetsOf
<1> HIDE DEF named
<1>4. bound \o named \in Seq(Target) /\ Range(bound \o named) \subseteq Range(bound) \cup Range(named)
  BY <1>1, RangeOfConcat
<1> QED BY <1>2, <1>3, <1>4

\* What a request holds is of a known form.
LEMMA RequestShape ==
  ASSUME NEW r \in Request
  PROVE  /\ r.content.symbols \in Seq(Symbols) /\ r.content.ids \in Seq(Ids)
         /\ r.bound \in Seq(Target) /\ r.mtime \in Nat
<1>1. \A c \in Contents \cup {Bad} : c.symbols \in Seq(Symbols) /\ c.ids \in Seq(Ids)
  <2>1. Bad.symbols = <<>> /\ Bad.ids = <<>>
    BY DEF Bad
  <2>2. <<>> \in Seq(Symbols) /\ <<>> \in Seq(Ids)
    BY EmptyRange
  <2>3. \A c \in Contents : c.symbols \in Seq(Symbols) /\ c.ids \in Seq(Ids)
    BY ContentsAssumption
  <2> QED BY <2>1, <2>2, <2>3
<1> QED BY <1>1 DEF Request

\* The request is read: it is bad, or to be bound, or bound already.
LEMMA ReadRequestKeeps ==
  ASSUME IInv, NEW t \in Threads, ReadRequest(t)
  PROVE  Kept
<1> DEFINE f == Current(t)
           r == file[f]
           pc == IF r.content = Bad THEN "reject"
                 ELSE IF r.content.symbols # <<>> /\ r.bound = <<>> THEN "bind" ELSE "target"
           ts == TargetsOf(r.bound, r.content.ids)
           s == [drain[t] EXCEPT !.pc = pc, !.targets = ts]
<1>1. /\ drain[t].pc = "next" /\ drain[t].todo # <<>> /\ done[f] = NoAnswer
      /\ drain' = [drain EXCEPT ![t] = s] /\ lock' = lock /\ error' = error
      /\ UNCHANGED <<file, done, dropped, asked, now, pos>>
  BY DEF ReadRequest, At, HasAnswer, disk, world
<1>2. f \in Files /\ drain[t] \in Session /\ drain[t].items = <<>> /\ lock = t
  BY <1>1, OneInside, CurrentFile DEF SessionOK
<1>3. r \in Request
  BY <1>2 DEF IInv, RequestOK
<1>4. ts \in Seq(Target)
      /\ \A x \in Range(ts) : (x.symbol = "any" /\ x.absent = "") \/ x \in Range(r.bound)
  BY <1>3, RequestShape, TargetsOfShape
<1>5. pc \in {"reject", "bind", "target"}
      /\ (pc # "reject" => r.content # Bad)
      /\ (pc = "bind" => r.bound = <<>> /\ r.content.symbols # <<>>)
  OBVIOUS
<1> HIDE DEF pc, ts, r
<1>6. s \in Session /\ s.pc = pc /\ s.targets = ts /\ s.todo = drain[t].todo /\ s.items = <<>>
  BY <1>2, <1>4, <1>5 DEF Session, Steps
<1> HIDE DEF s
<1>7. pc # "reject" => WorkOK(s, r, done[f], pos)
  BY <1>1, <1>4, <1>5, <1>6, EmptyRange DEF WorkOK
<1>8. SessionOK(s, file, done, pos) /\ s.pc # "idle"
  <2>1. Head(s.todo) = f
    BY <1>6 DEF Current
  <2> QED BY <1>1, <1>5, <1>6, <1>7, <2>1 DEF SessionOK, r
<1>9. OnlyMoves(t) /\ drain'[t] = s
  BY <1>1, ExceptMoves
<1>10. error' \subseteq Files
  BY <1>1 DEF IInv
<1> QED BY <1>1, <1>2, <1>8, <1>9, <1>10, DrainOnly

\* A target is answered: the item is the thread's, and it is true.
LEMMA AnsweredOK ==
  ASSUME IInv, NEW t \in Threads, drain[t].pc \in {"target", "quote", "settle", "numbers"},
         drain[t].targets # <<>>, NEW item \in Item,
         NEW p, Grows(pos, p), ItemTrue(item, p), Answered(t, item)
  PROVE  /\ OnlyMoves(t) /\ drain'[t].pc = "target"
         /\ SessionOK(drain'[t], file, done, p)
<1> DEFINE s == [drain[t] EXCEPT !.pc = "target", !.targets = Tail(@), !.id = None,
                                 !.closed = FALSE, !.items = Append(@, item)]
<1>1. drain' = [drain EXCEPT ![t] = s]
  BY DEF Answered
<1>2. drain[t] \in Session
      /\ WorkOK(drain[t], file[Current(t)], done[Current(t)], pos)
      /\ drain[t].todo # <<>>
  BY AtWork
<1>3. /\ Tail(drain[t].targets) \in Seq(Target)
      /\ Range(Tail(drain[t].targets)) \subseteq Range(drain[t].targets)
  BY <1>2, HeadAndTail DEF Session
<1>4. /\ Append(drain[t].items, item) \in Seq(Item)
      /\ Range(Append(drain[t].items, item)) = Range(drain[t].items) \cup {item}
  BY <1>2, OneMore DEF Session
<1>5. /\ s \in Session /\ s.pc = "target" /\ s.todo = drain[t].todo
      /\ s.targets = Tail(drain[t].targets) /\ s.items = Append(drain[t].items, item)
  BY <1>2, <1>3, <1>4 DEF Session, Steps
<1> HIDE DEF s
<1>6. WorkOK(drain[t], file[Current(t)], done[Current(t)], p)
  BY <1>2, WorkStays
<1>7. WorkOK(s, file[Current(t)], done[Current(t)], p)
  BY <1>3, <1>4, <1>5, <1>6 DEF WorkOK
<1>8. SessionOK(s, file, done, p)
  <2>1. Head(s.todo) = Current(t)
    BY <1>5 DEF Current
  <2> QED BY <1>2, <1>5, <1>7, <2>1 DEF SessionOK
<1>9. OnlyMoves(t) /\ drain'[t] = s
  BY <1>1, ExceptMoves
<1> QED BY <1>5, <1>8, <1>9

\* The same when nothing else happens.
LEMMA AnsweredKeeps ==
  ASSUME IInv, NEW t \in Threads, drain[t].pc \in {"target", "quote", "settle", "numbers"},
         drain[t].targets # <<>>, NEW item \in Item, ItemTrue(item, pos), Answered(t, item),
         UNCHANGED <<file, done, dropped, asked, now, pos, lock, error>>
  PROVE  Kept
<1>1. OnlyMoves(t) /\ drain'[t].pc = "target" /\ SessionOK(drain'[t], file, done, pos)
  BY AnsweredOK, GrowsIdle
<1>2. drain[t].pc # "idle" /\ lock' = t /\ error' \subseteq Files
  BY AtWork DEF IInv
<1> QED BY <1>1, <1>2, DrainOnly

\* The target in hand, and the truth about it when it is not open.
LEMMA TargetInHand ==
  ASSUME IInv, NEW t \in Threads, drain[t].pc \in {"target", "quote", "settle", "numbers"},
         drain[t].targets # <<>>, NEW x, x = Head(drain[t].targets)
  PROVE  /\ x \in Target
         /\ \/ x.symbol = "any" /\ x.absent = ""
            \/ x \in Range(file[Current(t)].bound) /\ BindingOK(x, dropped[Current(t)], pos)
         /\ Located(x) # "open" =>
              /\ Answer(x.id, Located(x)) \in Item
              /\ ItemTrue(Answer(x.id, Located(x)), pos)
         /\ Located(x) = "open" =>
              /\ x.id \in DOMAIN pos /\ x.absent = ""
              /\ x.symbol # "any" => pos[x.id].at <= x.mtime + Slack
<1>1. x \in Target /\ x \in Range(drain[t].targets)
  BY AtWork, HeadAndTail DEF Session
<1>2. \/ x.symbol = "any" /\ x.absent = ""
      \/ x \in Range(file[Current(t)].bound) /\ BindingOK(x, dropped[Current(t)], pos)
  BY <1>1, AtWork DEF WorkOK, RequestOK
<1>3. /\ x.id \in Ids \cup {None} /\ x.absent \in {"", "not_found", "already_closed"}
      /\ x.mtime \in Nat /\ x.symbol \in Symbols \cup {"any"} /\ x.bound \in BOOLEAN
  BY <1>1 DEF Target
<1>4. ASSUME Located(x) # "open"
      PROVE  Answer(x.id, Located(x)) \in Item /\ ItemTrue(Answer(x.id, Located(x)), pos)
  <2>1. Located(x) \in {"not_found", "already_closed", "opened_after_request"}
    BY <1>3, <1>4 DEF Located
  <2>2. Located(x) = "already_closed" => Closed(pos, x.id)
    <3>1. x.absent = "already_closed" => Closed(pos, x.id)
      BY <1>2 DEF BindingOK
    <3> QED BY <1>3, <3>1 DEF Located, Closed
  <2> QED BY <1>3, <2>1, <2>2 DEF Answer, Item, ItemTrue
<1>5. ASSUME Located(x) = "open"
      PROVE  /\ x.id \in DOMAIN pos /\ x.absent = ""
             /\ x.symbol # "any" => pos[x.id].at <= x.mtime + Slack
  <2>1. /\ x.absent = "" /\ x.id \in DOMAIN pos
        /\ ~(x.bound /\ pos[x.id].at > x.mtime + Slack)
    BY <1>3, <1>5 DEF Located
  <2>2. pos[x.id].at \in Nat /\ Slack \in Nat
    <3>1. pos[x.id].at \in Nat
      BY <2>1, RowAt DEF IInv
    <3>2. Slack \in Nat
      BY BoundsAssumption
    <3> QED BY <3>1, <3>2
  <2>3. x.symbol # "any" => x.bound
    BY <1>2, <2>1 DEF BindingOK
  <2>4. ASSUME x.symbol # "any" PROVE pos[x.id].at <= x.mtime + Slack
    <3>1. ~(pos[x.id].at > x.mtime + Slack)
      BY <2>1, <2>3, <2>4
    <3>2. x.mtime \in Nat
      BY <1>3
    <3> DEFINE at == pos[x.id].at
               m == x.mtime
    <3>3. at \in Nat /\ m \in Nat /\ Slack \in Nat /\ ~(at > m + Slack)
      BY <2>2, <3>1, <3>2
    <3> HIDE DEF at, m
    <3>4. at <= m + Slack
      BY <3>3
    <3> QED BY <3>4 DEF at, m
  <2> QED BY <2>1, <2>4
<1> QED BY <1>1, <1>2, <1>4, <1>5

\* A target that is not open is answered; an open one is quoted.
LEMMA LocateKeeps ==
  ASSUME IInv, NEW t \in Threads, Locate(t)
  PROVE  Kept
<1> DEFINE x == Head(drain[t].targets)
<1>1. /\ drain[t].pc = "target" /\ drain[t].targets # <<>>
      /\ UNCHANGED <<file, done, dropped, asked, now, pos, lock, error>>
      /\ IF Located(x) = "open" THEN Goto(t, "quote") ELSE Answered(t, Answer(x.id, Located(x)))
  BY DEF Locate, At, disk, world
<1>2. CASE Located(x) # "open"
  <2>1. Answer(x.id, Located(x)) \in Item /\ ItemTrue(Answer(x.id, Located(x)), pos)
    BY <1>1, <1>2, TargetInHand
  <2>2. Answered(t, Answer(x.id, Located(x)))
    BY <1>1, <1>2
  <2> DEFINE item == Answer(x.id, Located(x))
  <2> HIDE DEF item
  <2>3. item \in Item /\ ItemTrue(item, pos) /\ Answered(t, item)
    BY <2>1, <2>2 DEF item
  <2> QED BY <1>1, <2>3, AnsweredKeeps
<1>3. CASE Located(x) = "open"
  <2> DEFINE s == [drain[t] EXCEPT !.pc = "quote"]
  <2>1. drain' = [drain EXCEPT ![t] = s]
    BY <1>1, <1>3 DEF Goto
  <2>2. drain[t] \in Session /\ drain[t].todo # <<>> /\ lock = t
        /\ WorkOK(drain[t], file[Current(t)], done[Current(t)], pos)
    BY <1>1, AtWork
  <2>3. s \in Session /\ s.pc = "quote" /\ s.targets = drain[t].targets
        /\ s.items = drain[t].items /\ s.todo = drain[t].todo
    BY <2>2 DEF Session, Steps
  <2> HIDE DEF s
  <2>4. WorkOK(s, file[Current(t)], done[Current(t)], pos)
    BY <1>1, <2>2, <2>3 DEF WorkOK
  <2>5. SessionOK(s, file, done, pos)
    BY <2>2, <2>3, <2>4 DEF SessionOK, Current
  <2>6. OnlyMoves(t) /\ drain'[t] = s
    BY <2>1, ExceptMoves
  <2>7. error' \subseteq Files
    BY <1>1 DEF IInv
  <2> QED BY <1>1, <2>2, <2>3, <2>5, <2>6, <2>7, DrainOnly
<1> QED BY <1>2, <1>3

\* No price: an error item.
LEMMA NoQuoteKeeps ==
  ASSUME IInv, NEW t \in Threads, NoQuote(t)
  PROVE  Kept
<1> DEFINE x == Head(drain[t].targets)
           item == Answer(x.id, "error")
<1>1. /\ drain[t].pc = "quote" /\ Answered(t, item)
      /\ UNCHANGED <<file, done, dropped, asked, now, pos, lock, error>>
  BY DEF NoQuote, At, disk, world
<1>2. drain[t].targets # <<>>
  BY <1>1, AtWork DEF WorkOK
<1>3. x \in Target
  BY <1>1, <1>2, TargetInHand
<1>4. item \in Item /\ ItemTrue(item, pos)
  BY <1>3 DEF Target, Answer, Item, ItemTrue
<1> HIDE DEF item
<1> QED BY <1>1, <1>2, <1>4, AnsweredKeeps

\* The price is there: a target that is still open is settled.
LEMMA RelocateKeeps ==
  ASSUME IInv, NEW t \in Threads, Relocate(t)
  PROVE  Kept
<1> DEFINE x == Head(drain[t].targets)
<1>1. /\ drain[t].pc = "quote"
      /\ UNCHANGED <<file, done, dropped, asked, now, pos, lock, error>>
      /\ IF Located(x) = "open"
         THEN drain' = [drain EXCEPT ![t] = [drain[t] EXCEPT !.pc = "settle", !.id = x.id]]
         ELSE Answered(t, Answer(x.id, Located(x)))
  BY DEF Relocate, At, disk, world
<1>2. drain[t].targets # <<>>
  BY <1>1, AtWork DEF WorkOK
<1>3. CASE Located(x) # "open"
  <2> DEFINE item == Answer(x.id, Located(x))
  <2>1. item \in Item /\ ItemTrue(item, pos)
    BY <1>1, <1>2, <1>3, TargetInHand
  <2>2. Answered(t, item)
    BY <1>1, <1>3
  <2> HIDE DEF item
  <2> QED BY <1>1, <1>2, <2>1, <2>2, AnsweredKeeps
<1>4. CASE Located(x) = "open"
  <2> DEFINE s == [drain[t] EXCEPT !.pc = "settle", !.id = x.id]
  <2>1. drain' = [drain EXCEPT ![t] = s]
    BY <1>1, <1>4
  <2>2. drain[t] \in Session /\ drain[t].todo # <<>> /\ lock = t
        /\ WorkOK(drain[t], file[Current(t)], done[Current(t)], pos)
    BY <1>1, AtWork
  <2>3. /\ x \in Target /\ x.id \in DOMAIN pos
        /\ x.symbol # "any" => pos[x.id].at <= x.mtime + Slack
    BY <1>1, <1>2, <1>4, TargetInHand
  <2>4. x.id \in Ids \cup {None}
    BY <2>3 DEF Target
  <2>5. /\ s \in Session /\ s.pc = "settle" /\ s.targets = drain[t].targets
        /\ s.items = drain[t].items /\ s.todo = drain[t].todo /\ s.id = x.id
    BY <2>2, <2>4 DEF Session, Steps
  <2> HIDE DEF s
  <2>6. WorkOK(s, file[Current(t)], done[Current(t)], pos)
    BY <1>1, <2>2, <2>3, <2>5 DEF WorkOK
  <2>7. SessionOK(s, file, done, pos)
    BY <2>2, <2>5, <2>6 DEF SessionOK, Current
  <2>8. OnlyMoves(t) /\ drain'[t] = s
    BY <2>1, ExceptMoves
  <2>9. error' \subseteq Files
    BY <1>1 DEF IInv
  <2> QED BY <1>1, <2>2, <2>5, <2>7, <2>8, <2>9, DrainOnly
<1> QED BY <1>3, <1>4

\* The item says what became of the position that was located.
LEMMA NumbersKeeps ==
  ASSUME IInv, NEW t \in Threads, Numbers(t)
  PROVE  Kept
<1> DEFINE item == Answer(drain[t].id, Verdict(t))
<1>1. /\ drain[t].pc = "numbers" /\ Answered(t, item)
      /\ UNCHANGED <<file, done, dropped, asked, now, pos, lock, error>>
  BY DEF Numbers, At, disk, world
<1>2. drain[t].targets # <<>> /\ drain[t].id \in DOMAIN pos /\ drain[t] \in Session
  BY <1>1, AtWork DEF WorkOK
<1>3. /\ Verdict(t) \in {"error", "closed", "already_closed"}
      /\ Verdict(t) # "error" => ~pos[drain[t].id].open
      /\ Verdict(t) = "closed" => pos[drain[t].id].by = "manual"
  BY DEF Verdict
<1>4. item \in Item /\ ItemTrue(item, pos)
  BY <1>2, <1>3 DEF Session, Answer, Item, ItemTrue, Closed
<1> HIDE DEF item
<1> QED BY <1>1, <1>2, <1>4, AnsweredKeeps

(***************************************************************************)
(* Settlement                                                              *)
(***************************************************************************)

\* What a settlement that is asked for keeps of requests and answers, whatever
\* it closes.
LEMMA AskingKeeps ==
  ASSUME IInv, NEW t \in Threads, drain[t].pc = "settle", Asking(t),
         Grows(pos, pos'), pos' \in Seq(Position), Len(pos') = Len(pos),
         UNCHANGED <<file, done, error, lock, now, dropped>>,
         OnlyMoves(t), drain'[t].pc # "idle", SessionOK(drain'[t], file, done, pos')
  PROVE  Kept
<1> DEFINE f == Current(t)
           x == Head(drain[t].targets)
<1>1. /\ f \in Files /\ lock = t /\ \A u \in Threads : u # t => drain[u].pc = "idle"
      /\ WorkOK(drain[t], file[f], done[f], pos)
      /\ RequestOK(file[f], dropped[f], asked[f], pos)
  BY AtWork
<1>2. drain[t].targets # <<>>
  BY <1>1 DEF WorkOK
<1>3. /\ x \in Target
      /\ \/ x.symbol = "any" /\ x.absent = ""
         \/ x \in Range(file[f].bound) /\ BindingOK(x, dropped[f], pos)
  BY <1>2, TargetInHand
<1>5. AskedOK(x, file[f])
  BY <1>3 DEF AskedOK
<1> HIDE DEF x, f
<1>6. asked' = [g \in Files |-> IF g = f THEN asked[f] \cup {x} ELSE asked[g]]
  <2>1. asked' = [asked EXCEPT ![f] = @ \cup {x}]
    BY DEF Asking, f, x
  <2>2. asked = [g \in Files |-> asked[g]]
    BY DEF IInv
  <2> QED BY <1>1, <2>1, <2>2
<1>7. file[f].present
  <2>1. file[f].content # Bad
    BY <1>1 DEF WorkOK
  <2>2. NoFile.content = Bad
    BY DEF NoFile
  <2> QED BY <1>1, <2>1, <2>2 DEF RequestOK
<1>8. RequestOK(file[f], dropped[f], asked[f] \cup {x}, pos)
  BY <1>1, <1>3, <1>5, <1>7 DEF RequestOK
<1>9. \A g \in Files : RequestOK(file'[g], dropped'[g], asked'[g], pos')
  <2> TAKE g \in Files
  <2>1. CASE g = f
    <3>1. RequestOK(file[f], dropped[f], asked[f] \cup {x}, pos')
      BY <1>8, RequestStays
    <3>2. asked'[g] = asked[f] \cup {x}
      BY <1>6, <2>1
    <3> QED BY <2>1, <3>1, <3>2
  <2>2. CASE g # f
    <3>1. RequestOK(file[g], dropped[g], asked[g], pos')
      BY RequestStays DEF IInv
    <3>2. asked'[g] = asked[g]
      BY <1>6, <2>2
    <3> QED BY <3>1, <3>2
  <2> QED BY <2>1, <2>2
<1>10. \A g \in Files : \A i \in DOMAIN done'[g] : ItemTrue(done'[g][i], pos')
  BY TrueStays DEF IInv
<1>11. WorldOK' /\ error' \subseteq Files
  BY DEF IInv, WorldOK
<1>12. /\ file' = [g \in Files |-> file'[g]] /\ done' = [g \in Files |-> done'[g]]
       /\ dropped' = [g \in Files |-> dropped'[g]]
  BY DEF IInv
<1>13. asked' = [g \in Files |-> asked'[g]]
  BY <1>6
<1>14. SessionOK(drain'[t], file', done', pos') /\ lock' = t
  BY <1>1
<1>15. IInv'
  BY <1>1, <1>9, <1>10, <1>11, <1>12, <1>13, <1>14, StepKeeps
<1>16. AnswersKept
  <2>1. done[f] = NoAnswer
    BY <1>1 DEF WorkOK
  <2> QED BY <1>6, <2>1 DEF AnswersKept
<1> QED BY <1>15, <1>16 DEF Kept

\* The rows a settlement closes are open.
LEMMA SettlesOpenRows ==
  ASSUME NEW t \in Threads
  PROVE  \A id \in Settles(t) : id \in DOMAIN pos /\ pos[id].open
BY DEF Settles, OpenRows

\* A session after the settlement, before the numbers.
LEMMA NumbersNext ==
  ASSUME IInv, NEW t \in Threads, drain[t].pc = "settle", NEW c \in BOOLEAN,
         NEW p, Grows(pos, p),
         drain' = [drain EXCEPT ![t] = [drain[t] EXCEPT !.pc = "numbers", !.closed = c]]
  PROVE  OnlyMoves(t) /\ drain'[t].pc # "idle" /\ SessionOK(drain'[t], file, done, p)
<1> DEFINE s == [drain[t] EXCEPT !.pc = "numbers", !.closed = c]
<1>1. drain[t] \in Session /\ drain[t].todo # <<>>
      /\ WorkOK(drain[t], file[Current(t)], done[Current(t)], pos)
  BY AtWork
<1>2. /\ s \in Session /\ s.pc = "numbers" /\ s.targets = drain[t].targets
      /\ s.items = drain[t].items /\ s.todo = drain[t].todo /\ s.id = drain[t].id
  BY <1>1 DEF Session, Steps
<1> HIDE DEF s
<1>3. OnlyMoves(t) /\ drain'[t] = s
  BY ExceptMoves DEF s
<1>4. WorkOK(drain[t], file[Current(t)], done[Current(t)], p)
  BY <1>1, WorkStays
<1>5. WorkOK(s, file[Current(t)], done[Current(t)], p)
  BY <1>2, <1>4 DEF WorkOK
<1>6. SessionOK(s, file, done, p)
  BY <1>1, <1>2, <1>5 DEF SessionOK, Current
<1> QED BY <1>2, <1>3, <1>6

\* What is open on the symbol of the located position is closed.
LEMMA SettleKeeps ==
  ASSUME IInv, NEW t \in Threads, Settle(t)
  PROVE  Kept
<1>1. /\ drain[t].pc = "settle" /\ Close(Settles(t), "manual") /\ Asking(t)
      /\ drain' = [drain EXCEPT ![t] = [drain[t] EXCEPT !.pc = "numbers", !.closed = Settles(t) # {}]]
      /\ UNCHANGED <<file, done, error, lock, now, dropped>>
  BY DEF Settle, At, disk
<1>2. pos' \in Seq(Position) /\ Len(pos') = Len(pos) /\ Grows(pos, pos')
  BY <1>1, SettlesOpenRows, CloseGrows DEF IInv
<1> DEFINE c == Settles(t) # {}
<1>3. c \in BOOLEAN
  OBVIOUS
<1> HIDE DEF c
<1>4. drain' = [drain EXCEPT ![t] = [drain[t] EXCEPT !.pc = "numbers", !.closed = c]]
  BY <1>1 DEF c
<1>5. OnlyMoves(t) /\ drain'[t].pc # "idle" /\ SessionOK(drain'[t], file, done, pos')
  BY <1>1, <1>2, <1>3, <1>4, NumbersNext
<1> QED BY <1>1, <1>2, <1>5, AskingKeeps

\* The exit was skipped: nothing is closed.
LEMMA SettleSkipsKeeps ==
  ASSUME IInv, NEW t \in Threads, SettleSkips(t)
  PROVE  Kept
<1>1. /\ drain[t].pc = "settle" /\ Asking(t) /\ pos' = pos
      /\ drain' = [drain EXCEPT ![t] = [drain[t] EXCEPT !.pc = "numbers", !.closed = FALSE]]
      /\ UNCHANGED <<file, done, error, lock, now, dropped>>
  BY DEF SettleSkips, At, disk
<1>2. pos' \in Seq(Position) /\ Len(pos') = Len(pos) /\ Grows(pos, pos')
  BY <1>1, GrowsIdle DEF IInv, WorldOK
<1>3. OnlyMoves(t) /\ drain'[t].pc # "idle" /\ SessionOK(drain'[t], file, done, pos')
  BY <1>1, <1>2, NumbersNext
<1> QED BY <1>1, <1>2, <1>3, AskingKeeps

\* The exit raised, before its commit or after it.
LEMMA SettleRaisesKeeps ==
  ASSUME IInv, NEW t \in Threads, SettleRaises(t)
  PROVE  Kept
<1> DEFINE item == Answer(drain[t].id, "error")
<1>1. /\ drain[t].pc = "settle" /\ Asking(t) /\ Answered(t, item)
      /\ UNCHANGED <<file, done, error, lock, now, dropped>>
  BY DEF SettleRaises, At, disk
<1>2. PICK commits \in BOOLEAN : Close(IF commits THEN Settles(t) ELSE {}, "manual")
  BY DEF SettleRaises
<1>3. pos' \in Seq(Position) /\ Len(pos') = Len(pos) /\ Grows(pos, pos')
  <2> DEFINE ids == IF commits THEN Settles(t) ELSE {}
  <2>1. \A id \in ids : id \in DOMAIN pos /\ pos[id].open
    BY SettlesOpenRows
  <2> HIDE DEF ids
  <2>2. Close(ids, "manual")
    BY <1>2 DEF ids
  <2> QED BY <2>1, <2>2, CloseGrows DEF IInv
<1>4. drain[t].targets # <<>> /\ drain[t] \in Session
  BY <1>1, AtWork DEF WorkOK
<1>5. item \in Item /\ ItemTrue(item, pos')
  BY <1>4 DEF Session, Answer, Item, ItemTrue
<1> HIDE DEF item
<1>6. OnlyMoves(t) /\ drain'[t].pc = "target" /\ SessionOK(drain'[t], file, done, pos')
  BY <1>1, <1>3, <1>4, <1>5, AnsweredOK
<1> QED BY <1>1, <1>3, <1>6, AskingKeeps

(***************************************************************************)
(* The answer                                                              *)
(***************************************************************************)

\* All targets are answered: the items become the .done file of a request
\* that had none.
LEMMA WriteDoneKeeps ==
  ASSUME IInv, NEW t \in Threads, WriteDone(t)
  PROVE  Kept
<1> DEFINE f == Current(t)
           q == [Idle EXCEPT !.pc = "unlink", !.todo = drain[t].todo]
<1>1. /\ drain[t].pc = "target" /\ done' = [done EXCEPT ![f] = drain[t].items]
      /\ drain' = [drain EXCEPT ![t] = q]
      /\ UNCHANGED <<file, error, lock, now, pos, dropped, asked>>
  BY DEF WriteDone, At, world
<1>2. /\ f \in Files /\ lock = t /\ \A u \in Threads : u # t => drain[u].pc = "idle"
      /\ WorkOK(drain[t], file[f], done[f], pos)
      /\ drain[t].todo # <<>> /\ drain[t].todo \in Seq(Files)
      /\ drain[t].items \in Seq(Item)
  BY <1>1, AtWork DEF Session
<1>3. q.pc = "unlink" /\ \A fl, dn, p : SessionOK(q, fl, dn, p)
  BY <1>2, QuietSession
<1> HIDE DEF q, f
<1>4. OnlyMoves(t) /\ drain'[t] = q
  BY <1>1, ExceptMoves
<1>5. done' = [g \in Files |-> IF g = f THEN drain[t].items ELSE done[g]]
  <2>1. done = [g \in Files |-> done[g]]
    BY DEF IInv
  <2> QED BY <1>1, <1>2, <2>1
<1>6. \A g \in Files : \A i \in DOMAIN done'[g] : ItemTrue(done'[g][i], pos')
  <2> TAKE g \in Files
  <2>1. CASE g = f
    <3>1. \A i \in DOMAIN drain[t].items : ItemTrue(drain[t].items[i], pos)
      BY <1>1, <1>2 DEF WorkOK, Range
    <3> QED BY <1>1, <1>5, <2>1, <3>1
  <2>2. CASE g # f
    <3>1. done'[g] = done[g]
      BY <1>5, <2>2
    <3> QED BY <1>1, <3>1 DEF IInv
  <2> QED BY <2>1, <2>2
<1>7. \A g \in Files : RequestOK(file'[g], dropped'[g], asked'[g], pos')
  BY <1>1 DEF IInv
<1>8. /\ WorldOK' /\ error' \subseteq Files /\ file' = [g \in Files |-> file'[g]]
      /\ dropped' = [g \in Files |-> dropped'[g]] /\ asked' = [g \in Files |-> asked'[g]]
  BY <1>1 DEF IInv, WorldOK
<1>9. done' = [g \in Files |-> done'[g]]
  BY <1>5
<1>10. SessionOK(drain'[t], file', done', pos') /\ drain'[t].pc # "idle" /\ lock' = t
  BY <1>1, <1>2, <1>3, <1>4
<1>11. IInv'
  BY <1>2, <1>4, <1>6, <1>7, <1>8, <1>9, <1>10, StepKeeps
<1>12. AnswersKept
  <2>1. done[f] = NoAnswer
    BY <1>2 DEF WorkOK
  <2> QED BY <1>1, <1>5, <2>1 DEF AnswersKept
<1> QED BY <1>11, <1>12 DEF Kept

(***************************************************************************)
(* Binding                                                                 *)
(***************************************************************************)

\* The binding of one symbol: what is open now, or why nothing is.
LEMMA BindSymbolOK ==
  ASSUME WorldOK, NEW s \in Symbols, NEW mtime \in Nat, NEW d \in Nat, mtime <= d
  PROVE  /\ BindSymbol(s, mtime) \in Target /\ BindSymbol(s, mtime).symbol = s
         /\ BindingOK(BindSymbol(s, mtime), d, pos)
<1> DEFINE x == BindSymbol(s, mtime)
<1>1. DOMAIN pos \subseteq Ids
  <2>1. DOMAIN pos = 1..Len(pos) /\ Len(pos) \in Nat /\ Len(pos) <= MaxPos
    BY LenProperties DEF WorldOK
  <2> QED BY <2>1, BoundsAssumption DEF Ids
<1>2. CASE OpenRows(s) # {}
  <2> DEFINE id == CHOOSE p \in OpenRows(s) : TRUE
  <2>1. id \in OpenRows(s)
    BY <1>2
  <2>2. x = [symbol |-> s, id |-> id, bound |-> TRUE, mtime |-> mtime, absent |-> ""]
    BY <1>2 DEF BindSymbol
  <2>3. id \in Ids
    BY <1>1, <2>1 DEF OpenRows
  <2> HIDE DEF id
  <2> HIDE DEF x
  <2>4. x \in Target /\ x.symbol = s /\ x.mtime = mtime /\ x.absent = "" /\ x.bound
    BY <2>2, <2>3 DEF Target
  <2> USE DEF x
  <2> QED BY <2>4 DEF BindingOK
<1>3. CASE OpenRows(s) = {} /\ Latest(s) # {}
  <2> DEFINE id == CHOOSE p \in Latest(s) : TRUE
  <2>1. id \in Latest(s)
    BY <1>3
  <2>2. x = [symbol |-> s, id |-> id, bound |-> FALSE, mtime |-> mtime, absent |-> "already_closed"]
    BY <1>3 DEF BindSymbol
  <2>3. id \in Ids /\ id \in DOMAIN pos /\ pos[id].symbol = s
    BY <1>1, <2>1 DEF Latest
  <2>4. ~pos[id].open
    BY <1>3, <2>3 DEF OpenRows
  <2> HIDE DEF id
  <2>5. /\ x \in Target /\ x.symbol = s /\ x.mtime = mtime /\ x.absent = "already_closed"
        /\ x.id = id
    BY <2>2, <2>3 DEF Target
  <2> QED BY <2>3, <2>4, <2>5 DEF BindingOK, Closed
<1>4. CASE OpenRows(s) = {} /\ Latest(s) = {}
  <2>1. x = [symbol |-> s, id |-> None, bound |-> FALSE, mtime |-> mtime, absent |-> "not_found"]
    BY <1>4 DEF BindSymbol
  <2>2. x \in Target /\ x.symbol = s /\ x.mtime = mtime /\ x.absent = "not_found"
    BY <2>1 DEF Target
  <2> QED BY <2>2 DEF BindingOK
<1> QED BY <1>2, <1>3, <1>4

\* The bindings of a request: one target per symbol, and none for none.
LEMMA BindingsShape ==
  ASSUME IInv, NEW f \in Files, file[f].bound = <<>>
  PROVE  /\ Bindings(f) \in Seq(Target)
         /\ \A x \in Range(Bindings(f)) : BindingOK(x, dropped[f], pos)
         /\ \A x, y \in Range(Bindings(f)) : x.symbol = y.symbol => x.id = y.id
         /\ Bindings(f) = <<>> => file[f].content.symbols = <<>>
<1> DEFINE syms == file[f].content.symbols
           m == file[f].mtime
           bs == [i \in DOMAIN syms |-> BindSymbol(syms[i], m)]
<1>1. file[f] \in Request /\ m \in Nat /\ dropped[f] \in Nat /\ m <= dropped[f]
  <2>1. RequestOK(file[f], dropped[f], asked[f], pos)
    BY DEF IInv
  <2> QED BY <2>1, RequestShape DEF RequestOK
<1>2. syms \in Seq(Symbols) /\ DOMAIN syms = 1..Len(syms) /\ Len(syms) \in Nat
  BY <1>1, RequestShape, LenProperties
<1>3. Bindings(f) = bs
  BY DEF Bindings
<1> HIDE DEF syms, m
<1>4. \A i \in DOMAIN syms : syms[i] \in Symbols
  BY <1>2
<1>5. \A i \in DOMAIN syms :
        /\ BindSymbol(syms[i], m) \in Target
        /\ BindSymbol(syms[i], m).symbol = syms[i]
        /\ BindingOK(BindSymbol(syms[i], m), dropped[f], pos)
  BY <1>1, <1>4, BindSymbolOK DEF IInv
<1>6. bs \in Seq(Target)
  <2>1. bs \in [1..Len(syms) -> Target]
    BY <1>2, <1>5
  <2> HIDE DEF bs
  <2> QED BY <1>2, <2>1
<1>7. DOMAIN bs = DOMAIN syms /\ \A i \in DOMAIN syms : bs[i] = BindSymbol(syms[i], m)
  OBVIOUS
<1>8. bs = <<>> => syms = <<>>
  <2>1. bs = <<>> => DOMAIN bs = {}
    OBVIOUS
  <2>2. syms # <<>> => 1 \in DOMAIN syms
    BY <1>2
  <2> QED BY <1>7, <2>1, <2>2
<1> HIDE DEF bs
<1>9. \A x \in Range(bs) : BindingOK(x, dropped[f], pos)
  BY <1>5, <1>7 DEF Range
<1>10. \A x, y \in Range(bs) : x.symbol = y.symbol => x.id = y.id
  <2> SUFFICES ASSUME NEW i \in DOMAIN bs, NEW j \in DOMAIN bs, bs[i].symbol = bs[j].symbol
               PROVE  bs[i].id = bs[j].id
    BY DEF Range
  <2>1. syms[i] = syms[j]
    BY <1>5, <1>7
  <2>2. bs[i] = BindSymbol(syms[i], m) /\ bs[j] = BindSymbol(syms[j], m)
    BY <1>7
  <2>3. bs[i] = bs[j]
    BY <2>1, <2>2
  <2> QED BY <2>3
<1>11. Bindings(f) \in Seq(Target) /\ Range(Bindings(f)) = Range(bs)
  BY <1>3, <1>6
<1> QED BY <1>3, <1>8, <1>9, <1>10, <1>11 DEF syms

\* The bindings are saved before any of them is settled, and stay.
LEMMA BindKeeps ==
  ASSUME IInv, NEW t \in Threads, Bind(t)
  PROVE  Kept
<1> DEFINE f == Current(t)
           b == Bindings(f)
           r == [file[f] EXCEPT !.bound = b, !.mtime = now]
           ts == TargetsOf(b, file[f].content.ids)
           s == [drain[t] EXCEPT !.pc = "target", !.targets = ts]
<1>1. /\ drain[t].pc = "bind" /\ file' = [file EXCEPT ![f] = r]
      /\ drain' = [drain EXCEPT ![t] = s]
      /\ UNCHANGED <<done, error, lock, now, pos, dropped, asked>>
  BY DEF Bind, At, world
<1>2. /\ f \in Files /\ lock = t /\ \A u \in Threads : u # t => drain[u].pc = "idle"
      /\ WorkOK(drain[t], file[f], done[f], pos)
      /\ RequestOK(file[f], dropped[f], asked[f], pos)
      /\ drain[t] \in Session /\ drain[t].todo # <<>>
  BY <1>1, AtWork
<1>3. file[f].bound = <<>> /\ file[f].content # Bad /\ file[f] \in Request
  BY <1>1, <1>2 DEF WorkOK, RequestOK
<1>4. /\ b \in Seq(Target) /\ \A x \in Range(b) : BindingOK(x, dropped[f], pos)
      /\ \A x, y \in Range(b) : x.symbol = y.symbol => x.id = y.id
  BY <1>2, <1>3, BindingsShape
<1>5. /\ ts \in Seq(Target)
      /\ \A x \in Range(ts) : (x.symbol = "any" /\ x.absent = "") \/ x \in Range(b)
  BY <1>3, <1>4, RequestShape, TargetsOfShape
<1> HIDE DEF f, b, ts
<1>6. now \in Nat /\ file[f].present
  <2>1. now \in Nat
    BY DEF IInv, WorldOK
  <2>2. NoFile.content = Bad
    BY DEF NoFile
  <2> QED BY <1>2, <1>3, <2>1, <2>2 DEF RequestOK
<1>7. /\ r \in Request /\ r.bound = b /\ r.content = file[f].content
      /\ r.present = file[f].present /\ r.mtime = now
  BY <1>3, <1>4, <1>6 DEF Request
<1>8. /\ s \in Session /\ s.pc = "target" /\ s.targets = ts /\ s.todo = drain[t].todo
      /\ s.items = drain[t].items
  BY <1>2, <1>5 DEF Session, Steps
<1> HIDE DEF r, s
<1>9. file' = [g \in Files |-> IF g = f THEN r ELSE file[g]]
  <2>1. file = [g \in Files |-> file[g]]
    BY DEF IInv
  <2> QED BY <1>1, <1>2, <2>1
<1>10. RequestOK(r, dropped[f], asked[f], pos)
  <2>1. b = <<>> => r.mtime <= dropped[f]
    <3> SUFFICES ASSUME b = <<>> PROVE FALSE
      OBVIOUS
    <3>1. file[f].content.symbols = <<>>
      BY <1>2, <1>3, BindingsShape DEF b
    <3> QED BY <1>1, <1>2, <3>1 DEF WorkOK
  <2>2. \A x \in asked[f] : x.symbol = "any"
    BY <1>2, <1>3, EmptyRange DEF RequestOK, AskedOK
  <2>3. \A x \in asked[f] : AskedOK(x, r)
    BY <2>2 DEF AskedOK
  <2> QED BY <1>2, <1>4, <1>6, <1>7, <2>1, <2>3 DEF RequestOK
<1>11. \A g \in Files : RequestOK(file'[g], dropped'[g], asked'[g], pos')
  BY <1>1, <1>9, <1>10 DEF IInv
<1>12. OnlyMoves(t) /\ drain'[t] = s
  BY <1>1, ExceptMoves
<1>13. SessionOK(s, file', done', pos') /\ s.pc # "idle" /\ lock' = t
  <2>1. WorkOK(s, r, done[f], pos)
    BY <1>1, <1>2, <1>3, <1>5, <1>7, <1>8 DEF WorkOK
  <2>2. Head(s.todo) = f /\ file'[f] = r
    BY <1>2, <1>8, <1>9 DEF Current, f
  <2> QED BY <1>1, <1>2, <1>8, <2>1, <2>2 DEF SessionOK
<1>14. /\ WorldOK' /\ error' \subseteq Files /\ done' = [g \in Files |-> done'[g]]
       /\ dropped' = [g \in Files |-> dropped'[g]] /\ asked' = [g \in Files |-> asked'[g]]
       /\ \A g \in Files : \A i \in DOMAIN done'[g] : ItemTrue(done'[g][i], pos')
  BY <1>1 DEF IInv, WorldOK
<1>15. file' = [g \in Files |-> file'[g]]
  BY <1>9
<1>16. IInv'
  BY <1>2, <1>11, <1>12, <1>13, <1>14, <1>15, StepKeeps
<1> QED BY <1>1, <1>16 DEF Kept, AnswersKept

(***************************************************************************)
(* The rest of the desk, the operator and deaths                           *)
(***************************************************************************)

\* A request is dropped under a name that is free: no thread works on it, and
\* nothing was asked for under it.
LEMMA DropKeeps ==
  ASSUME IInv, NEW f \in Files, NEW c \in Contents, Drop(f, c)
  PROVE  Kept
<1>1. PICK m \in {now, IF now = 0 THEN 0 ELSE now - 1} :
        file' = [file EXCEPT ![f] = [content |-> c, mtime |-> m,
                                     bound |-> <<>>, present |-> TRUE]]
  BY DEF Drop
<1> DEFINE r == [content |-> c, mtime |-> m, bound |-> <<>>, present |-> TRUE]
<1>2. /\ ~file[f].present /\ dropped' = [dropped EXCEPT ![f] = now]
      /\ UNCHANGED <<now, pos, done, error, asked, drain, lock>>
  BY DEF Drop
<1>3. now \in Nat /\ m \in Nat /\ m <= now
  <2>1. now \in Nat
    BY DEF IInv, WorldOK
  <2> QED BY <2>1
<1>4. RequestOK(file[f], dropped[f], asked[f], pos)
  BY DEF IInv
<1>5. file[f] = NoFile /\ asked[f] = {}
  BY <1>2, <1>4 DEF RequestOK
<1>6. r \in Request /\ r.bound = <<>> /\ r.mtime = m /\ r.present
  BY <1>3, EmptyRange DEF Request
<1> HIDE DEF r
<1>7. /\ file' = [g \in Files |-> IF g = f THEN r ELSE file[g]]
      /\ dropped' = [g \in Files |-> IF g = f THEN now ELSE dropped[g]]
  <2>1. file = [g \in Files |-> file[g]] /\ dropped = [g \in Files |-> dropped[g]]
    BY DEF IInv
  <2> QED BY <1>1, <1>2, <2>1 DEF r
<1>8. RequestOK(r, now, {}, pos)
  BY <1>3, <1>6, EmptyRange DEF RequestOK
<1>9. \A g \in Files : RequestOK(file'[g], dropped'[g], asked'[g], pos')
  <2> TAKE g \in Files
  <2>1. CASE g = f
    BY <1>2, <1>5, <1>7, <1>8, <2>1
  <2>2. CASE g # f
    <3>1. file'[g] = file[g] /\ dropped'[g] = dropped[g]
      BY <1>7, <2>2
    <3> QED BY <1>2, <3>1 DEF IInv
  <2> QED BY <2>1, <2>2
<1>10. ASSUME NEW t \in Threads PROVE SessionOK(drain[t], file', done, pos)
  <2>1. SessionOK(drain[t], file, done, pos)
    BY DEF IInv
  <2>2. CASE drain[t].pc \notin {"bind", "target", "quote", "settle", "numbers"}
    BY <2>1, <2>2, IdleSession
  <2>3. CASE drain[t].pc \in {"bind", "target", "quote", "settle", "numbers"}
    <3>1. /\ Current(t) \in Files
          /\ WorkOK(drain[t], file[Current(t)], done[Current(t)], pos)
      BY <2>3, AtWork
    <3>2. Current(t) # f
      <4>1. NoFile.content = Bad
        BY DEF NoFile
      <4>2. file[Current(t)].content # Bad
        BY <3>1 DEF WorkOK
      <4> QED BY <1>5, <4>1, <4>2
    <3>3. file'[Current(t)] = file[Current(t)]
      BY <1>7, <3>1, <3>2
    <3> QED BY <2>1, <2>3, <3>1, <3>3 DEF SessionOK, Current
  <2> QED BY <2>2, <2>3
<1>11. \A g \in Files : \A i \in DOMAIN done'[g] : ItemTrue(done'[g][i], pos')
  BY <1>2 DEF IInv
<1>12. \A t \in Threads : SessionOK(drain'[t], file', done', pos')
  BY <1>2, <1>10
<1>13. /\ WorldOK' /\ error' \subseteq Files /\ lock' \in Threads \cup {"free"}
       /\ done' = [g \in Files |-> done'[g]] /\ asked' = [g \in Files |-> asked'[g]]
       /\ drain' = [t \in Threads |-> drain'[t]]
       /\ \A t \in Threads : drain'[t].pc # "idle" <=> lock' = t
  BY <1>2 DEF IInv, WorldOK
<1>14. file' = [g \in Files |-> file'[g]] /\ dropped' = [g \in Files |-> dropped'[g]]
  BY <1>7
<1>15. IInv'
  BY <1>9, <1>11, <1>12, <1>13, <1>14 DEF IInv
<1> QED BY <1>2, <1>15 DEF Kept, AnswersKept

\* A position is opened: the rows before it stand.
LEMMA OpenKeeps ==
  ASSUME IInv, NEW s \in Symbols, Open(s)
  PROVE  Kept
<1> DEFINE row == [symbol |-> s, at |-> now, open |-> TRUE, by |-> ""]
<1>1. /\ Len(pos) < MaxPos /\ pos' = Append(pos, row)
      /\ UNCHANGED <<file, done, error, drain, lock, dropped, asked, now>>
  BY DEF Open, disk
<1>2. now \in 0..MaxTime /\ pos \in Seq(Position) /\ Len(pos) \in Nat /\ MaxPos \in Nat
  BY BoundsAssumption, LenProperties DEF IInv, WorldOK
<1>3. row \in Position
  BY <1>2 DEF Position
<1> HIDE DEF row
<1>4. /\ pos' \in Seq(Position) /\ Len(pos') = Len(pos) + 1
      /\ DOMAIN pos = 1..Len(pos) /\ DOMAIN pos' = 1..(Len(pos) + 1)
      /\ \A i \in 1..Len(pos) : pos'[i] = pos[i]
  BY <1>1, <1>2, <1>3, AppendProperties, LenProperties
<1>5. Grows(pos, pos')
  BY <1>2, <1>4 DEF Grows
<1>6. WorldOK'
  BY <1>1, <1>2, <1>4 DEF WorldOK
<1> QED BY <1>1, <1>5, <1>6, WorldKeeps

\* A position is closed by something other than a request.
LEMMA CloseOtherKeeps ==
  ASSUME IInv, NEW p \in DOMAIN pos, CloseOther(p)
  PROVE  Kept
<1>1. /\ pos[p].open /\ Close({p}, "stop")
      /\ UNCHANGED <<file, done, error, drain, lock, dropped, asked, now>>
  BY DEF CloseOther, disk
<1>2. pos' \in Seq(Position) /\ Len(pos') = Len(pos) /\ Grows(pos, pos')
  BY <1>1, CloseGrows DEF IInv
<1>3. WorldOK'
  BY <1>1, <1>2 DEF IInv, WorldOK
<1> QED BY <1>1, <1>2, <1>3, WorldKeeps

\* Time passes.
LEMMA TickKeeps ==
  ASSUME IInv, Tick
  PROVE  Kept
<1>1. /\ now < MaxTime /\ now' = now + 1 /\ pos' = pos
      /\ UNCHANGED <<file, done, error, drain, lock, dropped, asked>>
  BY DEF Tick, disk
<1>2. WorldOK'
  BY <1>1, BoundsAssumption DEF IInv, WorldOK
<1> QED BY <1>1, <1>2, GrowsIdle, WorldKeeps

\* The process dies: the files stay, no thread is inside.
LEMMA DiesKeeps ==
  ASSUME IInv, Dies
  PROVE  Kept
<1>1. /\ drain' = [t \in Threads |-> Idle] /\ lock' = "free"
      /\ UNCHANGED <<file, done, error, dropped, asked, now, pos>>
  BY DEF Dies, disk, world
<1>2. \A t \in Threads : drain'[t] = Idle
  BY <1>1
<1>3. \A t \in Threads : SessionOK(drain'[t], file', done', pos')
  BY <1>2, IdleOK
<1>4. \A t \in Threads : drain'[t].pc # "idle" <=> lock' = t
  BY <1>1, <1>2, IdleOK, ThreadsAssumption
<1>5. /\ WorldOK' /\ error' \subseteq Files /\ lock' \in Threads \cup {"free"}
      /\ file' = [f \in Files |-> file'[f]] /\ done' = [f \in Files |-> done'[f]]
      /\ dropped' = [f \in Files |-> dropped'[f]] /\ asked' = [f \in Files |-> asked'[f]]
      /\ \A f \in Files : RequestOK(file'[f], dropped'[f], asked'[f], pos')
      /\ \A f \in Files : \A i \in DOMAIN done'[f] : ItemTrue(done'[f][i], pos')
  BY <1>1 DEF IInv, WorldOK
<1>6. drain' = [t \in Threads |-> drain'[t]]
  BY <1>1
<1>7. IInv'
  BY <1>3, <1>4, <1>5, <1>6 DEF IInv
<1> QED BY <1>1, <1>7 DEF Kept, AnswersKept

\* Nothing happens.
LEMMA StutterKeeps ==
  ASSUME IInv, UNCHANGED vars
  PROVE  Kept
<1>1. WorldOK'
  BY DEF IInv, WorldOK, vars
<1> QED BY <1>1, GrowsIdle, WorldKeeps DEF vars

(***************************************************************************)
(* The specification                                                       *)
(***************************************************************************)

\* It starts with an empty directory and no positions.
LEMMA InitHolds ==
  ASSUME Init
  PROVE  IInv
<1>1. WorldOK
  <2>1. pos = <<>> /\ now = 0 /\ Len(<<>>) = 0
    BY DEF Init
  <2> QED BY <2>1, BoundsAssumption, EmptyRange DEF WorldOK
<1>2. /\ file = [f \in Files |-> NoFile] /\ done = [f \in Files |-> NoAnswer] /\ error = {}
      /\ drain = [t \in Threads |-> Idle] /\ lock = "free"
      /\ dropped = [f \in Files |-> 0] /\ asked = [f \in Files |-> {}]
  BY DEF Init
<1>3. RequestOK(NoFile, 0, {}, pos)
  <2>1. NoFile \in Request /\ NoFile.bound = <<>> /\ NoFile.mtime = 0
    BY EmptyRange DEF NoFile, Request
  <2> QED BY <2>1, EmptyRange DEF RequestOK
<1>4. \A i \in DOMAIN NoAnswer : ItemTrue(NoAnswer[i], pos)
  <2>1. \A i \in DOMAIN NoAnswer : NoAnswer[i] = [id |-> None, status |-> "unanswered"]
    BY DEF NoAnswer
  <2>2. ItemTrue([id |-> None, status |-> "unanswered"], pos)
    BY DEF ItemTrue
  <2> QED BY <2>1, <2>2
<1>5. \A t \in Threads : drain[t] = Idle
  BY <1>2
<1>6. \A t \in Threads : SessionOK(drain[t], file, done, pos) /\ drain[t].pc = "idle"
  BY <1>5, IdleOK
<1>7. \A f \in Files : RequestOK(file[f], dropped[f], asked[f], pos)
  BY <1>2, <1>3
<1>8. \A f \in Files : \A i \in DOMAIN done[f] : ItemTrue(done[f][i], pos)
  BY <1>2, <1>4
<1>9. \A t \in Threads : drain[t].pc # "idle" <=> lock = t
  BY <1>2, <1>6, ThreadsAssumption
<1> QED BY <1>1, <1>2, <1>6, <1>7, <1>8, <1>9 DEF IInv

\* Every step keeps the invariant and the answers that are there.
LEMMA StepHolds ==
  ASSUME IInv, [Next]_vars
  PROVE  Kept
<1>1. ASSUME NEW t \in Threads, Drain(t) PROVE Kept
  BY <1>1, BeginDrainKeeps, EndDrainKeeps, DropAnsweredKeeps, ReadRequestKeeps, BindKeeps,
     LocateKeeps, NoQuoteKeeps, RelocateKeeps, SettleKeeps, NumbersKeeps, WriteDoneKeeps,
     UnlinkKeeps, RejectKeeps
  DEF Drain
<1>2. ASSUME NEW t \in Threads, Fault(t) PROVE Kept
  BY <1>2, SettleRaisesKeeps, SettleSkipsKeeps, WriteDoneFailsKeeps, FileRaisesKeeps DEF Fault
<1> QED BY <1>1, <1>2, DropKeeps, OpenKeeps, CloseOtherKeeps, TickKeeps, DiesKeeps,
           StutterKeeps DEF Next

\* The inductive invariant holds in every state.
LEMMA Inductive == Spec => []IInv
<1>1. Init => IInv
  BY InitHolds
<1>2. IInv /\ [Next]_vars => IInv'
  BY StepHolds DEF Kept
<1> QED BY <1>1, <1>2, PTL DEF Spec

\* Types: requests, answers and settlements are of known form, and the thread
\* inside a drain is the one that holds the lock.
THEOREM TypeCorrect == Spec => []TypeOK
<1>1. IInv => TypeOK
  <2> SUFFICES ASSUME IInv PROVE TypeOK
    OBVIOUS
  <2>1. ASSUME NEW f \in Files
        PROVE  /\ file[f].bound \in Seq(Target) /\ asked[f] \subseteq Target
               /\ \A i \in DOMAIN done[f] : done[f][i].id \in Ids \cup {None}
    <3>1. RequestOK(file[f], dropped[f], asked[f], pos)
      BY DEF IInv
    <3>2. \A i \in DOMAIN done[f] : ItemTrue(done[f][i], pos)
      BY DEF IInv
    <3> QED BY <3>1, <3>2, RequestShape DEF RequestOK, ItemTrue
  <2> QED BY <2>1 DEF IInv, TypeOK
<1> QED BY <1>1, Inductive, PTL

\* A request that names a symbol asks for one position of it, through retries,
\* deaths and reopenings: what was asked is in the binding saved first.
THEOREM OnePosition == Spec => []OnePositionPerSymbol
<1>1. IInv => OnePositionPerSymbol
  <2> SUFFICES ASSUME IInv, NEW f \in Files, NEW x \in asked[f], NEW y \in asked[f],
                      x.symbol # "any", x.symbol = y.symbol
               PROVE  x.id = y.id
    BY DEF OnePositionPerSymbol
  <2>1. RequestOK(file[f], dropped[f], asked[f], pos)
    BY DEF IInv
  <2>2. x \in Range(file[f].bound) /\ y \in Range(file[f].bound)
    BY <2>1 DEF RequestOK, AskedOK
  <2> QED BY <2>1, <2>2 DEF RequestOK
<1> QED BY <1>1, Inductive, PTL

(***************************************************************************)
(* What a settlement closes                                                *)
(***************************************************************************)

\* A thread closes rows by hand, all that are open on its symbol or none.
ByHand(t) == Settling(t) /\ \E ids \in {{}, Settles(t)} : Close(ids, "manual")

\* Rows change in four ways.
LEMMA LedgerSteps ==
  ASSUME [Next]_vars
  PROVE  \/ pos' = pos
         \/ \E s \in Symbols : Open(s)
         \/ \E p \in DOMAIN pos : CloseOther(p)
         \/ \E t \in Threads : ByHand(t)
<1>1. ASSUME NEW t \in Threads, Drain(t) PROVE pos' = pos \/ ByHand(t)
  <2>1. CASE Settle(t)
    BY <2>1 DEF Settle, ByHand, Settling
  <2>2. CASE ~Settle(t)
    BY <1>1, <2>2 DEF Drain, BeginDrain, EndDrain, DropAnswered, ReadRequest, Bind, Locate,
       NoQuote, Relocate, Numbers, WriteDone, Unlink, Reject, world
  <2> QED BY <2>1, <2>2
<1>2. ASSUME NEW t \in Threads, Fault(t) PROVE pos' = pos \/ ByHand(t)
  <2>1. CASE SettleRaises(t)
    BY <2>1 DEF SettleRaises, ByHand, Settling
  <2>2. CASE ~SettleRaises(t)
    BY <1>2, <2>2 DEF Fault, SettleSkips, WriteDoneFails, FileRaises, RejectRaises, world
  <2> QED BY <2>1, <2>2
<1>3. CASE \E f \in Files, c \in Contents : Drop(f, c)
  BY <1>3 DEF Drop
<1>4. CASE Tick \/ Dies \/ UNCHANGED vars
  BY <1>4 DEF Tick, Dies, world, vars
<1> QED BY <1>1, <1>2, <1>3, <1>4 DEF Next

\* A close keeps which rows there are, their symbols, and the others as they were.
LEMMA CloseRows ==
  ASSUME WorldOK, NEW ids, NEW by, Close(ids, by)
  PROVE  /\ DOMAIN pos' = DOMAIN pos
         /\ \A p \in DOMAIN pos :
              /\ pos'[p].symbol = pos[p].symbol
              /\ IF p \in ids THEN ~pos'[p].open /\ pos'[p].by = by ELSE pos'[p] = pos[p]
<1>1. \A p \in DOMAIN pos : pos[p] \in Position
  BY RowAt
<1> QED BY <1>1 DEF Close, Position

\* An opening leaves the rows before it alone.
LEMMA OpenRowsStand ==
  ASSUME WorldOK, NEW s \in Symbols, Open(s)
  PROVE  /\ DOMAIN pos = 1..Len(pos) /\ DOMAIN pos' = 1..(Len(pos) + 1) /\ Len(pos) \in Nat
         /\ \A i \in DOMAIN pos : pos'[i] = pos[i]
         /\ pos'[Len(pos) + 1].symbol = s /\ OpenRows(s) = {}
<1> DEFINE row == [symbol |-> s, at |-> now, open |-> TRUE, by |-> ""]
<1>1. pos' = Append(pos, row) /\ OpenRows(s) = {}
  BY DEF Open
<1>2. pos \in Seq(Position) /\ row \in Position
  BY DEF WorldOK, Position
<1>3. row.symbol = s
  OBVIOUS
<1> HIDE DEF row
<1> QED BY <1>1, <1>2, <1>3, AppendProperties, LenProperties

\* Only the latest position of a symbol is open.
LEMMA NewestStep ==
  ASSUME WorldOK, NewestOpen, [Next]_vars
  PROVE  NewestOpen'
<1>1. ASSUME NEW ids, NEW by, Close(ids, by) PROVE NewestOpen'
  BY <1>1, CloseRows DEF NewestOpen
<1>2. ASSUME NEW s \in Symbols, Open(s) PROVE NewestOpen'
  <2> SUFFICES ASSUME NEW p \in DOMAIN pos', NEW q \in DOMAIN pos', p < q,
                      pos'[p].symbol = pos'[q].symbol
               PROVE  ~pos'[p].open
    BY DEF NewestOpen
  <2>1. p \in DOMAIN pos /\ pos'[p] = pos[p]
    BY <1>2, OpenRowsStand
  <2>2. CASE q \in DOMAIN pos
    BY <1>2, <2>1, <2>2, OpenRowsStand DEF NewestOpen
  <2>3. CASE q \notin DOMAIN pos
    <3>1. q = Len(pos) + 1
      BY <1>2, <2>3, OpenRowsStand
    <3>2. pos[p].symbol = s /\ p \notin OpenRows(s)
      BY <1>2, <2>1, <3>1, OpenRowsStand
    <3> QED BY <2>1, <3>2 DEF OpenRows
  <2> QED BY <2>2, <2>3
<1>3. CASE pos' = pos
  BY <1>3 DEF NewestOpen
<1> QED BY <1>1, <1>2, <1>3, LedgerSteps DEF CloseOther, ByHand

\* The position in hand at a settlement is a known one, in time for its request.
LEMMA InHandInTime ==
  ASSUME IInv, NEW t \in Threads, Settling(t)
  PROVE  drain[t].id \in DOMAIN pos /\ (BySymbol(t) => InTime(t, drain[t].id))
<1> DEFINE f == Current(t)
           x == Head(drain[t].targets)
<1>1. /\ f \in Files /\ WorkOK(drain[t], file[f], done[f], pos)
      /\ RequestOK(file[f], dropped[f], asked[f], pos)
      /\ drain[t].pc = "settle"
  BY AtWork DEF Settling, At
<1>2. /\ drain[t].targets # <<>> /\ drain[t].id \in DOMAIN pos /\ drain[t].id = x.id
      /\ x.symbol # "any" => pos[x.id].at <= x.mtime + Slack
  BY <1>1 DEF WorkOK
<1>3. /\ x \in Target
      /\ \/ x.symbol = "any" /\ x.absent = ""
         \/ x \in Range(file[f].bound) /\ BindingOK(x, dropped[f], pos)
  BY <1>1, <1>2, TargetInHand
<1>4. ASSUME x.symbol # "any" PROVE pos[x.id].at <= dropped[f] + Slack
  <2> DEFINE at == pos[x.id].at
             m == x.mtime
             d == dropped[f]
  <2>1. at \in Nat /\ m \in Nat /\ d \in Nat /\ Slack \in Nat /\ m <= d /\ at <= m + Slack
    BY <1>1, <1>2, <1>3, <1>4, RowAt, BoundsAssumption DEF Target, RequestOK, BindingOK, IInv
  <2> HIDE DEF at, m, d
  <2>2. at <= d + Slack
    BY <2>1
  <2> QED BY <2>2 DEF at, d
<1> QED BY <1>2, <1>4 DEF BySymbol, InTime

\* What a request closes was open on its symbol in time, or is newer than the
\* position located for it, which something else closed before the settlement.
THEOREM LaterNeedsARace == Spec => LaterCloseNeedsARace
<1>1. Init => IInv /\ NewestOpen
  <2>1. Init => NewestOpen
    BY DEF Init, NewestOpen
  <2> QED BY <2>1, InitHolds
<1>2. IInv /\ NewestOpen /\ [Next]_vars => (IInv /\ NewestOpen)'
  BY StepHolds, NewestStep DEF Kept, IInv
<1> DEFINE Raced(t, p) ==
             /\ drain[t].id < p /\ pos[drain[t].id].symbol = pos[p].symbol
             /\ ~pos[drain[t].id].open
           Late == \A p \in ClosedByHand : \E t \in Threads :
             /\ Settling(t)
             /\ \/ p = drain[t].id /\ (BySymbol(t) => InTime(t, p))
                \/ Raced(t, p)
<1>3. IInv /\ NewestOpen /\ [Next]_vars => Late
  <2> SUFFICES ASSUME IInv, NewestOpen, [Next]_vars, NEW p \in ClosedByHand
               PROVE  \E t \in Threads :
                        /\ Settling(t)
                        /\ \/ p = drain[t].id /\ (BySymbol(t) => InTime(t, p))
                           \/ Raced(t, p)
    OBVIOUS
  <2>1. /\ p \in DOMAIN pos /\ pos[p].open /\ ~pos'[p].open /\ pos'[p].by = "manual"
        /\ WorldOK
    BY DEF ClosedByHand, IInv
  <2>2. ~ \E s \in Symbols : Open(s)
    BY <2>1, OpenRowsStand
  <2>3. ~ \E q \in DOMAIN pos : CloseOther(q)
    <3> SUFFICES ASSUME NEW q \in DOMAIN pos, CloseOther(q) PROVE FALSE
      OBVIOUS
    <3>1. Close({q}, "stop")
      BY DEF CloseOther
    <3> QED BY <2>1, <3>1, CloseRows
  <2>4. PICK t \in Threads : ByHand(t)
    BY <2>1, <2>2, <2>3, LedgerSteps
  <2>5. PICK ids \in {{}, Settles(t)} : Close(ids, "manual")
    BY <2>4 DEF ByHand
  <2>6. p \in Settles(t)
    BY <2>1, <2>5, CloseRows
  <2>7. Settling(t) /\ drain[t].id \in DOMAIN pos /\ (BySymbol(t) => InTime(t, drain[t].id))
    BY <2>4, InHandInTime DEF ByHand
  <2>8. pos[p].symbol = pos[drain[t].id].symbol
    BY <2>6 DEF Settles, OpenRows
  <2>9. CASE p # drain[t].id
    <3>1. p \in Nat /\ drain[t].id \in Nat
      <4>1. DOMAIN pos = 1..Len(pos) /\ Len(pos) \in Nat
        BY <2>1, LenProperties DEF WorldOK
      <4> QED BY <2>1, <2>7, <4>1
    <3>2. ~(p < drain[t].id)
      BY <2>1, <2>7, <2>8 DEF NewestOpen
    <3>3. drain[t].id < p
      BY <2>9, <3>1, <3>2
    <3>4. ~pos[drain[t].id].open
      BY <2>1, <2>7, <2>8, <3>3 DEF NewestOpen
    <3> QED BY <2>7, <2>8, <3>3, <3>4
  <2> QED BY <2>7, <2>9
<1>4. Spec => [][Late]_vars
  <2> HIDE DEF Late
  <2> QED BY <1>1, <1>2, <1>3, PTL DEF Spec
<1> QED BY <1>4 DEF LaterCloseNeedsARace

\* What a .done file says is closed is closed, and by hand where it says so.
THEOREM AnswersTrue == Spec => []AnswersAreTrue
<1>1. IInv => AnswersAreTrue
  <2> SUFFICES ASSUME IInv, NEW f \in Files, NEW i \in DOMAIN done[f]
               PROVE  /\ done[f][i].status \in {"closed", "already_closed"}
                           => ~pos[done[f][i].id].open
                      /\ done[f][i].status = "closed" => pos[done[f][i].id].by = "manual"
    BY DEF AnswersAreTrue
  <2>1. ItemTrue(done[f][i], pos)
    BY DEF IInv
  <2> QED BY <2>1 DEF ItemTrue, Closed
<1> QED BY <1>1, Inductive, PTL

\* An answer is written once, and nothing is asked for under its name after it.
THEOREM AnswerIsFinal == Spec => AnswerStands
<1>1. IInv /\ [Next]_vars => AnswersKept
  BY StepHolds DEF Kept
<1>2. Spec => [][AnswersKept]_vars
  BY <1>1, Inductive, PTL DEF Spec
<1> QED BY <1>2 DEF AnswerStands, AnswersKept
=============================================================================
