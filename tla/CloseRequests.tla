--------------------------- MODULE CloseRequests ---------------------------
(***************************************************************************)
(* Manual closes by file (core/execution/paper_close_requests.py).         *)
(*                                                                         *)
(* An operator renames a request into data/close_requests.  Whichever of   *)
(* the two desk threads gets the drain lock reads the directory and, file  *)
(* by file, binds the listed symbols to the positions open at that moment, *)
(* settles each target, writes <name>.done and unlinks the request.  The   *)
(* directory outlives the process; the drain's local state does not.       *)
(*                                                                         *)
(* A position is reduced to what a request can tell about it: its symbol,  *)
(* its opening time, whether it is open and what closed it.  Settlement,   *)
(* whose steps PaperBook details, is one action here.  Every read, write   *)
(* and unlink that can raise does so at most MaxFaults times.              *)
(***************************************************************************)
EXTENDS Naturals, Sequences, FiniteSets, SequencesExt

CONSTANTS
    Threads,     \* the main thread and the exit thread
    Files,       \* request names, numbered in the order glob sorts them
    Symbols,
    Contents,    \* what an operator may write: Bad, or symbols and ids
    MaxPos,      \* bound on the positions ever opened
    MaxTime,     \* bound on the clock
    Slack,       \* how much later than the request a fill may be dated
    MaxDrops,    \* bound on the requests dropped
    MaxCrashes,  \* bound on process deaths
    MaxFaults    \* bound on raising reads, writes, unlinks and settlements

Ids == 1..MaxPos
None == 0

Bad == [symbols |-> <<>>, ids |-> <<>>]

ASSUME FilesAssumption == Files \subseteq Nat /\ IsFiniteSet(Files)
ASSUME ThreadsAssumption == "free" \notin Threads
ASSUME ContentsAssumption ==
    Contents \subseteq [symbols : Seq(Symbols), ids : Seq(Ids)]
ASSUME BoundsAssumption ==
    {MaxPos, MaxTime, Slack, MaxDrops, MaxCrashes, MaxFaults} \subseteq Nat

VARIABLES
    now,      \* the clock of ledger and file system
    pos,      \* the ledger: one record per position id
    file,     \* the .json files
    done,     \* the .done files: the items written
    error,    \* the names that have a .error file
    drain,    \* per thread: the state of _drain_close_request_files
    lock,     \* _CLOSE_DRAIN
    dropped,  \* history: when each present request was dropped
    asked,    \* history: per request, the targets whose settlement was called
    drops, crashes, faults

vars == <<now, pos, file, done, error, drain, lock, dropped, asked, drops,
          crashes, faults>>
disk == <<file, done, error>>
world == <<now, pos, dropped, drops>>

-----------------------------------------------------------------------------
(* Data *)

NoFile == [content |-> Bad, mtime |-> 0, bound |-> <<>>, present |-> FALSE]
NoAnswer == <<[id |-> None, status |-> "unanswered"]>>
Position == [symbol : Symbols, at : 0..MaxTime, open : BOOLEAN, by : {"", "stop", "manual"}]
Target == [symbol : Symbols \cup {"any"}, id : Ids \cup {None},
           bound : BOOLEAN, mtime : Nat, absent : {"", "not_found", "already_closed"}]
Answer(id, status) == [id |-> id, status |-> status]

Idle == [pc |-> "idle", todo |-> <<>>, targets |-> <<>>, items |-> <<>>,
         id |-> None, closed |-> FALSE]

\* Ledger reads: rows open on a symbol, and the latest row of the symbol.
OpenRows(s) == {p \in DOMAIN pos : pos[p].symbol = s /\ pos[p].open}
Latest(s) == {p \in DOMAIN pos : pos[p].symbol = s
                /\ \A q \in DOMAIN pos : pos[q].symbol = s => q <= p}

\* The binding of one listed symbol: the id open on it, or why there is none.
BindSymbol(s, mtime) ==
    IF OpenRows(s) # {}
    THEN [symbol |-> s, id |-> CHOOSE p \in OpenRows(s) : TRUE,
          bound |-> TRUE, mtime |-> mtime, absent |-> ""]
    ELSE [symbol |-> s, id |-> IF Latest(s) = {} THEN None ELSE CHOOSE p \in Latest(s) : TRUE,
          bound |-> FALSE, mtime |-> mtime,
          absent |-> IF Latest(s) = {} THEN "not_found" ELSE "already_closed"]

\* Fault: the mtime is taken when the binding is written.
BindingsAtWrite(f) == [i \in DOMAIN file[f].content.symbols |->
                    BindSymbol(file[f].content.symbols[i], now)]
Bindings(f) == [i \in DOMAIN file[f].content.symbols |->
                    BindSymbol(file[f].content.symbols[i], file[f].mtime)]

\* Targets of a request: its stored bindings, then the ids the operator named.
TargetsOf(bound, ids) ==
    bound \o [i \in DOMAIN ids |->
                [symbol |-> "any", id |-> ids[i], bound |-> FALSE, mtime |-> 0,
                 absent |-> ""]]

\* What locating a target finds; "open" is the only state that goes on.
Located(x) ==
    IF x.absent # "" THEN x.absent
    ELSE IF x.id \notin DOMAIN pos THEN "not_found"
    ELSE IF ~pos[x.id].open THEN "already_closed"
    ELSE IF x.bound /\ pos[x.id].at > x.mtime + Slack THEN "opened_after_request"
    ELSE "open"

Current(t) == Head(drain[t].todo)
Rest(t) == [Idle EXCEPT !.pc = "next", !.todo = Tail(drain[t].todo)]
At(t, pc) == drain[t].pc = pc
Goto(t, pc) == drain' = [drain EXCEPT ![t].pc = pc]

\* Append one item and go on with the next target.
Answered(t, item) ==
    drain' = [drain EXCEPT ![t].pc = "target",
                           ![t].targets = Tail(@), ![t].id = None,
                           ![t].closed = FALSE,
                           ![t].items = Append(@, item)]

Raises == faults < MaxFaults /\ faults' = faults + 1

-----------------------------------------------------------------------------
(* The drain *)

Init ==
    /\ now = 0
    /\ pos = <<>>
    /\ file = [f \in Files |-> NoFile]
    /\ done = [f \in Files |-> NoAnswer]
    /\ error = {}
    /\ drain = [t \in Threads |-> Idle]
    /\ lock = "free"
    /\ dropped = [f \in Files |-> 0]
    /\ asked = [f \in Files |-> {}]
    /\ drops = 0 /\ crashes = 0 /\ faults = 0

\* The loser of the lock skips its pass; the winner lists the directory once.
\* Fault: no lock.
MayDrainUnlocked(t) == TRUE
MayDrain(t) == lock = "free"
Present == {f \in Files : file[f].present}
Listing == {s \in [1..Cardinality(Present) -> Present] :
              \A i, j \in DOMAIN s : i < j => s[i] < s[j]}
BeginDrain(t) ==
    /\ At(t, "idle") /\ MayDrain(t) /\ Present # {}
    /\ lock' = t
    /\ \E s \in Listing :
         drain' = [drain EXCEPT ![t] = [Idle EXCEPT !.pc = "next", !.todo = s]]
    /\ UNCHANGED <<disk, world, asked, crashes, faults>>

\* Fault: the lock is not given back.
EndDrainHolding(t) ==
    /\ At(t, "next") /\ drain[t].todo = <<>>
    /\ drain' = [drain EXCEPT ![t] = Idle]
    /\ UNCHANGED <<disk, world, lock, asked, crashes, faults>>

EndDrain(t) ==
    /\ At(t, "next") /\ drain[t].todo = <<>>
    /\ lock' = "free"
    /\ drain' = [drain EXCEPT ![t] = Idle]
    /\ UNCHANGED <<disk, world, asked, crashes, faults>>

\* The history of a request is kept while the request is in the directory.
Unlinked(f) ==
    /\ file' = [file EXCEPT ![f] = NoFile]
    /\ dropped' = [dropped EXCEPT ![f] = 0]
    /\ asked' = [asked EXCEPT ![f] = {}]

\* Fault: the .done file is not looked at.
NeverAnswered(f) == FALSE
HasAnswer(f) == done[f] # NoAnswer

\* The result landed and the request survived a crash: only unlink it.
DropAnswered(t) ==
    /\ At(t, "next") /\ drain[t].todo # <<>>
    /\ HasAnswer(Current(t))
    /\ Unlinked(Current(t))
    /\ drain' = [drain EXCEPT ![t] = Rest(t)]
    /\ UNCHANGED <<done, error, lock, now, pos, drops, crashes, faults>>

ReadRequest(t) ==
    /\ At(t, "next") /\ drain[t].todo # <<>>
    /\ LET f == Current(t)  req == file[f] IN
       /\ ~HasAnswer(f)
       /\ drain' = [drain EXCEPT
            ![t].pc = IF req.content = Bad THEN "reject"
                      ELSE IF req.content.symbols # <<>> /\ req.bound = <<>> THEN "bind"
                      ELSE "target",
            ![t].targets = TargetsOf(req.bound, req.content.ids)]
    /\ UNCHANGED <<disk, lock, world, asked, crashes, faults>>

\* Fault: the binding is computed but not saved into the file.
BindInMemory(t) ==
    /\ At(t, "bind")
    /\ LET f == Current(t) IN
         drain' = [drain EXCEPT ![t].pc = "target",
                      ![t].targets = TargetsOf(Bindings(f), file[f].content.ids)]
    /\ UNCHANGED <<disk, lock, world, asked, crashes, faults>>

\* Freeze the symbols to the ids open now, with the mtime the file had before
\* this rewrite, and go on with the targets as they were saved.
Bind(t) ==
    /\ At(t, "bind")
    /\ LET f == Current(t) IN
       /\ file' = [file EXCEPT ![f].bound = Bindings(f), ![f].mtime = now]
       /\ drain' = [drain EXCEPT ![t].pc = "target",
                      ![t].targets = TargetsOf(Bindings(f), file[f].content.ids)]
    /\ UNCHANGED <<done, error, lock, world, asked, crashes, faults>>

\* A target that is not open, or too new for its binding, is answered as it is.
Locate(t) ==
    /\ At(t, "target") /\ drain[t].targets # <<>>
    /\ LET x == Head(drain[t].targets) IN
       IF Located(x) = "open"
       THEN Goto(t, "quote")
       ELSE Answered(t, Answer(x.id, Located(x)))
    /\ UNCHANGED <<disk, lock, world, asked, crashes, faults>>

NoQuote(t) ==
    /\ At(t, "quote")
    /\ Answered(t, Answer(Head(drain[t].targets).id, "error"))
    /\ UNCHANGED <<disk, lock, world, asked, crashes, faults>>

\* The price is in hand: look again before settling.
Relocate(t) ==
    /\ At(t, "quote")
    /\ LET x == Head(drain[t].targets) IN
       IF Located(x) = "open"
       THEN drain' = [drain EXCEPT ![t].pc = "settle", ![t].id = x.id]
       ELSE Answered(t, Answer(x.id, Located(x)))
    /\ UNCHANGED <<disk, lock, world, asked, crashes, faults>>

\* _settle_paper_exit is given the symbol: it closes what is open there now.
Settles(t) == OpenRows(pos[drain[t].id].symbol)
Close(ids, by) == pos' = [p \in DOMAIN pos |->
                            IF p \in ids THEN [pos[p] EXCEPT !.open = FALSE, !.by = by]
                                         ELSE pos[p]]
Asking(t) == asked' = [asked EXCEPT ![Current(t)] = @ \cup {Head(drain[t].targets)}]

Settle(t) ==
    /\ At(t, "settle")
    /\ Close(Settles(t), "manual")
    /\ drain' = [drain EXCEPT ![t].pc = "numbers", ![t].closed = Settles(t) # {}]
    /\ Asking(t)
    /\ UNCHANGED <<disk, lock, now, dropped, drops, crashes, faults>>

\* The exit raises before or after its commit: an error item either way.
SettleRaises(t) ==
    /\ At(t, "settle") /\ Raises
    /\ \E commits \in BOOLEAN : Close(IF commits THEN Settles(t) ELSE {}, "manual")
    /\ Answered(t, Answer(drain[t].id, "error"))
    /\ Asking(t)
    /\ UNCHANGED <<disk, lock, now, dropped, drops, crashes>>

\* The exit was skipped under the book lock: nothing was closed.
SettleSkips(t) ==
    /\ At(t, "settle") /\ Raises
    /\ drain' = [drain EXCEPT ![t].pc = "numbers", ![t].closed = FALSE]
    /\ Asking(t)
    /\ UNCHANGED <<disk, lock, now, pos, dropped, drops, crashes>>

\* Fault: the count the call returned is taken for the answer.
VerdictByCall(t) == IF drain[t].closed THEN "closed" ELSE "already_closed"

\* The item comes from the trade of the located position, not from the call.
Verdict(t) ==
    LET p == pos[drain[t].id] IN
    IF p.open THEN "error"
    ELSE IF p.by = "manual" /\ drain[t].closed THEN "closed" ELSE "already_closed"
Numbers(t) ==
    /\ At(t, "numbers")
    /\ Answered(t, Answer(drain[t].id, Verdict(t)))
    /\ UNCHANGED <<disk, lock, world, asked, crashes, faults>>

WriteDone(t) ==
    /\ At(t, "target") /\ drain[t].targets = <<>>
    /\ done' = [done EXCEPT ![Current(t)] = drain[t].items]
    /\ drain' = [drain EXCEPT ![t] = [Idle EXCEPT !.pc = "unlink", !.todo = drain[t].todo]]
    /\ UNCHANGED <<file, error, lock, world, asked, crashes, faults>>

\* Settled but not recorded: the request stays for the next pass.
WriteDoneFails(t) ==
    /\ At(t, "target") /\ drain[t].targets = <<>> /\ Raises
    /\ drain' = [drain EXCEPT ![t] = Rest(t)]
    /\ UNCHANGED <<disk, lock, world, asked, crashes>>

Unlink(t) ==
    /\ drain[t].pc \in {"unlink", "unlink_error"}
    /\ Unlinked(Current(t))
    /\ drain' = [drain EXCEPT ![t] = Rest(t)]
    /\ UNCHANGED <<done, error, lock, now, pos, drops, crashes, faults>>

\* .error first, then the request goes.
Reject(t) ==
    /\ At(t, "reject")
    /\ error' = error \cup {Current(t)}
    /\ Goto(t, "unlink_error")
    /\ UNCHANGED <<file, done, lock, world, asked, crashes, faults>>

\* Whatever raises while a file is processed rejects it ...
FileRaises(t) ==
    /\ \/ drain[t].pc \in {"bind", "quote", "numbers", "unlink"}
       \/ At(t, "next") /\ drain[t].todo # <<>>
       \/ At(t, "target") /\ drain[t].targets # <<>>
    /\ Raises
    /\ drain' = [drain EXCEPT ![t] = [Idle EXCEPT !.pc = "reject", !.todo = drain[t].todo]]
    /\ UNCHANGED <<disk, lock, world, asked, crashes>>

\* ... and a rejection that raises leaves the request where it is.
RejectRaises(t) ==
    /\ drain[t].pc \in {"reject", "unlink_error"} /\ Raises
    /\ drain' = [drain EXCEPT ![t] = Rest(t)]
    /\ UNCHANGED <<disk, lock, world, asked, crashes>>

-----------------------------------------------------------------------------
(* The rest of the desk, the operator, the clock and deaths *)

\* mtime may lag the ledger's clock by one tick.
Drop(f, content) ==
    /\ ~file[f].present /\ drops < MaxDrops
    /\ \E m \in {now, IF now = 0 THEN 0 ELSE now - 1} :
         file' = [file EXCEPT ![f] = [content |-> content, mtime |-> m,
                                      bound |-> <<>>, present |-> TRUE]]
    /\ dropped' = [dropped EXCEPT ![f] = now]
    /\ drops' = drops + 1
    /\ UNCHANGED <<now, pos, done, error, asked, drain, lock, crashes, faults>>

Open(s) ==
    /\ Len(pos) < MaxPos /\ OpenRows(s) = {}
    /\ pos' = Append(pos, [symbol |-> s, at |-> now, open |-> TRUE, by |-> ""])
    /\ UNCHANGED <<disk, drain, lock, now, dropped, asked, drops, crashes, faults>>

CloseOther(p) ==
    /\ pos[p].open
    /\ Close({p}, "stop")
    /\ UNCHANGED <<disk, drain, lock, now, dropped, asked, drops, crashes, faults>>

Tick ==
    /\ now < MaxTime
    /\ now' = now + 1
    /\ UNCHANGED <<disk, drain, lock, pos, dropped, asked, drops, crashes, faults>>

Dies ==
    /\ crashes < MaxCrashes
    /\ crashes' = crashes + 1
    /\ drain' = [t \in Threads |-> Idle]
    /\ lock' = "free"
    /\ UNCHANGED <<disk, world, asked, faults>>

Drain(t) ==
    \/ BeginDrain(t) \/ EndDrain(t) \/ DropAnswered(t) \/ ReadRequest(t)
    \/ Bind(t) \/ Locate(t) \/ NoQuote(t) \/ Relocate(t) \/ Settle(t)
    \/ Numbers(t) \/ WriteDone(t) \/ Unlink(t) \/ Reject(t)

Fault(t) ==
    \/ SettleRaises(t) \/ SettleSkips(t) \/ WriteDoneFails(t)
    \/ FileRaises(t) \/ RejectRaises(t)

Next ==
    \/ \E t \in Threads : Drain(t) \/ Fault(t)
    \/ \E f \in Files, c \in Contents : Drop(f, c)
    \/ \E s \in Symbols : Open(s)
    \/ \E p \in DOMAIN pos : CloseOther(p)
    \/ Tick
    \/ Dies

Spec == Init /\ [][Next]_vars

\* The exit thread passes every few seconds and the main loop every cycle; a
\* step of a pass that can be taken is taken.
FairSpec == Spec /\ \A t \in Threads : WF_vars(Drain(t))
============================================================================
