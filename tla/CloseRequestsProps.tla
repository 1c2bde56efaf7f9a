------------------------ MODULE CloseRequestsProps -------------------------
(***************************************************************************)
(* What a dropped request may rely on.                                     *)
(***************************************************************************)
EXTENDS CloseRequests

WorldOK == now \in 0..MaxTime /\ pos \in Seq(Position) /\ Len(pos) <= MaxPos

\* Types: answers are lists of items about known ids, and the thread that is
\* inside a drain is the one that holds the drain lock.
TypeOK ==
    /\ WorldOK
    /\ \A f \in Files :
         /\ file[f].bound \in Seq(Target)
         /\ \A i \in DOMAIN done[f] : done[f][i].id \in Ids \cup {None}
    /\ error \subseteq Files
    /\ \A t \in Threads : drain[t].pc # "idle" <=> lock = t
    /\ \A f \in Files : asked[f] \subseteq Target

\* A symbol request asks for one position of a symbol, however often it is
\* retried after deaths and failed writes and whatever was opened meanwhile
\* (_attach_symbol_bindings is saved before anything is settled).
OnePositionPerSymbol ==
    \A f \in Files : \A x, y \in asked[f] :
        x.symbol # "any" /\ x.symbol = y.symbol => x.id = y.id

\* The positions a step closes by hand, and the thread that settles a target.
ClosedByHand == {p \in DOMAIN pos : pos[p].open /\ ~pos'[p].open /\ pos'[p].by = "manual"}
Settling(t) == At(t, "settle")
BySymbol(t) == Head(drain[t].targets).symbol # "any"
InTime(t, p) == pos[p].at <= dropped[Current(t)] + Slack

\* What a settlement really closes.  It is the position located for the request,
\* and for a symbol one opened no more than Slack after the drop, however late
\* the request is first read or read again.  Or it is a newer position of the
\* symbol, since _settle_paper_exit goes by symbol (engine.py:2319); but that
\* only when the located one, which the second look found open, was closed by
\* something else before the settlement.
LaterCloseNeedsARace ==
    [][\A p \in ClosedByHand : \E t \in Threads :
          /\ Settling(t)
          /\ \/ p = drain[t].id /\ (BySymbol(t) => InTime(t, p))
             \/ /\ drain[t].id < p /\ pos[drain[t].id].symbol = pos[p].symbol
                /\ ~pos[drain[t].id].open]_vars

\* The promise without the gap.  paper_close_requests.py:600: "A symbol binding
\* must not close a position opened after the request."
LaterPositionsSurvive ==
    [][\A p \in ClosedByHand, t \in Threads :
          Settling(t) /\ BySymbol(t) => InTime(t, p)]_vars

\* A .done file is true: an item that says closed or already_closed names a
\* position that is closed, and closed ones were closed by hand.
AnswersAreTrue ==
    \A f \in Files : \A i \in DOMAIN done[f] :
        LET item == done[f][i] IN
        /\ item.status \in {"closed", "already_closed"} => ~pos[item.id].open
        /\ item.status = "closed" => pos[item.id].by = "manual"

\* A .done file is written once: no later pass of either thread, no retry and
\* no second request of the same name replaces the answers in it, or asks for
\* a settlement under its name.
AnswerStands ==
    [][\A f \in Files : done[f] # NoAnswer =>
          /\ done'[f] = done[f]
          /\ asked'[f] \subseteq asked[f]]_vars

\* Every request dropped is taken out of the directory in the end, through
\* deaths, failed writes and skipped passes.
EveryRequestLeaves ==
    \A f \in Files : file[f].present ~> ~file[f].present

\* Only a request that is not valid JSON, or not of the documented shape,
\* becomes .error (paper_close_requests.py:14-15).
OnlyBadRequestsAreRejected ==
    [][\A f \in error' \ error : file[f].content = Bad]_vars

-----------------------------------------------------------------------------
(* The inductive invariant behind the safety properties. *)

Steps == {"idle", "next", "bind", "target", "quote", "settle", "numbers",
          "unlink", "reject", "unlink_error"}
Item == [id : Ids \cup {None},
         status : {"not_found", "already_closed", "opened_after_request", "error", "closed"}]
Session == [pc : Steps, todo : Seq(Files), targets : Seq(Target), items : Seq(Item),
            id : Ids \cup {None}, closed : BOOLEAN]
Request == [content : Contents \cup {Bad}, mtime : Nat, bound : Seq(Target),
            present : BOOLEAN]

Closed(p, id) == id \in DOMAIN p /\ ~p[id].open

\* An item is true of the ledger p.
ItemTrue(item, p) ==
    /\ item.id \in Ids \cup {None}
    /\ item.status \in {"closed", "already_closed"} => Closed(p, item.id)
    /\ item.status = "closed" => p[item.id].by = "manual"

\* A binding of a request dropped at d: it is not older than the request, and
\* says already_closed of a closed position only.
BindingOK(x, d, p) ==
    /\ x.mtime <= d /\ (x.absent = "" => x.bound)
    /\ x.absent = "already_closed" => Closed(p, x.id)

\* A settlement that was asked for is one the bindings in the file name.
AskedOK(x, r) == x.symbol = "any" \/ x \in Range(r.bound)

\* A request r dropped at d, with the settlements a asked for under its name.
RequestOK(r, d, a, p) ==
    /\ r \in Request /\ d \in Nat /\ a \subseteq Target
    /\ ~r.present => r = NoFile /\ a = {}
    /\ r.bound = <<>> => r.mtime <= d
    /\ \A x \in Range(r.bound) : BindingOK(x, d, p)
    /\ \A x, y \in Range(r.bound) : x.symbol = y.symbol => x.id = y.id
    /\ \A x \in a : AskedOK(x, r)

\* A thread that works on request r, whose .done file is y.
WorkOK(s, r, y, p) ==
    /\ r.content # Bad /\ y = NoAnswer
    /\ s.pc = "bind" => r.bound = <<>> /\ r.content.symbols # <<>>
    /\ s.pc # "bind" =>
         \A x \in Range(s.targets) :
            (x.symbol = "any" /\ x.absent = "") \/ x \in Range(r.bound)
    /\ \A item \in Range(s.items) : ItemTrue(item, p)
    /\ s.pc \in {"quote", "settle", "numbers"} => s.targets # <<>>
    /\ s.pc \in {"settle", "numbers"} => s.id \in DOMAIN p
    /\ s.pc = "settle" =>
         LET x == Head(s.targets)
         IN  s.id = x.id /\ (x.symbol # "any" => p[x.id].at <= x.mtime + Slack)

SessionOK(s, fl, dn, p) ==
    /\ s \in Session
    /\ s.pc \notin {"idle", "next"} => s.todo # <<>>
    /\ s.pc = "next" => s.items = <<>>
    /\ s.pc \in {"bind", "target", "quote", "settle", "numbers"} =>
         WorkOK(s, fl[Head(s.todo)], dn[Head(s.todo)], p)

IInv ==
    /\ WorldOK /\ error \subseteq Files /\ lock \in Threads \cup {"free"}
    /\ file = [f \in Files |-> file[f]] /\ done = [f \in Files |-> done[f]]
    /\ dropped = [f \in Files |-> dropped[f]] /\ asked = [f \in Files |-> asked[f]]
    /\ drain = [t \in Threads |-> drain[t]]
    /\ \A f \in Files : RequestOK(file[f], dropped[f], asked[f], pos)
    /\ \A f \in Files : \A i \in DOMAIN done[f] : ItemTrue(done[f][i], pos)
    /\ \A t \in Threads : SessionOK(drain[t], file, done, pos)
    /\ \A t \in Threads : drain[t].pc # "idle" <=> lock = t

\* Of the positions of a symbol only the latest can be open.  (A second
\* invariant, kept by every step that keeps the first.)
NewestOpen ==
    \A p, q \in DOMAIN pos : p < q /\ pos[p].symbol = pos[q].symbol => ~pos[p].open
============================================================================
