---------------------------- MODULE BookAccount ----------------------------
(***************************************************************************)
(* What the paper book promises its owner, with no threads, no files and   *)
(* no crashes: one account and one round trip per position.                *)
(*                                                                         *)
(* A position pays its entry fee, is recorded, and is closed at most once. *)
(* Its close moves cash by gross P&L minus the exit fee in the same step   *)
(* that makes it closed.  Funding moves cash while something is held and   *)
(* is counted in held until a close realises it.  Nothing else moves the   *)
(* account: in particular no death of the process does.                    *)
(***************************************************************************)
EXTENDS Integers, FiniteSets

CONSTANTS Positions, Capital, EntryFee, ExitFee, Gross

VARIABLES
  stage,     \* "new", "paid", "open" or "closed", per position
  cash,      \* contributed capital, fills, funding and closes
  realised,  \* closed net P&L
  held       \* funding taken from cash and not yet realised

account == <<stage, cash, realised, held>>

Init ==
  /\ stage = [p \in Positions |-> "new"]
  /\ cash = Capital
  /\ realised = 0
  /\ held = 0

PayEntry(p) ==
  /\ stage[p] = "new"
  /\ stage' = [stage EXCEPT ![p] = "paid"]
  /\ cash' = cash - EntryFee
  /\ UNCHANGED <<realised, held>>

RecordPosition(p) ==
  /\ stage[p] = "paid"
  /\ stage' = [stage EXCEPT ![p] = "open"]
  /\ UNCHANGED <<cash, realised, held>>

\* Funding only moves between cash and held.
Fund ==
  /\ \E p \in Positions : stage[p] \in {"paid", "open"}
  /\ cash' + held' = cash + held
  /\ UNCHANGED <<stage, realised>>

\* The funding the close realises leaves held and enters realised P&L.
Close(p) ==
  /\ stage[p] = "open"
  /\ stage' = [stage EXCEPT ![p] = "closed"]
  /\ \E g \in Gross :
       /\ cash' = cash + g - ExitFee
       /\ realised' = realised + g - ExitFee - EntryFee + (held' - held)

Next ==
  \/ \E p \in Positions : PayEntry(p) \/ RecordPosition(p) \/ Close(p)
  \/ Fund

Spec == Init /\ [][Next]_account

\* The identity replay_events documents for a book with open positions.
Identity ==
  cash = Capital + realised - held
           - EntryFee * Cardinality({p \in Positions : stage[p] \in {"paid", "open"}})
===========================================================================
