----------------------------- MODULE KillSwitch -----------------------------
(***************************************************************************)
(* The kill switch file, at the grain of its file operations.  Two writers *)
(* share it: the desk (a mismatch or a drawdown trips it) and the operator *)
(* (the web view and the reset script, which run in other processes).      *)
(*                                                                         *)
(* _write opens killswitch.tmp, which truncates it, writes, and renames it *)
(* over killswitch.json.  Both writers use the same temporary name, so     *)
(* files are inodes here: a writer that opened the temporary file keeps    *)
(* writing into it after the other has renamed it.                         *)
(***************************************************************************)
EXTENDS Naturals, FiniteSets

CONSTANTS
  Desk, Operator,  \* the writers
  Inodes,          \* files that can exist at once
  None             \* no file

Writers == {Desk, Operator}

Clear == "clear"  \* KillSwitchState()
Torn  == "torn"   \* truncated, or one document written over a longer one

ASSUME FilesAssumption ==
  /\ Desk # Operator
  /\ IsFiniteSet(Inodes) /\ Cardinality(Inodes) = 4 /\ None \notin Inodes
  /\ {Clear, Torn} \cap Writers = {}

VARIABLES
  file,       \* the inode killswitch.json names
  temp,       \* the inode killswitch.tmp names
  data,       \* content of each inode; a trip is known by who tripped
  wr,         \* what each writer is doing
  standing,   \* history: a trip was reported done, no reset began since
  overlapped  \* history: two writers were past their read at once

fileVars == <<file, temp, data>>
killVars == <<fileVars, wr, standing, overlapped>>

Contents == {Clear, Torn} \cup Writers
Writer == [job : {"none", "trip", "reset"},
           at : {"read", "open", "write", "move"}, fd : Inodes \cup {None}]
Idle == [job |-> "none", at |-> "read", fd |-> None]

\* read(): a missing or unreadable file is not tripped.
IsTripped == file # None /\ data[file] \in Writers

\* A writer that has read and will write; nothing keeps the other out.
Inside(w) == wr[w].at # "read"
OthersInside(w) == \E v \in Writers \ {w} : Inside(v)
Resetting == \E w \in Writers : wr[w].job = "reset"

KillInit ==
  /\ file = None /\ temp = None
  /\ data = [i \in Inodes |-> Torn]
  /\ wr = [w \in Writers |-> Idle]
  /\ standing = FALSE /\ overlapped = FALSE
---------------------------------------------------------------------------
BeginTrip(w) ==
  /\ wr[w].job = "none"
  /\ wr' = [wr EXCEPT ![w] = [Idle EXCEPT !.job = "trip"]]
  /\ UNCHANGED <<fileVars, standing, overlapped>>

\* reset() also reads, only to log what it clears.
BeginReset(w) ==
  /\ wr[w].job = "none"
  /\ wr' = [wr EXCEPT ![w] = [Idle EXCEPT !.job = "reset", !.at = "open"]]
  /\ standing' = FALSE
  /\ overlapped' = (overlapped \/ OthersInside(w))
  /\ UNCHANGED fileVars

\* Fault: a second trip writes over the first.
AlwaysWrites(w) ==
  /\ wr[w].job = "trip" /\ wr[w].at = "read"
  /\ wr' = [wr EXCEPT ![w].at = "open"]
  /\ UNCHANGED <<fileVars, standing, overlapped>>

\* trip() reads first, and keeps the cause of the first trip.
ReadBeforeTrip(w) ==
  /\ wr[w].job = "trip" /\ wr[w].at = "read"
  /\ IF IsTripped
     THEN /\ wr' = [wr EXCEPT ![w] = Idle] /\ standing' = ~Resetting
          /\ UNCHANGED overlapped
     ELSE /\ wr' = [wr EXCEPT ![w].at = "open"]
          /\ overlapped' = (overlapped \/ OthersInside(w))
          /\ UNCHANGED standing
  /\ UNCHANGED fileVars

Unused == Inodes \ ({file, temp} \cup {wr[w].fd : w \in Writers})

\* open(temp, "w"): created or truncated.
OpenTemp(w) ==
  /\ wr[w].at = "open"
  /\ LET i == IF temp # None THEN temp ELSE CHOOSE u \in Unused : TRUE
     IN /\ temp' = i /\ data' = [data EXCEPT ![i] = Torn]
        /\ wr' = [wr EXCEPT ![w].at = "write", ![w].fd = i]
  /\ UNCHANGED <<file, standing, overlapped>>

\* The text reaches the file; over the other writer's it may not parse.
WriteTemp(w) ==
  /\ wr[w].at = "write"
  /\ \E c \in {IF wr[w].job = "trip" THEN w ELSE Clear}
              \cup (IF data[wr[w].fd] = Torn THEN {} ELSE {Torn}) :
       data' = [data EXCEPT ![wr[w].fd] = c]
  /\ wr' = [wr EXCEPT ![w].at = "move"]
  /\ UNCHANGED <<file, temp, standing, overlapped>>

\* temp.replace(path): the switch changes here.
Replace(w) ==
  /\ wr[w].at = "move" /\ temp # None
  /\ file' = temp /\ temp' = None
  /\ standing' = IF wr[w].job = "trip" THEN ~Resetting ELSE standing
  /\ wr' = [wr EXCEPT ![w] = Idle]
  /\ UNCHANGED <<data, overlapped>>

\* The other writer has moved the file away: FileNotFoundError.
ReplaceRaises(w) ==
  /\ wr[w].at = "move" /\ temp = None
  /\ wr' = [wr EXCEPT ![w] = Idle]
  /\ UNCHANGED <<fileVars, standing, overlapped>>

\* The writer's process dies; what it wrote stays.
WriterDies(w) ==
  /\ wr' = [wr EXCEPT ![w] = Idle]
  /\ UNCHANGED <<fileVars, standing, overlapped>>
===========================================================================
