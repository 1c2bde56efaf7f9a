--------------------------- MODULE HaltLoopProofs ---------------------------
(***************************************************************************)
(* Proofs about the kill switch and the run loop, for any inodes, any      *)
(* number of entries, trips, resets and deaths.                            *)
(***************************************************************************)
EXTENDS HaltLoopProps, FiniteSetTheorems, TLAPS

\* The part of the invariant that speaks of the switch alone.
KillType ==
  /\ file \in Inodes \cup {None} /\ temp \in Inodes \cup {None}
  /\ data \in [Inodes -> Contents]
  /\ wr \in [Writers -> Writer]
  /\ standing \in BOOLEAN /\ overlapped \in BOOLEAN

KillInv == KillType /\ WriterShape /\ OneWriterInside /\ StandingInv

\* Four inodes are enough: the switch and the other writer's file leave one.
LEMMA AnInodeIsFree ==
  ASSUME NEW a, NEW b
  PROVE  Inodes \ {a, b} # {}
<1>1. IsFiniteSet({a}) /\ IsFiniteSet({b}) /\ Cardinality({a}) = 1 /\ Cardinality({b}) = 1
  BY FS_Singleton
<1>2. IsFiniteSet({a} \cup {b}) /\ Cardinality({a} \cup {b}) <= 2
  <2>1. IsFiniteSet({a} \cup {b})
        /\ Cardinality({a} \cup {b}) = IF b \in {a} THEN 1 ELSE 1 + 1
    BY <1>1, FS_AddElement
  <2> QED BY <2>1
<1>3. SUFFICES ASSUME Inodes \subseteq {a} \cup {b} PROVE FALSE
  OBVIOUS
<1>4. Cardinality(Inodes) <= 2
  <2>1. Inodes \in SUBSET ({a} \cup {b})
    BY <1>3
  <2>2. Cardinality(Inodes) <= Cardinality({a} \cup {b})
    BY <1>2, <2>1, FS_Subset
  <2>3. Cardinality({a} \cup {b}) \in Nat
    BY <1>2, FS_CardinalityType
  <2> QED BY <1>2, <2>2, <2>3, FilesAssumption
<1> QED BY <1>4, FilesAssumption

\* An idle writer has the type of a writer.
LEMMA IdleIsWriter == Idle \in Writer /\ None \notin Inodes
BY FilesAssumption DEF Idle, Writer

\* trip is called: nothing is read yet.
LEMMA BeginTripKeeps ==
  ASSUME KillInv, NEW w \in Writers, BeginTrip(w)
  PROVE  KillInv'
<1> USE IdleIsWriter DEF KillInv, KillType
<1>1. wr' = [wr EXCEPT ![w] = [Idle EXCEPT !.job = "trip"]] /\ wr' \in [Writers -> Writer]
  BY DEF BeginTrip, Idle, Writer
<1>2. /\ wr'[w] = [job |-> "trip", at |-> "read", fd |-> None]
      /\ wr[w] = [job |-> "none", at |-> "read", fd |-> None]
      /\ \A v \in Writers : v # w => wr'[v] = wr[v]
  BY <1>1 DEF Idle, WriterShape, BeginTrip
<1>3. UNCHANGED <<fileVars, standing, overlapped>>
  BY DEF BeginTrip
<1>4. \A v \in Writers : Inside(v)' <=> Inside(v)
  BY <1>2 DEF Inside
<1>5. IsTripped' <=> IsTripped
  BY <1>3 DEF IsTripped, fileVars
<1>6. Resetting' => Resetting
  BY <1>2 DEF Resetting
<1>7. KillType' /\ WriterShape'
  BY <1>1, <1>2, <1>3 DEF WriterShape, fileVars, Idle
<1>8. OneWriterInside'
  BY <1>2, <1>3, <1>4, <1>5 DEF OneWriterInside, fileVars, Inside
<1>9. StandingInv'
  BY <1>3, <1>4, <1>5, <1>6 DEF StandingInv
<1> QED BY <1>7, <1>8, <1>9

\* reset is called: from here on no trip stands.
LEMMA BeginResetKeeps ==
  ASSUME KillInv, NEW w \in Writers, BeginReset(w)
  PROVE  KillInv' /\ ~standing'
<1> USE IdleIsWriter DEF KillInv, KillType
<1>1. /\ wr' = [wr EXCEPT ![w] = [Idle EXCEPT !.job = "reset", !.at = "open"]]
      /\ wr' \in [Writers -> Writer]
  BY DEF BeginReset, Idle, Writer
<1>2. /\ wr'[w] = [job |-> "reset", at |-> "open", fd |-> None]
      /\ \A v \in Writers : v # w => wr'[v] = wr[v]
  BY <1>1 DEF Idle
<1>3. /\ UNCHANGED fileVars
      /\ standing' = FALSE /\ overlapped' = (overlapped \/ OthersInside(w))
  BY DEF BeginReset
<1>4. Inside(w)' /\ \A v \in Writers : v # w => (Inside(v)' <=> Inside(v))
  BY <1>2 DEF Inside
<1>5. IsTripped' <=> IsTripped
  BY <1>3 DEF IsTripped, fileVars
<1>6. ~overlapped' => ~overlapped /\ \A v \in Writers : v # w => ~Inside(v)
  BY <1>3 DEF OthersInside
<1>7. KillType' /\ WriterShape'
  BY <1>1, <1>2, <1>3 DEF WriterShape, fileVars, Idle
<1>8. OneWriterInside'
  BY <1>2, <1>3, <1>4, <1>5, <1>6 DEF OneWriterInside, fileVars, Inside
<1> QED BY <1>3, <1>7, <1>8 DEF StandingInv

\* trip reads the switch: it returns if it is tripped, else it goes on to write.
LEMMA ReadKeeps ==
  ASSUME KillInv, NEW w \in Writers, ReadBeforeTrip(w)
  PROVE  /\ KillInv' /\ wr[w].job # "none"
         /\ standing => standing'
         /\ overlapped => overlapped'
<1> USE IdleIsWriter DEF KillInv, KillType
<1>1. wr[w].job = "trip" /\ wr[w].at = "read" /\ UNCHANGED fileVars
      /\ wr[w] \in Writer /\ wr[w] = [job |-> "trip", at |-> "read", fd |-> None]
  BY DEF ReadBeforeTrip, WriterShape, Writer
<1>2. IsTripped' <=> IsTripped
  BY <1>1 DEF IsTripped, fileVars
<1>3. CASE IsTripped
  <2>1. /\ wr' = [wr EXCEPT ![w] = Idle] /\ standing' = ~Resetting
        /\ overlapped' = overlapped /\ wr' \in [Writers -> Writer]
    BY <1>3 DEF ReadBeforeTrip
  <2>2. wr'[w] = Idle /\ \A v \in Writers : v # w => wr'[v] = wr[v]
    BY <2>1
  <2>3. \A v \in Writers : Inside(v)' <=> Inside(v)
    BY <1>1, <2>2 DEF Inside, Idle
  <2>4. KillType' /\ WriterShape'
    BY <1>1, <2>1, <2>2 DEF WriterShape, fileVars, Idle
  <2>5. OneWriterInside'
    BY <1>1, <1>2, <2>1, <2>2, <2>3 DEF OneWriterInside, fileVars, Inside, Idle
  <2>6. Resetting' => Resetting
    BY <2>2 DEF Resetting, Idle
  <2>7. ~Resetting /\ ~overlapped => \A v \in Writers : ~Inside(v)
    <3> SUFFICES ASSUME ~Resetting, ~overlapped, NEW v \in Writers, Inside(v) PROVE FALSE
      OBVIOUS
    <3>1. wr[v].job = "trip"
      BY DEF Resetting, Inside, WriterShape, Idle, Writer
    <3> QED BY <1>3, <3>1 DEF OneWriterInside
  <2>8. StandingInv'
    BY <1>2, <1>3, <2>1, <2>3, <2>6, <2>7 DEF StandingInv
  <2>9. (standing => standing') /\ (overlapped => overlapped')
    BY <2>1 DEF StandingInv
  <2> QED BY <1>1, <2>4, <2>5, <2>8, <2>9
<1>4. CASE ~IsTripped
  <2>1. /\ wr' = [wr EXCEPT ![w].at = "open"] /\ standing' = standing
        /\ overlapped' = (overlapped \/ OthersInside(w))
    BY <1>4 DEF ReadBeforeTrip
  <2>2. /\ wr'[w] = [job |-> "trip", at |-> "open", fd |-> None]
        /\ \A v \in Writers : v # w => wr'[v] = wr[v]
    BY <1>1, <2>1
  <2>3. Inside(w)' /\ \A v \in Writers : v # w => (Inside(v)' <=> Inside(v))
    BY <2>2 DEF Inside
  <2>4. ~overlapped' => ~overlapped /\ \A v \in Writers : v # w => ~Inside(v)
    BY <2>1 DEF OthersInside
  <2>5. wr' \in [Writers -> Writer]
    BY <2>1, <2>2 DEF Writer
  <2>6. KillType' /\ WriterShape'
    BY <1>1, <2>1, <2>2, <2>5 DEF WriterShape, fileVars, Idle
  <2>7. OneWriterInside'
    BY <1>1, <1>2, <1>4, <2>2, <2>3, <2>4 DEF OneWriterInside, fileVars, Inside
  <2>8. Resetting' => Resetting
    BY <2>2 DEF Resetting
  <2>9. StandingInv'
    BY <1>2, <1>4, <2>1, <2>4, <2>8 DEF StandingInv
  <2>10. (standing => standing') /\ (overlapped => overlapped')
    BY <2>1
  <2> QED BY <1>1, <2>6, <2>7, <2>9, <2>10
<1> QED BY <1>3, <1>4

\* Opening the temporary file truncates it, and never the switch.
LEMMA OpenKeeps ==
  ASSUME KillInv, NEW w \in Writers, OpenTemp(w)
  PROVE  KillInv' /\ UNCHANGED <<standing, overlapped>> /\ wr[w].job # "none"
<1> USE IdleIsWriter DEF KillInv, KillType
<1>1. /\ wr[w].at = "open" /\ wr[w] \in Writer /\ wr[w].fd = None
      /\ wr[w].job \in {"trip", "reset"}
      /\ UNCHANGED <<file, standing, overlapped>>
  BY DEF OpenTemp, WriterShape, Writer, Idle
<1> DEFINE i == IF temp # None THEN temp ELSE CHOOSE u \in Unused : TRUE
<1>2. /\ temp' = i /\ data' = [data EXCEPT ![i] = Torn]
      /\ wr' = [wr EXCEPT ![w].at = "write", ![w].fd = i]
  BY Zenon DEF OpenTemp
<1>3. i \in Inodes /\ i # file
  <2>1. CASE temp # None
    BY <2>1 DEF WriterShape
  <2>2. CASE temp = None
    <3>1. PICK o \in Writers : Writers = {w, o}
      BY DEF Writers
    <3>2. Unused = Inodes \ {file, wr[o].fd}
      BY <1>1, <2>2, <3>1 DEF Unused
    <3>3. Unused # {}
      BY <3>2, AnInodeIsFree
    <3> QED BY <2>2, <3>3 DEF Unused
  <2> QED BY <2>1, <2>2
<1> HIDE DEF i
<1>4. /\ wr'[w] = [job |-> wr[w].job, at |-> "write", fd |-> i]
      /\ \A v \in Writers : v # w => wr'[v] = wr[v]
  BY <1>1, <1>2 DEF Writer
<1>5. wr' \in [Writers -> Writer] /\ data' \in [Inodes -> Contents]
  BY <1>1, <1>2, <1>3, <1>4 DEF Writer, Contents
<1>6. data'[i] = Torn /\ \A j \in Inodes : j # i => data'[j] = data[j]
  BY <1>2, <1>3
<1>7. Inside(w) /\ \A v \in Writers : Inside(v)' <=> Inside(v)
  BY <1>1, <1>4 DEF Inside
<1>8. IsTripped' <=> IsTripped
  BY <1>1, <1>3, <1>6 DEF IsTripped
<1>9. KillType' /\ WriterShape'
  BY <1>1, <1>2, <1>3, <1>4, <1>5 DEF WriterShape, Idle
<1>10. OneWriterInside'
  BY <1>1, <1>2, <1>4, <1>6, <1>7, <1>8 DEF OneWriterInside, Inside
<1>11. StandingInv'
  BY <1>1, <1>4, <1>7, <1>8 DEF StandingInv, Resetting
<1> QED BY <1>1, <1>4, <1>9, <1>10, <1>11

\* The text goes into the temporary file, all of it when nobody else writes there.
LEMMA WriteKeeps ==
  ASSUME KillInv, NEW w \in Writers, WriteTemp(w)
  PROVE  KillInv' /\ UNCHANGED <<standing, overlapped>> /\ wr[w].job # "none"
<1> USE IdleIsWriter DEF KillInv, KillType
<1>1. /\ wr[w].at = "write" /\ wr[w] \in Writer /\ wr[w].fd \in Inodes
      /\ wr[w].job \in {"trip", "reset"}
      /\ UNCHANGED <<file, temp, standing, overlapped>>
  BY DEF WriteTemp, WriterShape, Writer, Idle
<1>2. PICK c \in {IF wr[w].job = "trip" THEN w ELSE Clear}
                 \cup (IF data[wr[w].fd] = Torn THEN {} ELSE {Torn}) :
        data' = [data EXCEPT ![wr[w].fd] = c]
  BY DEF WriteTemp
<1>3. wr' = [wr EXCEPT ![w].at = "move"]
  BY DEF WriteTemp
<1>4. /\ wr'[w] = [job |-> wr[w].job, at |-> "move", fd |-> wr[w].fd]
      /\ \A v \in Writers : v # w => wr'[v] = wr[v]
  BY <1>1, <1>3 DEF Writer
<1>5. wr' \in [Writers -> Writer] /\ data' \in [Inodes -> Contents]
  BY <1>1, <1>2, <1>3, <1>4 DEF Writer, Contents
<1>6. data'[wr[w].fd] = c /\ \A j \in Inodes : j # wr[w].fd => data'[j] = data[j]
  BY <1>1, <1>2
<1>7. Inside(w) /\ \A v \in Writers : Inside(v)' <=> Inside(v)
  BY <1>1, <1>4 DEF Inside
<1>8. ~overlapped => /\ temp = wr[w].fd /\ file # temp
                     /\ wr[w].job = "trip" => c = w
  BY <1>1, <1>2 DEF OneWriterInside, WriterShape
<1>9. ~overlapped => (IsTripped' <=> IsTripped)
  BY <1>1, <1>6, <1>8 DEF IsTripped
<1>10. KillType' /\ WriterShape'
  BY <1>1, <1>4, <1>5 DEF WriterShape, Idle
<1>11. OneWriterInside'
  BY <1>1, <1>4, <1>6, <1>7, <1>8, <1>9 DEF OneWriterInside, Inside
<1>12. StandingInv'
  BY <1>1, <1>4, <1>7, <1>9 DEF StandingInv, Resetting
<1> QED BY <1>1, <1>4, <1>10, <1>11, <1>12

\* The rename is where a trip begins to stand.
LEMMA ReplaceKeeps ==
  ASSUME KillInv, NEW w \in Writers, Replace(w)
  PROVE  KillInv' /\ (standing => standing') /\ overlapped' = overlapped
         /\ wr[w].job # "none"
<1> USE IdleIsWriter DEF KillInv, KillType
<1>1. /\ wr[w].at = "move" /\ temp # None /\ wr[w] \in Writer
      /\ wr[w].job \in {"trip", "reset"}
      /\ file' = temp /\ temp' = None /\ UNCHANGED <<data, overlapped>>
      /\ standing' = IF wr[w].job = "trip" THEN ~Resetting ELSE standing
      /\ wr' = [wr EXCEPT ![w] = Idle]
  BY DEF Replace, WriterShape, Writer, Idle
<1>2. wr'[w] = Idle /\ \A v \in Writers : v # w => wr'[v] = wr[v]
  BY <1>1
<1>3. ~Inside(w)' /\ \A v \in Writers : v # w => (Inside(v)' <=> Inside(v))
  BY <1>2 DEF Inside, Idle
<1>4. ~overlapped => \A v \in Writers : ~Inside(v)'
  BY <1>1, <1>3 DEF OneWriterInside, Inside
<1>5. KillType' /\ WriterShape'
  BY <1>1, <1>2 DEF WriterShape, Idle
<1>6. OneWriterInside'
  BY <1>1, <1>2, <1>4 DEF OneWriterInside, Inside, Idle
<1>7. wr[w].job = "reset" => ~standing
  BY DEF StandingInv, Resetting
<1>8. Resetting' => Resetting
  BY <1>2 DEF Resetting, Idle
<1>9. ~overlapped /\ wr[w].job = "trip" => IsTripped'
  BY <1>1 DEF OneWriterInside, IsTripped, Inside
<1>10. StandingInv'
  BY <1>1, <1>4, <1>7, <1>8, <1>9 DEF StandingInv
<1> QED BY <1>1, <1>5, <1>6, <1>7, <1>10 DEF StandingInv

\* A rename that raises and a death do the same to the switch: nothing.
LEMMA GoingIdleKeeps ==
  ASSUME KillInv, NEW w \in Writers, wr' = [wr EXCEPT ![w] = Idle],
         UNCHANGED <<fileVars, standing, overlapped>>
  PROVE  KillInv'
<1> USE IdleIsWriter DEF KillInv, KillType
<1>1. wr'[w] = Idle /\ \A v \in Writers : v # w => wr'[v] = wr[v]
  OBVIOUS
<1>2. \A v \in Writers : Inside(v)' => Inside(v)
  BY <1>1 DEF Inside, Idle
<1>3. Resetting' => Resetting
  BY <1>1 DEF Resetting, Idle
<1>4. IsTripped' <=> IsTripped
  BY DEF IsTripped, fileVars
<1>5. KillType' /\ WriterShape'
  BY <1>1 DEF WriterShape, Idle, fileVars
<1>6. OneWriterInside'
  BY <1>1, <1>2, <1>4 DEF OneWriterInside, fileVars, Inside, Idle
<1>7. StandingInv'
  BY <1>2, <1>3, <1>4 DEF StandingInv
<1> QED BY <1>5, <1>6, <1>7
---------------------------------------------------------------------------
(* The run loop. *)

\* The part of the type invariant that speaks of the loop and the book.
LoopType ==
  /\ stage \in Stages
  /\ checked \in BOOLEAN /\ blocked \in BOOLEAN /\ shutdown \in BOOLEAN
  /\ open \in Nat /\ orphan \in Nat /\ due \in 0 .. open
  /\ late \in Nat /\ fills \in Nat /\ ops \in Nat /\ troubles \in Nat

\* The invariant in the parts the lemmas work on.
LEMMA Parts == IInv <=> KillInv /\ LoopType /\ LateInv /\ LoopInv
BY DEF IInv, TypeOK, KillInv, KillType, LoopType

\* The same for the next state.
LEMMA Whole ==
  ASSUME KillInv', LoopType', LateInv', LoopInv'
  PROVE  IInv'
BY DEF IInv, TypeOK, KillInv, KillType, LoopType

\* Steps that leave the switch alone.
LEMMA QuietSwitch ==
  ASSUME KillInv, UNCHANGED killVars
  PROVE  KillInv' /\ (IsTripped' <=> IsTripped)
BY DEF KillInv, KillType, killVars, fileVars, WriterShape, OneWriterInside,
       StandingInv, Inside, Resetting, IsTripped

\* A missing switch, no process running and an empty book.
LEMMA InitHolds == Init => IInv
<1> SUFFICES ASSUME Init PROVE IInv
  OBVIOUS
<1> USE IdleIsWriter DEF Init, KillInit
<1>1. KillType
  BY DEF KillType, Contents
<1>2. \A w \in Writers : wr[w] = Idle /\ ~Inside(w)
  BY DEF Inside, Idle
<1>3. WriterShape /\ OneWriterInside /\ StandingInv
  BY <1>2 DEF WriterShape, OneWriterInside, StandingInv, Inside, Idle, Resetting
<1>4. stage \in Stages /\ LoopInv
  BY <1>2 DEF LoopInv, Stages, Writers, Idle
<1>5. open \in Nat /\ due \in 0 .. open /\ late \in Nat /\ LateInv
  BY DEF LateInv
<1>6. LoopType
  BY <1>4, <1>5 DEF LoopType
<1> QED BY <1>1, <1>3, <1>4, <1>5, <1>6, Parts DEF KillInv

\* A start, a death and SIGTERM.
LEMMA ProcessKeeps ==
  ASSUME IInv, Start \/ Dies \/ RequestShutdown
  PROVE  IInv'
<1>0. KillInv /\ LoopType /\ LateInv /\ LoopInv
  BY Parts
<1>1. CASE Start
  <2>1. KillInv'
    BY <1>0, <1>1, QuietSwitch DEF Start
  <2>2. LoopType'
    BY <1>0, <1>1 DEF Start, LoopType, GoTo, Stages
  <2>3. LateInv' /\ LoopInv'
    BY <1>0, <1>1 DEF Start, LateInv, LoopInv, GoTo, killVars
  <2> QED BY <2>1, <2>2, <2>3, Whole
<1>2. CASE Dies
  <2>1. /\ wr' = [wr EXCEPT ![Desk] = Idle] /\ Desk \in Writers
        /\ UNCHANGED <<fileVars, standing, overlapped>>
    BY <1>0, <1>2 DEF Dies, WriterDies, Writers
  <2>2. KillInv'
    BY <1>0, <2>1, GoingIdleKeeps
  <2>3. wr'[Desk].job = "none"
    BY <1>0, <2>1 DEF KillInv, KillType, Idle
  <2>4. stage' = "down" /\ stage' \in Stages /\ LoopInv'
    BY <1>2, <2>3 DEF Dies, GoTo, Stages, LoopInv
  <2>5. /\ checked' = FALSE /\ troubles' = troubles + 1
        /\ UNCHANGED <<blocked, open, due, orphan, shutdown, late, fills, ops>>
    BY <1>2 DEF Dies, bookVars
  <2>6. LoopType'
    <3>1. troubles' \in Nat
      BY <1>0, <2>5 DEF LoopType
    <3> QED BY <1>0, <2>4, <2>5, <3>1 DEF LoopType
  <2>7. LateInv'
    BY <1>0, <2>1, <2>5 DEF LoopType, LateInv
  <2> QED BY <2>2, <2>4, <2>6, <2>7, Whole
<1>3. CASE RequestShutdown
  <2>1. KillInv'
    BY <1>0, <1>3, QuietSwitch DEF RequestShutdown
  <2>2. LoopType'
    BY <1>0, <1>3 DEF RequestShutdown, LoopType, bookVars
  <2>3. LateInv' /\ LoopInv'
    BY <1>0, <1>3 DEF RequestShutdown, LateInv, LoopInv, killVars, bookVars
  <2> QED BY <2>1, <2>2, <2>3, Whole
<1> QED BY <1>1, <1>2, <1>3

\* An entry: the check reads the switch, so none is checked while a trip
\* stands, and the one that was is the one late fill.
LEMMA EntryKeeps ==
  ASSUME IInv, CheckEntry \/ DrawdownTrip \/ PlaceOrder
  PROVE  IInv'
<1>0. KillInv /\ LoopType /\ LateInv /\ LoopInv
  BY Parts
<1>1. CASE CheckEntry
  <2>1. KillInv'
    BY <1>0, <1>1, QuietSwitch DEF CheckEntry
  <2>2. LoopType'
    BY <1>0, <1>1 DEF CheckEntry, LoopType, bookVars
  <2>3. LateInv'
    BY <1>0, <1>1 DEF CheckEntry, LateInv, killVars, KillInv, StandingInv
  <2>4. LoopInv'
    BY <1>0, <1>1 DEF CheckEntry, LoopInv, MainFree, killVars, bookVars
  <2> QED BY <2>1, <2>2, <2>3, <2>4, Whole
<1>2. CASE DrawdownTrip
  <2>1. Desk \in Writers /\ BeginTrip(Desk) /\ UNCHANGED loopVars
    BY <1>0, <1>2 DEF DrawdownTrip, Writers
  <2>2. KillInv'
    BY <1>0, <2>1, BeginTripKeeps
  <2>3. LoopType' /\ LateInv'
    BY <1>0, <2>1 DEF LoopType, LateInv, loopVars, bookVars, BeginTrip
  <2>4. LoopInv'
    BY <1>0, <1>2, <2>1 DEF DrawdownTrip, LoopInv, loopVars, bookVars, MainFree
  <2> QED BY <2>2, <2>3, <2>4, Whole
<1>3. CASE PlaceOrder
  <2>1. KillInv'
    BY <1>0, <1>3, QuietSwitch DEF PlaceOrder
  <2>2. LoopType'
    <3>1. stage' \in Stages
      BY <1>0, <1>3 DEF PlaceOrder, LoopType, Stages
    <3>2. /\ checked' = FALSE /\ fills' = fills + 1 /\ late' \in {late, late + 1}
          /\ open' \in {open, open + 1} /\ orphan' \in {orphan, orphan + 1}
          /\ troubles' \in {troubles, troubles + 1} /\ UNCHANGED <<blocked, due, shutdown, ops>>
      BY <1>3 DEF PlaceOrder
    <3>3. open' \in Nat /\ orphan' \in Nat /\ due' \in 0 .. open'
      BY <1>0, <3>2 DEF LoopType
    <3>4. late' \in Nat /\ fills' \in Nat /\ troubles' \in Nat
      BY <1>0, <3>2 DEF LoopType
    <3> QED BY <1>0, <3>1, <3>2, <3>3, <3>4 DEF LoopType
  <2>3. LateInv'
    BY <1>0, <1>3 DEF PlaceOrder, LateInv, killVars, LoopType
  <2>4. LoopInv'
    BY <1>0, <1>3 DEF PlaceOrder, LoopInv, killVars
  <2> QED BY <2>1, <2>2, <2>3, <2>4, Whole
<1> QED BY <1>1, <1>2, <1>3

\* Exits and the passing of time move the book and nothing else.
LEMMA ExitKeeps ==
  ASSUME IInv, ExitThread \/ Expire \/ WaitSlice
  PROVE  IInv'
<1>0. KillInv /\ LoopType /\ LateInv /\ LoopInv
  BY Parts
<1>1. KillInv'
  BY <1>0, QuietSwitch DEF ExitThread, Expire, WaitSlice
<1>2. LoopType'
  BY <1>0 DEF ExitThread, Expire, WaitSlice, CloseSome, LoopType
<1>3. LateInv' /\ LoopInv'
  BY <1>0 DEF ExitThread, Expire, WaitSlice, CloseSome, LateInv, LoopInv, killVars, At
<1> QED BY <1>1, <1>2, <1>3, Whole

\* One step of the cycle.  Only AfterCycle needs the book: whichever copy it
\* could read, it goes to "closing" when both are empty.
LEMMA MainKeeps ==
  ASSUME IInv, Main
  PROVE  IInv'
<1>0. KillInv /\ LoopType /\ LateInv /\ LoopInv
  BY Parts
<1>1. UNCHANGED killVars /\ MainFree /\ UNCHANGED <<checked, shutdown, late>>
  BY <1>0 DEF Main, HotPollEnds, EntryGate, ReconcilePasses, CycleExits, ScanEnds,
         AfterCycle, WaitEnds, Leave, At
<1>2. KillInv' /\ LateInv'
  BY <1>0, <1>1, QuietSwitch DEF LateInv, killVars
<1>3. LoopType'
  <2>1. stage' \in Stages
    BY DEF Main, HotPollEnds, EntryGate, ReconcilePasses, CycleExits, ScanEnds,
           AfterCycle, WaitEnds, Leave, GoTo, Stages
  <2>2. blocked' \in BOOLEAN
    BY <1>0 DEF Main, HotPollEnds, EntryGate, ReconcilePasses, CycleExits, ScanEnds,
                AfterCycle, WaitEnds, Leave, LoopType, IsTripped
  <2>3. /\ open' \in Nat /\ orphan' \in Nat /\ due' \in 0 .. open'
        /\ UNCHANGED <<fills, ops, troubles>>
    <3>1. CASE CycleExits
      BY <1>0, <3>1 DEF CycleExits, CloseSome, LoopType
    <3>2. CASE ~CycleExits
      BY <1>0, <3>2 DEF Main, HotPollEnds, EntryGate, ReconcilePasses, ScanEnds,
                        AfterCycle, WaitEnds, Leave, LoopType, bookVars
    <3> QED BY <3>1, <3>2
  <2> QED BY <1>0, <1>1, <2>1, <2>2, <2>3 DEF LoopType
<1>4. stage' = "closing" => shutdown' \/ (open' = 0 /\ orphan' = 0)
  <2>1. CASE AfterCycle
    BY <1>0, <2>1 DEF AfterCycle, GoTo, ExposureCount, Bigger, LoopType, bookVars
  <2>2. CASE ~AfterCycle
    BY <1>0, <2>2 DEF Main, HotPollEnds, EntryGate, ReconcilePasses, CycleExits, ScanEnds,
                WaitEnds, Leave, GoTo
  <2> QED BY <2>1, <2>2, Whole
<1>5. LoopInv'
  BY <1>0, <1>1, <1>4 DEF LoopInv, MainFree, killVars
<1> QED BY <1>2, <1>3, <1>5, Whole

\* The desk trips: from its check of a drawdown, or from reconciliation.
LEMMA DeskTripKeeps ==
  ASSUME IInv, ReconcileTrips \/ DeskTrips \/ DeskTripRaises
  PROVE  IInv'
<1>0. KillInv /\ LoopType /\ LateInv /\ LoopInv
  BY Parts
<1>d. Desk \in Writers
  BY DEF Writers
<1>1. CASE ReconcileTrips
  <2>1. BeginTrip(Desk) /\ UNCHANGED loopVars
    BY <1>0, <1>1 DEF ReconcileTrips
  <2>2. KillInv'
    BY <1>0, <1>d, <2>1, BeginTripKeeps
  <2>3. LoopType' /\ LateInv'
    BY <1>0, <2>1 DEF LoopType, LateInv, loopVars, bookVars, BeginTrip
  <2>4. LoopInv'
    BY <1>0, <1>1, <2>1 DEF ReconcileTrips, LoopInv, loopVars, bookVars, At, MainFree
  <2> QED BY <2>2, <2>3, <2>4, Whole
<1>2. CASE DeskTrips
  <2>1. /\ KillInv' /\ (standing => standing') /\ (overlapped => overlapped')
        /\ wr[Desk].job # "none"
    <3> USE <1>0, <1>d
    <3>1. CASE ReadBeforeTrip(Desk)
      BY <3>1, ReadKeeps
    <3>2. CASE OpenTemp(Desk)
      BY <3>2, OpenKeeps
    <3>3. CASE WriteTemp(Desk)
      BY <3>3, WriteKeeps
    <3>4. CASE Replace(Desk)
      BY <3>4, ReplaceKeeps
    <3> QED BY <1>2, <3>1, <3>2, <3>3, <3>4 DEF DeskTrips
  <2>2. LoopType'
    BY <1>0, <1>2 DEF DeskTrips, AfterTrip, LoopType, bookVars, Stages
  <2>3. stage \in {"poll", "scan", "wait", "reconcile"} /\ ~checked
    BY <1>0, <2>1 DEF LoopInv, LoopType
  <2>4. LateInv'
    BY <1>0, <1>2, <2>1, <2>3 DEF DeskTrips, LateInv, LoopType
  <2>5. LoopInv'
    BY <1>0, <1>2, <2>3 DEF DeskTrips, AfterTrip, LoopInv
  <2> QED BY <2>1, <2>2, <2>4, <2>5, Whole
<1>3. CASE DeskTripRaises
  <2>1. KillInv' /\ wr[Desk].job # "none" /\ wr'[Desk].job = "none"
    BY <1>0, <1>d, <1>3, GoingIdleKeeps
    DEF DeskTripRaises, ReplaceRaises, KillInv, KillType, WriterShape, Idle
  <2>2. LoopType'
    BY <1>0, <1>3 DEF DeskTripRaises, AfterRaise, GoTo, LoopType, bookVars, Stages
  <2>3. stage \in {"poll", "scan", "wait", "reconcile"} /\ ~checked
    BY <1>0, <2>1 DEF LoopInv, LoopType
  <2>4. LateInv' /\ LoopInv'
    BY <1>0, <1>3, <2>1, <2>3 DEF DeskTripRaises, ReplaceRaises, AfterRaise, GoTo, LateInv, LoopInv
  <2> QED BY <2>1, <2>2, <2>4, Whole
<1> QED BY <1>1, <1>2, <1>3

\* The operator trips and resets from another process, and may die there.
LEMMA OperatorKeeps ==
  ASSUME IInv, OperatorBegins \/ OperatorWrites \/ OperatorDies
  PROVE  IInv'
<1>0. KillInv /\ LoopType /\ LateInv /\ LoopInv
  BY Parts
<1>d. Operator \in Writers /\ Desk \in Writers /\ Desk # Operator
  BY FilesAssumption DEF Writers
<1>1. CASE OperatorBegins
  <2>1. KillInv' /\ wr'[Desk] = wr[Desk]
    <3>1. CASE BeginTrip(Operator)
      BY <1>0, <1>d, <3>1, BeginTripKeeps DEF BeginTrip, KillInv, KillType
    <3>2. CASE BeginReset(Operator)
      BY <1>0, <1>d, <3>2, BeginResetKeeps DEF BeginReset, KillInv, KillType
    <3> QED BY <1>1, <3>1, <3>2 DEF OperatorBegins
  <2>2. LoopType'
    BY <1>0, <1>1 DEF OperatorBegins, LoopType, bookVars
  <2>3. LateInv'
    <3>1. CASE BeginTrip(Operator) /\ UNCHANGED late
      BY <1>0, <1>1, <3>1 DEF OperatorBegins, BeginTrip, LateInv
    <3>2. CASE BeginReset(Operator) /\ late' = 0
      BY <1>0, <1>1, <3>2 DEF BeginReset, LateInv
    <3> QED BY <1>1, <3>1, <3>2 DEF OperatorBegins
  <2>4. LoopInv'
    BY <1>0, <1>1, <2>1 DEF OperatorBegins, LoopInv, bookVars
  <2> QED BY <2>1, <2>2, <2>3, <2>4, Whole
<1>2. CASE OperatorWrites
  <2>1. /\ KillInv' /\ (standing => standing') /\ (overlapped => overlapped')
        /\ wr'[Desk] = wr[Desk]
    <3> USE <1>0, <1>d DEF KillInv, KillType
    <3>1. CASE ReadBeforeTrip(Operator)
      BY <3>1, ReadKeeps DEF ReadBeforeTrip
    <3>2. CASE OpenTemp(Operator)
      <4>1. wr'[Desk] = wr[Desk]
        BY <3>2, Zenon DEF OpenTemp
      <4> QED BY <3>2, <4>1, OpenKeeps
    <3>3. CASE WriteTemp(Operator)
      BY <3>3, WriteKeeps DEF WriteTemp
    <3>4. CASE Replace(Operator)
      BY <3>4, ReplaceKeeps DEF Replace
    <3>5. CASE ReplaceRaises(Operator)
      BY <3>5, GoingIdleKeeps DEF ReplaceRaises
    <3> QED BY <1>2, <3>1, <3>2, <3>3, <3>4, <3>5 DEF OperatorWrites
  <2>2. UNCHANGED loopVars
    BY <1>2 DEF OperatorWrites
  <2>3. LoopType' /\ LoopInv'
    BY <1>0, <2>1, <2>2 DEF LoopType, LoopInv, loopVars, bookVars
  <2>4. LateInv'
    BY <1>0, <2>1, <2>2 DEF LateInv, loopVars
  <2> QED BY <2>1, <2>3, <2>4, Whole
<1>3. CASE OperatorDies
  <2>1. /\ wr' = [wr EXCEPT ![Operator] = Idle]
        /\ UNCHANGED <<fileVars, standing, overlapped>>
    BY <1>3 DEF OperatorDies, WriterDies
  <2>2. KillInv' /\ wr'[Desk] = wr[Desk]
    BY <1>0, <1>d, <2>1, GoingIdleKeeps DEF KillInv, KillType
  <2>3. LoopType'
    BY <1>0, <1>3 DEF OperatorDies, LoopType, bookVars
  <2>4. LateInv' /\ LoopInv'
    BY <1>0, <1>3, <2>1, <2>2 DEF OperatorDies, LateInv, LoopInv, bookVars
  <2> QED BY <2>2, <2>3, <2>4, Whole
<1> QED BY <1>1, <1>2, <1>3

\* Nothing that is not a step changes the invariant.
LEMMA StutterKeeps == IInv /\ UNCHANGED vars => IInv'
<1> SUFFICES ASSUME IInv, UNCHANGED vars PROVE IInv'
  OBVIOUS
<1>1. KillInv'
  BY Parts, QuietSwitch DEF vars
<1>2. LoopType' /\ LateInv' /\ LoopInv'
  BY Parts DEF vars, loopVars, bookVars, killVars, LoopType, LateInv, LoopInv
<1> QED BY <1>1, <1>2, Whole
---------------------------------------------------------------------------
(* The theorems. *)

\* The invariant is inductive.
LEMMA Inductive == Spec => []IInv
<1>1. IInv /\ [Next]_vars => IInv'
  BY ProcessKeeps, EntryKeeps, ExitKeeps, MainKeeps, DeskTripKeeps, OperatorKeeps,
     StutterKeeps DEF Next
<1> QED BY <1>1, InitHolds, PTL DEF Spec

\* Inodes, stages and counters stay in range.
THEOREM TypeCorrect == Spec => []TypeOK
<1>1. IInv => TypeOK
  BY DEF IInv
<1> QED BY <1>1, Inductive, PTL

\* A trip that was reported done is found by every later read, through any
\* number of deaths of either writer, until a reset begins; provided the two
\* were never past their reads together (killswitch.py:_write, one name).
THEOREM ATripStands == Spec => []TripStands
<1>1. IInv => TripStands
  BY DEF IInv, StandingInv, TripStands
<1> QED BY <1>1, Inductive, PTL

\* After a trip at most the entry that was already checked fills.
THEOREM OneLateFill == Spec => []AtMostOneLateFill
<1>1. IInv => AtMostOneLateFill
  BY DEF IInv, LateInv, AtMostOneLateFill, TypeOK
<1> QED BY <1>1, Inductive, PTL

\* The desk leaves by itself only from a flat book (may_break_on_halt).
THEOREM LeavesFlat == Spec => LeavesOnlyFlat
<1>1. IInv /\ [Next]_vars =>
        [stage = "closing" /\ stage' = "left" => shutdown \/ (open = 0 /\ orphan = 0)]_vars
  BY DEF IInv, LoopInv
<1> QED BY <1>1, Inductive, PTL DEF Spec, LeavesOnlyFlat

LeavesFiles ==
  /\ overlapped => overlapped'
  /\ (\A w \in Writers : ~Inside(w)) => UNCHANGED <<file, data>>

\* The history variable only grows, and only a writer past its read touches a
\* file.
LEMMA FilesChangeInside ==
  ASSUME [Next]_vars
  PROVE  LeavesFiles
<1>0. Desk \in Writers /\ Operator \in Writers
  BY DEF Writers
<1>1. ASSUME NEW w \in Writers, OpenTemp(w) \/ WriteTemp(w) \/ Replace(w) \/ ReplaceRaises(w)
      PROVE  LeavesFiles
  <2>1. Inside(w)
    BY <1>1 DEF Inside, OpenTemp, WriteTemp, Replace, ReplaceRaises
  <2>2. overlapped' = overlapped
    BY <1>1, Zenon DEF OpenTemp, WriteTemp, Replace, ReplaceRaises
  <2> QED BY <2>1, <2>2 DEF LeavesFiles
<1>2. ASSUME NEW w \in Writers, ReadBeforeTrip(w) \/ BeginTrip(w) \/ BeginReset(w) \/ WriterDies(w)
      PROVE  LeavesFiles
  <2>1. UNCHANGED fileVars
    BY <1>2 DEF ReadBeforeTrip, BeginTrip, BeginReset, WriterDies
  <2>2. overlapped => overlapped'
    BY <1>2 DEF ReadBeforeTrip, BeginTrip, BeginReset, WriterDies
  <2> QED BY <2>1, <2>2 DEF fileVars, LeavesFiles
<1>3. UNCHANGED vars \/ UNCHANGED killVars => LeavesFiles
  BY DEF vars, killVars, fileVars, LeavesFiles
<1>4. CASE Start \/ RequestShutdown \/ CheckEntry \/ PlaceOrder \/ ExitThread \/ Expire
           \/ Main \/ WaitSlice
  <2>1. CASE Main
    BY <1>3, <2>1 DEF Main, HotPollEnds, EntryGate, ReconcilePasses, CycleExits, ScanEnds,
                      AfterCycle, WaitEnds, Leave
  <2>2. CASE ~Main
    BY <1>3, <1>4, <2>2 DEF Start, RequestShutdown, CheckEntry, PlaceOrder, ExitThread,
                            Expire, WaitSlice
  <2> QED BY <2>1, <2>2
<1>5. CASE Dies \/ DrawdownTrip \/ ReconcileTrips \/ DeskTrips \/ DeskTripRaises
  BY <1>0, <1>1, <1>2, <1>5 DEF Dies, DrawdownTrip, ReconcileTrips, DeskTrips, DeskTripRaises
<1>6. CASE OperatorBegins \/ OperatorWrites \/ OperatorDies
  BY <1>0, <1>1, <1>2, <1>6 DEF OperatorBegins, OperatorWrites, OperatorDies
<1> QED BY <1>3, <1>4, <1>5, <1>6 DEF Next

\* While a trip stands its file is left alone: later trips do not replace the
\* first cause.
THEOREM CauseIsKept == Spec => FirstCauseKept
<1>1. IInv /\ [Next]_vars =>
        [standing /\ standing' /\ ~overlapped'
           => file' # None /\ data'[file'] = data[file]]_vars
  <2> SUFFICES ASSUME IInv, [Next]_vars, standing, standing', ~overlapped'
               PROVE  file' # None /\ data'[file'] = data[file]
    OBVIOUS
  <2>1. IsTripped /\ \A w \in Writers : ~Inside(w)
    BY FilesChangeInside DEF LeavesFiles, IInv, StandingInv
  <2>2. UNCHANGED <<file, data>>
    BY <2>1, FilesChangeInside DEF LeavesFiles
  <2> QED BY <2>1, <2>2 DEF IsTripped
<1> QED BY <1>1, Inductive, PTL DEF Spec, FirstCauseKept
===========================================================================
