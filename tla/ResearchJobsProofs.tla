------------------------ MODULE ResearchJobsProofs ------------------------
(***************************************************************************)
(* Proofs about the ledger of walk-forward jobs, for any number of desks,  *)
(* jobs, validators and deaths, with zombies or without.                   *)
(***************************************************************************)
EXTENDS ResearchJobsProps, TLAPS

(***************************************************************************)
(* The operators                                                           *)
(***************************************************************************)

\* A ledger is an array of rows in which a running row has a validator.
LEMMA LedgerShape ==
  ASSUME NEW rows
  PROVE  rows \in Ledgers <=>
           /\ \E n \in 0..MaxJobs : rows \in [1..n -> AnyRow]
           /\ \A j \in DOMAIN rows : rows[j].status = "running" => rows[j].run # Nobody
BY DEF Ledgers

\* The empty ledger, and what it takes to have none but it.
LEMMA EmptyIsALedger ==
  /\ Empty \in Ledgers /\ DOMAIN Empty = {}
  /\ \A rs : LedgerOK(Empty, rs)
  /\ \A rows \in Ledgers : DOMAIN rows = {} => rows = Empty
<1>1. DOMAIN Empty = {}
  BY DEF Empty
<1>2. Empty \in [1..0 -> AnyRow] /\ 0 \in 0..MaxJobs
  BY JobsAssumption DEF Empty
<1>3. Empty \in Ledgers
  BY <1>1, <1>2, LedgerShape
<1>4. \A rs : LedgerOK(Empty, rs)
  BY <1>1, <1>3 DEF LedgerOK, Named, With
<1>5. \A rows \in Ledgers : DOMAIN rows = {} => rows = Empty
  BY LedgerShape DEF Empty
<1> QED BY <1>1, <1>3, <1>4, <1>5

\* Merging two ledgers: the first wins.
LEMMA MergeShape ==
  ASSUME NEW f, NEW g
  PROVE  /\ DOMAIN MergeById(f, g) = DOMAIN f \cup DOMAIN g
         /\ \A j \in DOMAIN f : MergeById(f, g)[j] = f[j]
         /\ \A j \in DOMAIN g : j \notin DOMAIN f => MergeById(f, g)[j] = g[j]
         /\ \A D, T : /\ DOMAIN f \cup DOMAIN g = D
                      /\ \A j \in D : MergeById(f, g)[j] \in T
                      => MergeById(f, g) \in [D -> T]
BY DEF MergeById

\* The next id is at most one more than those in the files.
LEMMA NextIdIsNear ==
  ASSUME NEW rows, NEW ids, NEW n \in Nat, NEW m \in Nat,
         DOMAIN rows = 1..n, ids = 1..m, n <= m, noted \in ids \cup {0}
  PROVE  NextId(rows) \in 1..(m + 1)
<1> DEFINE S == 1..n \cup {noted}
           top == IF noted > n THEN noted ELSE n
<1>1. noted \in Nat /\ noted <= m
  BY DEF Nobody
<1>2. top \in S \/ top = 0
  BY <1>1
<1>3. \E x \in S : \A y \in S : x >= y
  <2>1. CASE top \in S
    BY <1>1, <2>1
  <2>2. CASE top = 0
    BY <1>1, <2>2
  <2> QED BY <1>2, <2>1, <2>2
<1>4. Max(S) \in S
  BY <1>3 DEF Max
<1>5. Max(S) \in 0..m
  BY <1>1, <1>4
<1>6. NextId(rows) = Max(S) + 1
  BY DEF NextId
<1> HIDE DEF S
<1> QED BY <1>5, <1>6

\* Validators keep the job they were spawned for.
KeepsJobs(rs, qs) == \A r \in Runs : rs[r].job = 0 \/ qs[r].job = rs[r].job

\* What a process holds stays in order when the files grow and validators
\* come and go.
LEMMA SessionStays ==
  ASSUME NEW s, NEW ids, NEW ids2, NEW rs, NEW rs2,
         SessionOK(s, ids, rs), ids \subseteq ids2, KeepsJobs(rs, rs2)
  PROVE  SessionOK(s, ids2, rs2)
<1>1. s.rows \in Ledgers /\ s \in Session
  BY DEF SessionOK, LedgerOK
<1>2. Named(s.rows, rs2)
  <2> SUFFICES ASSUME NEW j \in With(s.rows, {"running"})
               PROVE  rs2[s.rows[j].run].job = j
    BY DEF Named
  <2>1. j \in DOMAIN s.rows /\ s.rows[j].status = "running"
    BY DEF With
  <2>2. s.rows[j].run \in Runs /\ j # 0
    BY <1>1, <2>1, LedgerShape DEF AnyRow
  <2>3. rs[s.rows[j].run].job = j
    BY DEF SessionOK, LedgerOK, Named
  <2> QED BY <2>2, <2>3 DEF KeepsJobs
<1>3. s.run # Nobody => s.job \in Jobs /\ rs2[s.run].job = s.job
  <2>1. s.run # Nobody => s.run \in Runs /\ s.job \in Jobs /\ rs[s.run].job = s.job
    BY <1>1 DEF SessionOK, Session
  <2> QED BY <2>1 DEF KeepsJobs, Jobs
<1> QED BY <1>1, <1>2, <1>3 DEF SessionOK, LedgerOK

\* The same of a ledger in a file.
LEMMA LedgerStays ==
  ASSUME NEW rows, NEW rs, NEW rs2, LedgerOK(rows, rs), KeepsJobs(rs, rs2)
  PROVE  LedgerOK(rows, rs2)
<1> SUFFICES ASSUME NEW j \in With(rows, {"running"})
             PROVE  rs2[rows[j].run].job = j
  BY DEF Named, LedgerOK
<1>1. j \in DOMAIN rows /\ rows[j].status = "running"
  BY DEF With
<1>2. rows[j].run \in Runs /\ j # 0
  BY <1>1, LedgerShape DEF AnyRow, LedgerOK
<1>3. rs[rows[j].run].job = j
  BY DEF LedgerOK, Named
<1> QED BY <1>2, <1>3 DEF KeepsJobs

(***************************************************************************)
(* The files                                                               *)
(***************************************************************************)

\* What a save starts from is a ledger.
LEMMA OnDiskIsALedger ==
  ASSUME FilesInv
  PROVE  LedgerOK(OnDisk, run) /\ OnDisk \in Ledgers
BY DEF FilesInv, OnDisk, LedgerOK

\* Rows a process may save: those it loaded, some of them set, and perhaps one
\* that is new.
Savable(rows, rs, ids) ==
  /\ rows \in [DOMAIN rows -> AnyRow] /\ Named(rows, rs)
  /\ \A j \in DOMAIN rows : rows[j].status = "running" => rows[j].run # Nobody
  /\ \E n \in 0..MaxJobs : DOMAIN rows \cup ids = 1..n

\* A save keeps both files in order, drops no id and adds those it is given.
LEMMA SaveKeeps ==
  ASSUME FilesInv, NEW rows, Savable(rows, run, DOMAIN OnDisk), Save(rows), KeepsJobs(run, run')
  PROVE  /\ FilesInv'
         /\ DOMAIN OnDisk \subseteq DOMAIN OnDisk'
         /\ DOMAIN rows \subseteq DOMAIN OnDisk'
<1>0. LedgerOK(OnDisk, run)
  BY OnDiskIsALedger
<1>1. CASE rows = Empty /\ OnDisk # Empty
  <2>1. UNCHANGED files /\ DOMAIN rows = {}
    BY <1>1, EmptyIsALedger DEF Save
  <2>2. primary' = primary /\ bak' = bak /\ OnDisk' = OnDisk
    BY <2>1 DEF files, OnDisk
  <2>3. LedgerOK(primary.rows, run') /\ LedgerOK(bak.rows, run')
    BY LedgerStays DEF FilesInv
  <2> QED BY <2>1, <2>2, <2>3 DEF FilesInv
<1>2. CASE ~(rows = Empty /\ OnDisk # Empty)
  <2> DEFINE merged == Merged(rows)
  <2>1. /\ bak' = IF primary.there THEN primary ELSE bak
        /\ primary' = [there |-> TRUE, rows |-> merged]
    BY <1>2 DEF Save
  <2>2. /\ DOMAIN merged = DOMAIN rows \cup DOMAIN OnDisk
        /\ \A j \in DOMAIN rows : merged[j] = rows[j]
        /\ \A j \in DOMAIN OnDisk : j \notin DOMAIN rows => merged[j] = OnDisk[j]
        /\ \A D, T : /\ DOMAIN rows \cup DOMAIN OnDisk = D
                     /\ \A j \in D : merged[j] \in T
                     => merged \in [D -> T]
    BY MergeShape DEF Merged
  <2> HIDE DEF merged
  <2>3. \A j \in DOMAIN OnDisk : OnDisk[j] \in AnyRow
          /\ (OnDisk[j].status = "running" =>
                OnDisk[j].run # Nobody /\ run[OnDisk[j].run].job = j)
    BY <1>0, LedgerShape DEF LedgerOK, Named, With
  <2>4. \A j \in DOMAIN rows : rows[j] \in AnyRow
          /\ (rows[j].status = "running" =>
                rows[j].run # Nobody /\ run[rows[j].run].job = j)
    BY DEF Savable, Named, With
  <2>5. \A j \in DOMAIN merged : merged[j] \in AnyRow
          /\ (merged[j].status = "running" =>
                merged[j].run # Nobody /\ run[merged[j].run].job = j)
    <3> SUFFICES ASSUME NEW j \in DOMAIN merged
                 PROVE  merged[j] \in AnyRow
                        /\ (merged[j].status = "running" =>
                              merged[j].run # Nobody /\ run[merged[j].run].job = j)
      OBVIOUS
    <3>1. CASE j \in DOMAIN rows
      <4>1. merged[j] = rows[j]
        BY <2>2, <3>1
      <4> QED BY <2>4, <3>1, <4>1
    <3>2. CASE j \notin DOMAIN rows
      <4>1. merged[j] = OnDisk[j] /\ j \in DOMAIN OnDisk
        BY <2>2, <3>2
      <4> QED BY <2>3, <4>1
    <3> QED BY <3>1, <3>2
  <2>6. PICK n \in 0..MaxJobs : DOMAIN merged = 1..n
    BY <2>2 DEF Savable
  <2>7. merged \in [1..n -> AnyRow]
    BY <2>2, <2>5, <2>6
  <2>8. LedgerOK(merged, run)
    BY <2>5, <2>7, LedgerShape DEF LedgerOK, Named, With
  <2>9. LedgerOK(merged, run') /\ LedgerOK(bak'.rows, run')
    BY <2>1, <2>8, LedgerStays DEF FilesInv
  <2>10. DOMAIN bak'.rows \subseteq DOMAIN OnDisk
    <3>1. CASE primary.there
      BY <2>1, <3>1, EmptyIsALedger DEF OnDisk
    <3>2. CASE ~primary.there
      BY <2>1, <3>2 DEF OnDisk, FilesInv
    <3> QED BY <3>1, <3>2
  <2>11. primary'.rows = merged /\ primary'.there = TRUE
    BY <2>1
  <2>12. FilesInv'
    BY <2>2, <2>9, <2>10, <2>11 DEF FilesInv
  <2>13. OnDisk' = merged \/ DOMAIN merged = {}
    BY <2>11, EmptyIsALedger DEF OnDisk
  <2> QED BY <2>2, <2>12, <2>13
<1> QED BY <1>1, <1>2

(***************************************************************************)
(* The steps                                                               *)
(***************************************************************************)

FilesStep ==
  \/ UNCHANGED files
  \/ \E rows : Savable(rows, run, DOMAIN OnDisk) /\ Save(rows)

RunsType ==
  run \in [Runs -> [state : {"unborn", "zombie", "gone"} \cup Existing,
                    job : 0..MaxJobs, parent : Clients \cup {Nobody}]]

\* What a step does to the files keeps them in order and drops no id.
LEMMA FilesStepKeeps ==
  ASSUME FilesInv, FilesStep, KeepsJobs(run, run')
  PROVE  FilesInv' /\ DOMAIN OnDisk \subseteq DOMAIN OnDisk'
<1>1. CASE UNCHANGED files
  <2>1. primary' = primary /\ bak' = bak /\ OnDisk' = OnDisk
    BY <1>1 DEF files, OnDisk
  <2>2. LedgerOK(primary.rows, run') /\ LedgerOK(bak.rows, run')
    BY LedgerStays DEF FilesInv
  <2> QED BY <2>1, <2>2 DEF FilesInv
<1>2. CASE \E rows : Savable(rows, run, DOMAIN OnDisk) /\ Save(rows)
  BY <1>2, SaveKeeps
<1> QED BY <1>1, <1>2 DEF FilesStep

\* A step of one process: it leaves the files in order, and holds what it may.
LEMMA StepKeeps ==
  ASSUME IInv, NEW c \in Clients, NEW s,
         at' = [at EXCEPT ![c] = s],
         FilesInv', DOMAIN OnDisk \subseteq DOMAIN OnDisk',
         SessionOK(s, DOMAIN OnDisk', run'),
         KeepsJobs(run, run'), RunsType',
         noted' \in DOMAIN OnDisk' \cup {0}, deaths' \in 0..MaxDeaths
  PROVE  IInv'
<1>1. at' = [d \in Clients |-> at'[d]]
      /\ \A d \in Clients : at'[d] = IF d = c THEN s ELSE at[d]
  <2>1. at = [d \in Clients |-> at[d]]
    BY DEF IInv
  <2> DEFINE f == [d \in Clients |-> IF d = c THEN s ELSE at[d]]
  <2>2. at' = f
    BY <2>1
  <2> QED BY <2>2
<1>2. \A d \in Clients : SessionOK(at'[d], DOMAIN OnDisk', run')
  <2> SUFFICES ASSUME NEW d \in Clients PROVE SessionOK(at'[d], DOMAIN OnDisk', run')
    OBVIOUS
  <2>1. CASE d = c
    BY <1>1, <2>1
  <2>2. CASE d # c
    <3>1. SessionOK(at[d], DOMAIN OnDisk, run)
      BY DEF IInv
    <3>2. SessionOK(at[d], DOMAIN OnDisk', run')
      BY <3>1, SessionStays
    <3> QED BY <1>1, <2>2, <3>2
  <2> QED BY <2>1, <2>2
<1> QED BY <1>1, <1>2 DEF IInv, RunsType

\* Most steps leave the validators, the noted id and the count of deaths.
LEMMA QuietStep ==
  ASSUME IInv, NEW c \in Clients, NEW s,
         at' = [at EXCEPT ![c] = s], FilesStep,
         SessionOK(s, DOMAIN OnDisk, run),
         UNCHANGED <<noted, run, deaths>>
  PROVE  IInv' /\ DOMAIN OnDisk \subseteq DOMAIN OnDisk'
<1>1. KeepsJobs(run, run') /\ run' = run
  BY DEF KeepsJobs
<1>2. FilesInv' /\ DOMAIN OnDisk \subseteq DOMAIN OnDisk'
  BY <1>1, FilesStepKeeps DEF IInv
<1>3. SessionOK(s, DOMAIN OnDisk', run')
  BY <1>1, <1>2, SessionStays
<1> QED BY <1>1, <1>2, <1>3, StepKeeps DEF IInv, RunsType

\* An idle process has the type of one.
LEMMA IdleIsASession == Idle \in Session
<1>1. MaxJobs \in Nat /\ 0 \in 0..MaxJobs
  BY JobsAssumption
<1>2. Empty \in Ledgers /\ Nobody \in Runs \cup {Nobody}
  BY EmptyIsALedger
<1> QED BY <1>1, <1>2 DEF Idle, Session, Ops

\* What a session of two changed fields is.
LEMMA DoingShape ==
  ASSUME NEW op \in Ops, NEW j \in 0..MaxJobs
  PROVE  /\ Doing(op, j).op = op /\ Doing(op, j).job = j
         /\ Doing(op, j).loaded = FALSE /\ Doing(op, j).rows = Empty
         /\ Doing(op, j).run = Nobody
         /\ Doing(op, j) \in Session
<1>1. Idle \in Session /\ Idle.loaded = FALSE /\ Idle.rows = Empty /\ Idle.run = Nobody
  BY IdleIsASession DEF Idle
<1> DEFINE d == Idle
<1>2. Doing(op, j) = [d EXCEPT !.op = op, !.job = j]
  BY DEF Doing
<1>3. d \in Session /\ d.loaded = FALSE /\ d.rows = Empty /\ d.run = Nobody
  BY <1>1
<1> HIDE DEF d
<1>4. /\ d = [op |-> d.op, loaded |-> d.loaded, job |-> d.job, rows |-> d.rows, run |-> d.run]
      /\ d.rows \in Ledgers /\ d.run \in Runs \cup {Nobody}
  BY <1>3 DEF Session
<1>5. Doing(op, j) = [op |-> op, loaded |-> FALSE, job |-> j, rows |-> Empty, run |-> Nobody]
  BY <1>2, <1>3, <1>4
<1>6. Empty \in Ledgers /\ Nobody \in Runs \cup {Nobody}
  BY <1>3, <1>4
<1> DEFINE e == Empty  n == Nobody
<1>7. e \in Ledgers /\ n \in Runs \cup {Nobody}
  BY <1>6
<1>8. Doing(op, j) = [op |-> op, loaded |-> FALSE, job |-> j, rows |-> e, run |-> n]
  BY <1>5
<1> HIDE DEF e, n
<1>9. Doing(op, j) \in Session
  BY <1>7, <1>8 DEF Session
<1> QED BY <1>5, <1>9

\* A process that has loaded nothing yet.
LEMMA DoingOK ==
  ASSUME NEW op \in Ops, NEW j \in 0..MaxJobs, NEW ids, NEW rs,
         op \in {"note", "noteThenStart"} => j \in ids
  PROVE  SessionOK(Doing(op, j), ids, rs)
<1>1. LedgerOK(Empty, rs) /\ DOMAIN Empty \subseteq ids
  BY EmptyIsALedger
<1> DEFINE d == Doing(op, j)
<1>2. /\ d \in Session /\ d.op = op /\ d.job = j /\ d.run = Nobody /\ d.rows = Empty
  BY DoingShape
<1> HIDE DEF d
<1>3. SessionOK(d, ids, rs)
  BY <1>1, <1>2 DEF SessionOK
<1> QED BY <1>3 DEF d

\* A process that is through.
LEMMA IdleOK ==
  ASSUME NEW ids, NEW rs
  PROVE  SessionOK(Idle, ids, rs)
<1>1. Idle.op = "idle" /\ Idle.rows = Empty /\ Idle.run = Nobody
  BY DEF Idle
<1> QED BY <1>1, IdleIsASession, EmptyIsALedger DEF SessionOK

\* A process that has just loaded: its copy is what the file holds.
LEMMA LoadingOK ==
  ASSUME IInv, NEW op \in Ops, NEW j \in 0..MaxJobs,
         op \notin {"note", "noteThenStart"}
  PROVE  SessionOK(Loading(op, j), DOMAIN OnDisk, run)
<1>1. LedgerOK(primary.rows, run) /\ primary.rows \in Ledgers
  BY DEF IInv, FilesInv, LedgerOK
<1> DEFINE d == Doing(op, j)
           l == Loading(op, j)
<1>2. d \in Session /\ d.op = op /\ d.run = Nobody
  BY DoingShape
<1>3. l = [d EXCEPT !.loaded = TRUE, !.rows = primary.rows]
  BY DEF Loading, Loaded
<1>4. l \in Session /\ l.op = op /\ l.run = Nobody /\ l.rows = primary.rows
  <2> HIDE DEF d, l
  <2> QED BY <1>1, <1>2, <1>3 DEF Session
<1>5. DOMAIN primary.rows \subseteq DOMAIN OnDisk
  BY EmptyIsALedger DEF OnDisk
<1> HIDE DEF d, l
<1>6. SessionOK(l, DOMAIN OnDisk, run)
  BY <1>1, <1>4, <1>5 DEF SessionOK
<1> QED BY <1>6 DEF l

\* A process that saves what it loaded, with some rows set.
LEMMA HeldIsSavable ==
  ASSUME IInv, NEW c \in Clients, NEW rows,
         DOMAIN rows = DOMAIN at[c].rows,
         rows \in [DOMAIN rows -> AnyRow],
         \A j \in DOMAIN rows : rows[j].status = "running" =>
           rows[j].run # Nobody /\ run[rows[j].run].job = j
  PROVE  Savable(rows, run, DOMAIN OnDisk)
<1>1. DOMAIN rows \subseteq DOMAIN OnDisk
  BY DEF IInv, SessionOK
<1>2. \E n \in 0..MaxJobs : DOMAIN OnDisk = 1..n
  BY OnDiskIsALedger, LedgerShape DEF IInv
<1>3. DOMAIN rows \cup DOMAIN OnDisk = DOMAIN OnDisk
  BY <1>1
<1> QED BY <1>2, <1>3 DEF Savable, Named, With

\* The rows a process holds.
LEMMA HeldRows ==
  ASSUME IInv, NEW c \in Clients
  PROVE  /\ at[c] \in Session
         /\ at[c].rows \in [DOMAIN at[c].rows -> AnyRow]
         /\ \A j \in DOMAIN at[c].rows : at[c].rows[j].status = "running" =>
              /\ at[c].rows[j].run # Nobody /\ run[at[c].rows[j].run].job = j
         /\ \E n \in 0..MaxJobs : DOMAIN at[c].rows = 1..n
         /\ DOMAIN at[c].rows \subseteq DOMAIN OnDisk
         /\ Savable(at[c].rows, run, DOMAIN OnDisk)
<1>1. SessionOK(at[c], DOMAIN OnDisk, run)
  BY DEF IInv
<1>2. at[c].rows \in Ledgers /\ at[c] \in Session
  BY <1>1 DEF SessionOK, LedgerOK
<1>3. /\ at[c].rows \in [DOMAIN at[c].rows -> AnyRow]
      /\ \E n \in 0..MaxJobs : DOMAIN at[c].rows = 1..n
  BY <1>2, LedgerShape
<1>4. \A j \in DOMAIN at[c].rows : at[c].rows[j].status = "running" =>
        /\ at[c].rows[j].run # Nobody /\ run[at[c].rows[j].run].job = j
  BY <1>1, <1>2, LedgerShape DEF SessionOK, LedgerOK, Named, With
<1>5. Savable(at[c].rows, run, DOMAIN OnDisk)
  BY <1>3, <1>4, HeldIsSavable
<1> QED BY <1>1, <1>2, <1>3, <1>4, <1>5 DEF SessionOK

(***************************************************************************)
(* The actions                                                             *)
(***************************************************************************)

Kept == IInv' /\ DOMAIN OnDisk \subseteq DOMAIN OnDisk'

\* A process sets out.
LEMMA BeginKeeps ==
  ASSUME IInv, NEW c \in Clients, NEW s, Begin(c, s), SessionOK(s, DOMAIN OnDisk, run)
  PROVE  Kept
BY QuietStep DEF Begin, Go, FilesStep, Kept

\* A process sets out to refresh the rows.
LEMMA LookKeeps ==
  ASSUME IInv, NEW c \in Clients, Look(c)
  PROVE  Kept
<1>1. "refresh" \in Ops /\ 0 \in 0..MaxJobs
  BY JobsAssumption DEF Ops
<1> QED BY <1>1, LoadingOK, BeginKeeps DEF Look

\* A process sets out to stage a job, or to stage and start one.
LEMMA StageKeeps ==
  ASSUME IInv, NEW c \in Clients, Stage(c)
  PROVE  Kept
<1>1. 0 \in 0..MaxJobs
  BY JobsAssumption
<1>2. PICK op \in {"stage", "launch"} : Begin(c, Loading(op, 0))
  BY DEF Stage
<1>3. op \in Ops /\ op \notin {"note", "noteThenStart"}
  BY DEF Ops
<1> QED BY <1>1, <1>2, <1>3, LoadingOK, BeginKeeps

\* A process sets out to start a standby job in a free slot.
LEMMA FillKeeps ==
  ASSUME IInv, NEW c \in Clients, Fill(c)
  PROVE  Kept
<1>1. PICK j \in With(Loaded, {"standby"}) : Begin(c, Doing("queue", j))
  BY DEF Fill
<1>2. j \in DOMAIN primary.rows /\ primary.rows \in Ledgers
  BY DEF With, Loaded, IInv, FilesInv, LedgerOK
<1>3. j \in 0..MaxJobs
  BY <1>2, LedgerShape, JobsAssumption
<1>4. "queue" \in Ops
  BY DEF Ops
<1> QED BY <1>1, <1>3, <1>4, DoingOK, BeginKeeps

\* A validator that ended sets out to write its verdict.
LEMMA VerdictKeeps ==
  ASSUME IInv, NEW r \in Runs, Verdict(r)
  PROVE  Kept
<1>1. run[r].job \in 0..MaxJobs /\ r \in Clients
  BY DEF IInv, Clients
<1>2. "finish" \in Ops
  BY DEF Ops
<1> QED BY <1>1, <1>2, LoadingOK, BeginKeeps DEF Verdict

\* The rows are loaded, with what else the process set out to do.
LEMMA LoadKeeps ==
  ASSUME IInv, NEW c \in Clients, Load(c)
  PROVE  Kept
<1>1. at[c].op \in Ops /\ at[c].job \in 0..MaxJobs
  BY HeldRows DEF Session
<1> QED BY <1>1, LoadingOK, BeginKeeps DEF Load

\* The refresh fails the rows of processes that are gone.
LEMMA RefreshKeeps ==
  ASSUME IInv, NEW c \in Clients, Refresh(c)
  PROVE  Kept
<1> DEFINE rows == at[c].rows
           dead == Dead(rows)
           failed == [j \in DOMAIN rows |->
                        IF j \in dead THEN [rows[j] EXCEPT !.status = "failed"] ELSE rows[j]]
<1>1. DOMAIN failed = DOMAIN rows
  OBVIOUS
<1>2. failed \in [DOMAIN rows -> AnyRow]
      /\ \A j \in DOMAIN failed : failed[j].status = "running" => failed[j] = rows[j]
  <2>1. \A j \in DOMAIN rows : rows[j] \in AnyRow
    BY HeldRows
  <2> HIDE DEF rows, dead
  <2> QED BY <2>1 DEF AnyRow, Statuses
<1>3. Savable(failed, run, DOMAIN OnDisk)
  <2>1. \A j \in DOMAIN failed : failed[j].status = "running" =>
          failed[j].run # Nobody /\ run[failed[j].run].job = j
    <3> SUFFICES ASSUME NEW j \in DOMAIN failed, failed[j].status = "running"
                 PROVE  failed[j].run # Nobody /\ run[failed[j].run].job = j
      OBVIOUS
    <3>1. j \in DOMAIN rows /\ failed[j] = rows[j]
      BY <1>1, <1>2
    <3> HIDE DEF failed, dead
    <3>2. rows[j].status = "running" => rows[j].run # Nobody /\ run[rows[j].run].job = j
      BY <3>1, HeldRows
    <3> QED BY <3>1, <3>2
  <2> HIDE DEF failed
  <2> QED BY <1>1, <1>2, <2>1, HeldIsSavable
<1>4. UNCHANGED files \/ Save(failed)
  BY DEF Refresh
<1>5. FilesStep
  <2> HIDE DEF failed
  <2> QED BY <1>3, <1>4 DEF FilesStep
<1> QED BY <1>5, IdleOK, QuietStep DEF Refresh, Go, Kept

\* One row set, in the copy a process holds.
LEMMA SetIsSavable ==
  ASSUME IInv, NEW c \in Clients, NEW row,
         Found(c) => row \in AnyRow,
         row.status = "running" => row.run # Nobody /\ run[row.run].job = at[c].job
  PROVE  Savable([at[c].rows EXCEPT ![at[c].job] = row], run, DOMAIN OnDisk)
<1> DEFINE rows == [at[c].rows EXCEPT ![at[c].job] = row]
<1>1. DOMAIN rows = DOMAIN at[c].rows
      /\ \A j \in DOMAIN rows : rows[j] = IF j = at[c].job THEN row ELSE at[c].rows[j]
  OBVIOUS
<1>2. rows \in [DOMAIN rows -> AnyRow]
  BY HeldRows DEF Found
<1> HIDE DEF rows
<1>3. \A j \in DOMAIN rows : rows[j].status = "running" =>
        rows[j].run # Nobody /\ run[rows[j].run].job = j
  BY <1>1, HeldRows
<1>4. Savable(rows, run, DOMAIN OnDisk)
  BY <1>1, <1>2, <1>3, HeldIsSavable
<1> QED BY <1>4 DEF rows

\* One status set, which is not "running".
LEMMA StatusIsSavable ==
  ASSUME IInv, NEW c \in Clients, Found(c), NEW status \in Statuses,
         status = "running" => status = at[c].rows[at[c].job].status
  PROVE  Savable([at[c].rows EXCEPT ![at[c].job].status = status], run, DOMAIN OnDisk)
<1> DEFINE old == at[c].rows[at[c].job]
           row == [old EXCEPT !.status = status]
<1>1. /\ old \in AnyRow
      /\ old.status = "running" => old.run # Nobody /\ run[old.run].job = at[c].job
  BY HeldRows DEF Found
<1>2. status = "running" => old.status = "running"
  OBVIOUS
<1>3. row \in AnyRow /\ row.status = status /\ row.run = old.run
  <2> HIDE DEF old
  <2> QED BY <1>1 DEF AnyRow
<1>4. row.status = "running" => row.run # Nobody /\ run[row.run].job = at[c].job
  <2> HIDE DEF old, row
  <2> QED BY <1>1, <1>2, <1>3
<1>5. Savable([at[c].rows EXCEPT ![at[c].job] = row], run, DOMAIN OnDisk)
  <2> HIDE DEF row
  <2> QED BY <1>3, <1>4, SetIsSavable
<1> QED BY <1>5

\* The row is stamped, and saved.
LEMMA StampKeeps ==
  ASSUME IInv, NEW c \in Clients, Stamp(c)
  PROVE  Kept
<1> DEFINE status == IF at[c].op = "queue" THEN "queued" ELSE at[c].rows[at[c].job].status
<1>1. /\ IF Found(c) THEN Save([at[c].rows EXCEPT ![at[c].job].status = status])
                     ELSE UNCHANGED files
      /\ Go(c, IF at[c].op = "queue" THEN Doing("start", at[c].job) ELSE Idle)
      /\ UNCHANGED <<noted, run, deaths>>
  BY DEF Stamp
<1>2. Found(c) => status \in Statuses
  BY HeldRows DEF Found, Statuses, AnyRow
<1>3. status = "running" => status = at[c].rows[at[c].job].status
  OBVIOUS
<1>4. FilesStep
  <2> HIDE DEF status
  <2> QED BY <1>1, <1>2, <1>3, StatusIsSavable DEF FilesStep
<1>5. SessionOK(Doing("start", at[c].job), DOMAIN OnDisk, run)
  <2>1. at[c].job \in 0..MaxJobs /\ "start" \in Ops
    BY HeldRows DEF Session, Ops
  <2> QED BY <2>1, DoingOK
<1> QED BY <1>1, <1>4, <1>5, IdleOK, QuietStep DEF Go, Kept

\* A refused start: the row is gone, waits, or is failed.
LEMMA StartRefusedKeeps ==
  ASSUME IInv, NEW c \in Clients, StartRefused(c)
  PROVE  Kept
<1>1. FilesStep
  <2>1. CASE ~Found(c)
    BY <2>1 DEF StartRefused, FilesStep
  <2>2. CASE Found(c)
    <3>1. PICK status \in {"standby", "failed"} :
            Save([at[c].rows EXCEPT ![at[c].job].status = status])
      BY <2>2 DEF StartRefused
    <3>2. status \in Statuses /\ status # "running"
      BY DEF Statuses
    <3> QED BY <2>2, <3>1, <3>2, StatusIsSavable DEF FilesStep
  <2> QED BY <2>1, <2>2
<1> QED BY <1>1, IdleOK, QuietStep DEF StartRefused, Go, Kept

\* The row of a process that was spawned says running.
LEMMA StartedKeeps ==
  ASSUME IInv, NEW c \in Clients, Started(c)
  PROVE  Kept
<1> DEFINE row == Row("running", at[c].run)
<1>1. /\ at[c].run \in Runs /\ at[c].run # Nobody
      /\ run[at[c].run].job = at[c].job
  BY HeldRows DEF Started, IInv, SessionOK, Session
<1>2. row.status = "running" /\ row.run = at[c].run /\ row \in AnyRow
  BY <1>1 DEF Row, AnyRow, Statuses
<1>3. Savable([at[c].rows EXCEPT ![at[c].job] = row], run, DOMAIN OnDisk)
  <2> HIDE DEF row
  <2> QED BY <1>1, <1>2, SetIsSavable
<1>4. FilesStep
  BY <1>3 DEF FilesStep, Started, Set
<1> QED BY <1>4, IdleOK, QuietStep DEF Started, Go, Kept

\* A new job gets an id at most one above those in the files, is merged into
\* them, and only then noted.
LEMMA RecordKeeps ==
  ASSUME IInv, NEW c \in Clients, Record(c)
  PROVE  Kept
<1> DEFINE id == NextId(at[c].rows)
           status == IF at[c].op = "launch" THEN "queued" ELSE "standby"
           new == [j \in {id} |-> Row(status, Nobody)]
           rows == MergeById(at[c].rows, new)
           s == Doing(IF at[c].op = "launch" THEN "noteThenStart" ELSE "note", id)
<1>1. CASE id \notin Jobs
  BY <1>1, IdleOK, QuietStep DEF Record, Go, FilesStep, Kept
<1>2. CASE id \in Jobs
  <2>1. Save(rows) /\ Go(c, s) /\ UNCHANGED <<noted, run, deaths>>
    BY <1>2 DEF Record
  <2>2. PICK n \in 0..MaxJobs : DOMAIN at[c].rows = 1..n
    BY HeldRows
  <2>3. PICK m \in 0..MaxJobs : DOMAIN OnDisk = 1..m
    BY OnDiskIsALedger, LedgerShape DEF IInv
  <2>4. n \in Nat /\ m \in Nat /\ n <= m
    <3>1. 1..n \subseteq 1..m
      BY <2>2, <2>3, HeldRows
    <3> QED BY <3>1
  <2>5. id \in 1..(m + 1) /\ id \in 1..MaxJobs
    <3>1. noted \in 1..m \cup {0}
      BY <2>3 DEF IInv
    <3> QED BY <1>2, <2>2, <2>3, <2>4, <3>1, NextIdIsNear DEF Jobs
  <2>6. DOMAIN new = {id} /\ new[id] = Row(status, Nobody)
    OBVIOUS
  <2>7. Row(status, Nobody) \in AnyRow /\ Row(status, Nobody).status # "running"
    BY DEF Row, AnyRow, Statuses
  <2> HIDE DEF id, new, status
  <2>merge.
        /\ DOMAIN rows = DOMAIN at[c].rows \cup DOMAIN new
        /\ \A j \in DOMAIN at[c].rows : rows[j] = at[c].rows[j]
        /\ \A j \in DOMAIN new : j \notin DOMAIN at[c].rows => rows[j] = new[j]
        /\ \A D, T : /\ DOMAIN at[c].rows \cup DOMAIN new = D
                     /\ \A j \in D : rows[j] \in T
                     => rows \in [D -> T]
    BY MergeShape
  <2> HIDE DEF rows
  <2>8. DOMAIN rows = 1..n \cup {id}
    BY <2>2, <2>6, <2>merge
  <2>9. \A j \in DOMAIN rows : rows[j] \in AnyRow
          /\ (rows[j].status = "running" =>
                rows[j].run # Nobody /\ run[rows[j].run].job = j)
    <3> SUFFICES ASSUME NEW j \in DOMAIN rows
                 PROVE  rows[j] \in AnyRow
                        /\ (rows[j].status = "running" =>
                              rows[j].run # Nobody /\ run[rows[j].run].job = j)
      OBVIOUS
    <3>1. CASE j \in DOMAIN at[c].rows
      <4>1. rows[j] = at[c].rows[j]
        BY <3>1, <2>merge
      <4> QED BY <3>1, <4>1, HeldRows
    <3>2. CASE j \notin DOMAIN at[c].rows
      <4>1. j = id
        BY <2>2, <2>8, <3>2
      <4>2. rows[j] = new[id]
        BY <2>6, <3>2, <4>1, <2>merge
      <4> QED BY <2>6, <2>7, <4>2
    <3> QED BY <3>1, <3>2
  <2>10. \E k \in 0..MaxJobs : DOMAIN rows \cup DOMAIN OnDisk = 1..k
    <3>1. CASE id \in 1..m
      <4>1. DOMAIN rows \cup DOMAIN OnDisk = 1..m
        BY <2>3, <2>4, <2>8, <3>1
      <4> QED BY <4>1
    <3>2. CASE id \notin 1..m
      <4>1. id = m + 1 /\ m + 1 \in 0..MaxJobs
        BY <2>4, <2>5, <3>2
      <4>2. DOMAIN rows \cup DOMAIN OnDisk = 1..(m + 1)
        BY <2>3, <2>4, <2>8, <4>1
      <4> QED BY <4>1, <4>2
    <3> QED BY <3>1, <3>2
  <2>11. rows \in [DOMAIN rows -> AnyRow]
    <3>1. DOMAIN at[c].rows \cup DOMAIN new = DOMAIN rows
      BY <2>merge
    <3> QED BY <2>9, <3>1, <2>merge
  <2>12. Savable(rows, run, DOMAIN OnDisk)
    <3> QED BY <2>9, <2>10, <2>11 DEF Savable, Named, With
  <2>13. KeepsJobs(run, run') /\ run' = run
    BY <2>1 DEF KeepsJobs
  <2>14. FilesInv' /\ DOMAIN OnDisk \subseteq DOMAIN OnDisk' /\ id \in DOMAIN OnDisk'
    <3>1. DOMAIN rows \subseteq DOMAIN OnDisk'
          /\ FilesInv' /\ DOMAIN OnDisk \subseteq DOMAIN OnDisk'
      <4> QED BY <2>1, <2>12, <2>13, SaveKeeps DEF IInv
    <3>2. id \in DOMAIN rows
      BY <2>8
    <3> QED BY <3>1, <3>2
  <2>15. SessionOK(s, DOMAIN OnDisk', run')
    <3>1. id \in 0..MaxJobs /\ "note" \in Ops /\ "noteThenStart" \in Ops
      BY <2>5 DEF Ops
    <3> QED BY <2>14, <3>1, DoingOK
  <2> HIDE DEF s
  <2> QED BY <2>1, <2>13, <2>14, <2>15, StepKeeps DEF Go, IInv, RunsType, Kept
<1> QED BY <1>1, <1>2

\* The larger of two numbers is one of them.
LEMMA MaxOfTwo ==
  ASSUME NEW a \in Nat, NEW b \in Nat
  PROVE  Max({a, b}) \in {a, b}
<1>1. \E x \in {a, b} : \A y \in {a, b} : x >= y
  BY a >= b \/ b >= a
<1> QED BY <1>1 DEF Max

\* The run notes the id of its job.
LEMMA NoteJobIdKeeps ==
  ASSUME IInv, NEW c \in Clients, NoteJobId(c)
  PROVE  Kept
<1> DEFINE s == Doing(IF at[c].op = "note" THEN "stamp" ELSE "start", at[c].job)
<1>1. /\ noted' = Max({noted, at[c].job}) /\ Go(c, s)
      /\ UNCHANGED <<files, run, deaths>>
  BY DEF NoteJobId
<1>2. at[c].job \in DOMAIN OnDisk /\ at[c].job \in 0..MaxJobs
  BY DEF NoteJobId, IInv, SessionOK, Session
<1>3. noted \in Nat
  <2>1. PICK m \in 0..MaxJobs : DOMAIN OnDisk = 1..m
    BY OnDiskIsALedger, LedgerShape DEF IInv
  <2> QED BY <2>1 DEF IInv
<1>4. noted' \in DOMAIN OnDisk \cup {0}
  BY <1>1, <1>2, <1>3, MaxOfTwo DEF IInv
<1>5. SessionOK(s, DOMAIN OnDisk, run)
  <2>1. "stamp" \in Ops /\ "start" \in Ops
    BY DEF Ops
  <2> QED BY <1>2, <2>1, DoingOK
<1>6. KeepsJobs(run, run') /\ run' = run
  BY <1>1 DEF KeepsJobs
<1>7. FilesInv' /\ OnDisk' = OnDisk
  BY <1>1, <1>6, FilesStepKeeps DEF IInv, FilesStep, OnDisk, files
<1> HIDE DEF s
<1> QED BY <1>1, <1>4, <1>5, <1>6, <1>7, StepKeeps DEF Go, IInv, RunsType, Kept

\* A validator is spawned: it was unborn, so no row names it yet.
LEMMA SpawnKeeps ==
  ASSUME IInv, NEW c \in Clients, Spawn(c)
  PROVE  Kept
<1>1. PICK r \in Runs :
        /\ run[r] = Born
        /\ run' = [Reaped(run, c) EXCEPT ![r] =
                     [state |-> "working", job |-> at[c].job, parent |-> c]]
        /\ Go(c, [at[c] EXCEPT !.run = r])
  BY DEF Spawn
<1>2. UNCHANGED <<files, noted, deaths>> /\ Found(c)
  BY DEF Spawn
<1>3. at[c].job \in Jobs /\ at[c].job \in 0..MaxJobs
  <2>1. PICK n \in 0..MaxJobs : DOMAIN at[c].rows = 1..n
    BY HeldRows
  <2> QED BY <1>2, <2>1, JobsAssumption DEF Found, Jobs
<1> DEFINE RunType == [state : {"unborn", "zombie", "gone"} \cup Existing,
                       job : 0..MaxJobs, parent : Clients \cup {Nobody}]
           reaped == Reaped(run, c)
           new == [state |-> "working", job |-> at[c].job, parent |-> c]
<1>4. reaped \in [Runs -> RunType] /\ \A q \in Runs : reaped[q].job = run[q].job
  BY DEF Reaped, IInv
<1>5. new \in RunType /\ new.job = at[c].job
  BY <1>3 DEF Existing
<1>6. RunsType'
  <2> HIDE DEF new, reaped
  <2>1. run' \in [Runs -> RunType]
    BY <1>1, <1>4, <1>5 DEF new, reaped
  <2> QED BY <2>1 DEF RunsType
<1>7. run'[r].job = at[c].job /\ \A q \in Runs : q # r => run'[q].job = run[q].job
  BY <1>1, <1>4
<1>8. KeepsJobs(run, run')
  BY <1>1, <1>7 DEF KeepsJobs, Born
<1>9. FilesInv' /\ OnDisk' = OnDisk
  BY <1>2, <1>8, FilesStepKeeps DEF IInv, FilesStep, OnDisk, files
<1> DEFINE s == [at[c] EXCEPT !.run = r]
<1>10. SessionOK(s, DOMAIN OnDisk', run')
  <2>1. SessionOK(at[c], DOMAIN OnDisk, run)
    BY DEF IInv
  <2>2. SessionOK(at[c], DOMAIN OnDisk', run')
    BY <1>8, <1>9, <2>1, SessionStays
  <2>3. /\ s \in Session /\ s.run = r /\ s.rows = at[c].rows
        /\ s.job = at[c].job /\ s.op = at[c].op
    <3>1. at[c] \in Session
      BY HeldRows
    <3> QED BY <3>1 DEF Session
  <2> HIDE DEF s
  <2> QED BY <1>3, <1>7, <2>2, <2>3 DEF SessionOK
<1> HIDE DEF s
<1>11. at' = [at EXCEPT ![c] = s]
  BY <1>1 DEF Go, s
<1>12. noted' \in DOMAIN OnDisk' \cup {0} /\ deaths' \in 0..MaxDeaths
  BY <1>2, <1>9 DEF IInv
<1> QED BY <1>6, <1>8, <1>9, <1>10, <1>11, <1>12, StepKeeps DEF Kept

\* The end of a process leaves every validator its job.
LEMMA GoneKeepsJobs ==
  ASSUME RunsType, NEW c \in Clients, Gone(c)
  PROVE  KeepsJobs(run, run') /\ RunsType' /\ at' = [at EXCEPT ![c] = Idle]
<1> DEFINE RunType == [state : {"unborn", "zombie", "gone"} \cup Existing,
                       job : 0..MaxJobs, parent : Clients \cup {Nobody}]
           ended == IF c \in Runs THEN Ended(c) ELSE run
           reaped == Reaped(ended, c)
<1>1. ended \in [Runs -> RunType] /\ \A q \in Runs : ended[q].job = run[q].job
  <2>1. run \in [Runs -> RunType]
    BY DEF RunsType
  <2>2. CASE c \in Runs
    <3> DEFINE kept == IF run[c].parent # Nobody THEN "zombie" ELSE "gone"
               row == [run[c] EXCEPT !.state = kept]
    <3>1. row \in RunType /\ row.job = run[c].job
      BY <2>1, <2>2
    <3>2. ended = [run EXCEPT ![c] = row]
      BY <2>2 DEF Ended
    <3> HIDE DEF row, ended, RunType
    <3> QED BY <2>1, <3>1, <3>2
  <2>3. CASE c \notin Runs
    BY <2>1, <2>3
  <2> QED BY <2>2, <2>3
<1>2. reaped \in [Runs -> RunType] /\ \A q \in Runs : reaped[q].job = run[q].job
  <2> HIDE DEF ended
  <2> QED BY <1>1 DEF Reaped
<1>3. run' = Orphaned(reaped, c)
  BY DEF Gone
<1>4. run' \in [Runs -> RunType] /\ \A q \in Runs : run'[q].job = run[q].job
  <2> HIDE DEF reaped
  <2> QED BY <1>2, <1>3 DEF Orphaned
<1> QED BY <1>4 DEF RunsType, KeepsJobs, Gone, Go

\* A process ends without a write.
LEMMA EndKeeps ==
  ASSUME IInv, NEW c \in Clients, Gone(c), UNCHANGED <<files, noted>>, deaths' \in 0..MaxDeaths
  PROVE  Kept
<1>1. KeepsJobs(run, run') /\ RunsType' /\ at' = [at EXCEPT ![c] = Idle]
  BY GoneKeepsJobs DEF IInv, RunsType
<1>2. FilesInv' /\ OnDisk' = OnDisk
  BY <1>1, FilesStepKeeps DEF IInv, FilesStep, OnDisk, files
<1>3. SessionOK(Idle, DOMAIN OnDisk', run')
  BY IdleOK
<1>4. noted' \in DOMAIN OnDisk' \cup {0}
  BY <1>2 DEF IInv
<1> QED BY <1>1, <1>2, <1>3, <1>4, StepKeeps DEF Kept

\* A process dies outside a save.
LEMMA DieKeeps ==
  ASSUME IInv, NEW c \in Clients, Die(c)
  PROVE  Kept
<1>1. deaths' \in 0..MaxDeaths
  BY JobsAssumption DEF Die, IInv
<1> QED BY <1>1, EndKeeps DEF Die

\* A run leaves when it has filled the slots.
LEMMA LeaveKeeps ==
  ASSUME IInv, NEW r \in Runs, Leave(r)
  PROVE  Kept
<1>1. r \in Clients /\ deaths' \in 0..MaxDeaths
  BY DEF Leave, Clients, IInv
<1> QED BY <1>1, EndKeeps DEF Leave

\* A verdict is written.
LEMMA FinishKeeps ==
  ASSUME IInv, NEW c \in Clients, Finish(c)
  PROVE  Kept
<1> DEFINE rows == IF Found(c) THEN Set(c, "done", Nobody) ELSE at[c].rows
<1>1. Savable(rows, run, DOMAIN OnDisk)
  <2>1. CASE Found(c)
    <3> DEFINE row == Row("done", Nobody)
    <3>1. row \in AnyRow /\ row.status # "running"
      BY DEF Row, AnyRow, Statuses
    <3>2. Savable([at[c].rows EXCEPT ![at[c].job] = row], run, DOMAIN OnDisk)
      <4> HIDE DEF row
      <4> QED BY <3>1, SetIsSavable
    <3> QED BY <2>1, <3>2 DEF Set
  <2>2. CASE ~Found(c)
    BY <2>2, HeldRows
  <2> QED BY <2>1, <2>2
<1>2. Save(rows) /\ UNCHANGED <<noted, deaths>>
  BY DEF Finish
<1>3. FilesStep
  <2> HIDE DEF rows
  <2> QED BY <1>1, <1>2 DEF FilesStep
<1>4. /\ KeepsJobs(run, run') /\ RunsType'
      /\ \E s : at' = [at EXCEPT ![c] = s] /\ SessionOK(s, DOMAIN OnDisk, run')
  <2>1. CASE Gone(c)
    <3>1. SessionOK(Idle, DOMAIN OnDisk, run')
      BY IdleOK
    <3> QED BY <2>1, <3>1, GoneKeepsJobs DEF IInv, RunsType
  <2>2. CASE /\ run' \in {[run EXCEPT ![c].state = "certifying"],
                          [run EXCEPT ![c].state = "filling"]}
             /\ Go(c, Doing("finish", at[c].job)) \/ Go(c, Idle)
    <3>1. PICK v \in {"certifying", "filling"} : run' = [run EXCEPT ![c].state = v]
      BY <2>2
    <3> DEFINE RunType == [state : {"unborn", "zombie", "gone"} \cup Existing,
                           job : 0..MaxJobs, parent : Clients \cup {Nobody}]
    <3>2. run' \in [Runs -> RunType] /\ \A q \in Runs : run'[q].job = run[q].job
      <4>1. run \in [Runs -> RunType]
        BY DEF IInv
      <4>2. CASE c \in Runs
        <5> DEFINE row == [run[c] EXCEPT !.state = v]
        <5>1. row \in RunType /\ row.job = run[c].job
          BY <4>1, <4>2 DEF Existing
        <5>2. run' = [run EXCEPT ![c] = row]
          BY <3>1
        <5> HIDE DEF row, RunType
        <5> QED BY <4>1, <4>2, <5>1, <5>2
      <4>3. CASE c \notin Runs
        <5>1. run' = run
          BY <3>1, <4>1, <4>3
        <5> QED BY <4>1, <5>1
      <4> QED BY <4>2, <4>3
    <3>3. KeepsJobs(run, run') /\ RunsType'
      BY <3>2 DEF KeepsJobs, RunsType
    <3>4. SessionOK(Doing("finish", at[c].job), DOMAIN OnDisk, run')
      <4>1. at[c].job \in 0..MaxJobs /\ "finish" \in Ops
        BY HeldRows DEF Session, Ops
      <4> QED BY <4>1, DoingOK
    <3>5. SessionOK(Idle, DOMAIN OnDisk, run')
      BY IdleOK
    <3> QED BY <2>2, <3>3, <3>4, <3>5 DEF Go
  <2> QED BY <2>1, <2>2 DEF Finish
<1>5. FilesInv' /\ DOMAIN OnDisk \subseteq DOMAIN OnDisk'
  BY <1>3, <1>4, FilesStepKeeps DEF IInv
<1>6. PICK s : at' = [at EXCEPT ![c] = s] /\ SessionOK(s, DOMAIN OnDisk, run')
  BY <1>4
<1>7. SessionOK(s, DOMAIN OnDisk', run')
  BY <1>5, <1>6, SessionStays DEF KeepsJobs
<1>8. noted' \in DOMAIN OnDisk' \cup {0} /\ deaths' \in 0..MaxDeaths
  BY <1>2, <1>5 DEF IInv
<1> QED BY <1>4, <1>5, <1>6, <1>7, <1>8, StepKeeps DEF Kept

\* A death between the renames: the file has become the backup.
LEMMA DieSavingKeeps ==
  ASSUME IInv, NEW c \in Clients, DieSaving(c)
  PROVE  Kept
<1>1. /\ Gone(c) /\ primary.there /\ bak' = primary /\ primary' = Missing
      /\ deaths' = deaths + 1 /\ deaths < MaxDeaths /\ noted' = noted
  BY DEF DieSaving
<1>2. KeepsJobs(run, run') /\ RunsType' /\ at' = [at EXCEPT ![c] = Idle]
  BY <1>1, GoneKeepsJobs DEF IInv, RunsType
<1>3. primary'.rows = Empty /\ primary'.there = FALSE
  BY <1>1 DEF Missing
<1>4. LedgerOK(primary.rows, run')
  BY <1>2, LedgerStays DEF IInv, FilesInv
<1>5. FilesInv'
  BY <1>1, <1>3, <1>4, EmptyIsALedger DEF FilesInv
<1>6. DOMAIN OnDisk \subseteq DOMAIN OnDisk'
  <2>1. OnDisk' = primary.rows
    BY <1>1, <1>3 DEF OnDisk
  <2>2. primary.rows = Empty => DOMAIN bak.rows = {}
    BY <1>1, EmptyIsALedger DEF IInv, FilesInv
  <2> QED BY <2>1, <2>2 DEF OnDisk
<1>7. deaths' \in 0..MaxDeaths /\ noted' \in DOMAIN OnDisk' \cup {0}
  BY <1>1, <1>6, JobsAssumption DEF IInv
<1>8. SessionOK(Idle, DOMAIN OnDisk', run')
  BY IdleOK
<1> QED BY <1>2, <1>5, <1>6, <1>7, <1>8, StepKeeps DEF Kept

(***************************************************************************)
(* The theorems                                                            *)
(***************************************************************************)

\* There is no file at first.
LEMMA InitHolds ==
  ASSUME Init PROVE IInv
<1>1. Missing.rows = Empty /\ Missing.there = FALSE
  BY DEF Missing
<1>2. FilesInv
  BY <1>1, EmptyIsALedger DEF Init, FilesInv
<1>3. \A c \in Clients : SessionOK(at[c], DOMAIN OnDisk, run)
  BY IdleOK DEF Init
<1>4. at = [c \in Clients |-> at[c]]
  BY DEF Init
<1>5. Born \in [state : {"unborn", "zombie", "gone"} \cup Existing,
                job : 0..MaxJobs, parent : Clients \cup {Nobody}]
  BY JobsAssumption DEF Born, Existing
<1> QED BY <1>2, <1>3, <1>4, <1>5, JobsAssumption DEF Init, IInv

\* Every step keeps the invariant and every id.
LEMMA NextKeeps ==
  ASSUME IInv, [Next]_vars
  PROVE  Kept
<1>1. CASE UNCHANGED vars
  <2>1. UNCHANGED <<primary, bak, noted, at, run, deaths>>
    BY <1>1 DEF vars, files
  <2>2. OnDisk' = OnDisk
    BY <2>1 DEF OnDisk
  <2> QED BY <2>1, <2>2 DEF IInv, FilesInv, Kept
<1>2. ASSUME NEW c \in Clients, Work(c) PROVE Kept
  BY <1>2, LoadKeeps, RefreshKeeps, RecordKeeps, NoteJobIdKeeps, StampKeeps,
     StartRefusedKeeps, SpawnKeeps, StartedKeeps, FinishKeeps DEF Work
<1>3. ASSUME NEW c \in Clients, Look(c) \/ Stage(c) \/ Fill(c) \/ Die(c) \/ DieSaving(c)
      PROVE  Kept
  BY <1>3, LookKeeps, StageKeeps, FillKeeps, DieKeeps, DieSavingKeeps
<1>4. ASSUME NEW r \in Runs, Verdict(r) \/ Leave(r)
      PROVE  Kept
  BY <1>4, VerdictKeeps, LeaveKeeps
<1> QED BY <1>1, <1>2, <1>3, <1>4 DEF Next

\* The inductive invariant.
LEMMA Inductive == Spec => []IInv
<1>1. IInv /\ [Next]_vars => IInv'
  BY NextKeeps DEF Kept
<1> QED BY <1>1, InitHolds, PTL DEF Spec

\* Both files hold ledgers with ids from 1, and a running row names a
\* validator spawned for that job.
THEOREM TypeCorrect == Spec => []TypeOK
<1>1. ASSUME IInv PROVE TypeOK
  <2>1. /\ primary.rows \in Ledgers /\ bak.rows \in Ledgers
        /\ Named(primary.rows, run) /\ Named(bak.rows, run)
    BY <1>1 DEF IInv, FilesInv, LedgerOK
  <2>2. primary.there => DOMAIN bak.rows \subseteq DOMAIN primary.rows
    BY <1>1 DEF IInv, FilesInv
  <2>3. noted \in 0..MaxJobs
    <3>1. PICK m \in 0..MaxJobs : DOMAIN OnDisk = 1..m
      BY <1>1, OnDiskIsALedger, LedgerShape DEF IInv
    <3> QED BY <1>1, <3>1, JobsAssumption DEF IInv
  <2>4. deaths \in 0..MaxDeaths
    BY <1>1 DEF IInv
  <2> QED BY <2>1, <2>2, <2>3, <2>4 DEF TypeOK, Named
<1> QED BY <1>1, Inductive, PTL

\* No id that was ever written is dropped: not by the save of an old copy and
\* not by a death between the two renames.
THEOREM NoIdIsDropped == Spec => IdsAreKept
<1>1. IInv /\ [Next]_vars => [DOMAIN OnDisk \subseteq DOMAIN OnDisk']_vars
  BY NextKeeps DEF Kept
<1> QED BY <1>1, Inductive, PTL DEF Spec, IdsAreKept

(***************************************************************************)
(* Lost verdicts                                                           *)
(***************************************************************************)

Done(rows) == With(rows, {"done"})

\* A save keeps a verdict unless the rows it is given say otherwise.
LEMMA SaveKeepsVerdict ==
  ASSUME FilesInv, NEW rows, Save(rows), NEW j \in Done(OnDisk),
         j \in DOMAIN rows => rows[j].status = "done"
  PROVE  j \in Done(OnDisk')
<1>0. j \in DOMAIN OnDisk /\ OnDisk[j].status = "done"
  BY DEF Done, With
<1>1. CASE rows = Empty /\ OnDisk # Empty
  <2>1. OnDisk' = OnDisk
    BY <1>1 DEF Save, files, OnDisk
  <2> QED BY <2>1
<1>2. CASE ~(rows = Empty /\ OnDisk # Empty)
  <2> DEFINE merged == Merged(rows)
  <2>1. primary'.rows = merged
    BY <1>2 DEF Save
  <2>2. /\ j \in DOMAIN merged
        /\ merged[j] = IF j \in DOMAIN rows THEN rows[j] ELSE OnDisk[j]
    BY <1>0 DEF Merged, MergeById
  <2> HIDE DEF merged
  <2>3. merged # Empty
    BY <2>2, EmptyIsALedger
  <2>4. OnDisk' = merged
    BY <2>1, <2>3 DEF OnDisk
  <2> QED BY <1>0, <2>2, <2>4 DEF Done, With
<1> QED BY <1>1, <1>2

\* The files are left, or saved with rows that keep what nobody overwrites.
Faithful(c) ==
  \/ UNCHANGED files
  \/ \E rows : /\ Save(rows)
               /\ \A j \in DOMAIN rows : ~Overwrites(c, j) => rows[j].status = "done"

\* Rows a process holds are done where it overwrites none.
LEMMA HeldAreDone ==
  ASSUME NEW c \in Clients, at[c].loaded, NEW j \in DOMAIN at[c].rows, ~Overwrites(c, j)
  PROVE  at[c].rows[j].status = "done"
BY DEF Overwrites

\* refresh_job_liveness marks running rows only.
LEMMA RefreshIsFaithful ==
  ASSUME NEW c \in Clients, Refresh(c)
  PROVE  Faithful(c)
<1> DEFINE rows == [j \in DOMAIN at[c].rows |->
                     IF j \in Dead(at[c].rows)
                     THEN [at[c].rows[j] EXCEPT !.status = "failed"] ELSE at[c].rows[j]]
<1>1. at[c].loaded /\ (UNCHANGED files \/ Save(rows))
  BY DEF Refresh, Mine
<1>2. ASSUME NEW j \in DOMAIN rows, ~Overwrites(c, j) PROVE rows[j].status = "done"
  <2>1. j \in DOMAIN at[c].rows /\ at[c].rows[j].status = "done"
    BY <1>1, <1>2, HeldAreDone
  <2>2. j \notin Dead(at[c].rows)
    BY <2>1 DEF Dead, With
  <2> QED BY <2>1, <2>2
<1> HIDE DEF rows
<1> QED BY <1>1, <1>2 DEF Faithful

\* _record_job adds one row.
LEMMA RecordIsFaithful ==
  ASSUME NEW c \in Clients, Record(c)
  PROVE  Faithful(c)
<1> DEFINE id == NextId(at[c].rows)
           status == IF at[c].op = "launch" THEN "queued" ELSE "standby"
           new == [j \in {id} |-> Row(status, Nobody)]
           rows == MergeById(at[c].rows, new)
<1>1. at[c].loaded /\ at[c].op \in {"stage", "launch"} /\ (UNCHANGED files \/ Save(rows))
  BY DEF Record
<1>2. ASSUME NEW j \in DOMAIN rows, ~Overwrites(c, j) PROVE rows[j].status = "done"
  <2>1. j # id
    BY <1>1, <1>2 DEF Overwrites
  <2>2. DOMAIN rows = DOMAIN at[c].rows \cup DOMAIN new /\ DOMAIN new = {id}
    BY MergeShape
  <2>3. j \in DOMAIN at[c].rows
    BY <2>1, <2>2
  <2>4. rows[j] = at[c].rows[j]
    BY <2>3 DEF MergeById
  <2> QED BY <1>1, <1>2, <2>3, <2>4, HeldAreDone
<1> HIDE DEF rows
<1> QED BY <1>1, <1>2 DEF Faithful

\* Rows held, with the status of one set.
LEMMA OneRowSet ==
  ASSUME NEW c \in Clients, at[c].loaded, NEW f, DOMAIN f = DOMAIN at[c].rows,
         \A j \in DOMAIN f : j # at[c].job => f[j] = at[c].rows[j],
         at[c].job \in DOMAIN f =>
           \/ Overwrites(c, at[c].job)
           \/ f[at[c].job].status = "done"
           \/ f[at[c].job].status = at[c].rows[at[c].job].status
  PROVE  \A j \in DOMAIN f : ~Overwrites(c, j) => f[j].status = "done"
BY HeldAreDone

\* stamp_job and start_job touch the row they set out for.
LEMMA StampIsFaithful ==
  ASSUME NEW c \in Clients, Stamp(c)
  PROVE  Faithful(c)
<1> DEFINE status == IF at[c].op = "queue" THEN "queued" ELSE at[c].rows[at[c].job].status
           rows == [at[c].rows EXCEPT ![at[c].job].status = status]
<1>1. at[c].loaded /\ at[c].op \in {"stamp", "queue"} /\ (UNCHANGED files \/ Save(rows))
  BY DEF Stamp
<1>2. DOMAIN rows = DOMAIN at[c].rows
      /\ \A j \in DOMAIN rows : j # at[c].job => rows[j] = at[c].rows[j]
  OBVIOUS
<1>3. at[c].job \in DOMAIN rows =>
        Overwrites(c, at[c].job) \/ rows[at[c].job].status = at[c].rows[at[c].job].status
  <2>1. CASE at[c].op = "queue"
    BY <1>1, <2>1 DEF Overwrites
  <2>2. CASE at[c].op # "queue"
    BY <2>2
  <2> QED BY <2>1, <2>2
<1> HIDE DEF rows
<1> QED BY <1>1, <1>2, <1>3, OneRowSet DEF Faithful

LEMMA StartIsFaithful ==
  ASSUME NEW c \in Clients, StartRefused(c) \/ Started(c)
  PROVE  Faithful(c)
<1>1. at[c].loaded /\ at[c].op = "start"
  BY DEF StartRefused, Started, Mine
<1>2. Overwrites(c, at[c].job)
  BY <1>1 DEF Overwrites
<1>3. ASSUME NEW f, DOMAIN f = DOMAIN at[c].rows,
             \A j \in DOMAIN f : j # at[c].job => f[j] = at[c].rows[j], Save(f)
      PROVE  Faithful(c)
  BY <1>1, <1>2, <1>3, OneRowSet DEF Faithful
<1>4. ASSUME NEW x, Save([at[c].rows EXCEPT ![at[c].job].status = x])
      PROVE  Faithful(c)
  <2> DEFINE f == [at[c].rows EXCEPT ![at[c].job].status = x]
  <2>1. DOMAIN f = DOMAIN at[c].rows
        /\ \A j \in DOMAIN f : j # at[c].job => f[j] = at[c].rows[j]
    OBVIOUS
  <2>2. Save(f)
    BY <1>4
  <2> HIDE DEF f
  <2> QED BY <1>3, <2>1, <2>2
<1>5. CASE StartRefused(c)
  BY <1>4, <1>5 DEF StartRefused, Faithful
<1>6. CASE Started(c)
  <2> DEFINE f == Set(c, "running", at[c].run)
  <2>1. Save(f)
    BY <1>6 DEF Started
  <2>2. DOMAIN f = DOMAIN at[c].rows
        /\ \A j \in DOMAIN f : j # at[c].job => f[j] = at[c].rows[j]
    BY DEF Set
  <2> HIDE DEF f
  <2> QED BY <1>3, <2>1, <2>2
<1> QED BY <1>5, <1>6

\* finish_job writes a verdict over whatever the row says.
LEMMA FinishIsFaithful ==
  ASSUME NEW c \in Clients, Finish(c)
  PROVE  Faithful(c)
<1> DEFINE f == IF Found(c) THEN Set(c, "done", Nobody) ELSE at[c].rows
<1>1. at[c].loaded /\ Save(f)
  BY DEF Finish, Mine
<1>2. /\ DOMAIN f = DOMAIN at[c].rows
      /\ \A j \in DOMAIN f : j # at[c].job => f[j] = at[c].rows[j]
      /\ at[c].job \in DOMAIN f => f[at[c].job].status = "done"
  BY DEF Set, Found, Row
<1> HIDE DEF f
<1> QED BY <1>1, <1>2, OneRowSet DEF Faithful

\* The step of a process loses a verdict only if it overwrites it.
LEMMA FaithfulKeeps ==
  ASSUME FilesInv, NEW c \in Clients, Faithful(c), NEW j \in Done(OnDisk), ~Overwrites(c, j)
  PROVE  j \in Done(OnDisk')
<1>1. CASE UNCHANGED files
  <2>1. OnDisk' = OnDisk
    BY <1>1 DEF files, OnDisk
  <2> QED BY <2>1
<1>2. ASSUME NEW rows, Save(rows),
             \A k \in DOMAIN rows : ~Overwrites(c, k) => rows[k].status = "done"
      PROVE  j \in Done(OnDisk')
  BY <1>2, SaveKeepsVerdict
<1> QED BY <1>1, <1>2 DEF Faithful

\* A death between the renames leaves the rows in the backup.
LEMMA DieSavingLosesNone ==
  ASSUME FilesInv, NEW c \in Clients, DieSaving(c)
  PROVE  OnDisk' = OnDisk
<1>1. primary.there /\ bak' = primary /\ primary' = Missing
  BY DEF DieSaving
<1>2. OnDisk' = primary.rows
  BY <1>1 DEF OnDisk, Missing
<1>3. primary.rows = Empty => bak.rows = Empty
  <2>1. bak.rows \in Ledgers
    BY DEF FilesInv, LedgerOK
  <2>2. DOMAIN bak.rows \subseteq DOMAIN primary.rows
    BY <1>1 DEF FilesInv
  <2> QED BY <2>1, <2>2, EmptyIsALedger
<1> QED BY <1>2, <1>3 DEF OnDisk

\* A verdict is lost only to a process that loaded the rows before it was
\* written, records a new job under its id, or queues or starts that job.
THEOREM OnlyOverwritesLoseVerdicts == Spec => VerdictsAreOverwritten
<1> DEFINE Kind == \A j \in Done(OnDisk) \ Done(OnDisk') : \E c \in Clients : Overwrites(c, j)
<1>1. ASSUME FilesInv, [Next]_vars PROVE Kind
  <2>1. CASE UNCHANGED files
    <3>1. OnDisk' = OnDisk
      BY <2>1 DEF files, OnDisk
    <3> QED BY <3>1
  <2>2. ASSUME NEW c \in Clients, Faithful(c) PROVE Kind
    BY <1>1, <2>2, FaithfulKeeps
  <2>3. ASSUME NEW c \in Clients, Work(c) PROVE Kind
    <3>1. Load(c) \/ NoteJobId(c) \/ Spawn(c) => UNCHANGED files
      BY DEF Load, Begin, NoteJobId, Spawn
    <3>2. Refresh(c) \/ Record(c) \/ Stamp(c) \/ StartRefused(c) \/ Started(c) \/ Finish(c)
            => Faithful(c)
      BY RefreshIsFaithful, RecordIsFaithful, StampIsFaithful, StartIsFaithful,
         FinishIsFaithful
    <3>3. UNCHANGED files \/ Faithful(c)
      BY <2>3, <3>1, <3>2 DEF Work
    <3> QED BY <2>1, <2>2, <3>3
  <2>4. ASSUME NEW c \in Clients, Look(c) \/ Stage(c) \/ Fill(c) \/ Die(c) PROVE UNCHANGED files
    BY <2>4 DEF Look, Stage, Fill, Begin, Die
  <2>5. ASSUME NEW c \in Clients, DieSaving(c) PROVE Kind
    BY <1>1, <2>5, DieSavingLosesNone
  <2>6. ASSUME NEW r \in Runs, Verdict(r) \/ Leave(r) PROVE UNCHANGED files
    BY <2>6 DEF Verdict, Begin, Leave
  <2>7. UNCHANGED vars => UNCHANGED files
    BY DEF vars
  <2> HIDE DEF Kind
  <2> QED BY <1>1, <2>1, <2>3, <2>4, <2>5, <2>6, <2>7 DEF Next
<1>2. IInv => FilesInv
  BY DEF IInv
<1>3. Spec => [][Kind]_vars
  BY <1>1, <1>2, Inductive, PTL DEF Spec
<1> QED BY <1>3 DEF VerdictsAreOverwritten, Done
===========================================================================
