---------------------------- MODULE ResearchJobs ----------------------------
(***************************************************************************)
(* The ledger of walk-forward jobs: a JSON file that the desk's processes  *)
(* and the validators they spawn read and write.  A load and a save each   *)
(* hold the file lock; nothing holds it from the load to the save.         *)
(*                                                                         *)
(* Both files are written whole and renamed, so a reader finds them whole  *)
(* or missing.  Left out: which hypothesis a job tests, the gates that     *)
(* send a standby row back, process ids given twice, and the saves that    *)
(* change no status (certificate, Inbox mark); Stamp has one of that kind. *)
(*                                                                         *)
(* The host is a POSIX one with an init: on Windows there is no fcntl and  *)
(* the file lock does nothing, so that a load and a save are not one step. *)
(***************************************************************************)
EXTENDS Integers, FiniteSets, FiniteSetsExt

CONSTANTS
  Desks,      \* the paper loop and the API: both advance the pipeline
  WfParallelism,
  MaxJobs, MaxSpawns, MaxDeaths

ASSUME JobsAssumption ==
  /\ WfParallelism \in Nat \ {0}
  /\ {MaxJobs, MaxSpawns, MaxDeaths} \subseteq Nat

VARIABLES
  primary,  \* research_jobs.json
  bak,      \* research_jobs.json.bak
  noted,    \* max_job_id of the walk-forward history
  at,       \* what each process is doing
  run,      \* the validators spawned
  deaths

files == <<primary, bak>>
vars == <<files, noted, at, run, deaths>>

Jobs == 1..MaxJobs
Runs == 1..MaxSpawns
Clients == Desks \cup Runs
Nobody == 0

Row(status, r) == [status |-> status, run |-> r]
Statuses == {"standby", "queued", "running", "done", "failed"}
Live == {"queued", "running"}
With(rows, s) == {j \in DOMAIN rows : rows[j].status \in s}

Empty == [j \in {} |-> Row("standby", Nobody)]
Missing == [there |-> FALSE, rows |-> Empty]

Idle == [op |-> "idle", loaded |-> FALSE, job |-> 0, rows |-> Empty, run |-> Nobody]
Doing(op, j) == [Idle EXCEPT !.op = op, !.job = j]
Go(c, session) == at' = [at EXCEPT ![c] = session]

Born == [state |-> "unborn", job |-> 0, parent |-> Nobody]
Existing == {"working", "certifying", "filling"}
Up == Desks \cup {r \in Runs : run[r].state \in Existing}

Init ==
  /\ primary = Missing /\ bak = Missing /\ noted = 0
  /\ at = [c \in Clients |-> Idle]
  /\ run = [r \in Runs |-> Born]
  /\ deaths = 0
---------------------------------------------------------------------------
(* The files. *)

\* _load: a missing file is an empty ledger, whatever the backup holds.
Loaded == primary.rows

\* Fault: a missing file is taken for an empty one by the save too.
OnDiskNoBak == primary.rows

\* What _save reads under its own lock.
OnDisk == IF primary.rows # Empty THEN primary.rows ELSE bak.rows

\* Fault: the caller's rows replace the file.
Replaced(rows) == rows

\* _merge_jobs_by_id: the caller's rows win.
MergeById(rows, others) ==
  [j \in DOMAIN rows \cup DOMAIN others |->
     IF j \in DOMAIN rows THEN rows[j] ELSE others[j]]
Merged(rows) == MergeById(rows, OnDisk)

\* _save; an empty list never replaces rows.
Save(rows) ==
  IF rows = Empty /\ OnDisk # Empty THEN UNCHANGED files
  ELSE /\ bak' = IF primary.there THEN primary ELSE bak
       /\ primary' = [there |-> TRUE, rows |-> Merged(rows)]

NextId(rows) == Max(DOMAIN rows \cup {noted}) + 1
---------------------------------------------------------------------------
(* Processes. *)

\* pid_alive: os.kill(pid, 0) also finds a dead child nobody has waited for.
PidAlive(r) == run[r].state \in Existing \cup {"zombie"}

\* A child is reaped by init when its parent is gone, or by the parent's
\* next Popen; nobody waits for it.
Reaped(rs, c) ==
  [r \in Runs |-> IF rs[r].parent = c /\ rs[r].state = "zombie"
                  THEN [rs[r] EXCEPT !.state = "gone"] ELSE rs[r]]
Orphaned(rs, c) ==
  [r \in Runs |-> IF rs[r].parent = c THEN [rs[r] EXCEPT !.parent = Nobody] ELSE rs[r]]
Ended(r) ==
  [run EXCEPT ![r].state = IF run[r].parent # Nobody THEN "zombie" ELSE "gone"]

\* The process is gone.  A desk is started again.
Gone(c) ==
  /\ Go(c, Idle)
  /\ run' = LET rs == IF c \in Runs THEN Ended(c) ELSE run
            IN  Orphaned(Reaped(rs, c), c)

Die(c) ==
  /\ c \in Up /\ deaths < MaxDeaths /\ deaths' = deaths + 1
  /\ Gone(c)
  /\ UNCHANGED <<files, noted>>

Leave(r) ==
  /\ run[r].state = "filling" /\ at[r] = Idle
  /\ Gone(r)
  /\ UNCHANGED <<files, noted, deaths>>
---------------------------------------------------------------------------
(* What a process sets out to do. *)

Free(c) == at[c] = Idle /\ c \in Desks \cup {r \in Runs : run[r].state = "filling"}
Begin(c, session) == Go(c, session) /\ UNCHANGED <<files, noted, run, deaths>>
Loading(op, j) == [Doing(op, j) EXCEPT !.loaded = TRUE, !.rows = Loaded]

\* list_jobs and advance_pipeline.
Look(c) == Free(c) /\ Begin(c, Loading("refresh", 0))

\* stage_standby, and on_operator_approved, which starts what it records.
Stage(c) ==
  /\ Free(c) /\ NextId(Loaded) \in Jobs
  /\ \E op \in {"stage"} \cup (IF c \in Desks THEN {"launch"} ELSE {}) :
       Begin(c, Loading(op, 0))

\* fill_walk_forward_slots picks a standby row while a slot is free.
Fill(c) ==
  /\ Free(c) /\ Cardinality(With(Loaded, Live)) < WfParallelism
  /\ \E j \in With(Loaded, {"standby"}) : Begin(c, Doing("queue", j))

\* The validator ends.  "done" stands for each verdict it may write: the row
\* of a validator that raised says "failed" with the reason, and is read alike.
Verdict(r) ==
  /\ run[r].state = "working" /\ at[r] = Idle
  /\ Begin(r, Loading("finish", run[r].job))

Load(c) ==
  /\ at[c].op \notin {"idle", "note", "noteThenStart"} /\ ~at[c].loaded
  /\ Begin(c, Loading(at[c].op, at[c].job))
---------------------------------------------------------------------------
(* What it does with the rows it loaded. *)

Mine(c, op) == at[c].op = op /\ at[c].loaded
Set(c, status, r) == [at[c].rows EXCEPT ![at[c].job] = Row(status, r)]
Found(c) == at[c].job \in DOMAIN at[c].rows

\* Fault: only rows without a process id are failed.
DeadUnspawned(rows) == {j \in With(rows, {"running"}) : rows[j].run = Nobody}

\* refresh_job_liveness, after the load.
Dead(rows) == {j \in With(rows, {"running"}) : ~PidAlive(rows[j].run)}
Refresh(c) ==
  LET rows == at[c].rows
      dead == Dead(rows)
  IN  /\ Mine(c, "refresh")
      /\ IF dead = {} THEN UNCHANGED files
         ELSE Save([j \in DOMAIN rows |->
                      IF j \in dead THEN [rows[j] EXCEPT !.status = "failed"] ELSE rows[j]])
      /\ Go(c, Idle)
      /\ UNCHANGED <<noted, run, deaths>>

\* _record_job; the id is noted after the save.
Record(c) ==
  LET id == NextId(at[c].rows)
      status == IF at[c].op = "launch" THEN "queued" ELSE "standby"
  IN  /\ at[c].op \in {"stage", "launch"} /\ at[c].loaded
      /\ IF id \notin Jobs THEN UNCHANGED files /\ Go(c, Idle)
         ELSE /\ Save(MergeById(at[c].rows, [j \in {id} |-> Row(status, Nobody)]))
              /\ Go(c, Doing(IF at[c].op = "launch" THEN "noteThenStart" ELSE "note", id))
      /\ UNCHANGED <<noted, run, deaths>>

NoteJobId(c) ==
  /\ at[c].op \in {"note", "noteThenStart"}
  /\ noted' = Max({noted, at[c].job})
  /\ Go(c, Doing(IF at[c].op = "note" THEN "stamp" ELSE "start", at[c].job))
  /\ UNCHANGED <<files, run, deaths>>

\* stamp_job: of a row just staged, whose status it keeps, and of one that is
\* to be started.
Stamp(c) ==
  LET queue == at[c].op = "queue"
      status == IF queue THEN "queued" ELSE at[c].rows[at[c].job].status
  IN  /\ at[c].op \in {"stamp", "queue"} /\ at[c].loaded
      /\ IF Found(c) THEN Save([at[c].rows EXCEPT ![at[c].job].status = status])
                     ELSE UNCHANGED files
      /\ Go(c, IF queue THEN Doing("start", at[c].job) ELSE Idle)
      /\ UNCHANGED <<noted, run, deaths>>

\* start_job: the row is gone, the cap is full, or Popen raises.
StartRefused(c) ==
  /\ Mine(c, "start") /\ at[c].run = Nobody
  /\ IF ~Found(c) THEN UNCHANGED files
     ELSE \/ /\ Cardinality(With(at[c].rows, {"running"})) >= WfParallelism
             /\ Save([at[c].rows EXCEPT ![at[c].job].status = "standby"])
          \/ /\ Cardinality(With(at[c].rows, {"running"})) < WfParallelism
             /\ Save([at[c].rows EXCEPT ![at[c].job].status = "failed"])
  /\ Go(c, Idle)
  /\ UNCHANGED <<noted, run, deaths>>

\* start_job: the process exists before the ledger says so.
Spawn(c) ==
  /\ Mine(c, "start") /\ at[c].run = Nobody /\ Found(c)
  /\ Cardinality(With(at[c].rows, {"running"})) < WfParallelism
  /\ \E r \in Runs :
       /\ run[r] = Born /\ \A q \in 1..(r - 1) : run[q] # Born
       /\ run' = [Reaped(run, c) EXCEPT ![r] =
                    [state |-> "working", job |-> at[c].job, parent |-> c]]
       /\ Go(c, [at[c] EXCEPT !.run = r])
  /\ UNCHANGED <<files, noted, deaths>>

Started(c) ==
  /\ Mine(c, "start") /\ at[c].run # Nobody
  /\ Save(Set(c, "running", at[c].run))
  /\ Go(c, Idle)
  /\ UNCHANGED <<noted, run, deaths>>

\* finish_job writes the verdict twice, each time into rows it loaded afresh;
\* a row it does not find the first time ends the process.
Finish(c) ==
  LET first == run[c].state = "working"
  IN  /\ Mine(c, "finish")
      /\ Save(IF Found(c) THEN Set(c, "done", Nobody) ELSE at[c].rows)
      /\ IF first /\ Found(c)
         THEN /\ Go(c, Doing("finish", at[c].job))
              /\ run' = [run EXCEPT ![c].state = "certifying"]
         ELSE IF first THEN Gone(c)
         ELSE Go(c, Idle) /\ run' = [run EXCEPT ![c].state = "filling"]
      /\ UNCHANGED <<noted, deaths>>

\* Does it call _save with rows that are written?
Saves(c) ==
  \/ Mine(c, "refresh") /\ Dead(at[c].rows) # {}
  \/ at[c].op \in {"stage", "launch"} /\ at[c].loaded /\ NextId(at[c].rows) \in Jobs
  \/ at[c].op \in {"stamp", "queue", "start"} /\ at[c].loaded /\ Found(c)
  \/ Mine(c, "finish") /\ ~(at[c].rows = Empty /\ OnDisk # Empty)

\* Death between the two renames of _atomic_write_jobs.
DieSaving(c) ==
  /\ Saves(c) /\ primary.there
  /\ deaths < MaxDeaths /\ deaths' = deaths + 1
  /\ bak' = primary /\ primary' = Missing
  /\ Gone(c)
  /\ UNCHANGED noted
---------------------------------------------------------------------------
Work(c) ==
  \/ Load(c) \/ Refresh(c) \/ Record(c) \/ NoteJobId(c) \/ Stamp(c)
  \/ StartRefused(c) \/ Spawn(c) \/ Started(c) \/ Finish(c)

Next ==
  \/ \E c \in Clients : Work(c) \/ Look(c) \/ Stage(c) \/ Fill(c) \/ Die(c) \/ DieSaving(c)
  \/ \E r \in Runs : Verdict(r) \/ Leave(r)

Spec == Init /\ [][Next]_vars

\* A process that set out finishes its step, and the paper loop comes back to
\* advance_pipeline in every cycle, whatever else it does between two of them.
FairSpec ==
  /\ Spec
  /\ \A c \in Clients : WF_vars(Work(c))
  /\ \A d \in Desks : SF_vars(Look(d))
=============================================================================
