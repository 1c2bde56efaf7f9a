-------------------------- MODULE ResearchJobsProps --------------------------
(***************************************************************************)
(* What the ledger of walk-forward jobs promises.                          *)
(***************************************************************************)
EXTENDS ResearchJobs

AnyRow == [status : Statuses, run : Runs \cup {Nobody}]
Ledgers ==
  {rows \in UNION {[1..n -> AnyRow] : n \in 0..MaxJobs} :
     \A j \in DOMAIN rows : rows[j].status = "running" => rows[j].run # Nobody}

\* Both files hold ledgers whose ids run from 1, the backup never knows a job
\* the file does not, and a running row names a validator that was spawned
\* for that job.
TypeOK ==
  /\ {primary.rows, bak.rows} \subseteq Ledgers
  /\ primary.there => DOMAIN bak.rows \subseteq DOMAIN primary.rows
  /\ noted \in 0..MaxJobs /\ deaths \in 0..MaxDeaths
  /\ \A f \in {primary, bak} : \A j \in With(f.rows, {"running"}) :
       run[f.rows[j].run].job = j

\* A row that was ever written is never dropped from the files a save starts
\* from, whoever saves an old copy and whoever dies during a save.
\* research_jobs.py:442: "Never drop ledger rows."
IdsAreKept == [][DOMAIN OnDisk \subseteq DOMAIN OnDisk']_vars

\* A row that says "running" of a validator in one of these states.
RunningOf(j, states) ==
  /\ primary.there /\ j \in With(primary.rows, {"running"})
  /\ run[primary.rows[j].run].state \in states

\* A validator that ended leaves its slot once its process id is free: the row
\* does not stay "running" while the file is there, whoever saves an old copy
\* of it and whoever dies before its own save (refresh_job_liveness).
CollectedJobsLeave ==
  \A j \in Jobs : RunningOf(j, {"gone"}) ~> ~RunningOf(j, {"gone"})

\* The same from the moment it died.  research_jobs.py:520: "If a spawned
\* validator died, mark the job failed so the desk does not spin."
DeadJobsLeave ==
  \A j \in Jobs : RunningOf(j, {"zombie", "gone"}) ~> ~RunningOf(j, {"zombie", "gone"})

\* A verdict stands: once the validator that wrote it is through, nothing puts
\* the row back or marks it failed.  research_jobs.py:380: "Serialize ledger
\* reads/writes so two ticks cannot clobber the file."
Verdicts(rows) ==
  {j \in With(rows, {"done"}) :
     \A r \in Runs : run[r].job = j => run[r].state \notin {"working", "certifying"}}
VerdictsStand == [][Verdicts(OnDisk) \subseteq Verdicts(OnDisk')]_vars

\* The only ways to lose a verdict: the process that saves loaded the rows
\* before the verdict was written, is recording a new job under its id, or set
\* out before it to queue or start that job again.  The file lock alone does
\* not order a load and the save that follows it (research_jobs.py:380).
Overwrites(c, j) ==
  /\ at[c].loaded
  /\ \/ j \in DOMAIN at[c].rows /\ at[c].rows[j].status # "done"
     \/ at[c].op \in {"stage", "launch"} /\ j = NextId(at[c].rows)
     \/ at[c].op \in {"queue", "start"} /\ j = at[c].job
VerdictsAreOverwritten ==
  [][ \A j \in With(OnDisk, {"done"}) \ With(OnDisk', {"done"}) :
        \E c \in Clients : Overwrites(c, j) ]_vars

\* Two jobs never get one id: research_catalog.py:2762, "Keep the id sequencer
\* above any ledger rewrite that restarted at 1."
OneJobPerId ==
  \A c, d \in Clients :
    (c # d /\ at[c].op \in {"note", "noteThenStart"} /\ at[d].op \in {"note", "noteThenStart"})
      => at[c].job # at[d].job
---------------------------------------------------------------------------
(* The inductive invariant behind TypeOK and IdsAreKept. *)

\* A running row names a validator spawned for its job.
Named(rows, rs) == \A j \in With(rows, {"running"}) : rs[rows[j].run].job = j
LedgerOK(rows, rs) == rows \in Ledgers /\ Named(rows, rs)

\* What a process holds: a copy that is behind the files, at most, and the
\* validator it has just spawned.
Ops == {"idle", "refresh", "stage", "launch", "note", "noteThenStart", "stamp",
        "queue", "start", "finish"}
Session == [op : Ops, loaded : BOOLEAN, job : 0..MaxJobs, rows : Ledgers,
            run : Runs \cup {Nobody}]
SessionOK(s, ids, rs) ==
  /\ s \in Session /\ LedgerOK(s.rows, rs)
  /\ DOMAIN s.rows \subseteq ids
  /\ s.op \in {"note", "noteThenStart"} => s.job \in ids
  /\ s.run # Nobody => s.job \in Jobs /\ rs[s.run].job = s.job

FilesInv ==
  /\ LedgerOK(primary.rows, run) /\ LedgerOK(bak.rows, run)
  /\ primary.there \in BOOLEAN
  /\ IF primary.there THEN DOMAIN bak.rows \subseteq DOMAIN primary.rows
                      ELSE primary.rows = Empty

IInv ==
  /\ FilesInv
  /\ \A c \in Clients : SessionOK(at[c], DOMAIN OnDisk, run)
  /\ at = [c \in Clients |-> at[c]]
  /\ run \in [Runs -> [state : {"unborn", "zombie", "gone"} \cup Existing,
                   job : 0..MaxJobs, parent : Clients \cup {Nobody}]]
  /\ noted \in DOMAIN OnDisk \cup {0}
  /\ deaths \in 0..MaxDeaths
=============================================================================
