----------------------------- MODULE JobScheduler -----------------------------
(***************************************************************************)
(* The backend's scheduling of one batch of CI jobs: TriggerDiggerJobs,    *)
(* ScheduleJob, TriggerJob and DiggerJobCompleted, the cron task that      *)
(* releases queued jobs, the handler of set-status, and the CI runs        *)
(* (RunSpec) that report to it.                                            *)
(*                                                                         *)
(* Every query of the database and every call of the CI or the VCS is a    *)
(* step of its own.  A thread is the webhook that triggers the batch       *)
(* (Trigger), a firing of the cron task (Ticks), or the goroutine started  *)
(* when a run reports success (named by its run).  A job of the batch has  *)
(* one row of digger_jobs; UpdateDiggerJob saves the whole row, so the     *)
(* last writer wins.                                                       *)
(***************************************************************************)
EXTENDS Naturals, FiniteSets

CONSTANTS Jobs,           \* the jobs of the batch
          Parents,        \* Parents[j]: the jobs j has a parent link to
          MaxConcurrency, \* max_concurrency_per_batch, 0 when not set
          MaxRuns,        \* bound: CI runs one job may have
          Trigger, Ticks, \* the webhook's thread; overlapping cron firings
          Faults          \* what may go wrong, see below

ASSUME JobsAssumption == IsFiniteSet(Jobs) /\ Jobs # {}
ASSUME ParentsAssumption == Parents \in [Jobs -> SUBSET Jobs]
ASSUME MaxAssumption == MaxConcurrency \in Nat /\ MaxRuns \in Nat

\* "db": a query fails; "call": a call of the CI or the VCS fails; "lostAck":
\* TriggerWorkflow takes effect but answers an error; "reply": the answer of
\* set-status does not reach the run; "refuse": the request does not reach the
\* backend; "comment": the run cannot post its comment; "fail": terraform or
\* the set-up of the run fails; "kill": a run is cancelled; "rerun": it is
\* started again from the CI; "crash", "cronCrash": the
\* backend, or the process of the cron tasks, restarts; "fastCI": a run starts before TriggerJob has saved the row.
ASSUME FaultsAssumption ==
  Faults \subseteq {"db", "call", "lostAck", "reply", "refuse", "comment", "fail", "kill",
                    "rerun", "crash", "cronCrash", "fastCI"}

Runs == Jobs \X (1..MaxRuns)
Threads == {Trigger} \cup Ticks \cup Runs
Children(j) == {c \in Jobs : j \in Parents[c]}
NoJob == CHOOSE j \in Jobs : TRUE

ASSUME ThreadsAssumption ==
  Trigger \notin Ticks \cup Runs /\ Ticks \cap Runs = {}

Statuses == {"created", "queued", "triggered", "started", "succeeded", "failed"}
ThreadPCs == {"begin", "idle", "links", "next", "parents", "schedule", "enqueue",
              "dispatch", "mark"}
RunPCs == {"none", "boot", "sayStarted", "working", "saySucceeded", "sayFailed",
           "sayFailedAgain", "done"}
HandlerPCs == {"idle", "save", "url", "resave", "readJobs", "saveBatch", "checks",
               "merge", "ok", "error"}

VARIABLES status,      \* digger_jobs.status
          batchStatus, \* digger_batches.status
          tpc, todo, cur, left,  \* the scheduling threads
          run,         \* the CI runs, none before TriggerWorkflow
          hpc, batch,  \* set-status of a run, the batch status it has in memory
          succeeded,   \* jobs a success was ever saved for
          merged       \* the pull request was merged

threads == <<tpc, todo, cur, left>>
handlers == <<hpc, batch>>
vars == <<status, batchStatus, tpc, todo, cur, left, run, hpc, batch, succeeded, merged>>

TypeOK ==
  /\ status \in [Jobs -> Statuses]
  /\ batchStatus \in {"created", "succeeded"}
  /\ tpc \in [Threads -> ThreadPCs]
  /\ todo \in [Threads -> SUBSET Jobs]
  /\ cur \in [Threads -> Jobs]
  /\ left \in [Threads -> SUBSET Jobs]
  /\ run \in [Runs -> RunPCs]
  /\ hpc \in [Runs -> HandlerPCs]
  /\ batch \in [Runs -> {"created", "succeeded"}]
  /\ succeeded \in SUBSET Jobs
  /\ merged \in BOOLEAN

Init ==
  /\ status = [j \in Jobs |-> "created"]
  /\ batchStatus = "created"
  /\ tpc = [t \in Threads |-> IF t = Trigger THEN "begin" ELSE "idle"]
  /\ todo = [t \in Threads |-> {}]
  /\ cur = [t \in Threads |-> NoJob]
  /\ left = [t \in Threads |-> {}]
  /\ run = [x \in Runs |-> "none"]
  /\ hpc = [x \in Runs |-> "idle"]
  /\ batch = [x \in Runs |-> "created"]
  /\ succeeded = {}
  /\ merged = FALSE

-----------------------------------------------------------------------------
(* Scheduling threads.  A definition that a comment calls a slip is not    *)
(* the code's: it is a plausible error in it, which a property has to      *)
(* notice.                                                                 *)

\* Thread t is at label l with the jobs of S still to schedule.
Loop(t, l, S) ==
  /\ tpc' = [tpc EXCEPT ![t] = l]
  /\ todo' = [todo EXCEPT ![t] = S]
  /\ cur' = [cur EXCEPT ![t] = NoJob]
  /\ left' = [left EXCEPT ![t] = {}]

Goto(t, l) == tpc' = [tpc EXCEPT ![t] = l] /\ UNCHANGED <<todo, cur, left>>

\* ScheduleJob returns an error: TriggerDiggerJobs gives up, the cron task
\* and the goroutine go on with their next job.
ScheduleFails(t) ==
  IF t = Trigger THEN Loop(t, "idle", {}) ELSE Loop(t, "next", todo[t])

\* A slip: the jobs with parents are triggered too.
TriggerAllJobs ==
  /\ tpc[Trigger] = "begin"
  /\ Loop(Trigger, "next", {j \in Jobs : status[j] = "created"})
  /\ UNCHANGED <<status, batchStatus, run, handlers, succeeded, merged>>

\* GetPendingParentDiggerJobs
TriggerDiggerJobs ==
  /\ tpc[Trigger] = "begin"
  /\ Loop(Trigger, "next", {j \in Jobs : Parents[j] = {} /\ status[j] = "created"})
  /\ UNCHANGED <<status, batchStatus, run, handlers, succeeded, merged>>

\* GetDiggerJobsWithStatus(DiggerJobQueuedForRun)
Tick(t) ==
  /\ t \in Ticks /\ tpc[t] = "idle"
  /\ \E j \in Jobs : status[j] = "queued"
  /\ Loop(t, "next", {j \in Jobs : status[j] = "queued"})
  /\ UNCHANGED <<status, batchStatus, run, handlers, succeeded, merged>>

\* A slip: the links are looked up from the wrong side.
GetLinksOfParents(x) ==
  /\ x \in Runs /\ tpc[x] = "links"
  /\ Loop(x, "next", Parents[x[1]])
  /\ UNCHANGED <<status, batchStatus, run, handlers, succeeded, merged>>

\* DiggerJobCompleted: the links of the children of the completed job.
GetJobLinks(x) ==
  /\ x \in Runs /\ tpc[x] = "links"
  /\ Loop(x, "next", Children(x[1]))
  /\ UNCHANGED <<status, batchStatus, run, handlers, succeeded, merged>>

NextJob(t) ==
  /\ tpc[t] = "next"
  /\ \/ /\ todo[t] = {}
        /\ Loop(t, "idle", {})
     \/ \E j \in todo[t] :
          /\ cur' = [cur EXCEPT ![t] = j]
          /\ todo' = [todo EXCEPT ![t] = @ \ {j}]
          /\ left' = [left EXCEPT ![t] = IF t \in Runs THEN Parents[j] ELSE {}]
          /\ tpc' = [tpc EXCEPT ![t] = IF t \in Runs THEN "parents" ELSE "schedule"]
  /\ UNCHANGED <<status, batchStatus, run, handlers, succeeded, merged>>

\* DiggerJobCompleted reads the parents of a child one by one.
ReadParent(x) ==
  /\ x \in Runs /\ tpc[x] = "parents"
  /\ \E p \in left[x] :
       IF status[p] = "succeeded"
       THEN /\ left' = [left EXCEPT ![x] = @ \ {p}]
            /\ tpc' = [tpc EXCEPT ![x] = IF left[x] = {p} THEN "schedule" ELSE "parents"]
            /\ UNCHANGED <<todo, cur>>
       ELSE Loop(x, "next", todo[x])
  /\ UNCHANGED <<status, batchStatus, run, handlers, succeeded, merged>>

\* A slip: the jobs in the queue are counted too.
NotEndedJobs == {j \in Jobs : status[j] \in {"queued", "triggered", "started"}}

\* GetDiggerJobsForBatchWithStatus(DiggerJobTriggered, DiggerJobStarted)
RunningJobs == {j \in Jobs : status[j] \in {"triggered", "started"}}

\* A slip: a job triggered and not started yet is not counted.
LimitReachedByStarted ==
  MaxConcurrency > 0 /\ Cardinality({j \in Jobs : status[j] = "started"}) >= MaxConcurrency

LimitReached == MaxConcurrency > 0 /\ Cardinality(RunningJobs) >= MaxConcurrency

ScheduleJob(t) ==
  /\ tpc[t] = "schedule"
  /\ Goto(t, IF LimitReached THEN "enqueue" ELSE "dispatch")
  /\ UNCHANGED <<status, batchStatus, run, handlers, succeeded, merged>>

\* The error of this save is not looked at.
Enqueue(t) ==
  /\ tpc[t] = "enqueue"
  /\ \/ status' = [status EXCEPT ![cur[t]] = "queued"]
     \/ "db" \in Faults /\ UNCHANGED status
  /\ Loop(t, "next", todo[t])
  /\ UNCHANGED <<batchStatus, run, handlers, succeeded, merged>>

\* The CI creates the next run of job j.
StartRun(j) ==
  \E k \in 1..MaxRuns :
    /\ run[<<j, k>>] = "none" /\ \A l \in 1..(k - 1) : run[<<j, l>>] # "none"
    /\ run' = [run EXCEPT ![<<j, k>>] = "boot"]

\* TriggerJob: TriggerWorkflow ...
TriggerWorkflow(t) ==
  /\ tpc[t] = "dispatch"
  /\ StartRun(cur[t])
  /\ Goto(t, "mark") \/ ("lostAck" \in Faults /\ ScheduleFails(t))
  /\ UNCHANGED <<status, batchStatus, handlers, succeeded, merged>>

\* A slip: the row is not saved.
NothingSaved(t) ==
  /\ tpc[t] = "mark"
  /\ Loop(t, "next", todo[t])
  /\ UNCHANGED <<status, batchStatus, run, handlers, succeeded, merged>>

\* ... and then the save of the row with the status read before it.
SaveTriggered(t) ==
  /\ tpc[t] = "mark"
  /\ \/ /\ status' = [status EXCEPT ![cur[t]] = "triggered"]
        /\ Loop(t, "next", todo[t])
     \/ "db" \in Faults /\ ScheduleFails(t) /\ UNCHANGED status
  /\ UNCHANGED <<batchStatus, run, handlers, succeeded, merged>>

\* A query or a call fails before it has an effect.
ThreadCallFails(t) ==
  /\ \/ /\ "db" \in Faults /\ tpc[t] \in {"begin", "links", "parents"}
        /\ Loop(t, "idle", {})
     \/ /\ "db" \in Faults /\ tpc[t] = "schedule" /\ MaxConcurrency > 0
        /\ ScheduleFails(t)
     \/ /\ "call" \in Faults /\ tpc[t] = "links"
        /\ Loop(t, "idle", {})
     \/ /\ "call" \in Faults /\ tpc[t] = "dispatch"
        /\ ScheduleFails(t)
  /\ UNCHANGED <<status, batchStatus, run, handlers, succeeded, merged>>

-----------------------------------------------------------------------------
(* The handler of set-status (SetJobStatusForProject)                       *)

\* A slip: what the run says is stored without being mapped to a status.
SaidVerbatim(x) == run[x]

\* The status a run is reporting.
Said(x) ==
  CASE run[x] = "sayStarted" -> "started"
    [] run[x] = "saySucceeded" -> "succeeded"
    [] OTHER -> "failed"

Reporting(x) == run[x] \in {"sayStarted", "saySucceeded", "sayFailed", "sayFailedAgain"}

Answer(x, l) == hpc' = [hpc EXCEPT ![x] = l] /\ UNCHANGED batch

\* The request arrives; GetDiggerJob reads the job with its batch.
SetJobStatusForProject(x) ==
  /\ Reporting(x) /\ hpc[x] = "idle"
  /\ hpc' = [hpc EXCEPT ![x] = "save"]
  /\ batch' = [batch EXCEPT ![x] = batchStatus]
  /\ UNCHANGED <<status, batchStatus, threads, run, succeeded, merged>>

\* UpdateDiggerJob; a success starts the goroutine of DiggerJobCompleted.
SaveStatus(x) ==
  /\ hpc[x] = "save"
  /\ status' = [status EXCEPT ![x[1]] = Said(x)]
  /\ IF Said(x) = "succeeded"
     THEN /\ succeeded' = succeeded \cup {x[1]}
          /\ Loop(x, "links", {})
     ELSE UNCHANGED <<succeeded, threads>>
  /\ Answer(x, "url")
  /\ UNCHANGED <<batchStatus, run, merged>>

\* A slip: the row is saved as it was read when the run had started.
SaveUrlOfStartedRow(x) ==
  /\ hpc[x] = "url"
  /\ status' = [status EXCEPT ![x[1]] = "started"]
  /\ Answer(x, "resave")
  /\ UNCHANGED <<batchStatus, threads, run, succeeded, merged>>

\* updateWorkflowUrlForJob saves the row again when the CI knows the run.
SaveUrl(x) ==
  /\ hpc[x] = "url"
  /\ \/ status' = [status EXCEPT ![x[1]] = Said(x)]
     \/ UNCHANGED status
  /\ Answer(x, "resave")
  /\ UNCHANGED <<batchStatus, threads, run, succeeded, merged>>

\* The save of StatusUpdatedAt, again of the whole row.
SaveTimestamp(x) ==
  /\ hpc[x] = "resave"
  /\ status' = [status EXCEPT ![x[1]] = Said(x)]
  /\ Answer(x, "readJobs")
  /\ UNCHANGED <<batchStatus, threads, run, succeeded, merged>>

\* A slip: the batch is over when no job is to be waited for.
ReadEndedJobs(x) ==
  /\ hpc[x] = "readJobs"
  /\ Answer(x, IF batch[x] = "created" /\ \A j \in Jobs : status[j] \in {"succeeded", "failed"}
               THEN "saveBatch" ELSE "checks")
  /\ UNCHANGED <<status, batchStatus, threads, run, succeeded, merged>>

\* UpdateBatchStatus, on the batch as it was when the request came in.
ReadJobs(x) ==
  /\ hpc[x] = "readJobs"
  /\ Answer(x, IF batch[x] = "created" /\ \A j \in Jobs : status[j] = "succeeded"
               THEN "saveBatch" ELSE "checks")
  /\ UNCHANGED <<status, batchStatus, threads, run, succeeded, merged>>

\* An error of this save is logged, and the batch in memory has succeeded.
SaveBatch(x) ==
  /\ hpc[x] = "saveBatch"
  /\ \/ batchStatus' = "succeeded"
     \/ "db" \in Faults /\ UNCHANGED batchStatus
  /\ batch' = [batch EXCEPT ![x] = "succeeded"]
  /\ hpc' = [hpc EXCEPT ![x] = "checks"]
  /\ UNCHANGED <<status, threads, run, succeeded, merged>>

\* UpdateCheckRunForBatch and UpdateCheckRunForJob, on rows read again; the
\* check run of a queued job has no status, which is an error.
UpdateCheckRuns(x) ==
  /\ hpc[x] = "checks"
  /\ Answer(x, IF status[x[1]] = "queued" THEN "error" ELSE "merge")
  /\ UNCHANGED <<status, batchStatus, threads, run, succeeded, merged>>

\* A slip: the job, not the batch, is asked whether it has succeeded.
AutomergeAfterJob(x) ==
  /\ hpc[x] = "merge"
  /\ merged' \in {merged, merged \/ status[x[1]] = "succeeded"}
  /\ Answer(x, "ok")
  /\ UNCHANGED <<status, batchStatus, threads, run, succeeded>>

\* The batch type, the auto_merge setting and the impacted projects, which
\* are not modelled here, may each prevent the merge.
AutomergePRforBatchIfEnabled(x) ==
  /\ hpc[x] = "merge"
  /\ merged' \in {merged, merged \/ batch[x] = "succeeded"}
  /\ Answer(x, "ok") \/ ("db" \in Faults /\ Answer(x, "error"))
  /\ UNCHANGED <<status, batchStatus, threads, run, succeeded>>

\* A query or a call fails and the handler answers 500.
HandlerCallFails(x) ==
  /\ \/ "db" \in Faults /\ hpc[x] \in {"save", "resave", "readJobs", "checks"}
     \/ "call" \in Faults /\ hpc[x] = "checks"
  /\ Answer(x, "error")
  /\ UNCHANGED <<status, batchStatus, threads, run, succeeded, merged>>

-----------------------------------------------------------------------------
(* The CI runs (RunSpec, RunJobs)                                          *)

RunGoto(x, l) ==
  /\ run' = [run EXCEPT ![x] = l]
  /\ UNCHANGED <<status, batchStatus, threads, succeeded, merged>>

\* The run starts, and reports it once its set-up is done.
Boot(x) ==
  /\ run[x] = "boot"
  /\ "fastCI" \notin Faults => \A t \in Threads : ~(tpc[t] = "mark" /\ cur[t] = x[1])
  /\ RunGoto(x, "sayStarted") \/ ("fail" \in Faults /\ RunGoto(x, "sayFailedAgain"))
  /\ UNCHANGED handlers

\* RunJobs
Work(x) ==
  /\ run[x] = "working"
  /\ RunGoto(x, "saySucceeded") \/ ("fail" \in Faults /\ RunGoto(x, "sayFailed"))
  /\ UNCHANGED handlers

ErrorSeen(x) == hpc[x] = "error" \/ "reply" \in Faults

\* ReportProjectJobStatus returns: with the batch, or with an error.  A run
\* whose report of success went wrong, or whose comment update did, reports a
\* failure, and reports it again on its way out (reportError).
Reported(x) ==
  /\ hpc[x] \in {"ok", "error"}
  /\ hpc' = [hpc EXCEPT ![x] = "idle"]
  /\ batch' = [batch EXCEPT ![x] = "created"]
  /\ \/ hpc[x] = "ok" /\ run[x] = "sayStarted" /\ RunGoto(x, "working")
     \/ hpc[x] = "ok" /\ run[x] = "saySucceeded" /\ RunGoto(x, "done")
     \/ /\ hpc[x] = "ok" /\ run[x] = "saySucceeded" /\ "comment" \in Faults
        /\ RunGoto(x, "sayFailed")
     \/ ErrorSeen(x) /\ run[x] = "sayStarted" /\ RunGoto(x, "sayFailedAgain")
     \/ ErrorSeen(x) /\ run[x] = "saySucceeded" /\ RunGoto(x, "sayFailed")
     \/ run[x] = "sayFailed" /\ RunGoto(x, "sayFailedAgain")
     \/ run[x] = "sayFailedAgain" /\ RunGoto(x, "done")

\* The request does not reach the backend.
Refused(x) ==
  /\ "refuse" \in Faults
  /\ hpc[x] = "idle" /\ Reporting(x)
  /\ RunGoto(x, CASE run[x] = "saySucceeded" -> "sayFailed"
                  [] run[x] = "sayFailedAgain" -> "done"
                  [] OTHER -> "sayFailedAgain")
  /\ UNCHANGED handlers

\* The run is cancelled; a request under way is handled to its end first.
Kill(x) ==
  /\ "kill" \in Faults
  /\ run[x] \notin {"none", "done"} /\ hpc[x] = "idle"
  /\ RunGoto(x, "done") /\ UNCHANGED handlers

\* "Re-run jobs" in the CI: the same job specification once more.
Rerun(x) ==
  /\ "rerun" \in Faults
  /\ run[x] = "done" /\ StartRun(x[1])
  /\ UNCHANGED <<status, batchStatus, threads, handlers, succeeded, merged>>

-----------------------------------------------------------------------------
(* Restarts: the threads of a process and the requests it was handling go. *)

StopThreads(S) ==
  /\ tpc' = [t \in Threads |-> IF t \in S THEN "idle" ELSE tpc[t]]
  /\ todo' = [t \in Threads |-> IF t \in S THEN {} ELSE todo[t]]
  /\ cur' = [t \in Threads |-> IF t \in S THEN NoJob ELSE cur[t]]
  /\ left' = [t \in Threads |-> IF t \in S THEN {} ELSE left[t]]

BackendRestarts ==
  /\ "crash" \in Faults
  /\ StopThreads({Trigger} \cup Runs)
  /\ hpc' = [x \in Runs |-> IF hpc[x] = "idle" THEN "idle" ELSE "error"]
  /\ UNCHANGED <<status, batchStatus, run, batch, succeeded, merged>>

TasksRestart ==
  /\ "cronCrash" \in Faults
  /\ StopThreads(Ticks)
  /\ UNCHANGED <<status, batchStatus, run, handlers, succeeded, merged>>

-----------------------------------------------------------------------------
ThreadStep(t) ==
  \/ (t = Trigger /\ TriggerDiggerJobs)
  \/ Tick(t) \/ GetJobLinks(t) \/ NextJob(t) \/ ReadParent(t)
  \/ ScheduleJob(t) \/ Enqueue(t) \/ TriggerWorkflow(t) \/ SaveTriggered(t)

HandlerStep(x) ==
  \/ SetJobStatusForProject(x) \/ SaveStatus(x) \/ SaveUrl(x) \/ SaveTimestamp(x)
  \/ ReadJobs(x) \/ SaveBatch(x) \/ UpdateCheckRuns(x) \/ AutomergePRforBatchIfEnabled(x)

RunStep(x) == Boot(x) \/ Work(x) \/ Reported(x)

Next ==
  \/ \E t \in Threads : ThreadStep(t) \/ ThreadCallFails(t)
  \/ \E x \in Runs : HandlerStep(x) \/ HandlerCallFails(x)
  \/ \E x \in Runs : RunStep(x) \/ Refused(x) \/ Kill(x) \/ Rerun(x)
  \/ BackendRestarts \/ TasksRestart

Spec == Init /\ [][Next]_vars

\* Goroutines and requests run on, cron fires every minute, and the CI runs
\* what it was given to an end.
FairSpec ==
  /\ Spec
  /\ \A t \in Threads : WF_vars(ThreadStep(t))
  /\ \A x \in Runs : WF_vars(HandlerStep(x)) /\ WF_vars(RunStep(x))
-----------------------------------------------------------------------------
(* Properties                                                              *)

\* A workflow runs, and a job waits in the queue, only when each of its
\* parents has reported success, whatever fails, restarts or comes twice
\* ("It will also handle dependencies of these projects").
\* DiggerJobCompleted, TriggerDiggerJobs.
ParentsFirst ==
  \A j \in Jobs :
    (status[j] = "queued" \/ \E k \in 1..MaxRuns : run[<<j, k>>] # "none") =>
      Parents[j] \subseteq succeeded

\* The batch is marked succeeded, and its pull request merged, only after a
\* success of every job was saved, however reports of several jobs interleave
\* between their saves and the count.  UpdateBatchStatus.
BatchSound == batchStatus = "succeeded" \/ merged => succeeded = Jobs

\* The jobs the CI was given.
Released == {j \in Jobs : \E k \in 1..MaxRuns : run[<<j, k>>] # "none"}

\* The scheduler implements the order of a batch, with all its threads,
\* handlers and faults: no step releases a job early, takes a release or a
\* success back, or completes or merges a batch with a job to go.
Order == INSTANCE BatchOrder
           WITH released <- Released, done <- succeeded,
                complete <- batchStatus = "succeeded", merged <- merged
ImplementsOrder == Order!Spec

\* Each workflow is triggered once: the goroutines of completed jobs and the
\* cron task never both release a job, nor one of them twice.  Two firings of
\* the cron task that overlap each other do: both read the queue before either
\* saves a row.
TriggeredOnce ==
  \A j \in Jobs, k, l \in 1..MaxRuns :
    run[<<j, k>>] # "none" /\ run[<<j, l>>] # "none" => k = l

\* Nothing orders the run of a job and the save of its row in TriggerJob: when
\* the run is faster, the row of a job that has ended is put back to triggered by
\* the thread that has released the job.  No other save puts the row of an ended
\* job back: not the queue's, not that of another thread, not an earlier report's.
OnlyTriggerPutsBack ==
  [][\A j \in Jobs : status[j] \in {"succeeded", "failed"} =>
       \/ status'[j] \in {"succeeded", "failed"}
       \/ /\ status'[j] = "triggered"
          /\ \E t \in Threads : tpc[t] = "mark" /\ cur[t] = j /\ tpc'[t] # "mark"]_vars

\* max_concurrency_per_batch is counted before the workflow is triggered and
\* the row saved after it: a cron firing that overlaps the webhook's thread
\* may exceed the limit by one job, and by no more.  ScheduleJob.
LimitOvershoot ==
  MaxConcurrency > 0 => Cardinality(RunningJobs) <= MaxConcurrency + Cardinality(Ticks)

\* "check if all jobs have succeeded at this point; if so, perform merge of
\* PR": at the merge no job of the batch is recorded as failed.
\* SetJobStatusForProject, AutomergePRforBatchIfEnabled.
MergeWhenAllSucceeded ==
  [][merged' /\ ~merged => \A j \in Jobs : status[j] = "succeeded"]_vars

\* The row of a job says triggered, and all its runs are over.
PutBack(j) ==
  status[j] = "triggered" /\ \A k \in 1..MaxRuns : run[<<j, k>>] \in {"none", "done"}

\* A queued job is released in the end, also when the jobs before it fail, unless
\* the row of a job that is over was put back to triggered by a late save
\* (OnlyTriggerPutsBack): that job takes its place under the limit for good.
QueueDrains ==
  \A j \in Jobs : status[j] = "queued" ~> status[j] # "queued" \/ \E i \in Jobs : PutBack(i)

\* When nothing fails, the whole batch is run and marked succeeded: no report
\* is the last one without the backend noticing, no child is left behind.
BatchCompletes == <>(batchStatus = "succeeded")
=============================================================================
