-------------------------- MODULE JobSchedulerProofs --------------------------
(***************************************************************************)
(* Proofs about JobScheduler, for any batch, any number of runs, any       *)
(* limit.  The first part holds whatever fails and however many cron       *)
(* firings overlap; the second, about what is released once, what puts the *)
(* row of an ended job back, and the limit, where the weather is calm.     *)
(***************************************************************************)
EXTENDS JobScheduler, FiniteSetTheorems, TLAPS

rest == <<status, batchStatus, run, handlers, succeeded, merged>>

-----------------------------------------------------------------------------
(* Types                                                                   *)

LEMMA NoJobType == NoJob \in Jobs
  BY JobsAssumption DEF NoJob

LEMMA RunsType == \A x \in Runs : x[1] \in Jobs /\ x \in Threads
  BY DEF Runs, Threads

LEMMA LoopType ==
  ASSUME TypeOK, NEW t \in Threads, NEW l \in ThreadPCs, NEW S \in SUBSET Jobs,
         Loop(t, l, S)
  PROVE  /\ tpc' \in [Threads -> ThreadPCs] /\ todo' \in [Threads -> SUBSET Jobs]
         /\ cur' \in [Threads -> Jobs] /\ left' \in [Threads -> SUBSET Jobs]
  BY NoJobType DEF Loop, TypeOK

LEMMA GotoType ==
  ASSUME TypeOK, NEW t \in Threads, NEW l \in ThreadPCs, Goto(t, l)
  PROVE  /\ tpc' \in [Threads -> ThreadPCs] /\ todo' \in [Threads -> SUBSET Jobs]
         /\ cur' \in [Threads -> Jobs] /\ left' \in [Threads -> SUBSET Jobs]
  BY DEF Goto, TypeOK

LEMMA ScheduleFailsType ==
  ASSUME TypeOK, NEW t \in Threads, ScheduleFails(t)
  PROVE  /\ tpc' \in [Threads -> ThreadPCs] /\ todo' \in [Threads -> SUBSET Jobs]
         /\ cur' \in [Threads -> Jobs] /\ left' \in [Threads -> SUBSET Jobs]
<1>1. todo[t] \in SUBSET Jobs /\ {} \in SUBSET Jobs /\ "idle" \in ThreadPCs /\ "next" \in ThreadPCs
  BY DEF TypeOK, ThreadPCs
<1>2. Loop(t, "idle", {}) \/ Loop(t, "next", todo[t])
  BY DEF ScheduleFails
<1> QED BY <1>1, <1>2, LoopType

LEMMA StartRunType ==
  ASSUME TypeOK, NEW j \in Jobs, StartRun(j)
  PROVE  run' \in [Runs -> RunPCs]
  BY DEF StartRun, TypeOK, RunPCs

LEMMA StatusType ==
  ASSUME TypeOK, NEW j \in Jobs, NEW s \in Statuses,
         status' = [status EXCEPT ![j] = s] \/ UNCHANGED status
  PROVE  status' \in [Jobs -> Statuses]
  BY DEF TypeOK

LEMMA SaidType == \A x \in Runs : Said(x) \in {"started", "succeeded", "failed"}
  BY DEF Said

LEMMA AnswerType ==
  ASSUME TypeOK, NEW x \in Runs, NEW l \in HandlerPCs, Answer(x, l)
  PROVE  hpc' \in [Runs -> HandlerPCs] /\ batch' \in [Runs -> {"created", "succeeded"}]
  BY DEF Answer, TypeOK

LEMMA RunGotoType ==
  ASSUME TypeOK, NEW x \in Runs, NEW l \in RunPCs, RunGoto(x, l),
         hpc' \in [Runs -> HandlerPCs], batch' \in [Runs -> {"created", "succeeded"}]
  PROVE  TypeOK'
  BY DEF RunGoto, TypeOK, threads

LEMMA StopType ==
  ASSUME TypeOK, NEW S, StopThreads(S)
  PROVE  /\ tpc' \in [Threads -> ThreadPCs] /\ todo' \in [Threads -> SUBSET Jobs]
         /\ cur' \in [Threads -> Jobs] /\ left' \in [Threads -> SUBSET Jobs]
<1> USE DEF TypeOK
<1>1. tpc' \in [Threads -> ThreadPCs]
  BY DEF StopThreads, ThreadPCs
<1>2. todo' \in [Threads -> SUBSET Jobs] /\ left' \in [Threads -> SUBSET Jobs]
  BY DEF StopThreads
<1>3. cur' \in [Threads -> Jobs]
  BY NoJobType DEF StopThreads
<1> QED BY <1>1, <1>2, <1>3

LEMMA ThreadStepType ==
  ASSUME TypeOK, NEW t \in Threads, ThreadStep(t) \/ ThreadCallFails(t)
  PROVE  TypeOK'
<1> DEFINE ThreadsOK == /\ tpc \in [Threads -> ThreadPCs] /\ todo \in [Threads -> SUBSET Jobs]
                        /\ cur \in [Threads -> Jobs] /\ left \in [Threads -> SUBSET Jobs]
<1>0. todo[t] \in SUBSET Jobs /\ cur[t] \in Jobs
  BY DEF TypeOK
<1>a. ASSUME ThreadsOK', UNCHANGED rest PROVE TypeOK'
  BY <1>a DEF TypeOK, rest, handlers
<1>b. ASSUME NEW S \in SUBSET Jobs, NEW l \in {"idle", "next"}, Loop(t, l, S) PROVE ThreadsOK'
  BY <1>b, LoopType DEF ThreadPCs
<1>c. ASSUME ScheduleFails(t) PROVE ThreadsOK'
  BY <1>c, ScheduleFailsType
<1> HIDE DEF ThreadsOK
<1>1. CASE t = Trigger /\ TriggerDiggerJobs
  <2>1. {j \in Jobs : Parents[j] = {} /\ status[j] = "created"} \in SUBSET Jobs
    OBVIOUS
  <2>2. ThreadsOK'
    BY <1>1, <1>b, <2>1 DEF TriggerDiggerJobs
  <2> QED BY <1>1, <1>a, <2>2 DEF TriggerDiggerJobs, rest
<1>2. CASE Tick(t)
  <2>1. {j \in Jobs : status[j] = "queued"} \in SUBSET Jobs
    OBVIOUS
  <2>2. ThreadsOK'
    BY <1>2, <1>b, <2>1 DEF Tick
  <2> QED BY <1>2, <1>a, <2>2 DEF Tick, rest
<1>3. CASE GetJobLinks(t)
  <2>1. Children(t[1]) \in SUBSET Jobs
    BY DEF Children
  <2>2. ThreadsOK'
    BY <1>3, <1>b, <2>1 DEF GetJobLinks
  <2> QED BY <1>3, <1>a, <2>2 DEF GetJobLinks, rest
<1>4. CASE NextJob(t)
  <2>1. CASE Loop(t, "idle", {})
    <3>1. ThreadsOK'
      BY <1>b, <2>1
    <3> QED BY <1>4, <1>a, <3>1 DEF NextJob, rest
  <2>2. CASE ~Loop(t, "idle", {})
    <3>1. PICK j \in todo[t] :
            /\ cur' = [cur EXCEPT ![t] = j]
            /\ todo' = [todo EXCEPT ![t] = @ \ {j}]
            /\ left' = [left EXCEPT ![t] = IF t \in Runs THEN Parents[j] ELSE {}]
            /\ tpc' = [tpc EXCEPT ![t] = IF t \in Runs THEN "parents" ELSE "schedule"]
      BY <1>4, <2>2 DEF NextJob
    <3>2. j \in Jobs /\ Parents[j] \in SUBSET Jobs
      BY <1>0, ParentsAssumption
    <3>3. ThreadsOK'
      BY <3>1, <3>2 DEF TypeOK, ThreadsOK, ThreadPCs
    <3> QED BY <1>4, <1>a, <3>3 DEF NextJob, rest
  <2> QED BY <2>1, <2>2
<1>5. CASE ReadParent(t)
  <2>1. PICK p \in left[t] :
          IF status[p] = "succeeded"
          THEN /\ left' = [left EXCEPT ![t] = @ \ {p}]
               /\ tpc' = [tpc EXCEPT ![t] = IF left[t] = {p} THEN "schedule" ELSE "parents"]
               /\ UNCHANGED <<todo, cur>>
          ELSE Loop(t, "next", todo[t])
    BY <1>5 DEF ReadParent
  <2>2. ASSUME status[p] = "succeeded" PROVE ThreadsOK'
    BY <2>1, <2>2 DEF TypeOK, ThreadsOK, ThreadPCs
  <2>3. ASSUME status[p] # "succeeded" PROVE ThreadsOK'
    BY <1>0, <1>b, <2>1, <2>3
  <2> QED BY <1>5, <1>a, <2>2, <2>3 DEF ReadParent, rest
<1>d. ASSUME NEW l \in ThreadPCs, Goto(t, l) PROVE ThreadsOK'
  BY <1>d, GotoType DEF ThreadsOK
<1>6. CASE ScheduleJob(t)
  <2>1. Goto(t, "enqueue") \/ Goto(t, "dispatch")
    BY <1>6 DEF ScheduleJob
  <2>2. ThreadsOK'
    BY <2>1, <1>d DEF ThreadPCs
  <2> QED BY <1>6, <1>a, <2>2 DEF ScheduleJob, rest
<1>7. CASE Enqueue(t)
  <2>1. ThreadsOK'
    BY <1>0, <1>7, <1>b DEF Enqueue
  <2>2. status' \in [Jobs -> Statuses]
    BY <1>0, <1>7, StatusType DEF Enqueue, Statuses
  <2> QED BY <1>7, <2>1, <2>2 DEF Enqueue, TypeOK, ThreadsOK, handlers
<1>8. CASE TriggerWorkflow(t)
  <2>1. ThreadsOK'
    BY <1>8, <1>c, <1>d DEF TriggerWorkflow, ThreadPCs
  <2>2. run' \in [Runs -> RunPCs]
    BY <1>0, <1>8, StartRunType DEF TriggerWorkflow
  <2> QED BY <1>8, <2>1, <2>2 DEF TriggerWorkflow, TypeOK, ThreadsOK, handlers
<1>9. CASE SaveTriggered(t)
  <2>1. ThreadsOK'
    BY <1>0, <1>9, <1>b, <1>c DEF SaveTriggered
  <2>2. status' \in [Jobs -> Statuses]
    BY <1>0, <1>9, StatusType DEF SaveTriggered, Statuses
  <2> QED BY <1>9, <2>1, <2>2 DEF SaveTriggered, TypeOK, ThreadsOK, handlers
<1>10. CASE ThreadCallFails(t)
  <2>1. ThreadsOK'
    BY <1>10, <1>b, <1>c DEF ThreadCallFails
  <2> QED BY <1>10, <1>a, <2>1 DEF ThreadCallFails, rest
<1> QED
  BY <1>1, <1>2, <1>3, <1>4, <1>5, <1>6, <1>7, <1>8, <1>9, <1>10 DEF ThreadStep

LEMMA HandlerStepType ==
  ASSUME TypeOK, NEW x \in Runs, HandlerStep(x) \/ HandlerCallFails(x)
  PROVE  TypeOK'
<1> USE DEF TypeOK
<1>0. x[1] \in Jobs /\ x \in Threads /\ Said(x) \in Statuses
  BY RunsType, SaidType DEF Statuses
<1>a. ASSUME NEW l \in HandlerPCs, Answer(x, l)
      PROVE  hpc' \in [Runs -> HandlerPCs] /\ batch' \in [Runs -> {"created", "succeeded"}]
  BY <1>a, AnswerType
<1>b. ASSUME status' = [status EXCEPT ![x[1]] = Said(x)] \/ UNCHANGED status
      PROVE  status' \in [Jobs -> Statuses]
  BY <1>b, <1>0, StatusType
<1>1. CASE SetJobStatusForProject(x)
  BY <1>1 DEF SetJobStatusForProject, HandlerPCs, threads
<1>2. CASE SaveStatus(x)
  <2>1. /\ tpc' \in [Threads -> ThreadPCs] /\ todo' \in [Threads -> SUBSET Jobs]
        /\ cur' \in [Threads -> Jobs] /\ left' \in [Threads -> SUBSET Jobs]
    BY <1>0, <1>2, LoopType DEF SaveStatus, ThreadPCs, threads
  <2>2. succeeded' \in SUBSET Jobs
    BY <1>0, <1>2 DEF SaveStatus
  <2> QED BY <1>a, <1>b, <1>2, <2>1, <2>2 DEF SaveStatus, HandlerPCs
<1>3. CASE SaveUrl(x)
  BY <1>a, <1>b, <1>3 DEF SaveUrl, HandlerPCs, threads
<1>4. CASE SaveTimestamp(x)
  BY <1>a, <1>b, <1>4 DEF SaveTimestamp, HandlerPCs, threads
<1>5. CASE ReadJobs(x)
  <2>1. Answer(x, "saveBatch") \/ Answer(x, "checks")
    BY <1>5 DEF ReadJobs
  <2> QED BY <1>a, <1>5, <2>1 DEF ReadJobs, HandlerPCs, threads
<1>6. CASE SaveBatch(x)
  BY <1>6 DEF SaveBatch, HandlerPCs, threads
<1>7. CASE UpdateCheckRuns(x)
  <2>1. Answer(x, "error") \/ Answer(x, "merge")
    BY <1>7 DEF UpdateCheckRuns
  <2> QED BY <1>a, <1>7, <2>1 DEF UpdateCheckRuns, HandlerPCs, threads
<1>8. CASE AutomergePRforBatchIfEnabled(x)
  <2>1. merged' \in BOOLEAN
    BY <1>8 DEF AutomergePRforBatchIfEnabled
  <2>2. Answer(x, "ok") \/ Answer(x, "error")
    BY <1>8 DEF AutomergePRforBatchIfEnabled
  <2> QED BY <1>a, <1>8, <2>1, <2>2 DEF AutomergePRforBatchIfEnabled, HandlerPCs, threads
<1>9. CASE HandlerCallFails(x)
  BY <1>a, <1>9 DEF HandlerCallFails, HandlerPCs, threads
<1> QED
  BY <1>1, <1>2, <1>3, <1>4, <1>5, <1>6, <1>7, <1>8, <1>9 DEF HandlerStep

LEMMA RunStepType ==
  ASSUME TypeOK, NEW x \in Runs, RunStep(x) \/ Refused(x) \/ Kill(x) \/ Rerun(x)
  PROVE  TypeOK'
<1>a. ASSUME NEW l \in RunPCs, RunGoto(x, l), hpc' \in [Runs -> HandlerPCs],
             batch' \in [Runs -> {"created", "succeeded"}]
      PROVE TypeOK'
  BY <1>a, RunGotoType
<1>b. UNCHANGED handlers => hpc' \in [Runs -> HandlerPCs]
                            /\ batch' \in [Runs -> {"created", "succeeded"}]
  BY DEF TypeOK, handlers
<1>1. CASE Boot(x)
  BY <1>a, <1>b, <1>1 DEF Boot, RunPCs
<1>2. CASE Work(x)
  BY <1>a, <1>b, <1>2 DEF Work, RunPCs
<1>3. CASE Reported(x)
  <2>1. hpc' \in [Runs -> HandlerPCs] /\ batch' \in [Runs -> {"created", "succeeded"}]
    BY <1>3 DEF Reported, HandlerPCs, TypeOK
  <2>2. \E l \in RunPCs : RunGoto(x, l)
    BY <1>3 DEF Reported, RunPCs
  <2> QED BY <1>a, <2>1, <2>2
<1>4. CASE Refused(x)
  <2>1. \E l \in RunPCs : RunGoto(x, l)
    <3>1. CASE run[x] = "saySucceeded"
      BY <1>4, <3>1 DEF Refused, RunPCs
    <3>2. CASE run[x] = "sayFailedAgain"
      BY <1>4, <3>2 DEF Refused, RunPCs
    <3>3. CASE run[x] \notin {"saySucceeded", "sayFailedAgain"}
      BY <1>4, <3>3 DEF Refused, RunPCs
    <3> QED BY <3>1, <3>2, <3>3
  <2>2. UNCHANGED handlers
    BY <1>4 DEF Refused
  <2> QED BY <1>a, <1>b, <2>1, <2>2
<1>5. CASE Kill(x)
  BY <1>a, <1>b, <1>5 DEF Kill, RunPCs
<1>6. CASE Rerun(x)
  <2>1. run' \in [Runs -> RunPCs]
    BY <1>6, RunsType, StartRunType DEF Rerun
  <2> QED BY <1>6, <2>1 DEF Rerun, TypeOK, threads, handlers
<1> QED BY <1>1, <1>2, <1>3, <1>4, <1>5, <1>6 DEF RunStep

LEMMA RestartType ==
  ASSUME TypeOK, BackendRestarts \/ TasksRestart
  PROVE  TypeOK'
<1>1. CASE BackendRestarts
  <2>1. hpc' \in [Runs -> HandlerPCs]
    BY <1>1 DEF BackendRestarts, HandlerPCs
  <2> QED BY <1>1, <2>1, StopType DEF BackendRestarts, TypeOK
<1>2. CASE TasksRestart
  BY <1>2, StopType DEF TasksRestart, TypeOK, handlers
<1> QED BY <1>1, <1>2

LEMMA InitType == Init => TypeOK
<1> SUFFICES ASSUME Init PROVE TypeOK
  OBVIOUS
<1> USE DEF Init
<1>1. status \in [Jobs -> Statuses] /\ batchStatus \in {"created", "succeeded"}
  BY DEF Statuses
<1>2. tpc \in [Threads -> ThreadPCs]
  BY DEF ThreadPCs
<1>3. todo \in [Threads -> SUBSET Jobs] /\ left \in [Threads -> SUBSET Jobs]
  OBVIOUS
<1>4. cur \in [Threads -> Jobs]
  BY NoJobType
<1>5. run \in [Runs -> RunPCs] /\ hpc \in [Runs -> HandlerPCs]
  BY DEF RunPCs, HandlerPCs
<1>6. batch \in [Runs -> {"created", "succeeded"}] /\ succeeded \in SUBSET Jobs
        /\ merged \in BOOLEAN
  OBVIOUS
<1> QED BY <1>1, <1>2, <1>3, <1>4, <1>5, <1>6 DEF TypeOK

LEMMA StepType == TypeOK /\ [Next]_vars => TypeOK'
<1> SUFFICES ASSUME TypeOK, [Next]_vars PROVE TypeOK'
  OBVIOUS
<1>1. CASE UNCHANGED vars
  BY <1>1 DEF vars, TypeOK
<1> QED
  BY <1>1, ThreadStepType, HandlerStepType, RunStepType, RestartType DEF Next

\* Every variable keeps its type.
THEOREM TypeCorrect == Spec => []TypeOK
  BY InitType, StepType, PTL DEF Spec

-----------------------------------------------------------------------------
(* The inductive invariant.  What a thread is about to schedule, what      *)
(* waits in the queue and what runs has parents that have all succeeded; a *)
(* row says succeeded only of a job that has; a handler decides that the   *)
(* batch has succeeded only when every job has.                            *)

Ready(j) == Parents[j] \subseteq succeeded

ThreadInv ==
  /\ \A t \in Threads : t \notin Runs => \A j \in todo[t] : Ready(j)
  /\ \A t \in Threads :
       tpc[t] \in {"schedule", "enqueue", "dispatch", "mark"} => Ready(cur[t])
  /\ \A t \in Threads : tpc[t] = "parents" => Parents[cur[t]] \ left[t] \subseteq succeeded

RowInv ==
  /\ \A j \in Jobs : status[j] = "queued" => Ready(j)
  /\ \A j \in Jobs : status[j] = "succeeded" => j \in succeeded

RunInv == \A x \in Runs : run[x] # "none" => Ready(x[1])

BatchInv ==
  /\ batchStatus = "succeeded" \/ merged => succeeded = Jobs
  /\ \A x \in Runs : batch[x] = "succeeded" \/ hpc[x] = "saveBatch" => succeeded = Jobs

\* A handler works for a run that waits for it, and one that saves a success
\* again has saved it before.
SaidInv ==
  \A x \in Runs :
    /\ hpc[x] # "idle" => Reporting(x)
    /\ hpc[x] \in {"url", "resave"} /\ Said(x) = "succeeded" => x[1] \in succeeded

Inv == TypeOK /\ ThreadInv /\ RowInv /\ RunInv /\ BatchInv /\ SaidInv

Grows == succeeded \subseteq succeeded' /\ succeeded' \subseteq Jobs

LEMMA ReadyStable ==
  ASSUME Grows, NEW j, Ready(j)
  PROVE  Ready(j)'
  BY DEF Grows, Ready

LEMMA ThreadsKept == ASSUME Inv, Grows, UNCHANGED threads PROVE ThreadInv'
  BY DEF Inv, ThreadInv, Grows, threads, Ready

LEMMA RunsKept == ASSUME Inv, Grows, UNCHANGED run PROVE RunInv'
  BY DEF Inv, RunInv, Grows, Ready

LEMMA RowsKept == ASSUME Inv, Grows, UNCHANGED status PROVE RowInv'
  BY DEF Inv, RowInv, Grows, Ready

LEMMA BatchKept ==
  ASSUME Inv, Grows, UNCHANGED <<batchStatus, merged, handlers>>
  PROVE  BatchInv'
  BY DEF Inv, BatchInv, Grows, handlers

\* A thread moves on to other jobs, all ready unless it will read their parents.
LEMMA LoopKeeps ==
  ASSUME Inv, Grows, NEW t \in Threads, NEW l \in {"idle", "next", "links"},
         NEW S \in SUBSET Jobs, Loop(t, l, S), t \notin Runs => \A j \in S : Ready(j)
  PROVE  ThreadInv'
<1>1. /\ \A u \in Threads : u # t => /\ tpc'[u] = tpc[u] /\ todo'[u] = todo[u]
                                     /\ cur'[u] = cur[u] /\ left'[u] = left[u]
      /\ tpc'[t] = l /\ todo'[t] = S
  BY DEF Loop, Inv, TypeOK
<1>2. \A u \in Threads : u \notin Runs => \A j \in todo'[u] : Ready(j)'
  BY <1>1, ReadyStable DEF Inv, ThreadInv
<1>3. \A u \in Threads :
        tpc'[u] \in {"schedule", "enqueue", "dispatch", "mark"} => Ready(cur[u])' /\ cur'[u] = cur[u]
  BY <1>1 DEF Inv, ThreadInv, Ready, Grows
<1>4. \A u \in Threads : tpc'[u] = "parents" => Parents[cur'[u]] \ left'[u] \subseteq succeeded'
  BY <1>1 DEF Inv, ThreadInv, Grows
<1> QED BY <1>2, <1>3, <1>4 DEF ThreadInv, Ready

LEMMA ScheduleFailsKeeps ==
  ASSUME Inv, Grows, NEW t \in Threads, ScheduleFails(t)
  PROVE  ThreadInv'
<1>1. todo[t] \in SUBSET Jobs /\ (t \notin Runs => \A j \in todo[t] : Ready(j))
  BY DEF Inv, TypeOK, ThreadInv
<1>2. Loop(t, "idle", {}) \/ Loop(t, "next", todo[t])
  BY DEF ScheduleFails
<1> QED BY <1>1, <1>2, LoopKeeps

\* A thread goes from one step of scheduling a job to the next.
LEMMA GotoKeeps ==
  ASSUME Inv, Grows, NEW t \in Threads, NEW l \in {"enqueue", "dispatch", "mark"},
         tpc[t] \in {"schedule", "dispatch"}, Goto(t, l)
  PROVE  ThreadInv'
  BY DEF Inv, TypeOK, ThreadInv, Grows, Goto, Ready

LEMMA StartRunKeeps ==
  ASSUME Inv, Grows, NEW j \in Jobs, Ready(j), StartRun(j)
  PROVE  RunInv'
<1>1. PICK k \in 1..MaxRuns : run' = [run EXCEPT ![<<j, k>>] = "boot"]
  BY DEF StartRun
<1>2. ASSUME NEW x \in Runs, run'[x] # "none" PROVE Ready(x[1])'
  <2>1. CASE x = <<j, k>>
    BY <2>1, ReadyStable
  <2>2. CASE x # <<j, k>>
    BY <1>1, <1>2, <2>2, ReadyStable DEF Inv, TypeOK, RunInv
  <2> QED BY <2>1, <2>2
<1> QED BY <1>2 DEF RunInv, Ready

LEMMA ThreadStepKeeps ==
  ASSUME Inv, NEW t \in Threads, ThreadStep(t) \/ ThreadCallFails(t)
  PROVE  ThreadInv' /\ RowInv' /\ RunInv' /\ BatchInv'
<1>0. /\ cur[t] \in Jobs /\ todo[t] \in SUBSET Jobs /\ left[t] \in SUBSET Jobs
      /\ Grows
      /\ t \notin Runs => \A j \in todo[t] : Ready(j)
  <2>1. UNCHANGED succeeded
    BY DEF ThreadStep, TriggerDiggerJobs, Tick, GetJobLinks, NextJob, ReadParent,
       ScheduleJob, Enqueue, TriggerWorkflow, SaveTriggered, ThreadCallFails
  <2> QED BY <2>1 DEF Inv, TypeOK, ThreadInv, Grows
<1>a. ASSUME ThreadInv', UNCHANGED rest
      PROVE  ThreadInv' /\ RowInv' /\ RunInv' /\ BatchInv'
  BY <1>0, <1>a, RunsKept, RowsKept, BatchKept DEF rest
<1>b. ASSUME NEW s \in {"queued", "triggered"}, status' = [status EXCEPT ![cur[t]] = s],
             s = "queued" => Ready(cur[t])
      PROVE  RowInv'
  BY <1>0, <1>b, ReadyStable DEF Inv, TypeOK, RowInv, Grows, Ready
<1>c. Loop(t, "next", todo[t]) => ThreadInv'
  BY <1>0, LoopKeeps
<1>d. ScheduleFails(t) => ThreadInv'
  BY <1>0, ScheduleFailsKeeps
<1>e. Loop(t, "idle", {}) => ThreadInv'
  BY <1>0, LoopKeeps
<1>1. CASE t = Trigger /\ TriggerDiggerJobs
  <2> DEFINE S == {j \in Jobs : Parents[j] = {} /\ status[j] = "created"}
  <2>1. S \in SUBSET Jobs /\ \A j \in S : Ready(j)
    BY DEF Ready
  <2>2. Loop(t, "next", S) /\ UNCHANGED rest
    BY <1>1 DEF TriggerDiggerJobs, rest
  <2> HIDE DEF S
  <2> QED BY <1>0, <1>a, <2>1, <2>2, LoopKeeps
<1>2. CASE Tick(t)
  <2> DEFINE S == {j \in Jobs : status[j] = "queued"}
  <2>1. S \in SUBSET Jobs /\ \A j \in S : Ready(j)
    BY DEF Inv, RowInv
  <2>2. Loop(t, "next", S) /\ UNCHANGED rest
    BY <1>2 DEF Tick, rest
  <2> HIDE DEF S
  <2> QED BY <1>0, <1>a, <2>1, <2>2, LoopKeeps
<1>3. CASE GetJobLinks(t)
  <2>1. Children(t[1]) \in SUBSET Jobs
    BY DEF Children
  <2>2. Loop(t, "next", Children(t[1])) /\ t \in Runs /\ UNCHANGED rest
    BY <1>3 DEF GetJobLinks, rest
  <2> QED BY <1>0, <1>a, <2>1, <2>2, LoopKeeps
<1>4. CASE NextJob(t)
  <2>0. UNCHANGED rest
    BY <1>4 DEF NextJob, rest
  <2>1. CASE Loop(t, "idle", {})
    BY <1>a, <1>e, <2>0, <2>1
  <2>2. CASE ~Loop(t, "idle", {})
    <3>1. PICK j \in todo[t] :
            /\ cur' = [cur EXCEPT ![t] = j]
            /\ todo' = [todo EXCEPT ![t] = @ \ {j}]
            /\ left' = [left EXCEPT ![t] = IF t \in Runs THEN Parents[j] ELSE {}]
            /\ tpc' = [tpc EXCEPT ![t] = IF t \in Runs THEN "parents" ELSE "schedule"]
      BY <1>4, <2>2 DEF NextJob
    <3>2. ThreadInv'
      BY <1>0, <3>1, ReadyStable DEF Inv, TypeOK, ThreadInv, Grows, Ready
    <3> QED BY <1>a, <2>0, <3>2
  <2> QED BY <2>1, <2>2
<1>5. CASE ReadParent(t)
  <2>0. UNCHANGED rest /\ tpc[t] = "parents"
    BY <1>5 DEF ReadParent, rest
  <2>1. PICK p \in left[t] :
          IF status[p] = "succeeded"
          THEN /\ left' = [left EXCEPT ![t] = @ \ {p}]
               /\ tpc' = [tpc EXCEPT ![t] = IF left[t] = {p} THEN "schedule" ELSE "parents"]
               /\ UNCHANGED <<todo, cur>>
          ELSE Loop(t, "next", todo[t])
    BY <1>5 DEF ReadParent
  <2>2. CASE status[p] = "succeeded"
    <3>1. p \in succeeded /\ Parents[cur[t]] \ left[t] \subseteq succeeded
      BY <1>0, <2>0, <2>2 DEF Inv, ThreadInv, RowInv
    <3>2. Parents[cur[t]] \ (left[t] \ {p}) \subseteq succeeded
      BY <3>1
    <3>3. left[t] = {p} => Ready(cur[t])
      BY <3>2 DEF Ready
    <3>4. ThreadInv'
      BY <1>0, <2>1, <2>2, <3>2, <3>3 DEF Inv, TypeOK, ThreadInv, Grows, Ready
    <3> QED BY <1>a, <2>0, <3>4
  <2>3. CASE status[p] # "succeeded"
    BY <1>a, <1>c, <2>0, <2>1, <2>3
  <2> QED BY <2>2, <2>3
<1>6. CASE ScheduleJob(t)
  <2>1. (Goto(t, "enqueue") \/ Goto(t, "dispatch")) /\ tpc[t] = "schedule" /\ UNCHANGED rest
    BY <1>6 DEF ScheduleJob, rest
  <2> QED BY <1>0, <1>a, <2>1, GotoKeeps
<1>7. CASE Enqueue(t)
  <2>1. Ready(cur[t])
    BY <1>7 DEF Enqueue, Inv, ThreadInv
  <2>2. RowInv'
    BY <1>0, <1>7, <1>b, <2>1, RowsKept DEF Enqueue
  <2> QED BY <1>0, <1>7, <1>c, <2>2, RunsKept, BatchKept DEF Enqueue
<1>8. CASE TriggerWorkflow(t)
  <2>1. Ready(cur[t])
    BY <1>8 DEF TriggerWorkflow, Inv, ThreadInv
  <2>2. RunInv'
    BY <1>0, <1>8, <2>1, StartRunKeeps DEF TriggerWorkflow
  <2>3. ThreadInv'
    BY <1>0, <1>8, <1>d, GotoKeeps DEF TriggerWorkflow
  <2> QED BY <1>0, <1>8, <2>2, <2>3, RowsKept, BatchKept DEF TriggerWorkflow
<1>9. CASE SaveTriggered(t)
  <2>1. RowInv'
    BY <1>0, <1>9, <1>b, RowsKept DEF SaveTriggered
  <2>2. ThreadInv'
    BY <1>9, <1>c, <1>d DEF SaveTriggered
  <2> QED BY <1>0, <1>9, <2>1, <2>2, RunsKept, BatchKept DEF SaveTriggered
<1>10. CASE ThreadCallFails(t)
  <2>1. ThreadInv' /\ UNCHANGED rest
    BY <1>10, <1>d, <1>e DEF ThreadCallFails, rest
  <2> QED BY <1>a, <2>1
<1> QED
  BY <1>1, <1>2, <1>3, <1>4, <1>5, <1>6, <1>7, <1>8, <1>9, <1>10 DEF ThreadStep

\* A handler changes one row, and what it knows of the batch.
LEMMA HandlerStepKeeps ==
  ASSUME Inv, NEW x \in Runs, HandlerStep(x) \/ HandlerCallFails(x)
  PROVE  ThreadInv' /\ RowInv' /\ RunInv' /\ BatchInv'
<1>0. x[1] \in Jobs /\ x \in Threads /\ Said(x) \in {"started", "succeeded", "failed"}
  BY RunsType, SaidType
<1>1. CASE SaveStatus(x)
  <2>1. Grows
    BY <1>0, <1>1 DEF SaveStatus, Inv, TypeOK, Grows
  <2>2. ThreadInv'
    <3>1. CASE Said(x) = "succeeded"
      BY <1>0, <1>1, <2>1, <3>1, LoopKeeps DEF SaveStatus
    <3> QED BY <1>1, <2>1, <3>1, ThreadsKept DEF SaveStatus
  <2>3. RowInv'
    BY <1>0, <1>1, <2>1, ReadyStable DEF SaveStatus, Inv, TypeOK, RowInv, Grows, Ready
  <2>4. BatchInv'
    BY <1>1, <2>1 DEF SaveStatus, Answer, Inv, TypeOK, BatchInv, Grows
  <2> QED BY <1>1, <2>1, <2>2, <2>3, <2>4, RunsKept DEF SaveStatus
<1>2. ASSUME ~SaveStatus(x), HandlerStep(x) \/ HandlerCallFails(x)
      PROVE  UNCHANGED <<threads, run, succeeded>>
  BY <1>2 DEF HandlerStep, SetJobStatusForProject, SaveUrl, SaveTimestamp, ReadJobs, SaveBatch,
     UpdateCheckRuns, AutomergePRforBatchIfEnabled, HandlerCallFails
<1>3. ASSUME UNCHANGED <<threads, run, succeeded>> PROVE Grows /\ ThreadInv' /\ RunInv'
  BY <1>3, ThreadsKept, RunsKept DEF Grows, Inv, TypeOK
<1>4. CASE SaveUrl(x) \/ SaveTimestamp(x)
  <2>1. UNCHANGED <<threads, run, succeeded>>
    BY <1>4 DEF SaveUrl, SaveTimestamp
  <2>2. status' = [status EXCEPT ![x[1]] = Said(x)] \/ UNCHANGED status
    BY <1>4 DEF SaveUrl, SaveTimestamp
  <2>3. Said(x) = "succeeded" => x[1] \in succeeded
    BY <1>4 DEF Inv, SaidInv, SaveUrl, SaveTimestamp
  <2>4. RowInv'
    BY <1>0, <2>1, <2>2, <2>3 DEF Inv, TypeOK, RowInv, Ready
  <2>5. BatchInv'
    BY <1>4, <2>1 DEF SaveUrl, SaveTimestamp, Answer, Inv, TypeOK, BatchInv
  <2> QED BY <1>3, <2>1, <2>4, <2>5
<1>5. CASE ~SaveStatus(x) /\ UNCHANGED status
  <2>1. UNCHANGED <<threads, run, succeeded>>
    BY <1>2, <1>5
  <2>2. Grows /\ ThreadInv' /\ RunInv' /\ RowInv'
    BY <1>3, <1>5, <2>1, RowsKept
  <2>3. CASE SetJobStatusForProject(x)
    BY <2>1, <2>2, <2>3 DEF SetJobStatusForProject, Inv, TypeOK, BatchInv
  <2>4. CASE ReadJobs(x)
    <3>1. (\A j \in Jobs : status[j] = "succeeded") => succeeded = Jobs
      BY DEF Inv, TypeOK, RowInv
    <3> QED BY <2>1, <2>2, <2>4, <3>1 DEF ReadJobs, Answer, Inv, TypeOK, BatchInv
  <2>5. CASE SaveBatch(x)
    <3>1. succeeded = Jobs
      BY <2>5 DEF SaveBatch, Inv, BatchInv
    <3> QED BY <2>1, <2>2, <3>1 DEF BatchInv
  <2>6. CASE AutomergePRforBatchIfEnabled(x)
    BY <2>1, <2>2, <2>6 DEF AutomergePRforBatchIfEnabled, Answer, Inv, TypeOK, BatchInv
  <2>7. CASE UpdateCheckRuns(x) \/ HandlerCallFails(x)
    BY <2>1, <2>2, <2>7 DEF UpdateCheckRuns, HandlerCallFails, Answer, Inv, TypeOK, BatchInv
  <2> QED
    BY <1>4, <1>5, <2>2, <2>3, <2>4, <2>5, <2>6, <2>7 DEF HandlerStep
<1>6. CASE ~SaveStatus(x) /\ ~UNCHANGED status
  BY <1>4, <1>6 DEF HandlerStep, SetJobStatusForProject, ReadJobs, SaveBatch,
     UpdateCheckRuns, AutomergePRforBatchIfEnabled, HandlerCallFails
<1> QED BY <1>1, <1>5, <1>6

LEMMA RunStepKeeps ==
  ASSUME Inv, NEW x \in Runs, RunStep(x) \/ Refused(x) \/ Kill(x) \/ Rerun(x)
  PROVE  ThreadInv' /\ RowInv' /\ RunInv' /\ BatchInv'
<1>1. UNCHANGED <<status, batchStatus, threads, succeeded, merged>>
  BY DEF RunStep, Boot, Work, Reported, Refused, Kill, Rerun, RunGoto, handlers
<1>2. Grows /\ ThreadInv' /\ RowInv'
  BY <1>1, ThreadsKept, RowsKept DEF Grows, Inv, TypeOK
<1>3. \A y \in Runs : /\ hpc'[y] = "saveBatch" => hpc[y] = "saveBatch"
                      /\ batch'[y] = "succeeded" => batch[y] = "succeeded"
  BY DEF RunStep, Boot, Work, Reported, Refused, Kill, Rerun, handlers, Inv, TypeOK
<1>4. BatchInv'
  BY <1>1, <1>3 DEF BatchInv, Inv
<1>5. RunInv'
  <2>1. CASE Rerun(x)
    <3>1. x[1] \in Jobs /\ Ready(x[1]) /\ StartRun(x[1])
      BY <2>1, RunsType DEF Rerun, Inv, RunInv
    <3> QED BY <1>2, <3>1, StartRunKeeps
  <2>2. CASE ~Rerun(x)
    <3>1. run[x] # "none" /\ \E l : run' = [run EXCEPT ![x] = l]
      BY <2>2 DEF RunStep, Boot, Work, Reported, Refused, Kill, RunGoto, Reporting,
         Inv, SaidInv
    <3> QED BY <1>1, <3>1 DEF Inv, TypeOK, RunInv, Ready
  <2> QED BY <2>1, <2>2
<1> QED BY <1>2, <1>4, <1>5

LEMMA StopKeeps ==
  ASSUME Inv, NEW S, StopThreads(S), UNCHANGED succeeded
  PROVE  ThreadInv'
<1>1. \A t \in Threads : todo'[t] \in {{}, todo[t]}
  BY DEF StopThreads
<1>2. \A t \in Threads :
        tpc'[t] = "idle" \/ (tpc'[t] = tpc[t] /\ cur'[t] = cur[t] /\ left'[t] = left[t])
  BY DEF StopThreads
<1> QED BY <1>1, <1>2 DEF Inv, ThreadInv, Ready

LEMMA RestartKeeps ==
  ASSUME Inv, BackendRestarts \/ TasksRestart
  PROVE  ThreadInv' /\ RowInv' /\ RunInv' /\ BatchInv'
<1>1. UNCHANGED <<status, batchStatus, run, batch, succeeded, merged>>
  BY DEF BackendRestarts, TasksRestart, handlers
<1>2. Grows /\ RowInv' /\ RunInv'
  BY <1>1, RowsKept, RunsKept DEF Grows, Inv, TypeOK
<1>3. ThreadInv'
  BY <1>1, StopKeeps DEF BackendRestarts, TasksRestart
<1>4. \A y \in Runs : hpc'[y] = "saveBatch" => hpc[y] = "saveBatch"
  BY DEF BackendRestarts, TasksRestart, handlers
<1>5. BatchInv'
  BY <1>1, <1>4 DEF BatchInv, Inv
<1> QED BY <1>2, <1>3, <1>5

LEMMA SaidStep ==
  ASSUME Inv, [Next]_vars
  PROVE  SaidInv'
<1> USE DEF Inv, TypeOK
<1>a. ASSUME UNCHANGED <<run, hpc, succeeded>> PROVE SaidInv'
  BY <1>a DEF SaidInv, Reporting, Said
<1>b. ASSUME NEW j \in Jobs, StartRun(j), UNCHANGED <<hpc, succeeded>> PROVE SaidInv'
  <2>1. \A y \in Runs : run'[y] = run[y] \/ run[y] = "none"
    BY <1>b DEF StartRun
  <2>2. \A y \in Runs : hpc[y] # "idle" => run'[y] = run[y]
    BY <2>1 DEF SaidInv, Reporting
  <2> QED BY <1>b, <2>2 DEF SaidInv, Reporting, Said
<1>1. ASSUME NEW t \in Threads, ThreadStep(t) \/ ThreadCallFails(t) PROVE SaidInv'
  <2>1. CASE TriggerWorkflow(t)
    BY <1>b, <2>1 DEF TriggerWorkflow, handlers
  <2>2. CASE ~TriggerWorkflow(t)
    BY <1>1, <1>a, <2>2 DEF ThreadStep, TriggerDiggerJobs, Tick, GetJobLinks, NextJob,
       ReadParent, ScheduleJob, Enqueue, SaveTriggered, ThreadCallFails, handlers
  <2> QED BY <2>1, <2>2
<1>2. ASSUME NEW x \in Runs, HandlerStep(x) \/ HandlerCallFails(x) PROVE SaidInv'
  <2>1. /\ UNCHANGED run /\ succeeded \subseteq succeeded' /\ Reporting(x)
        /\ \A y \in Runs : y # x => hpc'[y] = hpc[y]
    BY <1>2 DEF HandlerStep, SetJobStatusForProject, SaveStatus, SaveUrl, SaveTimestamp,
       ReadJobs, SaveBatch, UpdateCheckRuns, AutomergePRforBatchIfEnabled,
       HandlerCallFails, Answer, SaidInv
  <2>2. hpc'[x] \in {"url", "resave"} /\ Said(x) = "succeeded" => x[1] \in succeeded'
    BY <1>2 DEF HandlerStep, SetJobStatusForProject, SaveStatus, SaveUrl, SaveTimestamp,
       ReadJobs, SaveBatch, UpdateCheckRuns, AutomergePRforBatchIfEnabled,
       HandlerCallFails, Answer, SaidInv
  <2> QED BY <2>1, <2>2 DEF SaidInv, Reporting, Said
<1>3. ASSUME NEW x \in Runs, RunStep(x) \/ Refused(x) \/ Kill(x) PROVE SaidInv'
  <2>1. /\ UNCHANGED succeeded /\ hpc'[x] = "idle"
        /\ \A y \in Runs : y # x => hpc'[y] = hpc[y] /\ run'[y] = run[y]
    BY <1>3 DEF RunStep, Boot, Work, Reported, Refused, Kill, RunGoto, SaidInv, Reporting, handlers
  <2> QED BY <2>1 DEF SaidInv, Reporting, Said
<1>4. ASSUME NEW x \in Runs, Rerun(x) PROVE SaidInv'
  BY <1>4, <1>b, RunsType DEF Rerun, handlers
<1>5. CASE BackendRestarts
  BY <1>5 DEF BackendRestarts, SaidInv, Reporting, Said
<1>6. CASE TasksRestart \/ UNCHANGED vars
  BY <1>6, <1>a DEF TasksRestart, vars, handlers
<1> QED BY <1>1, <1>2, <1>3, <1>4, <1>5, <1>6 DEF Next

LEMMA InvInit == Init => Inv
<1> SUFFICES ASSUME Init PROVE Inv
  OBVIOUS
<1>1. TypeOK
  BY InitType
<1>2. ThreadInv
  BY DEF Init, ThreadInv
<1>3. RowInv /\ RunInv /\ BatchInv /\ SaidInv
  BY DEF Init, RowInv, RunInv, BatchInv, SaidInv
<1> QED BY <1>1, <1>2, <1>3 DEF Inv

LEMMA InvStep == Inv /\ [Next]_vars => Inv'
<1> SUFFICES ASSUME Inv, [Next]_vars PROVE Inv'
  OBVIOUS
<1>1. TypeOK' /\ SaidInv'
  BY StepType, SaidStep DEF Inv
<1>2. CASE UNCHANGED vars
  <2>1. Grows /\ UNCHANGED threads /\ UNCHANGED run /\ UNCHANGED status
          /\ UNCHANGED <<batchStatus, merged, handlers>>
    BY <1>2 DEF vars, threads, handlers, Grows, Inv, TypeOK
  <2> QED BY <1>1, <2>1, ThreadsKept, RunsKept, RowsKept, BatchKept DEF Inv
<1>3. CASE Next
  <2>1. ThreadInv' /\ RowInv' /\ RunInv' /\ BatchInv'
    BY <1>3, ThreadStepKeeps, HandlerStepKeeps, RunStepKeeps, RestartKeeps DEF Next
  <2> QED BY <1>1, <2>1 DEF Inv
<1> QED BY <1>2, <1>3

\* Jobs run, and wait in the queue, only after their parents have succeeded.
THEOREM OrderRespected == Spec => []ParentsFirst
<1>1. Inv => ParentsFirst
  <2> SUFFICES ASSUME Inv, NEW j \in Jobs,
                      status[j] = "queued" \/ \E k \in 1..MaxRuns : run[<<j, k>>] # "none"
               PROVE  Parents[j] \subseteq succeeded
    BY DEF ParentsFirst
  <2>1. CASE status[j] = "queued"
    BY <2>1 DEF Inv, RowInv, Ready
  <2>2. CASE \E k \in 1..MaxRuns : run[<<j, k>>] # "none"
    <3>1. PICK k \in 1..MaxRuns : run[<<j, k>>] # "none"
      BY <2>2
    <3>2. <<j, k>> \in Runs /\ <<j, k>>[1] = j
      BY DEF Runs
    <3> QED BY <3>1, <3>2 DEF Inv, RunInv, Ready
  <2> QED BY <2>1, <2>2
<1> QED BY <1>1, InvInit, InvStep, PTL DEF Spec

\* A batch is marked succeeded, and merged, only after every job succeeded.
THEOREM BatchSoundness == Spec => []BatchSound
<1>1. Inv => BatchSound
  BY DEF Inv, BatchInv, BatchSound
<1> QED BY <1>1, InvInit, InvStep, PTL DEF Spec

-----------------------------------------------------------------------------
(* Refinement: every step is one step of BatchOrder, or none.              *)

\* Creating a run of a ready job releases the job.
LEMMA StartReleases ==
  ASSUME Inv, NEW j \in Jobs, Ready(j), StartRun(j),
         UNCHANGED <<batchStatus, succeeded, merged>>
  PROVE  Order!Release(j)
<1>1. PICK k \in 1..MaxRuns : run' = [run EXCEPT ![<<j, k>>] = "boot"]
  BY DEF StartRun
<1>2. \A i \in Jobs, l \in 1..MaxRuns :
        run'[<<i, l>>] # "none" <=> run[<<i, l>>] # "none" \/ (i = j /\ l = k)
  BY <1>1 DEF Inv, TypeOK, Runs
<1>3. Released' = Released \cup {j}
  BY <1>2 DEF Released
<1> QED BY <1>3 DEF Order!Release, Ready

\* No other step changes which jobs have runs.
LEMMA RunsStay ==
  ASSUME NEW x \in Runs, NEW l, run[x] # "none", l # "none", run \in [Runs -> RunPCs],
         run' = [run EXCEPT ![x] = l]
  PROVE  Released' = Released
<1>1. \A y \in Runs : run'[y] # "none" <=> run[y] # "none"
  OBVIOUS
<1> QED BY <1>1 DEF Released, Runs

LEMMA Stutter ==
  ASSUME Released' = Released, UNCHANGED <<batchStatus, succeeded, merged>>
  PROVE  UNCHANGED Order!vars
  BY DEF Order!vars

LEMMA StepRefines ==
  ASSUME Inv, [Next]_vars
  PROVE  [Order!Next]_(Order!vars)
<1>a. ASSUME UNCHANGED <<run, batchStatus, succeeded, merged>> PROVE UNCHANGED Order!vars
  BY <1>a, Stutter DEF Released
<1>1. ASSUME NEW t \in Threads, ThreadStep(t) \/ ThreadCallFails(t)
      PROVE  [Order!Next]_(Order!vars)
  <2>1. CASE TriggerWorkflow(t)
    <3>1. cur[t] \in Jobs /\ Ready(cur[t])
      BY <2>1 DEF TriggerWorkflow, Inv, TypeOK, ThreadInv
    <3>2. PICK j \in Jobs : j = cur[t]
      BY <3>1
    <3>3. Order!Release(j)
      BY <2>1, <3>1, <3>2, StartReleases DEF TriggerWorkflow
    <3> QED BY <3>3 DEF Order!Next
  <2>2. CASE ~TriggerWorkflow(t)
    BY <1>1, <1>a, <2>2 DEF ThreadStep, TriggerDiggerJobs, Tick, GetJobLinks, NextJob,
       ReadParent, ScheduleJob, Enqueue, SaveTriggered, ThreadCallFails
  <2> QED BY <2>1, <2>2
<1>2. ASSUME NEW x \in Runs, HandlerStep(x) \/ HandlerCallFails(x)
      PROVE  [Order!Next]_(Order!vars)
  <2>1. CASE SaveStatus(x) /\ Said(x) = "succeeded"
    <3>1. PICK j \in Jobs, k \in 1..MaxRuns : x = <<j, k>>
      BY DEF Runs
    <3>2. run[x] # "none"
      BY <2>1 DEF Said
    <3>3. j \in Released /\ Released' = Released
      BY <2>1, <3>1, <3>2 DEF Released, SaveStatus
    <3>4. Order!Finish(j)
      BY <2>1, <3>1, <3>3 DEF Order!Finish, SaveStatus
    <3> QED BY <3>4 DEF Order!Next
  <2>2. CASE SaveBatch(x)
    <3>1. succeeded = Jobs /\ Released' = Released
      BY <2>2 DEF SaveBatch, Inv, BatchInv, Released
    <3>2. CASE batchStatus' = "succeeded"
      BY <2>2, <3>1, <3>2 DEF SaveBatch, Order!Complete, Order!Next
    <3>3. CASE UNCHANGED batchStatus
      BY <2>2, <3>1, <3>3, Stutter DEF SaveBatch
    <3> QED BY <2>2, <3>2, <3>3 DEF SaveBatch
  <2>3. CASE AutomergePRforBatchIfEnabled(x)
    <3>1. UNCHANGED <<run, batchStatus, succeeded>> /\ Released' = Released
      BY <2>3 DEF AutomergePRforBatchIfEnabled, Released
    <3>2. CASE merged' = merged
      BY <1>a, <3>1, <3>2
    <3>3. CASE merged' # merged
      <4>1. merged' = TRUE /\ succeeded = Jobs
        BY <2>3, <3>3 DEF AutomergePRforBatchIfEnabled, Inv, TypeOK, BatchInv
      <4> QED BY <3>1, <4>1 DEF Order!Merge, Order!Next
    <3> QED BY <3>2, <3>3
  <2>4. CASE ~(SaveStatus(x) /\ Said(x) = "succeeded") /\ ~SaveBatch(x)
               /\ ~AutomergePRforBatchIfEnabled(x)
    BY <1>2, <1>a, <2>4 DEF HandlerStep, SetJobStatusForProject, SaveStatus, SaveUrl,
       SaveTimestamp, ReadJobs, UpdateCheckRuns, HandlerCallFails
  <2> QED BY <2>1, <2>2, <2>3, <2>4
<1>3. ASSUME NEW x \in Runs, RunStep(x) \/ Refused(x) \/ Kill(x)
      PROVE  [Order!Next]_(Order!vars)
  <2>1. UNCHANGED <<batchStatus, succeeded, merged>> /\ run[x] # "none"
    BY <1>3 DEF RunStep, Boot, Work, Reported, Refused, Kill, RunGoto, Reporting,
       Inv, SaidInv
  <2>2. \E l : l # "none" /\ run' = [run EXCEPT ![x] = l]
    BY <1>3 DEF RunStep, Boot, Work, Reported, Refused, Kill, RunGoto
  <2>3. Released' = Released
    BY <2>1, <2>2, RunsStay DEF Inv, TypeOK
  <2> QED BY <2>1, <2>3, Stutter
<1>4. ASSUME NEW x \in Runs, Rerun(x) PROVE [Order!Next]_(Order!vars)
  <2>1. x[1] \in Jobs /\ Ready(x[1])
    BY <1>4, RunsType DEF Rerun, Inv, RunInv
  <2>2. Order!Release(x[1])
    BY <1>4, <2>1, StartReleases DEF Rerun
  <2> QED BY <2>1, <2>2 DEF Order!Next
<1>5. ASSUME BackendRestarts \/ TasksRestart \/ UNCHANGED vars
      PROVE  UNCHANGED Order!vars
  BY <1>5, <1>a DEF BackendRestarts, TasksRestart, vars
<1> QED BY <1>1, <1>2, <1>3, <1>4, <1>5 DEF Next

\* The scheduler implements the order of a batch.
THEOREM Refinement == Spec => ImplementsOrder
<1>1. Init => Order!Init
  <2> SUFFICES ASSUME Init PROVE Order!Init
    OBVIOUS
  <2>1. \A j \in Jobs, k \in 1..MaxRuns : run[<<j, k>>] = "none"
    BY DEF Init, Runs
  <2>2. Released = {}
    BY <2>1 DEF Released
  <2>3. batchStatus # "succeeded" /\ merged = FALSE /\ succeeded = {}
    BY DEF Init
  <2> QED BY <2>2, <2>3 DEF Order!Init
<1>2. Inv /\ [Next]_vars => [Order!Next]_(Order!vars)
  BY StepRefines
<1> QED BY <1>1, <1>2, InvInit, InvStep, PTL DEF Spec, ImplementsOrder, Order!Spec

-----------------------------------------------------------------------------
(* Calm weather: what is released once.                                    *)

\* Each job has one parent at most, as ImpactedGraph has it of its links.
OneParent == \A j \in Jobs : \A p, q \in Parents[j] : p = q

\* Cron firings do not overlap, every save and every answer of the CI counts,
\* and nobody starts a run again.
Calm ==
  /\ \A s, t \in Ticks : s = t
  /\ OneParent
  /\ Faults \cap {"db", "lostAck", "cronCrash", "rerun"} = {}

\* Job j has no run.
Unreleased(j) == \A k \in 1..MaxRuns : run[<<j, k>>] = "none"

\* Thread t may still release job j, or put it into the queue.
Holds(t, j) ==
  \/ j \in todo[t]
  \/ tpc[t] \in {"parents", "schedule", "enqueue", "dispatch"} /\ cur[t] = j

\* Nobody has done anything about j yet.
Fresh(j) == status[j] = "created" /\ Unreleased(j) /\ \A t \in Threads : ~Holds(t, j)

\* The success of run x is not saved yet.
Early(x) ==
  \/ run[x] \in {"none", "boot", "sayStarted", "working"}
  \/ run[x] = "saySucceeded" /\ hpc[x] \in {"idle", "save"}

\* Thread t has released job j and is about to save its row.
MarkedBy(t, j) == tpc[t] = "mark" /\ cur[t] = j

\* A job that a thread holds is held by no other and was not released.
HoldInv ==
  \A t \in Threads, j \in Jobs : Holds(t, j) =>
    /\ Unreleased(j)
    /\ \A u \in Threads : Holds(u, j) => u = t
    /\ status[j] = IF t \in Ticks THEN "queued" ELSE "created"
    /\ t = Trigger => Parents[j] = {}
    /\ t \in Runs => t[1] \in Parents[j] /\ ~Early(t)

\* The children of a job are fresh until its goroutine looks them up, and the
\* jobs without parents until the webhook's thread does.
FreshInv ==
  /\ tpc[Trigger] = "begin" => \A j \in Jobs : Parents[j] = {} => Fresh(j)
  /\ \A j \in Jobs : (\A k \in 1..MaxRuns : Early(<<j, k>>)) => \A c \in Children(j) : Fresh(c)
  /\ \A x \in Runs : tpc[x] = "links" => ~Early(x) /\ \A c \in Children(x[1]) : Fresh(c)

\* A job in the queue was not released, or its row is about to be saved.
QueueInv ==
  \A j \in Jobs : status[j] = "queued" => Unreleased(j) \/ \E t \in Ticks : MarkedBy(t, j)

\* A row about to be saved is that of a released job, and none is released twice.
ReleaseInv ==
  /\ \A t \in Threads, j \in Jobs : MarkedBy(t, j) => ~Unreleased(j)
  /\ TriggeredOnce

\* The invariant of calm weather.
CalmInv == HoldInv /\ FreshInv /\ QueueInv /\ ReleaseInv

\* The threads are of three kinds.
LEMMA Kinds ==
  /\ Trigger \in Threads /\ Trigger \notin Ticks /\ Trigger \notin Runs
  /\ \A t \in Ticks : t \in Threads /\ t \notin Runs
  /\ \A x \in Runs : x \in Threads /\ x \notin Ticks
  /\ \A t \in Threads : t = Trigger \/ t \in Ticks \/ t \in Runs
  BY ThreadsAssumption DEF Threads

\* A step that takes no job up, releases none and queues none keeps the
\* invariant.
LEMMA CalmKept ==
  ASSUME Inv, CalmInv,
         \A t \in Threads, j \in Jobs : Holds(t, j)' => Holds(t, j),
         \A t \in Threads, j \in Jobs : MarkedBy(t, j)' => MarkedBy(t, j),
         \A t \in Ticks, j \in Jobs :
           MarkedBy(t, j) => MarkedBy(t, j)' \/ status'[j] # "queued",
         \A x \in Runs : /\ Early(x)' => Early(x)
                         /\ tpc'[x] = "links" =>
                              \/ tpc[x] = "links"
                              \/ ~Early(x)' /\ \A c \in Children(x[1]) : Fresh(c)
                         /\ run'[x] = "none" <=> run[x] = "none",
         \A j \in Jobs : status'[j] # status[j] => ~Unreleased(j) /\ status'[j] # "queued",
         tpc'[Trigger] = "begin" => tpc[Trigger] = "begin"
  PROVE  CalmInv'
<1>1. \A j \in Jobs : Unreleased(j)' <=> Unreleased(j)
  BY DEF Unreleased, Runs
<1>2. \A j \in Jobs : Fresh(j) => Fresh(j)'
  BY <1>1 DEF Fresh
<1>3. HoldInv'
  <2> SUFFICES ASSUME NEW t \in Threads, NEW j \in Jobs, Holds(t, j)'
               PROVE  /\ Unreleased(j)'
                      /\ \A u \in Threads : Holds(u, j)' => u = t
                      /\ status'[j] = IF t \in Ticks THEN "queued" ELSE "created"
                      /\ t = Trigger => Parents[j] = {}
                      /\ t \in Runs => t[1] \in Parents[j] /\ ~Early(t)'
    BY DEF HoldInv
  <2>1. Holds(t, j)
    OBVIOUS
  <2>2. /\ Unreleased(j)
        /\ \A u \in Threads : Holds(u, j) => u = t
        /\ status[j] = IF t \in Ticks THEN "queued" ELSE "created"
        /\ t = Trigger => Parents[j] = {}
        /\ t \in Runs => t[1] \in Parents[j] /\ ~Early(t)
    BY <2>1 DEF CalmInv, HoldInv
  <2>3. status'[j] = status[j]
    BY <2>2
  <2> QED BY <1>1, <2>2, <2>3
<1>4. FreshInv'
  <2>1. tpc'[Trigger] = "begin" => \A j \in Jobs : Parents[j] = {} => Fresh(j)'
    BY <1>2 DEF CalmInv, FreshInv
  <2>2. ASSUME NEW j \in Jobs, \A k \in 1..MaxRuns : Early(<<j, k>>)', NEW c \in Children(j)
        PROVE  Fresh(c)'
    <3>1. \A k \in 1..MaxRuns : Early(<<j, k>>)
      BY <2>2 DEF Runs
    <3>2. c \in Jobs
      BY <2>2 DEF Children
    <3> QED BY <1>2, <2>2, <3>1, <3>2 DEF CalmInv, FreshInv
  <2>3. ASSUME NEW x \in Runs, tpc'[x] = "links"
        PROVE  ~Early(x)' /\ \A c \in Children(x[1]) : Fresh(c)'
    <3>1. ~Early(x)' /\ \A c \in Children(x[1]) : Fresh(c) /\ c \in Jobs
      BY <2>3 DEF CalmInv, FreshInv, Children
    <3> QED BY <1>2, <3>1
  <2> QED BY <2>1, <2>2, <2>3 DEF FreshInv, Children
<1>5. QueueInv'
  <2> SUFFICES ASSUME NEW j \in Jobs, status'[j] = "queued", ~Unreleased(j)'
               PROVE  \E t \in Ticks : MarkedBy(t, j)'
    BY DEF QueueInv
  <2>1. PICK t \in Ticks : MarkedBy(t, j)
    BY <1>1 DEF CalmInv, QueueInv
  <2> QED BY <2>1
<1>6. ReleaseInv'
  <2>1. TriggeredOnce'
    BY DEF CalmInv, ReleaseInv, TriggeredOnce, Runs
  <2>2. ASSUME NEW t \in Threads, NEW j \in Jobs, MarkedBy(t, j)' PROVE ~Unreleased(j)'
    BY <1>1, <2>2 DEF CalmInv, ReleaseInv
  <2> QED BY <2>1, <2>2 DEF ReleaseInv
<1> QED BY <1>3, <1>4, <1>5, <1>6 DEF CalmInv

\* A thread that goes on with what it holds, or drops it.
LEMMA ThreadMoves ==
  ASSUME Inv, CalmInv, NEW t \in Threads,
         NextJob(t) \/ ReadParent(t) \/ ScheduleJob(t) \/ ThreadCallFails(t)
  PROVE  CalmInv'
<1>1. UNCHANGED <<status, run, handlers>>
  BY DEF NextJob, ReadParent, ScheduleJob, ThreadCallFails
<1>2. \A u \in Threads \ {t} : tpc'[u] = tpc[u] /\ todo'[u] = todo[u] /\ cur'[u] = cur[u]
  BY DEF NextJob, ReadParent, ScheduleJob, ThreadCallFails, Loop, Goto, ScheduleFails,
     Inv, TypeOK
<1>3. todo'[t] \subseteq todo[t] /\ tpc'[t] \notin {"begin", "links", "mark"} /\ tpc[t] # "mark"
  BY DEF NextJob, ReadParent, ScheduleJob, ThreadCallFails, Loop, Goto, ScheduleFails,
     Inv, TypeOK
<1>4. tpc'[t] \in {"parents", "schedule", "enqueue", "dispatch"} => Holds(t, cur'[t])
  <2>1. CASE NextJob(t)
    BY <2>1 DEF NextJob, Loop, Holds, Inv, TypeOK
  <2>2. CASE ReadParent(t)
    BY <2>2 DEF ReadParent, Loop, Holds, Inv, TypeOK
  <2>3. CASE ScheduleJob(t) \/ ThreadCallFails(t)
    BY <2>3 DEF ScheduleJob, ThreadCallFails, Loop, Goto, ScheduleFails, Holds, Inv, TypeOK
  <2> QED BY <2>1, <2>2, <2>3
<1>5. \A u \in Threads, j \in Jobs : Holds(u, j)' => Holds(u, j)
  BY <1>2, <1>3, <1>4 DEF Holds
<1>6. \A u \in Threads, j \in Jobs : MarkedBy(u, j)' <=> MarkedBy(u, j)
  BY <1>2, <1>3 DEF MarkedBy
<1>7. \A x \in Runs : Early(x)' <=> Early(x)
  BY <1>1 DEF Early, handlers
<1>8. \A u \in Threads : tpc'[u] \in {"begin", "links"} => tpc[u] = tpc'[u]
  BY <1>2, <1>3
<1> QED BY <1>1, <1>5, <1>6, <1>7, <1>8, Kinds, CalmKept

\* The handlers of requests but for the save of a success, and the runs.
LEMMA HandlerMoves ==
  ASSUME Inv, CalmInv, NEW x \in Runs, HandlerStep(x) \/ HandlerCallFails(x),
         ~(SaveStatus(x) /\ Said(x) = "succeeded")
  PROVE  CalmInv'
<1>1. UNCHANGED <<threads, run>> /\ Reporting(x)
  BY DEF HandlerStep, SetJobStatusForProject, SaveStatus, SaveUrl, SaveTimestamp,
     ReadJobs, SaveBatch, UpdateCheckRuns, AutomergePRforBatchIfEnabled,
     HandlerCallFails, Inv, SaidInv
<1>2. /\ \A y \in Runs \ {x} : hpc'[y] = hpc[y]
      /\ hpc'[x] \in {"idle", "save"} => hpc[x] \in {"idle", "save"}
  BY DEF HandlerStep, SetJobStatusForProject, SaveStatus, SaveUrl, SaveTimestamp,
     ReadJobs, SaveBatch, UpdateCheckRuns, AutomergePRforBatchIfEnabled,
     HandlerCallFails, Answer, Inv, TypeOK
<1>3. status' = status \/ status' = [status EXCEPT ![x[1]] = Said(x)]
  BY DEF HandlerStep, SetJobStatusForProject, SaveStatus, SaveUrl, SaveTimestamp,
     ReadJobs, SaveBatch, UpdateCheckRuns, AutomergePRforBatchIfEnabled, HandlerCallFails
<1>4. ~Unreleased(x[1]) /\ Said(x) # "queued" /\ x[1] \in Jobs
  BY <1>1 DEF Unreleased, Runs, Reporting, Said
<1>5. \A j \in Jobs : status'[j] # status[j] => ~Unreleased(j) /\ status'[j] # "queued"
  BY <1>3, <1>4 DEF Inv, TypeOK
<1>6. \A u \in Threads, j \in Jobs : (Holds(u, j)' <=> Holds(u, j)) /\ (MarkedBy(u, j)' <=> MarkedBy(u, j))
  BY <1>1 DEF Holds, MarkedBy, threads
<1>7. \A y \in Runs : Early(y)' => Early(y)
  BY <1>1, <1>2 DEF Early
<1> QED BY <1>1, <1>5, <1>6, <1>7, Kinds, CalmKept DEF threads

\* The runs take nothing up; what they report next never makes them early again.
LEMMA RunMoves ==
  ASSUME Inv, CalmInv, NEW x \in Runs, RunStep(x) \/ Refused(x) \/ Kill(x)
  PROVE  CalmInv'
<1>1. UNCHANGED <<status, threads>>
  BY DEF RunStep, Boot, Work, Reported, Refused, Kill, RunGoto
<1>2. \A y \in Runs \ {x} : run'[y] = run[y] /\ hpc'[y] = hpc[y]
  BY DEF RunStep, Boot, Work, Reported, Refused, Kill, RunGoto, handlers, Inv, TypeOK
<1>3. run[x] # "none" /\ run'[x] # "none" /\ hpc'[x] = "idle"
  BY DEF RunStep, Boot, Work, Reported, Refused, Kill, RunGoto, handlers, Reporting,
     Inv, TypeOK, SaidInv
<1>4. Early(x)' => Early(x)
  <2>1. CASE RunStep(x)
    BY <2>1 DEF RunStep, Boot, Work, Reported, RunGoto, Early, handlers, Inv, TypeOK
  <2>2. CASE Refused(x) \/ Kill(x)
    BY <2>2 DEF Refused, Kill, RunGoto, Early, handlers, Reporting, Inv, TypeOK
  <2> QED BY <2>1, <2>2
<1>5. \A y \in Runs : Early(y)' => Early(y)
  BY <1>2, <1>4 DEF Early
<1>6. \A u \in Threads, j \in Jobs : (Holds(u, j)' <=> Holds(u, j)) /\ (MarkedBy(u, j)' <=> MarkedBy(u, j))
  BY <1>1 DEF Holds, MarkedBy, threads
<1>7. \A y \in Runs : run'[y] = "none" <=> run[y] = "none"
  BY <1>2, <1>3
<1> QED BY <1>1, <1>5, <1>6, <1>7, Kinds, CalmKept DEF threads

\* The backend restarts: its threads hold nothing any more.
LEMMA RestartMoves ==
  ASSUME Inv, CalmInv, BackendRestarts
  PROVE  CalmInv'
<1>1. UNCHANGED <<status, run>>
  BY DEF BackendRestarts
<1>2. \A u \in Threads :
        /\ todo'[u] = {} \/ todo'[u] = todo[u]
        /\ tpc'[u] = "idle" \/ (tpc'[u] = tpc[u] /\ cur'[u] = cur[u])
  BY DEF BackendRestarts, StopThreads
<1>3. \A u \in Ticks : tpc'[u] = tpc[u] /\ cur'[u] = cur[u]
  BY Kinds DEF BackendRestarts, StopThreads
<1>4. \A y \in Runs : hpc'[y] \in {"idle", "save"} => hpc[y] \in {"idle", "save"}
  BY DEF BackendRestarts
<1>5. \A u \in Threads, j \in Jobs : (Holds(u, j)' => Holds(u, j)) /\ (MarkedBy(u, j)' => MarkedBy(u, j))
  BY <1>2 DEF Holds, MarkedBy
<1>6. \A u \in Ticks, j \in Jobs : MarkedBy(u, j)' <=> MarkedBy(u, j)
  BY <1>3 DEF MarkedBy
<1>7. \A y \in Runs : Early(y)' => Early(y)
  BY <1>1, <1>4 DEF Early
<1> QED BY <1>1, <1>2, <1>5, <1>6, <1>7, Kinds, CalmKept

\* Two runs that exist and are of the same job are one.
LEMMA SameRun ==
  ASSUME ReleaseInv, NEW x \in Runs, NEW y \in Runs, x[1] = y[1],
         run[x] # "none", run[y] # "none"
  PROVE  x = y
<1>1. PICK j \in Jobs, k \in 1..MaxRuns, l \in 1..MaxRuns : x = <<j, k>> /\ y = <<j, l>>
  BY DEF Runs
<1>2. k = l
  BY <1>1 DEF ReleaseInv, TriggeredOnce
<1> QED BY <1>1, <1>2

\* A thread takes jobs up that nobody holds: the ones without parents, the
\* queue, or the children of its run's job.
LEMMA TakeUp ==
  ASSUME OneParent, Inv, CalmInv, NEW t \in Threads, NEW S \in SUBSET Jobs,
         Loop(t, "next", S), UNCHANGED rest, tpc[t] # "mark",
         \A j \in S :
           /\ Unreleased(j) /\ \A u \in Threads \ {t} : ~Holds(u, j)
           /\ status[j] = IF t \in Ticks THEN "queued" ELSE "created"
           /\ t = Trigger => Parents[j] = {}
           /\ t \in Runs => t[1] \in Parents[j] /\ ~Early(t)
  PROVE  CalmInv'
<1>1. UNCHANGED <<status, run, hpc>>
  BY DEF rest, handlers
<1>2. /\ \A u \in Threads \ {t} : tpc'[u] = tpc[u] /\ todo'[u] = todo[u] /\ cur'[u] = cur[u]
      /\ tpc'[t] = "next" /\ todo'[t] = S
  BY DEF Loop, Inv, TypeOK
<1>3. /\ \A u \in Threads \ {t}, j \in Jobs : Holds(u, j)' <=> Holds(u, j)
      /\ \A j \in Jobs : Holds(t, j)' <=> j \in S
      /\ \A u \in Threads, j \in Jobs : MarkedBy(u, j)' <=> MarkedBy(u, j)
  BY <1>2 DEF Holds, MarkedBy
<1>4. /\ \A j \in Jobs : Unreleased(j)' <=> Unreleased(j)
      /\ \A x \in Runs : Early(x)' <=> Early(x)
  BY <1>1 DEF Unreleased, Early
<1>5. \A j \in Jobs \ S : Fresh(j) => Fresh(j)'
  BY <1>1, <1>3, <1>4 DEF Fresh
<1>6. \A j \in S : Fresh(j) => t \notin Ticks
  BY DEF Fresh
<1>7. HoldInv'
  <2> SUFFICES ASSUME NEW u \in Threads, NEW j \in Jobs, Holds(u, j)'
               PROVE  /\ Unreleased(j)'
                      /\ \A v \in Threads : Holds(v, j)' => v = u
                      /\ status'[j] = IF u \in Ticks THEN "queued" ELSE "created"
                      /\ u = Trigger => Parents[j] = {}
                      /\ u \in Runs => u[1] \in Parents[j] /\ ~Early(u)'
    BY DEF HoldInv
  <2>1. CASE u = t
    <3>1. j \in S
      BY <1>3, <2>1
    <3> QED BY <1>1, <1>3, <1>4, <2>1, <3>1
  <2>2. CASE u # t
    <3>1. Holds(u, j) /\ j \notin S
      BY <1>3, <2>2
    <3>2. /\ Unreleased(j)
          /\ \A v \in Threads : Holds(v, j) => v = u
          /\ status[j] = IF u \in Ticks THEN "queued" ELSE "created"
          /\ u = Trigger => Parents[j] = {}
          /\ u \in Runs => u[1] \in Parents[j] /\ ~Early(u)
      BY <3>1 DEF CalmInv, HoldInv
    <3> QED BY <1>1, <1>3, <1>4, <3>1, <3>2
  <2> QED BY <2>1, <2>2
<1>8. FreshInv'
  <2>1. ASSUME tpc'[Trigger] = "begin", NEW j \in Jobs, Parents[j] = {} PROVE Fresh(j)'
    <3>1. Trigger # t /\ tpc[Trigger] = "begin"
      BY <1>2, <2>1, Kinds
    <3>2. Fresh(j)
      BY <2>1, <3>1 DEF CalmInv, FreshInv
    <3>3. j \notin S
      BY <1>6, <2>1, <3>1, <3>2, Kinds
    <3> QED BY <1>5, <3>2, <3>3
  <2>2. ASSUME NEW j \in Jobs, \A k \in 1..MaxRuns : Early(<<j, k>>)', NEW c \in Children(j)
        PROVE  Fresh(c)'
    <3>1. \A k \in 1..MaxRuns : Early(<<j, k>>)
      BY <1>4, <2>2 DEF Runs
    <3>2. c \in Jobs /\ j \in Parents[c] /\ Fresh(c)
      BY <2>2, <3>1 DEF Children, CalmInv, FreshInv
    <3>3. ASSUME c \in S PROVE FALSE
      <4>1. t \in Runs
        BY <1>6, <3>2, <3>3, Kinds
      <4>2. t[1] = j /\ ~Early(t)
        BY <3>2, <3>3, <4>1, RunsType, ParentsAssumption DEF OneParent
      <4> QED BY <3>1, <4>1, <4>2 DEF Runs
    <3> QED BY <1>5, <3>2, <3>3
  <2>3. ASSUME NEW x \in Runs, tpc'[x] = "links"
        PROVE  ~Early(x)' /\ \A c \in Children(x[1]) : Fresh(c)'
    <3>1. x # t /\ tpc[x] = "links" /\ ~Early(x)
      BY <1>2, <2>3, Kinds DEF CalmInv, FreshInv
    <3>2. ASSUME NEW c \in Children(x[1]) PROVE Fresh(c)'
      <4>1. c \in Jobs /\ x[1] \in Parents[c] /\ Fresh(c)
        BY <3>1, <3>2 DEF Children, CalmInv, FreshInv
      <4>2. ASSUME c \in S PROVE FALSE
        <5>1. t \in Runs
          BY <1>6, <4>1, <4>2, Kinds
        <5>2. t[1] = x[1] /\ ~Early(t)
          BY <4>1, <4>2, <5>1, RunsType, ParentsAssumption DEF OneParent
        <5>3. run[t] # "none" /\ run[x] # "none"
          BY <3>1, <5>2 DEF Early
        <5> QED BY <3>1, <5>1, <5>2, <5>3, SameRun DEF CalmInv
      <4> QED BY <1>5, <4>1, <4>2
    <3> QED BY <1>4, <3>1, <3>2
  <2> QED BY <2>1, <2>2, <2>3 DEF FreshInv, Children
<1>9. QueueInv'
  BY <1>1, <1>3, <1>4, Kinds DEF CalmInv, QueueInv
<1>10. ReleaseInv'
  BY <1>1, <1>3, <1>4 DEF CalmInv, ReleaseInv, TriggeredOnce
<1> QED BY <1>7, <1>8, <1>9, <1>10 DEF CalmInv

\* The three ways to take jobs up.
LEMMA LooksUp ==
  ASSUME Calm, Inv, CalmInv, NEW t \in Threads,
         (t = Trigger /\ TriggerDiggerJobs) \/ Tick(t) \/ GetJobLinks(t)
  PROVE  CalmInv'
<1> USE DEF Calm
<1>1. CASE t = Trigger /\ TriggerDiggerJobs
  <2> DEFINE S == {j \in Jobs : Parents[j] = {} /\ status[j] = "created"}
  <2>1. S \in SUBSET Jobs /\ Loop(t, "next", S) /\ UNCHANGED rest /\ tpc[t] # "mark"
    BY <1>1 DEF TriggerDiggerJobs, rest
  <2>2. \A j \in S : Parents[j] = {} /\ Fresh(j)
    BY <1>1 DEF TriggerDiggerJobs, CalmInv, FreshInv
  <2> HIDE DEF S
  <2> QED BY <1>1, <2>1, <2>2, Kinds, TakeUp DEF Fresh
<1>2. CASE Tick(t)
  <2> DEFINE S == {j \in Jobs : status[j] = "queued"}
  <2>1. S \in SUBSET Jobs /\ Loop(t, "next", S) /\ UNCHANGED rest /\ tpc[t] = "idle" /\ t \in Ticks
    BY <1>2 DEF Tick, rest
  <2>2. ASSUME NEW j \in S
        PROVE  /\ Unreleased(j) /\ status[j] = "queued"
               /\ \A u \in Threads \ {t} : ~Holds(u, j)
    <3>1. \A u \in Ticks : u = t
      BY <2>1
    <3>2. Unreleased(j)
      BY <2>1, <3>1 DEF CalmInv, QueueInv, MarkedBy
    <3>3. \A u \in Threads \ {t} : ~Holds(u, j)
      BY <3>1 DEF CalmInv, HoldInv
    <3> QED BY <3>2, <3>3
  <2> HIDE DEF S
  <2> QED BY <2>1, <2>2, Kinds, TakeUp
<1>3. CASE GetJobLinks(t)
  <2>1. /\ Children(t[1]) \in SUBSET Jobs /\ Loop(t, "next", Children(t[1]))
        /\ UNCHANGED rest /\ tpc[t] = "links" /\ t \in Runs
    BY <1>3 DEF GetJobLinks, rest, Children
  <2>2. ~Early(t) /\ \A c \in Children(t[1]) : t[1] \in Parents[c] /\ Fresh(c)
    BY <2>1 DEF CalmInv, FreshInv, Children
  <2> QED BY <2>1, <2>2, Kinds, TakeUp DEF Fresh
<1> QED BY <1>1, <1>2, <1>3

\* The job a thread is busy with is not one it has still to look at.
OnceInv ==
  \A t \in Threads :
    tpc[t] \in {"parents", "schedule", "enqueue", "dispatch"} => cur[t] \notin todo[t]

\* Every step keeps it.
LEMMA OnceStep ==
  ASSUME Inv, OnceInv, [Next]_vars
  PROVE  OnceInv'
<1> USE DEF Inv, TypeOK, OnceInv
<1>a. ASSUME UNCHANGED <<tpc, todo, cur>> PROVE OnceInv'
  BY <1>a
<1>b. ASSUME NEW t \in Threads, NEW l \in {"next", "idle", "links"}, NEW S, Loop(t, l, S)
      PROVE  OnceInv'
  BY <1>b DEF Loop
<1>1. ASSUME NEW t \in Threads, ThreadStep(t) \/ ThreadCallFails(t) PROVE OnceInv'
  <2>1. CASE NextJob(t)
    BY <1>b, <2>1 DEF NextJob
  <2>2. CASE ReadParent(t) \/ ScheduleJob(t) \/ TriggerWorkflow(t)
    BY <1>b, <2>2 DEF ReadParent, ScheduleJob, TriggerWorkflow, Goto, ScheduleFails
  <2>3. CASE (t = Trigger /\ TriggerDiggerJobs) \/ Tick(t) \/ GetJobLinks(t)
    BY <1>b, <2>3 DEF TriggerDiggerJobs, Tick, GetJobLinks
  <2>4. CASE Enqueue(t) \/ SaveTriggered(t) \/ ThreadCallFails(t)
    BY <1>b, <2>4 DEF Enqueue, SaveTriggered, ThreadCallFails, ScheduleFails
  <2> QED BY <1>1, <2>1, <2>2, <2>3, <2>4 DEF ThreadStep
<1>2. ASSUME NEW x \in Runs, HandlerStep(x) \/ HandlerCallFails(x) PROVE OnceInv'
  <2>1. CASE SaveStatus(x)
    BY <1>a, <1>b, <2>1, RunsType DEF SaveStatus, threads
  <2>2. CASE ~SaveStatus(x)
    BY <1>2, <1>a, <2>2 DEF HandlerStep, SetJobStatusForProject, SaveUrl, SaveTimestamp,
       ReadJobs, SaveBatch, UpdateCheckRuns, AutomergePRforBatchIfEnabled,
       HandlerCallFails, threads
  <2> QED BY <2>1, <2>2
<1>3. ASSUME NEW x \in Runs, RunStep(x) \/ Refused(x) \/ Kill(x) \/ Rerun(x) PROVE OnceInv'
  BY <1>3, <1>a DEF RunStep, Boot, Work, Reported, Refused, Kill, Rerun, RunGoto, threads
<1>4. CASE BackendRestarts \/ TasksRestart
  BY <1>4 DEF BackendRestarts, TasksRestart, StopThreads
<1>5. CASE UNCHANGED vars
  BY <1>5, <1>a DEF vars
<1> QED BY <1>1, <1>2, <1>3, <1>4, <1>5 DEF Next

\* A job goes to the queue.
LEMMA Queues ==
  ASSUME Calm, Inv, CalmInv, OnceInv, NEW t \in Threads, Enqueue(t)
  PROVE  CalmInv'
<1>0. PICK j \in Jobs : j = cur[t] /\ Holds(t, j) /\ j \notin todo[t]
  BY DEF Enqueue, Holds, OnceInv, Inv, TypeOK
<1>1. /\ status' = [status EXCEPT ![j] = "queued"] /\ UNCHANGED <<run, hpc>>
      /\ Loop(t, "next", todo[t])
  BY <1>0 DEF Enqueue, Calm, handlers
<1>2. /\ \A u \in Threads \ {t} : tpc'[u] = tpc[u] /\ todo'[u] = todo[u] /\ cur'[u] = cur[u]
      /\ tpc[t] = "enqueue" /\ tpc'[t] = "next" /\ todo'[t] = todo[t]
  BY <1>1 DEF Loop, Enqueue, Inv, TypeOK
<1>3. /\ \A u \in Threads, i \in Jobs : Holds(u, i)' => Holds(u, i)
      /\ ~Holds(t, j)'
      /\ \A u \in Threads, i \in Jobs : MarkedBy(u, i)' <=> MarkedBy(u, i)
  BY <1>0, <1>2 DEF Holds, MarkedBy
<1>4. /\ \A i \in Jobs : Unreleased(i)' <=> Unreleased(i)
      /\ \A x \in Runs : Early(x)' <=> Early(x)
  BY <1>1 DEF Unreleased, Early
<1>5. \A i \in Jobs : i # j => status'[i] = status[i]
  BY <1>0, <1>1 DEF Inv, TypeOK
<1>6. /\ Unreleased(j) /\ \A u \in Threads : Holds(u, j) => u = t
  BY <1>0 DEF CalmInv, HoldInv
<1>7. \A u \in Threads : ~Holds(u, j)'
  BY <1>3, <1>6
<1>8. \A i \in Jobs : Fresh(i) => Fresh(i)'
  BY <1>0, <1>3, <1>4, <1>5 DEF Fresh
<1>9. HoldInv'
  <2> SUFFICES ASSUME NEW u \in Threads, NEW i \in Jobs, Holds(u, i)'
               PROVE  /\ Unreleased(i)'
                      /\ \A v \in Threads : Holds(v, i)' => v = u
                      /\ status'[i] = IF u \in Ticks THEN "queued" ELSE "created"
                      /\ u = Trigger => Parents[i] = {}
                      /\ u \in Runs => u[1] \in Parents[i] /\ ~Early(u)'
    BY DEF HoldInv
  <2>1. i # j /\ Holds(u, i)
    BY <1>3, <1>7
  <2>2. /\ Unreleased(i)
        /\ \A v \in Threads : Holds(v, i) => v = u
        /\ status[i] = IF u \in Ticks THEN "queued" ELSE "created"
        /\ u = Trigger => Parents[i] = {}
        /\ u \in Runs => u[1] \in Parents[i] /\ ~Early(u)
    BY <2>1 DEF CalmInv, HoldInv
  <2> QED BY <1>3, <1>4, <1>5, <2>1, <2>2
<1>10. FreshInv'
  <2>1. \A x \in Threads : tpc'[x] \in {"begin", "links"} => tpc'[x] = tpc[x]
    BY <1>2
  <2>2. ASSUME NEW i \in Jobs, \A k \in 1..MaxRuns : Early(<<i, k>>)', NEW c \in Children(i)
        PROVE  Fresh(c)'
    BY <1>4, <1>8, <2>2 DEF CalmInv, FreshInv, Children, Runs
  <2>3. ASSUME NEW x \in Runs, tpc'[x] = "links"
        PROVE  ~Early(x)' /\ \A c \in Children(x[1]) : Fresh(c)'
    BY <1>4, <1>8, <2>1, <2>3, Kinds DEF CalmInv, FreshInv, Children
  <2> QED BY <1>8, <2>1, <2>2, <2>3, Kinds DEF CalmInv, FreshInv, Children
<1>11. QueueInv'
  BY <1>3, <1>4, <1>5, <1>6, Kinds DEF CalmInv, QueueInv
<1>12. ReleaseInv'
  BY <1>1, <1>3, <1>4 DEF CalmInv, ReleaseInv, TriggeredOnce
<1> QED BY <1>9, <1>10, <1>11, <1>12 DEF CalmInv

\* A job is released, by the one thread that held it.
LEMMA Releases ==
  ASSUME Calm, Inv, CalmInv, OnceInv, NEW t \in Threads, TriggerWorkflow(t)
  PROVE  CalmInv'
<1>0. PICK j \in Jobs : j = cur[t] /\ Holds(t, j) /\ j \notin todo[t]
  BY DEF TriggerWorkflow, Holds, OnceInv, Inv, TypeOK
<1>1. UNCHANGED <<status, hpc, todo, cur>> /\ StartRun(j) /\ tpc[t] = "dispatch"
      /\ tpc' = [tpc EXCEPT ![t] = "mark"]
  BY <1>0 DEF TriggerWorkflow, Calm, handlers, Goto
<1>2. (\A u \in Threads \ {t} : tpc'[u] = tpc[u]) /\ tpc'[t] = "mark" /\ cur'[t] = j
  BY <1>0, <1>1 DEF Inv, TypeOK
<1>3. /\ \A u \in Threads, i \in Jobs : Holds(u, i)' => Holds(u, i)
      /\ ~Holds(t, j)'
      /\ \A u \in Threads, i \in Jobs : MarkedBy(u, i)' <=> MarkedBy(u, i) \/ (u = t /\ i = j)
  BY <1>0, <1>1, <1>2 DEF Holds, MarkedBy, Inv, TypeOK
<1>4. PICK k \in 1..MaxRuns : run' = [run EXCEPT ![<<j, k>>] = "boot"] /\ run[<<j, k>>] = "none"
  BY <1>1 DEF StartRun
<1>5. /\ \A x \in Runs : x # <<j, k>> => run'[x] = run[x]
      /\ run'[<<j, k>>] = "boot"
  BY <1>0, <1>4 DEF Inv, TypeOK, Runs
<1>6. /\ Unreleased(j) /\ \A u \in Threads : Holds(u, j) => u = t
      /\ status[j] = IF t \in Ticks THEN "queued" ELSE "created"
  BY <1>0 DEF CalmInv, HoldInv
<1>7. /\ \A i \in Jobs : i # j => (Unreleased(i)' <=> Unreleased(i))
      /\ ~Unreleased(j)'
      /\ \A x \in Runs : Early(x)' <=> Early(x)
  <2>1. ~Unreleased(j)'
    BY <1>5 DEF Unreleased
  <2>2. ASSUME NEW i \in Jobs, i # j PROVE Unreleased(i)' <=> Unreleased(i)
    BY <1>5, <2>2 DEF Unreleased, Runs
  <2>3. \A x \in Runs : Early(x)' <=> Early(x)
    BY <1>1, <1>4, <1>5 DEF Early
  <2> QED BY <2>1, <2>2, <2>3
<1>8. \A i \in Jobs : Fresh(i) => Fresh(i)'
  BY <1>0, <1>1, <1>3, <1>7 DEF Fresh
<1>9. HoldInv'
  <2> SUFFICES ASSUME NEW u \in Threads, NEW i \in Jobs, Holds(u, i)'
               PROVE  /\ Unreleased(i)'
                      /\ \A v \in Threads : Holds(v, i)' => v = u
                      /\ status'[i] = IF u \in Ticks THEN "queued" ELSE "created"
                      /\ u = Trigger => Parents[i] = {}
                      /\ u \in Runs => u[1] \in Parents[i] /\ ~Early(u)'
    BY DEF HoldInv
  <2>1. i # j /\ Holds(u, i)
    BY <1>3, <1>6
  <2>2. /\ Unreleased(i)
        /\ \A v \in Threads : Holds(v, i) => v = u
        /\ status[i] = IF u \in Ticks THEN "queued" ELSE "created"
        /\ u = Trigger => Parents[i] = {}
        /\ u \in Runs => u[1] \in Parents[i] /\ ~Early(u)
    BY <2>1 DEF CalmInv, HoldInv
  <2> QED BY <1>1, <1>3, <1>7, <2>1, <2>2
<1>10. FreshInv'
  <2>1. \A x \in Threads : tpc'[x] \in {"begin", "links"} => tpc'[x] = tpc[x]
    BY <1>2
  <2>2. ASSUME NEW i \in Jobs, \A l \in 1..MaxRuns : Early(<<i, l>>)', NEW c \in Children(i)
        PROVE  Fresh(c)'
    BY <1>7, <1>8, <2>2 DEF CalmInv, FreshInv, Children, Runs
  <2>3. ASSUME NEW x \in Runs, tpc'[x] = "links"
        PROVE  ~Early(x)' /\ \A c \in Children(x[1]) : Fresh(c)'
    BY <1>7, <1>8, <2>1, <2>3, Kinds DEF CalmInv, FreshInv, Children
  <2> QED BY <1>8, <2>1, <2>2, <2>3, Kinds DEF CalmInv, FreshInv, Children
<1>11. QueueInv'
  <2> SUFFICES ASSUME NEW i \in Jobs, status'[i] = "queued", ~Unreleased(i)'
               PROVE  \E u \in Ticks : MarkedBy(u, i)'
    BY DEF QueueInv
  <2>1. CASE i = j
    BY <1>1, <1>3, <1>6, <2>1, Kinds
  <2>2. CASE i # j
    BY <1>1, <1>3, <1>7, <2>2, Kinds DEF CalmInv, QueueInv
  <2> QED BY <2>1, <2>2
<1>12. ReleaseInv'
  <2>1. ASSUME NEW u \in Threads, NEW i \in Jobs, MarkedBy(u, i)' PROVE ~Unreleased(i)'
    BY <1>3, <1>7, <2>1 DEF CalmInv, ReleaseInv
  <2>2. ASSUME NEW i \in Jobs, NEW m \in 1..MaxRuns, NEW n \in 1..MaxRuns,
               run'[<<i, m>>] # "none", run'[<<i, n>>] # "none"
        PROVE  m = n
    <3>1. CASE i = j
      BY <1>5, <1>6, <2>2, <3>1 DEF Unreleased, Runs
    <3>2. CASE i # j
      BY <1>5, <2>2, <3>2 DEF CalmInv, ReleaseInv, TriggeredOnce, Runs
    <3> QED BY <3>1, <3>2
  <2> QED BY <2>1, <2>2 DEF ReleaseInv, TriggeredOnce
<1> QED BY <1>9, <1>10, <1>11, <1>12 DEF CalmInv

\* The row of a job that was released is saved.
LEMMA Marks ==
  ASSUME Calm, Inv, CalmInv, NEW t \in Threads, SaveTriggered(t)
  PROVE  CalmInv'
<1>0. PICK j \in Jobs : j = cur[t] /\ MarkedBy(t, j)
  BY DEF SaveTriggered, MarkedBy, Inv, TypeOK
<1>1. /\ status' = [status EXCEPT ![j] = "triggered"] /\ UNCHANGED <<run, hpc>>
      /\ Loop(t, "next", todo[t])
  BY <1>0 DEF SaveTriggered, Calm, handlers
<1>2. /\ \A u \in Threads \ {t} : tpc'[u] = tpc[u] /\ todo'[u] = todo[u] /\ cur'[u] = cur[u]
      /\ tpc'[t] = "next" /\ todo'[t] = todo[t]
  BY <1>1 DEF Loop, Inv, TypeOK
<1>3. ~Unreleased(j)
  BY <1>0 DEF CalmInv, ReleaseInv
<1>4. /\ \A u \in Threads, i \in Jobs : Holds(u, i)' => Holds(u, i)
      /\ \A u \in Threads, i \in Jobs : MarkedBy(u, i)' => MarkedBy(u, i)
      /\ \A u \in Threads, i \in Jobs : i # j /\ MarkedBy(u, i) => MarkedBy(u, i)'
  BY <1>0, <1>2 DEF Holds, MarkedBy
<1>5. \A x \in Runs : Early(x)' <=> Early(x)
  BY <1>1 DEF Early
<1>6. \A i \in Jobs : status'[i] # status[i] => i = j /\ status'[i] # "queued"
  BY <1>1 DEF Inv, TypeOK
<1>7. status'[j] = "triggered"
  BY <1>1 DEF Inv, TypeOK
<1>8. \A u \in Threads : tpc'[u] \in {"begin", "links"} => tpc[u] = tpc'[u]
  BY <1>2
<1>9. \A u \in Ticks, i \in Jobs : MarkedBy(u, i) => MarkedBy(u, i)' \/ status'[i] # "queued"
  BY <1>4, <1>7, Kinds
<1> QED BY <1>1, <1>3, <1>4, <1>5, <1>6, <1>8, <1>9, Kinds, CalmKept

\* A success is saved, and the goroutine of DiggerJobCompleted starts: the
\* only run of the job was early, and its children are fresh.
LEMMA Succeeds ==
  ASSUME Inv, CalmInv, NEW x \in Runs, SaveStatus(x), Said(x) = "succeeded"
  PROVE  CalmInv'
<1>1. /\ status' = [status EXCEPT ![x[1]] = "succeeded"] /\ UNCHANGED run
      /\ Loop(x, "links", {}) /\ hpc[x] = "save" /\ hpc' = [hpc EXCEPT ![x] = "url"]
  BY DEF SaveStatus, Answer
<1>2. run[x] = "saySucceeded"
  BY <1>1 DEF Said, Inv, SaidInv, Reporting
<1>3. /\ \A u \in Threads \ {x} : tpc'[u] = tpc[u] /\ todo'[u] = todo[u] /\ cur'[u] = cur[u]
      /\ tpc'[x] = "links" /\ todo'[x] = {}
  BY <1>1, RunsType DEF Loop, Inv, TypeOK
<1>4. /\ \A y \in Runs \ {x} : hpc'[y] = hpc[y]
      /\ hpc'[x] = "url"
  BY <1>1 DEF Inv, TypeOK
<1>5. Early(x) /\ ~Early(x)' /\ \A y \in Runs : Early(y)' => Early(y)
  BY <1>1, <1>2, <1>4 DEF Early
<1>6. \A k \in 1..MaxRuns : Early(<<x[1], k>>)
  <2> SUFFICES ASSUME NEW k \in 1..MaxRuns, run[<<x[1], k>>] # "none"
               PROVE  Early(<<x[1], k>>)
    BY DEF Early
  <2>1. <<x[1], k>> \in Runs
    BY DEF Runs
  <2>2. <<x[1], k>> = x
    BY <1>2, <2>1, SameRun DEF CalmInv
  <2> QED BY <1>5, <2>2
<1>7. \A c \in Children(x[1]) : Fresh(c)
  BY <1>6, RunsType DEF CalmInv, FreshInv
<1>8. x[1] \in Jobs /\ ~Unreleased(x[1])
  BY <1>2 DEF Unreleased, Runs
<1>9. /\ \A u \in Threads, i \in Jobs : Holds(u, i)' => Holds(u, i)
      /\ \A u \in Threads, i \in Jobs : MarkedBy(u, i)' => MarkedBy(u, i)
      /\ \A u \in Threads \ {x}, i \in Jobs : MarkedBy(u, i) => MarkedBy(u, i)'
  BY <1>3 DEF Holds, MarkedBy
<1>10. \A i \in Jobs : status'[i] # status[i] => ~Unreleased(i) /\ status'[i] # "queued"
  BY <1>1, <1>8 DEF Inv, TypeOK
<1> QED BY <1>1, <1>3, <1>5, <1>7, <1>9, <1>10, Kinds, CalmKept

\* Every step of calm weather keeps the invariant.
LEMMA CalmStep ==
  ASSUME Calm, Inv, OnceInv, CalmInv, [Next]_vars
  PROVE  CalmInv'
<1>1. ASSUME NEW t \in Threads, ThreadStep(t) \/ ThreadCallFails(t) PROVE CalmInv'
  BY <1>1, ThreadMoves, LooksUp, Queues, Releases, Marks DEF ThreadStep
<1>2. ASSUME NEW x \in Runs, HandlerStep(x) \/ HandlerCallFails(x) PROVE CalmInv'
  BY <1>2, HandlerMoves, Succeeds
<1>3. ASSUME NEW x \in Runs, RunStep(x) \/ Refused(x) \/ Kill(x) PROVE CalmInv'
  BY <1>3, RunMoves
<1>4. ASSUME NEW x \in Runs, Rerun(x) PROVE FALSE
  BY <1>4 DEF Rerun, Calm
<1>5. CASE BackendRestarts
  BY <1>5, RestartMoves
<1>6. CASE TasksRestart
  BY <1>6 DEF TasksRestart, Calm
<1>7. CASE UNCHANGED vars
  BY <1>7, CalmKept DEF vars, Holds, MarkedBy, Early, Unreleased
<1> QED BY <1>1, <1>2, <1>3, <1>4, <1>5, <1>6, <1>7 DEF Next

\* It holds at the start.
LEMMA CalmInit == Init => OnceInv /\ CalmInv
<1> SUFFICES ASSUME Init PROVE OnceInv /\ CalmInv
  OBVIOUS
<1>1. \A t \in Threads, j \in Jobs : ~Holds(t, j) /\ ~MarkedBy(t, j)
  BY DEF Init, Holds, MarkedBy
<1>2. \A j \in Jobs : status[j] = "created" /\ Unreleased(j)
  BY DEF Init, Unreleased, Runs
<1>3. \A j \in Jobs : Fresh(j)
  BY <1>1, <1>2 DEF Fresh
<1>4. \A x \in Runs : tpc[x] # "links"
  BY Kinds DEF Init
<1>5. OnceInv
  BY DEF Init, OnceInv
<1>6. HoldInv /\ FreshInv
  BY <1>1, <1>3, <1>4 DEF HoldInv, FreshInv, Children
<1>7. QueueInv /\ ReleaseInv
  BY <1>1, <1>2 DEF QueueInv, ReleaseInv, TriggeredOnce, Unreleased
<1> QED BY <1>5, <1>6, <1>7 DEF CalmInv

\* In calm weather the invariants hold in every reachable state.
LEMMA CalmInvariance == Calm /\ Spec => [](Calm /\ Inv /\ OnceInv /\ CalmInv)
<1>1. Calm => Calm'
  BY DEF Calm, OneParent
<1> QED
  BY <1>1, InvInit, CalmInit, InvStep, OnceStep, CalmStep, PTL DEF Spec

\* Where every job has one parent at most, cron firings do not overlap, no save
\* or answer is lost, and nobody starts a run again, each workflow is triggered
\* once, whatever else fails, is cancelled or restarts in between.
\* TriggerDiggerJobs, DiggerJobCompleted, ScheduleJob, the cron task.
THEOREM TriggersOnce == Calm /\ Spec => []TriggeredOnce
<1>1. CalmInv => TriggeredOnce
  BY DEF CalmInv, ReleaseInv
<1> QED
  BY <1>1, CalmInvariance, PTL

-----------------------------------------------------------------------------
(* Rows of ended jobs                                                      *)

\* The statuses of a job that is over.
Ended == {"succeeded", "failed"}

\* The run of a job that has ended is at its end, or about to report what it
\* has reported.
EndInv ==
  /\ \A x \in Runs : run[x] # "none" /\ status[x[1]] \in Ended =>
       run[x] \in {"saySucceeded", "sayFailed", "sayFailedAgain", "done"}
  /\ \A j \in Jobs : status[j] \in Ended => ~Unreleased(j)

\* The row of such a job is put back by nobody but the thread that released it.
PutBackByTrigger ==
  \A j \in Jobs : status[j] \in Ended =>
    \/ status'[j] \in Ended
    \/ status'[j] = "triggered" /\ \E t \in Threads : MarkedBy(t, j) /\ tpc'[t] # "mark"

\* What the threads do to the labels that save a row, but for TriggerWorkflow.
LEMMA MarksDrop ==
  ASSUME Inv, NEW t \in Threads,
         \/ t = Trigger /\ TriggerDiggerJobs
         \/ Tick(t) \/ GetJobLinks(t) \/ NextJob(t) \/ ReadParent(t) \/ ScheduleJob(t)
         \/ Enqueue(t) \/ SaveTriggered(t) \/ ThreadCallFails(t)
  PROVE  \A u \in Threads, j \in Jobs : MarkedBy(u, j)' => MarkedBy(u, j)
<1>1. /\ \A u \in Threads \ {t} : tpc'[u] = tpc[u] /\ cur'[u] = cur[u]
      /\ tpc'[t] # "mark"
  <2>1. CASE (t = Trigger /\ TriggerDiggerJobs) \/ Tick(t) \/ GetJobLinks(t) \/ NextJob(t)
    BY <2>1 DEF TriggerDiggerJobs, Tick, GetJobLinks, NextJob, Loop, Inv, TypeOK
  <2>2. CASE ReadParent(t) \/ ScheduleJob(t)
    BY <2>2 DEF ReadParent, ScheduleJob, Loop, Goto, Inv, TypeOK
  <2>3. CASE Enqueue(t) \/ SaveTriggered(t) \/ ThreadCallFails(t)
    BY <2>3 DEF Enqueue, SaveTriggered, ThreadCallFails, ScheduleFails, Loop, Inv, TypeOK
  <2> QED BY <2>1, <2>2, <2>3
<1> QED BY <1>1 DEF MarkedBy

\* A step that saves no row and starts no run.
LEMMA EndFrame ==
  ASSUME EndInv, UNCHANGED <<status, run>>
  PROVE  EndInv' /\ PutBackByTrigger
<1>1. \A j \in Jobs : Unreleased(j)' <=> Unreleased(j)
  BY DEF Unreleased
<1> QED BY <1>1, RunsType DEF EndInv, PutBackByTrigger

\* The threads queue jobs that have not ended, and save late only what they
\* have released.
LEMMA EndThread ==
  ASSUME Calm, Inv, CalmInv, EndInv, NEW t \in Threads, ThreadStep(t) \/ ThreadCallFails(t)
  PROVE  EndInv' /\ PutBackByTrigger
<1>1. CASE Enqueue(t) \/ SaveTriggered(t)
  <2>0. PICK j \in Jobs : j = cur[t]
    BY DEF Inv, TypeOK
  <2>1. /\ \/ status' = [status EXCEPT ![j] = "queued"] /\ Holds(t, j)
           \/ status' = [status EXCEPT ![j] = "triggered"] /\ MarkedBy(t, j) /\ tpc'[t] # "mark"
        /\ UNCHANGED run
    BY <1>1, <2>0 DEF Enqueue, SaveTriggered, Holds, MarkedBy, Calm, Loop, Inv, TypeOK
  <2>2. Holds(t, j) => status[j] \notin Ended
    BY DEF EndInv, CalmInv, HoldInv
  <2>3. /\ \A i \in Jobs : i # j => status'[i] = status[i]
        /\ status'[j] \notin Ended
        /\ Holds(t, j) \/ (status'[j] = "triggered" /\ MarkedBy(t, j) /\ tpc'[t] # "mark")
    BY <2>1 DEF Ended, Inv, TypeOK
  <2>4. \A i \in Jobs : Unreleased(i)' <=> Unreleased(i)
    BY <2>1 DEF Unreleased
  <2>5. EndInv'
    BY <2>1, <2>3, <2>4, RunsType DEF EndInv
  <2>6. PutBackByTrigger
    BY <2>2, <2>3 DEF PutBackByTrigger
  <2> QED BY <2>5, <2>6
<1>2. CASE TriggerWorkflow(t)
  <2>0. PICK j \in Jobs : j = cur[t] /\ Holds(t, j)
    BY <1>2 DEF TriggerWorkflow, Holds, Inv, TypeOK
  <2>1. Unreleased(j)
    BY <2>0 DEF CalmInv, HoldInv
  <2>2. UNCHANGED status /\ StartRun(j)
    BY <1>2, <2>0 DEF TriggerWorkflow, Calm
  <2>3. PICK k \in 1..MaxRuns : run' = [run EXCEPT ![<<j, k>>] = "boot"]
    BY <2>2 DEF StartRun
  <2>4. \A x \in Runs : x[1] # j => run'[x] = run[x]
    BY <2>3 DEF Inv, TypeOK
  <2>5. status[j] \notin Ended
    BY <2>1 DEF EndInv
  <2>6. \A i \in Jobs : i # j => (Unreleased(i)' <=> Unreleased(i))
    BY <2>4 DEF Unreleased, Runs
  <2>7. \A x \in Runs : run'[x] # "none" /\ status'[x[1]] \in Ended =>
          run'[x] \in {"saySucceeded", "sayFailed", "sayFailedAgain", "done"}
    BY <2>2, <2>4, <2>5 DEF EndInv
  <2>8. \A i \in Jobs : status'[i] \in Ended => ~Unreleased(i)'
    BY <2>2, <2>5, <2>6 DEF EndInv
  <2> QED BY <2>2, <2>7, <2>8 DEF EndInv, PutBackByTrigger
<1>3. CASE ~(Enqueue(t) \/ SaveTriggered(t) \/ TriggerWorkflow(t))
  <2>1. UNCHANGED <<status, run>>
    BY <1>3 DEF ThreadStep, TriggerDiggerJobs, Tick, GetJobLinks, NextJob, ReadParent,
       ScheduleJob, ThreadCallFails
  <2> QED BY <2>1, EndFrame
<1> QED BY <1>1, <1>2, <1>3

\* What the steps of a handler can do to the rows and to the threads.
LEMMA HandlerEffects ==
  ASSUME Inv, NEW x \in Runs, HandlerStep(x) \/ HandlerCallFails(x)
  PROVE  /\ UNCHANGED run /\ Reporting(x)
         /\ status' = status \/ status' = [status EXCEPT ![x[1]] = Said(x)]
         /\ \A u \in Threads \ {x} : tpc'[u] = tpc[u] /\ cur'[u] = cur[u]
         /\ tpc'[x] = "links" \/ (tpc'[x] = tpc[x] /\ cur'[x] = cur[x])
<1>1. UNCHANGED run /\ Reporting(x)
  BY DEF HandlerStep, SetJobStatusForProject, SaveStatus, SaveUrl, SaveTimestamp,
     ReadJobs, SaveBatch, UpdateCheckRuns, AutomergePRforBatchIfEnabled,
     HandlerCallFails, Inv, SaidInv
<1>2. status' = status \/ status' = [status EXCEPT ![x[1]] = Said(x)]
  BY DEF HandlerStep, SetJobStatusForProject, SaveStatus, SaveUrl, SaveTimestamp,
     ReadJobs, SaveBatch, UpdateCheckRuns, AutomergePRforBatchIfEnabled, HandlerCallFails
<1>3. UNCHANGED threads \/ Loop(x, "links", {})
  BY DEF HandlerStep, SetJobStatusForProject, SaveStatus, SaveUrl, SaveTimestamp,
     ReadJobs, SaveBatch, UpdateCheckRuns, AutomergePRforBatchIfEnabled, HandlerCallFails
<1> QED BY <1>1, <1>2, <1>3, RunsType DEF threads, Loop, Inv, TypeOK

\* A handler saves what its run says, and after the end it says the end.
LEMMA EndHandler ==
  ASSUME Inv, CalmInv, EndInv, NEW x \in Runs, HandlerStep(x) \/ HandlerCallFails(x)
  PROVE  EndInv' /\ PutBackByTrigger
<1>1. /\ UNCHANGED run /\ Reporting(x)
      /\ status' = status \/ status' = [status EXCEPT ![x[1]] = Said(x)]
  BY HandlerEffects
<1>2. CASE UNCHANGED status
  BY <1>1, <1>2, EndFrame
<1>3. CASE status' = [status EXCEPT ![x[1]] = Said(x)]
  <2>1. x[1] \in Jobs /\ run[x] # "none" /\ ~Unreleased(x[1])
    BY <1>1, RunsType DEF Reporting, Unreleased, Runs
  <2>2. /\ \A i \in Jobs : i # x[1] => status'[i] = status[i]
        /\ status'[x[1]] = Said(x)
    BY <1>3, <2>1 DEF Inv, TypeOK
  <2>3. /\ Said(x) \in Ended => run[x] \in {"saySucceeded", "sayFailed", "sayFailedAgain"}
        /\ run[x] # "sayStarted" => Said(x) \in Ended
    BY <1>1 DEF Said, Reporting, Ended
  <2>4. \A i \in Jobs : Unreleased(i)' <=> Unreleased(i)
    BY <1>1 DEF Unreleased
  <2>5. ASSUME NEW y \in Runs, run'[y] # "none", status'[y[1]] \in Ended
        PROVE  run'[y] \in {"saySucceeded", "sayFailed", "sayFailedAgain", "done"}
    <3>1. CASE y[1] = x[1]
      <4>1. y = x
        BY <1>1, <2>1, <2>5, <3>1, SameRun DEF CalmInv
      <4> QED BY <1>1, <2>2, <2>3, <2>5, <4>1
    <3>2. CASE y[1] # x[1]
      BY <1>1, <2>2, <2>5, <3>2, RunsType DEF EndInv
    <3> QED BY <3>1, <3>2
  <2>6. \A i \in Jobs : status'[i] \in Ended => ~Unreleased(i)'
    BY <2>1, <2>2, <2>4 DEF EndInv
  <2>7. status[x[1]] \in Ended => Said(x) \in Ended
    BY <2>1, <2>3 DEF EndInv
  <2> QED BY <2>2, <2>5, <2>6, <2>7 DEF EndInv, PutBackByTrigger
<1> QED BY <1>1, <1>2, <1>3

\* A run that has reported its end does not go back, whether or not its row has
\* been saved before it started.
LEMMA EndRun ==
  ASSUME Inv, EndInv, NEW x \in Runs, RunStep(x) \/ Refused(x) \/ Kill(x)
  PROVE  EndInv' /\ PutBackByTrigger
<1>1. UNCHANGED status
  BY DEF RunStep, Boot, Work, Reported, Refused, Kill, RunGoto
<1>2. /\ run[x] # "none" /\ run'[x] # "none"
      /\ \A y \in Runs \ {x} : run'[y] = run[y]
      /\ run[x] \in {"saySucceeded", "sayFailed", "sayFailedAgain", "done"} =>
           run'[x] \in {"saySucceeded", "sayFailed", "sayFailedAgain", "done"}
  <2>1. CASE RunStep(x)
    BY <2>1 DEF RunStep, Boot, Work, Reported, RunGoto, Inv, TypeOK, SaidInv, Reporting
  <2>2. CASE Refused(x) \/ Kill(x)
    BY <2>2 DEF Refused, Kill, RunGoto, Reporting, Inv, TypeOK
  <2> QED BY <2>1, <2>2
<1>3. \A i \in Jobs : Unreleased(i)' <=> Unreleased(i)
  BY <1>2 DEF Unreleased, Runs
<1> QED BY <1>1, <1>2, <1>3, RunsType DEF EndInv, PutBackByTrigger

\* All steps together.
LEMMA EndStep ==
  ASSUME Calm, Inv, CalmInv, EndInv, [Next]_vars
  PROVE  EndInv' /\ PutBackByTrigger
<1>1. ASSUME NEW t \in Threads, ThreadStep(t) \/ ThreadCallFails(t)
      PROVE  EndInv' /\ PutBackByTrigger
  BY <1>1, EndThread
<1>2. ASSUME NEW x \in Runs, HandlerStep(x) \/ HandlerCallFails(x)
      PROVE  EndInv' /\ PutBackByTrigger
  BY <1>2, EndHandler
<1>3. ASSUME NEW x \in Runs, RunStep(x) \/ Refused(x) \/ Kill(x)
      PROVE  EndInv' /\ PutBackByTrigger
  BY <1>3, EndRun
<1>4. ASSUME NEW x \in Runs, Rerun(x) PROVE FALSE
  BY <1>4 DEF Rerun, Calm
<1>5. CASE BackendRestarts
  BY <1>5, EndFrame DEF BackendRestarts
<1>6. CASE TasksRestart
  BY <1>6 DEF TasksRestart, Calm
<1>7. CASE UNCHANGED vars
  BY <1>7, EndFrame DEF vars
<1> QED BY <1>1, <1>2, <1>3, <1>4, <1>5, <1>6, <1>7 DEF Next

\* Under the same hypotheses, and however fast the runs are, the row of a job
\* that has ended is put back by nothing but the late save of the thread that
\* has released the job, whatever reports, saves and restarts interleave.
\* TriggerJob, ScheduleJob, SetJobStatusForProject.
THEOREM EndedRowsPutBack == Calm /\ Spec => OnlyTriggerPutsBack
<1>1. Init => EndInv
  BY DEF Init, EndInv, Ended
<1>2. ASSUME Calm
      PROVE  Spec => OnlyTriggerPutsBack
  <2>1. Inv /\ CalmInv /\ EndInv /\ [Next]_vars => EndInv' /\ PutBackByTrigger
    BY <1>2, EndStep
  <2>2. PutBackByTrigger =>
          \A j \in Jobs : status[j] \in {"succeeded", "failed"} =>
            \/ status'[j] \in {"succeeded", "failed"}
            \/ /\ status'[j] = "triggered"
               /\ \E t \in Threads : tpc[t] = "mark" /\ cur[t] = j /\ tpc'[t] # "mark"
    BY DEF PutBackByTrigger, Ended, MarkedBy
  <2>3. Spec => [](Inv /\ CalmInv)
    BY <1>2, CalmInvariance, PTL
  <2> QED BY <1>1, <2>1, <2>2, <2>3, PTL DEF Spec, OnlyTriggerPutsBack
<1> QED BY <1>2

-----------------------------------------------------------------------------
(* The limit                                                               *)

\* A batch without dependencies.
Flat == \A j \in Jobs : Parents[j] = {}

\* A thread has counted and will save the row.
Busy(t) == tpc[t] \in {"dispatch", "mark"}

\* The jobs that run, and those that a thread has found room for.
Occupied == RunningJobs \cup {cur[t] : t \in {u \in Threads : Busy(u)}}

\* The row of job j says that it runs, or is about to.
Shown(j) == status[j] \in {"triggered", "started"} \/ \E t \in Threads : MarkedBy(t, j)

\* Only the webhook's thread and the cron firing schedule; a run that is going
\* to say it has started is shown already; the count holds with what is on its
\* way to the rows.
LimitInv ==
  /\ \A x \in Runs : ~Busy(x)
  /\ \A x \in Runs : run[x] \in {"boot", "sayStarted"} => Shown(x[1])
  /\ MaxConcurrency > 0 => Cardinality(Occupied) <= MaxConcurrency + Cardinality(Ticks)

\* The members of Occupied.
LEMMA OccupiedBy ==
  ASSUME NEW j
  PROVE  j \in Occupied <=> \/ j \in Jobs /\ status[j] \in {"triggered", "started"}
                            \/ \E t \in Threads : Busy(t) /\ cur[t] = j
  BY DEF Occupied, RunningJobs

\* At most one firing of the cron task: a finite set.
LEMMA FewTicks ==
  ASSUME Calm
  PROVE  Cardinality(Ticks) \in Nat /\ (Ticks # {} => Cardinality(Ticks) = 1)
<1>1. CASE Ticks = {}
  BY <1>1, FS_EmptySet
<1>2. CASE Ticks # {}
  <2>1. PICK t \in Ticks : Ticks = {t}
    BY <1>2 DEF Calm
  <2>2. Cardinality({t}) = 1
    BY FS_Singleton, Zenon
  <2> QED BY <2>1, <2>2
<1> QED BY <1>1, <1>2

\* The counted sets are finite.
LEMMA OccupiedFinite ==
  ASSUME TypeOK
  PROVE  Occupied \in SUBSET Jobs /\ IsFiniteSet(Occupied) /\ IsFiniteSet(RunningJobs)
<1>1. Occupied \in SUBSET Jobs /\ RunningJobs \in SUBSET Jobs
  BY DEF Occupied, RunningJobs, TypeOK
<1> QED BY <1>1, JobsAssumption, FS_Subset

\* A step that finds room for no other job.
LEMMA NoOtherOccupied ==
  ASSUME Calm, TypeOK, TypeOK', LimitInv, Occupied' \subseteq Occupied
  PROVE  MaxConcurrency > 0 => Cardinality(Occupied') <= MaxConcurrency + Cardinality(Ticks)
<1>1. Cardinality(Occupied') <= Cardinality(Occupied)
  BY OccupiedFinite, FS_Subset
<1>2. Cardinality(Occupied) \in Nat /\ Cardinality(Occupied') \in Nat
  <2>1. IsFiniteSet(Occupied) /\ IsFiniteSet(Occupied')
    BY OccupiedFinite, FS_Subset
  <2> QED BY <2>1, FS_CardinalityType
<1> QED BY <1>1, <1>2, FewTicks, MaxAssumption DEF LimitInv

\* The count: there was room, and the other thread may have found it too.
LEMMA CountsRoom ==
  ASSUME Calm, Flat, Inv, TypeOK', CalmInv, LimitInv, NEW t \in Threads, ScheduleJob(t)
  PROVE  MaxConcurrency > 0 => Cardinality(Occupied') <= MaxConcurrency + Cardinality(Ticks)
<1>1. UNCHANGED <<status, cur>> /\ tpc' \in [Threads -> ThreadPCs]
      /\ \A u \in Threads \ {t} : tpc'[u] = tpc[u]
  BY DEF ScheduleJob, Goto, Inv, TypeOK
<1>2. RunningJobs' = RunningJobs
  BY <1>1 DEF RunningJobs
<1>3. CASE LimitReached
  <2>1. ~Busy(t)'
    BY <1>3 DEF ScheduleJob, Goto, Busy, Inv, TypeOK
  <2>2. \A u \in Threads : Busy(u)' => Busy(u)
    BY <1>1, <2>1 DEF Busy
  <2>3. Occupied' \subseteq Occupied
    BY <1>1, <1>2, <2>2 DEF Occupied
  <2> QED BY <2>3, NoOtherOccupied DEF Inv
<1>4. CASE ~LimitReached
  <2> SUFFICES ASSUME MaxConcurrency > 0
               PROVE  Cardinality(Occupied') <= MaxConcurrency + Cardinality(Ticks)
    OBVIOUS
  <2> DEFINE R == RunningJobs
             a == cur[Trigger]
  <2>0. IsFiniteSet(R) /\ Cardinality(R) \in Nat /\ Cardinality(R) < MaxConcurrency
    <3>1. IsFiniteSet(R) /\ Cardinality(R) \in Nat
      BY OccupiedFinite, FS_CardinalityType DEF Inv
    <3> QED BY <1>4, <3>1, MaxAssumption DEF LimitReached
  <2>1. t \notin Runs
    <3>1. Holds(t, cur[t]) /\ cur[t] \in Jobs
      BY DEF ScheduleJob, Holds, Inv, TypeOK
    <3> QED BY <3>1, Kinds DEF CalmInv, HoldInv, Flat
  <2>2. \A u \in Threads : Busy(u)' => u = Trigger \/ u \in Ticks
    BY <1>1, <2>1, Kinds DEF LimitInv, Busy
  <2>3. Occupied' \subseteq R \cup {a} \cup {cur[u] : u \in Ticks}
    BY <1>1, <1>2, <2>2 DEF Occupied
  <2> HIDE DEF R, a
  <2>4. IsFiniteSet(R \cup {a}) /\ Cardinality(R \cup {a}) <= Cardinality(R) + 1
        /\ Cardinality(R \cup {a}) \in Nat
    <3>1. /\ IsFiniteSet(R \cup {a})
          /\ Cardinality(R \cup {a}) = IF a \in R THEN Cardinality(R) ELSE Cardinality(R) + 1
      BY <2>0, FS_AddElement
    <3> QED BY <2>0, <3>1
  <2>5. CASE Ticks = {}
    <3>1. Occupied' \in SUBSET (R \cup {a})
      BY <2>3, <2>5
    <3>2. IsFiniteSet(Occupied') /\ Cardinality(Occupied') <= Cardinality(R \cup {a})
      BY <2>4, <3>1, FS_Subset
    <3>3. Cardinality(Occupied') \in Nat
      BY <3>2, FS_CardinalityType
    <3> QED BY <2>0, <2>4, <3>2, <3>3, FewTicks, MaxAssumption
  <2>6. CASE Ticks # {}
    <3>1. PICK c \in Ticks : Ticks = {c}
      BY <2>6 DEF Calm
    <3> DEFINE b == cur[c]
    <3>2. Occupied' \in SUBSET ((R \cup {a}) \cup {b})
      BY <2>3, <3>1
    <3> HIDE DEF b
    <3>3. /\ IsFiniteSet((R \cup {a}) \cup {b})
          /\ Cardinality((R \cup {a}) \cup {b}) =
               IF b \in R \cup {a} THEN Cardinality(R \cup {a}) ELSE Cardinality(R \cup {a}) + 1
      BY <2>4, FS_AddElement
    <3>4. IsFiniteSet(Occupied') /\ Cardinality(Occupied') <= Cardinality((R \cup {a}) \cup {b})
      BY <3>2, <3>3, FS_Subset
    <3>5. Cardinality(Occupied') \in Nat
      BY <3>4, FS_CardinalityType
    <3> QED BY <2>0, <2>4, <2>6, <3>3, <3>4, <3>5, FewTicks, MaxAssumption
  <2> QED BY <2>5, <2>6
<1> QED BY <1>3, <1>4

\* A step that leaves the runs and finds room for no other job.
LEMMA LimitKept ==
  ASSUME Calm, TypeOK, TypeOK', LimitInv,
         \A x \in Runs : tpc'[x] = "dispatch" => FALSE,
         \A u \in Threads, j \in Jobs : MarkedBy(u, j)' => MarkedBy(u, j),
         \A x \in Runs : run'[x] \in {"boot", "sayStarted"} => Shown(x[1])',
         Occupied' \subseteq Occupied
  PROVE  LimitInv'
<1>1. \A x \in Runs : ~Busy(x)'
  <2> SUFFICES ASSUME NEW x \in Runs, tpc'[x] = "mark" PROVE FALSE
    BY DEF Busy
  <2>1. PICK j \in Jobs : j = cur'[x]
    BY RunsType DEF TypeOK
  <2>2. MarkedBy(x, j)'
    BY <2>1 DEF MarkedBy
  <2>3. MarkedBy(x, j)
    BY <2>2, RunsType
  <2> QED BY <2>3 DEF LimitInv, MarkedBy, Busy
<1> QED BY <1>1, NoOtherOccupied DEF LimitInv

\* What the threads do, but for counting and releasing.
LEMMA LimitThread ==
  ASSUME Calm, Flat, Inv, TypeOK', CalmInv, LimitInv, NEW t \in Threads,
         \/ t = Trigger /\ TriggerDiggerJobs
         \/ Tick(t) \/ GetJobLinks(t) \/ NextJob(t) \/ ReadParent(t)
         \/ Enqueue(t) \/ SaveTriggered(t) \/ ThreadCallFails(t)
  PROVE  LimitInv'
<1>1. /\ UNCHANGED run
      /\ \A u \in Threads \ {t} : tpc'[u] = tpc[u] /\ cur'[u] = cur[u]
      /\ ~Busy(t)'
  <2>1. CASE (t = Trigger /\ TriggerDiggerJobs) \/ Tick(t) \/ GetJobLinks(t) \/ NextJob(t)
    BY <2>1 DEF TriggerDiggerJobs, Tick, GetJobLinks, NextJob, Loop, Busy, Inv, TypeOK
  <2>2. CASE ReadParent(t)
    BY <2>2 DEF ReadParent, Loop, Busy, Inv, TypeOK
  <2>3. CASE Enqueue(t) \/ SaveTriggered(t) \/ ThreadCallFails(t)
    BY <2>3 DEF Enqueue, SaveTriggered, ThreadCallFails, ScheduleFails, Loop, Busy, Inv, TypeOK
  <2> QED BY <2>1, <2>2, <2>3
<1>2. \A u \in Threads : Busy(u)' => Busy(u) /\ cur'[u] = cur[u] /\ tpc'[u] = tpc[u]
  BY <1>1 DEF Busy
<1>3. \A u \in Threads, j \in Jobs : MarkedBy(u, j)' => MarkedBy(u, j)
  BY MarksDrop
<1>4. \A x \in Runs : tpc'[x] # "dispatch"
  BY <1>2, RunsType DEF LimitInv, Busy
<1>5. CASE SaveTriggered(t)
  <2>0. PICK j \in Jobs : j = cur[t] /\ Busy(t) /\ MarkedBy(t, j)
    BY <1>5 DEF SaveTriggered, Busy, MarkedBy, Inv, TypeOK
  <2>1. status' = [status EXCEPT ![j] = "triggered"]
    BY <1>5, <2>0 DEF SaveTriggered, Calm
  <2>2. status'[j] = "triggered" /\ \A i \in Jobs \ {j} : status'[i] = status[i]
    BY <2>1 DEF Inv, TypeOK
  <2>3. ASSUME NEW i \in Occupied' PROVE i \in Occupied
    <3>1. CASE i \in Jobs /\ status'[i] \in {"triggered", "started"}
      BY <2>0, <2>2, <3>1, OccupiedBy
    <3>2. CASE \E u \in Threads : Busy(u)' /\ cur'[u] = i
      BY <1>2, <3>2, OccupiedBy
    <3>3. i \in RunningJobs' \/ \E u \in Threads : Busy(u)' /\ cur'[u] = i
      BY <2>3 DEF Occupied
    <3> QED BY <3>1, <3>2, <3>3 DEF RunningJobs
  <2>4. \A u \in Threads, i \in Jobs : i # j /\ MarkedBy(u, i) => MarkedBy(u, i)'
    BY <1>1, <2>0 DEF MarkedBy
  <2>5. \A i \in Jobs : Shown(i) => Shown(i)'
    BY <2>2, <2>4 DEF Shown
  <2>6. \A x \in Runs : run'[x] \in {"boot", "sayStarted"} => Shown(x[1])'
    BY <1>1, <2>5, RunsType DEF LimitInv
  <2> QED BY <1>3, <1>4, <2>3, <2>6, LimitKept DEF Inv
<1>6. CASE ~SaveTriggered(t)
  <2>1. \A i \in Jobs : status'[i] = status[i] \/ (status'[i] = "queued" /\ Unreleased(i))
    <3>1. CASE Enqueue(t)
      <4>1. PICK j \in Jobs : j = cur[t] /\ Holds(t, j)
        BY <3>1 DEF Enqueue, Holds, Inv, TypeOK
      <4>2. Unreleased(j)
        BY <4>1 DEF CalmInv, HoldInv
      <4> QED BY <3>1, <4>1, <4>2 DEF Enqueue, Inv, TypeOK
    <3>2. CASE ~Enqueue(t)
      BY <1>6, <3>2 DEF TriggerDiggerJobs, Tick, GetJobLinks, NextJob, ReadParent,
         ThreadCallFails
    <3> QED BY <3>1, <3>2
  <2>2. ASSUME NEW i \in Occupied' PROVE i \in Occupied
    <3>1. CASE i \in Jobs /\ status'[i] \in {"triggered", "started"}
      BY <2>1, <3>1, OccupiedBy
    <3>2. CASE \E u \in Threads : Busy(u)' /\ cur'[u] = i
      BY <1>2, <3>2, OccupiedBy
    <3>3. i \in RunningJobs' \/ \E u \in Threads : Busy(u)' /\ cur'[u] = i
      BY <2>2 DEF Occupied
    <3> QED BY <3>1, <3>2, <3>3 DEF RunningJobs
  <2>3. tpc[t] # "mark"
    BY <1>6 DEF TriggerDiggerJobs, Tick, GetJobLinks, NextJob, ReadParent, Enqueue,
       ThreadCallFails
  <2>4. \A u \in Threads, i \in Jobs : MarkedBy(u, i) => MarkedBy(u, i)'
    BY <1>1, <2>3 DEF MarkedBy
  <2>5. ASSUME NEW x \in Runs, run'[x] \in {"boot", "sayStarted"} PROVE Shown(x[1])'
    <3>1. Shown(x[1]) /\ ~Unreleased(x[1]) /\ x[1] \in Jobs
      BY <1>1, <2>5 DEF LimitInv, Unreleased, Runs
    <3> QED BY <2>1, <2>4, <3>1 DEF Shown
  <2> QED BY <1>3, <1>4, <2>2, <2>5, LimitKept DEF Inv
<1> QED BY <1>5, <1>6

\* A job that is released has been counted, and is marked.
LEMMA LimitReleases ==
  ASSUME Calm, Flat, Inv, TypeOK', CalmInv, LimitInv, NEW t \in Threads, TriggerWorkflow(t)
  PROVE  LimitInv'
<1>0. PICK j \in Jobs : j = cur[t] /\ Holds(t, j)
  BY DEF TriggerWorkflow, Holds, Inv, TypeOK
<1>1. UNCHANGED <<status, cur>> /\ StartRun(j) /\ tpc[t] = "dispatch"
      /\ tpc' = [tpc EXCEPT ![t] = "mark"]
  BY <1>0 DEF TriggerWorkflow, Calm, Goto
<1>2. t \notin Runs
  BY <1>0, Kinds DEF CalmInv, HoldInv, Flat
<1>3. \A u \in Threads : u # t => tpc'[u] = tpc[u]
  BY <1>1 DEF Inv, TypeOK
<1>4. tpc'[t] = "mark"
  BY <1>1 DEF Inv, TypeOK
<1>5. \A u \in Threads : Busy(u)' <=> Busy(u)
  BY <1>1, <1>3, <1>4 DEF Busy
<1>6. Occupied' = Occupied
  BY <1>1, <1>5 DEF Occupied, RunningJobs
<1>7. MarkedBy(t, j)' /\ \A u \in Threads, i \in Jobs : MarkedBy(u, i) => MarkedBy(u, i)'
  BY <1>0, <1>1, <1>3, <1>4 DEF MarkedBy
<1>8. Shown(j)' /\ \A i \in Jobs : Shown(i) => Shown(i)'
  BY <1>1, <1>7 DEF Shown
<1>9. PICK k \in 1..MaxRuns : run' = [run EXCEPT ![<<j, k>>] = "boot"]
  BY <1>1 DEF StartRun
<1>10. \A x \in Runs : x[1] # j => run'[x] = run[x]
  BY <1>9 DEF Inv, TypeOK
<1>11. \A x \in Runs : run'[x] \in {"boot", "sayStarted"} => Shown(x[1])'
  BY <1>8, <1>10, RunsType DEF LimitInv
<1>12. \A x \in Runs : ~Busy(x)'
  BY <1>5, RunsType DEF LimitInv
<1>13. MaxConcurrency > 0 => Cardinality(Occupied') <= MaxConcurrency + Cardinality(Ticks)
  BY <1>6, NoOtherOccupied DEF Inv
<1> QED BY <1>11, <1>12, <1>13 DEF LimitInv

\* The count of ScheduleJob.
LEMMA LimitCounts ==
  ASSUME Calm, Flat, Inv, TypeOK', CalmInv, LimitInv, NEW t \in Threads, ScheduleJob(t)
  PROVE  LimitInv'
<1>1. /\ UNCHANGED <<status, cur, run>> /\ tpc[t] = "schedule"
      /\ \A u \in Threads \ {t} : tpc'[u] = tpc[u]
      /\ tpc'[t] # "mark"
  BY DEF ScheduleJob, Goto, Inv, TypeOK
<1>2. t \notin Runs
  <2>1. Holds(t, cur[t]) /\ cur[t] \in Jobs
    BY DEF ScheduleJob, Holds, Inv, TypeOK
  <2> QED BY <2>1, Kinds DEF CalmInv, HoldInv, Flat
<1>3. \A u \in Threads, i \in Jobs : MarkedBy(u, i)' <=> MarkedBy(u, i)
  BY <1>1 DEF MarkedBy
<1>4. \A i \in Jobs : Shown(i)' <=> Shown(i)
  BY <1>1, <1>3 DEF Shown
<1>5. \A x \in Runs : run'[x] \in {"boot", "sayStarted"} => Shown(x[1])'
  BY <1>1, <1>4, RunsType DEF LimitInv
<1>6. \A x \in Runs : ~Busy(x)'
  BY <1>1, <1>2, RunsType DEF LimitInv, Busy
<1> QED BY <1>5, <1>6, CountsRoom DEF LimitInv

\* A row says that a job has started only of one that was counted.
LEMMA LimitHandler ==
  ASSUME Calm, Inv, TypeOK', CalmInv, LimitInv, NEW x \in Runs,
         HandlerStep(x) \/ HandlerCallFails(x)
  PROVE  LimitInv'
<1>1. /\ UNCHANGED run /\ Reporting(x)
      /\ status' = status \/ status' = [status EXCEPT ![x[1]] = Said(x)]
      /\ \A u \in Threads \ {x} : tpc'[u] = tpc[u] /\ cur'[u] = cur[u]
      /\ tpc'[x] = "links" \/ (tpc'[x] = tpc[x] /\ cur'[x] = cur[x])
  BY HandlerEffects
<1>2. \A u \in Threads : Busy(u)' => Busy(u) /\ cur'[u] = cur[u]
  BY <1>1 DEF Busy
<1>3. \A u \in Threads, j \in Jobs : MarkedBy(u, j)' <=> MarkedBy(u, j)
  BY <1>1 DEF MarkedBy, LimitInv, Busy
<1>4. \A y \in Runs : tpc'[y] # "dispatch"
  BY <1>2, RunsType DEF LimitInv, Busy
<1>5. Said(x) = "started" => run[x] = "sayStarted" /\ Shown(x[1])
  BY <1>1 DEF Said, Reporting, LimitInv
<1>6. x[1] \in Jobs /\ run[x] # "none"
  BY <1>1, RunsType DEF Reporting
<1>7. \A j \in Jobs : status'[j] = status[j] \/ (j = x[1] /\ status'[j] = Said(x))
  BY <1>1 DEF Inv, TypeOK
<1>8. Said(x) # "triggered"
  BY DEF Said
<1>9. ASSUME NEW i \in Occupied' PROVE i \in Occupied
  <2>1. CASE i \in Jobs /\ status'[i] \in {"triggered", "started"}
    <3>1. CASE status'[i] = status[i]
      BY <2>1, <3>1, OccupiedBy
    <3>2. CASE i = x[1] /\ Said(x) = "started"
      BY <1>5, <1>6, <3>2, OccupiedBy DEF Shown, MarkedBy, Busy
    <3> QED BY <1>7, <1>8, <2>1, <3>1, <3>2
  <2>2. CASE \E u \in Threads : Busy(u)' /\ cur'[u] = i
    BY <1>2, <2>2, OccupiedBy
  <2>3. i \in RunningJobs' \/ \E u \in Threads : Busy(u)' /\ cur'[u] = i
    BY <1>9 DEF Occupied
  <2> QED BY <2>1, <2>2, <2>3 DEF RunningJobs
<1>10. ASSUME NEW y \in Runs, run'[y] \in {"boot", "sayStarted"} PROVE Shown(y[1])'
  <2>1. run[y] = run'[y] /\ Shown(y[1]) /\ y[1] \in Jobs
    BY <1>1, <1>10, RunsType DEF LimitInv
  <2>2. CASE status'[y[1]] = status[y[1]]
    BY <1>3, <2>1, <2>2 DEF Shown
  <2>3. CASE y[1] = x[1] /\ status'[y[1]] = Said(x)
    <3>1. y = x
      BY <1>6, <1>10, <2>1, <2>3, SameRun DEF CalmInv
    <3>2. Said(x) = "started"
      BY <1>1, <1>10, <2>1, <3>1 DEF Said, Reporting
    <3> QED BY <2>3, <3>2 DEF Shown
  <2> QED BY <1>7, <2>1, <2>2, <2>3
<1> QED BY <1>3, <1>4, <1>9, <1>10, LimitKept DEF Inv

\* All steps together.
LEMMA LimitStep ==
  ASSUME Calm, Flat, "crash" \notin Faults, Inv, CalmInv, LimitInv, [Next]_vars
  PROVE  LimitInv'
<1>0. TypeOK'
  BY StepType DEF Inv
<1>a. ASSUME UNCHANGED <<status, tpc, cur>>,
             \A x \in Runs : run'[x] \in {"boot", "sayStarted"} => run[x] \in {"boot", "sayStarted"}
      PROVE  LimitInv'
  <2>1. /\ \A u \in Threads, j \in Jobs : MarkedBy(u, j)' <=> MarkedBy(u, j)
        /\ \A u \in Threads : Busy(u)' <=> Busy(u)
    BY <1>a DEF MarkedBy, Busy
  <2>2. \A j \in Jobs : Shown(j)' <=> Shown(j)
    BY <1>a, <2>1 DEF Shown
  <2>3. Occupied' = Occupied
    BY <1>a, <2>1 DEF Occupied, RunningJobs
  <2> QED BY <1>a, <2>1, <2>2, <2>3, RunsType DEF LimitInv
<1>1. ASSUME NEW t \in Threads, ThreadStep(t) \/ ThreadCallFails(t) PROVE LimitInv'
  BY <1>0, <1>1, LimitThread, LimitReleases, LimitCounts DEF ThreadStep
<1>2. ASSUME NEW x \in Runs, HandlerStep(x) \/ HandlerCallFails(x) PROVE LimitInv'
  BY <1>0, <1>2, LimitHandler
<1>3. ASSUME NEW x \in Runs, RunStep(x) \/ Refused(x) \/ Kill(x) PROVE LimitInv'
  <2>1. UNCHANGED <<status, tpc, cur>>
    BY <1>3 DEF RunStep, Boot, Work, Reported, Refused, Kill, RunGoto, threads
  <2>2. \A y \in Runs \ {x} : run'[y] = run[y]
    BY <1>3 DEF RunStep, Boot, Work, Reported, Refused, Kill, RunGoto, Inv, TypeOK
  <2>3. run'[x] \in {"boot", "sayStarted"} => run[x] \in {"boot", "sayStarted"}
    BY <1>3 DEF RunStep, Boot, Work, Reported, Refused, Kill, RunGoto, Reporting, Inv, TypeOK
  <2> QED BY <1>a, <2>1, <2>2, <2>3
<1>4. ASSUME NEW x \in Runs, Rerun(x) PROVE FALSE
  BY <1>4 DEF Rerun, Calm
<1>5. CASE BackendRestarts \/ TasksRestart
  BY <1>5 DEF BackendRestarts, TasksRestart, Calm
<1>6. CASE UNCHANGED vars
  BY <1>6, <1>a DEF vars
<1> QED BY <1>1, <1>2, <1>3, <1>4, <1>5, <1>6 DEF Next

\* It holds at the start.
LEMMA LimitInit == Calm /\ Init => LimitInv
<1> SUFFICES ASSUME Calm, Init PROVE LimitInv
  OBVIOUS
<1>1. \A t \in Threads : ~Busy(t)
  BY DEF Init, Busy
<1>2. Occupied = {}
  BY <1>1 DEF Occupied, RunningJobs, Init
<1>3. Cardinality(Occupied) = 0
  BY <1>2, FS_EmptySet
<1>4. \A x \in Runs : run[x] = "none"
  BY DEF Init
<1> QED BY <1>1, <1>3, <1>4, FewTicks, MaxAssumption, RunsType DEF LimitInv

\* In a batch without dependencies the limit is exceeded by one job for the cron
\* firing that overlaps the webhook's thread and by no more, as long as the
\* backend does not restart between a workflow's start and its save.
\* ScheduleJob, TriggerJob.
THEOREM OvershootBounded ==
  Calm /\ Flat /\ "crash" \notin Faults /\ Spec => []LimitOvershoot
<1>1. ASSUME Calm, Inv, LimitInv PROVE LimitOvershoot
  <2>1. RunningJobs \in SUBSET Occupied /\ IsFiniteSet(Occupied) /\ IsFiniteSet(RunningJobs)
    BY <1>1, OccupiedFinite DEF Inv, Occupied
  <2>2. Cardinality(RunningJobs) <= Cardinality(Occupied)
    BY <2>1, FS_Subset
  <2>3. Cardinality(RunningJobs) \in Nat /\ Cardinality(Occupied) \in Nat
    BY <2>1, FS_CardinalityType
  <2> QED BY <1>1, <2>2, <2>3, FewTicks, MaxAssumption DEF LimitInv, LimitOvershoot
<1>2. ASSUME Calm, Flat, "crash" \notin Faults
      PROVE  Spec => []LimitOvershoot
  <2>1. Inv /\ CalmInv /\ LimitInv /\ [Next]_vars => LimitInv'
    BY <1>2, LimitStep
  <2>2. Spec => [](Inv /\ CalmInv)
    BY <1>2, CalmInvariance, PTL
  <2>3. Init => LimitInv
    BY <1>2, LimitInit
  <2>4. Inv /\ LimitInv => LimitOvershoot
    BY <1>1, <1>2
  <2> QED BY <2>1, <2>2, <2>3, <2>4, PTL DEF Spec
<1> QED BY <1>2
==============================================================================
