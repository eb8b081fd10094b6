# Digger, specified

This directory specifies the parts of the digger repository in which something
can go wrong that a test would hardly reach: the locks of pull requests, the way
from a webhook to the merge, the construction and the scheduling of a batch of CI
jobs, the jobs that the CLI runs on its own, and statesman's units and remote runs. TLC checks the models on small instances, TLAPS proves the
main theorems for every value of the constants.

All paths below are relative to the repository's root (`src/`).

## 1. The system

The repository holds two products. **digger** runs terraform in the CI of a
pull request: a backend (`backend/`) receives webhooks, builds a batch of jobs,
dispatches CI workflows and collects their reports; a CLI (`cli/`) runs inside
the workflow; `libs/` is shared by both. **statesman** (`taco/`) is a service
that stores terraform state and answers the TFE API; `sandbox-sidecar/` runs
its remote plans; `ui/` is the front end of both.

| component | code | state it keeps | operations | hard because |
|---|---|---|---|---|
| pull request locks | `libs/locking`, `backend/locking` | a lock row per project (DynamoDB, Azure, GCS or table `digger_locks`) | Lock, Unlock, ForceUnlock, GetLock | several calls per operation, concurrent pull requests, closed pull requests, four different stores |
| impacted project graph | `libs/ci/generic`, `backend/utils/graphs.go` | projects found, result graph, jobs and parent links being written | FindAllProjectsDependantOnImpactedProjects, FilterOutProjectsFromComment, ImpactedProjectsOnlyGraph, CollapsedGraph, TraverseGraphVisitAllParentsFirst, ConvertJobsToDiggerJobs | recursion and search in the order of Go maps, failing queries |
| job scheduler | `backend/services/scheduler.go`, `backend/tasks/tasks.go`, `TriggerDiggerJobs` | `digger_jobs`, `digger_batches`, `digger_job_parent_links` | ScheduleJob, TriggerJob, DiggerJobCompleted, the cron task | webhook, goroutines and cron schedule the same rows without transactions |
| job status handler | `SetJobStatusForProject` in `backend/controllers/projects.go` | the same rows, the check runs of the VCS | set-status, UpdateBatchStatus, automerge | several saves of one row, failures between them, late and repeated reports |
| CI runs | `cli/pkg/spec`, `libs/backendapi` | what the run has reported | started, succeeded, failed | reports are lost, answered by errors, followed by a contrary one |
| impacted project tracking | `storage.go` 710-784 | `impacted_projects`: planned, applied | create, mark, count | rows are checked and then created, read and then saved whole, looked up without the project |
| webhook handlers | `backend/controllers/github*.go` | none of their own | pull request, comment, check run | a goroutine for each webhook; the head moves under it |
| CLI job execution | `cli/pkg/digger`, `cli/pkg/github`, `libs/execution` | what the job has applied | plan, apply, lock, unlock, merge | order of checks and effects, several jobs at a time |
| plan storage | `libs/storage` | stored plans | store, retrieve, delete | GitHub artifacts are found by the project's name |
| policies | `libs/policy` | none | access and plan decisions | asked at several points, before the lock |
| VCS adapters | `libs/ci` | none | statuses, mergeability, merge | read and then used |
| statesman units | `taco/internal/unit`, `storage`, `repositories`, `tfe/workspaces.go`, `backend`, `s3compat` | object, lock and versions in S3; the row of the unit | lock, upload, restore, unlock, delete | five front ends, two stores for one lock, no atomic create |
| statesman TFE runs | `taco/internal/tfe` | runs, plans, the unit's lock | create, plan, apply | executor goroutines against requests, other users and restarts |
| sandbox sidecar | `sandbox-sidecar/src` | jobs in memory | start, run, poll | starts are repeated, waiting ends early |
| run queue | `backend/tasks/runs.go` | `digger_runs`, `digger_run_queue_items` | RunQueuesStateMachine | no caller creates a run (see 7) |
| configuration | `libs/digger_config` | none | parse, generate, validate | large, sequential |
| drift, projects refresh | `drift/`, `background/` | project drift status | periodic checks | little interleaving |
| statesman graph, RBAC, tokens | `taco/internal/deps`, `rbac`, `auth` | graph status, roles, tokens | single queries | |
| reporting, other VCS and CI adapters, ui, dgctl, ee, helm | | | | I/O and wording |

**How they interact.** A webhook (1) takes the PR lock of every impacted project,
(2) collapses the dependency graph to the impacted projects and writes one job
per project, (3) triggers the jobs without parents. Each CI run reports
started and succeeded or failed to set-status. A success starts a goroutine
that triggers the children whose parents have all succeeded; jobs above
`max_concurrency_per_batch` are queued and released by the cron process. When
all jobs have succeeded the batch is, and the pull request may be merged.
Everything is shared through rows of the database, read and saved one query
at a time. Without the backend, the CLI does all of this in one CI job: it takes the
lock of each project, plans or applies it, and merges.

A terraform client or `taco` works on a *unit* of statesman through one of five
front ends (unit API, HTTP backend, S3 backend, TFE workspaces, TFE runs). All go
through `UnitRepository`, which calls the blob store and then saves the row. A TFE run
is a goroutine that locks the unit, runs terraform there or in the sidecar,
records the result and unlocks; an apply is a second one.

**What makes each correct.** Locks: one holder, never lost, never taken from
another, never hanging. Graph: one job for each project, after the jobs it
depends on. Scheduler: parents first, once, within the limit, to the end, and
complete only when everything succeeded. Tracking: a merge only after every
project was applied, and then it happens. CLI jobs: one owner of a project, what is applied was
previewed and allowed. Units: who was told it has the lock has it, no update and no
version is lost. Runs: one terraform at a time, no apply without a plan, nothing
left locked.

## 2. The modules

| module | models |
|---|---|
| `PullRequestLock` | locks over the four stores, with the commands that use them |
| `PullRequestLockProofs` | theorems about it |
| `ImpactDetection` | from the changed files to the projects of a batch; extends `ImpactedGraph` |
| `ImpactDetectionProofs` | theorems about it and its composition with `ImpactedGraph` |
| `ImpactedGraph` | from the dependency graph to the jobs of a batch |
| `ImpactedGraphProofs` | theorems about it |
| `BatchOrder` | abstract: what a scheduler promises about one batch |
| `JobScheduler` | scheduler, cron task, set-status handler and CI runs of one batch; implements `BatchOrder` |
| `JobSchedulerProofs` | theorems about it |
| `PullRequestEvents` | webhooks, their handlers, `impacted_projects`, reports, check run and automerge of one pull request |
| `PullRequestEventsProofs` | theorems about it |
| `CliJobs` | CI jobs of several pull requests without the backend |
| `CliJobsProofs` | theorems about it |
| `UnitStore` | a unit's object, lock, versions and row under the calls of `UnitRepository`, over S3 and in memory |
| `UnitHandlers` | the handlers and their clients; extends `UnitStore` |
| `UnitHandlersProofs` | theorems about them |
| `TfeRuns` | runs of a workspace: requests, executors, sidecar, other users of the unit |
| `TfeRunsProofs` | theorems about them |
| `MC...` | instances for TLC |

`ImpactedGraph` produces what `JobScheduler` takes as `Parents`. It shows
(`OneJobEach`) that a job never has more than one parent link, so the
instances of `JobScheduler` are forests; the theorems hold for any `Parents`
unless they say otherwise (`OneParent`, `Flat`).
`PullRequestEvents` stands above the two: it makes the batches that `JobScheduler`
schedules one by one, takes a report as a sequence of queries like `JobScheduler`, and
leaves the faults of reports and the order of jobs to it, and locks to `PullRequestLock`.
`TfeRuns` takes a call of `UnitStore` as two steps, blob store and row.

### PullRequestLock

A *worker* is one execution of a command for a pull request: a webhook handler
of the backend when `Store = "db"`, else a CI job. Every call to the store or
the VCS is a step, so workers interleave between the calls.

| action | code |
|---|---|
| `Begin`, `NextProject`, `Finish` | loops of `github_pull_request.go` 296-341, `github_comment.go` 392-456; `libs/locking/utils.go`; `Finish` also deletes the rows of the pull request after unlock (`DeleteAllLocksAcquiredByPR`) |
| `VerifyGet`, `VerifyIsClosed`, `VerifyRelease` | the three calls of `verifyNoHangingLocks` |
| `LockGet`, `InternalLock` | the two calls of `Lock`: GetLock, then the store's Lock |
| `UnlockGet`, `InternalUnlock` | `Unlock` (backend) and `ForceUnlock` (CLI) |
| `CallFails` | a call fails before it has an effect; the handler ends, the CLI goes on with its other projects |
| `ClosePR` | the environment closes a pull request |

The stores differ in `RowsAfterLock` and `LockAnswer`: DynamoDB and Azure
write conditionally, GCS unconditionally, and the table adds a row, there being
no unique index. `told` and `revoked` are history: which pull requests the code
has told that they hold a project, and whose row another pull request's worker
has deleted since. Lock names are repository and project; that a LIKE pattern
of one repository matches another is the relation `Prefix`.

### ImpactedGraph

The recursion of `CollapsedGraph` is a stack of calls; every `range` over a map
picks its next key nondeterministically. The search is the library's breadth-first
search: a queue and a set of vertices seen. A row of `digger_jobs` is
a project with the project its parent link leads to. `VisitFails` is a failing
query in the middle of a visit (swallowed by the code), `VisitPanics` the nil
pointer met when a predecessor has no job.

### ImpactDetection

What comes before `ImpactedGraph`: `DetectionSpec` first finds the set `impacted`, then
takes the steps of `ImpactedGraph`, as `ImpactedGraph!Spec` does from that set. Which files match which patterns is a choice
(`changed` is any set); the rest is the code's.

| action | code |
|---|---|
| `Detect` | the modified projects; the event of a pull request drops those of other branches here (`github.go:925`), and the mode "hard" starts the search |
| `WalkFrom`, `WalkVisit`, `WalkEnds` | `FindAllProjectsDependantOnImpactedProjects`: a breadth-first search from each root, roots and neighbours in any order. `all` is also the code's `visited`, and `changed` with `all` its `impactedProjectsMap` |
| `AskProjects`, `AskAll` | `FilterOutProjectsFromComment`, the branch filter, and `coversAllImpactedProjects`; an event asks for everything |
| `Refuse`, `StartBatch` | flags that fail, limits, no jobs; or the map of jobs, after which nothing reads the lists |

A layer and a set of directories are both just some of the projects found; `list` counts how often a
project is in the list, because the code compares lengths.

### JobScheduler

One batch. A *thread* is the webhook (`Trigger`), a firing of the cron task
(`Ticks`; two of them overlap when one takes longer than a minute), or the
goroutine of a completed job (named by its run). A *run* is a CI run of a job,
with the set-status request it has under way.

| actions | code |
|---|---|
| `TriggerDiggerJobs`, `Tick`, `GetJobLinks`, `NextJob`, `ReadParent` | which jobs a thread goes through: `TriggerDiggerJobs`, `tasks.go` 85-162, `DiggerJobCompleted` |
| `ScheduleJob`, `Enqueue`, `TriggerWorkflow`, `SaveTriggered` | `ScheduleJob` and `TriggerJob`: count, then queue, or dispatch and save |
| `SetJobStatusForProject`, `SaveStatus`, `SaveUrl`, `SaveTimestamp`, `ReadJobs`, `SaveBatch`, `UpdateCheckRuns`, `AutomergePRforBatchIfEnabled` | the handler, one step per query or call; the row is saved up to three times from the copy in memory |
| `ThreadCallFails`, `HandlerCallFails` | a call fails before it has an effect |
| `Boot`, `Work`, `Reported`, `Refused` | `RunSpec`, `RunJobs`, `ReportProjectJobStatus` |
| `Kill`, `Rerun`, `BackendRestarts`, `TasksRestart` | the environment |

`Faults` says what may go wrong; the comment above its assumption lists the
values. `succeeded` is history: the jobs a success was ever saved for.
The rows are saved whole (`gorm.Save`), so the last writer wins: `SaveTriggered`
and `SaveUrl` write the status their copy has. The merge decision is
abstracted to the batch's status; the type of the batch, the setting and the
impacted projects may each prevent it (`merged' \in {merged, ...}`).

### PullRequestEvents

A *task* is a webhook with the goroutine that handles it; `ReadConfig` to `Trigger` are
its calls to GitHub and the database, in the order of both handlers, which is the same. A
report is one `set-status: succeeded` of job `p` of batch `b`.

| actions | code |
|---|---|
| `Push`, `Comment`, `Click`, `Close`, `ConvertToDraft` | the webhooks, with the command that `ConvertGithubPullRequestEventToJobs` or the comment gives |
| `ReadConfig`, `Detect` | `getDiggerConfigForPR`; `ProcessGitHubPullRequestEvent`, `ProcessIssueCommentEvent` and the selection by a comment |
| `CheckRows`, `CreateImpactedProject` | `GetImpactedProjects` and the loop over `CreateImpactedProject` |
| `Stop`, `GiveUp` | limits, drafts, commands without jobs; failing calls, refused locks and apply requirements |
| `Trigger`, `ApplyAll` | `SetPRCheckForJobs`, `ConvertJobsToDiggerJobs`, `TriggerDiggerJobs`; the same from the button |
| `ReadRow`, `MissRow`, `SaveRow`, `SaveJob`, `UpdateBatchStatus`, `RefreshBatch`, `UpdateCheckRun`, `WriteLost`, `ReportFails` | `SetJobStatusForProject` and what it calls, one step per query; the two failing writes that are only logged, and the calls whose failure ends the report |
| `Automerge`, `AutomergeByBatch`, `MergePullRequest`, `MergeRefused` | `AutomergePRforBatchIfEnabled` |

`SingleRow` is `GetImpactedProjectSingle`, whose query lacks the project: the row that is marked is any
of the commit. `odd` is history: what has happened that the properties excuse, each a real behaviour
of the code (see 3). `MaxTasks`, `MaxRows`, `MaxJobs`, `MaxBusy` and `MaxOdd` are bounds.

### CliJobs

A *slot* holds a CI job: the pull request and commit it was started for, the projects it has not
done yet and the commands the current one has left, for the two loops of `RunJobs`. `Order` gives
the projects their places in the topological sort, and `First` is the one that is next.

| actions | code |
|---|---|
| `Push`, `Reopen`, `Close`, `Comment` | `ConvertGithubPullRequestEventToJobs`, `ConvertIssueCommentEventToJobs`, `SortedCommandsByDependency` |
| `NextCommand` | the access policy and the switch of `run`; a denial skips the command (`Denied`), a failure the project (`Failed`), and an error of the policy ends all (`Aborted`) |
| `Lock`, `PutLock`, `Unlock` | `PullRequestLock.Lock` (with the takeover from a closed pull request), the conditional write, `ForceUnlock` |
| `TerraformPlan`, `StorePlan`, `ShowPlan` | `DiggerExecutor.Plan`, `postProcessPlan`, plan policy and report |
| `CheckApply`, `RetrievePlan`, `TerraformApply`, `DeletePlan` | mergeability, stored plan and access policy before the lock; `DiggerExecutor.Apply`; `DeleteStoredPlan` |
| `Report`, `CheckMerge`, `Merge`, `Succeed` | what `RunJobs` returns and `GitHubCI` does with it; what `MergePullRequest` asks first, and the merge |

`stray` (the lock was taken away since it was granted), `moved` (the plan was stored again since)
and `guarded` (what a plan was made from, while the lock stands) are history.

### UnitStore and UnitHandlers

A process has one call of `UnitRepository` under way; over S3 each request is a
step (`S3Head` ... `S3PutLock`), in memory a method is one step, since it holds a mutex. `SaveRow` is the
query after it. `UnitHandlers` adds the clients: the lock ID one was told, the content it has read.

| actions | code |
|---|---|
| `LockUnit`, `HandleLock`, `PutLockFile`, `LockWorkspace` | Lock, under an ID of the client or of the handler |
| `UploadUnit`, `UpdateState`; `PutState`, `UploadStateVersion`, `CreateStateVersionDirect` | Upload under the ID given; under the ID found in the row |
| `UnlockUnit`, `HandleUnlock`; `DeleteLockFile`, `UnlockWorkspace`, `ForceUnlockWorkspace` | Unlock with the ID given; with that of the row |
| `RestoreVersion`, `DownloadUnit`, `DeleteUnit`, `CreateUnit`, `CreateInBackground` | the rest of the unit API; Create writes the object in a goroutine |
| `Serve`, `Take`, `Crash` | one step of the store or the row; the answer; a restart |

The state version handlers and the S3 backend upload for anyone, under the ID of the row: a client without
a lock as well (`UploadUnderRow`). `PutLockFile` leaves out the PUT that is repeated with the ID already held, which
answers success and changes nothing (`s3compat/handler.go:327`).

`seen` is history: calls overlapped, a call was cut, a lock could not be read, an ID was borrowed from the row.

### TfeRuns

`<<r, 0>>` is the plan executor of run `r`, `<<r, n>>` the executor of its n-th apply request
(all with one lock ID).

| actions | code |
|---|---|
| `CreateRun`, `AskApply`, `QueueApply` | `CreateRun`; the two halves of `ApplyRun` |
| `Start`, `LockBlob`, `LockRow`, `Begin`, `Download` | `ExecutePlan`, `ExecuteApply` up to terraform |
| `RunLocally`; `StartJob`, `RunJob`, `EndOrphan`, `WaitForJob` | terraform on the server; `e2b.go` and the sidecar's `JobRunner` |
| `RecordPlan`, `FinishPlan`, `QueueAfterPlan`, `RecordApply`, `FinishApply` | the rows and the new state |
| `UnlockBlob`, `UnlockRow`, `Refuse`, `Panic` | the deferred unlock; `handlePlanError`; a nil pointer in a goroutine, which ends the server: after the deferred unlock in the executor's own, without it in that of the heartbeat (`Flushes`, `plan_executor.go:386`) |
| `ReadRowLock`, `UserUploads` | a user's upload: under an ID of its own, or under the one the row has, an executor's included |
| `UserLocks`, `UserUnlocks`, `ForceUnlock`, `Crash`, `SidecarRestart` | the environment |

## 3. What TLC checks

Bounds: the number of runs of a job is `MaxRuns`, overlapping cron firings are
`Ticks`; nothing else is unbounded. (`Rerun` at `MaxRuns` and a dispatch beyond
it are disabled: a run with one dispatch too many stops there, after the state
in which a property about it is decided.)

| run | instance | shows |
|---|---|---|
| `lock_dynamo` | 3 pull requests, 1 project, plan and unlock, closing, failing calls, lost answers | `ExclusiveUnlessRevoked`, `GrantRecorded`, `TypeOK` |
| `lock_db` | 2 pull requests, 1 project, plan, lock, unlock, closing, fair | `GrantRecorded`, `HangingLockYields` |
| `lock_db_race` | 3 pull requests that plan, table | violates `MutualExclusion` |
| `graph_all` | all 64 graphs of 4 ordered projects, 16 sets of changed ones, both modes, events and comments with all flags, one project or none of another branch, all orders, failing queries | `LinksAreDependencies`, `ParentsVisitedFirst`, `OneJobEach`, `TreesAreKept`, `DependantsFound`, `CoversTold`, `TypeOK` |
| `batch_faults` | chain of 2, limit 1, 1 cron firing, every fault | `ParentsFirst`, `BatchSound`, `TypeOK` |
| `batch_once` | 3 independent jobs, limit 1, 1 cron firing, failing runs | `TriggeredOnce`, `LimitOvershoot` |
| `batch_rerun` | chain of 2 and no limit, runs started again, fair | `ImplementsOrder`, `BatchCompletes` |
| `batch_queue` | 2 independent jobs, limit 1, 1 cron firing, failing runs, comments and answers, runs that are faster than the save of their row, fair | `QueueDrains`, `OnlyTriggerPutsBack` |
| `pull_requests` | 2 commits, of 2 and 1 projects; 3 webhooks, 2 jobs, 2 handlers at a time, 1 kind of oddity | `MergedAllApplied`, `MarksEarned`, `RowsCover`, `CheckTold`, `AppliedMerges`, `TypeOK` |
| `cli` | 2 pull requests for one project, or one for two; 3 jobs with 4 commands, 2 at a time; 2 commits; each plan storage; one of two projects with `skip_merge_check`; one kind of fault (see Constraints) | `OneOwner`, `PreviewFresh`, `MergesApplied`, `PolicyTold` |
| `units` | 2 clients, 2 lock IDs, 2 uploads, 1 restore, 1 version kept; S3 and memory; failing queries, failing requests or restarts | `LockStands`, `NoLostUpdate`, `HistoryKept`, `RowTellsLock`, `TypeOK` |
| `tfe_runs` | 2 runs, 3 requests, users who upload under a lock of their own, while there is none, or (one at a time, `MaxUploads`) under the ID of an executor they find in the row; local and remote; each of six faults (see Constraints) | `OneTerraform`, `PlanBeforeApply`, `NothingLeftBehind`, `NoLostState` |

Why the bounds are enough: a race over a lock needs two pull requests, and the
third is the one whose lock a stale release deletes. A project whose edge can be
lost needs two dependencies, and two more let one of them be an
intermediate that is not impacted, or be a second root with another changed project below. A merge that misses a project needs two projects, and a
task that works with the wrong head needs two commits; the overlaps of two reports need two jobs
at work, and a batch of two or two batches of one are both there. A plan can be lost to
another pull request with two of them and three jobs (plan, plan, apply). Two clients make every race over a
unit, two uploads and one version kept reach the pruning. A second apply of one run is there with three
requests, and so are two runs that compete. For the scheduler, two jobs have every order of two
reports, a third is needed for the limit to be exceeded by more than one and for
siblings released by one goroutine. An upload under the lock of an executor, one at a time, meets every step of every
executor and keeps an ID that is no longer the lock's. The safety of order and completion is
proved without bounds.

`CHECK_DEADLOCK FALSE` stands where the system ends: a batch ends, and so does the
construction of one, and the newer models end when their bounds on requests are used up (or the
server is down). The lock models never do, and deadlock is checked.

`DetectionOK`, and `TypeOK` of `CliJobs` and of `TfeRuns`, state the types; no run has them. The
latter two are theorems.

**Excuses.** `odd`, `seen`, `stray`, `moved` and the like record that something has happened after
which the code does not hold the property. Each is a behaviour of the code, listed below under
"What the excuses show", and each property names the ones it needs: they are what is known to break it, and
the run shows that nothing else does. Without its excuses each of these properties is violated.

**Constraints.** Two keep a run within minutes by leaving out settings, which the theorems have. `MCTfeRuns!Covered`:
users upload under an executor's lock where the fault is a failing blob store or a restart, the store in memory comes with local
execution, and a lost answer of the sidecar with remote. `MCCliJobs!Covered`: failing policies with either kind of
stored plans, failing terraform with the bucket or no plan storage, failing storage with both.
`MCUnitHandlers!Covered` and `MCPullRequestEvents!Covered` stop histories after
the excuses have left little to hold (the comments there say which); the state in which that happens is
still checked. The symmetry sets permute clients and lock IDs, runs, slots and pull requests, which no
definition tells apart; these runs check no liveness.

**Fairness.** `PullRequestLock!FairSpec`: each worker goes on with the command it
has begun (`WF` of its steps, no fairness of starting a command, of closing, or of
failures). `JobScheduler!FairSpec`: goroutines and requests run on, the cron task
fires again (it is a cron job), the CI runs what it was given to the end. No
fairness of faults. `batch_rerun` has only runs that are started again; `batch_queue` has those faults after which
the code still frees the place of a run, and runs that are faster than the save of their row, which `QueueDrains` excepts. The other modules state safety only: what they would have to wait for is
a user's next request, and where the code gives up without another try (a refused merge, a lost
report) the README says so instead.

### What the violations show

* `lock_db_race`: `Lock` reads the lock and inserts a row in two queries, without
  a transaction or a unique index. Two handlers both insert and both report
  the project locked (`docs/ce/features/pr-level-locks.mdx:6` promises otherwise).

Four properties in the modules are broken by the code and not run:

* `PullRequestLock!UnlockReleasesOnlyOwn`: `DeleteAllLocksAcquiredByPR` (`storage.go:1859`) matches `repoFullName%`: unlocking
  PR 1 of `acme/app` also deletes the locks of PR 1 of `acme/app-infra`.
* `ImpactedGraph!DependenciesOrdered`: `CollapsedGraph` returns on a vertex that exists before it adds
  the edge (`graphs.go:302`), so a project keeps one edge, of the path taken first. A project that
  depends on an impacted and on a not impacted one may become a root and run
  beside the job it depends on (`docs/ce/features/concurrency.mdx:5` says it waits). Adding the edges is not enough: with it
  (`CallAddingEdges`) the breadth-first visit meets a nil pointer, and a job is
  created for each parent.
* `ImpactDetection!ChangesFound`: the visit function returns true at a project an earlier search has found,
  which ends the whole search from that root (`events.go:80`). With `app` depending on `vpc` and `dns`, `eks` on `vpc`,
  and `vpc` and `eks` changed: if the search from `dns` comes first it finds `app`, and that from `vpc` may meet
  `app` before `eks`, which is then neither planned nor recorded; another run of the same event may find it.
  `DependantsFound` says that this is the only way to lose a changed project. Dependants get lost in another way as
  well: with a→b→c→d, a→d and b changed, d is visited before c is found, and left out, so that
  it promises all of them only where no project has two dependencies.
* `JobScheduler!MergeWhenAllSucceeded`: updating a check run fails after the batch was saved as succeeded;
  the handler answers 500, the CLI reports failed, and the handler of that
  report merges, since a succeeded batch is not looked at again (`storage.go:928`).

More configurations of `PullRequestLock` break `MutualExclusion` and
`UnlockReleasesOnlyOwn` and are not run: `Store = "gcp"` with plans only (the write has no
precondition); `Store = "dynamo"` with plans and closing (a stale release
deletes a newer lock); `Store = "azure"` with the lock command (the answer of the
conditional write is dropped by `LockingExecutorWrapper.Lock`). In the CLI,
unlock is `ForceUnlock`, which deletes the lock whoever holds it
(`UnlockReleasesOnlyOwn` with `Store = "dynamo"`).

Faults under which a property is deliberately not claimed: a lost answer of the
dispatch, a failing save of a triggered row, or a restart of the cron process make the code dispatch a
job twice (`TriggeredOnce` is checked without them); a killed run keeps its
place for ever (`QueueDrains` is checked without that); a failing query or a restart loses
children and roots (`BatchCompletes` is checked without them). Two firings of the cron task that overlap
(`tasks.go:85`: one that takes longer than a minute) both read the queue before either saves a row: a queued job is
dispatched twice, and the reports of its two runs put its row back. A run that is faster than `TriggerJob` has its row put back to
triggered by the save that follows (`scheduler.go:159`); the job then counts as running, and holds a place of
the limit, for good. `OnlyTriggerPutsBack` says that nothing else puts an ended row back
(checked with the faults of `batch_queue`, proved with all of `Calm`), and `QueueDrains` that nothing else stops the queue. `batch_once` has one firing, and the theorems about
it say so (`Calm`).

### What the excuses show

`ImpactDetection`
* `CoversTold` excepts a list with a project twice (`-p app -d dir-of-app`, `comment_filter.go:60`): two impacted
  projects and a list of one of them twice have the same length, and the batch is said to cover all. This
  counts where the rows cannot be asked (*blind* below) and when older comments are deleted.
* The event drops projects of other branches before it looks for dependants, a comment after that: in the mode "hard" the
  event plans and records dependants of another branch that no comment on the pull request can apply.

`PullRequestEvents`
* *twice*, *clash*: `GetImpactedProjectSingle` (`storage.go:741`) does not use the project's name. A project
  applied twice marks the row of another one, and auto_merge merges a pull request with a project that was never
  applied; two reports that mark one row leave the other unmarked, and the merge never comes.
* *moved*: a task for an older commit works with the files of the current head (`libs/ci/github/github.go:913`).
* *partial*, *double row*: `CheckRows` and `CreateImpactedProject` are not one transaction.
* *unmarked*: a row is saved whole as it was read, over a mark made since.
* *overlap*: of two reports the one that read the unfinished batch may write the check run last,
  which then stays in progress.
* *blind*: without an answer about the rows, the batch's own flag decides (`projects.go:1517`).
* Reports of GitLab and Bitbucket batches, which have no check run, are answered 500 after they are saved
  (`projects_helpers.go:122`, `projects.go:1010`), so that automerge is never reached; the model has GitHub only.
* *refused*, *lost*: nothing repeats a refused merge or a report that failed. A check run that GitHub did not
  take (`projects_helpers.go:208`) and a batch that was not saved (`storage.go:953`) are only logged: the report goes
  on to the merge with the batch it has in memory, and the check run stays in progress.
* Not excused because no property claims it: the merge takes the head of the moment whatever commit was applied; the button
  skips locks, limits, drafts and apply requirements; rows are written before the limits are looked at;
  no code sets `BatchJobFailed`, so the check run of a batch with a failed job stays in progress; an identifier
  without the known prefix makes the button's handler follow a nil batch (it recovers).

`CliJobs`
* With GitHub artifacts as plan storage the newest artifact of the project's name may be another pull request's; `RetrievePlan`
  then answers an empty path and no error, the empty argument is dropped (`tf.go:90`), and apply
  makes and applies a plan that nobody has seen. `PreviewFresh` and `PolicyTold` speak of stored plans that are found.
* A plan is stored before the plan policy is asked (`execution.go:329`); violations are read before the lock and
  the plan again after it (`moved`); without an access policy violations do not stop an apply (`policy-overrides.mdx:5`).
* An apply that loses the conditional write of the lock follows a nil summary (`digger.go:414`); a plan
  that loses it counts as done. ForceUnlock frees anybody's lock (`stray`). A job of "digger lock" or
  "digger unlock" sets the status digger/apply to success. With `skip_merge_check` a closed pull request is applied.
* Merged, combined status and mergeability are asked before the merge, which is of whatever head there is by then.

`UnitHandlers`
* *lockRace*, *race*: the lock of S3 is a HEAD and a PUT (`s3store.go:436`), and uploads, restores and deletions are several
  requests after one look at the lock. *blind*: Get drops the error of GetLock (`s3store.go:198`).
* *borrowed*: the state version handlers upload under whatever ID the row has (`workspaces.go:1396`).
* *cut*: after a failing query or a restart the blob store is locked and the row does not tell; UnlockWorkspace
  then answers that there is nothing to unlock (`workspaces.go:750`).
* The stores differ: in memory, Upload creates a unit that S3 answers is not found.

`TfeRuns`
* A conflict over S3 is wrapped and never recognised as one; in memory, after it the row may name no holder, and the nil pointer
  ends the server with everything it was doing (`plan_executor.go:151`). So does a plan ID that could not be saved (`runs.go:477`).
* *orphan*: a POST that is repeated, or waiting that ends, leaves a terraform in the sidecar that nobody waits for.
* Not excused but in the property: whoever uploads a state version without a lock does so under the lock ID of the row
  (`workspaces.go:1396`, `s3compat/handler.go:266`). While an apply works that ID is its own, and the state it has read can
  be replaced under it; the apply then overwrites the upload. `NoLostState` calls that *lent*, and says that it is
  the only way: an upload that found an earlier lock, or none, is refused.
* *forced*: an apply whose lock was released by force uploads over a newer state (an unlocked unit takes any ID).
* A state that cannot be downloaded is taken for an empty one (`apply_executor.go:277`); the state of a failed
  apply is not uploaded; auto-apply asks neither for PlanOnly nor for changes; the run's status is looked at before
  the lock is taken, so two requests apply a run twice, the second from what the first left.

## 4. What is proved

TLAPS proves, for every value of the constants that satisfies the assumptions
stated in the modules:

* `PullRequestLockProofs`
  * `TypeCorrect`, whichever store is in use.
  * `AcquisitionSound`: with a store that writes conditionally and without the lock command, `ExclusiveUnlessRevoked`
    is invariant, for any number of workers, pull requests and projects, with
    closing, unlocking, failing calls and lost answers.
  * `GrantsAreKept` (`GrantRecorded`), under the same two hypotheses.
  * `OpenPRsExclude`: when only plans run and no pull request is closed, `MutualExclusion`.

  The inductive invariant is `LockInv`: types; at most one row per project
  (`OneRow`); every granted lock has its row (`GrantRecorded`); and a pull request
  is told only what the write answered (`AnswerHeeded`). `ExclusiveUnlessRevoked` alone is
  not inductive: a worker told it holds a project that has no row could be followed by another.
  * `TableKeepsGrants` (`GrantRecorded`): over the backend's table, with all commands, closings, failing calls and lost
    answers. The table excludes nobody (`lock_db_race`), but no interleaving loses a row that a pull request relies on.

  Over the table `GrantRecorded` is inductive with the types alone: `Lock` only adds rows, and whoever deletes one is
  noted. The deletion at the end of `digger unlock` is the hard step: `RowsAtKeeps` says that each row its pattern does not
  match is still there, by the rank of its position (`RankBounded`, `RankGrows`, `RankReached`). The bucket has no such
  theorem: an unconditional write may replace the row of another pull request.
* `JobSchedulerProofs`
  * `TypeCorrect`, `OrderRespected` (`ParentsFirst`), `BatchSoundness`
    (`BatchSound`): for every finite set of jobs, every dependency graph, limit and set of faults.
  * `Refinement`: the scheduler implements `BatchOrder` under the mapping of
    `ImplementsOrder`, with all threads, handlers and faults.

  The inductive invariant `Inv` says for each actor what its next step relies on: a
  thread that has passed a parent has seen it in `succeeded`; a job in a thread's
  list has parents that have succeeded, or is yet to be looked at; a row that says
  succeeded, and a run that is to say so, belong to a released job; a handler that
  is to save, or has in memory, a succeeded batch was reached with all jobs succeeded.
  * `TriggersOnce` (`TriggeredOnce`): for every batch whose jobs have one parent at most (`OneParent`, which
    `NoSecondJob` gives), when cron firings do not overlap and *db*, *lostAck*, *cronCrash* and *rerun* do not happen
    (`Calm`); failing calls and runs, cancelled runs, lost answers of set-status, restarts of the backend and
    runs that start too early may.
  * `EndedRowsPutBack` (`OnlyTriggerPutsBack`): the same, however fast the runs.
  * `OvershootBounded` (`LimitOvershoot`): `Calm`, in a batch without dependencies (`Flat`), without *crash*. With
    dependencies every goroutine of a completed job counts for itself, and with a restart between dispatch and save the
    run is not in the rows while others are counted.

  The hypotheses are those under which the statements are true: each fault left out has a history that breaks them.
  The invariant of `TriggersOnce` is about who *holds* a job, that is, may still release or queue it: one thread at
  most, and only while the job has no run (`HoldInv`). That rests on `FreshInv`: the children of a job are untouched until
  its one success is saved and its goroutine looks them up, which happens once because the job was released
  once; the induction goes through the graph and through the runs together. `QueueInv` closes the circle for the
  cron task: a row says queued only of a job without a run, or for as long as the task is about to save it. `LimitInv`
  counts rows and threads together (`Occupied`).
* `ImpactedGraphProofs`: for every finite or infinite set of projects and order of the loops, with failing queries,
  and for every set of graphs, cyclic ones included,
  * `TypeCorrect`; `LinksSound` (`LinksAreDependencies`);
  * `VisitSafe` (`ParentsVisitedFirst`): the breadth-first visit never meets the nil pointer unless
    a query failed;
  * `NoSecondJob`: the first half of `OneJobEach`;

  and for graphs without cycles (`Acyclic`, which `graph.PreventCycles` sees to, `converters.go:384`),
  * `EachGetsItsJob` (`OneJobEach`) and `NoLinkIsLost` (`TreesAreKept`).

  The inductive invariant `Inv` carries what the recursion and the search rely on: a call in
  progress has no edge to its project yet and no second call for it, and hands on a vertex
  its project depends on; the edges so far form a forest; the queue holds each vertex once;
  rows belong to visited projects; and, unless a query failed, the predecessors of
  everything seen have a job. That a vertex has one predecessor at most is why the
  search order is safe, and why a vertex's single predecessor is found before it.
  Without cycles three more invariants hold. `Reach`: whatever set has the calls in progress and is closed
  under children has every impacted project that is not a vertex yet (with a cycle, no root leads into it). `Cover`: the
  neighbours of a visited vertex are visited, in the queue or about to be; at the end a vertex of lowest rank that was
  not visited would have a visited predecessor. `Kept`: the parent a call hands on is the one impacted project next above it.
* `ImpactDetectionProofs`: for every finite set of projects, set of graphs without cycles, configuration, request and order
  of the searches,
  * `DetectionTyped`; `SearchFinds` (`DependantsFound`); `CoveringIsTold` (`CoversTold`);
  * `BatchesAreSound`: `LinksAreDependencies`, `ParentsVisitedFirst`, `OneJobEach` and `TreesAreKept` hold of the batch, that
    is, of the composition `DetectionSpec`.

  `Composed` says that until the batch is started the graph is in an initial state of `ImpactedGraph`, and then in its
  invariants. `WalkInv` follows the searches: under way, what was met has its children in the queue or behind it, and what was
  found and is not behind was found from other roots (`Searching`); a search that is over has found all below its root or has met
  a project that is below another root too (`Searched`). Every project is below a root, and in a forest below one only, which
  makes the second case impossible there.

* `PullRequestEventsProofs`: for every finite set of projects, sequence of commits and choice of commands,
  and any number of webhooks, handlers, batches and reports, with all oddities,
  * `TypeCorrect`; `RowsAreComplete` (`RowsCover`); `ChecksAreTold` (`CheckTold`);
  * `MarksAreEarned` (`MarksEarned`), `MergesWait` (`MergedAllApplied`) and `AppliedIsMerged` (`AppliedMerges`).

  None of these is inductive. `KnownRows` carries from the handler to the batch which projects its commit
  has and which of them have rows: a handler past `CheckRows` has every project in the table or in `todo`.
  `Checks` follows a report from the count to the check run. The others rest on `Traces`: since a report may
  mark the row of any project, marks cannot be followed project by project, and the invariant says that *some*
  assignment of rows to reports accounts for all of them. Each step that reads, saves or overwrites a row
  extends or rearranges the assignment, and counting it (an injection, when no project is applied
  twice) gives what auto_merge relies on: as many applied rows as projects mean that each has been applied
  (`Merging`), and the report that counts last finds them all (`Comes`, with `RowsOnce`).
* `UnitHandlersProofs`: for any number of clients, lock IDs, uploads and versions, over S3 and in memory,
  with failing requests, failing queries and restarts,
  * `TypeCorrect`; `LockHeld` (`LockStands`); `RowIsTold` (`RowTellsLock`);
  * `NothingIsLost` (`HistoryKept`) and `UpdatesAreKept` (`NoLostUpdate`).

  The runs of this module and of `PullRequestEvents` stop histories at `Covered`; the theorems need no such constraint. The inductive invariants follow a call
  through its requests: `Alone` (calls that overlap are noted), `Stands` (the lock is free for the PUT
  that takes it, and is the ID for the DELETE that frees it), `RowTells` (the row is right, or a call is about to save
  it), `History` (a content about to be replaced has its version), `Once` (an ID is told to one client) and `Fresh` (what
  the holder has read is the content, and a call past the lock check still has the lock it
  names). The properties alone say nothing of a call between two requests.
* `TfeRunsProofs`: for any set of runs, number of apply requests and set of faults,
  * `TypeCorrect`; `AppliesArePlanned` (`PlanBeforeApply`); `TerraformRunsAlone` (`OneTerraform`);
  * `StatesAreNotLost` (`NoLostState`) and `ExecutorsCleanUp` (`NothingLeftBehind`).

  `Course` says what the rows of a run promise about its executors; `Owned` that an executor past `LockBlob`
  owns the lock, that only one does (although all applies of a run share one lock ID), and that what it has read is
  current or was replaced under its own lock; `Quiet`, for orderly histories, that every lock but a user's has an executor that will release it, and every
  unfinished run one that will end it.
* `CliJobsProofs`: for any pull requests, finite set of projects, order, workflow, storages, faults and number of jobs,
  * `TypeCorrect`; `OwnersExclude` (`OneOwner`); `PreviewsHold` (`PreviewFresh`);
  * `ViolationsAreTold` (`PolicyTold`) and `MergesFollowApplies` (`MergesApplied`).

  `Effect` sorts the steps of a job by what they do to others. `Owner`: a job at work has the lock or is `stray`. `Fresh`:
  since a preview only its own pull request or a stray job has changed the project, also while the
  plan is stored and not yet shown. `Told`: an apply the policy was not told of would find no plan with violations. `Applies`:
  `appliesPerProject` is true only of what was applied, and has a key for every project whose apply is
  behind it, which is why the merge needs all of them.

What the assumptions leave out is stated with the constants: projects are finitely many (rows and batches are
counted), the topological sort puts no two projects in one place, null values are none of the real ones.
Proving changed a few definitions: the guards of `UnitStore!FirstStep` overlapped in a CASE (a
choice TLC had always made one way), the executors of `TfeRuns` include every request up to
`MaxRequests`, `CliJobs` has the two loops of `RunJobs` where it had one list of
pairs, `ImpactDetection` says that projects are finitely many, and `PullRequestLock` says which rows
a deletion leaves by their positions (`RowsAt`) where it had `SelectSeq`, whose recursion no prover unfolds.

Only model-checked: everything temporal under fairness: `HangingLockYields`, `BatchCompletes`, `QueueDrains` (TLAPS has
no rule for weak fairness here).

## 5. Slips

Definitions that a comment calls a slip are not the code's. Each is a plausible
error (a dropped test, a stale copy, a wrong comparison) in the definition that
follows it, and is used by no specification; replacing that definition by its
slip must break the property that guards it. `PROJECT.json` ("mutants") pairs them.

## 6. Plan

1. (done) `PullRequestLock`, `JobScheduler` with `BatchOrder`, `ImpactedGraph`,
   with the theorems above.
2. (done) `ImpactDetection`, `PullRequestEvents`, `CliJobs`, `UnitStore` with `UnitHandlers`, `TfeRuns`.
3. (done) `PullRequestEventsProofs`, `UnitHandlersProofs`, `TfeRunsProofs`, `CliJobsProofs`.
4. (done) `ImpactDetectionProofs`; `TriggersOnce`, `EndedRowsPutBack`, `OvershootBounded`; `EachGetsItsJob`, `NoLinkIsLost`;
   `TableKeepsGrants`.
5. An abstract specification of the locks (who was told what, and what takes it back) that `PullRequestLock` implements;
   `JobScheduler` with several parents per job and overlapping cron firings: how often a job may then be released.

## 7. What is not modelled, and why

* Parsing and generation of `digger.yml`, comments, summaries, other VCS and CI
  adapters, evaluation of policies, UI, dgctl, ee: I/O, wording, or functions of
  data from outside. The CLI's entry points for other CI systems call the same `RunJobs`.
* The run queue (`backend/tasks/runs.go`): `CreateDiggerRun` and
  `CreateDiggerRunQueueItem` are called by tests only, and nothing sets a run to Approved, so
  in the program as it is no run is ever queued.
* Statesman's dependency graph: `UpdateGraphOnWrite` is switched off in the unit handler (`unit/handler.go:632`), and it is
  not settled by the code whether the two other callers ever find its graph.
* RBAC and tokens: single queries. `InitializeRBAC` (`rbac.go:175`) creates permission, role and assignment
  one after the other and is not repeated from the middle; assignments are read and then written.
* Drift and the projects refresh service: one pass over the projects with little that interleaves.
* In the modelled components: creation of the lock tables, choice of the store from the
  environment, `NoOpLock`, job tokens, job summaries, push and installation events, signed URLs and the TFE settings of
  a unit's row, run logs. `PROJECT.json` ("components") lists each part.
