------------------------------- MODULE CliJobs -------------------------------
(***************************************************************************)
(* The digger CLI in a CI job without the orchestrator: GitHubCI turns an  *)
(* event of a pull request into commands for the projects it touches,      *)
(* RunJobs runs them one after the other under the lock of the project,    *)
(* and the job reports a commit status and may merge the pull request.     *)
(* Several jobs, of one pull request or of several, run at a time; what    *)
(* they share is the locks, the stored plans, the infrastructure and the   *)
(* pull requests.  The lock is one record per project, read and then       *)
(* written conditionally; PullRequestLock has what the providers make of   *)
(* it.                                                                     *)
(***************************************************************************)
EXTENDS Integers, Sequences, FiniteSets

CONSTANTS PRs, Impacts,      \* what projects the pull requests may touch
          Projects, Order,   \* their places in the order by dependency
          OnPush,            \* on_pull_request_pushed of the workflow
          SkipMergeCheck,    \* projects whose workflow has skip_merge_check
          Storages,          \* kinds of plan storage, one in a history
          Faults,            \* what may go wrong, one kind in a history
          Slots,             \* bound: jobs that run at a time
          MaxJobs,           \* bound: jobs started
          MaxTasks,          \* bound: commands for projects in all of them
          MaxPushes,         \* bound: commits of a pull request
          NoPR, NoPlan, NoJob

ASSUME ProjectsAssumption ==
  /\ IsFiniteSet(Projects) /\ Order \in [Projects -> Nat]
  /\ \A p, q \in Projects : Order[p] = Order[q] => p = q
  /\ Impacts \subseteq [PRs -> SUBSET Projects]
ASSUME SettingAssumption ==
  /\ Storages \subseteq {"none", "bucket", "github"}
  /\ Faults \subseteq {"policy", "terraform", "storage"}
  /\ OnPush \in Seq({"plan", "apply"}) /\ OnPush # <<>>
  /\ SkipMergeCheck \subseteq Projects
ASSUME BoundsAssumption == MaxJobs \in Nat /\ MaxTasks \in Nat /\ MaxPushes \in Nat \ {0}
ASSUME NullsAssumption == NoPR \notin PRs

Commands == {"plan", "apply", "unlock", "lock"}
Commits == 1..MaxPushes

\* A plan knows the commit it was made of, the state of the project it starts
\* from, and whether the plan policy allows it.
Plans == [at : Commits, base : Nat, ok : BOOLEAN]

\* A change terraform made to a project; at = 0 when it failed half way.
Changes == [pr : PRs, at : 0..MaxPushes, stray : BOOLEAN]

PCs == {"next", "check", "lock", "put", "tfplan", "store", "show", "retrieve", "tfapply",
        "unlock", "delete", "merge", "merging", "status"}

JobRecords ==
  [pr : PRs, at : Commits, pc : PCs, plan : Plans \cup {NoPlan},
   todo : SUBSET Projects,      \* jobs of RunJobs that are not done
   cmds : Seq(Commands) \ {<<>>}, \* the commands of each
   left : Seq(Commands) \ {<<>>}, \* those the current job has left
   tried : SUBSET Projects,     \* the keys of appliesPerProject
   good : SUBSET Projects,      \* those with value true
   covers : BOOLEAN,            \* coversAllImpactedProjects
   known : BOOLEAN,             \* the access policy was told of violations of the plan
   moved : BOOLEAN,             \* history: the plan was stored again since
   stray : BOOLEAN]             \* history: the lock was taken away since it was granted

VARIABLES storage, fault, impacted,  \* the setting of this history
          state, head, status,  \* pull requests; commit statuses of their heads
          lock, stored, latest, \* latest: whose artifact named after the project is newest
          infra,                \* the changes made to a project
          guarded,              \* history: the state of the project the preview of the holder
                                \* of its lock was made from, -1 when it has none
          job, started

setting == <<storage, fault, impacted>>
requests == <<state, head, status>>
stores == <<stored, latest>>
vars == <<setting, requests, lock, stores, infra, guarded, job, started>>

TypeOK ==
  /\ storage \in Storages /\ fault \in Faults /\ impacted \in Impacts
  /\ state \in [PRs -> {"open", "closed", "merged"}]
  /\ head \in [PRs -> Commits]
  /\ status \in [PRs -> [plan : {"none", "success", "failure"}, apply : {"none", "success", "failure"}]]
  /\ lock \in [Projects -> PRs \cup {NoPR}]
  /\ stored \in [PRs -> [Projects -> Plans \cup {NoPlan}]]
  /\ latest \in [Projects -> PRs \cup {NoPR}]
  /\ infra \in [Projects -> Seq(Changes)]
  /\ guarded \in [Projects -> Nat \cup {-1}]
  /\ job \in [Slots -> JobRecords \cup {NoJob}]
  /\ started \in [jobs : 0..MaxJobs, tasks : 0..MaxTasks]

NoStatus == [plan |-> "none", apply |-> "none"]

\* The pull requests were opened before digger was set up.
Init ==
  /\ storage \in Storages /\ fault \in Faults /\ (storage = "none" => fault # "storage")
  /\ impacted \in Impacts
  /\ state = [r \in PRs |-> "open"] /\ head = [r \in PRs |-> 1]
  /\ status = [r \in PRs |-> NoStatus]
  /\ lock = [p \in Projects |-> NoPR]
  /\ stored = [r \in PRs |-> [p \in Projects |-> NoPlan]]
  /\ latest = [p \in Projects |-> NoPR]
  /\ infra = [p \in Projects |-> <<>>] /\ guarded = [p \in Projects |-> -1]
  /\ job = [j \in Slots |-> NoJob] /\ started = [jobs |-> 0, tasks |-> 0]

-----------------------------------------------------------------------------
(* Events of pull requests                                                 *)

\* SortedCommandsByDependency: which of the projects is next.
First(ps) == CHOOSE p \in ps : \A q \in ps : Order[p] <= Order[q]

\* GitHubCI: a job for the event, on the commit that is the head now.
StartJob(j, r, at, ps, cmds) ==
  /\ job[j] = NoJob /\ ps # {}
  /\ started' = [jobs |-> started.jobs + 1, tasks |-> started.tasks + Cardinality(ps) * Len(cmds)]
  /\ started'.jobs <= MaxJobs /\ started'.tasks <= MaxTasks
  /\ job' = [job EXCEPT ![j] =
       [pr |-> r, at |-> at, pc |-> "next", plan |-> NoPlan,
        todo |-> ps, cmds |-> cmds, left |-> cmds,
        tried |-> {}, good |-> {}, covers |-> ps = impacted[r],
        known |-> FALSE, moved |-> FALSE, stray |-> FALSE]]

\* A commit is pushed to an open pull request.
Push(j, r) ==
  /\ state[r] = "open" /\ head[r] < MaxPushes
  /\ head' = [head EXCEPT ![r] = @ + 1] /\ status' = [status EXCEPT ![r] = NoStatus]
  /\ StartJob(j, r, head[r] + 1, impacted[r], OnPush)
  /\ UNCHANGED <<setting, state, lock, stores, infra, guarded>>

\* A closed pull request is reopened.
Reopen(j, r) ==
  /\ state[r] = "closed" /\ state' = [state EXCEPT ![r] = "open"]
  /\ StartJob(j, r, head[r], impacted[r], OnPush)
  /\ UNCHANGED <<setting, head, status, lock, stores, infra, guarded>>

\* A pull request is closed or merged: on_pull_request_closed, or
\* on_commit_to_default, both "digger unlock".
Close(j, r) ==
  /\ state[r] = "open"
  /\ \E s \in {"closed", "merged"} : state' = [state EXCEPT ![r] = s]
  /\ StartJob(j, r, head[r], impacted[r], <<"unlock">>)
  /\ UNCHANGED <<setting, head, status, lock, stores, infra, guarded>>

\* A comment "digger ...", for all projects or with -p for one.
Comment(j, r) ==
  /\ \E c \in Commands, ps \in {impacted[r]} \cup {{p} : p \in impacted[r]} :
       StartJob(j, r, head[r], ps, <<c>>)
  /\ UNCHANGED <<setting, requests, lock, stores, infra, guarded>>

-----------------------------------------------------------------------------
(* The loop of RunJobs                                                     *)

Running(j, l) == job[j] # NoJob /\ job[j].pc = l
Project(j) == First(job[j].todo)
Command(j) == Head(job[j].left)

\* The command is done, or the job is given up (the break of RunJobs), or RunJobs.
NextJob(j, rec) == [rec EXCEPT !.todo = @ \ {Project(j)}, !.left = job[j].cmds]
Done(j) ==
  LET rec == [job[j] EXCEPT !.pc = "next", !.plan = NoPlan, !.stray = FALSE,
                            !.known = FALSE, !.moved = FALSE]
  IN  IF Len(rec.left) = 1 THEN NextJob(j, rec) ELSE [rec EXCEPT !.left = Tail(@)]
Denied(j) == [Done(j) EXCEPT !.tried = @ \cup {Project(j)}, !.good = @ \ {Project(j)}]
Failed(j) == NextJob(j, Denied(j))
Aborted(j) == [Failed(j) EXCEPT !.todo = {}]
Goto(j, l) == [job[j] EXCEPT !.pc = l]
Becomes(j, rec) == job' = [job EXCEPT ![j] = rec]
Only(j, rec) == Becomes(j, rec) /\ UNCHANGED <<setting, requests, lock, stores, infra, guarded, started>>

\* The access policy is asked in RunJobs and again in run: a denial in the
\* first skips the command, an error there ends RunJobs, and either in the
\* second gives the project up.  A project that is to be applied counts as not
\* applied from here on.
NextCommand(j) ==
  /\ Running(j, "next") /\ job[j].todo # {}
  /\ \/ Only(j, CASE Command(j) = "apply" -> [Goto(j, "check") EXCEPT !.tried = @ \cup {Project(j)},
                                                                      !.good = @ \ {Project(j)}]
                  [] Command(j) = "unlock" -> Goto(j, "unlock")
                  [] OTHER -> Goto(j, "lock"))
     \/ /\ fault = "policy"
        /\ \E rec \in {Denied(j), Failed(j), Aborted(j)} : Only(j, rec)

-----------------------------------------------------------------------------
(* The lock of the project                                                 *)

\* Between the grant of the lock and the end of the command.
Working(k) == job[k] # NoJob /\ job[k].pc \in {"tfplan", "store", "show", "retrieve", "tfapply"}
WorksOn(k, p) == Working(k) /\ Project(k) = p

\* The record of the lock is deleted, whoever holds it; j's job becomes rec.
FreeLock(j, p, rec) ==
  /\ lock' = [lock EXCEPT ![p] = NoPR] /\ guarded' = [guarded EXCEPT ![p] = -1]
  /\ job' = [k \in Slots |-> IF k = j THEN rec
                             ELSE IF WorksOn(k, p) THEN [job[k] EXCEPT !.stray = TRUE]
                             ELSE job[k]]

Granted(j) ==
  CASE Command(j) = "plan" -> Goto(j, "tfplan")
    [] Command(j) = "apply" -> Goto(j, IF storage = "none" THEN "tfapply" ELSE "retrieve")
    [] OTHER -> Done(j)

\* A slip: the pull request in the lock is not compared.
LockOfAnyone(j) ==
  /\ Running(j, "lock")
  /\ Only(j, IF lock[Project(j)] = NoPR THEN Goto(j, "put") ELSE Granted(j))

\* PullRequestLock.Lock up to its call of InternalLock.Lock: the lock of a pull
\* request that is no longer open is freed, that of another ends the command.
Lock(j) ==
  /\ Running(j, "lock")
  /\ LET h == lock[Project(j)]
     IN  \/ h = job[j].pr /\ Only(j, Granted(j))
         \/ h = NoPR /\ Only(j, Goto(j, "put"))
         \/ /\ h \in PRs \ {job[j].pr} /\ state[h] \in {"closed", "merged"}
            /\ FreeLock(j, Project(j), job[j])
            /\ UNCHANGED <<setting, requests, stores, infra, started>>
         \/ h \in PRs \ {job[j].pr} /\ state[h] = "open" /\ Only(j, Failed(j))

\* A slip: the write is not conditional.
PutAnyway(j) ==
  /\ Running(j, "put")
  /\ lock' = [lock EXCEPT ![Project(j)] = job[j].pr] /\ Becomes(j, Granted(j))
  /\ UNCHANGED <<setting, requests, stores, infra, guarded, started>>

\* The conditional write.  Who loses it gets (false, nil): a plan or a lock
\* command counts as done, an apply dereferences the summary it did not get.
PutLock(j) ==
  /\ Running(j, "put")
  /\ \/ /\ lock[Project(j)] = NoPR
        /\ lock' = [lock EXCEPT ![Project(j)] = job[j].pr] /\ Becomes(j, Granted(j))
        /\ UNCHANGED <<setting, requests, stores, infra, guarded, started>>
     \/ /\ lock[Project(j)] # NoPR
        /\ Only(j, IF Command(j) = "apply" THEN NoJob ELSE Done(j))

\* "digger unlock": ForceUnlock, then the stored plan of the pull request goes.
Unlock(j) ==
  /\ Running(j, "unlock") /\ FreeLock(j, Project(j), Goto(j, "delete"))
  /\ UNCHANGED <<setting, requests, stores, infra, started>>

\* DeleteStoredPlan does nothing to artifacts, and its error is only logged.
DeletePlan(j) ==
  /\ Running(j, "delete") /\ Becomes(j, Done(j))
  /\ \/ storage = "bucket" /\ stored' = [stored EXCEPT ![job[j].pr][Project(j)] = NoPlan]
     \/ (storage # "bucket" \/ fault = "storage") /\ UNCHANGED stored
  /\ UNCHANGED <<setting, requests, lock, latest, infra, guarded, started>>

-----------------------------------------------------------------------------
(* "digger plan"                                                           *)

TerraformPlan(j) ==
  /\ Running(j, "tfplan")
  /\ \/ \E ok \in IF fault = "policy" THEN BOOLEAN ELSE {TRUE} :
          Only(j, [Goto(j, IF storage = "none" THEN "show" ELSE "store") EXCEPT
                     !.plan = [at |-> job[j].at, base |-> Len(infra[Project(j)]), ok |-> ok]])
     \/ fault = "terraform" /\ Only(j, Failed(j))

\* postProcessPlan stores the plan before the plan policy has seen it.
StorePlan(j) ==
  /\ Running(j, "store")
  /\ \/ /\ stored' = [stored EXCEPT ![job[j].pr][Project(j)] = job[j].plan]
        /\ latest' = [latest EXCEPT ![Project(j)] = job[j].pr]
        /\ job' = [k \in Slots |->
             IF k = j THEN Goto(j, "show")
             ELSE IF job[k] # NoJob /\ job[k].todo # {} /\ job[k].pr = job[j].pr /\ Project(k) = Project(j)
                     /\ job[k].pc \in {"lock", "put", "retrieve"}
               THEN [job[k] EXCEPT !.moved = Command(k) = "apply"]
             ELSE job[k]]
        /\ UNCHANGED <<setting, requests, lock, infra, guarded, started>>
     \/ fault = "storage" /\ Only(j, Failed(j))

\* The preview goes to the pull request, then the plan policy decides; a step
\* of the workflow after the plan that fails ends it before.
ShowPlan(j) ==
  /\ Running(j, "show")
  /\ \/ /\ Becomes(j, IF job[j].plan.ok THEN Done(j) ELSE Failed(j))
        /\ guarded' = IF job[j].stray THEN guarded
                      ELSE [guarded EXCEPT ![Project(j)] = job[j].plan.base]
        /\ UNCHANGED <<setting, requests, lock, stores, infra, started>>
     \/ fault = "terraform" /\ Only(j, Failed(j))

-----------------------------------------------------------------------------
(* "digger apply"                                                          *)

\* RetrievePlan: a bucket has a key per pull request; of artifacts the newest
\* of the project's name is taken, and when it is another pull request's no
\* file of it matches and the path is "", which terraform never sees.
HasPlan(j) == CASE storage = "bucket" -> stored[job[j].pr][Project(j)] # NoPlan
                [] storage = "github" -> latest[Project(j)] # NoPR
                [] OTHER -> FALSE
PlanOf(j) == IF storage = "bucket" \/ latest[Project(j)] = job[j].pr
             THEN stored[job[j].pr][Project(j)] ELSE NoPlan

\* Whether CheckPlanPolicy finds violations in the plan an apply would retrieve.
Violates(j) == storage # "none" /\ PlanOf(j) # NoPlan /\ ~PlanOf(j).ok

\* A slip: the access policy is asked with no violations, as in RunJobs.
CheckUntold(j) ==
  /\ Running(j, "check") /\ (storage # "none" => HasPlan(j))
  /\ Only(j, [Goto(j, "lock") EXCEPT !.known = FALSE, !.moved = FALSE])

\* Before the lock: the pull request must be merged or mergeable, unless the
\* workflow skips that check, a stored plan must be there, and the access policy
\* is asked again, with its violations; no access policy allows everything.
CheckApply(j) ==
  /\ Running(j, "check")
  /\ \/ /\ state[job[j].pr] \in {"open", "merged"} \/ Project(j) \in SkipMergeCheck
        /\ storage # "none" => HasPlan(j)
        /\ Only(j, [Goto(j, "lock") EXCEPT !.known = Violates(j), !.moved = FALSE])
     \/ /\ \/ state[job[j].pr] \in {"open", "closed"} /\ Project(j) \notin SkipMergeCheck
           \/ storage # "none" /\ ~HasPlan(j)
           \/ Violates(j) \/ fault \in {"policy", "storage"}
        /\ Only(j, Failed(j))

RetrievePlan(j) ==
  /\ Running(j, "retrieve")
  /\ \/ HasPlan(j) /\ Only(j, [Goto(j, "tfapply") EXCEPT !.plan = PlanOf(j)])
     \/ (~HasPlan(j) \/ fault = "storage") /\ Only(j, Failed(j))

Change(j, at) ==
  infra' = [infra EXCEPT ![Project(j)] = Append(@, [pr |-> job[j].pr, at |-> at, stray |-> job[j].stray])]

\* terraform refuses a plan that does not start from the state; without one it
\* applies the commit of the job.
TerraformApply(j) ==
  /\ Running(j, "tfapply")
  /\ LET plan == job[j].plan
         fits == plan # NoPlan => plan.base = Len(infra[Project(j)])
     IN  \/ /\ fits /\ Change(j, IF plan = NoPlan THEN job[j].at ELSE plan.at)
            /\ Becomes(j, [Done(j) EXCEPT !.good = @ \cup {Project(j)}])
            /\ UNCHANGED <<setting, requests, lock, stores, guarded, started>>
         \/ /\ fits /\ fault = "terraform" /\ Change(j, 0) /\ Becomes(j, Failed(j))
            /\ UNCHANGED <<setting, requests, lock, stores, guarded, started>>
         \/ (~fits \/ fault = "terraform") /\ Only(j, Failed(j))

-----------------------------------------------------------------------------
(* The end of the job                                                      *)

IsPlanJobs(j) == \E i \in DOMAIN job[j].cmds : job[j].cmds[i] = "plan"

\* The commit status goes to what is the head by then.
SetStatus(j, s) ==
  /\ status' = [status EXCEPT ![job[j].pr] = IF IsPlanJobs(j) THEN [@ EXCEPT !.plan = s]
                                             ELSE [@ EXCEPT !.apply = s]]
  /\ Becomes(j, NoJob)
  /\ UNCHANGED <<setting, state, head, lock, stores, infra, guarded, started>>

AllApplied(j) == job[j].tried \subseteq job[j].good

\* A slip: a comment for one project covers them all.
ReportPart(j) ==
  /\ Running(j, "next") /\ job[j].todo = {}
  /\ \/ ~AllApplied(j) /\ SetStatus(j, "failure")
     \/ AllApplied(j) /\ Only(j, Goto(j, IF job[j].tried # {} THEN "merge" ELSE "status"))

\* What RunJobs returns: with auto_merge set, a job that applied all the
\* projects of the pull request merges it.
Report(j) ==
  /\ Running(j, "next") /\ job[j].todo = {}
  /\ \/ ~AllApplied(j) /\ SetStatus(j, "failure")
     \/ /\ AllApplied(j)
        /\ Only(j, Goto(j, IF job[j].tried # {} /\ job[j].covers THEN "merge" ELSE "status"))

Combined(r) == IF "failure" \in {status[r].plan, status[r].apply} THEN "failure"
               ELSE IF "success" \in {status[r].plan, status[r].apply} THEN "success"
               ELSE "pending"

\* What MergePullRequest asks first: the pull request is merged already, or it
\* is mergeable with a combined status of success, or the job ends here with no
\* status set.
CheckMerge(j) ==
  /\ Running(j, "merge")
  /\ LET r == job[j].pr
     IN  \/ state[r] = "merged" /\ Only(j, Goto(j, "status"))
         \/ state[r] = "open" /\ Combined(r) = "success" /\ Only(j, Goto(j, "merging"))
         \/ state[r] # "merged" /\ Only(j, NoJob)

\* The merge itself, by the number of the pull request, whatever has come of it
\* since; that of one no longer open fails, and the job ends.
Merge(j) ==
  /\ Running(j, "merging")
  /\ \/ /\ state[job[j].pr] = "open" /\ state' = [state EXCEPT ![job[j].pr] = "merged"]
        /\ Becomes(j, Goto(j, "status"))
        /\ UNCHANGED <<setting, head, status, lock, stores, infra, guarded, started>>
     \/ Only(j, NoJob)

Succeed(j) == Running(j, "status") /\ SetStatus(j, "success")

Step(j) ==
  \/ NextCommand(j) \/ Lock(j) \/ PutLock(j) \/ Unlock(j) \/ DeletePlan(j)
  \/ TerraformPlan(j) \/ StorePlan(j) \/ ShowPlan(j)
  \/ CheckApply(j) \/ RetrievePlan(j) \/ TerraformApply(j)
  \/ Report(j) \/ CheckMerge(j) \/ Merge(j) \/ Succeed(j)

Event(j, r) == Push(j, r) \/ Reopen(j, r) \/ Close(j, r) \/ Comment(j, r)

Next == \E j \in Slots : Step(j) \/ \E r \in PRs : Event(j, r)

Spec == Init /\ [][Next]_vars

-----------------------------------------------------------------------------
(* Properties                                                              *)

\* Jobs of two pull requests never work on one project at a time (terraform
\* plans and applies of both between lock and end of the command), unless the
\* lock was taken away from under the first: the read and the conditional write
\* of Lock (locking.go:50), the takeover from closed pull requests, and "digger
\* unlock", which frees the lock of any holder.
OneOwner ==
  \A j, k \in Slots, p \in Projects :
    WorksOn(j, p) /\ WorksOn(k, p) /\ job[j].pr # job[k].pr => job[j].stray \/ job[k].stray

\* plan-preview.mdx:18: while a pull request keeps the lock it had when its plan
\* was made, no other changes what the preview was made from -- but jobs that had
\* lost their lock by then.
PreviewFresh ==
  \A p \in Projects : guarded[p] # -1 =>
    \A i \in guarded[p] + 1 .. Len(infra[p]) : infra[p][i].pr = lock[p] \/ infra[p][i].stray

\* plan-preview.mdx:16: digger merges a pull request on its own only when every
\* project it touches has been applied for it (github.go:360), over denials,
\* failures of one project of several, and comments for a single project.
MergesApplied ==
  [][\A r \in PRs : state[r] # "merged" /\ state'[r] = "merged" /\ started' = started =>
       \A p \in impacted[r] :
         \E i \in DOMAIN infra[p] : infra[p][i].pr = r /\ infra[p][i].at > 0]_vars

\* A stored plan with violations is applied only when the access policy was told
\* of them (digger.go:366-386), or another job of the pull request stored a plan
\* between that and the apply, which retrieves it again (execution.go:369).
PolicyTold ==
  [][\A j \in Slots :
       Running(j, "tfapply") /\ job[j].plan # NoPlan /\ job'[j] # job[j] /\ infra' # infra =>
         job[j].plan.ok \/ job[j].known \/ job[j].moved]_vars
=============================================================================
