-------------------------- MODULE PullRequestEvents --------------------------
(***************************************************************************)
(* From a webhook to the merge: the handlers of pull request events, of    *)
(* comments and of the "Apply all" button (backend/controllers), the       *)
(* impacted_projects rows they write, the reports that mark those rows,    *)
(* the check run of a batch, and auto_merge.                               *)
(*                                                                         *)
(* One pull request of one repository.  A task is one webhook: github.go   *)
(* starts a goroutine for each, so tasks interleave between the calls they *)
(* make to GitHub and to the database.  The PR locks that a task takes are *)
(* those of PullRequestLock, the order of a batch's jobs is JobScheduler's:*)
(* here a refused lock is one of the reasons to give up, and every job may *)
(* end.  auto_merge is on and the projects have one layer.                 *)
(***************************************************************************)
EXTENDS Naturals, Sequences, FiniteSets

CONSTANTS Projects,         \* projects of digger.yml
          ImpactedBy,       \* ImpactedBy[c]: projects that commit c impacts
          CommentCommands,  \* commands that users write as comments
          Selections,       \* sets of projects they select with -p ({}: none)
          OnPushed, OnClosed, \* the workflow's on_pull_request_* commands
          AllowDraftPRs,    \* allow_draft_prs
          MaxImpacted,      \* DIGGER_MAX_IMPACTED_PROJECTS
          MaxTasks,         \* bound: webhooks
          MaxRows,          \* bound: impacted_projects rows
          MaxJobs,          \* bound: jobs
          MaxBusy,          \* bound: handlers at work at a time
          MaxOdd            \* bound: kinds of things that go wrong

Commits == 1..Len(ImpactedBy)
Commands == {"plan", "apply", "unlock", "noop"}

ASSUME ProjectsAssumption == IsFiniteSet(Projects)
ASSUME ImpactedByAssumption == ImpactedBy \in Seq(SUBSET Projects) \ {<<>>}
ASSUME CommandsAssumption ==
  CommentCommands \cup {OnPushed, OnClosed} \subseteq Commands
ASSUME SelectionsAssumption == Selections \subseteq SUBSET Projects
ASSUME DraftsAssumption == AllowDraftPRs \in BOOLEAN
ASSUME BoundsAssumption ==
  {MaxImpacted, MaxTasks, MaxRows, MaxJobs, MaxBusy, MaxOdd} \subseteq Nat

VARIABLES
  pr,       \* at GitHub: the head commit, the state, whether it is a draft
  tasks,    \* one record per webhook: its payload and the handler's locals
  rows,     \* the impacted_projects table
  batches,  \* the digger_batches table, with the check run of each
  jobs,     \* jobs[b][p]: the job of batch b for project p, and its report
  merge,    \* what auto_merge did, if it merged
  odd       \* what has gone wrong so far, for the properties to excuse

vars == <<pr, tasks, rows, batches, jobs, merge, odd>>

Events == {"opened", "synchronize", "closed", "converted_to_draft",
           "comment", "button"}
Stages == {"none", "created", "failed", "read", "marked", "lost", "saved",
           "counted", "refreshed", "shown", "merging", "done"}
Oddities == {"moved", "partial", "double row", "twice", "clash", "unmarked",
             "failed", "overlap", "lost", "blind", "refused"}

Tasks == 1..Len(tasks)
Batches == 1..Len(batches)
RowIDs == 1..Len(rows)

NoMerge == [commit |-> 0, head |-> 0, missing |-> {}, excuses |-> {}]
NoJob == [at |-> "none", row |-> 0, planned |-> FALSE, applied |-> FALSE,
          succeeded |-> FALSE, shown |-> FALSE]

TypeOK ==
  /\ pr \in [head : Commits, state : {"open", "closed", "merged"},
             draft : BOOLEAN]
  /\ \A t \in Tasks :
       tasks[t] \in [event : Events, command : Commands, draft : BOOLEAN,
                     select : SUBSET Projects, commit : 0..Len(ImpactedBy),
                     pc : {"received", "configured", "detected", "recording",
                           "ended"},
                     impacted : SUBSET Projects, chosen : SUBSET Projects,
                     todo : SUBSET Projects]
  /\ rows \in Seq([commit : Commits, project : Projects,
                   planned : BOOLEAN, applied : BOOLEAN])
  /\ batches \in Seq([commit : Commits, type : {"plan", "apply"},
                      projects : SUBSET Projects, covers : BOOLEAN,
                      succeeded : BOOLEAN,
                      check : {"in_progress", "success"}])
  /\ Len(jobs) = Len(batches)
  /\ \A b \in Batches :
       jobs[b] \in [Projects -> [at : Stages, row : 0..Len(rows),
                                 planned : BOOLEAN, applied : BOOLEAN,
                                 succeeded : BOOLEAN, shown : BOOLEAN]]
  /\ merge.commit \in 0..Len(ImpactedBy)
  /\ merge.missing \subseteq Projects
  /\ odd \cup merge.excuses \subseteq Oddities

-----------------------------------------------------------------------------
(* The bounds.                                                             *)

\* A report is told by its batch and its project.
Started == {x \in Batches \X Projects : x[2] \in batches[x[1]].projects}
Handling == {t \in Tasks : tasks[t].pc \notin {"received", "ended"}}
Reporting == {x \in Started :
                jobs[x[1]][x[2]].at \notin {"created", "failed", "lost", "done"}}

MayStart == Cardinality(Handling) + Cardinality(Reporting) < MaxBusy
MayGoWrong == Cardinality(odd) < MaxOdd

-----------------------------------------------------------------------------
(* Webhooks.                                                               *)

\* The event and what its payload says.  The pull request events carry a
\* commit, a comment does not, and the button names a batch and so a commit.
Task(event, command, select, commit) ==
  [event |-> event, command |-> command, draft |-> pr.draft,
   select |-> select, commit |-> commit, pc |-> "received",
   impacted |-> {}, chosen |-> {}, todo |-> {}]

Init ==
  /\ pr = [head |-> 1, state |-> "open", draft |-> FALSE]
  /\ tasks = <<Task("opened", OnPushed, {}, 1)>>
  /\ rows = <<>>
  /\ batches = <<>>
  /\ jobs = <<>>
  /\ merge = NoMerge
  /\ odd = {}

Deliver(task) ==
  /\ Len(tasks) < MaxTasks
  /\ tasks' = Append(tasks, task)

\* A new commit on the branch.
Push ==
  /\ pr.state = "open" /\ pr.head < Len(ImpactedBy)
  /\ pr' = [pr EXCEPT !.head = @ + 1]
  /\ Deliver(Task("synchronize", OnPushed, {}, pr.head + 1))
  /\ UNCHANGED <<rows, batches, jobs, merge, odd>>

\* "digger <command>", with "-p" for the projects selected, if any.
Comment ==
  /\ pr.state = "open"
  /\ \E command \in CommentCommands, select \in Selections :
       Deliver(Task("comment", command, select, 0))
  /\ UNCHANGED <<pr, rows, batches, jobs, merge, odd>>

\* "Apply all" is offered on the check of a batch that has succeeded and on
\* that of each of its jobs that has.
Click ==
  /\ \E b \in Batches :
       /\ \E p \in Projects : jobs[b][p].at \in {"shown", "merging", "done"}
       /\ Deliver(Task("button", "apply", batches[b].projects,
                       batches[b].commit))
  /\ UNCHANGED <<pr, rows, batches, jobs, merge, odd>>

Close ==
  /\ pr.state = "open"
  /\ pr' = [pr EXCEPT !.state = "closed"]
  /\ Deliver(Task("closed", OnClosed, {}, pr.head))
  /\ UNCHANGED <<rows, batches, jobs, merge, odd>>

ConvertToDraft ==
  /\ pr.state = "open" /\ ~pr.draft
  /\ pr' = [pr EXCEPT !.draft = TRUE]
  /\ Deliver([Task("converted_to_draft",
                   IF AllowDraftPRs THEN "noop" ELSE "unlock", {}, pr.head)
              EXCEPT !.draft = TRUE])
  /\ UNCHANGED <<rows, batches, jobs, merge, odd>>

-----------------------------------------------------------------------------
(* The handlers.                                                           *)

\* The handler returns; its payload and locals are gone.
End(t) ==
  tasks' = [tasks EXCEPT ![t] = [@ EXCEPT !.pc = "ended", !.event = "opened",
              !.command = "noop", !.draft = FALSE, !.select = {}, !.commit = 0,
              !.impacted = {}, !.chosen = {}, !.todo = {}]]

RowsOf(c) == {i \in RowIDs : rows[i].commit = c}
Recorded(c) == {rows[i].project : i \in RowsOf(c)}

\* A slip: the commit of a comment is not looked up.
ReadConfigOnly(t) ==
  /\ tasks[t].pc = "received" /\ tasks[t].event # "button" /\ MayStart
  /\ tasks' = [tasks EXCEPT ![t].pc = "configured"]
  /\ UNCHANGED <<pr, rows, batches, jobs, merge, odd>>

\* getDiggerConfigForPR: the configuration of the current head, which is
\* also the commit that a comment is about.
ReadConfig(t) ==
  /\ tasks[t].pc = "received" /\ tasks[t].event # "button" /\ MayStart
  /\ tasks' = [tasks EXCEPT ![t].pc = "configured",
                            ![t].commit = IF tasks[t].event = "comment"
                                          THEN pr.head ELSE @]
  /\ UNCHANGED <<pr, rows, batches, jobs, merge, odd>>

\* The projects impacted by the files that GitHub now says have changed.  A
\* comment is refused when it selects a project that is not one of them; a
\* pull request event without impacted projects ends with successful checks.
Detect(t) ==
  LET impacted == ImpactedBy[pr.head]
      refused == IF tasks[t].event = "comment"
                 THEN ~(tasks[t].select \subseteq impacted)
                 ELSE impacted = {}
      chosen == IF tasks[t].select = {} THEN impacted ELSE tasks[t].select
  IN /\ tasks[t].pc = "configured"
     /\ IF refused THEN End(t)
        ELSE tasks' = [tasks EXCEPT ![t].pc = "detected",
                                    ![t].impacted = impacted,
                                    ![t].chosen = chosen]
     /\ odd' = IF refused \/ pr.head = tasks[t].commit
               THEN odd ELSE odd \cup {"moved"}
     /\ UNCHANGED <<pr, rows, batches, jobs, merge>>

\* A slip: the rows of other commits count as well.
CheckRowsOfAny(t) ==
  LET found == {rows[i].project : i \in RowIDs}
  IN /\ tasks[t].pc = "detected"
     /\ tasks' = [tasks EXCEPT ![t].pc = "recording",
                               ![t].todo = IF found = {}
                                           THEN tasks[t].impacted ELSE {}]
     /\ odd' = IF found = {} \/ tasks[t].impacted \subseteq found
               THEN odd ELSE odd \cup {"partial"}
     /\ UNCHANGED <<pr, rows, batches, jobs, merge>>

\* The rows are written when there are none for the commit; a query that
\* fails answers the same.
CheckRows(t) ==
  /\ tasks[t].pc = "detected"
  /\ \E found \in {Recorded(tasks[t].commit), {}} :
       /\ tasks' = [tasks EXCEPT ![t].pc = "recording",
                                 ![t].todo = IF found = {}
                                             THEN tasks[t].impacted ELSE {}]
       /\ odd' = IF found = {} \/ tasks[t].impacted \subseteq found
                 THEN odd ELSE odd \cup {"partial"}
  /\ UNCHANGED <<pr, rows, batches, jobs, merge>>

CreateImpactedProject(t) ==
  /\ tasks[t].pc = "recording" /\ Len(rows) < MaxRows
  /\ \E p \in tasks[t].todo :
       /\ rows' = Append(rows, [commit |-> tasks[t].commit, project |-> p,
                                planned |-> FALSE, applied |-> FALSE])
       /\ tasks' = [tasks EXCEPT ![t].todo = @ \ {p}]
       /\ odd' = IF p \in Recorded(tasks[t].commit)
                 THEN odd \cup {"double row"} ELSE odd
  /\ UNCHANGED <<pr, batches, jobs, merge>>

\* A database or GitHub call fails, a project is locked by another pull
\* request, or the apply requirements are not met.
GiveUp(t) ==
  /\ tasks[t].pc # "ended"
  /\ End(t)
  /\ UNCHANGED <<pr, rows, batches, jobs, merge, odd>>

\* Both handlers write the rows before they look at the limit, at the draft
\* flag of the payload and at the command.
Runs(t) ==
  /\ tasks[t].chosen # {}
  /\ Cardinality(tasks[t].chosen) <= MaxImpacted
  /\ AllowDraftPRs \/ ~tasks[t].draft
  /\ tasks[t].command \in {"plan", "apply"}

Stop(t) ==
  /\ tasks[t].pc = "recording" /\ tasks[t].todo = {} /\ ~Runs(t)
  /\ End(t)
  /\ UNCHANGED <<pr, rows, batches, jobs, merge, odd>>

\* SetPRCheckForJobs creates the check run, ConvertJobsToDiggerJobs the batch
\* and its jobs, which TriggerDiggerJobs starts.
CreateBatch(t, projects, covers) ==
  /\ Cardinality(Started) + Cardinality(projects) <= MaxJobs
  /\ batches' = Append(batches,
       [commit |-> tasks[t].commit, type |-> tasks[t].command,
        projects |-> projects, covers |-> covers, succeeded |-> FALSE,
        check |-> "in_progress"])
  /\ jobs' = Append(jobs, [p \in Projects |->
       IF p \in projects THEN [NoJob EXCEPT !.at = "created"] ELSE NoJob])
  /\ End(t)
  /\ UNCHANGED <<pr, rows, merge, odd>>

Trigger(t) ==
  /\ tasks[t].pc = "recording" /\ tasks[t].todo = {} /\ Runs(t)
  /\ CreateBatch(t, tasks[t].chosen,
                 Cardinality(tasks[t].chosen) = Cardinality(tasks[t].impacted))

\* The button: the projects of the batch at its commit, without the limit,
\* the draft flag, the locks or the apply requirements.
ApplyAll(t) ==
  /\ tasks[t].pc = "received" /\ tasks[t].event = "button"
  /\ CreateBatch(t, tasks[t].select, FALSE)

-----------------------------------------------------------------------------
(* SetJobStatusForProject, one step per query, for a job that succeeds.    *)

Stage(b, p, at) == jobs' = [jobs EXCEPT ![b][p].at = at]
JobsOf(b) == batches[b].projects
Ended(b, p) == jobs[b][p].at \in {"saved", "counted", "refreshed", "shown",
                                  "merging", "done"}

\* The projects applied at commit c: their jobs have come to report it.
AppliedAt(c) ==
  {p \in Projects : \E b \in Batches :
     /\ batches[b].commit = c /\ batches[b].type = "apply"
     /\ jobs[b][p].at \notin {"none", "created", "failed"}}

JobFails(b, p) ==
  /\ jobs[b][p].at = "created" /\ MayGoWrong
  /\ Stage(b, p, "failed")
  /\ odd' = odd \cup {"failed"}
  /\ UNCHANGED <<pr, tasks, rows, batches, merge>>

\* GetImpactedProjectSingle has the project's name as a parameter and does not
\* use it: it answers any row of the commit.
SingleRow(c, p) == RowsOf(c)

ReadRow(b, p) ==
  /\ jobs[b][p].at = "created" /\ MayStart
  /\ \E i \in SingleRow(batches[b].commit, p) :
       jobs' = [jobs EXCEPT ![b][p] = [@ EXCEPT !.at = "read", !.row = i,
                  !.planned = rows[i].planned \/ batches[b].type = "plan",
                  !.applied = rows[i].applied \/ batches[b].type = "apply"]]
  /\ odd' = IF batches[b].type = "apply" /\ p \in AppliedAt(batches[b].commit)
            THEN odd \cup {"twice"} ELSE odd
  /\ UNCHANGED <<pr, tasks, rows, batches, merge>>

\* The query of the row fails: a warning, and the report goes on without it.
MissRow(b, p) ==
  /\ jobs[b][p].at = "created" /\ MayStart /\ MayGoWrong
  /\ Stage(b, p, "marked")
  /\ odd' = odd \cup {"lost"}
  /\ UNCHANGED <<pr, tasks, rows, batches, merge>>

\* A slip: every row of the commit is marked.
SaveRows(b, p) ==
  LET job == jobs[b][p]
  IN /\ job.at = "read"
     /\ rows' = [i \in RowIDs |->
                   IF i \notin RowsOf(batches[b].commit) THEN rows[i]
                   ELSE [rows[i] EXCEPT !.planned = job.planned,
                                        !.applied = job.applied]]
     /\ jobs' = [jobs EXCEPT ![b][p] = [NoJob EXCEPT !.at = "marked"]]
     /\ UNCHANGED <<pr, tasks, batches, merge, odd>>

\* The whole row is saved as it was read, with the one mark added.
SaveRow(b, p) ==
  LET job == jobs[b][p]
      row == rows[job.row]
  IN /\ job.at = "read"
     /\ rows' = [rows EXCEPT ![job.row].planned = job.planned,
                             ![job.row].applied = job.applied]
     /\ odd' = odd
          \cup (IF row.applied /\ batches[b].type = "apply"
                THEN {"clash"} ELSE {})
          \cup (IF row.applied /\ ~job.applied THEN {"unmarked"} ELSE {})
     /\ jobs' = [jobs EXCEPT ![b][p] = [NoJob EXCEPT !.at = "marked"]]
     /\ UNCHANGED <<pr, tasks, batches, merge>>

SaveJob(b, p) ==
  /\ jobs[b][p].at = "marked"
  /\ Stage(b, p, "saved")
  /\ UNCHANGED <<pr, tasks, rows, batches, merge, odd>>

\* UpdateBatchStatus works on the copy of the batch that the report has read
\* and saves it when every job has succeeded.
UpdateBatchStatus(b, p) ==
  LET all == \A q \in JobsOf(b) : Ended(b, q)
  IN /\ jobs[b][p].at = "saved"
     /\ jobs' = [jobs EXCEPT ![b][p].at = "counted", ![b][p].succeeded = all]
     /\ batches' = [batches EXCEPT ![b].succeeded = @ \/ all]
     /\ odd' = IF all /\ \E q \in JobsOf(b) : jobs[b][q].at = "refreshed"
               THEN odd \cup {"overlap"} ELSE odd
     /\ UNCHANGED <<pr, tasks, rows, merge>>

\* A slip: the batch is not read again.
KeepBatch(b, p) ==
  /\ jobs[b][p].at = "counted"
  /\ jobs' = [jobs EXCEPT ![b][p].at = "refreshed",
                          ![b][p].shown = jobs[b][p].succeeded]
  /\ UNCHANGED <<pr, tasks, rows, batches, merge, odd>>

\* GetDiggerBatch reads the batch again, and UpdateCheckRunForBatch shows what
\* it has read.
RefreshBatch(b, p) ==
  /\ jobs[b][p].at = "counted"
  /\ jobs' = [jobs EXCEPT ![b][p].at = "refreshed",
                          ![b][p].shown = batches[b].succeeded]
  /\ UNCHANGED <<pr, tasks, rows, batches, merge, odd>>

UpdateCheckRun(b, p) ==
  /\ jobs[b][p].at = "refreshed"
  /\ batches' = [batches EXCEPT ![b].check =
                    IF jobs[b][p].shown THEN "success" ELSE "in_progress"]
  /\ jobs' = [jobs EXCEPT ![b][p].at = "shown", ![b][p].shown = FALSE]
  /\ UNCHANGED <<pr, tasks, rows, merge, odd>>

\* A save of the succeeded batch that fails, and an update of the check run that
\* GitHub does not take, are only logged: the report goes on with its copy.
WriteLost(b, p) ==
  /\ MayGoWrong
  /\ \/ /\ jobs[b][p].at = "saved" /\ \A q \in JobsOf(b) : Ended(b, q)
        /\ jobs' = [jobs EXCEPT ![b][p].at = "counted", ![b][p].succeeded = TRUE]
     \/ /\ jobs[b][p].at = "refreshed"
        /\ jobs' = [jobs EXCEPT ![b][p].at = "shown", ![b][p].shown = FALSE]
  /\ odd' = odd \cup {"lost"}
  /\ UNCHANGED <<pr, tasks, rows, batches, merge>>

\* Two slips: one applied row is enough; the rows of other commits count.
AnyImpactedProjectApplied(c) == \E i \in RowsOf(c) : rows[i].applied
EveryRowApplied(c) == \A i \in RowIDs : rows[i].applied

AllImpactedProjectApplied(c) == \A i \in RowsOf(c) : rows[i].applied

\* AutomergePRforBatchIfEnabled, of a batch as this report has counted it.
Automerges(b, p, all) ==
  Stage(b, p, IF jobs[b][p].succeeded /\ batches[b].type = "apply" /\ all
              THEN "merging" ELSE "done")

Automerge(b, p) ==
  /\ jobs[b][p].at = "shown"
  /\ RowsOf(batches[b].commit) # {}
  /\ Automerges(b, p, AllImpactedProjectApplied(batches[b].commit))
  /\ UNCHANGED <<pr, tasks, rows, batches, merge, odd>>

\* Without an answer about the rows, the batch tells whether it covers all.
AutomergeByBatch(b, p) ==
  /\ jobs[b][p].at = "shown" /\ MayGoWrong
  /\ Automerges(b, p, batches[b].covers)
  /\ odd' = odd \cup {"blind"}
  /\ UNCHANGED <<pr, tasks, rows, batches, merge>>

\* MergePullRequest merges the head of the pull request, whichever commit the
\* batch is about.
MergePullRequest(b, p) ==
  /\ jobs[b][p].at = "merging" /\ pr.state = "open" /\ ~pr.draft
  /\ pr' = [pr EXCEPT !.state = "merged"]
  /\ merge' = [commit |-> batches[b].commit, head |-> pr.head,
               missing |-> ImpactedBy[batches[b].commit]
                             \ AppliedAt(batches[b].commit),
               excuses |-> odd]
  /\ Stage(b, p, "done")
  /\ UNCHANGED <<tasks, rows, batches, odd>>

\* GitHub refuses: the pull request is closed or a draft, or a check or a
\* review that the branch requires is missing.  A comment says so and nothing
\* tries again.
MergeRefused(b, p) ==
  /\ jobs[b][p].at = "merging" /\ MayGoWrong
  /\ Stage(b, p, "done")
  /\ odd' = odd \cup {"refused"}
  /\ UNCHANGED <<pr, tasks, rows, batches, merge>>

\* A call fails and the handler answers 500, or the server restarts.
ReportFails(b, p) ==
  /\ jobs[b][p].at \in {"read", "marked", "saved", "counted", "refreshed",
                        "shown"}
  /\ MayGoWrong
  /\ Stage(b, p, IF jobs[b][p].at \in {"read", "marked"} THEN "lost" ELSE "done")
  /\ odd' = odd \cup {"lost"}
  /\ UNCHANGED <<pr, tasks, rows, batches, merge>>

-----------------------------------------------------------------------------
Handle(t) ==
  \/ ReadConfig(t) \/ Detect(t) \/ CheckRows(t) \/ CreateImpactedProject(t)
  \/ GiveUp(t) \/ Stop(t) \/ Trigger(t) \/ ApplyAll(t)

Report(b, p) ==
  \/ ReadRow(b, p) \/ SaveRow(b, p) \/ SaveJob(b, p) \/ UpdateBatchStatus(b, p)
  \/ RefreshBatch(b, p) \/ UpdateCheckRun(b, p) \/ Automerge(b, p)
  \/ MergePullRequest(b, p) \/ MergeRefused(b, p)

Next ==
  \/ Push \/ Comment \/ Click \/ Close \/ ConvertToDraft
  \/ \E t \in Tasks : Handle(t)
  \/ \E b \in Batches : \E p \in JobsOf(b) :
       \/ Report(b, p) \/ JobFails(b, p) \/ ReportFails(b, p)
       \/ MissRow(b, p) \/ WriteLost(b, p) \/ AutomergeByBatch(b, p)

Spec == Init /\ [][Next]_vars

-----------------------------------------------------------------------------
(* Properties.                                                             *)

\* When auto_merge merges after an apply at commit c, every project that c
\* impacts has been applied, unless some project has been applied twice, so
\* that its reports marked rows of others; a handler worked with a head newer
\* than its commit; or it found rows for some of its projects only.
MergedAllApplied ==
  merge.missing # {} => merge.excuses \cap {"twice", "moved", "partial"} # {}

\* The rows of a commit do not claim more than has happened: there are at most
\* as many applied ones as jobs have reported an apply, and planned ones as
\* jobs have reported a plan, whichever reports overwrite each other.
Reports(c, type) ==
  {x \in Batches \X Projects :
     /\ batches[x[1]].commit = c /\ batches[x[1]].type = type
     /\ jobs[x[1]][x[2]].at \notin {"none", "created", "failed"}}

MarksEarned ==
  \A c \in Commits :
    /\ Cardinality({i \in RowsOf(c) : rows[i].applied})
         <= Cardinality(Reports(c, "apply"))
    /\ Cardinality({i \in RowsOf(c) : rows[i].planned})
         <= Cardinality(Reports(c, "plan"))

\* Every project that a batch runs has a row at the batch's commit, so that
\* auto_merge waits for it, however many handlers write the rows at once, with
\* the same exceptions.
RowsCover ==
  \A b \in Batches :
    \/ JobsOf(b) \subseteq Recorded(batches[b].commit)
    \/ odd \cap {"moved", "partial"} # {}

\* Once every report of a batch that succeeds is through, its check run tells
\* so, unless one report had read the batch before another completed it.
CheckTold ==
  \A b \in Batches :
    (\A p \in JobsOf(b) : jobs[b][p].at \in {"shown", "merging", "done"})
      => batches[b].check = "success" \/ odd \cap {"overlap", "lost"} # {}

\* When every job has ended and every report is through, a pull request whose
\* projects have all been applied at its head is no longer open, unless
\* something has gone wrong on the way.
Quiet == \A b \in Batches : \A p \in JobsOf(b) : jobs[b][p].at = "done"

AppliedMerges ==
  Quiet /\ odd = {} /\ ImpactedBy[pr.head] # {}
    /\ ImpactedBy[pr.head] \subseteq AppliedAt(pr.head)
    => pr.state # "open" \/ pr.draft
==============================================================================
