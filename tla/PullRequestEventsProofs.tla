----------------------- MODULE PullRequestEventsProofs -----------------------
(***************************************************************************)
(* Theorems about PullRequestEvents, for any projects, commits and         *)
(* commands, any number of webhooks, rows and jobs, and whatever the       *)
(* bounds.                                                                 *)
(***************************************************************************)
EXTENDS PullRequestEvents, SequenceTheorems, FiniteSetTheorems, FunctionTheorems, TLAPS

-----------------------------------------------------------------------------
(* Types                                                                   *)

\* A handler's record.  The commit of a comment is not known before its
\* configuration is read; the button names the projects of a batch; only
\* comments and the button select projects; what a handler runs and still has
\* to record is impacted.
TaskType ==
  [event : Events, command : Commands, draft : BOOLEAN,
   select : SUBSET Projects, commit : 0..Len(ImpactedBy),
   pc : {"received", "configured", "detected", "recording", "ended"},
   impacted : SUBSET Projects, chosen : SUBSET Projects, todo : SUBSET Projects]

GoodTask(k) ==
  /\ k \in TaskType
  /\ k.pc # "ended" /\ (k.pc = "received" => k.event # "comment") => k.commit \in Commits
  /\ k.event = "button" => k.pc = "received" /\ k.command = "apply" /\ k.select # {}
  /\ k.pc \in {"received", "configured"} /\ k.event \notin {"comment", "button"} => k.select = {}
  /\ k.pc \in {"detected", "recording"} => k.chosen \subseteq k.impacted
  /\ k.todo \subseteq k.impacted /\ (k.pc # "recording" => k.todo = {})

RowType == [commit : Commits, project : Projects, planned : BOOLEAN, applied : BOOLEAN]

BatchType ==
  [commit : Commits, type : {"plan", "apply"}, projects : (SUBSET Projects) \ {{}},
   covers : BOOLEAN, succeeded : BOOLEAN, check : {"in_progress", "success"}]

JobType ==
  [at : Stages, row : Nat, planned : BOOLEAN, applied : BOOLEAN,
   succeeded : BOOLEAN, shown : BOOLEAN]

MergeType ==
  [commit : 0..Len(ImpactedBy), head : Nat, missing : SUBSET Projects,
   excuses : SUBSET Oddities]

\* The jobs of a batch are those of its projects, and a report that has read a
\* row has read one of the batch's commit.
Belong ==
  \A b \in Batches : \A p \in Projects :
    /\ jobs[b][p].at # "none" <=> p \in JobsOf(b)
    /\ jobs[b][p].row <= Len(rows)
    /\ jobs[b][p].at = "read" => jobs[b][p].row \in RowsOf(batches[b].commit)

Typed ==
  /\ pr \in [head : Commits, state : {"open", "closed", "merged"}, draft : BOOLEAN]
  /\ tasks \in Seq({k \in TaskType : GoodTask(k)})
  /\ rows \in Seq(RowType)
  /\ batches \in Seq(BatchType)
  /\ jobs \in Seq([Projects -> JobType]) /\ Len(jobs) = Len(batches)
  /\ merge \in MergeType
  /\ odd \in SUBSET Oddities
  /\ Belong

\* What the types say of the members of the tables.
LEMMA Members ==
  ASSUME Typed
  PROVE  /\ Len(tasks) \in Nat /\ Len(rows) \in Nat /\ Len(batches) \in Nat
         /\ \A t \in Tasks : tasks[t] \in TaskType /\ GoodTask(tasks[t])
         /\ \A i \in RowIDs : rows[i] \in RowType
         /\ \A b \in Batches : /\ batches[b] \in BatchType
                               /\ jobs[b] \in [Projects -> JobType]
                               /\ JobsOf(b) \subseteq Projects
         /\ DOMAIN rows = RowIDs /\ DOMAIN jobs = Batches
         /\ DOMAIN tasks = Tasks /\ DOMAIN batches = Batches
<1>1. /\ Len(tasks) \in Nat /\ Len(rows) \in Nat /\ Len(batches) \in Nat
      /\ DOMAIN rows = RowIDs /\ DOMAIN jobs = Batches
      /\ DOMAIN tasks = Tasks /\ DOMAIN batches = Batches
  BY LenProperties DEF Typed, Tasks, RowIDs, Batches
<1>2. \A t \in Tasks : tasks[t] \in {k \in TaskType : GoodTask(k)}
  BY ElementOfSeq DEF Typed, Tasks
<1>3. \A i \in RowIDs : rows[i] \in RowType
  BY ElementOfSeq DEF Typed, RowIDs
<1>4. ASSUME NEW b \in Batches
      PROVE  /\ batches[b] \in BatchType /\ jobs[b] \in [Projects -> JobType]
             /\ JobsOf(b) \subseteq Projects
  <2>1. batches[b] \in BatchType
    BY <1>4, ElementOfSeq DEF Typed, Batches
  <2>2. jobs[b] \in [Projects -> JobType]
    BY <1>4, ElementOfSeq DEF Typed, Batches
  <2>3. QED
    BY <2>1, <2>2 DEF BatchType, JobsOf
<1>5. QED
  BY <1>1, <1>2, <1>3, <1>4

\* Commits have sets of projects, finitely many.
LEMMA Impacted ==
  /\ Len(ImpactedBy) \in Nat \ {0} /\ 1 \in Commits /\ Commits \subseteq 0..Len(ImpactedBy)
  /\ \A c \in Commits : ImpactedBy[c] \subseteq Projects /\ IsFiniteSet(ImpactedBy[c])
<1>1. ImpactedBy \in Seq(SUBSET Projects) /\ ImpactedBy # <<>>
  BY ImpactedByAssumption
<1>2. Len(ImpactedBy) \in Nat \ {0}
  BY <1>1, EmptySeq
<1>3. \A c \in Commits : ImpactedBy[c] \in SUBSET Projects
  BY <1>1, ElementOfSeq DEF Commits
<1>4. QED
  BY <1>2, <1>3, ProjectsAssumption, FS_Subset DEF Commits

\* A step of the handler of t: its record changes, and no other.
LEMMA TaskStep ==
  ASSUME Typed, NEW t \in Tasks, NEW k \in TaskType, GoodTask(k),
         tasks' = [tasks EXCEPT ![t] = k]
  PROVE  /\ tasks' \in Seq({x \in TaskType : GoodTask(x)})
         /\ Tasks' = Tasks /\ tasks'[t] = k
         /\ \A u \in Tasks : u # t => tasks'[u] = tasks[u]
<1>1. k \in {x \in TaskType : GoodTask(x)} /\ t \in 1..Len(tasks)
  BY DEF Tasks
<1>2. QED
  BY <1>1, ExceptSeq DEF Typed, Tasks

\* A step of the report of p's job in batch b: the job changes, and no other.
SetsJob(b, p, j) == jobs' = [jobs EXCEPT ![b][p] = j]

\* A report that writes its own job leaves the others and the types.
LEMMA JobStep ==
  ASSUME Typed, NEW b \in Batches, NEW p \in Projects, NEW j \in JobType,
         SetsJob(b, p, j)
  PROVE  /\ jobs' \in Seq([Projects -> JobType]) /\ Len(jobs') = Len(jobs)
         /\ jobs'[b][p] = j
         /\ \A d \in Batches, q \in Projects : d # b \/ q # p => jobs'[d][q] = jobs[d][q]
<1>1. jobs[b] \in [Projects -> JobType]
  BY Members
<1>2. [jobs[b] EXCEPT ![p] = j] \in [Projects -> JobType]
  BY <1>1
<1>3. jobs' = [jobs EXCEPT ![b] = [jobs[b] EXCEPT ![p] = j]]
  BY DEF SetsJob
<1>4. b \in 1..Len(jobs)
  BY DEF Batches, Typed
<1>5. /\ jobs' \in Seq([Projects -> JobType]) /\ Len(jobs') = Len(jobs)
      /\ \A d \in 1..Len(jobs) : jobs'[d] = IF d = b THEN [jobs[b] EXCEPT ![p] = j] ELSE jobs[d]
  BY <1>2, <1>3, <1>4, ExceptSeq DEF Typed
<1>6. Batches = 1..Len(jobs)
  BY DEF Batches, Typed
<1>7. QED
  BY <1>1, <1>5, <1>6

-----------------------------------------------------------------------------
(* What a report does                                                      *)

\* The fields of a row that no report writes, and those of a batch.
SameRows ==
  /\ Len(rows') = Len(rows)
  /\ \A i \in RowIDs : rows'[i].commit = rows[i].commit /\ rows'[i].project = rows[i].project

SameBatches ==
  /\ Len(batches') = Len(batches)
  /\ \A d \in Batches :
       /\ batches'[d].commit = batches[d].commit /\ batches'[d].type = batches[d].type
       /\ batches'[d].projects = batches[d].projects /\ batches'[d].covers = batches[d].covers

\* A step of the report of p's job in batch b touches that job, the marks of
\* rows, and what the batch says of its end.
ReportFrame(b, p) ==
  /\ UNCHANGED tasks
  /\ rows' \in Seq(RowType) /\ SameRows
  /\ batches' \in Seq(BatchType) /\ SameBatches
  /\ \A d \in Batches : d # b => batches'[d] = batches[d]
  /\ jobs' \in Seq([Projects -> JobType]) /\ Len(jobs') = Len(jobs)
  /\ \A d \in Batches, q \in Projects : d # b \/ q # p => jobs'[d][q] = jobs[d][q]
  /\ odd \subseteq odd' /\ odd' \subseteq Oddities

\* Where no row is written, the rows of a commit and what they record stay.
LEMMA SameRowsOf ==
  ASSUME SameRows
  PROVE  /\ RowIDs' = RowIDs
         /\ \A c : RowsOf(c)' = RowsOf(c) /\ Recorded(c)' = Recorded(c)
<1>1. RowIDs' = RowIDs
  BY DEF SameRows, RowIDs
<1>2. \A c : RowsOf(c)' = RowsOf(c)
  BY <1>1 DEF SameRows, RowsOf
<1>3. ASSUME NEW c
      PROVE  Recorded(c)' = Recorded(c)
  <2>1. \A i \in RowsOf(c) : rows'[i].project = rows[i].project
    BY DEF SameRows, RowsOf
  <2>2. Recorded(c)' = {rows'[i].project : i \in RowsOf(c)}
    BY <1>2 DEF Recorded
  <2>3. \A x : x \in Recorded(c)' <=> x \in Recorded(c)
    BY <2>1, <2>2 DEF Recorded
  <2>4. QED
    BY <2>3, SetExtensionality
<1>4. QED
  BY <1>1, <1>2, <1>3

\* Marking a row leaves the rest of it.
LEMMA MarkRow ==
  ASSUME Typed, NEW i \in RowIDs, NEW planned \in BOOLEAN, NEW applied \in BOOLEAN,
         rows' = [rows EXCEPT ![i].planned = planned, ![i].applied = applied]
  PROVE  /\ rows' \in Seq(RowType) /\ SameRows
         /\ rows'[i].planned = planned /\ rows'[i].applied = applied
         /\ \A k \in RowIDs : k # i => rows'[k] = rows[k]
<1> DEFINE r == [rows[i] EXCEPT !.planned = planned, !.applied = applied]
<1>1. rows[i] \in RowType /\ DOMAIN rows = RowIDs
  BY Members
<1>2. r \in RowType /\ r.commit = rows[i].commit /\ r.project = rows[i].project
      /\ r.planned = planned /\ r.applied = applied
  BY <1>1 DEF RowType
<1>3. rows' = [rows EXCEPT ![i] = r]
  BY <1>1 DEF RowType
<1>4. /\ rows' \in Seq(RowType) /\ Len(rows') = Len(rows)
      /\ \A k \in RowIDs : rows'[k] = IF k = i THEN r ELSE rows[k]
  <2>1. i \in 1..Len(rows) /\ RowIDs = 1..Len(rows)
    BY DEF RowIDs
  <2> HIDE DEF r
  <2>2. rows \in Seq(RowType) /\ r \in RowType
    BY <1>2 DEF Typed
  <2>3. /\ [rows EXCEPT ![i] = r] \in Seq(RowType)
        /\ Len([rows EXCEPT ![i] = r]) = Len(rows)
        /\ \A k \in 1..Len(rows) : [rows EXCEPT ![i] = r][k] = IF k = i THEN r ELSE rows[k]
    BY <2>1, <2>2, ExceptSeq
  <2>4. QED
    BY <1>3, <2>1, <2>3
<1> HIDE DEF r
<1>5. QED
  BY <1>2, <1>4 DEF SameRows

\* Telling the end of a batch leaves the rest of it.
LEMMA MarkBatch ==
  ASSUME Typed, NEW b \in Batches, NEW s \in BOOLEAN, NEW k \in {"in_progress", "success"},
         batches' = [batches EXCEPT ![b] = [batches[b] EXCEPT !.succeeded = s, !.check = k]]
  PROVE  /\ batches' \in Seq(BatchType) /\ SameBatches
         /\ batches'[b].succeeded = s /\ batches'[b].check = k
         /\ \A d \in Batches : d # b => batches'[d] = batches[d]
<1> DEFINE r == [batches[b] EXCEPT !.succeeded = s, !.check = k]
<1>1. batches[b] \in BatchType
  BY Members
<1>2. r \in BatchType /\ r.commit = batches[b].commit /\ r.type = batches[b].type
      /\ r.projects = batches[b].projects /\ r.covers = batches[b].covers
      /\ r.succeeded = s /\ r.check = k
  BY <1>1 DEF BatchType
<1>3. b \in 1..Len(batches) /\ Batches = 1..Len(batches)
  BY DEF Batches
<1> HIDE DEF r
<1>4. /\ batches' \in Seq(BatchType) /\ Len(batches') = Len(batches)
      /\ \A d \in Batches : batches'[d] = IF d = b THEN r ELSE batches[d]
  BY <1>2, <1>3, ExceptSeq DEF Typed, r
<1>5. QED
  BY <1>2, <1>4 DEF SameBatches

\* One lemma per query of a report: what it changes, field by field.
LEMMA StageStep ==
  ASSUME Typed, NEW b \in Batches, NEW p \in JobsOf(b), NEW at \in Stages \ {"read", "none"},
         Stage(b, p, at), UNCHANGED <<tasks, rows, batches>>,
         odd \subseteq odd', odd' \subseteq Oddities
  PROVE  /\ ReportFrame(b, p)
         /\ jobs'[b][p].at = at
         /\ jobs'[b][p].row = jobs[b][p].row
         /\ jobs'[b][p].planned = jobs[b][p].planned
         /\ jobs'[b][p].applied = jobs[b][p].applied
         /\ jobs'[b][p].succeeded = jobs[b][p].succeeded
         /\ jobs'[b][p].shown = jobs[b][p].shown
<1> DEFINE j == [jobs[b][p] EXCEPT !.at = at]
<1>1. jobs[b][p] \in JobType /\ p \in Projects /\ DOMAIN jobs = Batches
      /\ jobs[b] \in [Projects -> JobType]
  BY Members
<1>2. /\ j \in JobType /\ j.at = at
      /\ j.row = jobs[b][p].row /\ j.planned = jobs[b][p].planned
      /\ j.applied = jobs[b][p].applied /\ j.succeeded = jobs[b][p].succeeded
      /\ j.shown = jobs[b][p].shown
  BY <1>1 DEF JobType
<1>3. SetsJob(b, p, j)
  BY DEF Stage, SetsJob
<1> HIDE DEF j
<1>4. /\ jobs' \in Seq([Projects -> JobType]) /\ Len(jobs') = Len(jobs) /\ jobs'[b][p] = j
      /\ \A d \in Batches, q \in Projects : d # b \/ q # p => jobs'[d][q] = jobs[d][q]
  BY <1>1, <1>2, <1>3, JobStep
<1>5. ReportFrame(b, p)
  BY <1>4 DEF Typed, ReportFrame, SameRows, SameBatches
<1>6. QED
  BY <1>2, <1>4, <1>5

\* GetImpactedProjectSingle: some row of the commit is read into memory.
LEMMA ReadRowStep ==
  ASSUME Typed, NEW b \in Batches, NEW p \in JobsOf(b), ReadRow(b, p)
  PROVE  /\ ReportFrame(b, p) /\ UNCHANGED <<rows, batches, pr, merge>>
         /\ jobs[b][p].at = "created" /\ jobs'[b][p].at = "read"
         /\ jobs'[b][p].succeeded = jobs[b][p].succeeded
         /\ jobs'[b][p].shown = jobs[b][p].shown
         /\ \E i \in RowsOf(batches[b].commit) :
              /\ jobs'[b][p].row = i
              /\ jobs'[b][p].planned = (rows[i].planned \/ batches[b].type = "plan")
              /\ jobs'[b][p].applied = (rows[i].applied \/ batches[b].type = "apply")
         /\ odd' = IF batches[b].type = "apply" /\ p \in AppliedAt(batches[b].commit)
                   THEN odd \cup {"twice"} ELSE odd
<1>1. jobs[b][p] \in JobType /\ p \in Projects /\ DOMAIN jobs = Batches
      /\ jobs[b] \in [Projects -> JobType]
  BY Members
<1>2. PICK i \in RowsOf(batches[b].commit) :
        jobs' = [jobs EXCEPT ![b][p] = [jobs[b][p] EXCEPT !.at = "read", !.row = i,
                  !.planned = rows[i].planned \/ batches[b].type = "plan",
                  !.applied = rows[i].applied \/ batches[b].type = "apply"]]
  BY DEF ReadRow, SingleRow
<1> DEFINE j == [jobs[b][p] EXCEPT !.at = "read", !.row = i,
                  !.planned = rows[i].planned \/ batches[b].type = "plan",
                  !.applied = rows[i].applied \/ batches[b].type = "apply"]
<1>3. i \in RowIDs /\ i \in Nat
  BY Members DEF RowsOf, RowIDs
<1>4. (rows[i].planned \/ batches[b].type = "plan") \in BOOLEAN
      /\ (rows[i].applied \/ batches[b].type = "apply") \in BOOLEAN
  OBVIOUS
<1>5. /\ j \in JobType /\ j.at = "read" /\ j.row = i
      /\ j.planned = (rows[i].planned \/ batches[b].type = "plan")
      /\ j.applied = (rows[i].applied \/ batches[b].type = "apply")
      /\ j.succeeded = jobs[b][p].succeeded /\ j.shown = jobs[b][p].shown
  BY <1>1, <1>3, <1>4 DEF JobType, Stages
<1>10. SetsJob(b, p, j)
  BY <1>2 DEF SetsJob
<1> HIDE DEF j
<1>6. /\ jobs' \in Seq([Projects -> JobType]) /\ Len(jobs') = Len(jobs) /\ jobs'[b][p] = j
      /\ \A d \in Batches, q \in Projects : d # b \/ q # p => jobs'[d][q] = jobs[d][q]
  BY <1>1, <1>5, <1>10, JobStep
<1>7. odd \subseteq odd' /\ odd' \subseteq Oddities
  BY DEF ReadRow, Typed, Oddities
<1>8. ReportFrame(b, p)
  BY <1>6, <1>7 DEF ReadRow, Typed, ReportFrame, SameRows, SameBatches
<1>9. QED
  BY <1>5, <1>6, <1>8 DEF ReadRow

\* The row is saved whole as it was read, with the mark.
LEMMA SaveRowStep ==
  ASSUME Typed, NEW b \in Batches, NEW p \in JobsOf(b), SaveRow(b, p)
  PROVE  /\ ReportFrame(b, p) /\ UNCHANGED <<batches, pr, merge>>
         /\ jobs[b][p].at = "read" /\ jobs'[b][p].at = "marked"
         /\ ~jobs'[b][p].succeeded /\ ~jobs'[b][p].shown /\ jobs'[b][p].row = 0
         /\ jobs[b][p].row \in RowIDs
         /\ rows'[jobs[b][p].row].planned = jobs[b][p].planned
         /\ rows'[jobs[b][p].row].applied = jobs[b][p].applied
         /\ \A k \in RowIDs : k # jobs[b][p].row => rows'[k] = rows[k]
         /\ rows[jobs[b][p].row].applied /\ batches[b].type = "apply" => "clash" \in odd'
         /\ rows[jobs[b][p].row].applied /\ ~jobs[b][p].applied => "unmarked" \in odd'
<1> DEFINE j == [NoJob EXCEPT !.at = "marked"]
<1>1. jobs[b][p] \in JobType /\ p \in Projects /\ DOMAIN jobs = Batches
      /\ jobs[b] \in [Projects -> JobType]
  BY Members
<1>2. jobs[b][p].at = "read" /\ jobs[b][p].row \in RowIDs
      /\ jobs[b][p].planned \in BOOLEAN /\ jobs[b][p].applied \in BOOLEAN
  BY <1>1 DEF SaveRow, Typed, Belong, RowsOf, JobType
<1>3. /\ j \in JobType /\ j.at = "marked" /\ ~j.succeeded /\ ~j.shown /\ j.row = 0
  BY DEF JobType, Stages, NoJob
<1>4. SetsJob(b, p, j)
  BY DEF SaveRow, SetsJob
<1> HIDE DEF j
<1>5. /\ jobs' \in Seq([Projects -> JobType]) /\ Len(jobs') = Len(jobs) /\ jobs'[b][p] = j
      /\ \A d \in Batches, q \in Projects : d # b \/ q # p => jobs'[d][q] = jobs[d][q]
  <2>1. j \in JobType /\ p \in Projects
    BY <1>1, <1>3
  <2>2. QED
    BY <1>4, <2>1, JobStep
<1>6. rows' = [rows EXCEPT ![jobs[b][p].row].planned = jobs[b][p].planned,
                           ![jobs[b][p].row].applied = jobs[b][p].applied]
  BY DEF SaveRow
<1>7. /\ rows' \in Seq(RowType) /\ SameRows
      /\ rows'[jobs[b][p].row].planned = jobs[b][p].planned
      /\ rows'[jobs[b][p].row].applied = jobs[b][p].applied
      /\ \A k \in RowIDs : k # jobs[b][p].row => rows'[k] = rows[k]
  BY <1>2, <1>6, MarkRow
<1>8. /\ odd \subseteq odd' /\ odd' \subseteq Oddities
      /\ rows[jobs[b][p].row].applied /\ batches[b].type = "apply" => "clash" \in odd'
      /\ rows[jobs[b][p].row].applied /\ ~jobs[b][p].applied => "unmarked" \in odd'
  BY DEF SaveRow, Typed, Oddities
<1>9. ReportFrame(b, p)
  BY <1>5, <1>7, <1>8 DEF SaveRow, Typed, ReportFrame, SameBatches
<1>10. QED
  BY <1>2, <1>3, <1>5, <1>7, <1>8, <1>9 DEF SaveRow

\* UpdateBatchStatus counts the jobs that have ended.
LEMMA UpdateBatchStatusStep ==
  ASSUME Typed, NEW b \in Batches, NEW p \in JobsOf(b), UpdateBatchStatus(b, p)
  PROVE  /\ ReportFrame(b, p) /\ UNCHANGED <<rows, pr, merge>>
         /\ jobs[b][p].at = "saved" /\ jobs'[b][p].at = "counted"
         /\ jobs'[b][p].row = jobs[b][p].row
         /\ jobs'[b][p].succeeded = \A q \in JobsOf(b) : Ended(b, q)
         /\ jobs'[b][p].shown = jobs[b][p].shown
         /\ batches'[b].succeeded = (batches[b].succeeded \/ \A q \in JobsOf(b) : Ended(b, q))
         /\ batches'[b].check = batches[b].check
         /\ (\A q \in JobsOf(b) : Ended(b, q)) /\ (\E q \in JobsOf(b) : jobs[b][q].at = "refreshed")
              => "overlap" \in odd'
<1> DEFINE all == \A q \in JobsOf(b) : Ended(b, q)
           j == [jobs[b][p] EXCEPT !.at = "counted", !.succeeded = all]
<1>1. jobs[b][p] \in JobType /\ p \in Projects /\ DOMAIN jobs = Batches
      /\ jobs[b] \in [Projects -> JobType] /\ batches[b] \in BatchType
  BY Members
<1>2. all \in BOOLEAN
  OBVIOUS
<1>3. jobs[b][p].at = "saved"
      /\ ((\A q \in JobsOf(b) : Ended(b, q)) /\ (\E q \in JobsOf(b) : jobs[b][q].at = "refreshed")
              => "overlap" \in odd')
      /\ odd \subseteq odd' /\ odd' \subseteq Oddities /\ UNCHANGED <<pr, tasks, rows, merge>>
  BY DEF UpdateBatchStatus, Typed, Oddities
<1>4. batches' = [batches EXCEPT ![b].succeeded = @ \/ all]
  BY DEF UpdateBatchStatus
<1>5. jobs' = [jobs EXCEPT ![b][p].at = "counted", ![b][p].succeeded = all]
  BY DEF UpdateBatchStatus
<1> HIDE DEF all
<1>6. SetsJob(b, p, j)
  BY <1>1, <1>5 DEF SetsJob, JobType
<1>7. /\ j \in JobType /\ j.at = "counted" /\ j.row = jobs[b][p].row
      /\ j.succeeded = all /\ j.shown = jobs[b][p].shown
  BY <1>1, <1>2 DEF JobType, Stages
<1> HIDE DEF j
<1>8. /\ jobs' \in Seq([Projects -> JobType]) /\ Len(jobs') = Len(jobs) /\ jobs'[b][p] = j
      /\ \A d \in Batches, q \in Projects : d # b \/ q # p => jobs'[d][q] = jobs[d][q]
  BY <1>1, <1>6, <1>7, JobStep
<1>9. (batches[b].succeeded \/ all) \in BOOLEAN /\ batches[b].check \in {"in_progress", "success"}
  BY <1>1 DEF BatchType
<1>10. batches' = [batches EXCEPT ![b] = [batches[b] EXCEPT
                     !.succeeded = batches[b].succeeded \/ all, !.check = batches[b].check]]
  BY <1>1, <1>4, Members DEF BatchType
<1>11. /\ batches' \in Seq(BatchType) /\ SameBatches
       /\ batches'[b].succeeded = (batches[b].succeeded \/ all)
       /\ batches'[b].check = batches[b].check
       /\ \A d \in Batches : d # b => batches'[d] = batches[d]
  BY <1>9, <1>10, MarkBatch
<1>12. ReportFrame(b, p)
  BY <1>3, <1>8, <1>11 DEF Typed, ReportFrame, SameRows
<1>13. QED
  BY <1>3, <1>7, <1>8, <1>11, <1>12 DEF all

\* The batch is read again for its check run.
LEMMA RefreshBatchStep ==
  ASSUME Typed, NEW b \in Batches, NEW p \in JobsOf(b), RefreshBatch(b, p)
  PROVE  /\ ReportFrame(b, p) /\ UNCHANGED <<rows, batches, pr, merge, odd>>
         /\ jobs[b][p].at = "counted" /\ jobs'[b][p].at = "refreshed"
         /\ jobs'[b][p].row = jobs[b][p].row
         /\ jobs'[b][p].succeeded = jobs[b][p].succeeded
         /\ jobs'[b][p].shown = batches[b].succeeded
<1> DEFINE j == [jobs[b][p] EXCEPT !.at = "refreshed", !.shown = batches[b].succeeded]
<1>1. jobs[b][p] \in JobType /\ p \in Projects /\ DOMAIN jobs = Batches
      /\ jobs[b] \in [Projects -> JobType] /\ batches[b] \in BatchType
  BY Members
<1>2. batches[b].succeeded \in BOOLEAN
  BY <1>1 DEF BatchType
<1>3. SetsJob(b, p, j)
  BY <1>1 DEF SetsJob, RefreshBatch, JobType
<1>4. /\ j \in JobType /\ j.at = "refreshed" /\ j.row = jobs[b][p].row
      /\ j.succeeded = jobs[b][p].succeeded /\ j.shown = batches[b].succeeded
  BY <1>1, <1>2 DEF JobType, Stages
<1> HIDE DEF j
<1>5. /\ jobs' \in Seq([Projects -> JobType]) /\ Len(jobs') = Len(jobs) /\ jobs'[b][p] = j
      /\ \A d \in Batches, q \in Projects : d # b \/ q # p => jobs'[d][q] = jobs[d][q]
  BY <1>1, <1>3, <1>4, JobStep
<1>6. ReportFrame(b, p)
  BY <1>5 DEF RefreshBatch, Typed, ReportFrame, SameRows, SameBatches
<1>7. QED
  BY <1>4, <1>5, <1>6 DEF RefreshBatch

\* The check run shows what was read of the batch.
LEMMA UpdateCheckRunStep ==
  ASSUME Typed, NEW b \in Batches, NEW p \in JobsOf(b), UpdateCheckRun(b, p)
  PROVE  /\ ReportFrame(b, p) /\ UNCHANGED <<rows, pr, merge, odd>>
         /\ jobs[b][p].at = "refreshed" /\ jobs'[b][p].at = "shown"
         /\ jobs'[b][p].row = jobs[b][p].row
         /\ jobs'[b][p].succeeded = jobs[b][p].succeeded
         /\ batches'[b].succeeded = batches[b].succeeded
         /\ batches'[b].check = IF jobs[b][p].shown THEN "success" ELSE "in_progress"
<1> DEFINE j == [jobs[b][p] EXCEPT !.at = "shown", !.shown = FALSE]
           k == IF jobs[b][p].shown THEN "success" ELSE "in_progress"
<1>1. jobs[b][p] \in JobType /\ p \in Projects /\ DOMAIN jobs = Batches
      /\ jobs[b] \in [Projects -> JobType] /\ batches[b] \in BatchType
  BY Members
<1>2. k \in {"in_progress", "success"} /\ batches[b].succeeded \in BOOLEAN
  BY <1>1 DEF BatchType
<1>3. SetsJob(b, p, j)
  BY <1>1 DEF SetsJob, UpdateCheckRun, JobType
<1>4. /\ j \in JobType /\ j.at = "shown" /\ j.row = jobs[b][p].row
      /\ j.succeeded = jobs[b][p].succeeded
  BY <1>1 DEF JobType, Stages
<1>5. batches' = [batches EXCEPT ![b].check = k]
  BY DEF UpdateCheckRun
<1> HIDE DEF j, k
<1>6. /\ jobs' \in Seq([Projects -> JobType]) /\ Len(jobs') = Len(jobs) /\ jobs'[b][p] = j
      /\ \A d \in Batches, q \in Projects : d # b \/ q # p => jobs'[d][q] = jobs[d][q]
  BY <1>1, <1>3, <1>4, JobStep
<1>7. batches' = [batches EXCEPT ![b] = [batches[b] EXCEPT
                    !.succeeded = batches[b].succeeded, !.check = k]]
  BY <1>1, <1>5, Members DEF BatchType
<1>8. /\ batches' \in Seq(BatchType) /\ SameBatches
      /\ batches'[b].succeeded = batches[b].succeeded /\ batches'[b].check = k
      /\ \A d \in Batches : d # b => batches'[d] = batches[d]
  BY <1>2, <1>7, MarkBatch
<1>9. ReportFrame(b, p)
  BY <1>6, <1>8 DEF UpdateCheckRun, Typed, ReportFrame, SameRows
<1>10. QED
  BY <1>4, <1>6, <1>8, <1>9 DEF UpdateCheckRun, k

\* A write is lost, and the report goes on.
LEMMA WriteLostStep ==
  ASSUME Typed, NEW b \in Batches, NEW p \in JobsOf(b), WriteLost(b, p)
  PROVE  /\ ReportFrame(b, p) /\ UNCHANGED <<rows, batches, pr, merge>>
         /\ "lost" \in odd' /\ jobs'[b][p].row = jobs[b][p].row
         /\ \/ /\ jobs[b][p].at = "saved" /\ jobs'[b][p].at = "counted"
               /\ \A q \in JobsOf(b) : Ended(b, q)
            \/ /\ jobs[b][p].at = "refreshed" /\ jobs'[b][p].at = "shown"
               /\ jobs'[b][p].succeeded = jobs[b][p].succeeded
<1> DEFINE j == [jobs[b][p] EXCEPT !.at = "counted", !.succeeded = TRUE]
           k == [jobs[b][p] EXCEPT !.at = "shown", !.shown = FALSE]
<1>1. jobs[b][p] \in JobType /\ p \in Projects /\ DOMAIN jobs = Batches
      /\ jobs[b] \in [Projects -> JobType]
  BY Members
<1>2. /\ odd \subseteq odd' /\ odd' \subseteq Oddities /\ "lost" \in odd'
      /\ UNCHANGED <<pr, tasks, rows, batches, merge>>
  BY DEF WriteLost, Typed, Oddities
<1>3. ASSUME NEW i \in JobType, i.at \in {"counted", "shown"}, SetsJob(b, p, i)
      PROVE  ReportFrame(b, p) /\ jobs'[b][p] = i
  <2>1. /\ jobs' \in Seq([Projects -> JobType]) /\ Len(jobs') = Len(jobs) /\ jobs'[b][p] = i
        /\ \A d \in Batches, q \in Projects : d # b \/ q # p => jobs'[d][q] = jobs[d][q]
    BY <1>1, <1>3, JobStep
  <2> QED BY <1>2, <2>1 DEF Typed, ReportFrame, SameRows, SameBatches
<1>4. CASE jobs[b][p].at = "saved"
  <2>1. (\A q \in JobsOf(b) : Ended(b, q))
        /\ jobs' = [jobs EXCEPT ![b][p].at = "counted", ![b][p].succeeded = TRUE]
    BY <1>4 DEF WriteLost
  <2>2. SetsJob(b, p, j)
    BY <1>1, <2>1 DEF SetsJob, JobType
  <2>3. j \in JobType /\ j.at = "counted" /\ j.row = jobs[b][p].row
    BY <1>1 DEF JobType, Stages
  <2> HIDE DEF j
  <2>4. ReportFrame(b, p) /\ jobs'[b][p] = j
    BY <1>3, <2>2, <2>3
  <2> QED BY <1>2, <1>4, <2>1, <2>3, <2>4
<1>5. CASE jobs[b][p].at = "refreshed"
  <2>1. jobs' = [jobs EXCEPT ![b][p].at = "shown", ![b][p].shown = FALSE]
    BY <1>5 DEF WriteLost
  <2>2. SetsJob(b, p, k)
    BY <1>1, <2>1 DEF SetsJob, JobType
  <2>3. /\ k \in JobType /\ k.at = "shown" /\ k.row = jobs[b][p].row
        /\ k.succeeded = jobs[b][p].succeeded
    BY <1>1 DEF JobType, Stages
  <2> HIDE DEF k
  <2>4. ReportFrame(b, p) /\ jobs'[b][p] = k
    BY <1>3, <2>2, <2>3
  <2> QED BY <1>2, <1>5, <2>3, <2>4
<1>6. QED
  BY <1>4, <1>5 DEF WriteLost

\* The queries that only move the report on.
LEMMA StageSteps ==
  ASSUME Typed, NEW b \in Batches, NEW p \in JobsOf(b),
         \/ JobFails(b, p) \/ MissRow(b, p) \/ SaveJob(b, p) \/ Automerge(b, p)
         \/ AutomergeByBatch(b, p) \/ MergePullRequest(b, p) \/ MergeRefused(b, p)
         \/ ReportFails(b, p)
  PROVE  /\ ReportFrame(b, p) /\ UNCHANGED <<rows, batches>>
         /\ jobs'[b][p].row = jobs[b][p].row
         /\ jobs'[b][p].succeeded = jobs[b][p].succeeded
         /\ jobs'[b][p].shown = jobs[b][p].shown
         /\ JobFails(b, p) => /\ jobs[b][p].at = "created" /\ jobs'[b][p].at = "failed"
                              /\ "failed" \in odd'
         /\ MissRow(b, p) => /\ jobs[b][p].at = "created" /\ jobs'[b][p].at = "marked"
                             /\ "lost" \in odd'
         /\ SaveJob(b, p) => jobs[b][p].at = "marked" /\ jobs'[b][p].at = "saved"
         /\ Automerge(b, p) =>
              /\ jobs[b][p].at = "shown"
              /\ jobs'[b][p].at =
                   IF /\ jobs[b][p].succeeded /\ batches[b].type = "apply"
                      /\ AllImpactedProjectApplied(batches[b].commit)
                   THEN "merging" ELSE "done"
         /\ AutomergeByBatch(b, p) =>
              /\ jobs[b][p].at = "shown" /\ "blind" \in odd'
              /\ jobs'[b][p].at =
                   IF jobs[b][p].succeeded /\ batches[b].type = "apply" /\ batches[b].covers
                   THEN "merging" ELSE "done"
         /\ MergePullRequest(b, p) => jobs[b][p].at = "merging" /\ jobs'[b][p].at = "done"
         /\ MergeRefused(b, p) => /\ jobs[b][p].at = "merging" /\ jobs'[b][p].at = "done"
                                  /\ "refused" \in odd'
         /\ ReportFails(b, p) =>
              /\ jobs[b][p].at \in {"read", "marked", "saved", "counted", "refreshed", "shown"}
              /\ jobs'[b][p].at = IF jobs[b][p].at \in {"read", "marked"} THEN "lost" ELSE "done"
              /\ "lost" \in odd'
<1> DEFINE Moved(at) ==
         /\ ReportFrame(b, p) /\ jobs'[b][p].at = at
         /\ jobs'[b][p].row = jobs[b][p].row
         /\ jobs'[b][p].succeeded = jobs[b][p].succeeded
         /\ jobs'[b][p].shown = jobs[b][p].shown
<1>1. odd \subseteq Oddities
  BY DEF Typed
<1>2. ASSUME NEW at \in Stages \ {"read", "none"}, Stage(b, p, at),
             UNCHANGED <<tasks, rows, batches>>, odd \subseteq odd', odd' \subseteq Oddities
      PROVE  Moved(at)
  BY <1>2, StageStep
<1> HIDE DEF Moved
<1>3. JobFails(b, p) => Moved("failed") /\ UNCHANGED <<rows, batches>>
  BY <1>1, <1>2 DEF JobFails, Stages, Oddities
<1>4. MissRow(b, p) => Moved("marked") /\ UNCHANGED <<rows, batches>>
  BY <1>1, <1>2 DEF MissRow, Stages, Oddities
<1>5. SaveJob(b, p) => Moved("saved") /\ UNCHANGED <<rows, batches>>
  BY <1>1, <1>2 DEF SaveJob, Stages
<1>6. Automerge(b, p) => UNCHANGED <<rows, batches>> /\
        Moved(IF /\ jobs[b][p].succeeded /\ batches[b].type = "apply"
                 /\ AllImpactedProjectApplied(batches[b].commit)
              THEN "merging" ELSE "done")
  BY <1>1, <1>2 DEF Automerge, Automerges, Stages
<1>7. AutomergeByBatch(b, p) => UNCHANGED <<rows, batches>> /\
        Moved(IF jobs[b][p].succeeded /\ batches[b].type = "apply" /\ batches[b].covers
              THEN "merging" ELSE "done")
  BY <1>1, <1>2 DEF AutomergeByBatch, Automerges, Stages, Oddities
<1>8. MergePullRequest(b, p) => Moved("done") /\ UNCHANGED <<rows, batches>>
  BY <1>1, <1>2 DEF MergePullRequest, Stages
<1>9. MergeRefused(b, p) => Moved("done") /\ UNCHANGED <<rows, batches>>
  BY <1>1, <1>2 DEF MergeRefused, Stages, Oddities
<1>10. ReportFails(b, p) => UNCHANGED <<rows, batches>> /\
         Moved(IF jobs[b][p].at \in {"read", "marked"} THEN "lost" ELSE "done")
  BY <1>1, <1>2 DEF ReportFails, Stages, Oddities
<1>11. /\ ReportFrame(b, p) /\ UNCHANGED <<rows, batches>>
       /\ jobs'[b][p].row = jobs[b][p].row
       /\ jobs'[b][p].succeeded = jobs[b][p].succeeded
       /\ jobs'[b][p].shown = jobs[b][p].shown
  BY <1>3, <1>4, <1>5, <1>6, <1>7, <1>8, <1>9, <1>10 DEF Moved
<1>12. /\ JobFails(b, p) => jobs[b][p].at = "created" /\ "failed" \in odd'
       /\ MissRow(b, p) => jobs[b][p].at = "created" /\ "lost" \in odd'
       /\ SaveJob(b, p) => jobs[b][p].at = "marked"
       /\ Automerge(b, p) => jobs[b][p].at = "shown"
       /\ AutomergeByBatch(b, p) => jobs[b][p].at = "shown" /\ "blind" \in odd'
       /\ MergePullRequest(b, p) => jobs[b][p].at = "merging"
       /\ MergeRefused(b, p) => jobs[b][p].at = "merging" /\ "refused" \in odd'
       /\ ReportFails(b, p) =>
              /\ jobs[b][p].at \in {"read", "marked", "saved", "counted", "refreshed", "shown"}
              /\ "lost" \in odd'
  BY DEF JobFails, MissRow, SaveJob, Automerge, AutomergeByBatch, MergePullRequest,
         MergeRefused, ReportFails
<1>13. QED
  BY <1>3, <1>4, <1>5, <1>6, <1>7, <1>8, <1>9, <1>10, <1>11, <1>12 DEF Moved

\* A step of the report of p's job in batch b.
Reporter(b, p) ==
  \/ Report(b, p) \/ JobFails(b, p) \/ ReportFails(b, p)
  \/ MissRow(b, p) \/ WriteLost(b, p) \/ AutomergeByBatch(b, p)

\* Whatever a report does, its job comes from a stage that goes on and has
\* reported or failed afterwards.
LEMMA ReporterStep ==
  ASSUME Typed, NEW b \in Batches, NEW p \in JobsOf(b), Reporter(b, p)
  PROVE  /\ ReportFrame(b, p)
         /\ jobs[b][p].at \notin {"none", "failed", "lost", "done"}
         /\ jobs'[b][p].at \notin {"none", "created"}
         /\ jobs[b][p].at # "created" => jobs'[b][p].at # "failed"
         /\ jobs'[b][p].at = "read" => jobs'[b][p].row \in RowsOf(batches[b].commit)
         /\ jobs'[b][p].at # "read" => jobs'[b][p].row \in {0, jobs[b][p].row}
<1>1. CASE ReadRow(b, p)
  BY <1>1, ReadRowStep
<1>2. CASE SaveRow(b, p)
  BY <1>2, SaveRowStep
<1>3. CASE UpdateBatchStatus(b, p)
  <2>1. ReportFrame(b, p) /\ jobs[b][p].at = "saved" /\ jobs'[b][p].at = "counted"
        /\ jobs'[b][p].row = jobs[b][p].row
    BY <1>3, UpdateBatchStatusStep
  <2>2. QED
    BY <2>1
<1>4. CASE RefreshBatch(b, p)
  BY <1>4, RefreshBatchStep
<1>5. CASE UpdateCheckRun(b, p)
  BY <1>5, UpdateCheckRunStep
<1>6. CASE \/ JobFails(b, p) \/ MissRow(b, p) \/ SaveJob(b, p) \/ Automerge(b, p)
           \/ AutomergeByBatch(b, p) \/ MergePullRequest(b, p) \/ MergeRefused(b, p)
           \/ ReportFails(b, p)
  <2>1. /\ ReportFrame(b, p) /\ jobs'[b][p].row = jobs[b][p].row
        /\ jobs[b][p].at \in {"created", "read", "marked", "saved", "counted", "refreshed",
                              "shown", "merging"}
        /\ jobs'[b][p].at \in {"failed", "marked", "saved", "merging", "done", "lost"}
        /\ jobs[b][p].at # "created" => jobs'[b][p].at # "failed"
    <3>1. ReportFrame(b, p) /\ jobs'[b][p].row = jobs[b][p].row
      BY <1>6, StageSteps
    <3>2. JobFails(b, p) => jobs[b][p].at = "created" /\ jobs'[b][p].at = "failed"
      BY StageSteps
    <3>3. MissRow(b, p) => jobs[b][p].at = "created" /\ jobs'[b][p].at = "marked"
      BY StageSteps
    <3>4. SaveJob(b, p) => jobs[b][p].at = "marked" /\ jobs'[b][p].at = "saved"
      BY StageSteps
    <3>5. Automerge(b, p) \/ AutomergeByBatch(b, p) =>
            jobs[b][p].at = "shown" /\ jobs'[b][p].at \in {"merging", "done"}
      BY StageSteps
    <3>6. MergePullRequest(b, p) \/ MergeRefused(b, p) =>
            jobs[b][p].at = "merging" /\ jobs'[b][p].at = "done"
      BY StageSteps
    <3>7. ReportFails(b, p) =>
            /\ jobs[b][p].at \in {"read", "marked", "saved", "counted", "refreshed", "shown"}
            /\ jobs'[b][p].at \in {"lost", "done"}
      BY StageSteps
    <3>8. QED
      BY <1>6, <3>1, <3>2, <3>3, <3>4, <3>5, <3>6, <3>7
  <2>2. QED
    BY <2>1
<1>7. CASE WriteLost(b, p)
  BY <1>7, WriteLostStep
<1>8. QED
  BY <1>1, <1>2, <1>3, <1>4, <1>5, <1>6, <1>7 DEF Reporter, Report

-----------------------------------------------------------------------------
(* Every reachable state is typed                                          *)

\* A new row of impacted_projects, a new batch with its jobs, a new webhook.
LEMMA Webhook ==
  ASSUME Typed, NEW k \in TaskType, GoodTask(k), Deliver(k)
  PROVE  /\ tasks' \in Seq({x \in TaskType : GoodTask(x)})
         /\ Len(tasks') = Len(tasks) + 1 /\ tasks'[Len(tasks) + 1] = k
         /\ \A t \in Tasks : tasks'[t] = tasks[t]
<1>1. k \in {x \in TaskType : GoodTask(x)}
  OBVIOUS
<1>2. QED
  BY <1>1, AppendProperties DEF Typed, Deliver, Tasks

\* CreateImpactedProject appends a row and leaves the others.
LEMMA NewRow ==
  ASSUME Typed, NEW r \in RowType, rows' = Append(rows, r)
  PROVE  /\ rows' \in Seq(RowType) /\ Len(rows') = Len(rows) + 1
         /\ rows'[Len(rows) + 1] = r
         /\ \A i \in RowIDs : rows'[i] = rows[i]
BY AppendProperties DEF Typed, RowIDs

\* The handler returns.
Ending(t) ==
  [tasks[t] EXCEPT !.pc = "ended", !.event = "opened", !.command = "noop",
     !.draft = FALSE, !.select = {}, !.commit = 0, !.impacted = {}, !.chosen = {}, !.todo = {}]

\* A handler that returns drops its locals, and no other task changes.
LEMMA Ends ==
  ASSUME Typed, NEW t \in Tasks, End(t)
  PROVE  /\ tasks' \in Seq({x \in TaskType : GoodTask(x)})
         /\ Tasks' = Tasks /\ tasks'[t].pc = "ended" /\ tasks'[t].event # "button"
         /\ \A u \in Tasks : u # t => tasks'[u] = tasks[u]
<1>1. tasks[t] \in TaskType
  BY Members
<1>2. Ending(t) \in TaskType /\ GoodTask(Ending(t)) /\ Ending(t).pc = "ended"
      /\ Ending(t).event = "opened"
  <2> DEFINE k1 == [tasks[t] EXCEPT !.pc = "ended", !.event = "opened", !.command = "noop"]
             k2 == [k1 EXCEPT !.draft = FALSE, !.select = {}, !.commit = 0]
             k3 == [k2 EXCEPT !.impacted = {}, !.chosen = {}, !.todo = {}]
  <2>1. 0 \in 0..Len(ImpactedBy)
    BY Impacted
  <2>2. k1 \in TaskType /\ k1.pc = "ended" /\ k1.event = "opened" /\ k1.command = "noop"
    BY <1>1 DEF TaskType, Events, Commands
  <2>3. Ending(t) = k3
    BY DEF Ending
  <2> HIDE DEF k1
  <2>4. k2 \in TaskType /\ k2.pc = "ended" /\ k2.event = "opened" /\ k2.select = {}
    BY <2>1, <2>2 DEF TaskType
  <2> HIDE DEF k2
  <2>5. k3 \in TaskType /\ k3.pc = "ended" /\ k3.event = "opened" /\ k3.select = {}
        /\ k3.todo = {}
    BY <2>4 DEF TaskType
  <2> HIDE DEF k3
  <2>6. QED
    BY <2>3, <2>5 DEF GoodTask
<1>3. tasks' = [tasks EXCEPT ![t] = Ending(t)]
  BY DEF End, Ending
<1>4. QED
  BY <1>2, <1>3, TaskStep

\* One lemma per step of a handler: what it leaves in the handler's record.
LEMMA ReadConfigStep ==
  ASSUME Typed, NEW t \in Tasks, ReadConfig(t)
  PROVE  /\ tasks' \in Seq({x \in TaskType : GoodTask(x)})
         /\ Tasks' = Tasks /\ tasks'[t].pc = "configured" /\ tasks'[t].event # "button"
         /\ \A u \in Tasks : u # t => tasks'[u] = tasks[u]
<1> DEFINE c == IF tasks[t].event = "comment" THEN pr.head ELSE tasks[t].commit
           k == [tasks[t] EXCEPT !.pc = "configured", !.commit = c]
<1>1. tasks[t] \in TaskType /\ GoodTask(tasks[t]) /\ DOMAIN tasks = Tasks
  BY Members
<1>2. tasks[t].pc = "received" /\ tasks[t].event # "button"
  BY DEF ReadConfig
<1>3. c \in Commits /\ c \in 0..Len(ImpactedBy)
  BY <1>1, <1>2, Impacted DEF Typed, GoodTask
<1>4. tasks' = [tasks EXCEPT ![t] = k]
  BY <1>1 DEF ReadConfig, TaskType
<1> HIDE DEF c
<1>5. k \in TaskType /\ k.pc = "configured" /\ k.event = tasks[t].event /\ k.commit = c
      /\ k.select = tasks[t].select /\ k.impacted = tasks[t].impacted /\ k.todo = tasks[t].todo
  BY <1>1, <1>3 DEF TaskType
<1> HIDE DEF k
<1>6. GoodTask(k)
  BY <1>1, <1>2, <1>3, <1>5 DEF GoodTask
<1>7. QED
  BY <1>2, <1>4, <1>5, <1>6, TaskStep

\* What a task knows after it has found the impacted projects.
LEMMA DetectStep ==
  ASSUME Typed, NEW t \in Tasks, Detect(t)
  PROVE  /\ tasks' \in Seq({x \in TaskType : GoodTask(x)})
         /\ Tasks' = Tasks /\ tasks'[t].event # "button"
         /\ \A u \in Tasks : u # t => tasks'[u] = tasks[u]
         /\ odd \subseteq odd' /\ odd' \subseteq Oddities
         /\ \/ tasks'[t].pc = "ended"
            \/ /\ tasks'[t].pc = "detected" /\ tasks'[t].commit = tasks[t].commit
               /\ tasks'[t].impacted = ImpactedBy[pr.head]
               /\ pr.head = tasks[t].commit \/ "moved" \in odd'
<1>1. tasks[t] \in TaskType /\ GoodTask(tasks[t]) /\ DOMAIN tasks = Tasks
  BY Members
<1>2. tasks[t].pc = "configured"
  BY DEF Detect
<1>3. tasks[t].event # "button" /\ tasks[t].commit \in Commits
  BY <1>1, <1>2 DEF GoodTask
<1>4. pr.head \in Commits /\ ImpactedBy[pr.head] \subseteq Projects
  BY Impacted DEF Typed
<1>5. odd \subseteq odd' /\ odd' \subseteq Oddities
  BY DEF Detect, Typed, Oddities
<1>6. CASE End(t)
  BY <1>5, <1>6, Ends
<1>7. CASE ~End(t)
  <2> DEFINE chosen == IF tasks[t].select = {} THEN ImpactedBy[pr.head] ELSE tasks[t].select
             k == [tasks[t] EXCEPT !.pc = "detected", !.impacted = ImpactedBy[pr.head],
                                   !.chosen = chosen]
  <2>1. /\ tasks' = [tasks EXCEPT ![t].pc = "detected", ![t].impacted = ImpactedBy[pr.head],
                                  ![t].chosen = chosen]
        /\ tasks[t].event = "comment" => tasks[t].select \subseteq ImpactedBy[pr.head]
        /\ pr.head = tasks[t].commit \/ "moved" \in odd'
    BY <1>7 DEF Detect
  <2>2. chosen \subseteq ImpactedBy[pr.head]
    BY <1>1, <1>2, <1>3, <2>1 DEF GoodTask
  <2>3. tasks' = [tasks EXCEPT ![t] = k]
    BY <1>1, <2>1 DEF TaskType
  <2> HIDE DEF chosen
  <2>4. k \in TaskType /\ k.pc = "detected" /\ k.event = tasks[t].event
        /\ k.commit = tasks[t].commit /\ k.impacted = ImpactedBy[pr.head]
        /\ k.chosen = chosen /\ k.todo = tasks[t].todo
    BY <1>1, <1>4, <2>2 DEF TaskType
  <2>5. tasks[t].todo = {}
    BY <1>1, <1>2 DEF GoodTask
  <2> HIDE DEF k
  <2>6. GoodTask(k)
    BY <1>3, <2>2, <2>4, <2>5 DEF GoodTask
  <2>7. QED
    BY <1>3, <1>5, <2>1, <2>3, <2>4, <2>6, TaskStep
<1>8. QED
  BY <1>6, <1>7

\* A task that has looked for rows lists the projects it has to write, all or none.
LEMMA CheckRowsStep ==
  ASSUME Typed, NEW t \in Tasks, CheckRows(t)
  PROVE  /\ tasks' \in Seq({x \in TaskType : GoodTask(x)})
         /\ Tasks' = Tasks
         /\ \A u \in Tasks : u # t => tasks'[u] = tasks[u]
         /\ odd \subseteq odd' /\ odd' \subseteq Oddities
         /\ tasks[t].pc = "detected"
         /\ tasks'[t].pc = "recording" /\ tasks'[t].commit = tasks[t].commit
         /\ tasks'[t].event = tasks[t].event /\ tasks'[t].impacted = tasks[t].impacted
         /\ \/ tasks'[t].todo = tasks[t].impacted
            \/ tasks[t].impacted \subseteq Recorded(tasks[t].commit)
            \/ "partial" \in odd'
<1>1. tasks[t] \in TaskType /\ GoodTask(tasks[t]) /\ DOMAIN tasks = Tasks
  BY Members
<1>2. PICK found \in {Recorded(tasks[t].commit), {}} :
        /\ tasks' = [tasks EXCEPT ![t].pc = "recording",
                                  ![t].todo = IF found = {} THEN tasks[t].impacted ELSE {}]
        /\ odd' = IF found = {} \/ tasks[t].impacted \subseteq found
                  THEN odd ELSE odd \cup {"partial"}
  BY DEF CheckRows
<1>3. tasks[t].pc = "detected"
  BY DEF CheckRows
<1> DEFINE todo == IF found = {} THEN tasks[t].impacted ELSE {}
           k == [tasks[t] EXCEPT !.pc = "recording", !.todo = todo]
<1>4. todo \subseteq tasks[t].impacted /\ todo \subseteq Projects
  BY <1>1 DEF TaskType
<1>5. tasks' = [tasks EXCEPT ![t] = k]
  BY <1>1, <1>2 DEF TaskType
<1>6. odd \subseteq odd' /\ odd' \subseteq Oddities
  BY <1>2 DEF Typed, Oddities
<1>7. \/ todo = tasks[t].impacted
      \/ tasks[t].impacted \subseteq Recorded(tasks[t].commit)
      \/ "partial" \in odd'
  BY <1>2
<1> HIDE DEF todo
<1>8. k \in TaskType /\ k.pc = "recording" /\ k.event = tasks[t].event
      /\ k.commit = tasks[t].commit /\ k.impacted = tasks[t].impacted
      /\ k.chosen = tasks[t].chosen /\ k.todo = todo
  BY <1>1, <1>4 DEF TaskType
<1> HIDE DEF k
<1>9. GoodTask(k)
  BY <1>1, <1>3, <1>4, <1>8 DEF GoodTask
<1>10. QED
  BY <1>3, <1>5, <1>6, <1>7, <1>8, <1>9, TaskStep

\* A task writes the row of one project of its list.
LEMMA CreateImpactedProjectStep ==
  ASSUME Typed, NEW t \in Tasks, CreateImpactedProject(t)
  PROVE  /\ tasks' \in Seq({x \in TaskType : GoodTask(x)})
         /\ Tasks' = Tasks
         /\ \A u \in Tasks : u # t => tasks'[u] = tasks[u]
         /\ odd \subseteq odd' /\ odd' \subseteq Oddities
         /\ tasks[t].pc = "recording" /\ tasks[t].commit \in Commits
         /\ tasks'[t].pc = "recording" /\ tasks'[t].commit = tasks[t].commit
         /\ tasks'[t].event = tasks[t].event /\ tasks'[t].impacted = tasks[t].impacted
         /\ \E p \in tasks[t].impacted :
              /\ p \in Projects /\ tasks'[t].todo = tasks[t].todo \ {p}
              /\ p \in Recorded(tasks[t].commit) => "double row" \in odd'
              /\ rows' = Append(rows, [commit |-> tasks[t].commit, project |-> p,
                                       planned |-> FALSE, applied |-> FALSE])
<1>1. tasks[t] \in TaskType /\ GoodTask(tasks[t]) /\ DOMAIN tasks = Tasks
  BY Members
<1>2. PICK p \in tasks[t].todo :
        /\ rows' = Append(rows, [commit |-> tasks[t].commit, project |-> p,
                                 planned |-> FALSE, applied |-> FALSE])
        /\ tasks' = [tasks EXCEPT ![t].todo = @ \ {p}]
        /\ odd' = IF p \in Recorded(tasks[t].commit)
                  THEN odd \cup {"double row"} ELSE odd
  BY DEF CreateImpactedProject
<1>3. tasks[t].pc = "recording"
  BY DEF CreateImpactedProject
<1> DEFINE k == [tasks[t] EXCEPT !.todo = tasks[t].todo \ {p}]
<1>4. p \in tasks[t].impacted /\ p \in Projects /\ tasks[t].commit \in Commits
      /\ tasks[t].event # "button"
  BY <1>1, <1>2, <1>3 DEF TaskType, GoodTask
<1>5. tasks' = [tasks EXCEPT ![t] = k]
  BY <1>1, <1>2 DEF TaskType
<1>6. odd \subseteq odd' /\ odd' \subseteq Oddities /\ (p \in Recorded(tasks[t].commit) => "double row" \in odd')
  BY <1>2 DEF Typed, Oddities
<1>7. k \in TaskType /\ k.pc = "recording" /\ k.event = tasks[t].event
      /\ k.commit = tasks[t].commit /\ k.impacted = tasks[t].impacted
      /\ k.chosen = tasks[t].chosen /\ k.todo = tasks[t].todo \ {p}
  BY <1>1, <1>3 DEF TaskType
<1> HIDE DEF k
<1>8. GoodTask(k)
  BY <1>1, <1>3, <1>4, <1>7 DEF GoodTask
<1>9. QED
  BY <1>2, <1>3, <1>4, <1>5, <1>6, <1>7, <1>8, TaskStep

\* A new batch: the tables grow by one entry, and the handler is done.
NewBatch(t, projects, covers) ==
  /\ batches' \in Seq(BatchType) /\ Len(batches') = Len(batches) + 1
  /\ \A d \in Batches : batches'[d] = batches[d] /\ jobs'[d] = jobs[d]
  /\ jobs' \in Seq([Projects -> JobType]) /\ Len(jobs') = Len(batches')
  /\ LET b == Len(batches) + 1 IN
       /\ batches'[b].commit = tasks[t].commit /\ batches'[b].type = tasks[t].command
       /\ batches'[b].projects = projects /\ batches'[b].covers = covers
       /\ ~batches'[b].succeeded /\ batches'[b].check = "in_progress"
       /\ \A p \in Projects :
            /\ jobs'[b][p].at = IF p \in projects THEN "created" ELSE "none"
            /\ jobs'[b][p].row = 0 /\ ~jobs'[b][p].succeeded
  /\ UNCHANGED <<pr, rows, merge, odd>>

\* A batch comes from a handler that has recorded its projects or from the button of
\* an earlier batch, and runs what these say.
LEMMA NewBatchStep ==
  ASSUME Typed, NEW t \in Tasks, Trigger(t) \/ ApplyAll(t)
  PROVE  \E projects \in (SUBSET Projects) \ {{}}, covers \in BOOLEAN :
           /\ End(t) /\ NewBatch(t, projects, covers)
           /\ tasks[t].commit \in Commits
           /\ \/ /\ tasks[t].pc = "recording" /\ tasks[t].todo = {}
                 /\ projects = tasks[t].chosen /\ projects \subseteq tasks[t].impacted
                 /\ covers = (Cardinality(projects) = Cardinality(tasks[t].impacted))
              \/ tasks[t].event = "button" /\ projects = tasks[t].select /\ ~covers
<1>1. tasks[t] \in TaskType /\ GoodTask(tasks[t])
  BY Members
<1>2. ASSUME NEW projects \in (SUBSET Projects) \ {{}}, NEW covers \in BOOLEAN,
             tasks[t].commit \in Commits, tasks[t].command \in {"plan", "apply"},
             CreateBatch(t, projects, covers)
      PROVE  NewBatch(t, projects, covers) /\ End(t)
  <2> DEFINE r == [commit |-> tasks[t].commit, type |-> tasks[t].command,
                   projects |-> projects, covers |-> covers, succeeded |-> FALSE,
                   check |-> "in_progress"]
             f == [p \in Projects |->
                     IF p \in projects THEN [NoJob EXCEPT !.at = "created"] ELSE NoJob]
  <2>1. r \in BatchType
    BY <1>2 DEF BatchType
  <2>2. NoJob \in JobType /\ [NoJob EXCEPT !.at = "created"] \in JobType
        /\ NoJob.at = "none" /\ NoJob.row = 0 /\ ~NoJob.succeeded
        /\ [NoJob EXCEPT !.at = "created"].at = "created"
        /\ [NoJob EXCEPT !.at = "created"].row = 0
        /\ ~[NoJob EXCEPT !.at = "created"].succeeded
    BY DEF NoJob, JobType, Stages
  <2>3. f \in [Projects -> JobType]
    BY <2>2
  <2>4. \A p \in Projects : /\ f[p].at = IF p \in projects THEN "created" ELSE "none"
                            /\ f[p].row = 0 /\ ~f[p].succeeded
    BY <2>2
  <2>5. batches' = Append(batches, r) /\ jobs' = Append(jobs, f) /\ UNCHANGED <<pr, rows, merge, odd>>
    BY <1>2 DEF CreateBatch
  <2>6. /\ r.commit = tasks[t].commit /\ r.type = tasks[t].command /\ r.projects = projects
        /\ r.covers = covers /\ ~r.succeeded /\ r.check = "in_progress"
    OBVIOUS
  <2> HIDE DEF r, f
  <2>7. /\ batches' \in Seq(BatchType) /\ Len(batches') = Len(batches) + 1
        /\ batches'[Len(batches) + 1] = r
        /\ \A d \in Batches : batches'[d] = batches[d]
    BY <2>1, <2>5, AppendProperties DEF Typed, Batches
  <2>8. /\ jobs' \in Seq([Projects -> JobType]) /\ Len(jobs') = Len(jobs) + 1
        /\ jobs'[Len(jobs) + 1] = f
        /\ \A d \in Batches : jobs'[d] = jobs[d]
    BY <2>3, <2>5, AppendProperties DEF Typed, Batches
  <2>9. Len(jobs) = Len(batches)
    BY DEF Typed
  <2>10. QED
    BY <1>2, <2>4, <2>5, <2>6, <2>7, <2>8, <2>9, ZenonT(60) DEF NewBatch, CreateBatch
<1>3. CASE Trigger(t)
  <2> DEFINE covers == Cardinality(tasks[t].chosen) = Cardinality(tasks[t].impacted)
  <2>1. /\ tasks[t].pc = "recording" /\ tasks[t].todo = {} /\ Runs(t)
        /\ CreateBatch(t, tasks[t].chosen, covers)
    BY <1>3 DEF Trigger
  <2>2. /\ tasks[t].chosen \in (SUBSET Projects) \ {{}} /\ tasks[t].commit \in Commits
        /\ tasks[t].command \in {"plan", "apply"}
        /\ tasks[t].chosen \subseteq tasks[t].impacted
    <3>1. tasks[t].chosen \in SUBSET Projects /\ tasks[t].chosen \subseteq tasks[t].impacted
      BY <1>1, <2>1 DEF TaskType, GoodTask
    <3>2. tasks[t].commit \in Commits
      BY <1>1, <2>1 DEF GoodTask
    <3>3. tasks[t].chosen # {} /\ tasks[t].command \in {"plan", "apply"}
      BY <2>1, Zenon DEF Runs
    <3>4. QED
      BY <3>1, <3>2, <3>3
  <2>3. covers \in BOOLEAN
    OBVIOUS
  <2>4. NewBatch(t, tasks[t].chosen, covers) /\ End(t)
    BY <1>2, <2>1, <2>2, <2>3
  <2>5. QED
    BY <2>1, <2>2, <2>3, <2>4
<1>4. CASE ApplyAll(t)
  <2>1. tasks[t].event = "button" /\ CreateBatch(t, tasks[t].select, FALSE)
    BY <1>4 DEF ApplyAll
  <2>2. /\ tasks[t].select \in (SUBSET Projects) \ {{}} /\ tasks[t].commit \in Commits
        /\ tasks[t].command \in {"plan", "apply"}
    <3>1. tasks[t].select \in SUBSET Projects
      BY <1>1 DEF TaskType
    <3>2. tasks[t].select # {} /\ tasks[t].pc = "received" /\ tasks[t].command = "apply"
      BY <1>1, <2>1 DEF GoodTask
    <3>3. tasks[t].commit \in Commits
      BY <1>1, <2>1, <3>2, Zenon DEF GoodTask
    <3>4. QED
      BY <3>1, <3>2, <3>3
  <2>3. NewBatch(t, tasks[t].select, FALSE) /\ End(t)
    BY <1>2, <2>1, <2>2
  <2>4. QED
    BY <2>1, <2>2, <2>3
<1>5. QED
  BY <1>3, <1>4

\* A delivery: a button's projects are those of a batch at its commit.
Delivery ==
  \E k \in TaskType :
    /\ GoodTask(k) /\ Deliver(k) /\ k.pc = "received"
    /\ k.event = "button" => \E b \in Batches : /\ k.select = JobsOf(b)
                                                /\ k.commit = batches[b].commit

Webhooks == Push \/ Comment \/ Click \/ Close \/ ConvertToDraft

\* A webhook adds a task, and opens no pull request that was closed or a draft.
LEMMA WebhookStep ==
  ASSUME Typed, Webhooks
  PROVE  /\ Delivery /\ UNCHANGED <<rows, batches, jobs, merge, odd>>
         /\ pr' \in [head : Commits, state : {"open", "closed", "merged"}, draft : BOOLEAN]
         /\ pr'.state = "open" /\ ~pr'.draft => pr.state = "open" /\ ~pr.draft
<1> DEFINE PrType == [head : Commits, state : {"open", "closed", "merged"}, draft : BOOLEAN]
<1>1. /\ pr \in PrType /\ pr.draft \in BOOLEAN /\ pr.head \in 0..Len(ImpactedBy) /\ pr.head \in Commits
      /\ OnPushed \in Commands /\ OnClosed \in Commands /\ CommentCommands \subseteq Commands
      /\ Selections \subseteq SUBSET Projects
  BY Impacted, CommandsAssumption, SelectionsAssumption DEF Typed
<1>2. ASSUME NEW event \in Events \ {"comment", "button"}, NEW command \in Commands,
             NEW commit \in Commits, Deliver(Task(event, command, {}, commit))
      PROVE  Delivery
  <2> DEFINE k == Task(event, command, {}, commit)
  <2>1. commit \in 0..Len(ImpactedBy) /\ {} \in SUBSET Projects /\ Deliver(k)
    BY <1>2, Impacted
  <2>2. /\ k \in TaskType /\ k.pc = "received" /\ k.event = event /\ k.select = {}
        /\ k.commit = commit /\ k.todo = {}
    BY <1>1, <2>1 DEF Task, TaskType, Events
  <2> HIDE DEF k
  <2>3. GoodTask(k)
    BY <2>2 DEF GoodTask
  <2>4. QED
    BY <2>1, <2>2, <2>3 DEF Delivery
<1>3. CASE Push
  <2>1. /\ pr' = [pr EXCEPT !.head = pr.head + 1] /\ pr.head < Len(ImpactedBy)
        /\ Deliver(Task("synchronize", OnPushed, {}, pr.head + 1))
        /\ UNCHANGED <<rows, batches, jobs, merge, odd>>
    BY <1>3 DEF Push
  <2>2. pr.head + 1 \in Commits
    BY <1>1, <2>1, Impacted DEF Commits
  <2>3. pr' \in PrType /\ pr'.state = pr.state /\ pr'.draft = pr.draft
    BY <1>1, <2>1, <2>2
  <2>4. "synchronize" \in Events \ {"comment", "button"}
    BY DEF Events
  <2>5. Delivery
    BY <1>1, <1>2, <2>1, <2>2, <2>4
  <2>6. QED
    BY <2>1, <2>3, <2>5
<1>4. CASE Comment
  <2>1. PICK command \in CommentCommands, select \in Selections :
          Deliver(Task("comment", command, select, 0))
    BY <1>4 DEF Comment
  <2> DEFINE k == Task("comment", command, select, 0)
  <2>2. /\ 0 \in 0..Len(ImpactedBy) /\ "comment" \in Events /\ command \in Commands
        /\ Deliver(k)
    BY <1>1, <2>1, Impacted DEF Events
  <2>3. select \in SUBSET Projects
    BY SelectionsAssumption
  <2>4. k \in TaskType /\ k.pc = "received" /\ k.event = "comment" /\ k.todo = {}
    BY <1>1, <2>2, <2>3 DEF Task, TaskType
  <2> HIDE DEF k
  <2>5. Delivery
    BY <2>2, <2>4 DEF Delivery, GoodTask
  <2>6. QED
    BY <1>1, <1>4, <2>5 DEF Comment
<1>5. CASE Click
  <2>1. PICK b \in Batches : Deliver(Task("button", "apply", batches[b].projects, batches[b].commit))
    BY <1>5 DEF Click
  <2> DEFINE k == Task("button", "apply", batches[b].projects, batches[b].commit)
  <2>2. batches[b] \in BatchType /\ Deliver(k)
    BY <2>1, Members
  <2>3. /\ batches[b].projects \in SUBSET Projects /\ batches[b].projects # {}
        /\ batches[b].commit \in Commits
    <3>1. batches[b].projects \in (SUBSET Projects) \ {{}} /\ batches[b].commit \in Commits
      BY <2>2 DEF BatchType
    <3>2. QED
      BY <3>1
  <2>4. "button" \in Events /\ "apply" \in Commands /\ batches[b].commit \in 0..Len(ImpactedBy)
    BY <2>3, Impacted DEF Events, Commands
  <2>5. /\ k \in TaskType /\ k.pc = "received" /\ k.event = "button" /\ k.command = "apply"
        /\ k.select = JobsOf(b) /\ k.commit = batches[b].commit /\ k.todo = {}
    BY <1>1, <2>3, <2>4 DEF Task, TaskType, JobsOf
  <2> HIDE DEF k
  <2>6. JobsOf(b) # {}
    BY <2>3 DEF JobsOf
  <2>7. Delivery
    BY <2>2, <2>3, <2>5, <2>6 DEF Delivery, GoodTask
  <2>8. QED
    BY <1>1, <1>5, <2>7 DEF Click
<1>6. CASE Close
  <2>1. /\ pr' = [pr EXCEPT !.state = "closed"]
        /\ Deliver(Task("closed", OnClosed, {}, pr.head))
        /\ UNCHANGED <<rows, batches, jobs, merge, odd>>
    BY <1>6 DEF Close
  <2>2. pr' \in PrType /\ pr'.state = "closed"
    BY <1>1, <2>1
  <2>3. "closed" \in Events \ {"comment", "button"}
    BY DEF Events
  <2>4. Delivery
    BY <1>1, <1>2, <2>1, <2>3
  <2>5. QED
    BY <2>1, <2>2, <2>4
<1>7. CASE ConvertToDraft
  <2> DEFINE command == IF AllowDraftPRs THEN "noop" ELSE "unlock"
             k0 == Task("converted_to_draft", command, {}, pr.head)
             k == [k0 EXCEPT !.draft = TRUE]
  <2>1. /\ pr' = [pr EXCEPT !.draft = TRUE] /\ Deliver(k)
        /\ UNCHANGED <<rows, batches, jobs, merge, odd>>
    BY <1>7 DEF ConvertToDraft
  <2>2. pr' \in PrType /\ pr'.draft
    BY <1>1, <2>1
  <2>3. "converted_to_draft" \in Events
    BY DEF Events
  <2>9. command \in Commands /\ {} \in SUBSET Projects
    BY DEF Commands
  <2> HIDE DEF command
  <2>4. k0 \in TaskType /\ k0.pc = "received" /\ k0.event = "converted_to_draft"
        /\ k0.select = {} /\ k0.commit = pr.head /\ k0.todo = {}
    BY <1>1, <2>3, <2>9 DEF Task, TaskType
  <2> HIDE DEF k0
  <2>5. k \in TaskType /\ k.pc = "received" /\ k.event = "converted_to_draft"
        /\ k.select = {} /\ k.commit = pr.head /\ k.todo = {}
    BY <2>4 DEF TaskType
  <2> HIDE DEF k
  <2>6. GoodTask(k)
    BY <1>1, <2>5 DEF GoodTask
  <2>7. Delivery
    BY <2>1, <2>5, <2>6 DEF Delivery
  <2>8. QED
    BY <2>1, <2>2, <2>7
<1>8. QED
  BY <1>3, <1>4, <1>5, <1>6, <1>7 DEF Webhooks

\* The steps of the system, by the tables they write.
HandlerEnds(t) == End(t) /\ UNCHANGED <<pr, rows, batches, jobs, merge, odd>>

\* A step is a webhook, a step of a handler, a new batch, or a step of a report.
LEMMA Steps ==
  ASSUME [Next]_vars
  PROVE  \/ UNCHANGED vars \/ Webhooks
         \/ \E t \in Tasks : ReadConfig(t) \/ Detect(t) \/ CheckRows(t) \/ HandlerEnds(t)
         \/ \E t \in Tasks : CreateImpactedProject(t)
         \/ \E t \in Tasks : Trigger(t) \/ ApplyAll(t)
         \/ \E b \in Batches : \E p \in JobsOf(b) : Reporter(b, p)
<1>1. ASSUME NEW t \in Tasks, Handle(t)
      PROVE  \/ ReadConfig(t) \/ Detect(t) \/ CheckRows(t) \/ HandlerEnds(t)
             \/ CreateImpactedProject(t) \/ Trigger(t) \/ ApplyAll(t)
  BY <1>1 DEF Handle, GiveUp, Stop, HandlerEnds
<1>2. QED
  BY <1>1 DEF Next, Webhooks, Reporter

\* There are no webhooks, rows and batches yet.
LEMMA TypedInit ==
  ASSUME Init
  PROVE  Typed
<1> DEFINE k == [event |-> "opened", command |-> OnPushed, draft |-> FALSE, select |-> {},
                 commit |-> 1, pc |-> "received", impacted |-> {}, chosen |-> {}, todo |-> {}]
<1>1. pr \in [head : Commits, state : {"open", "closed", "merged"}, draft : BOOLEAN]
  BY Impacted DEF Init
<1>2. tasks = <<k>>
  BY DEF Init, Task
<1>3. k \in TaskType /\ GoodTask(k)
  BY Impacted, CommandsAssumption DEF TaskType, GoodTask, Events
<1> HIDE DEF k
<1>4. tasks \in Seq({x \in TaskType : GoodTask(x)})
  BY <1>2, <1>3
<1>5. rows \in Seq(RowType) /\ batches \in Seq(BatchType) /\ jobs \in Seq([Projects -> JobType])
      /\ Len(batches) = 0 /\ Len(jobs) = 0 /\ odd = {}
  BY EmptySeq DEF Init
<1>6. merge \in MergeType
  BY Impacted DEF Init, NoMerge, MergeType
<1>7. Belong
  BY <1>5 DEF Belong, Batches
<1>8. QED
  BY <1>1, <1>4, <1>5, <1>6, <1>7 DEF Typed

\* auto_merge records a commit of a batch.
LEMMA ReporterTypes ==
  ASSUME Typed, NEW b \in Batches, NEW p \in JobsOf(b), Reporter(b, p)
  PROVE  /\ pr' \in [head : Commits, state : {"open", "closed", "merged"}, draft : BOOLEAN]
         /\ merge' \in MergeType
         /\ pr'.head = pr.head
         /\ pr' = pr \/ pr'.state = "merged"
         /\ \/ merge' = merge
            \/ /\ jobs[b][p].at = "merging" /\ merge'.excuses = odd
               /\ merge'.missing = ImpactedBy[batches[b].commit] \ AppliedAt(batches[b].commit)
<1>1. CASE MergePullRequest(b, p)
  <2>1. batches[b].commit \in Commits
    BY Members DEF BatchType
  <2>2. /\ batches[b].commit \in 0..Len(ImpactedBy) /\ ImpactedBy[batches[b].commit] \subseteq Projects
    BY <2>1, Impacted
  <2>3. pr \in [head : Commits, state : {"open", "closed", "merged"}, draft : BOOLEAN]
    BY DEF Typed
  <2>4. pr.head \in Nat
    BY <2>3, Impacted DEF Commits
  <2>5. /\ pr' \in [head : Commits, state : {"open", "closed", "merged"}, draft : BOOLEAN]
        /\ pr'.head = pr.head /\ pr'.state = "merged"
    BY <1>1, <2>3 DEF MergePullRequest
  <2>6. /\ merge' \in MergeType /\ jobs[b][p].at = "merging" /\ merge'.excuses = odd
        /\ merge'.missing = ImpactedBy[batches[b].commit] \ AppliedAt(batches[b].commit)
    BY <1>1, <2>2, <2>4 DEF MergePullRequest, MergeType, Typed
  <2>7. QED
    BY <2>5, <2>6
<1>2. CASE ~MergePullRequest(b, p)
  <2>1. pr' = pr /\ merge' = merge
    BY <1>2 DEF Reporter, Report, ReadRow, SaveRow, SaveJob, UpdateBatchStatus, RefreshBatch,
       UpdateCheckRun, Automerge, MergeRefused, JobFails, ReportFails, MissRow, WriteLost,
       AutomergeByBatch
  <2>2. QED
    BY <2>1 DEF Typed
<1>3. QED
  BY <1>1, <1>2

\* Each step keeps the types and what belongs to the place of a task.
LEMMA TypedStep ==
  ASSUME Typed, [Next]_vars
  PROVE  Typed'
<1> DEFINE Tables ==
      /\ Len(rows) \in Nat /\ Len(batches) \in Nat
      /\ \A d \in Batches, q \in Projects : jobs[d][q] \in JobType
<1>1. Tables
  BY Members
<1>2. CASE UNCHANGED vars
  BY <1>2 DEF vars, Typed, Belong, Batches, JobsOf, RowsOf, RowIDs
<1>3. ASSUME UNCHANGED <<rows, batches, jobs, merge>>,
             pr' \in [head : Commits, state : {"open", "closed", "merged"}, draft : BOOLEAN],
             tasks' \in Seq({x \in TaskType : GoodTask(x)}), odd' \in SUBSET Oddities
      PROVE  Typed'
  <2>1. Belong'
    BY <1>3 DEF Typed, Belong, Batches, JobsOf, RowsOf, RowIDs
  <2>2. QED
    BY <1>3, <2>1 DEF Typed
<1>4. CASE Webhooks
  <2>1. tasks' \in Seq({x \in TaskType : GoodTask(x)})
    BY <1>4, WebhookStep, Webhook DEF Delivery
  <2>2. QED
    BY <1>3, <1>4, <2>1, WebhookStep DEF Typed
<1>5. ASSUME NEW t \in Tasks, ReadConfig(t) \/ Detect(t) \/ CheckRows(t) \/ HandlerEnds(t)
      PROVE  Typed'
  <2>1. tasks' \in Seq({x \in TaskType : GoodTask(x)})
    BY <1>5, ReadConfigStep, DetectStep, CheckRowsStep, Ends DEF HandlerEnds
  <2>2. odd' \in SUBSET Oddities
    BY <1>5, DetectStep, CheckRowsStep DEF HandlerEnds, ReadConfig, Typed
  <2>3. UNCHANGED <<pr, rows, batches, jobs, merge>>
    BY <1>5 DEF ReadConfig, Detect, CheckRows, HandlerEnds
  <2>4. QED
    BY <1>3, <2>1, <2>2, <2>3 DEF Typed
<1>6. ASSUME NEW t \in Tasks, CreateImpactedProject(t)
      PROVE  Typed'
  <2>1. PICK p \in Projects : rows' = Append(rows, [commit |-> tasks[t].commit, project |-> p,
                                                    planned |-> FALSE, applied |-> FALSE])
    BY <1>6, CreateImpactedProjectStep
  <2>2. [commit |-> tasks[t].commit, project |-> p, planned |-> FALSE, applied |-> FALSE] \in RowType
    BY <1>6, CreateImpactedProjectStep DEF RowType
  <2>3. /\ rows' \in Seq(RowType) /\ Len(rows') = Len(rows) + 1
        /\ \A i \in RowIDs : rows'[i] = rows[i]
    BY <2>1, <2>2, NewRow
  <2>4. UNCHANGED <<pr, batches, jobs, merge>>
    BY <1>6 DEF CreateImpactedProject
  <2>5. RowIDs \subseteq RowIDs'
    BY <1>1, <2>3 DEF RowIDs
  <2>6. \A c : RowsOf(c) \subseteq RowsOf(c)'
    BY <2>3, <2>5 DEF RowsOf
  <2>7. Belong'
    BY <1>1, <2>3, <2>4, <2>6 DEF Typed, Belong, Batches, JobsOf, JobType
  <2>8. QED
    BY <1>6, <2>3, <2>4, <2>7, CreateImpactedProjectStep DEF Typed
<1>7. ASSUME NEW t \in Tasks, Trigger(t) \/ ApplyAll(t)
      PROVE  Typed'
  <2>1. PICK projects \in (SUBSET Projects) \ {{}}, covers \in BOOLEAN :
           End(t) /\ NewBatch(t, projects, covers)
    BY <1>7, NewBatchStep
  <2>2. tasks' \in Seq({x \in TaskType : GoodTask(x)})
    BY <2>1, Ends
  <2>3. /\ batches' \in Seq(BatchType) /\ jobs' \in Seq([Projects -> JobType])
        /\ Len(jobs') = Len(batches') /\ UNCHANGED <<pr, rows, merge, odd>>
    BY <2>1 DEF NewBatch
  <2>4. Belong'
    <3>1. ASSUME NEW d \in Batches', NEW q \in Projects
          PROVE  /\ jobs'[d][q].at # "none" <=> q \in batches'[d].projects
                 /\ jobs'[d][q].row <= Len(rows)
                 /\ jobs'[d][q].at = "read" => jobs'[d][q].row \in RowsOf(batches'[d].commit)
      <4>1. d \in Batches \/ d = Len(batches) + 1
        BY <1>1, <2>1 DEF Batches, NewBatch
      <4>2. CASE d \in Batches
        BY <2>1, <4>2 DEF NewBatch, Typed, Belong, JobsOf
      <4>3. CASE d = Len(batches) + 1
        BY <1>1, <2>1, <4>3 DEF NewBatch
      <4>4. QED
        BY <4>1, <4>2, <4>3
    <3>2. \A c : RowsOf(c)' = RowsOf(c)
      BY <2>3 DEF RowsOf, RowIDs
    <3>3. QED
      BY <2>3, <3>1, <3>2 DEF Belong, JobsOf
  <2>5. QED
    BY <2>2, <2>3, <2>4 DEF Typed
<1>8. ASSUME NEW b \in Batches, NEW p \in JobsOf(b), Reporter(b, p)
      PROVE  Typed'
  <2>1. /\ ReportFrame(b, p)
        /\ jobs'[b][p].at \notin {"none", "created"}
        /\ jobs'[b][p].at = "read" => jobs'[b][p].row \in RowsOf(batches[b].commit)
        /\ jobs'[b][p].at # "read" => jobs'[b][p].row \in {0, jobs[b][p].row}
    BY <1>8, ReporterStep
  <2>2. pr' \in [head : Commits, state : {"open", "closed", "merged"}, draft : BOOLEAN]
        /\ merge' \in MergeType
    BY <1>8, ReporterTypes
  <2>3. \A c : RowsOf(c)' = RowsOf(c)
    BY <2>1, SameRowsOf DEF ReportFrame
  <2>4. Batches' = Batches /\ Len(rows') = Len(rows) /\ Len(jobs') = Len(batches')
    BY <2>1 DEF ReportFrame, SameBatches, SameRows, Batches, Typed
  <2>5. \A i \in RowIDs : i <= Len(rows)
    BY <1>1 DEF RowIDs
  <2>6. Belong'
    <3>1. ASSUME NEW d \in Batches, NEW q \in Projects
          PROVE  /\ jobs'[d][q].at # "none" <=> q \in batches'[d].projects
                 /\ jobs'[d][q].row <= Len(rows)
                 /\ jobs'[d][q].at = "read" => jobs'[d][q].row \in RowsOf(batches'[d].commit)
      <4>1. batches'[d].projects = JobsOf(d) /\ batches'[d].commit = batches[d].commit
        BY <2>1 DEF ReportFrame, SameBatches, JobsOf
      <4>2. /\ jobs[d][q].at # "none" <=> q \in JobsOf(d)
            /\ jobs[d][q].row <= Len(rows)
            /\ jobs[d][q].at = "read" => jobs[d][q].row \in RowsOf(batches[d].commit)
        BY DEF Typed, Belong
      <4>3. CASE d = b /\ q = p
        <5>1. q \in JobsOf(d)
          BY <1>8, <4>3
        <5>2. jobs'[d][q].row <= Len(rows)
          BY <1>1, <2>1, <2>5, <4>2, <4>3 DEF RowsOf
        <5>3. QED
          BY <2>1, <4>1, <4>3, <5>1, <5>2
      <4>4. CASE ~(d = b /\ q = p)
        <5>1. jobs'[d][q] = jobs[d][q]
          BY <2>1, <4>4 DEF ReportFrame
        <5>2. QED
          BY <4>1, <4>2, <5>1
      <4>5. QED
        BY <4>3, <4>4
    <3>2. QED
      BY <2>3, <2>4, <3>1 DEF Belong, JobsOf
  <2>7. QED
    BY <2>1, <2>2, <2>4, <2>6 DEF Typed, ReportFrame
<1>9. QED
  BY <1>2, <1>4, <1>5, <1>6, <1>7, <1>8, Steps

\* The types hold in every history.
LEMMA TypedAlways == Spec => []Typed
<1>1. Init => Typed
  BY TypedInit
<1>2. Typed /\ [Next]_vars => Typed'
  BY TypedStep
<1>3. QED
  BY <1>1, <1>2, PTL DEF Spec

\* Every handler and every report keeps the tables well formed: a webhook has
\* its payload, a row its commit and project, a batch one job for each of its
\* projects; the row that a report has read is one of the table.
THEOREM TypeCorrect == Spec => []TypeOK
<1>1. ASSUME Typed
      PROVE  TypeOK
  <2>1. \A t \in Tasks : tasks[t] \in TaskType
    BY <1>1, Members
  <2>2. batches \in Seq([commit : Commits, type : {"plan", "apply"},
                      projects : SUBSET Projects, covers : BOOLEAN,
                      succeeded : BOOLEAN,
                      check : {"in_progress", "success"}])
    <3> DEFINE B == [commit : Commits, type : {"plan", "apply"}, projects : SUBSET Projects,
                     covers : BOOLEAN, succeeded : BOOLEAN, check : {"in_progress", "success"}]
    <3>1. \A x \in BatchType : x \in B
      BY DEF BatchType
    <3>2. batches \in Seq(BatchType)
      BY <1>1 DEF Typed
    <3> HIDE DEF B
    <3>3. batches \in Seq(B)
      BY <3>1, <3>2
    <3>4. QED
      BY <3>3 DEF B
  <2>3. ASSUME NEW b \in Batches
        PROVE  jobs[b] \in [Projects -> [at : Stages, row : 0..Len(rows),
                                 planned : BOOLEAN, applied : BOOLEAN,
                                 succeeded : BOOLEAN, shown : BOOLEAN]]
    <3>1. jobs[b] \in [Projects -> JobType] /\ Len(rows) \in Nat
      BY <1>1, Members
    <3>2. \A p \in Projects : jobs[b][p].row <= Len(rows)
      BY <1>1 DEF Typed, Belong
    <3>3. \A p \in Projects : jobs[b][p] \in [at : Stages, row : 0..Len(rows),
                                 planned : BOOLEAN, applied : BOOLEAN,
                                 succeeded : BOOLEAN, shown : BOOLEAN]
      BY <3>1, <3>2 DEF JobType
    <3>4. QED
      BY <3>1, <3>3
  <2>4. /\ merge.commit \in 0..Len(ImpactedBy) /\ merge.missing \subseteq Projects
        /\ odd \cup merge.excuses \subseteq Oddities
    BY <1>1 DEF Typed, MergeType
  <2>5. QED
    BY <1>1, <2>1, <2>2, <2>3, <2>4 DEF Typed, TypeOK, TaskType, RowType
<1>2. QED
  BY <1>1, TypedAlways, PTL

-----------------------------------------------------------------------------
(* A batch's projects have rows                                            *)

\* What has gone wrong stays known.
LEMMA OddGrows ==
  ASSUME Typed, [Next]_vars
  PROVE  odd \subseteq odd'
<1>1. CASE UNCHANGED vars
  BY <1>1 DEF vars
<1>2. CASE Webhooks
  BY <1>2, WebhookStep
<1>3. ASSUME NEW t \in Tasks, ReadConfig(t) \/ Detect(t) \/ CheckRows(t) \/ HandlerEnds(t)
      PROVE  odd \subseteq odd'
  BY <1>3, DetectStep, CheckRowsStep DEF HandlerEnds, ReadConfig
<1>4. ASSUME NEW t \in Tasks, CreateImpactedProject(t)
      PROVE  odd \subseteq odd'
  BY <1>4, CreateImpactedProjectStep
<1>5. ASSUME NEW t \in Tasks, Trigger(t) \/ ApplyAll(t)
      PROVE  odd \subseteq odd'
  BY <1>5, NewBatchStep DEF NewBatch
<1>6. ASSUME NEW b \in Batches, NEW p \in JobsOf(b), Reporter(b, p)
      PROVE  odd \subseteq odd'
  BY <1>6, ReporterStep DEF ReportFrame
<1>7. QED
  BY <1>1, <1>2, <1>3, <1>4, <1>5, <1>6, Steps

\* What a handler knows of the projects of its commit, of which those in
\* recorded have rows, and what a batch may rely on.
Knows(k, recorded) ==
  /\ k.pc \in {"detected", "recording"} => k.impacted = ImpactedBy[k.commit]
  /\ k.pc = "recording" => k.impacted \subseteq recorded \cup k.todo
  /\ k.event = "button" => k.select \subseteq ImpactedBy[k.commit]
                           /\ ImpactedBy[k.commit] \subseteq recorded

Relies(r, recorded) ==
  /\ r.projects \subseteq ImpactedBy[r.commit] /\ ImpactedBy[r.commit] \subseteq recorded
  /\ r.covers => r.projects = ImpactedBy[r.commit]

\* As long as no handler works with a head newer than its commit or finds rows
\* of some of its projects only, every batch's commit has all its rows: they
\* are written before the batch is, and the button copies a batch.
KnownRows ==
  odd \cap {"moved", "partial"} = {} =>
    /\ \A t \in Tasks : Knows(tasks[t], Recorded(tasks[t].commit))
    /\ \A b \in Batches : Relies(batches[b], Recorded(batches[b].commit))
    /\ \A i \in RowIDs : rows[i].project \in ImpactedBy[rows[i].commit]

\* A new row adds its project to those recorded for its commit.
LEMMA NewRowRecorded ==
  ASSUME Typed, NEW r \in RowType, rows' = Append(rows, r)
  PROVE  /\ \A c : Recorded(c)' = IF c = r.commit THEN Recorded(c) \cup {r.project} ELSE Recorded(c)
         /\ \A c : Recorded(c) \subseteq Recorded(c)'
         /\ RowIDs' = RowIDs \cup {Len(rows) + 1} /\ Len(rows) + 1 \notin RowIDs
         /\ \A c : RowsOf(c)' = IF c = r.commit THEN RowsOf(c) \cup {Len(rows) + 1} ELSE RowsOf(c)
<1>1. /\ Len(rows) \in Nat /\ Len(rows') = Len(rows) + 1 /\ rows'[Len(rows) + 1] = r
      /\ \A i \in RowIDs : rows'[i] = rows[i]
  BY NewRow, Members
<1>2. RowIDs' = RowIDs \cup {Len(rows) + 1} /\ Len(rows) + 1 \notin RowIDs
  BY <1>1 DEF RowIDs
<1>3. \A c : RowsOf(c)' = IF c = r.commit THEN RowsOf(c) \cup {Len(rows) + 1} ELSE RowsOf(c)
  <2>1. ASSUME NEW c, NEW i
        PROVE  i \in RowsOf(c)' <=> i \in RowsOf(c) \/ (c = r.commit /\ i = Len(rows) + 1)
    BY <1>1, <1>2 DEF RowsOf
  <2>2. QED
    BY <2>1, SetExtensionality
<1>4. ASSUME NEW c, NEW q
      PROVE  q \in Recorded(c)' <=> q \in Recorded(c) \/ (c = r.commit /\ q = r.project)
  <2>1. q \in Recorded(c)' <=> \E i \in RowsOf(c)' : rows'[i].project = q
    BY DEF Recorded
  <2>2. q \in Recorded(c) <=> \E i \in RowsOf(c) : rows[i].project = q
    BY DEF Recorded
  <2>3. \A i \in RowsOf(c) : rows'[i].project = rows[i].project
    BY <1>1 DEF RowsOf
  <2>4. QED
    BY <1>1, <1>3, <2>1, <2>2, <2>3
<1>5. \A c : Recorded(c) \subseteq Recorded(c)'
  BY <1>4
<1>6. \A c : Recorded(c)' = IF c = r.commit THEN Recorded(c) \cup {r.project} ELSE Recorded(c)
  <2>1. ASSUME NEW c, c = r.commit
        PROVE  Recorded(c)' = Recorded(c) \cup {r.project}
    BY <1>4, <2>1, SetExtensionality
  <2>2. ASSUME NEW c, c # r.commit
        PROVE  Recorded(c)' = Recorded(c)
    BY <1>4, <2>2, SetExtensionality
  <2>3. QED
    BY <2>1, <2>2
<1>7. QED
  BY <1>2, <1>3, <1>5, <1>6

\* Each step leaves a task knowing, and a batch relying on, rows that are there:
\* rows are never deleted.
LEMMA KnownRowsStep ==
  ASSUME Typed, KnownRows, [Next]_vars
  PROVE  KnownRows'
<1> SUFFICES ASSUME odd' \cap {"moved", "partial"} = {}
             PROVE  /\ \A t \in Tasks' : Knows(tasks'[t], Recorded(tasks[t].commit)')
                    /\ \A b \in Batches' : Relies(batches'[b], Recorded(batches[b].commit)')
                    /\ \A i \in RowIDs' : rows'[i].project \in ImpactedBy[rows'[i].commit]
  BY DEF KnownRows
<1> DEFINE KT == \A t \in Tasks' : Knows(tasks'[t], Recorded(tasks[t].commit)')
           KB == \A b \in Batches' : Relies(batches'[b], Recorded(batches[b].commit)')
           KR == \A i \in RowIDs' : rows'[i].project \in ImpactedBy[rows'[i].commit]
<1>1. /\ \A t \in Tasks : Knows(tasks[t], Recorded(tasks[t].commit))
      /\ \A b \in Batches : Relies(batches[b], Recorded(batches[b].commit))
      /\ \A i \in RowIDs : rows[i].project \in ImpactedBy[rows[i].commit]
  BY OddGrows DEF KnownRows
<1>2. UNCHANGED rows => (\A c : Recorded(c)' = Recorded(c)) /\ KR
  BY <1>1 DEF Recorded, RowsOf, RowIDs
<1>3. UNCHANGED <<rows, batches>> => KB
  BY <1>1, <1>2 DEF Batches
<1>4. ASSUME NEW t \in Tasks, Tasks' = Tasks, UNCHANGED rows,
             \A u \in Tasks : u # t => tasks'[u] = tasks[u],
             Knows(tasks'[t], Recorded(tasks'[t].commit))
      PROVE  KT
  BY <1>1, <1>2, <1>4
<1>5. CASE UNCHANGED vars
  BY <1>1, <1>2, <1>3, <1>5 DEF vars, Tasks
<1>6. CASE Webhooks
  <2>1. PICK k \in TaskType :
          /\ GoodTask(k) /\ Deliver(k) /\ k.pc = "received"
          /\ k.event = "button" => \E b \in Batches : /\ k.select = JobsOf(b)
                                                      /\ k.commit = batches[b].commit
    BY <1>6, WebhookStep DEF Delivery
  <2>2. /\ Len(tasks') = Len(tasks) + 1 /\ tasks'[Len(tasks) + 1] = k
        /\ \A t \in Tasks : tasks'[t] = tasks[t]
    BY <2>1, Webhook
  <2>3. UNCHANGED <<rows, batches>>
    BY <1>6, WebhookStep
  <2>4. Knows(k, Recorded(k.commit))
    BY <1>1, <2>1 DEF Knows, Relies, JobsOf
  <2>5. KT
    <3>1. ASSUME NEW t \in Tasks'
          PROVE  t \in Tasks \/ t = Len(tasks) + 1
      BY <2>2, Members DEF Tasks
    <3>2. QED
      BY <1>1, <1>2, <2>2, <2>3, <2>4, <3>1
  <2>6. QED
    BY <1>2, <1>3, <2>3, <2>5
<1>7. ASSUME NEW t \in Tasks, ReadConfig(t) \/ Detect(t) \/ CheckRows(t) \/ HandlerEnds(t)
      PROVE  KT /\ KB /\ KR
  <2>1. UNCHANGED <<rows, batches>>
    BY <1>7 DEF ReadConfig, Detect, CheckRows, HandlerEnds
  <2>2. Tasks' = Tasks /\ \A u \in Tasks : u # t => tasks'[u] = tasks[u]
    BY <1>7, ReadConfigStep, DetectStep, CheckRowsStep, Ends DEF HandlerEnds
  <2>3. ReadConfig(t) => Knows(tasks'[t], Recorded(tasks'[t].commit))
    BY ReadConfigStep DEF Knows
  <2>4. Detect(t) => Knows(tasks'[t], Recorded(tasks'[t].commit))
    BY DetectStep DEF Knows
  <2>5. HandlerEnds(t) => Knows(tasks'[t], Recorded(tasks'[t].commit))
    BY Ends DEF Knows, HandlerEnds
  <2>6. CheckRows(t) => Knows(tasks'[t], Recorded(tasks'[t].commit))
    <3> SUFFICES ASSUME CheckRows(t)
                 PROVE  Knows(tasks'[t], Recorded(tasks'[t].commit))
      OBVIOUS
    <3>1. /\ tasks[t].pc = "detected" /\ tasks'[t].commit = tasks[t].commit
          /\ tasks'[t].event = tasks[t].event /\ tasks'[t].impacted = tasks[t].impacted
          /\ \/ tasks'[t].todo = tasks[t].impacted
             \/ tasks[t].impacted \subseteq Recorded(tasks[t].commit)
             \/ "partial" \in odd'
      BY CheckRowsStep
    <3>2. Knows(tasks[t], Recorded(tasks[t].commit)) /\ tasks[t].event # "button"
      BY <1>1, <3>1, Members DEF GoodTask
    <3>3. "partial" \notin odd'
      OBVIOUS
    <3>4. tasks[t].impacted = ImpactedBy[tasks[t].commit]
      BY <3>1, <3>2 DEF Knows
    <3>5. tasks'[t].impacted \subseteq Recorded(tasks[t].commit) \cup tasks'[t].todo
      BY <3>1, <3>3
    <3>6. QED
      BY <3>1, <3>2, <3>4, <3>5 DEF Knows
  <2>7. KT
    BY <1>4, <1>7, <2>1, <2>2, <2>3, <2>4, <2>5, <2>6
  <2>8. QED
    BY <1>2, <1>3, <2>1, <2>7
<1>8. ASSUME NEW t \in Tasks, CreateImpactedProject(t)
      PROVE  KT /\ KB /\ KR
  <2>1. PICK p \in tasks[t].impacted :
              /\ p \in Projects /\ tasks'[t].todo = tasks[t].todo \ {p}
              /\ rows' = Append(rows, [commit |-> tasks[t].commit, project |-> p,
                                       planned |-> FALSE, applied |-> FALSE])
    BY <1>8, CreateImpactedProjectStep
  <2> DEFINE r == [commit |-> tasks[t].commit, project |-> p, planned |-> FALSE, applied |-> FALSE]
  <2>2. r \in RowType /\ r.commit = tasks[t].commit /\ r.project = p
    BY <1>8, <2>1, CreateImpactedProjectStep DEF RowType
  <2>3. rows' = Append(rows, r)
    BY <2>1
  <2> HIDE DEF r
  <2>4. /\ \A c : Recorded(c)' = IF c = r.commit THEN Recorded(c) \cup {r.project} ELSE Recorded(c)
        /\ \A c : Recorded(c) \subseteq Recorded(c)'
        /\ RowIDs' = RowIDs \cup {Len(rows) + 1}
    BY <2>2, <2>3, NewRowRecorded
  <2>5. /\ rows'[Len(rows) + 1] = r /\ \A i \in RowIDs : rows'[i] = rows[i]
    BY <2>2, <2>3, NewRow
  <2>6. tasks[t].impacted = ImpactedBy[tasks[t].commit]
        /\ tasks[t].impacted \subseteq Recorded(tasks[t].commit) \cup tasks[t].todo
    <3>1. tasks[t].pc = "recording"
      BY <1>8, CreateImpactedProjectStep
    <3>2. Knows(tasks[t], Recorded(tasks[t].commit))
      BY <1>1
    <3>3. QED
      BY <3>1, <3>2 DEF Knows
  <2>7. KR
    <3>1. r.project \in ImpactedBy[r.commit]
      BY <2>1, <2>2, <2>6
    <3>2. QED
      BY <1>1, <2>4, <2>5, <3>1
  <2>8. UNCHANGED batches
    BY <1>8 DEF CreateImpactedProject
  <2>9. KB
    <3>1. ASSUME NEW b \in Batches
          PROVE  Relies(batches[b], Recorded(batches[b].commit)')
      BY <1>1, <2>4, <2>8 DEF Relies
    <3>2. QED
      BY <2>8, <3>1 DEF Batches
  <2>10. /\ Tasks' = Tasks /\ \A u \in Tasks : u # t => tasks'[u] = tasks[u]
         /\ tasks'[t].pc = "recording" /\ tasks'[t].commit = tasks[t].commit
         /\ tasks'[t].event = tasks[t].event /\ tasks'[t].impacted = tasks[t].impacted
         /\ tasks[t].pc = "recording"
    BY <1>8, CreateImpactedProjectStep
  <2>11. tasks[t].event # "button"
    BY <2>10, Members DEF GoodTask
  <2>12. Knows(tasks'[t], Recorded(tasks[t].commit)')
    BY <2>1, <2>2, <2>4, <2>6, <2>10, <2>11 DEF Knows
  <2>13. ASSUME NEW u \in Tasks, u # t
         PROVE  Knows(tasks[u], Recorded(tasks[u].commit)')
    <3>1. tasks'[u] = tasks[u]
      BY <2>10, <2>13
    <3>2. QED
      BY <1>1, <2>4, <3>1 DEF Knows
  <2>14. KT
    BY <2>10, <2>12, <2>13
  <2>15. QED
    BY <2>7, <2>9, <2>14
<1>9. ASSUME NEW t \in Tasks, Trigger(t) \/ ApplyAll(t)
      PROVE  KT /\ KB /\ KR
  <2>1. PICK projects \in (SUBSET Projects) \ {{}}, covers \in BOOLEAN :
           /\ End(t) /\ NewBatch(t, projects, covers)
           /\ tasks[t].commit \in Commits
           /\ \/ /\ tasks[t].pc = "recording" /\ tasks[t].todo = {}
                 /\ projects = tasks[t].chosen /\ projects \subseteq tasks[t].impacted
                 /\ covers = (Cardinality(projects) = Cardinality(tasks[t].impacted))
              \/ tasks[t].event = "button" /\ projects = tasks[t].select /\ ~covers
    BY <1>9, NewBatchStep
  <2>2. UNCHANGED rows
    BY <2>1 DEF NewBatch
  <2>3. KT
    BY <1>4, <2>1, <2>2, Ends DEF Knows
  <2>4. /\ projects \subseteq ImpactedBy[tasks[t].commit]
        /\ ImpactedBy[tasks[t].commit] \subseteq Recorded(tasks[t].commit)
        /\ covers => projects = ImpactedBy[tasks[t].commit]
    <3>1. CASE /\ tasks[t].pc = "recording" /\ tasks[t].todo = {}
               /\ projects \subseteq tasks[t].impacted
               /\ covers = (Cardinality(projects) = Cardinality(tasks[t].impacted))
      <4>1. tasks[t].impacted = ImpactedBy[tasks[t].commit]
            /\ tasks[t].impacted \subseteq Recorded(tasks[t].commit)
        BY <1>1, <3>1 DEF Knows
      <4>2. IsFiniteSet(tasks[t].impacted)
        BY <2>1, <4>1, Impacted
      <4>3. covers => projects = tasks[t].impacted
        BY <3>1, <4>2, FS_Subset
      <4>4. QED
        BY <3>1, <4>1, <4>3
    <3>2. CASE tasks[t].event = "button" /\ projects = tasks[t].select /\ ~covers
      BY <1>1, <3>2 DEF Knows
    <3>3. QED
      BY <2>1, <3>1, <3>2
  <2>5. KB
    <3>1. ASSUME NEW b \in Batches'
          PROVE  Relies(batches'[b], Recorded(batches'[b].commit))
      <4>1. b \in Batches \/ b = Len(batches) + 1
        BY <2>1, Members DEF Batches, NewBatch
      <4>2. CASE b \in Batches
        BY <1>1, <2>1, <4>2 DEF NewBatch
      <4>3. CASE b = Len(batches) + 1
        BY <2>1, <2>4, <4>3 DEF NewBatch, Relies
      <4>4. QED
        BY <4>1, <4>2, <4>3
    <3>2. QED
      BY <1>2, <2>2, <3>1
  <2>6. QED
    BY <1>2, <2>2, <2>3, <2>5
<1>10. ASSUME NEW b \in Batches, NEW p \in JobsOf(b), Reporter(b, p)
       PROVE  KT /\ KB /\ KR
  <2>1. UNCHANGED tasks /\ SameRows /\ SameBatches
    BY <1>10, ReporterStep DEF ReportFrame
  <2>2. RowIDs' = RowIDs /\ \A c : Recorded(c)' = Recorded(c)
    BY <2>1, SameRowsOf
  <2>3. KT
    BY <1>1, <2>1, <2>2 DEF Tasks
  <2>4. KR
    BY <1>1, <2>1, <2>2 DEF SameRows
  <2>5. KB
    <3>1. ASSUME NEW d \in Batches
          PROVE  Relies(batches'[d], Recorded(batches[d].commit)')
      BY <1>1, <2>1, <2>2 DEF SameBatches, Relies
    <3>2. QED
      BY <2>1, <3>1 DEF SameBatches, Batches
  <2>6. QED
    BY <2>3, <2>4, <2>5
<1>11. QED
  BY <1>5, <1>6, <1>7, <1>8, <1>9, <1>10, Steps

\* Tasks and batches find the rows they count on in every history.
LEMMA KnownRowsAlways == Spec => [](Typed /\ KnownRows)
<1>1. Init => Typed /\ KnownRows
  <2>1. ASSUME Init
        PROVE  KnownRows
    BY <2>1 DEF Init, Task, Tasks, KnownRows, Knows, Relies, Batches, RowIDs, Recorded
  <2>2. QED
    BY <2>1, TypedInit
<1>2. Typed /\ KnownRows /\ [Next]_vars => Typed' /\ KnownRows'
  BY TypedStep, KnownRowsStep
<1>3. QED
  BY <1>1, <1>2, PTL DEF Spec

\* Every project that a batch runs has a row at its commit, so that auto_merge
\* waits for it: however many handlers write rows at once, whichever of them
\* give up halfway, unless the branch has moved under a handler or one has
\* found an unfinished set of rows.
THEOREM RowsAreComplete == Spec => []RowsCover
<1>1. KnownRows => RowsCover
  BY DEF KnownRows, RowsCover, Relies, JobsOf
<1>2. QED
  BY <1>1, KnownRowsAlways, PTL

-----------------------------------------------------------------------------
(* The check run tells the end of the batch                                *)

Counted(b, p) ==
  jobs[b][p].at \in {"counted", "refreshed", "shown", "merging", "done"}

\* A batch that has succeeded is shown as such by every report that has read it
\* since; it succeeds with the last report that counts; and its check says so,
\* or a report is about to.
ChecksOf(b) ==
  /\ batches[b].succeeded =>
       \A q \in JobsOf(b) : jobs[b][q].at = "refreshed" => jobs[b][q].shown
  /\ (\A q \in JobsOf(b) : Counted(b, q)) => batches[b].succeeded
  /\ batches[b].succeeded => \/ batches[b].check = "success"
                             \/ \E q \in JobsOf(b) : jobs[b][q].at \in {"counted", "refreshed"}

Checks == odd \cap {"overlap", "lost"} = {} => \A b \in Batches : ChecksOf(b)

\* A step of one report that neither counts, reads, shows nor gives up.
LEMMA ChecksApart ==
  ASSUME Typed, NEW b \in Batches, NEW p \in JobsOf(b), ChecksOf(b), ReportFrame(b, p),
         UNCHANGED batches,
         jobs[b][p].at \notin {"counted", "refreshed"}, jobs'[b][p].at # "refreshed",
         Counted(b, p)' => Counted(b, p)
  PROVE  ChecksOf(b)'
<1>1. \A q \in JobsOf(b) : q # p => jobs'[b][q] = jobs[b][q]
  BY Members DEF ReportFrame
<1>2. JobsOf(b)' = JobsOf(b)
  BY DEF JobsOf
<1>3. \A q \in JobsOf(b) : Counted(b, q)' => Counted(b, q)
  BY <1>1 DEF Counted
<1>4. QED
  BY <1>1, <1>2, <1>3 DEF ChecksOf

\* A report that shows the batch late sees what it has become.
LEMMA ChecksReport ==
  ASSUME Typed, Checks, NEW b \in Batches, NEW p \in JobsOf(b), Reporter(b, p),
         odd' \cap {"overlap", "lost"} = {}
  PROVE  \A d \in Batches : ChecksOf(d)'
<1>1. ReportFrame(b, p) /\ \A d \in Batches : ChecksOf(d)
  BY ReporterStep DEF ReportFrame, Checks
<1>2. ASSUME NEW d \in Batches, d # b
      PROVE  ChecksOf(d)'
  <2>1. batches'[d] = batches[d] /\ JobsOf(d)' = JobsOf(d)
    BY <1>1, <1>2 DEF ReportFrame, JobsOf
  <2>2. \A q \in JobsOf(d) : jobs'[d][q] = jobs[d][q]
    BY <1>1, <1>2, Members DEF ReportFrame
  <2>3. ChecksOf(d)
    BY <1>1
  <2>4. QED
    BY <2>1, <2>2, <2>3 DEF ChecksOf, Counted
<1>3. ChecksOf(b) /\ JobsOf(b)' = JobsOf(b)
  BY <1>1 DEF ReportFrame, SameBatches, JobsOf
<1>4. \A q \in JobsOf(b) : q # p => jobs'[b][q] = jobs[b][q]
  BY <1>1, Members DEF ReportFrame
<1>5. CASE ReadRow(b, p)
  <2>1. /\ UNCHANGED batches /\ jobs[b][p].at = "created" /\ jobs'[b][p].at = "read"
    BY <1>5, ReadRowStep
  <2>2. QED
    BY <1>1, <1>3, <2>1, ChecksApart, <1>2 DEF Counted
<1>6. CASE SaveRow(b, p)
  <2>1. /\ UNCHANGED batches /\ jobs[b][p].at = "read" /\ jobs'[b][p].at = "marked"
    BY <1>6, SaveRowStep
  <2>2. QED
    BY <1>1, <1>3, <2>1, ChecksApart, <1>2 DEF Counted
<1>7. CASE UpdateBatchStatus(b, p)
  <2> DEFINE all == \A q \in JobsOf(b) : Ended(b, q)
  <2>1. /\ jobs[b][p].at = "saved" /\ jobs'[b][p].at = "counted"
        /\ batches'[b].succeeded = (batches[b].succeeded \/ all)
        /\ batches'[b].check = batches[b].check
    BY <1>7, UpdateBatchStatusStep
  <2>2. ~(all /\ \E q \in JobsOf(b) : jobs[b][q].at = "refreshed")
    BY <1>7, UpdateBatchStatusStep
  <2>3. (\A q \in JobsOf(b) : Counted(b, q)') => all
    <3>1. \A q \in JobsOf(b) : q # p /\ Counted(b, q)' => Ended(b, q)
      BY <1>4 DEF Counted, Ended
    <3>2. Ended(b, p)
      BY <2>1 DEF Ended
    <3>3. QED
      BY <3>1, <3>2
  <2> HIDE DEF all
  <2>4. ASSUME batches'[b].succeeded
        PROVE  \A q \in JobsOf(b) : jobs'[b][q].at = "refreshed" => jobs'[b][q].shown
    <3>1. batches[b].succeeded \/ all
      BY <2>1, <2>4
    <3>2. \A q \in JobsOf(b) : jobs[b][q].at = "refreshed" => jobs[b][q].shown
      BY <1>3, <2>2, <3>1 DEF ChecksOf
    <3>3. QED
      BY <1>4, <2>1, <3>2
  <2>5. ChecksOf(b)'
    BY <1>3, <2>1, <2>3, <2>4 DEF ChecksOf
  <2>6. QED
    BY <1>2, <2>5
<1>8. CASE RefreshBatch(b, p)
  <2>1. /\ UNCHANGED batches /\ jobs[b][p].at = "counted" /\ jobs'[b][p].at = "refreshed"
        /\ jobs'[b][p].shown = batches[b].succeeded
    BY <1>8, RefreshBatchStep
  <2>2. \A q \in JobsOf(b) : Counted(b, q)' => Counted(b, q)
    BY <1>4, <2>1 DEF Counted
  <2>3. ChecksOf(b)'
    BY <1>3, <1>4, <2>1, <2>2 DEF ChecksOf
  <2>4. QED
    BY <1>2, <2>3
<1>9. CASE UpdateCheckRun(b, p)
  <2>1. /\ jobs[b][p].at = "refreshed" /\ jobs'[b][p].at = "shown"
        /\ batches'[b].succeeded = batches[b].succeeded
        /\ batches'[b].check = IF jobs[b][p].shown THEN "success" ELSE "in_progress"
    BY <1>9, UpdateCheckRunStep
  <2>2. \A q \in JobsOf(b) : Counted(b, q)' => Counted(b, q)
    BY <1>4, <2>1 DEF Counted
  <2>3. batches[b].succeeded => batches'[b].check = "success"
    BY <1>3, <2>1 DEF ChecksOf
  <2>4. ChecksOf(b)'
    BY <1>3, <1>4, <2>1, <2>2, <2>3 DEF ChecksOf
  <2>5. QED
    BY <1>2, <2>4
<1>10. CASE \/ JobFails(b, p) \/ MissRow(b, p) \/ SaveJob(b, p) \/ Automerge(b, p)
            \/ AutomergeByBatch(b, p) \/ MergePullRequest(b, p) \/ MergeRefused(b, p)
            \/ ReportFails(b, p)
  <2>1. UNCHANGED batches
    BY <1>10, StageSteps
  <2>2. ~MissRow(b, p) /\ ~ReportFails(b, p)
    BY StageSteps
  <2>3. JobFails(b, p) => jobs[b][p].at = "created" /\ jobs'[b][p].at = "failed"
    BY StageSteps
  <2>4. SaveJob(b, p) => jobs[b][p].at = "marked" /\ jobs'[b][p].at = "saved"
    BY StageSteps
  <2>5. Automerge(b, p) \/ AutomergeByBatch(b, p) =>
          jobs[b][p].at = "shown" /\ jobs'[b][p].at \in {"merging", "done"}
    BY StageSteps
  <2>6. MergePullRequest(b, p) \/ MergeRefused(b, p) =>
          jobs[b][p].at = "merging" /\ jobs'[b][p].at = "done"
    BY StageSteps
  <2>7. /\ jobs[b][p].at \notin {"counted", "refreshed"} /\ jobs'[b][p].at # "refreshed"
        /\ Counted(b, p)' => Counted(b, p)
    BY <1>10, <2>2, <2>3, <2>4, <2>5, <2>6 DEF Counted
  <2>8. ChecksOf(b)'
    BY <1>1, <1>3, <2>1, <2>7, ChecksApart
  <2>9. QED
    BY <1>2, <2>8
<1>11. ~WriteLost(b, p)
  BY WriteLostStep
<1>12. QED
  BY <1>5, <1>6, <1>7, <1>8, <1>9, <1>10, <1>11 DEF Reporter, Report

\* Each step keeps a succeeded batch with a report on its way to the check run.
LEMMA ChecksStep ==
  ASSUME Typed, Checks, [Next]_vars
  PROVE  Checks'
<1> SUFFICES ASSUME odd' \cap {"overlap", "lost"} = {}
             PROVE  \A b \in Batches' : ChecksOf(b)'
  BY DEF Checks
<1>1. \A b \in Batches : ChecksOf(b)
  BY OddGrows DEF Checks
<1>2. UNCHANGED <<batches, jobs>> => \A b \in Batches' : ChecksOf(b)'
  BY <1>1 DEF ChecksOf, Counted, JobsOf, Batches
<1>3. CASE UNCHANGED vars
  BY <1>2, <1>3 DEF vars
<1>4. CASE Webhooks
  BY <1>2, <1>4, WebhookStep
<1>5. ASSUME NEW t \in Tasks, \/ ReadConfig(t) \/ Detect(t) \/ CheckRows(t) \/ HandlerEnds(t)
                              \/ CreateImpactedProject(t)
      PROVE  \A b \in Batches' : ChecksOf(b)'
  BY <1>2, <1>5 DEF ReadConfig, Detect, CheckRows, HandlerEnds, CreateImpactedProject
<1>6. ASSUME NEW t \in Tasks, Trigger(t) \/ ApplyAll(t)
      PROVE  \A b \in Batches' : ChecksOf(b)'
  <2>1. PICK projects \in (SUBSET Projects) \ {{}}, covers \in BOOLEAN : NewBatch(t, projects, covers)
    BY <1>6, NewBatchStep
  <2>2. ASSUME NEW b \in Batches'
        PROVE  ChecksOf(b)'
    <3>1. b \in Batches \/ b = Len(batches) + 1
      BY <2>1, Members DEF Batches, NewBatch
    <3>2. CASE b \in Batches
      <4>1. batches'[b] = batches[b] /\ jobs'[b] = jobs[b] /\ JobsOf(b)' = JobsOf(b)
        BY <2>1, <3>2 DEF NewBatch, JobsOf
      <4>2. QED
        BY <1>1, <3>2, <4>1 DEF ChecksOf, Counted
    <3>3. CASE b = Len(batches) + 1
      <4>1. JobsOf(b)' = projects /\ ~batches'[b].succeeded
        BY <2>1, <3>3 DEF NewBatch, JobsOf
      <4>2. \A q \in projects : jobs'[b][q].at = "created"
        BY <2>1, <3>3 DEF NewBatch
      <4>3. QED
        BY <4>1, <4>2 DEF ChecksOf, Counted
    <3>4. QED
      BY <3>1, <3>2, <3>3
  <2>3. QED
    BY <2>2
<1>7. ASSUME NEW b \in Batches, NEW p \in JobsOf(b), Reporter(b, p)
      PROVE  \A d \in Batches' : ChecksOf(d)'
  <2>1. Batches' = Batches
    BY <1>7, ReporterStep DEF ReportFrame, SameBatches, Batches
  <2>2. QED
    BY <1>7, <2>1, ChecksReport
<1>8. QED
  BY <1>3, <1>4, <1>5, <1>6, <1>7, Steps

\* Once every report of a batch that succeeds is through, its check run tells
\* success: each report shows what it reads of the batch after it has counted,
\* in whatever order the reports of the jobs do so.
THEOREM ChecksAreTold == Spec => []CheckTold
<1>1. Init => Checks
  BY DEF Init, Checks, Batches
<1>2. Typed /\ Checks /\ [Next]_vars => Checks'
  BY ChecksStep
<1>3. Checks => CheckTold
  <2> SUFFICES ASSUME Checks, NEW b \in Batches, odd \cap {"overlap", "lost"} = {},
                      \A p \in JobsOf(b) : jobs[b][p].at \in {"shown", "merging", "done"}
               PROVE  batches[b].check = "success"
    BY DEF CheckTold
  <2>1. ChecksOf(b) /\ \A p \in JobsOf(b) : Counted(b, p)
    BY DEF Checks, Counted
  <2>2. QED
    BY <2>1 DEF ChecksOf
<1>4. QED
  BY <1>1, <1>2, <1>3, TypedAlways, PTL DEF Spec

-----------------------------------------------------------------------------
(* Marks are earned                                                        *)

\* Sizes of sets that a function relates.
LEMMA ImageSize ==
  ASSUME NEW S, NEW T, NEW g, IsFiniteSet(S), \A y \in T : \E x \in S : g[x] = y
  PROVE  IsFiniteSet(T) /\ Cardinality(T) \in Nat /\ Cardinality(S) \in Nat
         /\ Cardinality(T) <= Cardinality(S)
<1> DEFINE D == {x \in S : g[x] \in T}
           f == [x \in D |-> g[x]]
<1>1. IsFiniteSet(D) /\ Cardinality(D) <= Cardinality(S)
  BY FS_Subset
<1>2. f \in [D -> T]
  OBVIOUS
<1>3. \A y \in T : \E x \in D : f[x] = y
  OBVIOUS
<1> HIDE DEF f
<1>4. f \in Surjection(D, T)
  BY <1>2, <1>3, Fun_IsSurj
<1>5. IsFiniteSet(T) /\ Cardinality(T) <= Cardinality(D)
  BY <1>1, <1>4, FS_Surjection
<1>6. Cardinality(S) \in Nat /\ Cardinality(T) \in Nat /\ Cardinality(D) \in Nat
  BY <1>1, <1>5, FS_CardinalityType
<1> HIDE DEF D
<1>7. QED
  BY <1>1, <1>5, <1>6

\* An injection into a finite set bounds the size of its domain.
LEMMA InjectionSize ==
  ASSUME NEW S, NEW T, NEW g, IsFiniteSet(T), \A x \in S : g[x] \in T,
         \A x, y \in S : g[x] = g[y] => x = y
  PROVE  IsFiniteSet(S) /\ Cardinality(S) \in Nat /\ Cardinality(T) \in Nat
         /\ Cardinality(S) <= Cardinality(T)
<1> DEFINE f == [x \in S |-> g[x]]
<1>1. f \in [S -> T] /\ \A x, y \in S : f[x] = f[y] => x = y
  OBVIOUS
<1> HIDE DEF f
<1>2. f \in Injection(S, T)
  BY <1>1, Fun_IsInj
<1>3. QED
  BY <1>2, FS_Injection, FS_CardinalityType

\* The jobs whose reports have come.
Reported ==
  {x \in Batches \X Projects : jobs[x[1]][x[2]].at \notin {"none", "created", "failed"}}

\* g tells which row each report has read (0: none).  Row i is one that a
\* report of that type has read.
RowBy(g, type, i) ==
  \E x \in Reported : batches[x[1]].type = type /\ g[x] = i

TracedJob(g, x) ==
  LET job == jobs[x[1]][x[2]]
      batch == batches[x[1]]
  IN /\ g[x] \in {0} \cup RowsOf(batch.commit)
     /\ job.at = "read" =>
          /\ g[x] = job.row
          /\ job.applied => RowBy(g, "apply", job.row)
          /\ job.planned => RowBy(g, "plan", job.row)
          /\ batch.type = "apply" => job.applied

TracedRow(g, i) ==
  /\ rows[i].applied => RowBy(g, "apply", i)
  /\ rows[i].planned => RowBy(g, "plan", i)

\* A report that has saved its row, and the row it has marked.
Saves(x) == batches[x[1]].type = "apply" /\ jobs[x[1]][x[2]].at # "read"

Marking(g) ==
  odd \cap {"lost", "unmarked", "clash"} = {} =>
    /\ \A x \in Reported : Saves(x) => g[x] # 0 /\ rows[g[x]].applied
    /\ \A x, y \in Reported : Saves(x) /\ Saves(y) /\ g[x] = g[y] => x = y

SameProject(x, y) ==
  /\ batches[x[1]].type = "apply" /\ batches[y[1]].type = "apply"
  /\ batches[x[1]].commit = batches[y[1]].commit /\ x[2] = y[2]

Once(g) ==
  "twice" \notin odd =>
    \A x, y \in Reported : SameProject(x, y) /\ g[x] # 0 /\ g[y] # 0 => x = y

Traced(g) ==
  /\ \A x \in Reported : TracedJob(g, x)
  /\ \A i \in RowIDs : TracedRow(g, i)
  /\ Marking(g) /\ Once(g)

\* The marks of the rows can be traced back to reports: this survives that
\* reports read any row of the commit and overwrite the marks of others.
Traces == \E g \in [Reported -> 0..Len(rows)] : Traced(g)

\* A step that touches no mark and lets no report read or save a row.
LEMMA TracesCarry ==
  ASSUME Typed, Traces, odd \subseteq odd', Reported' = Reported,
         \A x \in Reported :
           /\ batches'[x[1]].type = batches[x[1]].type
           /\ batches'[x[1]].commit = batches[x[1]].commit
           /\ jobs'[x[1]][x[2]].at = "read" => jobs'[x[1]][x[2]] = jobs[x[1]][x[2]]
           /\ jobs[x[1]][x[2]].at = "read" => jobs'[x[1]][x[2]].at = "read" \/ "lost" \in odd',
         RowIDs \subseteq RowIDs', Len(rows') \in Nat, Len(rows) <= Len(rows'),
         \A i \in RowIDs : rows'[i] = rows[i],
         \A i \in RowIDs' \ RowIDs : ~rows'[i].applied /\ ~rows'[i].planned
  PROVE  Traces'
<1>1. PICK g \in [Reported -> 0..Len(rows)] : Traced(g)
  BY DEF Traces
<1>2. g \in [Reported' -> 0..Len(rows')]
  BY <1>1, Members
<1>3. ASSUME NEW type, NEW i, RowBy(g, type, i)
      PROVE  RowBy(g, type, i)'
  BY <1>3 DEF RowBy
<1>4. \A c : RowsOf(c) \subseteq RowsOf(c)'
  BY DEF RowsOf
<1>5. ASSUME NEW x \in Reported
      PROVE  TracedJob(g, x)'
  <2>1. TracedJob(g, x)
    BY <1>1 DEF Traced
  <2>2. g[x] \in {0} \cup RowsOf(batches[x[1]].commit)'
    <3>1. g[x] \in {0} \cup RowsOf(batches[x[1]].commit)
      BY <2>1 DEF TracedJob
    <3>2. batches'[x[1]].commit = batches[x[1]].commit
      OBVIOUS
    <3>3. QED
      BY <1>4, <3>1, <3>2
  <2>3. CASE jobs'[x[1]][x[2]].at = "read"
    BY <1>3, <2>1, <2>2, <2>3 DEF TracedJob
  <2>4. CASE jobs'[x[1]][x[2]].at # "read"
    BY <2>2, <2>4 DEF TracedJob
  <2>5. QED
    BY <2>3, <2>4
<1>6. ASSUME NEW i \in RowIDs'
      PROVE  TracedRow(g, i)'
  <2>1. CASE i \in RowIDs
    BY <1>1, <1>3, <2>1 DEF Traced, TracedRow
  <2>2. CASE i \notin RowIDs
    BY <2>2 DEF TracedRow
  <2>3. QED
    BY <2>1, <2>2
<1>7. Marking(g)'
  <2> SUFFICES ASSUME odd' \cap {"lost", "unmarked", "clash"} = {}
               PROVE  /\ \A x \in Reported : Saves(x)' => g[x] # 0 /\ rows'[g[x]].applied
                      /\ \A x, y \in Reported : Saves(x)' /\ Saves(y)' /\ g[x] = g[y] => x = y
    BY DEF Marking
  <2>1. \A x \in Reported : Saves(x)' => Saves(x)
    BY DEF Saves
  <2>2. odd \cap {"lost", "unmarked", "clash"} = {}
    OBVIOUS
  <2>3. /\ \A x \in Reported : Saves(x) => g[x] # 0 /\ rows[g[x]].applied
        /\ \A x, y \in Reported : Saves(x) /\ Saves(y) /\ g[x] = g[y] => x = y
    BY <1>1, <2>2 DEF Traced, Marking
  <2>4. \A x \in Reported : g[x] # 0 => g[x] \in RowIDs
    BY <1>1 DEF RowIDs
  <2>5. QED
    BY <2>1, <2>3, <2>4
<1>8. Once(g)'
  <2>1. \A x, y \in Reported : SameProject(x, y)' => SameProject(x, y)
    BY DEF SameProject
  <2>2. QED
    BY <1>1, <2>1 DEF Traced, Once
<1>9. Traced(g)'
  BY <1>5, <1>6, <1>7, <1>8 DEF Traced
<1>10. QED
  BY <1>2, <1>9 DEF Traces

\* A step of one report leaves what the others have reported.
LEMMA ReportedStep ==
  ASSUME Typed, NEW b \in Batches, NEW p \in JobsOf(b), ReportFrame(b, p)
  PROVE  /\ Batches' = Batches /\ RowIDs' = RowIDs /\ <<b, p>> \in Batches \X Projects
         /\ Reported \subseteq Batches \X Projects /\ Reported' \subseteq Batches \X Projects
         /\ \A x \in Batches \X Projects :
              /\ batches'[x[1]].type = batches[x[1]].type
              /\ batches'[x[1]].commit = batches[x[1]].commit
              /\ x # <<b, p>> => /\ jobs'[x[1]][x[2]] = jobs[x[1]][x[2]]
                                 /\ x \in Reported' <=> x \in Reported
         /\ <<b, p>> \in Reported <=> jobs[b][p].at \notin {"none", "created", "failed"}
         /\ <<b, p>> \in Reported' <=> jobs'[b][p].at \notin {"none", "created", "failed"}
<1>1. Batches' = Batches /\ RowIDs' = RowIDs
  BY DEF ReportFrame, SameBatches, SameRows, Batches, RowIDs
<1>2. <<b, p>> \in Batches \X Projects
  BY Members
<1>3. ASSUME NEW x \in Batches \X Projects, x # <<b, p>>
      PROVE  jobs'[x[1]][x[2]] = jobs[x[1]][x[2]] /\ (x \in Reported' <=> x \in Reported)
  <2>1. x[1] \in Batches /\ x[2] \in Projects /\ (x[1] # b \/ x[2] # p)
    BY <1>3
  <2>2. jobs'[x[1]][x[2]] = jobs[x[1]][x[2]]
    BY <2>1 DEF ReportFrame
  <2>3. QED
    BY <1>1, <2>2 DEF Reported
<1>4. \A x \in Batches \X Projects : /\ batches'[x[1]].type = batches[x[1]].type
                                     /\ batches'[x[1]].commit = batches[x[1]].commit
  BY DEF ReportFrame, SameBatches
<1>5. Reported \subseteq Batches \X Projects /\ Reported' \subseteq Batches \X Projects
  BY <1>1 DEF Reported
<1>6. /\ <<b, p>> \in Reported <=> jobs[b][p].at \notin {"none", "created", "failed"}
      /\ <<b, p>> \in Reported' <=> jobs'[b][p].at \notin {"none", "created", "failed"}
  BY <1>1, <1>2 DEF Reported
<1>7. QED
  BY <1>1, <1>2, <1>3, <1>4, <1>5, <1>6

\* A report begins: it reads row n, or (n = 0) it misses its row.
LEMMA TracesBegin ==
  ASSUME Typed, Traces, NEW b \in Batches, NEW p \in JobsOf(b), ReportFrame(b, p),
         UNCHANGED rows, jobs[b][p].at = "created",
         NEW n \in {0} \cup RowsOf(batches[b].commit),
         \/ /\ jobs'[b][p].at = "read" /\ jobs'[b][p].row = n /\ n # 0
            /\ jobs'[b][p].applied = (rows[n].applied \/ batches[b].type = "apply")
            /\ jobs'[b][p].planned = (rows[n].planned \/ batches[b].type = "plan")
            /\ batches[b].type = "apply" /\ p \in AppliedAt(batches[b].commit) => "twice" \in odd'
         \/ jobs'[b][p].at = "marked" /\ n = 0 /\ "lost" \in odd'
  PROVE  Traces'
<1> DEFINE y == <<b, p>>
<1>1. PICK g \in [Reported -> 0..Len(rows)] : Traced(g)
  BY DEF Traces
<1>2. PICK h : h = [x \in Reported' |-> IF x = y THEN n ELSE g[x]]
  OBVIOUS
<1>3. /\ y \in Reported' /\ y \notin Reported /\ \A x : x \in Reported' <=> x \in Reported \/ x = y
      /\ \A x \in Reported : /\ jobs'[x[1]][x[2]] = jobs[x[1]][x[2]] /\ h[x] = g[x]
                             /\ batches'[x[1]].type = batches[x[1]].type
                             /\ batches'[x[1]].commit = batches[x[1]].commit
      /\ h[y] = n
      /\ batches'[b].type = batches[b].type /\ batches'[b].commit = batches[b].commit
  <2>1. y \in Reported' /\ y \notin Reported /\ y \in Batches \X Projects
    BY ReportedStep
  <2>2. \A x : x \in Reported' <=> x \in Reported \/ x = y
    BY <2>1, ReportedStep
  <2>3. \A x \in Reported : /\ jobs'[x[1]][x[2]] = jobs[x[1]][x[2]]
                            /\ batches'[x[1]].type = batches[x[1]].type
                            /\ batches'[x[1]].commit = batches[x[1]].commit
    BY <2>1, ReportedStep
  <2>4. batches'[b].type = batches[b].type /\ batches'[b].commit = batches[b].commit
    BY DEF ReportFrame, SameBatches
  <2>5. (\A x \in Reported : h[x] = g[x]) /\ h[y] = n
    BY <1>2, <2>1, <2>2
  <2>6. QED
    BY <2>1, <2>2, <2>3, <2>4, <2>5
<1>4. /\ RowIDs' = RowIDs /\ \A c : RowsOf(c)' = RowsOf(c)
      /\ odd \subseteq odd'
  BY SameRowsOf DEF ReportFrame
<1>5. h \in [Reported' -> 0..Len(rows')]
  <2>1. n \in 0..Len(rows)
    BY Members DEF RowsOf, RowIDs
  <2>2. \A x \in Reported' : h[x] \in 0..Len(rows)
    BY <1>1, <1>3, <2>1
  <2>3. QED
    BY <1>2, <2>2
<1>6. ASSUME NEW type, NEW i, RowBy(g, type, i)
      PROVE  RowBy(h, type, i)'
  BY <1>3, <1>6 DEF RowBy
<1>7. ASSUME NEW type, batches[b].type = type
      PROVE  RowBy(h, type, n)'
  BY <1>3, <1>7 DEF RowBy
<1>8. ASSUME NEW x \in Reported
      PROVE  TracedJob(h, x)'
  <2>1. TracedJob(g, x)
    BY <1>1 DEF Traced
  <2>2. /\ jobs'[x[1]][x[2]] = jobs[x[1]][x[2]] /\ h[x] = g[x]
        /\ batches'[x[1]].type = batches[x[1]].type
        /\ batches'[x[1]].commit = batches[x[1]].commit
    BY <1>3
  <2>3. QED
    BY <1>4, <1>6, <2>1, <2>2 DEF TracedJob
<1>9. batches[b].type \in {"plan", "apply"}
  BY Members DEF BatchType
<1>10. TracedJob(h, y)'
  <2>1. h[y] \in {0} \cup RowsOf(batches[b].commit)'
    BY <1>3, <1>4
  <2>2. CASE jobs'[b][p].at = "marked"
    BY <2>1, <2>2 DEF TracedJob
  <2>3. CASE /\ jobs'[b][p].at = "read" /\ jobs'[b][p].row = n /\ n # 0
             /\ jobs'[b][p].applied = (rows[n].applied \/ batches[b].type = "apply")
             /\ jobs'[b][p].planned = (rows[n].planned \/ batches[b].type = "plan")
    <3>1. n \in RowIDs
      BY <2>3 DEF RowsOf
    <3>2. TracedRow(g, n)
      BY <1>1, <3>1 DEF Traced
    <3>7. /\ jobs'[b][p].applied => rows[n].applied \/ batches[b].type = "apply"
          /\ jobs'[b][p].planned => rows[n].planned \/ batches[b].type = "plan"
      BY <2>3
    <3>3. jobs'[b][p].applied => RowBy(h, "apply", n)'
      <4>1. rows[n].applied => RowBy(h, "apply", n)'
        BY <1>6, <3>2 DEF TracedRow
      <4>2. batches[b].type = "apply" => RowBy(h, "apply", n)'
        BY <1>7
      <4>3. QED
        BY <3>7, <4>1, <4>2
    <3>4. jobs'[b][p].planned => RowBy(h, "plan", n)'
      <4>1. rows[n].planned => RowBy(h, "plan", n)'
        BY <1>6, <3>2 DEF TracedRow
      <4>2. batches[b].type = "plan" => RowBy(h, "plan", n)'
        BY <1>7
      <4>3. QED
        BY <3>7, <4>1, <4>2
    <3>5. batches'[b].type = "apply" => jobs'[b][p].applied
      BY <1>3, <2>3
    <3>6. QED
      BY <1>3, <2>1, <2>3, <3>3, <3>4, <3>5 DEF TracedJob
  <2>4. QED
    BY <2>2, <2>3
<1>11. \A i \in RowIDs : TracedRow(h, i)'
  BY <1>1, <1>6 DEF Traced, TracedRow
<1>12. Marking(h)'
  <2> SUFFICES ASSUME odd' \cap {"lost", "unmarked", "clash"} = {}
               PROVE  /\ \A x \in Reported' : Saves(x)' => h[x] # 0 /\ rows'[h[x]].applied
                      /\ \A x, z \in Reported' : Saves(x)' /\ Saves(z)' /\ h[x] = h[z] => x = z
    BY DEF Marking
  <2>1. /\ \A x \in Reported : Saves(x) => g[x] # 0 /\ rows[g[x]].applied
        /\ \A x, z \in Reported : Saves(x) /\ Saves(z) /\ g[x] = g[z] => x = z
    BY <1>1, <1>4 DEF Traced, Marking
  <2>2. ~Saves(y)'
    BY DEF Saves
  <2>3. \A x \in Reported : Saves(x)' <=> Saves(x)
    BY <1>3 DEF Saves
  <2>4. \A x \in Reported' : Saves(x)' => x \in Reported /\ Saves(x) /\ h[x] = g[x]
    BY <1>3, <2>2, <2>3
  <2>5. UNCHANGED rows
    OBVIOUS
  <2> HIDE DEF y
  <2>6. QED
    BY <2>1, <2>4, <2>5
<1>13. Once(h)'
  <2> SUFFICES ASSUME "twice" \notin odd', NEW x \in Reported', NEW z \in Reported',
                      SameProject(x, z)', h[x] # 0, h[z] # 0
               PROVE  x = z
    BY DEF Once
  <2>1. ASSUME NEW v \in Reported, SameProject(v, y)' \/ SameProject(y, v)', n # 0
        PROVE  FALSE
    <3>1. /\ batches[v[1]].type = "apply" /\ batches[v[1]].commit = batches[b].commit
          /\ v[2] = p /\ batches[b].type = "apply"
      BY <1>3, <2>1 DEF SameProject
    <3>2. p \in AppliedAt(batches[b].commit)
      BY <3>1 DEF Reported, AppliedAt
    <3>3. QED
      BY <2>1, <3>1, <3>2
  <2>2. CASE x \in Reported /\ z \in Reported
    <3>1. SameProject(x, z)
      BY <1>3, <2>2 DEF SameProject
    <3>2. QED
      BY <1>1, <1>3, <1>4, <2>2, <3>1 DEF Traced, Once
  <2>3. QED
    BY <1>3, <2>1, <2>2
<1>14. Traced(h)'
  BY <1>3, <1>4, <1>8, <1>10, <1>11, <1>12, <1>13 DEF Traced
<1>15. QED
  BY <1>5, <1>14 DEF Traces

\* A report saves the row it has read: what it marks it had found marked, or
\* has come to mark.
LEMMA TracesSave ==
  ASSUME Typed, Traces, NEW b \in Batches, NEW p \in JobsOf(b), SaveRow(b, p)
  PROVE  Traces'
<1> DEFINE y == <<b, p>>
           i0 == jobs[b][p].row
<1>1. PICK g \in [Reported -> 0..Len(rows)] : Traced(g)
  BY DEF Traces
<1>2. /\ ReportFrame(b, p) /\ UNCHANGED batches
      /\ jobs[b][p].at = "read" /\ jobs'[b][p].at = "marked"
      /\ i0 \in RowIDs
      /\ rows'[i0].planned = jobs[b][p].planned
      /\ rows'[i0].applied = jobs[b][p].applied
      /\ \A k \in RowIDs : k # i0 => rows'[k] = rows[k]
      /\ rows[i0].applied /\ batches[b].type = "apply" => "clash" \in odd'
      /\ rows[i0].applied /\ ~jobs[b][p].applied => "unmarked" \in odd'
  BY SaveRowStep
<1>3. /\ y \in Reported' /\ y \in Reported /\ \A x : x \in Reported' <=> x \in Reported
      /\ \A x \in Reported : x # y => jobs'[x[1]][x[2]] = jobs[x[1]][x[2]]
  <2>1. y \in Reported' /\ y \in Reported
    BY <1>2, ReportedStep
  <2>2. \A x : x \in Reported' <=> x \in Reported
    BY <1>2, <2>1, ReportedStep
  <2>3. QED
    BY <1>2, <2>1, <2>2, ReportedStep
<1>4. /\ RowIDs' = RowIDs /\ \A c : RowsOf(c)' = RowsOf(c)
      /\ odd \subseteq odd' /\ Len(rows') = Len(rows)
  BY <1>2, SameRowsOf DEF ReportFrame, SameRows
<1>5. Reported' = Reported
  BY <1>3, SetExtensionality
<1>6. \A type, i : RowBy(g, type, i) => RowBy(g, type, i)'
  BY <1>2, <1>5 DEF RowBy
<1>7. TracedJob(g, y) /\ g[y] = i0
  BY <1>1, <1>2, <1>3 DEF Traced, TracedJob
<1>8. ASSUME NEW x \in Reported
      PROVE  TracedJob(g, x)'
  <2>1. TracedJob(g, x)
    BY <1>1 DEF Traced
  <2>2. CASE x = y
    BY <1>2, <1>4, <2>1, <2>2 DEF TracedJob
  <2>3. CASE x # y
    BY <1>2, <1>3, <1>4, <1>6, <2>1, <2>3 DEF TracedJob
  <2>4. QED
    BY <2>2, <2>3
<1>9. ASSUME NEW i \in RowIDs
      PROVE  TracedRow(g, i)'
  <2>1. CASE i = i0
    <3>1. /\ jobs[b][p].applied => RowBy(g, "apply", i0)
          /\ jobs[b][p].planned => RowBy(g, "plan", i0)
      BY <1>2, <1>7 DEF TracedJob
    <3>2. QED
      BY <1>2, <1>6, <2>1, <3>1 DEF TracedRow
  <2>2. CASE i # i0
    BY <1>1, <1>2, <1>6, <2>2 DEF Traced, TracedRow
  <2>3. QED
    BY <2>1, <2>2
<1>10. Marking(g)'
  <2> SUFFICES ASSUME odd' \cap {"lost", "unmarked", "clash"} = {}
               PROVE  /\ \A x \in Reported : Saves(x)' => g[x] # 0 /\ rows'[g[x]].applied
                      /\ \A x, z \in Reported : Saves(x)' /\ Saves(z)' /\ g[x] = g[z] => x = z
    BY <1>5 DEF Marking
  <2>1. /\ \A x \in Reported : Saves(x) => g[x] # 0 /\ rows[g[x]].applied
        /\ \A x, z \in Reported : Saves(x) /\ Saves(z) /\ g[x] = g[z] => x = z
    BY <1>1, <1>4 DEF Traced, Marking
  <2>2. \A x \in Reported : x # y => (Saves(x)' <=> Saves(x))
    BY <1>2, <1>3 DEF Saves
  <2>3. Saves(y)' => batches[b].type = "apply" /\ jobs[b][p].applied
    BY <1>2, <1>7 DEF Saves, TracedJob
  <2>4. rows[i0].applied => jobs[b][p].applied /\ batches[b].type # "apply"
    BY <1>2
  <2>5. i0 # 0
    BY <1>2 DEF RowIDs
  <2>6. \A x \in Reported : g[x] # 0 => g[x] \in RowIDs
    BY <1>1 DEF RowIDs
  <2> HIDE DEF y, i0
  <2>7. ASSUME NEW x \in Reported, Saves(x)'
        PROVE  g[x] # 0 /\ rows'[g[x]].applied
    <3>1. CASE x = y
      BY <1>2, <1>7, <2>3, <2>5, <2>7, <3>1
    <3>2. CASE x # y
      BY <1>2, <2>1, <2>2, <2>4, <2>6, <2>7, <3>2
    <3>3. QED
      BY <3>1, <3>2
  <2>8. ASSUME NEW x \in Reported, x # y, Saves(x)', Saves(y)', g[x] = g[y]
        PROVE  FALSE
    BY <1>7, <2>1, <2>2, <2>3, <2>4, <2>8
  <2>9. \A x, z \in Reported : Saves(x)' /\ Saves(z)' /\ g[x] = g[z] => x = z
    BY <2>1, <2>2, <2>8
  <2>10. QED
    BY <2>7, <2>9
<1>11. Once(g)'
  <2>1. \A x, z \in Reported : SameProject(x, z)' => SameProject(x, z)
    BY <1>2 DEF SameProject
  <2>2. QED
    BY <1>1, <1>4, <1>5, <2>1 DEF Traced, Once
<1>12. Traced(g)'
  BY <1>4, <1>5, <1>8, <1>9, <1>10, <1>11 DEF Traced
<1>13. QED
  BY <1>1, <1>4, <1>5, <1>12 DEF Traces

\* The other steps of a report.
LEMMA TracesReport ==
  ASSUME Typed, Traces, NEW b \in Batches, NEW p \in JobsOf(b), Reporter(b, p)
  PROVE  Traces'
<1>1. CASE ReadRow(b, p)
  <2>1. PICK n \in RowsOf(batches[b].commit) :
              /\ jobs'[b][p].row = n
              /\ jobs'[b][p].planned = (rows[n].planned \/ batches[b].type = "plan")
              /\ jobs'[b][p].applied = (rows[n].applied \/ batches[b].type = "apply")
    BY <1>1, ReadRowStep
  <2>2. /\ ReportFrame(b, p) /\ UNCHANGED rows /\ jobs[b][p].at = "created"
        /\ jobs'[b][p].at = "read"
        /\ batches[b].type = "apply" /\ p \in AppliedAt(batches[b].commit) => "twice" \in odd'
    BY <1>1, ReadRowStep
  <2>3. n # 0 /\ n \in {0} \cup RowsOf(batches[b].commit)
    BY DEF RowsOf, RowIDs
  <2>4. QED
    BY <2>1, <2>2, <2>3, TracesBegin
<1>2. CASE MissRow(b, p)
  <2>1. /\ ReportFrame(b, p) /\ UNCHANGED rows /\ jobs[b][p].at = "created"
        /\ jobs'[b][p].at = "marked" /\ "lost" \in odd'
    BY <1>2, StageSteps
  <2>2. 0 \in {0} \cup RowsOf(batches[b].commit)
    OBVIOUS
  <2>3. QED
    BY <2>1, <2>2, TracesBegin
<1>3. CASE SaveRow(b, p)
  BY <1>3, TracesSave
<1>4. ASSUME UNCHANGED rows, ReportFrame(b, p), jobs'[b][p].at # "read",
             jobs[b][p].at = "read" => "lost" \in odd',
             jobs[b][p].at \in {"created", "failed"} <=> jobs'[b][p].at \in {"created", "failed"},
             jobs[b][p].at # "none", jobs'[b][p].at # "none"
      PROVE  Traces'
  <2>1. \A x : x \in Reported' <=> x \in Reported
    BY <1>4, ReportedStep, ZenonT(60)
  <2>2. Reported' = Reported
    BY <2>1, SetExtensionality
  <2>3. \A x \in Reported :
           /\ batches'[x[1]].type = batches[x[1]].type
           /\ batches'[x[1]].commit = batches[x[1]].commit
           /\ jobs'[x[1]][x[2]].at = "read" => jobs'[x[1]][x[2]] = jobs[x[1]][x[2]]
           /\ jobs[x[1]][x[2]].at = "read" => jobs'[x[1]][x[2]].at = "read" \/ "lost" \in odd'
    <3> SUFFICES ASSUME NEW x \in Reported
                 PROVE  /\ batches'[x[1]].type = batches[x[1]].type
                        /\ batches'[x[1]].commit = batches[x[1]].commit
                        /\ jobs'[x[1]][x[2]].at = "read" => jobs'[x[1]][x[2]] = jobs[x[1]][x[2]]
                        /\ jobs[x[1]][x[2]].at = "read" =>
                             jobs'[x[1]][x[2]].at = "read" \/ "lost" \in odd'
      OBVIOUS
    <3>1. /\ batches'[x[1]].type = batches[x[1]].type
          /\ batches'[x[1]].commit = batches[x[1]].commit
          /\ x # <<b, p>> => jobs'[x[1]][x[2]] = jobs[x[1]][x[2]]
      BY <1>4, ReportedStep
    <3>2. CASE x = <<b, p>>
      BY <1>4, <3>1, <3>2
    <3>3. CASE x # <<b, p>>
      BY <3>1, <3>3
    <3>4. QED
      BY <3>2, <3>3
  <2>4. odd \subseteq odd' /\ RowIDs' = RowIDs /\ Len(rows') = Len(rows) /\ Len(rows) \in Nat
    BY <1>4, Members DEF ReportFrame, RowIDs
  <2>5. QED
    BY <1>4, <2>2, <2>3, <2>4, TracesCarry
<1>5. CASE \/ UpdateBatchStatus(b, p) \/ RefreshBatch(b, p) \/ UpdateCheckRun(b, p)
           \/ WriteLost(b, p)
  <2>1. /\ UNCHANGED rows /\ ReportFrame(b, p)
        /\ jobs[b][p].at \in {"saved", "counted", "refreshed"}
        /\ jobs'[b][p].at \in {"counted", "refreshed", "shown"}
    <3>1. CASE UpdateBatchStatus(b, p)
      <4>1. /\ UNCHANGED rows /\ ReportFrame(b, p)
            /\ jobs[b][p].at = "saved" /\ jobs'[b][p].at = "counted"
        BY <3>1, UpdateBatchStatusStep
      <4>2. QED
        BY <4>1
    <3>2. CASE RefreshBatch(b, p)
      BY <3>2, RefreshBatchStep
    <3>3. CASE UpdateCheckRun(b, p)
      BY <3>3, UpdateCheckRunStep
    <3>4. CASE WriteLost(b, p)
      BY <3>4, WriteLostStep
    <3>5. QED
      BY <1>5, <3>1, <3>2, <3>3, <3>4
  <2>2. QED
    BY <1>4, <2>1
<1>6. CASE \/ JobFails(b, p) \/ SaveJob(b, p) \/ Automerge(b, p)
           \/ AutomergeByBatch(b, p) \/ MergePullRequest(b, p) \/ MergeRefused(b, p)
           \/ ReportFails(b, p)
  <2>1. ReportFrame(b, p) /\ UNCHANGED rows
    BY <1>6, StageSteps
  <2>2. JobFails(b, p) => jobs[b][p].at = "created" /\ jobs'[b][p].at = "failed"
    BY StageSteps
  <2>3. SaveJob(b, p) => jobs[b][p].at = "marked" /\ jobs'[b][p].at = "saved"
    BY StageSteps
  <2>4. Automerge(b, p) \/ AutomergeByBatch(b, p) =>
          jobs[b][p].at = "shown" /\ jobs'[b][p].at \in {"merging", "done"}
    BY StageSteps
  <2>5. MergePullRequest(b, p) \/ MergeRefused(b, p) =>
          jobs[b][p].at = "merging" /\ jobs'[b][p].at = "done"
    BY StageSteps
  <2>6. ReportFails(b, p) =>
          /\ jobs[b][p].at \in {"read", "marked", "saved", "counted", "refreshed", "shown"}
          /\ jobs'[b][p].at \in {"lost", "done"} /\ "lost" \in odd'
    BY StageSteps
  <2>7. /\ jobs'[b][p].at # "read" /\ (jobs[b][p].at = "read" => "lost" \in odd')
        /\ jobs[b][p].at \in {"created", "failed"} <=> jobs'[b][p].at \in {"created", "failed"}
        /\ jobs[b][p].at # "none" /\ jobs'[b][p].at # "none"
    BY <1>6, <2>2, <2>3, <2>4, <2>5, <2>6
  <2>8. QED
    BY <1>4, <2>1, <2>7
<1>7. QED
  BY <1>1, <1>2, <1>3, <1>5, <1>6 DEF Reporter, Report

\* A batch that is created has not reported.
LEMMA ReportedNewBatch ==
  ASSUME Typed, NEW t \in Tasks, NEW projects \in SUBSET Projects, NEW covers,
         NewBatch(t, projects, covers)
  PROVE  /\ Reported' = Reported
         /\ \A d \in Batches : batches'[d] = batches[d] /\ jobs'[d] = jobs[d]
<1>1. /\ Batches' = Batches \cup {Len(batches) + 1}
      /\ \A d \in Batches : batches'[d] = batches[d] /\ jobs'[d] = jobs[d]
  BY Members DEF NewBatch, Batches
<1>2. \A p \in Projects : jobs'[Len(batches) + 1][p].at \in {"none", "created"}
  BY DEF NewBatch
<1>3. ASSUME NEW x
      PROVE  x \in Reported' <=> x \in Reported
  BY <1>1, <1>2 DEF Reported
<1>4. QED
  BY <1>1, <1>3, SetExtensionality

\* Each step keeps an assignment of marks to reports that have made them.
LEMMA TracesStep ==
  ASSUME Typed, Traces, [Next]_vars
  PROVE  Traces'
<1>1. odd \subseteq odd'
  BY OddGrows
<1>2. ASSUME UNCHANGED rows, Reported' = Reported,
             \A d \in Batches : batches'[d] = batches[d] /\ jobs'[d] = jobs[d]
      PROVE  Traces'
  <2>1. RowIDs' = RowIDs /\ Len(rows) \in Nat
    BY <1>2, Members DEF RowIDs
  <2>2. \A x \in Reported : batches'[x[1]] = batches[x[1]] /\ jobs'[x[1]] = jobs[x[1]]
    BY <1>2 DEF Reported
  <2>3. QED
    BY <1>1, <1>2, <2>1, <2>2, TracesCarry
<1>3. ASSUME UNCHANGED <<rows, batches, jobs>>
      PROVE  Traces'
  <2>1. Reported' = Reported
    BY <1>3 DEF Reported, Batches
  <2>2. QED
    BY <1>2, <1>3, <2>1
<1>4. CASE UNCHANGED vars
  BY <1>3, <1>4 DEF vars
<1>5. CASE Webhooks
  BY <1>3, <1>5, WebhookStep
<1>6. ASSUME NEW t \in Tasks, ReadConfig(t) \/ Detect(t) \/ CheckRows(t) \/ HandlerEnds(t)
      PROVE  Traces'
  BY <1>3, <1>6 DEF ReadConfig, Detect, CheckRows, HandlerEnds
<1>7. ASSUME NEW t \in Tasks, CreateImpactedProject(t)
      PROVE  Traces'
  <2>1. PICK p \in Projects : rows' = Append(rows, [commit |-> tasks[t].commit, project |-> p,
                                                    planned |-> FALSE, applied |-> FALSE])
    BY <1>7, CreateImpactedProjectStep
  <2> DEFINE r == [commit |-> tasks[t].commit, project |-> p, planned |-> FALSE, applied |-> FALSE]
  <2>2. r \in RowType /\ ~r.applied /\ ~r.planned
    BY <1>7, CreateImpactedProjectStep DEF RowType
  <2>3. rows' = Append(rows, r)
    BY <2>1
  <2> HIDE DEF r
  <2>4. /\ Len(rows') = Len(rows) + 1 /\ rows'[Len(rows) + 1] = r
        /\ \A i \in RowIDs : rows'[i] = rows[i]
    BY <2>2, <2>3, NewRow
  <2>5. RowIDs' = RowIDs \cup {Len(rows) + 1} /\ Len(rows) \in Nat
    BY <2>2, <2>3, NewRowRecorded, Members
  <2>6. UNCHANGED <<batches, jobs>>
    BY <1>7 DEF CreateImpactedProject
  <2>7. Reported' = Reported
    BY <2>6 DEF Reported, Batches
  <2>8. \A i \in RowIDs' \ RowIDs : ~rows'[i].applied /\ ~rows'[i].planned
    BY <2>2, <2>4, <2>5
  <2>9. QED
    BY <1>1, <2>4, <2>5, <2>6, <2>7, <2>8, TracesCarry
<1>8. ASSUME NEW t \in Tasks, Trigger(t) \/ ApplyAll(t)
      PROVE  Traces'
  <2>1. PICK projects \in (SUBSET Projects) \ {{}}, covers \in BOOLEAN : NewBatch(t, projects, covers)
    BY <1>8, NewBatchStep
  <2>2. UNCHANGED rows
    BY <2>1 DEF NewBatch
  <2>3. QED
    BY <1>2, <2>1, <2>2, ReportedNewBatch
<1>9. ASSUME NEW b \in Batches, NEW p \in JobsOf(b), Reporter(b, p)
      PROVE  Traces'
  BY <1>9, TracesReport
<1>10. QED
  BY <1>4, <1>5, <1>6, <1>7, <1>8, <1>9, Steps

\* No row has a mark, and no job has reported.
LEMMA TracesInit ==
  ASSUME Init
  PROVE  Traces
<1>1. Reported = {} /\ RowIDs = {}
  BY DEF Init, Reported, Batches, RowIDs
<1> DEFINE g == [x \in {} |-> 0]
<1>2. g \in [Reported -> 0..Len(rows)]
  BY <1>1
<1>3. Traced(g)
  BY <1>1 DEF Traced, Marking, Once
<1>4. QED
  BY <1>2, <1>3 DEF Traces

\* Every mark can be traced to a report in every history.
LEMMA TracesAlways == Spec => [](Typed /\ Traces)
<1>1. Init => Typed /\ Traces
  BY TypedInit, TracesInit
<1>2. Typed /\ Traces /\ [Next]_vars => Typed' /\ Traces'
  BY TypedStep, TracesStep
<1>3. QED
  BY <1>1, <1>2, PTL DEF Spec

\* The jobs that have reported are finitely many, so they can be counted.
LEMMA ReportedFinite ==
  ASSUME Typed
  PROVE  IsFiniteSet(Reported) /\ \A c, type : IsFiniteSet(Reports(c, type))
<1>1. IsFiniteSet(Batches)
  <2>1. Len(batches) \in Nat
    BY Members
  <2>2. 1 \in Int /\ Len(batches) \in Int
    BY <2>1
  <2>3. QED
    BY <2>2, FS_Interval DEF Batches
<1>2. IsFiniteSet(Batches \X Projects)
  BY <1>1, ProjectsAssumption, FS_Product
<1>3. Reported \in SUBSET (Batches \X Projects)
      /\ \A c, type : Reports(c, type) \in SUBSET (Batches \X Projects)
  BY DEF Reported, Reports
<1>4. QED
  BY <1>2, <1>3, FS_Subset

\* The rows of a commit never claim more applies, or plans, than jobs have
\* reported: a report that marks the row of another project marks at most one,
\* and keeps at most what other reports have marked.
THEOREM MarksAreEarned == Spec => []MarksEarned
<1>1. ASSUME Typed, Traces
      PROVE  MarksEarned
  <2>1. PICK g \in [Reported -> 0..Len(rows)] : Traced(g)
    BY <1>1 DEF Traces
  <2>2. ASSUME NEW type, NEW c, NEW T, \A i \in T : i \in RowsOf(c) /\ RowBy(g, type, i)
        PROVE  Cardinality(T) <= Cardinality(Reports(c, type))
    <3>1. ASSUME NEW i \in T
          PROVE  \E x \in Reports(c, type) : g[x] = i
      <4>1. PICK x \in Reported : batches[x[1]].type = type /\ g[x] = i
        BY <2>2 DEF RowBy
      <4>2. i \in RowIDs /\ rows[i].commit = c /\ i # 0
        BY <2>2 DEF RowsOf, RowIDs
      <4>3. batches[x[1]].commit = c
        BY <2>1, <4>1, <4>2 DEF Traced, TracedJob, RowsOf
      <4>4. x \in Reports(c, type)
        BY <4>1, <4>3 DEF Reported, Reports
      <4>5. QED
        BY <4>1, <4>4
    <3>2. QED
      BY <1>1, <3>1, ReportedFinite, ImageSize
  <2>3. ASSUME NEW c \in Commits
        PROVE  /\ Cardinality({i \in RowsOf(c) : rows[i].applied}) <= Cardinality(Reports(c, "apply"))
               /\ Cardinality({i \in RowsOf(c) : rows[i].planned}) <= Cardinality(Reports(c, "plan"))
    <3>1. \A i \in RowsOf(c) : TracedRow(g, i)
      BY <2>1 DEF Traced, RowsOf
    <3>2. \A i \in {k \in RowsOf(c) : rows[k].applied} : i \in RowsOf(c) /\ RowBy(g, "apply", i)
      BY <3>1 DEF TracedRow
    <3>3. \A i \in {k \in RowsOf(c) : rows[k].planned} : i \in RowsOf(c) /\ RowBy(g, "plan", i)
      BY <3>1 DEF TracedRow
    <3>4. QED
      BY <2>2, <3>2, <3>3
  <2>4. QED
    BY <2>3 DEF MarksEarned
<1>2. QED
  BY <1>1, TracesAlways, PTL

-----------------------------------------------------------------------------
(* auto_merge waits for every project                                      *)

\* The projects applied at a commit are those of reported jobs.
LEMMA AppliedReported ==
  ASSUME Typed
  PROVE  /\ \A c, q : q \in AppliedAt(c) <=>
              \E x \in Reported : /\ batches[x[1]].commit = c /\ batches[x[1]].type = "apply"
                                  /\ x[2] = q
         /\ \A x \in Reported : /\ x[1] \in Batches /\ x[2] \in JobsOf(x[1])
                                /\ x = <<x[1], x[2]>>
<1>1. ASSUME NEW c, NEW q \in AppliedAt(c)
      PROVE  \E x \in Reported : /\ batches[x[1]].commit = c /\ batches[x[1]].type = "apply"
                                 /\ x[2] = q
  <2>1. PICK b \in Batches : /\ batches[b].commit = c /\ batches[b].type = "apply"
                             /\ jobs[b][q].at \notin {"none", "created", "failed"} /\ q \in Projects
    BY <1>1 DEF AppliedAt
  <2>2. <<b, q>> \in Reported
    BY <2>1 DEF Reported
  <2>3. QED
    BY <2>1, <2>2
<1>2. ASSUME NEW c, NEW x \in Reported, batches[x[1]].commit = c, batches[x[1]].type = "apply"
      PROVE  x[2] \in AppliedAt(c)
  BY <1>2 DEF Reported, AppliedAt
<1>3. \A x \in Reported : /\ x[1] \in Batches /\ x[2] \in Projects /\ x = <<x[1], x[2]>>
                          /\ jobs[x[1]][x[2]].at # "none"
  BY DEF Reported
<1>4. \A x \in Reported : x[2] \in JobsOf(x[1])
  BY <1>3 DEF Typed, Belong
<1>5. QED
  BY <1>1, <1>2, <1>3, <1>4

\* What has been reported stays reported, and what has ended stays ended.
LEMMA ReportedGrows ==
  ASSUME Typed, [Next]_vars
  PROVE  /\ Batches \subseteq Batches'
         /\ \A d \in Batches : /\ batches'[d].commit = batches[d].commit
                               /\ batches'[d].type = batches[d].type
                               /\ JobsOf(d)' = JobsOf(d)
                               /\ \A q \in JobsOf(d) : Ended(d, q) => Ended(d, q)'
         /\ Reported \subseteq Reported'
         /\ \A c : AppliedAt(c) \subseteq AppliedAt(c)'
<1> DEFINE Stays == /\ Batches \subseteq Batches'
                    /\ \A d \in Batches : /\ batches'[d].commit = batches[d].commit
                                          /\ batches'[d].type = batches[d].type
                                          /\ JobsOf(d)' = JobsOf(d)
                                          /\ \A q \in JobsOf(d) : Ended(d, q) => Ended(d, q)'
                    /\ Reported \subseteq Reported'
<1>1. UNCHANGED <<batches, jobs>> => Stays
  BY DEF Batches, JobsOf, Ended, Reported
<1>2. ASSUME NEW t \in Tasks, Trigger(t) \/ ApplyAll(t)
      PROVE  Stays
  <2>1. PICK projects \in (SUBSET Projects) \ {{}}, covers \in BOOLEAN : NewBatch(t, projects, covers)
    BY <1>2, NewBatchStep
  <2>2. Reported' = Reported /\ \A d \in Batches : batches'[d] = batches[d] /\ jobs'[d] = jobs[d]
    BY <2>1, ReportedNewBatch
  <2>3. Batches \subseteq Batches'
    BY <2>1, Members DEF NewBatch, Batches
  <2>4. QED
    BY <2>2, <2>3 DEF JobsOf, Ended
<1>3. ASSUME NEW b \in Batches, NEW p \in JobsOf(b), Reporter(b, p)
      PROVE  Stays
  <2>1. /\ ReportFrame(b, p) /\ jobs'[b][p].at \notin {"none", "created"}
        /\ jobs[b][p].at # "created" => jobs'[b][p].at # "failed"
    BY <1>3, ReporterStep
  <2>2. /\ Batches' = Batches
        /\ \A d \in Batches : /\ batches'[d].commit = batches[d].commit
                              /\ batches'[d].type = batches[d].type
                              /\ JobsOf(d)' = JobsOf(d)
    <3>1. SameBatches
      BY <2>1 DEF ReportFrame
    <3>2. Batches' = Batches
      BY <3>1 DEF SameBatches, Batches
    <3>3. \A d \in Batches : JobsOf(d)' = JobsOf(d)
      BY <3>1 DEF SameBatches, JobsOf
    <3>4. QED
      BY <3>1, <3>2, <3>3 DEF SameBatches
  <2>3. Reported \subseteq Reported'
    <3> SUFFICES ASSUME NEW x \in Reported
                 PROVE  x \in Reported'
      OBVIOUS
    <3>1. CASE x = <<b, p>>
      <4>1. jobs[b][p].at \notin {"none", "created", "failed"}
        BY <2>1, <3>1, ReportedStep
      <4>2. jobs'[b][p].at \notin {"none", "created", "failed"}
        BY <2>1, <4>1
      <4>3. QED
        BY <2>1, <3>1, <4>2, ReportedStep
    <3>2. CASE x # <<b, p>>
      <4>1. x \in Batches \X Projects
        BY DEF Reported
      <4>2. x \in Reported' <=> x \in Reported
        BY <2>1, <3>2, <4>1, ReportedStep, ZenonT(60)
      <4>3. QED
        BY <4>2
    <3>3. QED
      BY <3>1, <3>2
  <2>4. Ended(b, p) => Ended(b, p)'
    <3>1. CASE ReadRow(b, p)
      BY <3>1, ReadRowStep DEF Ended
    <3>2. CASE SaveRow(b, p)
      BY <3>2, SaveRowStep DEF Ended
    <3>3. CASE UpdateBatchStatus(b, p)
      <4>1. jobs'[b][p].at = "counted"
        BY <3>3, UpdateBatchStatusStep
      <4>2. QED
        BY <4>1 DEF Ended
    <3>4. CASE RefreshBatch(b, p)
      BY <3>4, RefreshBatchStep DEF Ended
    <3>5. CASE UpdateCheckRun(b, p)
      BY <3>5, UpdateCheckRunStep DEF Ended
    <3>6. JobFails(b, p) \/ MissRow(b, p) => jobs[b][p].at = "created"
      BY StageSteps
    <3>7. SaveJob(b, p) => jobs'[b][p].at = "saved"
      BY StageSteps
    <3>8. Automerge(b, p) \/ AutomergeByBatch(b, p) => jobs'[b][p].at \in {"merging", "done"}
      BY StageSteps
    <3>9. MergePullRequest(b, p) \/ MergeRefused(b, p) => jobs'[b][p].at = "done"
      BY StageSteps
    <3>10. ReportFails(b, p) =>
             jobs'[b][p].at = IF jobs[b][p].at \in {"read", "marked"} THEN "lost" ELSE "done"
      BY StageSteps
    <3>11. WriteLost(b, p) => jobs'[b][p].at \in {"counted", "shown"}
      BY WriteLostStep
    <3>12. QED
      BY <1>3, <3>1, <3>2, <3>3, <3>4, <3>5, <3>6, <3>7, <3>8, <3>9, <3>10, <3>11
         DEF Ended, Reporter, Report
  <2>5. \A d \in Batches : \A q \in JobsOf(d) : Ended(d, q) => Ended(d, q)'
    <3>1. \A d \in Batches, q \in Projects : d # b \/ q # p => jobs'[d][q] = jobs[d][q]
      BY <2>1 DEF ReportFrame
    <3>2. QED
      BY <2>4, <3>1, Members DEF Ended
  <2>6. QED
    BY <2>2, <2>3, <2>5
<1>4. Stays
  <2>1. UNCHANGED vars \/ Webhooks => Stays
    BY <1>1, WebhookStep DEF vars
  <2>2. ASSUME NEW t \in Tasks, \/ ReadConfig(t) \/ Detect(t) \/ CheckRows(t) \/ HandlerEnds(t)
                                \/ CreateImpactedProject(t)
        PROVE  Stays
    BY <1>1, <2>2 DEF ReadConfig, Detect, CheckRows, HandlerEnds, CreateImpactedProject
  <2> HIDE DEF Stays
  <2>3. QED
    BY <1>2, <1>3, <2>1, <2>2, Steps
<1>5. ASSUME NEW c, NEW q \in AppliedAt(c)
      PROVE  q \in AppliedAt(c)'
  <2>1. PICK b \in Batches : /\ batches[b].commit = c /\ batches[b].type = "apply"
                             /\ jobs[b][q].at \notin {"none", "created", "failed"} /\ q \in Projects
    BY DEF AppliedAt
  <2>2. <<b, q>> \in Reported'
    BY <1>4, <2>1 DEF Reported
  <2>3. jobs'[b][q].at \notin {"none", "created", "failed"}
    BY <2>2 DEF Reported
  <2>4. b \in Batches' /\ batches'[b].commit = c /\ batches'[b].type = "apply"
    BY <1>4, <2>1
  <2>5. QED
    BY <2>1, <2>3, <2>4 DEF AppliedAt
<1>6. QED
  BY <1>4, <1>5

\* Counting rows: with no project applied twice, a commit has no more applied
\* rows than applied projects; so if all its rows are, all its projects are.
LEMMA CountApplied ==
  ASSUME Typed, KnownRows, Traces, odd \cap {"twice", "moved", "partial"} = {},
         NEW b \in Batches, AllImpactedProjectApplied(batches[b].commit)
  PROVE  ImpactedBy[batches[b].commit] \subseteq AppliedAt(batches[b].commit)
<1> DEFINE c == batches[b].commit
<1>1. c \in Commits /\ ImpactedBy[c] \subseteq Recorded(c)
  <2>1. Relies(batches[b], Recorded(batches[b].commit))
    BY DEF KnownRows
  <2>2. QED
    BY <2>1, Members DEF Relies, BatchType
<1>2. PICK g \in [Reported -> 0..Len(rows)] : Traced(g)
  BY DEF Traces
<1>3. \A i \in RowsOf(c) : rows[i].applied
  BY DEF AllImpactedProjectApplied
<1> HIDE DEF c
<1> DEFINE S == {x \in Reports(c, "apply") : g[x] # 0}
           project == [i \in RowsOf(c) |-> rows[i].project]
           of == [x \in S |-> x[2]]
<1>4. IsFiniteSet(RowsOf(c)) /\ IsFiniteSet(S) /\ IsFiniteSet(AppliedAt(c))
      /\ IsFiniteSet(ImpactedBy[c])
  <2>1. RowsOf(c) \in SUBSET (1..Len(rows)) /\ AppliedAt(c) \in SUBSET Projects
    BY DEF RowsOf, RowIDs, AppliedAt
  <2>2. IsFiniteSet(1..Len(rows))
    BY Members, FS_Interval
  <2>3. IsFiniteSet(Reports(c, "apply")) /\ S \in SUBSET Reports(c, "apply")
    BY ReportedFinite
  <2>4. QED
    BY <1>1, <2>1, <2>2, <2>3, ProjectsAssumption, Impacted, FS_Subset
<1>5. Cardinality(ImpactedBy[c]) <= Cardinality(RowsOf(c))
  <2>1. \A q \in ImpactedBy[c] : \E i \in RowsOf(c) : project[i] = q
    BY <1>1 DEF Recorded
  <2> HIDE DEF project
  <2>2. QED
    BY <1>4, <2>1, ImageSize
<1>6. Cardinality(RowsOf(c)) <= Cardinality(S)
  <2>1. ASSUME NEW i \in RowsOf(c)
        PROVE  \E x \in S : g[x] = i
    <3>1. i \in RowIDs /\ rows[i].commit = c /\ i # 0
      BY DEF RowsOf, RowIDs
    <3>2. RowBy(g, "apply", i)
      BY <1>2, <1>3, <3>1 DEF Traced, TracedRow
    <3>3. PICK x \in Reported : batches[x[1]].type = "apply" /\ g[x] = i
      BY <3>2 DEF RowBy
    <3>4. batches[x[1]].commit = c
      BY <1>2, <3>1, <3>3 DEF Traced, TracedJob, RowsOf
    <3>5. x \in S
      BY <3>1, <3>3, <3>4 DEF Reported, Reports
    <3>6. QED
      BY <3>3, <3>5
  <2> HIDE DEF S
  <2>2. QED
    BY <1>4, <2>1, ImageSize
<1>7. \A x \in S : /\ x \in Reported /\ batches[x[1]].commit = c /\ batches[x[1]].type = "apply"
                   /\ g[x] # 0
  BY DEF Reports, Reported
<1>8. Cardinality(S) <= Cardinality(AppliedAt(c))
  <2>1. \A x \in S : of[x] \in AppliedAt(c)
    BY <1>7, AppliedReported
  <2>2. \A x, y \in S : of[x] = of[y] => x = y
    BY <1>2, <1>7 DEF Traced, Once, SameProject
  <2> HIDE DEF S, of
  <2>3. QED
    BY <1>4, <2>1, <2>2, InjectionSize
<1>9. AppliedAt(c) \in SUBSET ImpactedBy[c]
  <2> SUFFICES ASSUME NEW q \in AppliedAt(c)
               PROVE  q \in ImpactedBy[c]
    OBVIOUS
  <2>1. PICK x \in Reported : batches[x[1]].commit = c /\ x[2] = q
    BY AppliedReported
  <2>2. Relies(batches[x[1]], Recorded(batches[x[1]].commit)) /\ q \in JobsOf(x[1])
    BY <2>1, AppliedReported DEF KnownRows
  <2>3. QED
    BY <2>1, <2>2 DEF Relies, JobsOf
<1> HIDE DEF S
<1>10. Cardinality(ImpactedBy[c]) = Cardinality(AppliedAt(c))
  <2>1. /\ Cardinality(ImpactedBy[c]) \in Nat /\ Cardinality(AppliedAt(c)) \in Nat
        /\ Cardinality(RowsOf(c)) \in Nat /\ Cardinality(S) \in Nat
    BY <1>4, FS_CardinalityType
  <2>2. Cardinality(AppliedAt(c)) <= Cardinality(ImpactedBy[c])
    BY <1>4, <1>9, FS_Subset
  <2>3. QED
    BY <1>5, <1>6, <1>8, <2>1, <2>2
<1>11. ImpactedBy[c] = AppliedAt(c)
  BY <1>4, <1>9, <1>10, FS_Subset
<1>12. QED
  BY <1>11 DEF c

\* A report has seen its batch succeed, or goes on to merge, only in these ways.
LEMMA ReporterMerges ==
  ASSUME Typed, NEW b \in Batches, NEW p \in JobsOf(b), Reporter(b, p)
  PROVE  /\ jobs'[b][p].succeeded => jobs[b][p].succeeded \/ \A q \in JobsOf(b) : Ended(b, q)
         /\ jobs'[b][p].at = "merging" =>
              /\ jobs[b][p].succeeded /\ batches[b].type = "apply"
              /\ AllImpactedProjectApplied(batches[b].commit) \/ batches[b].covers
<1> DEFINE Sees == jobs'[b][p].succeeded => jobs[b][p].succeeded \/ \A q \in JobsOf(b) : Ended(b, q)
           Merges == jobs'[b][p].at = "merging" =>
              /\ jobs[b][p].succeeded /\ batches[b].type = "apply"
              /\ AllImpactedProjectApplied(batches[b].commit) \/ batches[b].covers
<1>1. CASE ReadRow(b, p)
  BY <1>1, ReadRowStep
<1>2. CASE SaveRow(b, p)
  BY <1>2, SaveRowStep
<1>3. CASE UpdateBatchStatus(b, p)
  BY <1>3, UpdateBatchStatusStep
<1>4. CASE RefreshBatch(b, p)
  BY <1>4, RefreshBatchStep
<1>5. CASE UpdateCheckRun(b, p)
  BY <1>5, UpdateCheckRunStep
<1>6. CASE \/ JobFails(b, p) \/ MissRow(b, p) \/ SaveJob(b, p) \/ Automerge(b, p)
           \/ AutomergeByBatch(b, p) \/ MergePullRequest(b, p) \/ MergeRefused(b, p)
           \/ ReportFails(b, p)
  <2>1. Sees
    BY <1>6, StageSteps
  <2>2. JobFails(b, p) => jobs'[b][p].at = "failed"
    BY StageSteps
  <2>3. MissRow(b, p) => jobs'[b][p].at = "marked"
    BY StageSteps
  <2>4. SaveJob(b, p) => jobs'[b][p].at = "saved"
    BY StageSteps
  <2>5. Automerge(b, p) =>
              jobs'[b][p].at =
                   IF /\ jobs[b][p].succeeded /\ batches[b].type = "apply"
                      /\ AllImpactedProjectApplied(batches[b].commit)
                   THEN "merging" ELSE "done"
    BY StageSteps
  <2>6. AutomergeByBatch(b, p) =>
              jobs'[b][p].at =
                   IF jobs[b][p].succeeded /\ batches[b].type = "apply" /\ batches[b].covers
                   THEN "merging" ELSE "done"
    BY StageSteps
  <2>7. MergePullRequest(b, p) \/ MergeRefused(b, p) => jobs'[b][p].at = "done"
    BY StageSteps
  <2>8. ReportFails(b, p) =>
          jobs'[b][p].at = IF jobs[b][p].at \in {"read", "marked"} THEN "lost" ELSE "done"
    BY StageSteps
  <2>9. Merges
    BY <1>6, <2>2, <2>3, <2>4, <2>5, <2>6, <2>7, <2>8
  <2>10. QED
    BY <2>1, <2>9
<1>7. CASE WriteLost(b, p)
  BY <1>7, WriteLostStep
<1>8. QED
  BY <1>1, <1>2, <1>3, <1>4, <1>5, <1>6, <1>7 DEF Reporter, Report

\* A report that has seen its batch succeed has seen all its jobs end, and one
\* that merges knows every project of the commit to be applied, as long as no
\* project is applied twice and the rows are complete.
Sees(b, p) == jobs[b][p].succeeded => \A q \in JobsOf(b) : Ended(b, q)

Waits(b, p) ==
  jobs[b][p].at = "merging" /\ odd \cap {"twice", "moved", "partial"} = {} =>
    ImpactedBy[batches[b].commit] \subseteq AppliedAt(batches[b].commit)

Merging ==
  /\ \A b \in Batches : \A p \in JobsOf(b) : Sees(b, p) /\ Waits(b, p)
  /\ MergedAllApplied

\* Each step keeps a report that is about to merge waiting for every project.
LEMMA MergingStep ==
  ASSUME Typed, KnownRows, Traces, Merging, [Next]_vars
  PROVE  Merging'
<1>1. /\ Batches \subseteq Batches' /\ odd \subseteq odd'
      /\ \A d \in Batches : /\ batches'[d].commit = batches[d].commit
                            /\ batches'[d].type = batches[d].type
                            /\ JobsOf(d)' = JobsOf(d)
                            /\ \A q \in JobsOf(d) : Ended(d, q) => Ended(d, q)'
      /\ \A c : AppliedAt(c) \subseteq AppliedAt(c)'
  BY ReportedGrows, OddGrows
\* A job that the step leaves alone.
<1>2. ASSUME NEW d \in Batches, NEW q \in JobsOf(d), jobs'[d][q] = jobs[d][q]
      PROVE  Sees(d, q)' /\ Waits(d, q)'
  <2>1. Sees(d, q) /\ Waits(d, q)
    BY DEF Merging
  <2>2. Sees(d, q)'
    BY <1>1, <1>2, <2>1 DEF Sees
  <2>3. Waits(d, q)'
    <3> SUFFICES ASSUME jobs'[d][q].at = "merging", odd' \cap {"twice", "moved", "partial"} = {}
                 PROVE  ImpactedBy[batches'[d].commit] \subseteq AppliedAt(batches[d].commit)'
      BY DEF Waits
    <3>1. ImpactedBy[batches[d].commit] \subseteq AppliedAt(batches[d].commit)
      BY <1>1, <1>2, <2>1 DEF Waits
    <3>2. batches'[d].commit = batches[d].commit
      BY <1>1
    <3>3. QED
      BY <1>1, <3>1, <3>2
  <2>4. QED
    BY <2>2, <2>3
<1>3. ASSUME UNCHANGED <<batches, jobs, merge>>
      PROVE  Merging'
  <2>1. \A d \in Batches' : \A q \in JobsOf(d)' : Sees(d, q)' /\ Waits(d, q)'
    BY <1>2, <1>3 DEF Batches, JobsOf
  <2>2. MergedAllApplied'
    BY <1>3 DEF Merging, MergedAllApplied
  <2>3. QED
    BY <2>1, <2>2 DEF Merging
<1>4. CASE UNCHANGED vars
  BY <1>3, <1>4 DEF vars
<1>5. CASE Webhooks
  BY <1>3, <1>5, WebhookStep
<1>6. ASSUME NEW t \in Tasks, \/ ReadConfig(t) \/ Detect(t) \/ CheckRows(t) \/ HandlerEnds(t)
                              \/ CreateImpactedProject(t)
      PROVE  Merging'
  BY <1>3, <1>6 DEF ReadConfig, Detect, CheckRows, HandlerEnds, CreateImpactedProject
<1>7. ASSUME NEW t \in Tasks, Trigger(t) \/ ApplyAll(t)
      PROVE  Merging'
  <2>1. PICK projects \in (SUBSET Projects) \ {{}}, covers \in BOOLEAN : NewBatch(t, projects, covers)
    BY <1>7, NewBatchStep
  <2>2. ASSUME NEW d \in Batches', NEW q \in JobsOf(d)'
        PROVE  Sees(d, q)' /\ Waits(d, q)'
    <3>1. d \in Batches \/ d = Len(batches) + 1
      BY <2>1, Members DEF Batches, NewBatch
    <3>2. CASE d \in Batches
      BY <1>1, <1>2, <2>1, <3>2 DEF NewBatch
    <3>3. CASE d = Len(batches) + 1
      <4>1. q \in projects /\ q \in Projects
        BY <2>1, <3>3 DEF NewBatch, JobsOf
      <4>2. jobs'[d][q].at = "created" /\ ~jobs'[d][q].succeeded
        BY <2>1, <3>3, <4>1 DEF NewBatch
      <4>3. QED
        BY <4>2 DEF Sees, Waits
    <3>4. QED
      BY <3>1, <3>2, <3>3
  <2>3. MergedAllApplied'
    BY <2>1 DEF NewBatch, Merging, MergedAllApplied
  <2>4. QED
    BY <2>2, <2>3 DEF Merging
<1>8. ASSUME NEW b \in Batches, NEW p \in JobsOf(b), Reporter(b, p)
      PROVE  Merging'
  <2>1. ReportFrame(b, p) /\ Batches' = Batches
    BY <1>8, ReporterStep DEF ReportFrame, SameBatches, Batches
  <2>2. Sees(b, p)'
    <3>1. jobs'[b][p].succeeded => jobs[b][p].succeeded \/ \A q \in JobsOf(b) : Ended(b, q)
      BY <1>8, ReporterMerges
    <3>2. Sees(b, p)
      BY DEF Merging
    <3>3. QED
      BY <1>1, <3>1, <3>2 DEF Sees
  <2>3. Waits(b, p)'
    <3> SUFFICES ASSUME jobs'[b][p].at = "merging", odd' \cap {"twice", "moved", "partial"} = {}
                 PROVE  ImpactedBy[batches'[b].commit] \subseteq AppliedAt(batches[b].commit)'
      BY DEF Waits
    <3>1. odd \cap {"twice", "moved", "partial"} = {} /\ odd \cap {"moved", "partial"} = {}
      BY <1>1
    <3>2. /\ jobs[b][p].succeeded /\ batches[b].type = "apply"
          /\ AllImpactedProjectApplied(batches[b].commit) \/ batches[b].covers
      BY <1>8, ReporterMerges
    <3>3. CASE batches[b].covers
      <4>1. JobsOf(b) = ImpactedBy[batches[b].commit]
        BY <3>1, <3>3 DEF KnownRows, Relies, JobsOf
      <4>2. \A q \in JobsOf(b) : Ended(b, q)
        BY <3>2 DEF Merging, Sees
      <4>3. \A q \in JobsOf(b) : q \in AppliedAt(batches[b].commit)
        BY <3>2, <4>2, Members DEF Ended, AppliedAt
      <4>4. ImpactedBy[batches[b].commit] \subseteq AppliedAt(batches[b].commit)
        BY <4>1, <4>3
      <4>5. batches'[b].commit = batches[b].commit
        BY <1>1
      <4>6. QED
        BY <1>1, <4>4, <4>5
    <3>4. CASE AllImpactedProjectApplied(batches[b].commit)
      <4>1. ImpactedBy[batches[b].commit] \subseteq AppliedAt(batches[b].commit)
        BY <3>1, <3>4, CountApplied
      <4>2. batches'[b].commit = batches[b].commit
        BY <1>1
      <4>3. QED
        BY <1>1, <4>1, <4>2
    <3>5. QED
      BY <3>2, <3>3, <3>4
  <2>4. \A d \in Batches : \A q \in JobsOf(d) : Sees(d, q)' /\ Waits(d, q)'
    <3>1. ASSUME NEW d \in Batches, NEW q \in JobsOf(d), d # b \/ q # p
          PROVE  jobs'[d][q] = jobs[d][q]
      BY <2>1, <3>1, Members DEF ReportFrame
    <3>2. QED
      BY <1>2, <2>2, <2>3, <3>1
  <2>5. MergedAllApplied'
    <3>1. \/ merge' = merge
          \/ /\ jobs[b][p].at = "merging" /\ merge'.excuses = odd
             /\ merge'.missing = ImpactedBy[batches[b].commit] \ AppliedAt(batches[b].commit)
      BY <1>8, ReporterTypes
    <3>2. Waits(b, p) /\ MergedAllApplied
      BY DEF Merging
    <3>3. QED
      BY <3>1, <3>2 DEF Waits, MergedAllApplied
  <2>6. QED
    BY <1>1, <2>1, <2>4, <2>5 DEF Merging
<1>9. QED
  BY <1>4, <1>5, <1>6, <1>7, <1>8, Steps

\* Reports that come to the merge have seen every project applied, in every history.
LEMMA MergingAlways == Spec => [](Typed /\ KnownRows /\ Traces /\ Merging)
<1>1. Init => Merging
  BY DEF Init, Merging, MergedAllApplied, NoMerge, Batches
<1>2. Typed /\ KnownRows /\ Traces /\ Merging /\ [Next]_vars => Merging'
  BY MergingStep
<1>3. QED
  BY <1>1, <1>2, KnownRowsAlways, TracesAlways, PTL DEF Spec

\* auto_merge merges after an apply at a commit only when every project that
\* the commit impacts has been applied: although a report marks any row of the
\* commit, as many applied rows as projects mean that all are applied.
THEOREM MergesWait == Spec => []MergedAllApplied
<1>1. Merging => MergedAllApplied
  BY DEF Merging
<1>2. QED
  BY <1>1, MergingAlways, PTL

-----------------------------------------------------------------------------
(* What is applied gets merged                                             *)

\* A project has one row for a commit, unless two handlers have written it.
RowsOnce ==
  "double row" \notin odd =>
    \A i, k \in RowIDs :
      rows[i].commit = rows[k].commit /\ rows[i].project = rows[k].project => i = k

\* Each step writes at most one row for a project and a commit.
LEMMA RowsOnceStep ==
  ASSUME Typed, RowsOnce, [Next]_vars
  PROVE  RowsOnce'
<1> SUFFICES ASSUME "double row" \notin odd', NEW i \in RowIDs', NEW k \in RowIDs',
                    rows'[i].commit = rows'[k].commit, rows'[i].project = rows'[k].project
             PROVE  i = k
  BY DEF RowsOnce
<1>1. \A u, v \in RowIDs :
        rows[u].commit = rows[v].commit /\ rows[u].project = rows[v].project => u = v
  BY OddGrows DEF RowsOnce
<1>2. ASSUME UNCHANGED rows
      PROVE  i = k
  BY <1>1, <1>2 DEF RowIDs
<1>3. UNCHANGED vars \/ Webhooks => i = k
  BY <1>2, WebhookStep DEF vars
<1>4. ASSUME NEW t \in Tasks, \/ ReadConfig(t) \/ Detect(t) \/ CheckRows(t) \/ HandlerEnds(t)
                              \/ Trigger(t) \/ ApplyAll(t)
      PROVE  i = k
  <2>1. UNCHANGED rows
    BY <1>4, NewBatchStep DEF ReadConfig, Detect, CheckRows, HandlerEnds, NewBatch
  <2>2. QED
    BY <1>2, <2>1
<1>5. ASSUME NEW t \in Tasks, CreateImpactedProject(t)
      PROVE  i = k
  <2>1. PICK p \in Projects :
          /\ p \in Recorded(tasks[t].commit) => "double row" \in odd'
          /\ rows' = Append(rows, [commit |-> tasks[t].commit, project |-> p,
                                   planned |-> FALSE, applied |-> FALSE])
    BY <1>5, CreateImpactedProjectStep
  <2> DEFINE r == [commit |-> tasks[t].commit, project |-> p, planned |-> FALSE, applied |-> FALSE]
  <2>2. r \in RowType /\ r.commit = tasks[t].commit /\ r.project = p
    BY <1>5, CreateImpactedProjectStep DEF RowType
  <2>3. rows' = Append(rows, r)
    BY <2>1
  <2> HIDE DEF r
  <2>4. /\ rows'[Len(rows) + 1] = r /\ \A u \in RowIDs : rows'[u] = rows[u]
        /\ RowIDs' = RowIDs \cup {Len(rows) + 1}
    BY <2>2, <2>3, NewRow, NewRowRecorded
  <2>5. \A u \in RowIDs : rows[u].commit # r.commit \/ rows[u].project # r.project
    BY <2>1, <2>2 DEF Recorded, RowsOf
  <2>6. CASE i \in RowIDs /\ k \in RowIDs
    BY <1>1, <2>4, <2>6
  <2>7. CASE i = Len(rows) + 1 \/ k = Len(rows) + 1
    BY <2>4, <2>5, <2>7
  <2>8. QED
    BY <2>4, <2>6, <2>7
<1>6. ASSUME NEW b \in Batches, NEW p \in JobsOf(b), Reporter(b, p)
      PROVE  i = k
  <2>1. SameRows
    BY <1>6, ReporterStep DEF ReportFrame
  <2>2. RowIDs' = RowIDs
    BY <2>1, SameRowsOf
  <2>3. QED
    BY <1>1, <2>1, <2>2 DEF SameRows
<1>7. QED
  BY <1>3, <1>4, <1>5, <1>6, Steps

\* Counting rows the other way: when nothing goes wrong, every apply that is
\* counted has marked a row of its own, so that no row is left unmarked.
LEMMA CountMarks ==
  ASSUME Typed, KnownRows, Traces, RowsOnce, odd = {}, NEW c \in Commits,
         ImpactedBy[c] \subseteq AppliedAt(c),
         \A d \in Batches : \A q \in JobsOf(d) :
           batches[d].commit = c /\ batches[d].type = "apply" => Counted(d, q)
  PROVE  AllImpactedProjectApplied(c)
<1>1. PICK g \in [Reported -> 0..Len(rows)] : Traced(g)
  BY DEF Traces
<1> DEFINE S == Reports(c, "apply")
           M == {i \in RowsOf(c) : rows[i].applied}
           project == [i \in RowsOf(c) |-> rows[i].project]
           of == [x \in S |-> x[2]]
<1>2. \A i \in RowsOf(c) : i \in RowIDs /\ rows[i].commit = c
  BY DEF RowsOf
<1>3. IsFiniteSet(RowsOf(c)) /\ IsFiniteSet(S) /\ IsFiniteSet(M) /\ IsFiniteSet(ImpactedBy[c])
  <2>1. RowsOf(c) \in SUBSET (1..Len(rows)) /\ M \in SUBSET RowsOf(c)
    BY DEF RowsOf, RowIDs
  <2>2. IsFiniteSet(1..Len(rows))
    BY Members, FS_Interval
  <2>3. IsFiniteSet(S)
    BY ReportedFinite
  <2> HIDE DEF S, M
  <2>4. QED
    BY <2>1, <2>2, <2>3, Impacted, FS_Subset
<1>4. \A x \in S : /\ x \in Reported /\ batches[x[1]].commit = c /\ batches[x[1]].type = "apply"
                   /\ Saves(x)
  <2>1. \A x \in S : x \in Reported /\ batches[x[1]].commit = c /\ batches[x[1]].type = "apply"
    BY DEF Reports, Reported
  <2>2. \A x \in S : Counted(x[1], x[2])
    BY <2>1, AppliedReported
  <2>3. QED
    BY <2>1, <2>2 DEF Saves, Counted
<1>5. /\ \A x \in Reported : Saves(x) => g[x] # 0 /\ rows[g[x]].applied
      /\ \A x, y \in Reported : Saves(x) /\ Saves(y) /\ g[x] = g[y] => x = y
  BY <1>1 DEF Traced, Marking
<1>6. \A x \in S : g[x] \in M
  BY <1>1, <1>4, <1>5 DEF Traced, TracedJob
<1>7. \A x, y \in S : g[x] = g[y] => x = y
  BY <1>4, <1>5
<1>8. \A q \in ImpactedBy[c] : \E x \in S : of[x] = q
  <2> SUFFICES ASSUME NEW q \in ImpactedBy[c]
               PROVE  \E x \in S : of[x] = q
    OBVIOUS
  <2>1. PICK x \in Reported : /\ batches[x[1]].commit = c /\ batches[x[1]].type = "apply"
                              /\ x[2] = q
    BY AppliedReported
  <2>2. x \in S
    BY <2>1 DEF Reported, Reports
  <2>3. QED
    BY <2>1, <2>2
<1>9. /\ \A i \in RowsOf(c) : project[i] \in ImpactedBy[c]
      /\ \A i, k \in RowsOf(c) : project[i] = project[k] => i = k
  <2>1. \A i \in RowIDs : rows[i].project \in ImpactedBy[rows[i].commit]
    BY DEF KnownRows
  <2>2. \A i, k \in RowIDs :
          rows[i].commit = rows[k].commit /\ rows[i].project = rows[k].project => i = k
    BY DEF RowsOnce
  <2>3. QED
    BY <1>2, <2>1, <2>2
<1>10. M \in SUBSET RowsOf(c)
  OBVIOUS
<1> HIDE DEF S, M, project, of
<1>11. Cardinality(RowsOf(c)) = Cardinality(M)
  <2>1. Cardinality(S) <= Cardinality(M)
    BY <1>3, <1>6, <1>7, InjectionSize
  <2>2. Cardinality(ImpactedBy[c]) <= Cardinality(S)
    BY <1>3, <1>8, ImageSize
  <2>3. Cardinality(RowsOf(c)) <= Cardinality(ImpactedBy[c])
    BY <1>3, <1>9, InjectionSize
  <2>4. Cardinality(M) <= Cardinality(RowsOf(c))
    BY <1>3, <1>10, FS_Subset
  <2>5. /\ Cardinality(S) \in Nat /\ Cardinality(M) \in Nat
        /\ Cardinality(RowsOf(c)) \in Nat /\ Cardinality(ImpactedBy[c]) \in Nat
    BY <1>3, FS_CardinalityType
  <2>6. QED
    BY <2>1, <2>2, <2>3, <2>4, <2>5
<1>12. RowsOf(c) = M
  BY <1>3, <1>10, <1>11, FS_Subset
<1>13. QED
  BY <1>12 DEF M, AllImpactedProjectApplied

\* An apply at commit c is on its way, or has seen its batch succeed and is not
\* done: one of them will find every row applied.
Pends(c, b, p) ==
  /\ batches[b].commit = c /\ batches[b].type = "apply"
  /\ ~Counted(b, p) \/ (jobs[b][p].succeeded /\ jobs[b][p].at # "done")

Comes ==
  odd = {} /\ pr.state = "open" /\ ~pr.draft =>
    \A c \in Commits : ImpactedBy[c] # {} /\ ImpactedBy[c] \subseteq AppliedAt(c) =>
      \E b \in Batches : \E p \in JobsOf(b) : Pends(c, b, p)

\* A report that ends without a merge leaves it to one that counts later.
LEMMA ComesReport ==
  ASSUME Typed, KnownRows, Traces, RowsOnce, Comes,
         odd = {}, odd' = {}, pr.state = "open", ~pr.draft, pr'.state = "open",
         NEW c \in Commits, ImpactedBy[c] # {}, ImpactedBy[c] \subseteq AppliedAt(c)',
         NEW b \in Batches, NEW p \in JobsOf(b), Reporter(b, p)
  PROVE  \E d \in Batches : \E q \in JobsOf(d) : Pends(c, d, q)'
<1> DEFINE Goal == \E d \in Batches : \E q \in JobsOf(d) : Pends(c, d, q)'
           Ours == batches[b].commit = c /\ batches[b].type = "apply"
<1>1. ReportFrame(b, p)
  BY ReporterStep
<1>2. ASSUME NEW d \in Batches, NEW q \in JobsOf(d), d # b \/ q # p, Pends(c, d, q)
      PROVE  Goal
  <2>1. jobs'[d][q] = jobs[d][q]
    BY <1>1, <1>2, Members DEF ReportFrame
  <2>2. batches'[d].commit = batches[d].commit /\ batches'[d].type = batches[d].type
    BY <1>1 DEF ReportFrame, SameBatches
  <2>3. Pends(c, d, q)'
    BY <1>2, <2>1, <2>2 DEF Pends, Counted
  <2>4. QED
    BY <2>3
<1>3. ASSUME Ours, ~Counted(b, p)' \/ (jobs'[b][p].succeeded /\ jobs'[b][p].at # "done")
      PROVE  Goal
  <2>1. batches'[b].commit = batches[b].commit /\ batches'[b].type = batches[b].type
    BY <1>1 DEF ReportFrame, SameBatches
  <2>2. Pends(c, b, p)'
    BY <1>3, <2>1 DEF Pends
  <2>3. QED
    BY <2>2
<1>4. ASSUME \A x \in Reported' : x = <<b, p>> /\ Ours => x \in Reported
      PROVE  ImpactedBy[c] \subseteq AppliedAt(c)
  <2> SUFFICES ASSUME NEW q \in ImpactedBy[c]
               PROVE  q \in AppliedAt(c)
    OBVIOUS
  <2>1. PICK d \in Batches' : /\ batches'[d].commit = c /\ batches'[d].type = "apply"
                              /\ jobs'[d][q].at \notin {"none", "created", "failed"}
                              /\ q \in Projects
    BY DEF AppliedAt
  <2>2. /\ <<d, q>> \in Batches \X Projects /\ <<d, q>> \in Reported'
        /\ batches[d].commit = c /\ batches[d].type = "apply"
    <3>1. <<d, q>> \in Reported'
      BY <2>1 DEF Reported
    <3>2. <<d, q>> \in Batches \X Projects
      BY <1>1, <3>1, ReportedStep
    <3>3. d \in Batches /\ batches'[d].commit = batches[d].commit
          /\ batches'[d].type = batches[d].type
      BY <1>1, <3>2 DEF ReportFrame, SameBatches
    <3>4. QED
      BY <2>1, <3>1, <3>2, <3>3
  <2>3. <<d, q>> \in Reported
    <3>1. CASE <<d, q>> = <<b, p>>
      <4>1. Ours
        BY <2>2, <3>1
      <4>2. QED
        BY <1>4, <2>2, <3>1, <4>1
    <3>2. CASE <<d, q>> # <<b, p>>
      BY <1>1, <2>2, <3>2, ReportedStep
    <3>3. QED
      BY <3>1, <3>2
  <2>4. jobs[d][q].at \notin {"none", "created", "failed"}
    BY <2>3 DEF Reported
  <2>5. QED
    BY <2>1, <2>2, <2>4 DEF AppliedAt
<1>5. ASSUME ImpactedBy[c] \subseteq AppliedAt(c)
      PROVE  Goal \/ (Ours /\ Pends(c, b, p))
  <2>0. PICK d \in Batches : \E q \in JobsOf(d) : Pends(c, d, q)
    BY <1>5 DEF Comes
  <2>1. PICK q \in JobsOf(d) : Pends(c, d, q)
    BY <2>0
  <2>2. CASE d = b /\ q = p
    BY <2>1, <2>2 DEF Pends
  <2>3. CASE d # b \/ q # p
    BY <1>2, <2>1, <2>3
  <2>4. QED
    BY <2>2, <2>3
<1> HIDE DEF Goal
<1>6. CASE ~Ours
  BY <1>4, <1>5, <1>6 DEF Goal
<1>7. CASE Ours
  <2> HIDE DEF Ours
  <2>1. ASSUME \/ ReadRow(b, p) \/ SaveRow(b, p) \/ SaveJob(b, p)
        PROVE  Goal
    <3>1. ReadRow(b, p) => jobs'[b][p].at = "read"
      BY ReadRowStep
    <3>2. SaveRow(b, p) => jobs'[b][p].at = "marked"
      BY SaveRowStep
    <3>3. SaveJob(b, p) => jobs'[b][p].at = "saved"
      BY StageSteps
    <3>4. ~Counted(b, p)'
      BY <2>1, <3>1, <3>2, <3>3 DEF Counted
    <3>5. QED
      BY <1>3, <1>7, <3>4
  <2>2. CASE UpdateBatchStatus(b, p)
    <3>1. jobs[b][p].at = "saved" /\ jobs'[b][p].at = "counted"
      BY <2>2, UpdateBatchStatusStep
    <3>2. CASE \A q \in JobsOf(b) : Ended(b, q)
      <4>1. jobs'[b][p].succeeded
        BY <2>2, <3>2, UpdateBatchStatusStep
      <4>2. jobs'[b][p].at # "done"
        BY <3>1
      <4>3. QED
        BY <1>3, <1>7, <4>1, <4>2 DEF Goal
    <3>3. ASSUME NEW q \in JobsOf(b), ~Ended(b, q)
          PROVE  Goal
      <4>1. q # p /\ ~Counted(b, q)
        BY <3>1, <3>3 DEF Ended, Counted
      <4>2. Pends(c, b, q) /\ (b # b \/ q # p)
        BY <1>7, <4>1 DEF Pends, Ours
      <4>3. QED
        BY <1>2, <4>1, <4>2
    <3>4. QED
      BY <3>2, <3>3 DEF Goal
  <2>3. ASSUME RefreshBatch(b, p) \/ UpdateCheckRun(b, p) \/ Automerge(b, p)
        PROVE  Goal
    <3>1. RefreshBatch(b, p) => /\ jobs[b][p].at = "counted" /\ jobs'[b][p].at = "refreshed"
                                /\ jobs'[b][p].succeeded = jobs[b][p].succeeded
      BY RefreshBatchStep
    <3>2. UpdateCheckRun(b, p) => /\ jobs[b][p].at = "refreshed" /\ jobs'[b][p].at = "shown"
                                  /\ jobs'[b][p].succeeded = jobs[b][p].succeeded
      BY UpdateCheckRunStep
    <3>3. Automerge(b, p) =>
              /\ jobs[b][p].at = "shown"
              /\ jobs'[b][p].succeeded = jobs[b][p].succeeded
              /\ jobs'[b][p].at =
                   IF /\ jobs[b][p].succeeded /\ batches[b].type = "apply"
                      /\ AllImpactedProjectApplied(batches[b].commit)
                   THEN "merging" ELSE "done"
      BY StageSteps
    <3>4. jobs[b][p].at \in {"counted", "refreshed", "shown"}
      BY <2>3, <3>1, <3>2, <3>3
    <3>5. Counted(b, p) /\ <<b, p>> \in Reported
      BY <1>1, <3>4, ReportedStep DEF Counted
    <3>6. ImpactedBy[c] \subseteq AppliedAt(c)
      BY <1>4, <3>5
    <3>7. Goal \/ jobs[b][p].succeeded
      BY <1>5, <3>5, <3>6 DEF Pends
    <3>8. ASSUME Automerge(b, p), jobs[b][p].succeeded, ~AllImpactedProjectApplied(c)
          PROVE  Goal
      <4>0. PICK d \in Batches : \E q \in JobsOf(d) :
              batches[d].commit = c /\ batches[d].type = "apply" /\ ~Counted(d, q)
        BY <3>6, <3>8, CountMarks
      <4>1. PICK q \in JobsOf(d) :
              batches[d].commit = c /\ batches[d].type = "apply" /\ ~Counted(d, q)
        BY <4>0
      <4>2. Pends(c, d, q) /\ (d # b \/ q # p)
        BY <3>5, <4>1 DEF Pends
      <4>3. QED
        BY <1>2, <4>2
    <3>9. ASSUME jobs[b][p].succeeded, Automerge(b, p) => AllImpactedProjectApplied(c)
          PROVE  Goal
      <4>1. jobs'[b][p].succeeded /\ jobs'[b][p].at # "done"
        BY <1>7, <2>3, <3>1, <3>2, <3>3, <3>9 DEF Ours
      <4>2. QED
        BY <1>3, <1>7, <4>1
    <3>10. QED
      BY <3>7, <3>8, <3>9
  <2>4. ~(\/ JobFails(b, p) \/ MissRow(b, p) \/ AutomergeByBatch(b, p)
          \/ MergeRefused(b, p) \/ ReportFails(b, p) \/ WriteLost(b, p))
    BY StageSteps, WriteLostStep
  <2>5. ~MergePullRequest(b, p)
    <3>1. pr \in [head : Commits, state : {"open", "closed", "merged"}, draft : BOOLEAN]
      BY DEF Typed
    <3>2. MergePullRequest(b, p) => pr'.state = "merged"
      BY <3>1 DEF MergePullRequest
    <3>3. QED
      BY <3>2
  <2>6. QED
    BY <2>1, <2>2, <2>3, <2>4, <2>5 DEF Reporter, Report, Goal
<1>8. QED
  BY <1>6, <1>7 DEF Goal

\* Each step leaves a report that will merge, once every project has been applied.
LEMMA ComesStep ==
  ASSUME Typed, KnownRows, Traces, RowsOnce, Comes, [Next]_vars
  PROVE  Comes'
<1> SUFFICES ASSUME odd' = {}, pr'.state = "open", ~pr'.draft,
                    NEW c \in Commits, ImpactedBy[c] # {}, ImpactedBy[c] \subseteq AppliedAt(c)'
             PROVE  \E b \in Batches' : \E p \in JobsOf(b)' : Pends(c, b, p)'
  BY DEF Comes
<1> DEFINE Goal == \E b \in Batches' : \E p \in JobsOf(b)' : Pends(c, b, p)'
<1>1. odd = {}
  BY OddGrows
<1>2. pr.state = "open" /\ ~pr.draft
  <2>1. UNCHANGED pr \/ Webhooks => pr.state = "open" /\ ~pr.draft
    BY WebhookStep
  <2>2. ASSUME NEW t \in Tasks, \/ ReadConfig(t) \/ Detect(t) \/ CheckRows(t) \/ HandlerEnds(t)
                                \/ CreateImpactedProject(t) \/ Trigger(t) \/ ApplyAll(t)
        PROVE  UNCHANGED pr
    BY <2>2, NewBatchStep DEF ReadConfig, Detect, CheckRows, HandlerEnds, CreateImpactedProject,
       NewBatch
  <2>3. ASSUME NEW b \in Batches, NEW p \in JobsOf(b), Reporter(b, p)
        PROVE  UNCHANGED pr
    BY <2>3, ReporterTypes
  <2>4. QED
    BY <2>1, <2>2, <2>3, Steps DEF vars
<1>3. ASSUME AppliedAt(c)' \subseteq AppliedAt(c), Batches \subseteq Batches',
             \A d \in Batches : batches'[d] = batches[d] /\ jobs'[d] = jobs[d]
      PROVE  Goal
  <2>0. PICK d \in Batches : \E q \in JobsOf(d) : Pends(c, d, q)
    BY <1>1, <1>2, <1>3 DEF Comes
  <2>1. PICK q \in JobsOf(d) : Pends(c, d, q)
    BY <2>0
  <2>2. Pends(c, d, q)' /\ q \in JobsOf(d)'
    BY <1>3, <2>1 DEF Pends, Counted, JobsOf
  <2>3. QED
    BY <1>3, <2>2
<1>4. ASSUME UNCHANGED <<batches, jobs>>
      PROVE  Goal
  <2>1. AppliedAt(c)' = AppliedAt(c) /\ Batches' = Batches
    BY <1>4 DEF AppliedAt, Batches
  <2>2. QED
    BY <1>3, <1>4, <2>1
<1>5. UNCHANGED vars \/ Webhooks => Goal
  BY <1>4, WebhookStep DEF vars
<1>6. ASSUME NEW t \in Tasks, \/ ReadConfig(t) \/ Detect(t) \/ CheckRows(t) \/ HandlerEnds(t)
                              \/ CreateImpactedProject(t)
      PROVE  Goal
  BY <1>4, <1>6 DEF ReadConfig, Detect, CheckRows, HandlerEnds, CreateImpactedProject
<1>7. ASSUME NEW t \in Tasks, Trigger(t) \/ ApplyAll(t)
      PROVE  Goal
  <2>1. PICK projects \in (SUBSET Projects) \ {{}}, covers \in BOOLEAN : NewBatch(t, projects, covers)
    BY <1>7, NewBatchStep
  <2>2. Reported' = Reported /\ \A d \in Batches : batches'[d] = batches[d] /\ jobs'[d] = jobs[d]
    BY <2>1, ReportedNewBatch
  <2>3. Batches \subseteq Batches'
    BY <2>1, Members DEF NewBatch, Batches
  <2>4. ASSUME NEW q \in AppliedAt(c)'
        PROVE  q \in AppliedAt(c)
    <3>1. PICK d \in Batches' : /\ batches'[d].commit = c /\ batches'[d].type = "apply"
                                /\ jobs'[d][q].at \notin {"none", "created", "failed"}
                                /\ q \in Projects
      BY DEF AppliedAt
    <3>2. <<d, q>> \in Reported
      BY <2>2, <3>1 DEF Reported
    <3>3. d \in Batches /\ jobs[d][q].at \notin {"none", "created", "failed"}
      BY <3>2 DEF Reported
    <3>4. QED
      BY <2>2, <3>1, <3>3 DEF AppliedAt
  <2>5. QED
    BY <1>3, <2>2, <2>3, <2>4
<1>8. ASSUME NEW b \in Batches, NEW p \in JobsOf(b), Reporter(b, p)
      PROVE  Goal
  <2>1. \E d \in Batches : \E q \in JobsOf(d) : Pends(c, d, q)'
    BY <1>1, <1>2, <1>8, ComesReport
  <2>2. Batches \subseteq Batches' /\ \A d \in Batches : JobsOf(d)' = JobsOf(d)
    BY ReportedGrows
  <2>3. QED
    BY <2>1, <2>2
<1>9. QED
  BY <1>5, <1>6, <1>7, <1>8, Steps

\* A commit whose projects are all applied has a report that will merge it.
LEMMA ComesAlways == Spec => [](Typed /\ KnownRows /\ Traces /\ RowsOnce /\ Comes)
<1>1. Init => RowsOnce /\ Comes
  BY Impacted DEF Init, RowsOnce, Comes, RowIDs, AppliedAt, Batches
<1>2. Typed /\ KnownRows /\ Traces /\ RowsOnce /\ Comes /\ [Next]_vars => RowsOnce' /\ Comes'
  BY RowsOnceStep, ComesStep
<1>3. QED
  BY <1>1, <1>2, KnownRowsAlways, TracesAlways, PTL DEF Spec

\* When every job has ended, every report is through and nothing has gone wrong
\* on the way, a pull request whose projects have all been applied at its head
\* is no longer open, unless it is a draft: the report that counts last has seen
\* its batch succeed and finds every row applied, whichever order they come in.
THEOREM AppliedIsMerged == Spec => []AppliedMerges
<1>1. ASSUME Typed, Comes
      PROVE  AppliedMerges
  <2> SUFFICES ASSUME Quiet, odd = {}, ImpactedBy[pr.head] # {},
                      ImpactedBy[pr.head] \subseteq AppliedAt(pr.head),
                      pr.state = "open", ~pr.draft
               PROVE  FALSE
    BY DEF AppliedMerges
  <2>1. pr.head \in Commits
    BY <1>1 DEF Typed
  <2>0. PICK b \in Batches : \E p \in JobsOf(b) : Pends(pr.head, b, p)
    BY <1>1, <2>1 DEF Comes
  <2>2. PICK p \in JobsOf(b) : Pends(pr.head, b, p)
    BY <2>0
  <2>3. jobs[b][p].at = "done"
    BY DEF Quiet
  <2>4. QED
    BY <2>2, <2>3 DEF Pends, Counted
<1>2. QED
  BY <1>1, ComesAlways, PTL
==============================================================================
