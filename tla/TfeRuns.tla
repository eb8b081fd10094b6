------------------------------- MODULE TfeRuns -------------------------------
(***************************************************************************)
(* Runs of a TFE workspace in statesman: the requests that create and      *)
(* apply a run, the goroutines that plan and apply it under the lock of    *)
(* the unit, and the sandbox sidecar that runs terraform when the          *)
(* workspace executes remotely.  A call of the repository on the unit is   *)
(* two steps here, the blob store and the row (UnitStore takes them apart);*)
(* updates of the rows of a run are one step each.  The rows that log what  *)
(* a sandbox does (remote run activities) are left out.                    *)
(***************************************************************************)
EXTENDS Integers, Sequences, FiniteSets

CONSTANTS Runs,
          MaxRequests,      \* bound: runs and applies asked for
          MaxUploads,       \* bound: users' uploads under the lock of an executor, at a time
          Faults,           \* what may go wrong, one kind in a history
          NoLock, User      \* IDs of locks: a user's, beside those of the runs

ASSUME BoundsAssumption == MaxRequests \in Nat \ {0} /\ MaxUploads \in Nat
ASSUME FaultsAssumption ==
  Faults \subseteq {"db", "blob", "lostStart", "slow", "crash", "force"}
ASSUME LocksAssumption == User # NoLock /\ {User, NoLock} \cap (Runs \X {"plan", "apply"}) = {}

\* <<r, 0>> plans r, the others apply it.
Execs == Runs \X (0..MaxRequests)
IsPlan(e) == e[2] = 0
\* All apply executors of a run use one lock ID.
LockID(e) == <<e[1], IF IsPlan(e) THEN "plan" ELSE "apply">>
LockIDs == {User} \cup Runs \X {"plan", "apply"}
ExecPCs == {"idle", "asked", "start", "lock", "lockRow", "begin", "download", "run", "wait",
            "record", "finish", "finishApply", "queue", "refused", "failed", "release",
            "releaseRow", "unlock", "unlockRow", "panic", "done"}
Statuses == {"none", "pending", "planning", "planned", "apply_queued", "applying", "applied",
             "errored"}

VARIABLES remote, inMemory, fault, \* the workspace, the blob store, what may go wrong
          status, auto, linked,    \* the row of a run; linked: it has its plan's ID
          planStatus, changes,     \* the row of its plan
          lock, rowLock,           \* the unit
          uploads,                 \* lock IDs of executors that users' uploads under way have
                                   \* read from the row
          pc, good,                \* executors; terraform, or the last step, went well
          read,                    \* the state an apply has read is still the "current" one,
                                   \* was replaced by a user the apply's own lock was "lent"
                                   \* to, or was "replaced"
          job, orphans,            \* the sidecar's job an executor waits for; executors with
                                   \* jobs that run on without one
          down,                    \* a panic has ended the demo server
          seen                     \* history: jobs left behind ("orphan"), "forced"
                                   \* unlocks, goroutines "crashed"

runRows == <<status, auto, linked, planStatus, changes>>
locks == <<lock, rowLock, uploads>>
outcome == <<good, read, job>>
setting == <<remote, inMemory, fault>>
vars == <<setting, runRows, locks, pc, outcome, orphans, down, seen>>

TypeOK ==
  /\ remote \in BOOLEAN /\ inMemory \in BOOLEAN /\ fault \in Faults
  /\ status \in [Runs -> Statuses] /\ auto \in [Runs -> BOOLEAN] /\ linked \in [Runs -> BOOLEAN]
  /\ planStatus \in [Runs -> {"none", "pending", "finished", "errored"}]
  /\ changes \in [Runs -> BOOLEAN]
  /\ lock \in LockIDs \cup {NoLock} /\ rowLock \in LockIDs \cup {NoLock}
  /\ uploads \subseteq LockIDs
  /\ pc \in [Execs -> ExecPCs] /\ good \in [Execs -> BOOLEAN]
  /\ read \in [Execs -> {"no", "current", "lent", "replaced"}]
  /\ job \in [Execs -> {"none", "running", "succeeded", "failed", "gone"}]
  /\ orphans \subseteq Execs
  /\ down \in BOOLEAN /\ seen \subseteq {"orphan", "forced", "crashed"}
  /\ \A e \in Execs : job[e] # "none" <=> pc[e] = "wait"

Init ==
  /\ remote \in BOOLEAN /\ inMemory \in BOOLEAN /\ fault \in Faults
  /\ inMemory => fault # "blob"
  /\ status = [r \in Runs |-> "none"] /\ auto = [r \in Runs |-> FALSE]
  /\ linked = [r \in Runs |-> FALSE] /\ planStatus = [r \in Runs |-> "none"]
  /\ changes = [r \in Runs |-> FALSE]
  /\ lock = NoLock /\ rowLock = NoLock /\ uploads = {}
  /\ pc = [e \in Execs |-> "idle"] /\ good = [e \in Execs |-> FALSE]
  /\ read = [e \in Execs |-> "no"] /\ job = [e \in Execs |-> "none"]
  /\ orphans = {} /\ down = FALSE /\ seen = {}

Goto(e, l) == pc' = [pc EXCEPT ![e] = l]

\* The first executor of an auto-apply run is the one its plan starts.
Asked(e) == ~IsPlan(e) /\ (auto[e[1]] => e[2] > 1)

Requests ==
  Cardinality({r \in Runs : status[r] # "none"}) + Cardinality({e \in Execs : Asked(e) /\ pc[e] # "idle"})

\* An upload, by e: what others have read is no longer the state.
Replaced(e) == [f \in Execs |-> IF f = e \/ read[f] = "no" THEN "no" ELSE "replaced"]

-----------------------------------------------------------------------------
(* Requests                                                                *)

\* CreateRun: the run, its plan, the link between them, and the goroutine that
\* plans it.  The workspace or the client asks for auto-apply.
CreateRun(r) ==
  /\ status[r] = "none" /\ Requests < MaxRequests
  /\ status' = [status EXCEPT ![r] = "pending"]
  /\ \E a \in BOOLEAN : auto' = [auto EXCEPT ![r] = a]
  /\ \/ /\ planStatus' = [planStatus EXCEPT ![r] = "pending"]
        /\ \E l \in BOOLEAN : (fault # "db" => l) /\ linked' = [linked EXCEPT ![r] = l]
        /\ Goto(<<r, 0>>, "start")
     \/ fault = "db" /\ UNCHANGED <<planStatus, linked, pc>>
  /\ UNCHANGED <<setting, changes, locks, outcome, orphans, down, seen>>

\* ApplyRun has read a planned run; the plan is not looked at when it has no
\* link or cannot be read.
AskApply(e) ==
  /\ Asked(e) /\ pc[e] = "idle"
  /\ e[2] > 1 => pc[<<e[1], e[2] - 1>>] # "idle"
  /\ Requests < MaxRequests
  /\ status[e[1]] = "planned"
  /\ linked[e[1]] /\ fault # "db" => changes[e[1]]
  /\ Goto(e, "asked")
  /\ UNCHANGED <<setting, runRows, locks, outcome, orphans, down, seen>>

\* ... and queues it, whatever has become of it meanwhile.
QueueApply(e) ==
  /\ pc[e] = "asked"
  /\ \/ status' = [status EXCEPT ![e[1]] = "apply_queued"] /\ Goto(e, "start")
     \/ fault = "db" /\ Goto(e, "done") /\ UNCHANGED status
  /\ UNCHANGED <<setting, auto, linked, planStatus, changes, locks, outcome, orphans,
                 down, seen>>

-----------------------------------------------------------------------------
(* Executors: before and after terraform                                   *)

\* GetRun, the unit, the activity; an apply checks the status of the run here,
\* before it has the lock.
Start(e) ==
  LET r == e[1] IN
  /\ pc[e] = "start"
  /\ \/ fault = "db" /\ (Goto(e, "done") \/ Goto(e, "refused"))
     \/ Goto(e, IF IsPlan(e) \/ status[r] \in {"planned", "apply_queued"}
                THEN "lock" ELSE "refused")
  /\ UNCHANGED <<setting, runRows, locks, outcome, orphans, down, seen>>

\* A panic in a goroutine ends the server and what it was about; S3 and the
\* database outlive it, and nothing resumes the executors.
Crashes ==
  /\ uploads' = {}
  /\ pc' = [e \in Execs |-> IF pc[e] = "idle" THEN "idle" ELSE "done"]
  /\ good' = [e \in Execs |-> FALSE] /\ read' = [e \in Execs |-> "no"]
  /\ orphans' = orphans \cup {e \in Execs : job[e] = "running"}
  /\ job' = [e \in Execs |-> "none"]
  /\ down' = inMemory /\ seen' = seen \cup {"crashed"}

\* A slip: an executor that finds a lock goes on.
LockBlobAnyway(e) ==
  /\ pc[e] = "lock"
  /\ lock' = LockID(e) /\ Goto(e, "lockRow")
  /\ UNCHANGED <<setting, runRows, rowLock, uploads, outcome, orphans, down, seen>>

\* Only the conflict of the store in memory compares equal to ErrLockConflict:
\* then the holder is read from the row, which may not name one yet, or no
\* longer, and the nil pointer is followed.
LockBlob(e) ==
  /\ pc[e] = "lock"
  /\ \/ /\ lock = NoLock /\ lock' = LockID(e) /\ Goto(e, "lockRow")
        /\ UNCHANGED <<uploads, outcome, orphans, down, seen>>
     \/ /\ lock # NoLock /\ inMemory /\ rowLock = NoLock
        /\ Crashes /\ UNCHANGED lock
     \/ /\ \/ lock # NoLock /\ ~(inMemory /\ rowLock = NoLock)
           \/ fault = "blob"
        /\ Goto(e, "refused") /\ UNCHANGED <<lock, uploads, outcome, orphans, down, seen>>
  /\ UNCHANGED <<setting, runRows, rowLock>>

\* When the row cannot be saved the executor stops without releasing the lock.
LockRow(e) ==
  /\ pc[e] = "lockRow"
  /\ \/ rowLock' = LockID(e) /\ Goto(e, "begin")
     \/ fault = "db" /\ Goto(e, "refused") /\ UNCHANGED rowLock
  /\ UNCHANGED <<setting, runRows, lock, uploads, outcome, orphans, down, seen>>

Begin(e) ==
  /\ pc[e] = "begin"
  /\ \/ /\ status' = [status EXCEPT ![e[1]] = IF IsPlan(e) THEN "planning" ELSE "applying"]
        /\ Goto(e, "download")
     \/ fault = "db" /\ Goto(e, "failed") /\ UNCHANGED status
  /\ UNCHANGED <<setting, auto, linked, planStatus, changes, locks, outcome, orphans,
                 down, seen>>

\* The archive of the configuration, which may not have been uploaded, and the
\* state.  A state that cannot be read counts as none.
Download(e) ==
  /\ pc[e] = "download"
  /\ \/ read' = [read EXCEPT ![e] = IF IsPlan(e) THEN "no" ELSE "current"] /\ Goto(e, "run")
     \/ fault = "blob" /\ Goto(e, "run") /\ UNCHANGED read
     \/ Goto(e, "failed") /\ UNCHANGED read
  /\ UNCHANGED <<setting, runRows, locks, good, job, orphans, down, seen>>

\* handlePlanError, handleApplyError: the run is errored, and its plan; with the
\* lock held the deferred functions follow, and flushLogs wants the plan's ID.
Refuse(e) ==
  LET r == e[1] IN
  /\ pc[e] \in {"refused", "failed"}
  /\ \/ status' = [status EXCEPT ![r] = "errored"]
     \/ fault = "db" /\ UNCHANGED status
  /\ \/ IsPlan(e) /\ linked[r] /\ planStatus' = [planStatus EXCEPT ![r] = "errored"]
     \/ (IsPlan(e) /\ linked[r] => fault = "db") /\ UNCHANGED planStatus
  /\ IF pc[e] = "failed" /\ IsPlan(e) /\ ~linked[r] /\ status[r] = "planning"
     THEN Goto(e, "panic")
     ELSE Goto(e, IF pc[e] = "failed" THEN "unlock" ELSE "done")
  /\ UNCHANGED <<setting, auto, linked, changes, locks, outcome, orphans, down, seen>>

\* While a plan waits for its sandbox, the poll and the heartbeat flush logs too.
Flushes(e) == pc[e] = "wait" /\ IsPlan(e) /\ ~linked[e[1]]

\* A nil plan ID was followed: the deferred unlock is the last that happens, and
\* not even that when it was the heartbeat's goroutine.
Panic(e) ==
  /\ pc[e] = "panic" \/ Flushes(e)
  /\ \/ lock = LockID(e) /\ lock' = NoLock /\ rowLock' \in {NoLock, rowLock}
     \/ (lock = LockID(e) => Flushes(e)) /\ UNCHANGED <<lock, rowLock>>
  /\ Crashes
  /\ UNCHANGED <<setting, runRows>>

\* Unlock by the lock ID of the executor: deferred ("unlock"), where a failure
\* is only logged, or before a plan starts its apply ("release"), where it is
\* an error and the deferred one follows.
UnlockBlob(e) ==
  /\ pc[e] \in {"unlock", "release"}
  /\ \/ /\ lock = LockID(e) /\ lock' = NoLock
        /\ Goto(e, IF pc[e] = "unlock" THEN "unlockRow" ELSE "releaseRow")
     \/ /\ lock # LockID(e) \/ fault = "blob"
        /\ Goto(e, IF pc[e] = "unlock" THEN "done" ELSE "unlock") /\ UNCHANGED lock
  /\ UNCHANGED <<setting, runRows, rowLock, uploads, outcome, orphans, down, seen>>

UnlockRow(e) ==
  /\ pc[e] \in {"unlockRow", "releaseRow"}
  /\ \/ /\ rowLock' = NoLock
        /\ pc' = IF pc[e] = "unlockRow" THEN [pc EXCEPT ![e] = "done"]
                 ELSE [pc EXCEPT ![e] = "done", ![<<e[1], 1>>] = "start"]
     \/ /\ fault = "db" /\ UNCHANGED rowLock
        /\ Goto(e, IF pc[e] = "unlockRow" THEN "done" ELSE "unlock")
  /\ UNCHANGED <<setting, runRows, lock, uploads, outcome, orphans, down, seen>>

-----------------------------------------------------------------------------
(* Executors: terraform                                                    *)

\* Terraform in a process of the server: it plans, with or without changes, or
\* applies, or fails.
RunLocally(e) ==
  /\ pc[e] = "run" /\ ~remote
  /\ \E ok \in BOOLEAN : good' = [good EXCEPT ![e] = ok]
  /\ Goto(e, "record")
  /\ UNCHANGED <<setting, runRows, locks, read, job, orphans, down, seen>>

\* startRun: POSTs are retried after a network error, and the job of an answer
\* that was lost runs beside the next one, or alone when all answers are lost.
StartJob(e) ==
  /\ pc[e] = "run" /\ remote
  /\ \E started, lost \in BOOLEAN :
       /\ lost => fault = "lostStart"
       /\ Goto(e, IF started THEN "wait" ELSE "record")
       /\ job' = [job EXCEPT ![e] = IF started THEN "running" ELSE "none"]
       /\ orphans' = orphans \cup (IF lost THEN {e} ELSE {})
       /\ seen' = seen \cup (IF lost THEN {"orphan"} ELSE {})
  /\ UNCHANGED <<setting, runRows, locks, good, read, down>>

\* The sidecar runs its jobs side by side.
RunJob(e) ==
  /\ job[e] = "running"
  /\ \E st \in {"succeeded", "failed"} : job' = [job EXCEPT ![e] = st]
  /\ UNCHANGED <<setting, runRows, locks, pc, good, read, orphans, down, seen>>

EndOrphan(e) ==
  /\ e \in orphans /\ orphans' = orphans \ {e}
  /\ UNCHANGED <<setting, runRows, locks, pc, outcome, down, seen>>

\* waitForCompletion: the executor polls until its job has ended or the time
\* is up; a job the sidecar still runs then goes on without it.
WaitForJob(e) ==
  /\ pc[e] = "wait" /\ (job[e] = "running" => fault = "slow")
  /\ good' = [good EXCEPT ![e] = job[e] = "succeeded"]
  /\ job' = [job EXCEPT ![e] = "none"]
  /\ orphans' = orphans \cup (IF job[e] = "running" THEN {e} ELSE {})
  /\ seen' = seen \cup (IF job[e] = "running" THEN {"orphan"} ELSE {})
  /\ Goto(e, "record")
  /\ UNCHANGED <<setting, runRows, locks, read, down>>

\* A plan is recorded, under the ID the run has; when that fails the run keeps
\* its status.
RecordPlan(e) ==
  LET r == e[1] IN
  /\ pc[e] = "record" /\ IsPlan(e)
  /\ \/ /\ ~linked[r] /\ Goto(e, "panic")
        /\ good' = [good EXCEPT ![e] = FALSE] /\ UNCHANGED <<status, planStatus, changes>>
     \/ /\ linked[r]
        /\ \/ status' = IF good[e] THEN status ELSE [status EXCEPT ![r] = "errored"]
           \/ fault = "db" /\ UNCHANGED status
        /\ \/ /\ planStatus' = [planStatus EXCEPT ![r] = IF good[e] THEN "finished" ELSE "errored"]
              /\ \E c \in BOOLEAN : (c => good[e]) /\ changes' = [changes EXCEPT ![r] = c]
              /\ Goto(e, "finish") /\ UNCHANGED good
           \/ /\ fault = "db" /\ good' = [good EXCEPT ![e] = FALSE]
              /\ Goto(e, "unlock") /\ UNCHANGED <<planStatus, changes>>
  /\ UNCHANGED <<setting, auto, linked, locks, read, job, orphans, down, seen>>

\* A slip: the run is planned although terraform failed.
FinishPlanned(e) ==
  /\ pc[e] = "finish"
  /\ status' = [status EXCEPT ![e[1]] = "planned"]
  /\ Goto(e, IF auto[e[1]] /\ good[e] THEN "queue" ELSE "unlock")
  /\ UNCHANGED <<setting, auto, linked, planStatus, changes, locks, outcome, orphans,
                 down, seen>>

FinishPlan(e) ==
  /\ pc[e] = "finish"
  /\ \/ /\ status' = [status EXCEPT ![e[1]] = IF good[e] THEN "planned" ELSE "errored"]
        /\ Goto(e, IF auto[e[1]] /\ good[e] THEN "queue" ELSE "unlock")
     \/ fault = "db" /\ Goto(e, "unlock") /\ UNCHANGED status
  /\ good' = [good EXCEPT ![e] = FALSE]
  /\ UNCHANGED <<setting, auto, linked, planStatus, changes, locks, read, job, orphans,
                 down, seen>>

\* Auto-apply; nobody asks whether the run is plan-only or has changes.
QueueAfterPlan(e) ==
  /\ pc[e] = "queue"
  /\ \/ status' = [status EXCEPT ![e[1]] = "apply_queued"] /\ Goto(e, "release")
     \/ fault = "db" /\ Goto(e, "unlock") /\ UNCHANGED status
  /\ UNCHANGED <<setting, auto, linked, planStatus, changes, locks, outcome, orphans,
                 down, seen>>

\* The new state is uploaded under the lock ID of the executor (an unlocked
\* unit takes any) when terraform succeeded and left one.
RecordApply(e) ==
  /\ pc[e] = "record" /\ ~IsPlan(e)
  /\ \/ /\ good[e] /\ lock \in {NoLock, LockID(e)}
        /\ UNCHANGED good
        /\ read' = Replaced(e) \/ (fault = "blob" /\ read' = [read EXCEPT ![e] = "no"])
     \/ /\ ~good[e] \/ lock \notin {NoLock, LockID(e)} \/ fault = "blob"
        /\ good' = [good EXCEPT ![e] = FALSE] /\ UNCHANGED read
  /\ Goto(e, "finishApply")
  /\ UNCHANGED <<setting, runRows, locks, job, orphans, down, seen>>

\* A slip: the status of a run whose apply failed is left to somebody else.
FinishApplied(e) ==
  /\ pc[e] = "finishApply"
  /\ status' = [status EXCEPT ![e[1]] = IF good[e] THEN "applied" ELSE @]
  /\ Goto(e, "unlock")
  /\ UNCHANGED <<setting, auto, linked, planStatus, changes, locks, outcome, orphans,
                 down, seen>>

FinishApply(e) ==
  /\ pc[e] = "finishApply"
  /\ \/ status' = [status EXCEPT ![e[1]] = IF good[e] THEN "applied" ELSE "errored"]
     \/ fault = "db" /\ UNCHANGED status
  /\ good' = [good EXCEPT ![e] = FALSE]
  /\ Goto(e, "unlock")
  /\ UNCHANGED <<setting, auto, linked, planStatus, changes, locks, read, job, orphans, down, seen>>

-----------------------------------------------------------------------------
(* Users, restarts                                                         *)

\* A terraform client or another user of the unit: locks, uploads a state,
\* unlocks.
UserLocks ==
  /\ lock = NoLock /\ lock' = User /\ rowLock' = User
  /\ UNCHANGED <<setting, runRows, uploads, pc, outcome, orphans, down, seen>>

\* A state is uploaded without a lock of one's own: the handler asks the row
\* for the lock, and finds an executor's.
ReadRowLock ==
  /\ rowLock \notin {NoLock, User} /\ Cardinality(uploads) < MaxUploads
  /\ uploads' = uploads \cup {rowLock}
  /\ UNCHANGED <<setting, runRows, lock, rowLock, pc, outcome, orphans, down, seen>>

\* What a user's upload does to the states that applies have read.
ReplacedUnder(id) ==
  [e \in Execs |-> IF read[e] = "no" THEN "no"
                   ELSE IF id # LockID(e) THEN "replaced"
                   ELSE IF read[e] = "current" THEN "lent" ELSE read[e]]

\* A slip: the store does not compare the ID with the lock of the unit.
UploadUnchecked ==
  \E id \in uploads \cup {User, NoLock} :
    /\ uploads' = uploads \ {id} /\ read' = ReplacedUnder(id)
    /\ UNCHANGED <<setting, runRows, lock, rowLock, pc, good, job, orphans, down, seen>>

\* ... and uploads under the ID it has read, by now maybe another one than the
\* unit's.  A user's own ID is sent along, or the row had none.
UserUploads ==
  \E id \in uploads \cup {User, NoLock} :
    /\ uploads' = uploads \ {id}
    /\ read' = IF lock \in {NoLock, id} THEN ReplacedUnder(id) ELSE read
    /\ UNCHANGED <<setting, runRows, lock, rowLock, pc, good, job, orphans, down, seen>>

UserUnlocks ==
  /\ lock = User /\ lock' = NoLock /\ rowLock' = NoLock
  /\ UNCHANGED <<setting, runRows, uploads, pc, outcome, orphans, down, seen>>

\* ForceUnlockWorkspace, of the lock the row tells.
ForceUnlock ==
  /\ fault = "force" /\ rowLock # NoLock /\ rowLock = lock
  /\ lock' = NoLock /\ rowLock' = NoLock /\ seen' = seen \cup {"forced"}
  /\ UNCHANGED <<setting, runRows, uploads, pc, outcome, orphans, down>>

Crash ==
  /\ fault = "crash" /\ ~inMemory /\ \E e \in Execs : pc[e] \notin {"idle", "done"}
  /\ Crashes
  /\ UNCHANGED <<setting, runRows, lock, rowLock>>

\* The sidecar keeps its jobs in memory.
SidecarRestart ==
  /\ fault = "crash" /\ orphans' = {}
  /\ job' = [e \in Execs |-> IF job[e] = "running" THEN "gone" ELSE job[e]]
  /\ UNCHANGED <<setting, runRows, locks, pc, good, read, down, seen>>

-----------------------------------------------------------------------------
(* The system                                                              *)

Execute(e) ==
  \/ QueueApply(e) \/ Start(e) \/ LockBlob(e) \/ LockRow(e) \/ Begin(e) \/ Download(e)
  \/ RunLocally(e) \/ StartJob(e) \/ WaitForJob(e) \/ RecordPlan(e) \/ FinishPlan(e)
  \/ QueueAfterPlan(e) \/ RecordApply(e) \/ FinishApply(e) \/ Refuse(e)
  \/ UnlockBlob(e) \/ UnlockRow(e) \/ Panic(e)

Users == UserLocks \/ ReadRowLock \/ UserUploads \/ UserUnlocks \/ ForceUnlock

Next ==
  /\ ~down
  /\ \/ \E r \in Runs : CreateRun(r)
     \/ \E e \in Execs : AskApply(e) \/ Execute(e) \/ RunJob(e) \/ EndOrphan(e)
     \/ Users \/ Crash \/ SidecarRestart

Spec == Init /\ [][Next]_vars

-----------------------------------------------------------------------------
(* Properties                                                              *)

\* An apply replaces the state it has started from or, if its lock was lent, what
\* a user has made of that: between its Download and its Upload the lock keeps out
\* every other executor and all users but those whose upload reads the lock of
\* this very apply from the row, which the state version handlers do for anyone
\* without a lock.  An upload that has read an earlier lock, or none, is refused.
\* Not so when the state could not be read or the unit was unlocked by force.
NoLostState ==
  [][\A e \in Execs : pc[e] = "record" /\ pc'[e] = "finishApply" /\ good'[e] =>
       "forced" \in seen \/ read[e] # "replaced"]_vars

Terraform(e) == pc[e] \in {"run", "wait"}

\* One terraform at a time works on the unit, on the server or in the sidecar:
\* "This prevents concurrent plans/applies on the same unit" (the comment on the
\* Lock of ExecutePlan), unless the unit was unlocked by force, or a job was
\* left behind by a lost answer, the end of the waiting or a restart.
OneTerraform ==
  seen = {} =>
    /\ \A e, f \in Execs : Terraform(e) /\ Terraform(f) => e = f
    /\ orphans = {}

\* What terraform applies has been planned: the plan of the run has finished
\* without error, whichever request or goroutine asked for the apply.
PlanBeforeApply ==
  \A e \in Execs : ~IsPlan(e) /\ Terraform(e) => planStatus[e[1]] = "finished"

\* When nothing is under way any more, every run has come to an end and no
\* executor has left the unit locked: the deferred unlocks and the error
\* handlers cover all ways out, with several executors in each other's way, as
\* long as no row, blob or goroutine is lost and nobody unlocks by force.
NothingLeftBehind ==
  /\ fault \in {"lostStart", "slow"} /\ ~down
  /\ \A e \in Execs : pc[e] \in {"idle", "done"}
  => /\ \A r \in Runs : status[r] \in {"none", "planned", "applied", "errored"}
     /\ lock \in {NoLock, User}
=============================================================================
