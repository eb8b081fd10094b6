---------------------------- MODULE TfeRunsProofs ----------------------------
(***************************************************************************)
(* Theorems about TfeRuns: the types, that terraform runs alone, that what *)
(* it applies has been planned, that no state is lost, and that nothing is *)
(* left behind.                                                            *)
(*                                                                         *)
(* The argument has four parts.  Typed is the type of each variable.       *)
(* Course follows a run through its executors: which of them can be at     *)
(* which step, and what its rows say by then.  Owned is the lock of the    *)
(* unit: the executors past it own it, at most one does, and nobody else   *)
(* uploads a state meanwhile but under that lock.  Quiet adds, for         *)
(* histories in which no row, blob or goroutine is lost, who will release  *)
(* the lock and who will end a run.  Each part is inductive given the ones *)
(* before it.                                                              *)
(***************************************************************************)
EXTENDS TfeRuns, TLAPS

Typed ==
  /\ remote \in BOOLEAN /\ inMemory \in BOOLEAN /\ fault \in Faults
  /\ status \in [Runs -> Statuses] /\ auto \in [Runs -> BOOLEAN] /\ linked \in [Runs -> BOOLEAN]
  /\ planStatus \in [Runs -> {"none", "pending", "finished", "errored"}]
  /\ changes \in [Runs -> BOOLEAN]
  /\ lock \in LockIDs \cup {NoLock} /\ rowLock \in LockIDs \cup {NoLock}
  /\ uploads \subseteq LockIDs
  /\ pc \in [Execs -> ExecPCs] /\ good \in [Execs -> BOOLEAN]
  /\ read \in [Execs -> {"no", "current", "lent", "replaced"}]
  /\ job \in [Execs -> {"none", "running", "succeeded", "failed", "gone"}]
  /\ orphans \subseteq Execs
  /\ down \in BOOLEAN /\ seen \subseteq {"orphan", "forced", "crashed"}

\* The executors and the IDs of their locks: the plan executor of a run has a
\* lock ID of its own, its apply executors share one, and no executor has the
\* ID of a user.
LEMMA Executors ==
  /\ \A e \in Execs : e[1] \in Runs /\ LockID(e) \in LockIDs
                      /\ LockID(e) # NoLock /\ LockID(e) # User
  /\ \A r \in Runs : <<r, 0>> \in Execs /\ <<r, 1>> \in Execs
                     /\ IsPlan(<<r, 0>>) /\ ~IsPlan(<<r, 1>>)
  /\ \A e \in Execs : IsPlan(e) => e = <<e[1], 0>>
  /\ \A e, f \in Execs : LockID(e) = LockID(f) =>
       e[1] = f[1] /\ (IsPlan(e) <=> IsPlan(f)) /\ (IsPlan(e) => e = f)
<1>1. ASSUME NEW e \in Execs
      PROVE  e[1] \in Runs /\ LockID(e) \in Runs \X {"plan", "apply"}
  BY <1>1 DEF Execs, LockID
<1>2. \A x \in Runs \X {"plan", "apply"} : x # NoLock /\ x # User
  BY LocksAssumption
<1>3. \A r \in Runs : <<r, 0>> \in Execs /\ <<r, 1>> \in Execs
                      /\ IsPlan(<<r, 0>>) /\ ~IsPlan(<<r, 1>>)
  BY BoundsAssumption DEF Execs, IsPlan
<1>4. ASSUME NEW e \in Execs, IsPlan(e)
      PROVE  e = <<e[1], 0>>
  BY <1>4 DEF Execs, IsPlan
<1>5. ASSUME NEW e \in Execs, NEW f \in Execs, LockID(e) = LockID(f)
      PROVE  e[1] = f[1] /\ (IsPlan(e) <=> IsPlan(f))
  BY <1>5 DEF LockID
<1>6. QED
  BY <1>1, <1>2, <1>3, <1>4, <1>5 DEF LockIDs

\* The types hold before the first run is created.
LEMMA TypedInit == Init => Typed
<1> SUFFICES ASSUME Init
             PROVE  Typed
  OBVIOUS
<1>1. /\ status \in [Runs -> Statuses] /\ auto \in [Runs -> BOOLEAN]
      /\ linked \in [Runs -> BOOLEAN] /\ changes \in [Runs -> BOOLEAN]
      /\ planStatus \in [Runs -> {"none", "pending", "finished", "errored"}]
  BY DEF Init, Statuses
<1>2. /\ pc \in [Execs -> ExecPCs] /\ good \in [Execs -> BOOLEAN]
      /\ read \in [Execs -> {"no", "current", "lent", "replaced"}]
      /\ job \in [Execs -> {"none", "running", "succeeded", "failed", "gone"}]
  BY DEF Init, ExecPCs
<1>3. QED
  BY <1>1, <1>2, LocksAssumption DEF Init, Typed

\* Every step of the requests, the executors, the sidecar and the users keeps
\* the types.
LEMMA TypedStep == Typed /\ [Next]_vars => Typed'
<1> SUFFICES ASSUME Typed, [Next]_vars
             PROVE  Typed'
  OBVIOUS
<1> USE Executors DEF Typed
<1>1. ASSUME NEW r \in Runs, CreateRun(r)
      PROVE  Typed'
  <2> USE <1>1 DEF CreateRun, setting, locks, outcome
  <2>1. status' \in [Runs -> Statuses] /\ auto' \in [Runs -> BOOLEAN]
    BY DEF Statuses
  <2>2. /\ planStatus' \in [Runs -> {"none", "pending", "finished", "errored"}]
        /\ linked' \in [Runs -> BOOLEAN]
    BY SMTT(30)
  <2>3. pc' \in [Execs -> ExecPCs]
    BY DEF Goto, ExecPCs
  <2>4. QED
    BY <2>1, <2>2, <2>3
<1> USE DEF Goto, ExecPCs, setting, runRows, locks, outcome
<1>2. ASSUME NEW e \in Execs
      PROVE  /\ AskApply(e) => Typed'
             /\ QueueApply(e) => Typed'
             /\ Start(e) => Typed'
             /\ LockRow(e) => Typed'
             /\ Begin(e) => Typed'
             /\ Download(e) => Typed'
             /\ Refuse(e) => Typed'
  <2>1. AskApply(e) => Typed'
    BY DEF AskApply
  <2>2. QueueApply(e) => Typed'
    <3> SUFFICES ASSUME QueueApply(e)
                 PROVE  Typed'
      OBVIOUS
    <3>1. status' \in [Runs -> Statuses]
      BY DEF QueueApply, Statuses
    <3>2. pc' \in [Execs -> ExecPCs]
      BY DEF QueueApply
    <3>3. QED
      BY <3>1, <3>2 DEF QueueApply
  <2>3. Start(e) => Typed'
    BY DEF Start
  <2>4. LockRow(e) => Typed'
    BY SMTT(30) DEF LockRow
  <2>5. Begin(e) => Typed'
    <3> SUFFICES ASSUME Begin(e)
                 PROVE  Typed'
      OBVIOUS
    <3>1. status' \in [Runs -> Statuses]
      BY DEF Begin, Statuses
    <3>2. pc' \in [Execs -> ExecPCs]
      BY DEF Begin
    <3>3. QED
      BY <3>1, <3>2 DEF Begin
  <2>6. Download(e) => Typed'
    BY SMTT(30) DEF Download
  <2>7. Refuse(e) => Typed'
    <3> SUFFICES ASSUME Refuse(e)
                 PROVE  Typed'
      OBVIOUS
    <3>1. status' \in [Runs -> Statuses]
      BY DEF Refuse, Statuses
    <3>2. planStatus' \in [Runs -> {"none", "pending", "finished", "errored"}]
      BY DEF Refuse
    <3>3. pc' \in [Execs -> ExecPCs]
      <4>1. \E l \in {"panic", "unlock", "done"} : Goto(e, l)
        BY DEF Refuse
      <4>2. QED
        BY <4>1
    <3>4. QED
      BY <3>1, <3>2, <3>3 DEF Refuse
  <2>8. QED
    BY <2>1, <2>2, <2>3, <2>4, <2>5, <2>6, <2>7
<1>3. Crashes => /\ pc' \in [Execs -> ExecPCs] /\ good' \in [Execs -> BOOLEAN]
                 /\ read' \in [Execs -> {"no", "current", "lent", "replaced"}]
                 /\ job' \in [Execs -> {"none", "running", "succeeded", "failed", "gone"}]
                 /\ orphans' \subseteq Execs /\ uploads' \subseteq LockIDs
                 /\ down' \in BOOLEAN /\ seen' \subseteq {"orphan", "forced", "crashed"}
  BY DEF Crashes
<1>4. ASSUME NEW e \in Execs
      PROVE  /\ LockBlob(e) => Typed'
             /\ UnlockBlob(e) => Typed'
             /\ UnlockRow(e) => Typed'
             /\ Panic(e) => Typed'
  <2>1. LockBlob(e) => Typed'
    BY <1>3 DEF LockBlob
  <2>2. UnlockBlob(e) => Typed'
    BY DEF UnlockBlob
  <2>3. UnlockRow(e) => Typed'
    <3> SUFFICES ASSUME UnlockRow(e)
                 PROVE  Typed'
      OBVIOUS
    <3>1. pc' \in [Execs -> ExecPCs]
      <4>1. CASE pc[e] = "unlockRow"
        BY <4>1 DEF UnlockRow
      <4>2. CASE pc[e] = "releaseRow"
        <5>1. pc' = [pc EXCEPT ![e] = "unlock"] \/ pc' = [pc EXCEPT ![e] = "done", ![<<e[1], 1>>] = "start"]
          BY <4>2 DEF UnlockRow
        <5>2. PICK q \in [Execs -> ExecPCs] : q = [pc EXCEPT ![e] = "done"]
          OBVIOUS
        <5>3. pc' = [pc EXCEPT ![e] = "unlock"] \/ pc' = [q EXCEPT ![<<e[1], 1>>] = "start"]
          BY <5>1, <5>2
        <5>4. [q EXCEPT ![<<e[1], 1>>] = "start"] \in [Execs -> ExecPCs]
          BY <5>2
        <5>5. [pc EXCEPT ![e] = "unlock"] \in [Execs -> ExecPCs]
          OBVIOUS
        <5>6. QED
          BY <5>3, <5>4, <5>5
      <4>3. QED
        BY <4>1, <4>2 DEF UnlockRow
    <3>2. rowLock' \in LockIDs \cup {NoLock}
      BY DEF UnlockRow
    <3>3. QED
      BY <3>1, <3>2 DEF UnlockRow
  <2>4. Panic(e) => Typed'
    BY <1>3 DEF Panic
  <2>5. QED
    BY <2>1, <2>2, <2>3, <2>4
<1>5. ASSUME NEW e \in Execs
      PROVE  /\ RunLocally(e) => Typed'
             /\ StartJob(e) => Typed'
             /\ WaitForJob(e) => Typed'
             /\ RunJob(e) => Typed'
             /\ EndOrphan(e) => Typed'
  <2>1. RunLocally(e) => Typed'
    BY DEF RunLocally
  <2>2. StartJob(e) => Typed'
    BY DEF StartJob
  <2>3. WaitForJob(e) => Typed'
    BY DEF WaitForJob
  <2>4. RunJob(e) => Typed'
    BY DEF RunJob
  <2>5. EndOrphan(e) => Typed'
    BY DEF EndOrphan
  <2>6. QED
    BY <2>1, <2>2, <2>3, <2>4, <2>5
<1>6. ASSUME NEW e \in Execs
      PROVE  /\ RecordPlan(e) => Typed'
             /\ FinishPlan(e) => Typed'
             /\ QueueAfterPlan(e) => Typed'
             /\ RecordApply(e) => Typed'
             /\ FinishApply(e) => Typed'
  <2>1. RecordPlan(e) => Typed'
    <3> SUFFICES ASSUME RecordPlan(e)
                 PROVE  Typed'
      OBVIOUS
    <3>1. status' \in [Runs -> Statuses]
      BY DEF RecordPlan, Statuses
    <3>2. planStatus' \in [Runs -> {"none", "pending", "finished", "errored"}]
      BY DEF RecordPlan
    <3>3. changes' \in [Runs -> BOOLEAN]
      BY DEF RecordPlan
    <3>4. pc' \in [Execs -> ExecPCs]
      BY SMTT(30) DEF RecordPlan
    <3>5. good' \in [Execs -> BOOLEAN]
      <4>1. good' = good \/ good' = [good EXCEPT ![e] = FALSE]
        BY DEF RecordPlan
      <4>2. QED
        BY <4>1
    <3>6. QED
      BY <3>1, <3>2, <3>3, <3>4, <3>5 DEF RecordPlan
  <2>2. FinishPlan(e) => Typed'
    <3> SUFFICES ASSUME FinishPlan(e)
                 PROVE  Typed'
      OBVIOUS
    <3>1. status' \in [Runs -> Statuses]
      BY DEF FinishPlan, Statuses
    <3>2. pc' \in [Execs -> ExecPCs] /\ good' \in [Execs -> BOOLEAN]
      BY DEF FinishPlan
    <3>3. QED
      BY <3>1, <3>2 DEF FinishPlan
  <2>3. QueueAfterPlan(e) => Typed'
    BY SMTT(30) DEF QueueAfterPlan, Statuses
  <2>4. RecordApply(e) => Typed'
    <3> SUFFICES ASSUME RecordApply(e)
                 PROVE  Typed'
      OBVIOUS
    <3>1. read' \in [Execs -> {"no", "current", "lent", "replaced"}]
      BY DEF RecordApply, Replaced
    <3>2. pc' \in [Execs -> ExecPCs] /\ good' \in [Execs -> BOOLEAN]
      BY DEF RecordApply
    <3>3. QED
      BY <3>1, <3>2 DEF RecordApply
  <2>5. FinishApply(e) => Typed'
    BY ZenonT(60) DEF FinishApply, Statuses
  <2>6. QED
    BY <2>1, <2>2, <2>3, <2>4, <2>5
<1>7. Users => Typed'
  <2>1. UserLocks \/ ReadRowLock \/ UserUnlocks \/ ForceUnlock => Typed'
    BY DEF UserLocks, ReadRowLock, UserUnlocks, ForceUnlock, LockIDs
  <2>2. ASSUME UserUploads
        PROVE  Typed'
    <3>1. read' \in [Execs -> {"no", "current", "lent", "replaced"}]
      BY <2>2 DEF UserUploads, ReplacedUnder
    <3>2. QED
      BY <2>2, <3>1 DEF UserUploads
  <2>3. QED
    BY <2>1, <2>2 DEF Users
<1>8. Crash => Typed'
  BY <1>3 DEF Crash
<1>9. SidecarRestart => Typed'
  BY DEF SidecarRestart
<1>10. UNCHANGED vars => Typed'
  BY DEF vars
<1>11. QED
  BY <1>1, <1>2, <1>4, <1>5, <1>6, <1>7, <1>8, <1>9, <1>10 DEF Next, Execute

-----------------------------------------------------------------------------
(* What a step of an executor leaves alone                                 *)

\* The other executors stay where they are; what they have read may be replaced.
Only(e) ==
  \A f \in Execs : f # e =>
    /\ pc'[f] = pc[f] /\ good'[f] = good[f] /\ job'[f] = job[f]
    /\ read'[f] = read[f] \/ (read[f] # "no" /\ read'[f] = "replaced")

\* The rows of the other runs, and what was asked of a run, stay.
RowsOnly(r) ==
  /\ \A q \in Runs : q # r => status'[q] = status[q] /\ planStatus'[q] = planStatus[q]
  /\ UNCHANGED <<auto, linked>>

\* Every step of an executor but a panic and the start of an apply by a plan
\* moves that executor alone.
LEMMA Alone ==
  ASSUME Typed, NEW e \in Execs,
         AskApply(e) \/ QueueApply(e) \/ Start(e) \/ LockRow(e) \/ Begin(e) \/
         Download(e) \/ Refuse(e) \/ UnlockBlob(e) \/ RunLocally(e) \/ StartJob(e) \/
         RunJob(e) \/ EndOrphan(e) \/ WaitForJob(e) \/ RecordPlan(e) \/ FinishPlan(e) \/
         QueueAfterPlan(e) \/ RecordApply(e) \/ FinishApply(e)
  PROVE  Only(e) /\ RowsOnly(e[1])
<1> USE Executors DEF Only, RowsOnly, Typed, Goto, setting, runRows, locks, outcome
<1>1. CASE AskApply(e)
  BY <1>1 DEF AskApply
<1>2. CASE QueueApply(e)
  BY <1>2 DEF QueueApply
<1>3. CASE Start(e)
  BY <1>3 DEF Start
<1>4. CASE LockRow(e)
  BY <1>4 DEF LockRow
<1>5. CASE Begin(e)
  BY <1>5 DEF Begin
<1>6. CASE Download(e)
  BY <1>6 DEF Download
<1>7. CASE Refuse(e)
  BY <1>7 DEF Refuse
<1>8. CASE UnlockBlob(e)
  BY <1>8 DEF UnlockBlob
<1>9. CASE RunLocally(e)
  BY <1>9 DEF RunLocally
<1>10. CASE StartJob(e)
  BY <1>10 DEF StartJob
<1>11. CASE RunJob(e)
  BY <1>11 DEF RunJob
<1>12. CASE EndOrphan(e)
  BY <1>12 DEF EndOrphan
<1>13. CASE WaitForJob(e)
  BY <1>13 DEF WaitForJob
<1>14. CASE RecordPlan(e)
  BY <1>14 DEF RecordPlan
<1>15. CASE FinishPlan(e)
  BY <1>15 DEF FinishPlan
<1>16. CASE QueueAfterPlan(e)
  BY <1>16 DEF QueueAfterPlan
<1>17. CASE RecordApply(e)
  BY <1>17 DEF RecordApply, Replaced
<1>18. CASE FinishApply(e)
  BY <1>18 DEF FinishApply
<1>19. QED
  BY <1>1, <1>2, <1>3, <1>4, <1>5, <1>6, <1>7, <1>8, <1>9, <1>10, <1>11, <1>12, <1>13, <1>14, <1>15, <1>16, <1>17, <1>18

-----------------------------------------------------------------------------
(* The course of a run                                                     *)

\* The plan of r has finished, and its executor will not touch the plan again.
Planned(r) ==
  /\ planStatus[r] = "finished"
  /\ pc[<<r, 0>>] \in {"queue", "release", "releaseRow", "unlock", "unlockRow", "done"}

\* Where an executor can be: only the plan of a run is finished and started on,
\* only an apply is asked for, and no apply has begun before its plan finished.
\* A job is waited for, and before the download there is no state.
Stage(e) ==
  /\ pc[e] \in {"finish", "queue", "release", "releaseRow", "panic"} => IsPlan(e)
  /\ pc[e] \in {"asked", "finishApply"} => ~IsPlan(e)
  /\ ~IsPlan(e) /\ pc[e] # "idle" => Planned(e[1])
  /\ job[e] # "none" <=> pc[e] = "wait"
  /\ pc[e] \in {"idle", "asked", "start", "lock", "lockRow", "begin", "download"}
       => read[e] = "no"

\* What the rows of a run say of its executors: a status that promises a plan
\* is told only once the plan has finished.  The first apply of an auto-apply
\* run is left to its plan, which starts it last of all.
Told(r) ==
  /\ status[r] = "none" => pc[<<r, 0>>] = "idle"
  /\ pc[<<r, 0>>] = "finish" /\ good[<<r, 0>>] => planStatus[r] = "finished"
  /\ pc[<<r, 0>>] \in {"queue", "release", "releaseRow"} => planStatus[r] = "finished" /\ auto[r]
  /\ status[r] \in {"planned", "apply_queued", "applying", "applied"} => Planned(r)
  /\ auto[r] /\ pc[<<r, 0>>] # "done" => pc[<<r, 1>>] = "idle"

Course == (\A e \in Execs : Stage(e)) /\ (\A r \in Runs : Told(r))

\* No executor has begun, so each is at its place.
LEMMA CourseInit == Init => Course
<1> SUFFICES ASSUME Init
             PROVE  Course
  OBVIOUS
<1>1. ASSUME NEW e \in Execs
      PROVE  Stage(e)
  BY DEF Init, Stage
<1>2. ASSUME NEW r \in Runs
      PROVE  Told(r)
  BY Executors DEF Init, Told
<1>3. QED
  BY <1>1, <1>2 DEF Course

\* A step of one executor keeps the course when it keeps its own part of it.
LEMMA CourseAlone ==
  ASSUME Course, NEW e \in Execs, Only(e), RowsOnly(e[1]),
         Planned(e[1]) => Planned(e[1])', Stage(e)', Told(e[1])'
  PROVE  Course'
<1> USE Executors
<1>1. ASSUME NEW q \in Runs, q # e[1]
      PROVE  (Planned(q) => Planned(q)') /\ Told(q)'
  <2>1. <<q, 0>> # e /\ <<q, 1>> # e /\ <<q, 0>> \in Execs /\ <<q, 1>> \in Execs
    BY <1>1
  <2>2. Told(q)
    BY DEF Course
  <2>3. QED
    BY <1>1, <2>1, <2>2 DEF Only, RowsOnly, Planned, Told
<1>2. ASSUME NEW f \in Execs, f # e
      PROVE  Stage(f)'
  <2>1. Planned(f[1]) => Planned(f[1])'
    BY <1>1
  <2>2. Stage(f)
    BY DEF Course
  <2>3. QED
    BY <1>2, <2>1, <2>2 DEF Only, Stage
<1>3. QED
  BY <1>1, <1>2 DEF Course

\* Every step keeps the course of the runs.  What a plan has finished stays
\* finished, because its executor records it once and nobody else writes it.
LEMMA CourseStep == Typed /\ Course /\ [Next]_vars => Course'
<1> SUFFICES ASSUME Typed, Course, [Next]_vars
             PROVE  Course'
  OBVIOUS
<1>0. /\ \A e \in Execs : Stage(e) /\ Told(e[1])
      /\ \A e \in Execs : IsPlan(e) => e = <<e[1], 0>>
      /\ \A e \in Execs : ~IsPlan(e) => e # <<e[1], 0>>
      /\ \A e \in Execs : <<e[1], 0>> \in Execs /\ <<e[1], 1>> \in Execs
  BY Executors DEF Course
<1>1. ASSUME NEW e \in Execs, AskApply(e)
      PROVE  Course'
  <2>1. Only(e) /\ RowsOnly(e[1]) /\ e[1] \in Runs
    BY <1>1, Alone, Executors
  <2>2. /\ pc[e] = "idle" /\ pc'[e] = "asked" /\ ~IsPlan(e)
        /\ status[e[1]] = "planned" /\ UNCHANGED <<runRows, outcome>>
    BY <1>1 DEF AskApply, Asked, Goto, Typed
  <2>3. <<e[1], 1>> # e \/ ~auto[e[1]]
    BY <1>1 DEF AskApply, Asked
  <2>4. (Planned(e[1]) => Planned(e[1])') /\ Stage(e)' /\ Told(e[1])'
    BY <1>0, <2>1, <2>2, <2>3 DEF Only, Planned, Stage, Told, runRows, outcome
  <2>5. QED
    BY <2>1, <2>4, CourseAlone
<1>2. ASSUME NEW e \in Execs, QueueApply(e)
      PROVE  Course'
  <2>1. Only(e) /\ RowsOnly(e[1]) /\ e[1] \in Runs
    BY <1>2, Alone, Executors
  <2>2. (Planned(e[1]) => Planned(e[1])') /\ Stage(e)' /\ Told(e[1])'
    BY <1>0, <1>2, <2>1 DEF QueueApply, Typed, Goto, Only, RowsOnly, Planned, Stage, Told, runRows, outcome
  <2>3. QED
    BY <2>1, <2>2, CourseAlone
<1>3. ASSUME NEW e \in Execs, Start(e)
      PROVE  Course'
  <2>1. Only(e) /\ RowsOnly(e[1]) /\ e[1] \in Runs
    BY <1>3, Alone, Executors
  <2>2. (Planned(e[1]) => Planned(e[1])') /\ Stage(e)' /\ Told(e[1])'
    BY <1>0, <1>3, <2>1 DEF Start, Typed, Goto, Only, RowsOnly, Planned, Stage, Told, runRows, outcome
  <2>3. QED
    BY <2>1, <2>2, CourseAlone
<1>4. ASSUME NEW e \in Execs, LockRow(e)
      PROVE  Course'
  <2>1. Only(e) /\ RowsOnly(e[1]) /\ e[1] \in Runs
    BY <1>4, Alone, Executors
  <2>2. (Planned(e[1]) => Planned(e[1])') /\ Stage(e)' /\ Told(e[1])'
    BY <1>0, <1>4, <2>1 DEF LockRow, Typed, Goto, Only, RowsOnly, Planned, Stage, Told, runRows, outcome
  <2>3. QED
    BY <2>1, <2>2, CourseAlone
<1>5. ASSUME NEW e \in Execs, Begin(e)
      PROVE  Course'
  <2>1. Only(e) /\ RowsOnly(e[1]) /\ e[1] \in Runs
    BY <1>5, Alone, Executors
  <2>2. (Planned(e[1]) => Planned(e[1])') /\ Stage(e)' /\ Told(e[1])'
    BY <1>0, <1>5, <2>1 DEF Begin, Typed, Goto, Only, RowsOnly, Planned, Stage, Told, runRows, outcome
  <2>3. QED
    BY <2>1, <2>2, CourseAlone
<1>6. ASSUME NEW e \in Execs, Download(e)
      PROVE  Course'
  <2>1. Only(e) /\ RowsOnly(e[1]) /\ e[1] \in Runs
    BY <1>6, Alone, Executors
  <2>2. (Planned(e[1]) => Planned(e[1])') /\ Stage(e)' /\ Told(e[1])'
    BY <1>0, <1>6, <2>1 DEF Download, Typed, Goto, Only, RowsOnly, Planned, Stage, Told, runRows, outcome
  <2>3. QED
    BY <2>1, <2>2, CourseAlone
<1>7. ASSUME NEW e \in Execs, Refuse(e)
      PROVE  Course'
  <2>1. Only(e) /\ RowsOnly(e[1]) /\ e[1] \in Runs
    BY <1>7, Alone, Executors
  <2>2. /\ pc[e] \in {"refused", "failed"} /\ pc'[e] \in {"panic", "unlock", "done"}
        /\ pc'[e] = "panic" => IsPlan(e)
        /\ status'[e[1]] \in {"errored", status[e[1]]}
        /\ planStatus'[e[1]] \in {"errored", planStatus[e[1]]}
        /\ planStatus'[e[1]] # planStatus[e[1]] => IsPlan(e)
        /\ UNCHANGED outcome
    BY <1>7, <2>1 DEF Refuse, Goto, Typed
  <2>3. Planned(e[1]) => Planned(e[1])'
    BY <1>0, <2>1, <2>2 DEF Planned, Only
  <2>4. Stage(e)' /\ Told(e[1])'
    BY <1>0, <2>1, <2>2, <2>3 DEF Stage, Told, Planned, Only, RowsOnly, outcome
  <2>5. QED
    BY <2>1, <2>3, <2>4, CourseAlone
<1>8. ASSUME NEW e \in Execs, UnlockBlob(e)
      PROVE  Course'
  <2>1. Only(e) /\ RowsOnly(e[1]) /\ e[1] \in Runs
    BY <1>8, Alone, Executors
  <2>2. (Planned(e[1]) => Planned(e[1])') /\ Stage(e)' /\ Told(e[1])'
    BY <1>0, <1>8, <2>1 DEF UnlockBlob, Typed, Goto, Only, RowsOnly, Planned, Stage, Told, runRows, outcome
  <2>3. QED
    BY <2>1, <2>2, CourseAlone
<1>9. ASSUME NEW e \in Execs, RunLocally(e)
      PROVE  Course'
  <2>1. Only(e) /\ RowsOnly(e[1]) /\ e[1] \in Runs
    BY <1>9, Alone, Executors
  <2>2. (Planned(e[1]) => Planned(e[1])') /\ Stage(e)' /\ Told(e[1])'
    BY <1>0, <1>9, <2>1, SMTT(30) DEF RunLocally, Typed, Goto, Only, RowsOnly, Planned, Stage, Told, runRows, outcome
  <2>3. QED
    BY <2>1, <2>2, CourseAlone
<1>10. ASSUME NEW e \in Execs, StartJob(e)
      PROVE  Course'
  <2>1. Only(e) /\ RowsOnly(e[1]) /\ e[1] \in Runs
    BY <1>10, Alone, Executors
  <2>2. (Planned(e[1]) => Planned(e[1])') /\ Stage(e)' /\ Told(e[1])'
    <3>1. /\ pc[e] = "run" /\ pc'[e] \in {"wait", "record"}
          /\ job'[e] = IF pc'[e] = "wait" THEN "running" ELSE "none"
          /\ UNCHANGED <<runRows, read, good>>
      BY <1>10 DEF StartJob, Typed, Goto
    <3>2. QED
      BY <1>0, <2>1, <3>1 DEF Only, Planned, Stage, Told, runRows
  <2>3. QED
    BY <2>1, <2>2, CourseAlone
<1>11. ASSUME NEW e \in Execs, RunJob(e)
      PROVE  Course'
  <2>1. Only(e) /\ RowsOnly(e[1]) /\ e[1] \in Runs
    BY <1>11, Alone, Executors
  <2>2. (Planned(e[1]) => Planned(e[1])') /\ Stage(e)' /\ Told(e[1])'
    BY <1>0, <1>11, <2>1 DEF RunJob, Typed, Goto, Only, RowsOnly, Planned, Stage, Told, runRows, outcome
  <2>3. QED
    BY <2>1, <2>2, CourseAlone
<1>12. ASSUME NEW e \in Execs, EndOrphan(e)
      PROVE  Course'
  <2>1. Only(e) /\ RowsOnly(e[1]) /\ e[1] \in Runs
    BY <1>12, Alone, Executors
  <2>2. (Planned(e[1]) => Planned(e[1])') /\ Stage(e)' /\ Told(e[1])'
    BY <1>0, <1>12, <2>1 DEF EndOrphan, Typed, Goto, Only, RowsOnly, Planned, Stage, Told, runRows, outcome
  <2>3. QED
    BY <2>1, <2>2, CourseAlone
<1>13. ASSUME NEW e \in Execs, WaitForJob(e)
      PROVE  Course'
  <2>1. Only(e) /\ RowsOnly(e[1]) /\ e[1] \in Runs
    BY <1>13, Alone, Executors
  <2>2. (Planned(e[1]) => Planned(e[1])') /\ Stage(e)' /\ Told(e[1])'
    BY <1>0, <1>13, <2>1, SMTT(30) DEF WaitForJob, Typed, Goto, Only, RowsOnly, Planned, Stage, Told, runRows, outcome
  <2>3. QED
    BY <2>1, <2>2, CourseAlone
<1>14. ASSUME NEW e \in Execs, RecordPlan(e)
      PROVE  Course'
  <2>1. Only(e) /\ RowsOnly(e[1]) /\ e[1] \in Runs
    BY <1>14, Alone, Executors
  <2>2. (Planned(e[1]) => Planned(e[1])') /\ Stage(e)' /\ Told(e[1])'
    <3>1. /\ pc[e] = "record" /\ IsPlan(e) /\ pc'[e] \in {"panic", "finish", "unlock"}
          /\ pc'[e] = "finish" /\ good'[e] => planStatus'[e[1]] = "finished"
          /\ status'[e[1]] \in {"errored", status[e[1]]}
          /\ UNCHANGED <<auto, linked, read, job>>
      BY <1>14, <2>1 DEF RecordPlan, Typed, Goto
    <3>2. e = <<e[1], 0>> /\ <<e[1], 1>> # e /\ <<e[1], 1>> \in Execs /\ ~Planned(e[1])
      BY <1>0, <3>1 DEF Planned
    <3>3. QED
      BY <1>0, <2>1, <3>1, <3>2 DEF Only, Planned, Stage, Told
  <2>3. QED
    BY <2>1, <2>2, CourseAlone
<1>15. ASSUME NEW e \in Execs, FinishPlan(e)
      PROVE  Course'
  <2>1. Only(e) /\ RowsOnly(e[1]) /\ e[1] \in Runs
    BY <1>15, Alone, Executors
  <2>2. /\ pc[e] = "finish" /\ pc'[e] \in {"queue", "unlock"} /\ good'[e] = FALSE
        /\ pc'[e] = "queue" => auto[e[1]] /\ good[e]
        /\ \/ status'[e[1]] = IF good[e] THEN "planned" ELSE "errored"
           \/ status'[e[1]] = status[e[1]]
        /\ UNCHANGED <<planStatus, auto, linked, read, job>>
    BY <1>15, <2>1 DEF FinishPlan, Goto, Typed
  <2>3. IsPlan(e) /\ e = <<e[1], 0>> /\ <<e[1], 1>> # e /\ <<e[1], 1>> \in Execs
    BY <1>0, <2>2 DEF Stage
  <2>4. (Planned(e[1]) => Planned(e[1])') /\ Stage(e)' /\ Told(e[1])'
    BY <1>0, <2>1, <2>2, <2>3 DEF Stage, Told, Planned, Only
  <2>5. QED
    BY <2>1, <2>4, CourseAlone
<1>16. ASSUME NEW e \in Execs, QueueAfterPlan(e)
      PROVE  Course'
  <2>1. Only(e) /\ RowsOnly(e[1]) /\ e[1] \in Runs
    BY <1>16, Alone, Executors
  <2>2. (Planned(e[1]) => Planned(e[1])') /\ Stage(e)' /\ Told(e[1])'
    BY <1>0, <1>16, <2>1 DEF QueueAfterPlan, Typed, Goto, Only, RowsOnly, Planned, Stage, Told, runRows, outcome
  <2>3. QED
    BY <2>1, <2>2, CourseAlone
<1>17. ASSUME NEW e \in Execs, RecordApply(e)
      PROVE  Course'
  <2>1. Only(e) /\ RowsOnly(e[1]) /\ e[1] \in Runs
    BY <1>17, Alone, Executors
  <2>2. (Planned(e[1]) => Planned(e[1])') /\ Stage(e)' /\ Told(e[1])'
    BY <1>0, <1>17, <2>1 DEF RecordApply, Typed, Goto, Only, RowsOnly, Planned, Stage, Told, runRows, outcome
  <2>3. QED
    BY <2>1, <2>2, CourseAlone
<1>18. ASSUME NEW e \in Execs, FinishApply(e)
      PROVE  Course'
  <2>1. Only(e) /\ RowsOnly(e[1]) /\ e[1] \in Runs
    BY <1>18, Alone, Executors
  <2>2. (Planned(e[1]) => Planned(e[1])') /\ Stage(e)' /\ Told(e[1])'
    BY <1>0, <1>18, <2>1 DEF FinishApply, Typed, Goto, Only, RowsOnly, Planned, Stage, Told, runRows, outcome
  <2>3. QED
    BY <2>1, <2>2, CourseAlone
<1>19. ASSUME NEW e \in Execs, LockBlob(e), ~Crashes
      PROVE  Course'
  <2>1. Only(e) /\ RowsOnly(e[1]) /\ e[1] \in Runs
    BY <1>19, Executors DEF LockBlob, Typed, Goto, Only, RowsOnly, outcome, runRows
  <2>2. (Planned(e[1]) => Planned(e[1])') /\ Stage(e)' /\ Told(e[1])'
    BY <1>0, <1>19, <2>1
       DEF LockBlob, Typed, Goto, Only, RowsOnly, Planned, Stage, Told, runRows, outcome
  <2>3. QED
    BY <2>1, <2>2, CourseAlone
<1>20. ASSUME Crashes, UNCHANGED runRows
      PROVE  Course'
  <2>1. \A e \in Execs : /\ pc'[e] = IF pc[e] = "idle" THEN "idle" ELSE "done"
                         /\ good'[e] = FALSE /\ read'[e] = "no" /\ job'[e] = "none"
    BY <1>20 DEF Crashes
  <2>2. \A r \in Runs : <<r, 0>> \in Execs /\ <<r, 1>> \in Execs
    BY Executors
  <2>3. ASSUME NEW r \in Runs
        PROVE  (Planned(r) => Planned(r)') /\ Told(r)'
    <3>1. Told(r)
      BY DEF Course
    <3>2. pc[<<r, 0>>] = "idle" => pc[<<r, 1>>] = "idle"
      BY <2>2, <1>0, Executors DEF Stage, Planned
    <3>3. QED
      BY <1>20, <2>1, <2>2, <3>1, <3>2 DEF Planned, Told, runRows
  <2>4. ASSUME NEW e \in Execs
        PROVE  Stage(e)'
    BY <1>0, <2>1, <2>3, Executors DEF Stage
  <2>5. QED
    BY <2>3, <2>4 DEF Course
<1>21. ASSUME NEW e \in Execs, UnlockRow(e)
      PROVE  Course'
  <2>1. CASE pc[e] = "unlockRow" \/ pc'[e] = "unlock"
    <3>1. Only(e) /\ RowsOnly(e[1]) /\ e[1] \in Runs
      BY <1>21, <2>1, Executors DEF UnlockRow, Typed, Goto, Only, RowsOnly, outcome, runRows
    <3>2. (Planned(e[1]) => Planned(e[1])') /\ Stage(e)' /\ Told(e[1])'
      BY <1>0, <1>21, <2>1, <3>1
         DEF UnlockRow, Typed, Goto, Only, RowsOnly, Planned, Stage, Told, runRows, outcome
    <3>3. QED
      BY <3>1, <3>2, CourseAlone
  <2>2. CASE pc[e] = "releaseRow" /\ pc'[e] # "unlock"
    <3>1. /\ IsPlan(e) /\ e = <<e[1], 0>> /\ e # <<e[1], 1>> /\ <<e[1], 1>> \in Execs
          /\ ~IsPlan(<<e[1], 1>>) /\ e[1] \in Runs
      BY <1>0, <2>2, Executors DEF Stage
    <3>2. /\ pc'[e] = "done" /\ pc'[<<e[1], 1>>] = "start"
          /\ \A f \in Execs : f # e /\ f # <<e[1], 1>> => pc'[f] = pc[f]
          /\ UNCHANGED <<runRows, outcome>>
      BY <1>21, <2>2, <3>1 DEF UnlockRow, Typed, Goto
    <3>3. planStatus[e[1]] = "finished" /\ auto[e[1]] /\ pc[<<e[1], 1>>] = "idle"
      BY <1>0, <2>2, <3>1 DEF Told
    <3>4. ASSUME NEW r \in Runs
          PROVE  (Planned(r) => Planned(r)') /\ Told(r)'
      <4>1. Told(r) /\ <<r, 0>> \in Execs /\ <<r, 1>> \in Execs /\ <<r, 0>> # <<e[1], 1>>
        BY Executors DEF Course
      <4>2. CASE r = e[1]
        BY <4>1, <4>2, <2>2, <3>1, <3>2, <3>3 DEF Planned, Told, runRows
      <4>3. CASE r # e[1]
        <5>1. <<r, 0>> # e /\ <<r, 1>> # e /\ <<r, 1>> # <<e[1], 1>>
          BY <4>3
        <5>2. QED
          BY <4>1, <5>1, <3>2 DEF Planned, Told, runRows, outcome
      <4>4. QED
        BY <4>2, <4>3
    <3>5. Planned(e[1])'
      BY <3>1, <3>2, <3>3 DEF Planned, runRows
    <3>6. ASSUME NEW f \in Execs
          PROVE  Stage(f)'
      <4>1. f[1] \in Runs /\ Stage(f) /\ Stage(<<e[1], 1>>)
        BY <1>0, <3>1, Executors
      <4>2. CASE f = e
        BY <4>2, <3>1, <3>2, <4>1, <2>2 DEF Stage, outcome
      <4>3. CASE f = <<e[1], 1>>
        BY <4>3, <3>1, <3>2, <3>3, <3>5, <4>1 DEF Stage, outcome
      <4>4. CASE f # e /\ f # <<e[1], 1>>
        BY <4>4, <3>2, <3>4, <4>1 DEF Stage, outcome
      <4>5. QED
        BY <4>2, <4>3, <4>4
    <3>7. QED
      BY <3>4, <3>6 DEF Course
  <2>3. QED
    BY <1>21, <2>1, <2>2 DEF UnlockRow
<1>22. ASSUME NEW r \in Runs, CreateRun(r)
      PROVE  Course'
  <2>1. /\ <<r, 0>> \in Execs /\ IsPlan(<<r, 0>>) /\ pc[<<r, 0>>] = "idle"
        /\ Stage(<<r, 0>>)
    BY <1>0, <1>22, Executors DEF CreateRun, Course, Told
  <2>2. /\ status'[r] = "pending"
        /\ \A q \in Runs : q # r => /\ status'[q] = status[q] /\ planStatus'[q] = planStatus[q]
                                    /\ auto'[q] = auto[q] /\ linked'[q] = linked[q]
        /\ \A f \in Execs : f # <<r, 0>> => pc'[f] = pc[f]
        /\ pc'[<<r, 0>>] \in {"idle", "start"}
        /\ UNCHANGED outcome
    BY <1>22, <2>1 DEF CreateRun, Typed, Goto
  <2>3. ASSUME NEW f \in Execs, f[1] = r, ~IsPlan(f)
        PROVE  pc[f] = "idle" /\ pc'[f] = "idle"
    BY <1>0, <2>1, <2>2, <2>3 DEF Stage, Planned
  <2>4. ASSUME NEW q \in Runs, q # r
        PROVE  (Planned(q) => Planned(q)') /\ Told(q)'
    <3>1. <<q, 0>> # <<r, 0>> /\ <<q, 1>> # <<r, 0>> /\ <<q, 0>> \in Execs /\ <<q, 1>> \in Execs
      BY <2>4, Executors
    <3>2. Told(q)
      BY DEF Course
    <3>3. QED
      BY <2>2, <2>4, <3>1, <3>2 DEF Planned, Told, outcome
  <2>5. Told(r)'
    <3>1. <<r, 1>> \in Execs /\ ~IsPlan(<<r, 1>>) /\ <<r, 1>>[1] = r
      BY Executors
    <3>2. pc'[<<r, 1>>] = "idle"
      BY <3>1, <2>3
    <3>3. QED
      BY <2>1, <2>2, <3>2 DEF Told
  <2>6. ASSUME NEW f \in Execs
        PROVE  Stage(f)'
    <3>1. CASE f = <<r, 0>>
      BY <3>1, <2>1, <2>2 DEF Stage, outcome
    <3>2. CASE f # <<r, 0>> /\ f[1] = r
      BY <3>2, <1>0, <2>2, <2>3 DEF Stage, outcome
    <3>3. CASE f[1] # r
      <4>1. f[1] \in Runs /\ f # <<r, 0>>
        BY <3>3, Executors
      <4>2. QED
        BY <3>3, <4>1, <1>0, <2>2, <2>4 DEF Stage, outcome
    <3>4. QED
      BY <3>1, <3>2, <3>3
  <2>7. QED
    BY <2>4, <2>5, <2>6 DEF Course
<1>23. ASSUME UNCHANGED <<runRows, pc, good, job>>,
              \A e \in Execs : read[e] = "no" => read'[e] = "no"
      PROVE  Course'
  BY <1>23 DEF Course, Stage, Told, Planned, runRows
<1>24. Users => Course'
  <2>1. UserUploads => \A e \in Execs : read[e] = "no" => read'[e] = "no"
    BY DEF UserUploads, ReplacedUnder
  <2>2. QED
    BY <2>1, <1>23 DEF Users, UserLocks, ReadRowLock, UserUploads, UserUnlocks, ForceUnlock, outcome
<1>25. SidecarRestart => Course'
  <2>1. SidecarRestart => /\ UNCHANGED <<runRows, pc, good, read>>
                          /\ \A e \in Execs : job'[e] # "none" <=> job[e] # "none"
    BY DEF SidecarRestart
  <2>2. QED
    BY <2>1 DEF Course, Stage, Told, Planned, runRows
<1>26. UNCHANGED vars => Course'
  BY <1>23 DEF vars, outcome
<1>27. ASSUME NEW e \in Execs, Panic(e)
      PROVE  Course'
  BY <1>20, <1>27 DEF Panic
<1>28. Crash => Course'
  BY <1>20 DEF Crash
<1>29. ASSUME NEW e \in Execs, LockBlob(e)
      PROVE  Course'
  BY <1>19, <1>20, <1>29 DEF LockBlob
<1>30. QED
  BY <1>1, <1>2, <1>3, <1>4, <1>5, <1>6, <1>7, <1>8, <1>9, <1>10, <1>11, <1>12, <1>13, <1>14,
     <1>15, <1>16, <1>17, <1>18, <1>21, <1>22, <1>24, <1>25, <1>26, <1>27, <1>28, <1>29
     DEF Next, Execute

\* Every executor stays on the course of ExecutePlan or ExecuteApply.
LEMMA CourseAlways == Spec => [](Typed /\ Course)
<1>1. Init => Typed /\ Course
  BY TypedInit, CourseInit
<1>2. Typed /\ Course /\ [Next]_vars => (Typed /\ Course)'
  BY TypedStep, CourseStep
<1>3. QED
  BY <1>1, <1>2, PTL DEF Spec

\* Every variable has its type, and exactly the executors that wait for a job
\* of the sidecar have one.
THEOREM TypeCorrect == Spec => []TypeOK
<1>1. Typed /\ Course => TypeOK
  BY DEF Typed, Course, Stage, TypeOK
<1>2. QED
  BY <1>1, CourseAlways, PTL

\* PlanBeforeApply: when an apply runs terraform (executeApply, by request or
\* after an auto-apply plan), the plan of its run has finished without error.
THEOREM AppliesArePlanned == Spec => []PlanBeforeApply
<1>1. Course => PlanBeforeApply
  BY DEF Course, Stage, Planned, PlanBeforeApply, Terraform
<1>2. QED
  BY <1>1, CourseAlways, PTL

-----------------------------------------------------------------------------
(* The lock of the unit                                                    *)

\* Between LockBlob and Unlock an executor owns the unit.  A plan that has lost
\* its lock on the way to its apply comes to unlock without owning it.
Owns(e) ==
  \/ pc[e] \in {"lockRow", "begin", "download", "run", "wait", "record", "finish",
                "finishApply", "queue", "failed"}
  \/ ~IsPlan(e) /\ pc[e] = "unlock"

\* The owner has the lock, although other executors of its run have the same
\* lock ID; there is one owner; and only a user that it was lent to has replaced
\* what the owner has read.
Ownership ==
  /\ \A e \in Execs : Owns(e) => lock = LockID(e)
  /\ \A e, f \in Execs : Owns(e) /\ Owns(f) => e = f
  /\ \A e \in Execs : pc[e] \in {"run", "wait", "record"} => read[e] # "replaced"

Owned ==
  /\ "forced" \notin seen => Ownership
  /\ seen = {} => orphans = {}

\* Nobody runs terraform yet.
LEMMA OwnedInit == Init => Owned
BY DEF Init, Owned, Ownership, Owns

\* A step of one executor that neither takes nor frees the lock.
LEMMA OwnershipAlone ==
  ASSUME Ownership, NEW e \in Execs, Only(e), UNCHANGED lock, Owns(e)' => Owns(e),
         (\A f \in Execs : f # e => read'[f] = read[f]) \/ Owns(e),
         pc'[e] \in {"run", "wait", "record"} => read'[e] # "replaced"
  PROVE  Ownership'
<1>1. \A f \in Execs : Owns(f)' => Owns(f)
  BY DEF Only, Owns
<1>2. ASSUME NEW f \in Execs, f # e, pc'[f] \in {"run", "wait", "record"}
      PROVE  read'[f] # "replaced"
  <2>1. pc[f] = pc'[f] /\ Owns(f)
    BY <1>2 DEF Only, Owns
  <2>2. read'[f] = read[f]
    BY <1>2, <2>1 DEF Ownership
  <2>3. QED
    BY <1>2, <2>1, <2>2 DEF Ownership
<1>3. \A f \in Execs : Owns(f)' => lock' = LockID(f)
  BY <1>1 DEF Ownership
<1>4. \A f, g \in Execs : Owns(f)' /\ Owns(g)' => f = g
  BY <1>1 DEF Ownership
<1>5. QED
  BY <1>2, <1>3, <1>4 DEF Ownership

\* Every step keeps the unit with its owner, unless it is unlocked by force.
LEMMA OwnershipStep ==
  Typed /\ Course /\ Ownership /\ Next /\ ~ForceUnlock => Ownership'
<1> SUFFICES ASSUME Typed, Course, Ownership, Next, ~ForceUnlock
             PROVE  Ownership'
  OBVIOUS
<1>0. \A e \in Execs : Stage(e)
  BY DEF Course
<1>1. ASSUME NEW e \in Execs, AskApply(e)
      PROVE  Ownership'
  <2>1. Only(e)
    BY <1>1, Alone
  <2>2. UNCHANGED lock /\ (Owns(e)' => Owns(e))
    BY <1>0, <1>1 DEF AskApply, Typed, Goto, Stage, Owns, locks
  <2>3. \A f \in Execs : f # e => read'[f] = read[f]
    BY <1>1 DEF AskApply, Typed, outcome
  <2>4. pc'[e] \in {"run", "wait", "record"} => read'[e] # "replaced"
    BY <1>0, <1>1 DEF AskApply, Typed, Goto, Stage, Ownership, outcome
  <2>5. QED
    BY <2>1, <2>2, <2>3, <2>4, OwnershipAlone
<1>2. ASSUME NEW e \in Execs, QueueApply(e)
      PROVE  Ownership'
  <2>1. Only(e)
    BY <1>2, Alone
  <2>2. UNCHANGED lock /\ (Owns(e)' => Owns(e))
    BY <1>0, <1>2 DEF QueueApply, Typed, Goto, Stage, Owns, locks
  <2>3. \A f \in Execs : f # e => read'[f] = read[f]
    BY <1>2 DEF QueueApply, Typed, outcome
  <2>4. pc'[e] \in {"run", "wait", "record"} => read'[e] # "replaced"
    BY <1>0, <1>2 DEF QueueApply, Typed, Goto, Stage, Ownership, outcome
  <2>5. QED
    BY <2>1, <2>2, <2>3, <2>4, OwnershipAlone
<1>3. ASSUME NEW e \in Execs, Start(e)
      PROVE  Ownership'
  <2>1. Only(e)
    BY <1>3, Alone
  <2>2. UNCHANGED lock /\ (Owns(e)' => Owns(e))
    BY <1>0, <1>3 DEF Start, Typed, Goto, Stage, Owns, locks
  <2>3. \A f \in Execs : f # e => read'[f] = read[f]
    BY <1>3 DEF Start, Typed, outcome
  <2>4. pc'[e] \in {"run", "wait", "record"} => read'[e] # "replaced"
    BY <1>0, <1>3 DEF Start, Typed, Goto, Stage, Ownership, outcome
  <2>5. QED
    BY <2>1, <2>2, <2>3, <2>4, OwnershipAlone
<1>4. ASSUME NEW e \in Execs, LockRow(e)
      PROVE  Ownership'
  <2>1. Only(e)
    BY <1>4, Alone
  <2>2. UNCHANGED lock /\ (Owns(e)' => Owns(e))
    BY <1>0, <1>4 DEF LockRow, Typed, Goto, Stage, Owns, locks
  <2>3. \A f \in Execs : f # e => read'[f] = read[f]
    BY <1>4 DEF LockRow, Typed, outcome
  <2>4. pc'[e] \in {"run", "wait", "record"} => read'[e] # "replaced"
    BY <1>0, <1>4 DEF LockRow, Typed, Goto, Stage, Ownership, outcome
  <2>5. QED
    BY <2>1, <2>2, <2>3, <2>4, OwnershipAlone
<1>5. ASSUME NEW e \in Execs, Begin(e)
      PROVE  Ownership'
  <2>1. Only(e)
    BY <1>5, Alone
  <2>2. UNCHANGED lock /\ (Owns(e)' => Owns(e))
    BY <1>0, <1>5 DEF Begin, Typed, Goto, Stage, Owns, locks
  <2>3. \A f \in Execs : f # e => read'[f] = read[f]
    BY <1>5 DEF Begin, Typed, outcome
  <2>4. pc'[e] \in {"run", "wait", "record"} => read'[e] # "replaced"
    BY <1>0, <1>5 DEF Begin, Typed, Goto, Stage, Ownership, outcome
  <2>5. QED
    BY <2>1, <2>2, <2>3, <2>4, OwnershipAlone
<1>6. ASSUME NEW e \in Execs, Download(e)
      PROVE  Ownership'
  <2>1. Only(e)
    BY <1>6, Alone
  <2>2. UNCHANGED lock /\ (Owns(e)' => Owns(e))
    BY <1>0, <1>6 DEF Download, Typed, Goto, Stage, Owns, locks
  <2>3. \A f \in Execs : f # e => read'[f] = read[f]
    BY <1>6 DEF Download, Typed, outcome
  <2>4. pc'[e] \in {"run", "wait", "record"} => read'[e] # "replaced"
    BY <1>0, <1>6 DEF Download, Typed, Goto, Stage, Ownership, outcome
  <2>5. QED
    BY <2>1, <2>2, <2>3, <2>4, OwnershipAlone
<1>7. ASSUME NEW e \in Execs, Refuse(e)
      PROVE  Ownership'
  <2>1. Only(e)
    BY <1>7, Alone
  <2>2. UNCHANGED lock /\ (Owns(e)' => Owns(e))
    BY <1>0, <1>7 DEF Refuse, Typed, Goto, Stage, Owns, locks
  <2>3. \A f \in Execs : f # e => read'[f] = read[f]
    BY <1>7 DEF Refuse, Typed, outcome
  <2>4. pc'[e] \in {"run", "wait", "record"} => read'[e] # "replaced"
    BY <1>0, <1>7 DEF Refuse, Typed, Goto, Stage, Ownership, outcome
  <2>5. QED
    BY <2>1, <2>2, <2>3, <2>4, OwnershipAlone
<1>8. ASSUME NEW e \in Execs, RunLocally(e)
      PROVE  Ownership'
  <2>1. Only(e)
    BY <1>8, Alone
  <2>2. UNCHANGED lock /\ (Owns(e)' => Owns(e))
    BY <1>0, <1>8 DEF RunLocally, Typed, Goto, Stage, Owns, locks
  <2>3. \A f \in Execs : f # e => read'[f] = read[f]
    BY <1>8 DEF RunLocally, Typed, outcome
  <2>4. pc'[e] \in {"run", "wait", "record"} => read'[e] # "replaced"
    BY <1>0, <1>8 DEF RunLocally, Typed, Goto, Stage, Ownership, outcome
  <2>5. QED
    BY <2>1, <2>2, <2>3, <2>4, OwnershipAlone
<1>9. ASSUME NEW e \in Execs, StartJob(e)
      PROVE  Ownership'
  <2>1. Only(e)
    BY <1>9, Alone
  <2>2. UNCHANGED lock /\ (Owns(e)' => Owns(e))
    BY <1>0, <1>9 DEF StartJob, Typed, Goto, Stage, Owns, locks
  <2>3. \A f \in Execs : f # e => read'[f] = read[f]
    BY <1>9 DEF StartJob, Typed, outcome
  <2>4. pc'[e] \in {"run", "wait", "record"} => read'[e] # "replaced"
    BY <1>0, <1>9 DEF StartJob, Typed, Goto, Stage, Ownership, outcome
  <2>5. QED
    BY <2>1, <2>2, <2>3, <2>4, OwnershipAlone
<1>10. ASSUME NEW e \in Execs, RunJob(e)
      PROVE  Ownership'
  <2>1. Only(e)
    BY <1>10, Alone
  <2>2. UNCHANGED lock /\ (Owns(e)' => Owns(e))
    BY <1>0, <1>10 DEF RunJob, Typed, Goto, Stage, Owns, locks, outcome
  <2>3. \A f \in Execs : f # e => read'[f] = read[f]
    BY <1>10 DEF RunJob, Typed, outcome
  <2>4. pc'[e] \in {"run", "wait", "record"} => read'[e] # "replaced"
    BY <1>0, <1>10 DEF RunJob, Typed, Goto, Stage, Ownership, outcome
  <2>5. QED
    BY <2>1, <2>2, <2>3, <2>4, OwnershipAlone
<1>11. ASSUME NEW e \in Execs, EndOrphan(e)
      PROVE  Ownership'
  <2>1. Only(e)
    BY <1>11, Alone
  <2>2. UNCHANGED lock /\ (Owns(e)' => Owns(e))
    BY <1>0, <1>11 DEF EndOrphan, Typed, Goto, Stage, Owns, locks, outcome
  <2>3. \A f \in Execs : f # e => read'[f] = read[f]
    BY <1>11 DEF EndOrphan, Typed, outcome
  <2>4. pc'[e] \in {"run", "wait", "record"} => read'[e] # "replaced"
    BY <1>0, <1>11 DEF EndOrphan, Typed, Goto, Stage, Ownership, outcome
  <2>5. QED
    BY <2>1, <2>2, <2>3, <2>4, OwnershipAlone
<1>12. ASSUME NEW e \in Execs, WaitForJob(e)
      PROVE  Ownership'
  <2>1. Only(e)
    BY <1>12, Alone
  <2>2. UNCHANGED lock /\ (Owns(e)' => Owns(e))
    BY <1>0, <1>12 DEF WaitForJob, Typed, Goto, Stage, Owns, locks
  <2>3. \A f \in Execs : f # e => read'[f] = read[f]
    BY <1>12 DEF WaitForJob, Typed, outcome
  <2>4. pc'[e] \in {"run", "wait", "record"} => read'[e] # "replaced"
    BY <1>0, <1>12 DEF WaitForJob, Typed, Goto, Stage, Ownership, outcome
  <2>5. QED
    BY <2>1, <2>2, <2>3, <2>4, OwnershipAlone
<1>13. ASSUME NEW e \in Execs, RecordPlan(e)
      PROVE  Ownership'
  <2>1. Only(e)
    BY <1>13, Alone
  <2>2. UNCHANGED lock /\ (Owns(e)' => Owns(e))
    BY <1>0, <1>13 DEF RecordPlan, Typed, Goto, Stage, Owns, locks
  <2>3. \A f \in Execs : f # e => read'[f] = read[f]
    BY <1>13 DEF RecordPlan, Typed, outcome
  <2>4. pc'[e] \in {"run", "wait", "record"} => read'[e] # "replaced"
    BY <1>0, <1>13 DEF RecordPlan, Typed, Goto, Stage, Ownership, outcome
  <2>5. QED
    BY <2>1, <2>2, <2>3, <2>4, OwnershipAlone
<1>14. ASSUME NEW e \in Execs, FinishPlan(e)
      PROVE  Ownership'
  <2>1. Only(e)
    BY <1>14, Alone
  <2>2. UNCHANGED lock /\ (Owns(e)' => Owns(e))
    BY <1>0, <1>14 DEF FinishPlan, Typed, Goto, Stage, Owns, locks
  <2>3. \A f \in Execs : f # e => read'[f] = read[f]
    BY <1>14 DEF FinishPlan, Typed, outcome
  <2>4. pc'[e] \in {"run", "wait", "record"} => read'[e] # "replaced"
    BY <1>0, <1>14 DEF FinishPlan, Typed, Goto, Stage, Ownership, outcome
  <2>5. QED
    BY <2>1, <2>2, <2>3, <2>4, OwnershipAlone
<1>15. ASSUME NEW e \in Execs, QueueAfterPlan(e)
      PROVE  Ownership'
  <2>1. Only(e)
    BY <1>15, Alone
  <2>2. UNCHANGED lock /\ (Owns(e)' => Owns(e))
    BY <1>0, <1>15 DEF QueueAfterPlan, Typed, Goto, Stage, Owns, locks
  <2>3. \A f \in Execs : f # e => read'[f] = read[f]
    BY <1>15 DEF QueueAfterPlan, Typed, outcome
  <2>4. pc'[e] \in {"run", "wait", "record"} => read'[e] # "replaced"
    BY <1>0, <1>15 DEF QueueAfterPlan, Typed, Goto, Stage, Ownership, outcome
  <2>5. QED
    BY <2>1, <2>2, <2>3, <2>4, OwnershipAlone
<1>16. ASSUME NEW e \in Execs, RecordApply(e)
      PROVE  Ownership'
  <2>1. Only(e)
    BY <1>16, Alone
  <2>2. UNCHANGED lock /\ (Owns(e)' => Owns(e))
    BY <1>0, <1>16 DEF RecordApply, Typed, Goto, Stage, Owns, locks
  <2>3. Owns(e) /\ pc'[e] = "finishApply"
    BY <1>16 DEF RecordApply, Owns, Typed, Goto
  <2>5. QED
    BY <2>1, <2>2, <2>3, OwnershipAlone
<1>17. ASSUME NEW e \in Execs, FinishApply(e)
      PROVE  Ownership'
  <2>1. Only(e)
    BY <1>17, Alone
  <2>2. UNCHANGED lock /\ (Owns(e)' => Owns(e))
    BY <1>0, <1>17 DEF FinishApply, Typed, Goto, Stage, Owns, locks
  <2>3. \A f \in Execs : f # e => read'[f] = read[f]
    BY <1>17 DEF FinishApply, Typed, outcome
  <2>4. pc'[e] \in {"run", "wait", "record"} => read'[e] # "replaced"
    BY <1>0, <1>17 DEF FinishApply, Typed, Goto, Stage, Ownership, outcome
  <2>5. QED
    BY <2>1, <2>2, <2>3, <2>4, OwnershipAlone
<1>18. ASSUME NEW e \in Execs, LockBlob(e), ~Crashes
      PROVE  Ownership'
  <2>1. Only(e) /\ UNCHANGED read
    BY <1>18 DEF LockBlob, Typed, Goto, Only, outcome
  <2>2. CASE lock = NoLock /\ lock' = LockID(e) /\ pc'[e] = "lockRow"
    <3>1. \A f \in Execs : ~Owns(f)
      BY <2>2, Executors DEF Ownership
    <3>2. \A f \in Execs : Owns(f)' => f = e
      BY <2>1, <3>1 DEF Only, Owns
    <3>3. \A f \in Execs : pc'[f] \notin {"run", "wait", "record"}
      BY <2>2, <3>2 DEF Owns
    <3>4. QED
      BY <2>2, <3>2, <3>3 DEF Ownership
  <2>3. CASE UNCHANGED lock /\ pc'[e] = "refused"
    BY <2>1, <2>3, OwnershipAlone DEF Owns
  <2>4. QED
    BY <1>18, <2>2, <2>3 DEF LockBlob, Goto, Typed
<1>19. Crashes => Ownership'
  <2>1. Crashes => \A e \in Execs : pc'[e] \in {"idle", "done"}
    BY DEF Crashes
  <2>2. QED
    BY <2>1 DEF Ownership, Owns
<1>20. ASSUME NEW e \in Execs, UnlockBlob(e)
      PROVE  Ownership'
  <2>1. Only(e) /\ UNCHANGED read
    BY <1>20, Alone DEF UnlockBlob, outcome
  <2>2. pc[e] \in {"unlock", "release"} /\ pc'[e] \in {"unlock", "unlockRow", "releaseRow", "done"}
    BY <1>20 DEF UnlockBlob, Goto, Typed
  <2>3. CASE UNCHANGED lock /\ (pc'[e] = "unlock" => IsPlan(e))
    BY <2>1, <2>2, <2>3, OwnershipAlone DEF Owns
  <2>4. CASE lock = LockID(e) /\ pc'[e] \in {"unlockRow", "releaseRow"}
    <3>1. ASSUME NEW f \in Execs, Owns(f), f # e
          PROVE  FALSE
      <4>1. LockID(f) = LockID(e)
        BY <2>4, <3>1 DEF Ownership
      <4>2. ~IsPlan(e)
        BY <3>1, <4>1, Executors
      <4>3. Owns(e)
        BY <1>0, <2>2, <4>2 DEF Stage, Owns
      <4>4. QED
        BY <3>1, <4>3 DEF Ownership
    <3>2. \A f \in Execs : ~Owns(f)'
      BY <2>1, <2>4, <3>1 DEF Only, Owns
    <3>3. QED
      BY <3>2 DEF Ownership, Owns
  <2>5. QED
    <3>1. pc[e] = "release" => IsPlan(e)
      BY <1>0 DEF Stage
    <3>2. QED
      BY <1>20, <2>3, <2>4, <3>1 DEF UnlockBlob, Goto, Typed
<1>21. ASSUME NEW e \in Execs, UnlockRow(e)
      PROVE  Ownership'
  <2>1. /\ UNCHANGED <<lock, read>>
        /\ \A f \in Execs : \/ pc'[f] = pc[f] \/ pc'[f] \in {"done", "start"}
                               \/ (pc'[f] = "unlock" /\ IsPlan(f))
    BY <1>0, <1>21 DEF UnlockRow, Goto, Typed, Stage, outcome
  <2>2. \A f \in Execs : Owns(f)' => Owns(f)
    BY <2>1 DEF Owns
  <2>3. QED
    BY <2>1, <2>2 DEF Ownership
<1>22. ASSUME NEW r \in Runs, CreateRun(r)
      PROVE  Ownership'
  <2>1. /\ UNCHANGED <<lock, read>>
        /\ \A f \in Execs : pc'[f] = pc[f] \/ pc'[f] = "start"
    BY <1>22 DEF CreateRun, Goto, Typed, locks, outcome
  <2>2. \A f \in Execs : Owns(f)' => Owns(f)
    BY <2>1 DEF Owns
  <2>3. QED
    BY <2>1, <2>2 DEF Ownership
<1>23. ASSUME lock \in {NoLock, User}, UNCHANGED pc
      PROVE  Ownership'
  <2>1. \A f \in Execs : ~Owns(f)
    BY <1>23, Executors DEF Ownership
  <2>2. \A f \in Execs : ~Owns(f)'
    BY <1>23, <2>1 DEF Owns
  <2>3. QED
    BY <2>2 DEF Ownership, Owns
<1>24. Users => Ownership'
  <2>1. UserLocks \/ UserUnlocks => Ownership'
    BY <1>23 DEF UserLocks, UserUnlocks
  <2>2. ReadRowLock => Ownership'
    BY DEF ReadRowLock, Ownership, Owns, outcome
  <2>3. ASSUME UserUploads
        PROVE  Ownership'
    <3>1. UNCHANGED <<lock, pc>>
      BY <2>3 DEF UserUploads
    <3>2. ASSUME NEW e \in Execs, pc'[e] \in {"run", "wait", "record"}
          PROVE  read'[e] # "replaced"
      <4>1. Owns(e) /\ read[e] # "replaced"
        BY <3>1, <3>2 DEF Owns, Ownership
      <4>2. lock = LockID(e) /\ lock # NoLock
        BY <4>1, Executors DEF Ownership
      <4>3. read' = ReplacedUnder(lock) \/ read' = read
        BY <2>3, <4>2 DEF UserUploads
      <4>4. QED
        BY <4>1, <4>2, <4>3 DEF ReplacedUnder
    <3>3. QED
      BY <3>1, <3>2 DEF Ownership, Owns
  <2>4. QED
    BY <2>1, <2>2, <2>3 DEF Users
<1>25. SidecarRestart => Ownership'
  BY DEF SidecarRestart, Ownership, Owns, locks
<1>26. ASSUME NEW e \in Execs, LockBlob(e) \/ Panic(e)
      PROVE  Ownership'
  BY <1>18, <1>19, <1>26 DEF Panic
<1>27. Crash => Ownership'
  BY <1>19 DEF Crash
<1>28. QED
  BY <1>1, <1>2, <1>3, <1>4, <1>5, <1>6, <1>7, <1>8, <1>9, <1>10, <1>11, <1>12, <1>13, <1>14,
     <1>15, <1>16, <1>17, <1>20, <1>21, <1>22, <1>24, <1>25, <1>26, <1>27
     DEF Next, Execute

\* Jobs are left behind by lost answers, slow jobs and crashes only, and the
\* history remembers each.
LEMMA OwnedStep == Typed /\ Course /\ Owned /\ [Next]_vars => Owned'
<1> SUFFICES ASSUME Typed, Course, Owned, [Next]_vars
             PROVE  Owned'
  OBVIOUS
<1>1. CASE UNCHANGED vars
  BY <1>1 DEF vars, Owned, Ownership, Owns, runRows, locks, outcome, setting
<1>2. CASE Next
  <2>1. Crashes => "crashed" \in seen'
    BY DEF Crashes
  <2>2. ForceUnlock => "forced" \in seen' /\ seen' # {}
    BY DEF ForceUnlock
  <2>3. seen \subseteq seen'
    <3>1. ASSUME NEW e \in Execs, Execute(e)
          PROVE  seen \subseteq seen'
      BY <3>1 DEF Execute, QueueApply, Start, LockBlob, LockRow, Begin, Download, RunLocally,
            StartJob, WaitForJob, RecordPlan, FinishPlan, QueueAfterPlan, RecordApply,
            FinishApply, Refuse, UnlockBlob, UnlockRow, Panic, Crashes
    <3>2. QED
      BY <1>2, <3>1 DEF Next, CreateRun, AskApply, RunJob, EndOrphan, Users, UserLocks,
            ReadRowLock, UserUploads, UserUnlocks, ForceUnlock, Crash, SidecarRestart, Crashes
  <2>4. seen' = {} => orphans' \subseteq orphans
    <3>1. ASSUME NEW e \in Execs, Execute(e)
          PROVE  seen' = {} => orphans' \subseteq orphans
      <4>1. \/ UNCHANGED orphans \/ Crashes \/ StartJob(e) \/ WaitForJob(e)
        BY <3>1 DEF Execute, QueueApply, Start, LockBlob, LockRow, Begin, Download, RunLocally,
              RecordPlan, FinishPlan, QueueAfterPlan, RecordApply,
              FinishApply, Refuse, UnlockBlob, UnlockRow, Panic
      <4>2. StartJob(e) => orphans' = orphans \/ "orphan" \in seen'
        BY DEF StartJob
      <4>3. WaitForJob(e) => orphans' = orphans \/ "orphan" \in seen'
        BY DEF WaitForJob
      <4>4. QED
        BY <2>1, <4>1, <4>2, <4>3
    <3>2. QED
      BY <1>2, <2>1, <3>1 DEF Next, CreateRun, AskApply, RunJob, EndOrphan, Users, UserLocks,
            ReadRowLock, UserUploads, UserUnlocks, ForceUnlock, Crash, SidecarRestart
  <2>5. QED
    BY <1>2, <2>2, <2>3, <2>4, OwnershipStep DEF Owned
<1>3. QED
  BY <1>1, <1>2

\* The ownership of the lock of the unit is never lost but by force.
LEMMA OwnedAlways == Spec => []Owned
BY CourseAlways, OwnedInit, OwnedStep, PTL DEF Spec

\* OneTerraform: "This prevents concurrent plans/applies on the same unit", for
\* any number of runs and applies, as long as nothing was unlocked by force and
\* no job of the sidecar was left behind.
THEOREM TerraformRunsAlone == Spec => []OneTerraform
<1>1. Owned => OneTerraform
  BY DEF Owned, Ownership, Owns, OneTerraform, Terraform
<1>2. QED
  BY <1>1, OwnedAlways, PTL

\* NoLostState: an apply that uploads its state has read the state it replaces, or
\* a user has made that one under the lock of this apply, also after crashes and
\* with slow jobs, and however old the lock that a user's upload has read; unless
\* the unit was unlocked by force.
THEOREM StatesAreNotLost == Spec => NoLostState
<1>1. Owned => \A e \in Execs : pc[e] = "record" /\ pc'[e] = "finishApply" /\ good'[e] =>
                 "forced" \in seen \/ read[e] # "replaced"
  BY DEF Owned, Ownership
<1>2. QED
  BY <1>1, OwnedAlways, PTL DEF NoLostState

-----------------------------------------------------------------------------
(* The ends of the executors                                               *)

\* A history without lost rows, blobs or goroutines and without force.
Orderly == fault \in {"lostStart", "slow"} /\ ~down

\* The executor has the lock and will release it.
Keeps(e) == Owns(e) \/ pc[e] \in {"release", "unlock"}

\* The executor will still write the status its run ends with.
Busy(e) ==
  pc[e] \in {"start", "lock", "lockRow", "begin", "download", "run", "wait", "record", "finish",
             "finishApply", "refused", "failed", "release", "releaseRow"}

Ends == {"none", "planned", "applied", "errored"}

\* In an orderly history every lock but a user's will be released, every run
\* that has not ended has an executor that will end it, and no plan misses the
\* ID that flushLogs follows.
Quiet ==
  /\ "forced" \notin seen
  /\ \A r \in Runs : pc[<<r, 0>>] # "idle" => linked[r]
  /\ \A e \in Execs : pc[e] # "panic"
  /\ \A e \in Execs : Keeps(e) => lock = LockID(e)
  /\ lock \in {NoLock, User} \/ \E e \in Execs : Keeps(e)
  /\ \A r \in Runs : status[r] \in Ends \/ \E e \in Execs : e[1] = r /\ Busy(e)

\* No lock is taken and no run begun.
LEMMA QuietInit == Init => Quiet
<1> SUFFICES ASSUME Init
             PROVE  Quiet
  OBVIOUS
<1>1. \A e \in Execs : pc[e] = "idle" /\ ~Keeps(e)
  BY DEF Init, Keeps, Owns
<1>2. \A r \in Runs : status[r] \in Ends /\ pc[<<r, 0>>] = "idle"
  BY <1>1, Executors DEF Init, Ends
<1>3. QED
  BY <1>1, <1>2 DEF Init, Quiet

\* A step of one executor that neither takes nor frees the lock, and that stays
\* busy, has not been, or writes an end.
LEMMA QuietAlone ==
  ASSUME Quiet, NEW e \in Execs, Only(e), RowsOnly(e[1]), UNCHANGED lock,
         "forced" \notin seen', pc'[e] # "panic", pc[e] # "idle" \/ ~IsPlan(e),
         Keeps(e)' <=> Keeps(e),
         \/ status'[e[1]] \in Ends
         \/ Busy(e)'
         \/ status'[e[1]] = status[e[1]] /\ ~Busy(e)
  PROVE  Quiet'
<1>1. \A f \in Execs : Keeps(f)' <=> Keeps(f)
  BY DEF Only, Keeps, Owns
<1>2. ASSUME NEW r \in Runs, pc'[<<r, 0>>] # "idle"
      PROVE  linked'[r]
  BY <1>2, Executors, ZenonT(60) DEF Quiet, Only, RowsOnly
<1>3. ASSUME NEW r \in Runs
      PROVE  status'[r] \in Ends \/ \E f \in Execs : f[1] = r /\ Busy(f)'
  <2>1. status[r] \in Ends \/ \E f \in Execs : f[1] = r /\ Busy(f)
    BY DEF Quiet
  <2>2. \A f \in Execs : f # e => (Busy(f)' <=> Busy(f))
    BY DEF Only, Busy
  <2>3. r # e[1] => status'[r] = status[r]
    BY DEF RowsOnly
  <2>4. QED
    BY <2>1, <2>2, <2>3
<1>4. \A f \in Execs : pc'[f] # "panic"
  BY DEF Quiet, Only
<1>5. \A f \in Execs : Keeps(f)' => lock' = LockID(f)
  BY <1>1 DEF Quiet
<1>6. lock' \in {NoLock, User} \/ \E f \in Execs : Keeps(f)'
  BY <1>1 DEF Quiet
<1>7. QED
  BY <1>2, <1>3, <1>4, <1>5, <1>6 DEF Quiet

\* In an orderly history every step leaves somebody to clean up.
LEMMA QuietStep ==
  Typed /\ Course /\ Owned /\ Quiet /\ Orderly /\ Next /\ Orderly' => Quiet'
<1> SUFFICES ASSUME Typed, Course, Owned, Quiet, Orderly, Next, Orderly'
             PROVE  Quiet'
  OBVIOUS
<1>0. /\ \A e \in Execs : Stage(e) /\ (IsPlan(e) => e = <<e[1], 0>>) /\ e[1] \in Runs
      /\ fault \notin {"db", "blob", "crash", "force"}
      /\ \A e \in Execs : IsPlan(e) /\ pc[e] # "idle" => linked[e[1]]
      /\ "forced" \notin seen
      /\ \A e \in Execs : pc[e] # "panic"
  BY Executors DEF Course, Orderly, Quiet
<1>1. ASSUME NEW e \in Execs, AskApply(e)
      PROVE  Quiet'
  <2>1. Only(e) /\ RowsOnly(e[1])
    BY <1>1, Alone
  <2>2. /\ UNCHANGED lock /\ "forced" \notin seen' /\ pc'[e] # "panic"
        /\ pc[e] # "idle" \/ ~IsPlan(e)
        /\ Keeps(e)' <=> Keeps(e)
    BY <1>0, <1>1 DEF AskApply, Asked, Typed, Goto, Stage, Keeps, Owns, locks, outcome, runRows
  <2>3. \/ status'[e[1]] \in Ends
        \/ Busy(e)'
        \/ status'[e[1]] = status[e[1]] /\ ~Busy(e)
    BY <1>0, <1>1 DEF AskApply, Asked, Typed, Goto, Stage, Busy, Ends, locks, outcome, runRows
  <2>4. QED
    BY <2>1, <2>2, <2>3, QuietAlone
<1>2. ASSUME NEW e \in Execs, QueueApply(e)
      PROVE  Quiet'
  <2>1. Only(e) /\ RowsOnly(e[1])
    BY <1>2, Alone
  <2>2. /\ UNCHANGED lock /\ "forced" \notin seen' /\ pc'[e] # "panic"
        /\ pc[e] # "idle" \/ ~IsPlan(e)
        /\ Keeps(e)' <=> Keeps(e)
    BY <1>0, <1>2 DEF QueueApply, Asked, Typed, Goto, Stage, Keeps, Owns, locks, outcome, runRows
  <2>3. \/ status'[e[1]] \in Ends
        \/ Busy(e)'
        \/ status'[e[1]] = status[e[1]] /\ ~Busy(e)
    BY <1>0, <1>2 DEF QueueApply, Asked, Typed, Goto, Stage, Busy, Ends, locks, outcome, runRows
  <2>4. QED
    BY <2>1, <2>2, <2>3, QuietAlone
<1>3. ASSUME NEW e \in Execs, Start(e)
      PROVE  Quiet'
  <2>1. Only(e) /\ RowsOnly(e[1])
    BY <1>3, Alone
  <2>2. /\ UNCHANGED lock /\ "forced" \notin seen' /\ pc'[e] # "panic"
        /\ pc[e] # "idle" \/ ~IsPlan(e)
        /\ Keeps(e)' <=> Keeps(e)
    BY <1>0, <1>3 DEF Start, Asked, Typed, Goto, Stage, Keeps, Owns, locks, outcome, runRows
  <2>3. \/ status'[e[1]] \in Ends
        \/ Busy(e)'
        \/ status'[e[1]] = status[e[1]] /\ ~Busy(e)
    BY <1>0, <1>3 DEF Start, Asked, Typed, Goto, Stage, Busy, Ends, locks, outcome, runRows
  <2>4. QED
    BY <2>1, <2>2, <2>3, QuietAlone
<1>4. ASSUME NEW e \in Execs, LockRow(e)
      PROVE  Quiet'
  <2>1. Only(e) /\ RowsOnly(e[1])
    BY <1>4, Alone
  <2>2. /\ UNCHANGED lock /\ "forced" \notin seen' /\ pc'[e] # "panic"
        /\ pc[e] # "idle" \/ ~IsPlan(e)
        /\ Keeps(e)' <=> Keeps(e)
    BY <1>0, <1>4 DEF LockRow, Asked, Typed, Goto, Stage, Keeps, Owns, locks, outcome, runRows
  <2>3. \/ status'[e[1]] \in Ends
        \/ Busy(e)'
        \/ status'[e[1]] = status[e[1]] /\ ~Busy(e)
    BY <1>0, <1>4 DEF LockRow, Asked, Typed, Goto, Stage, Busy, Ends, locks, outcome, runRows
  <2>4. QED
    BY <2>1, <2>2, <2>3, QuietAlone
<1>5. ASSUME NEW e \in Execs, Begin(e)
      PROVE  Quiet'
  <2>1. Only(e) /\ RowsOnly(e[1])
    BY <1>5, Alone
  <2>2. /\ UNCHANGED lock /\ "forced" \notin seen' /\ pc'[e] # "panic"
        /\ pc[e] # "idle" \/ ~IsPlan(e)
        /\ Keeps(e)' <=> Keeps(e)
    BY <1>0, <1>5 DEF Begin, Asked, Typed, Goto, Stage, Keeps, Owns, locks, outcome, runRows
  <2>3. \/ status'[e[1]] \in Ends
        \/ Busy(e)'
        \/ status'[e[1]] = status[e[1]] /\ ~Busy(e)
    BY <1>0, <1>5 DEF Begin, Asked, Typed, Goto, Stage, Busy, Ends, locks, outcome, runRows
  <2>4. QED
    BY <2>1, <2>2, <2>3, QuietAlone
<1>6. ASSUME NEW e \in Execs, Download(e)
      PROVE  Quiet'
  <2>1. Only(e) /\ RowsOnly(e[1])
    BY <1>6, Alone
  <2>2. /\ UNCHANGED lock /\ "forced" \notin seen' /\ pc'[e] # "panic"
        /\ pc[e] # "idle" \/ ~IsPlan(e)
        /\ Keeps(e)' <=> Keeps(e)
    BY <1>0, <1>6 DEF Download, Asked, Typed, Goto, Stage, Keeps, Owns, locks, outcome, runRows
  <2>3. \/ status'[e[1]] \in Ends
        \/ Busy(e)'
        \/ status'[e[1]] = status[e[1]] /\ ~Busy(e)
    BY <1>0, <1>6 DEF Download, Asked, Typed, Goto, Stage, Busy, Ends, locks, outcome, runRows
  <2>4. QED
    BY <2>1, <2>2, <2>3, QuietAlone
<1>7. ASSUME NEW e \in Execs, Refuse(e)
      PROVE  Quiet'
  <2>1. Only(e) /\ RowsOnly(e[1])
    BY <1>7, Alone
  <2>2. /\ UNCHANGED lock /\ "forced" \notin seen' /\ pc'[e] # "panic"
        /\ pc[e] # "idle" \/ ~IsPlan(e)
        /\ Keeps(e)' <=> Keeps(e)
    BY <1>0, <1>7 DEF Refuse, Asked, Typed, Goto, Stage, Keeps, Owns, locks, outcome, runRows
  <2>3. \/ status'[e[1]] \in Ends
        \/ Busy(e)'
        \/ status'[e[1]] = status[e[1]] /\ ~Busy(e)
    BY <1>0, <1>7 DEF Refuse, Asked, Typed, Goto, Stage, Busy, Ends, locks, outcome, runRows
  <2>4. QED
    BY <2>1, <2>2, <2>3, QuietAlone
<1>8. ASSUME NEW e \in Execs, RunLocally(e)
      PROVE  Quiet'
  <2>1. Only(e) /\ RowsOnly(e[1])
    BY <1>8, Alone
  <2>2. /\ UNCHANGED lock /\ "forced" \notin seen' /\ pc'[e] # "panic"
        /\ pc[e] # "idle" \/ ~IsPlan(e)
        /\ Keeps(e)' <=> Keeps(e)
    BY <1>0, <1>8 DEF RunLocally, Asked, Typed, Goto, Stage, Keeps, Owns, locks, outcome, runRows
  <2>3. \/ status'[e[1]] \in Ends
        \/ Busy(e)'
        \/ status'[e[1]] = status[e[1]] /\ ~Busy(e)
    BY <1>0, <1>8 DEF RunLocally, Asked, Typed, Goto, Stage, Busy, Ends, locks, outcome, runRows
  <2>4. QED
    BY <2>1, <2>2, <2>3, QuietAlone
<1>9. ASSUME NEW e \in Execs, StartJob(e)
      PROVE  Quiet'
  <2>1. Only(e) /\ RowsOnly(e[1])
    BY <1>9, Alone
  <2>2. /\ UNCHANGED lock /\ "forced" \notin seen' /\ pc'[e] # "panic"
        /\ pc[e] # "idle" \/ ~IsPlan(e)
        /\ Keeps(e)' <=> Keeps(e)
    BY <1>0, <1>9 DEF StartJob, Asked, Typed, Goto, Stage, Keeps, Owns, locks, outcome, runRows
  <2>3. \/ status'[e[1]] \in Ends
        \/ Busy(e)'
        \/ status'[e[1]] = status[e[1]] /\ ~Busy(e)
    BY <1>0, <1>9 DEF StartJob, Asked, Typed, Goto, Stage, Busy, Ends, locks, outcome, runRows
  <2>4. QED
    BY <2>1, <2>2, <2>3, QuietAlone
<1>10. ASSUME NEW e \in Execs, RunJob(e)
      PROVE  Quiet'
  <2>1. Only(e) /\ RowsOnly(e[1])
    BY <1>10, Alone
  <2>2. /\ UNCHANGED lock /\ "forced" \notin seen' /\ pc'[e] # "panic"
        /\ pc[e] # "idle" \/ ~IsPlan(e)
        /\ Keeps(e)' <=> Keeps(e)
    BY <1>0, <1>10 DEF RunJob, Asked, Typed, Goto, Stage, Keeps, Owns, locks, outcome, runRows
  <2>3. \/ status'[e[1]] \in Ends
        \/ Busy(e)'
        \/ status'[e[1]] = status[e[1]] /\ ~Busy(e)
    BY <1>0, <1>10 DEF RunJob, Asked, Typed, Goto, Stage, Busy, Ends, locks, outcome, runRows
  <2>4. QED
    BY <2>1, <2>2, <2>3, QuietAlone
<1>11. ASSUME NEW e \in Execs, EndOrphan(e)
      PROVE  Quiet'
  BY <1>11 DEF EndOrphan, Quiet, Keeps, Owns, Busy, runRows, locks
<1>12. ASSUME NEW e \in Execs, WaitForJob(e)
      PROVE  Quiet'
  <2>1. Only(e) /\ RowsOnly(e[1])
    BY <1>12, Alone
  <2>2. /\ UNCHANGED lock /\ "forced" \notin seen' /\ pc'[e] # "panic"
        /\ pc[e] # "idle" \/ ~IsPlan(e)
        /\ Keeps(e)' <=> Keeps(e)
    BY <1>0, <1>12 DEF WaitForJob, Asked, Typed, Goto, Stage, Keeps, Owns, locks, outcome, runRows
  <2>3. \/ status'[e[1]] \in Ends
        \/ Busy(e)'
        \/ status'[e[1]] = status[e[1]] /\ ~Busy(e)
    BY <1>0, <1>12 DEF WaitForJob, Asked, Typed, Goto, Stage, Busy, Ends, locks, outcome, runRows
  <2>4. QED
    BY <2>1, <2>2, <2>3, QuietAlone
<1>13. ASSUME NEW e \in Execs, RecordPlan(e)
      PROVE  Quiet'
  <2>1. Only(e) /\ RowsOnly(e[1])
    BY <1>13, Alone
  <2>2. /\ UNCHANGED lock /\ "forced" \notin seen' /\ pc'[e] # "panic"
        /\ pc[e] # "idle" \/ ~IsPlan(e)
        /\ Keeps(e)' <=> Keeps(e)
    BY <1>0, <1>13 DEF RecordPlan, Asked, Typed, Goto, Stage, Keeps, Owns, locks, outcome, runRows
  <2>3. \/ status'[e[1]] \in Ends
        \/ Busy(e)'
        \/ status'[e[1]] = status[e[1]] /\ ~Busy(e)
    BY <1>0, <1>13 DEF RecordPlan, Asked, Typed, Goto, Stage, Busy, Ends, locks, outcome, runRows
  <2>4. QED
    BY <2>1, <2>2, <2>3, QuietAlone
<1>14. ASSUME NEW e \in Execs, FinishPlan(e)
      PROVE  Quiet'
  <2>1. Only(e) /\ RowsOnly(e[1])
    BY <1>14, Alone
  <2>2. /\ UNCHANGED lock /\ "forced" \notin seen' /\ pc'[e] # "panic"
        /\ pc[e] # "idle" \/ ~IsPlan(e)
        /\ Keeps(e)' <=> Keeps(e)
    BY <1>0, <1>14 DEF FinishPlan, Asked, Typed, Goto, Stage, Keeps, Owns, locks, outcome, runRows
  <2>3. \/ status'[e[1]] \in Ends
        \/ Busy(e)'
        \/ status'[e[1]] = status[e[1]] /\ ~Busy(e)
    BY <1>0, <1>14 DEF FinishPlan, Asked, Typed, Goto, Stage, Busy, Ends, locks, outcome, runRows
  <2>4. QED
    BY <2>1, <2>2, <2>3, QuietAlone
<1>15. ASSUME NEW e \in Execs, QueueAfterPlan(e)
      PROVE  Quiet'
  <2>1. Only(e) /\ RowsOnly(e[1])
    BY <1>15, Alone
  <2>2. /\ UNCHANGED lock /\ "forced" \notin seen' /\ pc'[e] # "panic"
        /\ pc[e] # "idle" \/ ~IsPlan(e)
        /\ Keeps(e)' <=> Keeps(e)
    BY <1>0, <1>15 DEF QueueAfterPlan, Asked, Typed, Goto, Stage, Keeps, Owns, locks, outcome, runRows
  <2>3. \/ status'[e[1]] \in Ends
        \/ Busy(e)'
        \/ status'[e[1]] = status[e[1]] /\ ~Busy(e)
    BY <1>0, <1>15 DEF QueueAfterPlan, Asked, Typed, Goto, Stage, Busy, Ends, locks, outcome, runRows
  <2>4. QED
    BY <2>1, <2>2, <2>3, QuietAlone
<1>16. ASSUME NEW e \in Execs, RecordApply(e)
      PROVE  Quiet'
  <2>1. Only(e) /\ RowsOnly(e[1])
    BY <1>16, Alone
  <2>2. /\ UNCHANGED lock /\ "forced" \notin seen' /\ pc'[e] # "panic"
        /\ pc[e] # "idle" \/ ~IsPlan(e)
        /\ Keeps(e)' <=> Keeps(e)
    BY <1>0, <1>16 DEF RecordApply, Asked, Typed, Goto, Stage, Keeps, Owns, locks, outcome, runRows
  <2>3. \/ status'[e[1]] \in Ends
        \/ Busy(e)'
        \/ status'[e[1]] = status[e[1]] /\ ~Busy(e)
    BY <1>0, <1>16 DEF RecordApply, Asked, Typed, Goto, Stage, Busy, Ends, locks, outcome, runRows
  <2>4. QED
    BY <2>1, <2>2, <2>3, QuietAlone
<1>17. ASSUME NEW e \in Execs, FinishApply(e)
      PROVE  Quiet'
  <2>1. Only(e) /\ RowsOnly(e[1])
    BY <1>17, Alone
  <2>2. /\ UNCHANGED lock /\ "forced" \notin seen' /\ pc'[e] # "panic"
        /\ pc[e] # "idle" \/ ~IsPlan(e)
        /\ Keeps(e)' <=> Keeps(e)
    BY <1>0, <1>17 DEF FinishApply, Asked, Typed, Goto, Stage, Keeps, Owns, locks, outcome, runRows
  <2>3. \/ status'[e[1]] \in Ends
        \/ Busy(e)'
        \/ status'[e[1]] = status[e[1]] /\ ~Busy(e)
    BY <1>0, <1>17 DEF FinishApply, Asked, Typed, Goto, Stage, Busy, Ends, locks, outcome, runRows
  <2>4. QED
    BY <2>1, <2>2, <2>3, QuietAlone
<1>18. ASSUME NEW e \in Execs, LockBlob(e)
      PROVE  Quiet'
  <2>1. ~Crashes
    <3>1. Crashes /\ inMemory => down'
      BY DEF Crashes
    <3>2. pc[e] = "lock"
      BY <1>18 DEF LockBlob
    <3>3. Crashes => pc'[e] = "done"
      BY <3>2 DEF Crashes
    <3>4. QED
      BY <1>18, <3>1, <3>2, <3>3, Executors DEF LockBlob, Orderly, Goto, Typed
  <2>2. Only(e) /\ RowsOnly(e[1]) /\ UNCHANGED <<runRows, seen>>
    BY <1>18, <2>1 DEF LockBlob, Typed, Goto, Only, RowsOnly, outcome, runRows
  <2>3. CASE lock = NoLock /\ lock' = LockID(e) /\ pc[e] = "lock" /\ pc'[e] = "lockRow"
    <3>1. \A f \in Execs : ~Keeps(f)
      BY <2>3, Executors DEF Quiet
    <3>2. \A f \in Execs : Keeps(f)' <=> f = e
      BY <2>2, <2>3, <3>1 DEF Only, Keeps, Owns
    <3>3. \A f \in Execs : /\ Busy(f) => Busy(f)'
                           /\ pc'[f] # "panic"
                           /\ pc'[f] # "idle" => pc[f] # "idle"
      BY <1>0, <2>2, <2>3 DEF Only, Busy
    <3>4. \A r \in Runs : pc'[<<r, 0>>] # "idle" => linked'[r]
      BY <2>2, <3>3, Executors DEF Quiet, runRows
    <3>5. QED
      BY <1>0, <2>2, <2>3, <3>2, <3>3, <3>4 DEF Quiet, runRows
  <2>4. CASE UNCHANGED lock /\ pc[e] = "lock" /\ pc'[e] = "refused"
    BY <1>0, <2>2, <2>4, QuietAlone DEF Keeps, Owns, Busy
  <2>5. QED
    BY <1>18, <2>1, <2>3, <2>4 DEF LockBlob, Goto, Typed
<1>19. ASSUME NEW e \in Execs, UnlockBlob(e)
      PROVE  Quiet'
  <2>1. Only(e) /\ UNCHANGED <<runRows, seen>>
    BY <1>19, Alone DEF UnlockBlob
  <2>2. /\ lock = LockID(e) /\ lock' = NoLock
        /\ \/ pc[e] = "unlock" /\ pc'[e] = "unlockRow"
           \/ pc[e] = "release" /\ pc'[e] = "releaseRow"
    BY <1>0, <1>19 DEF UnlockBlob, Goto, Typed, Quiet, Keeps
  <2>3. ASSUME NEW f \in Execs, Keeps(f), f # e
        PROVE  FALSE
    <3>1. LockID(f) = LockID(e)
      BY <2>2, <2>3 DEF Quiet
    <3>2. ~IsPlan(e) /\ ~IsPlan(f)
      BY <2>3, <3>1, Executors
    <3>3. Owns(e) /\ Owns(f)
      BY <1>0, <2>2, <2>3, <3>2 DEF Keeps, Owns, Stage
    <3>4. QED
      BY <1>0, <2>3, <3>3 DEF Owned, Ownership
  <2>4. \A f \in Execs : ~Keeps(f)'
    BY <2>1, <2>2, <2>3 DEF Only, Keeps, Owns
  <2>5. ASSUME NEW r \in Runs
        PROVE  status'[r] \in Ends \/ \E f \in Execs : f[1] = r /\ Busy(f)'
    <3>1. status[r] \in Ends \/ \E f \in Execs : f[1] = r /\ Busy(f)
      BY DEF Quiet
    <3>2. \A f \in Execs : Busy(f) => Busy(f)'
      BY <2>1, <2>2 DEF Only, Busy
    <3>3. QED
      BY <2>1, <3>1, <3>2 DEF runRows
  <2>6. \A f \in Execs : pc'[f] # "panic" /\ (pc'[f] # "idle" => pc[f] # "idle")
    BY <1>0, <2>1, <2>2 DEF Only
  <2>7. QED
    BY <1>0, <2>1, <2>2, <2>4, <2>5, <2>6, Executors, ZenonT(60) DEF Quiet, runRows
<1>20. ASSUME NEW e \in Execs, UnlockRow(e)
      PROVE  Quiet'
  <2>1. UNCHANGED <<lock, runRows, seen>>
    BY <1>20 DEF UnlockRow
  <2>2. CASE pc[e] = "unlockRow"
    <3>1. Only(e) /\ RowsOnly(e[1]) /\ pc'[e] = "done"
      BY <1>20, <2>2, <1>0 DEF UnlockRow, Only, RowsOnly, Typed, Goto, outcome, runRows
    <3>2. QED
      BY <1>0, <2>1, <2>2, <3>1, QuietAlone DEF Keeps, Owns, Busy, runRows
  <2>3. CASE pc[e] = "releaseRow"
    <3>1. /\ e = <<e[1], 0>> /\ <<e[1], 1>> \in Execs /\ e # <<e[1], 1>> /\ pc[<<e[1], 1>>] = "idle"
      BY <1>0, <2>3, Executors DEF Stage, Course, Told
    <3>2. /\ pc'[e] = "done" /\ pc'[<<e[1], 1>>] = "start"
          /\ \A f \in Execs : f # e /\ f # <<e[1], 1>> => pc'[f] = pc[f]
      BY <1>0, <1>20, <2>3, <3>1 DEF UnlockRow, Typed
    <3>3. \A f \in Execs : Keeps(f)' <=> Keeps(f)
      BY <2>3, <3>1, <3>2 DEF Keeps, Owns
    <3>4. ASSUME NEW r \in Runs
          PROVE  status'[r] \in Ends \/ \E f \in Execs : f[1] = r /\ Busy(f)'
      <4>1. status[r] \in Ends \/ \E f \in Execs : f[1] = r /\ Busy(f)
        BY DEF Quiet
      <4>2. \A f \in Execs : f # e /\ Busy(f) => Busy(f)'
        BY <3>1, <3>2 DEF Busy
      <4>3. Busy(<<e[1], 1>>)'
        BY <3>2 DEF Busy
      <4>4. QED
        BY <2>1, <3>1, <4>1, <4>2, <4>3 DEF runRows
    <3>5. /\ \A f \in Execs : pc'[f] # "panic"
          /\ \A r \in Runs : pc'[<<r, 0>>] # "idle" => linked'[r]
      <4>1. \A r \in Runs : <<r, 0>> \in Execs /\ <<r, 0>> # <<e[1], 1>>
        BY Executors
      <4>2. QED
        BY <1>0, <2>1, <2>3, <3>1, <3>2, <4>1 DEF runRows, Quiet
    <3>6. QED
      BY <1>0, <2>1, <3>3, <3>4, <3>5 DEF Quiet
  <2>4. QED
    BY <1>20, <2>2, <2>3 DEF UnlockRow
<1>21. ASSUME NEW r \in Runs, CreateRun(r)
      PROVE  Quiet'
  <2>1. /\ <<r, 0>> \in Execs /\ IsPlan(<<r, 0>>) /\ pc[<<r, 0>>] = "idle"
    BY <1>21, Executors DEF CreateRun, Course, Told
  <2>2. /\ status'[r] = "pending" /\ pc'[<<r, 0>>] = "start" /\ linked'[r]
        /\ \A q \in Runs : q # r => status'[q] = status[q] /\ linked'[q] = linked[q]
        /\ \A f \in Execs : f # <<r, 0>> => pc'[f] = pc[f]
        /\ UNCHANGED <<lock, seen>>
    BY <1>0, <1>21, <2>1 DEF CreateRun, Typed, Goto, locks
  <2>3. \A f \in Execs : (Keeps(f)' <=> Keeps(f)) /\ (Busy(f) => Busy(f)') /\ pc'[f] # "panic"
    BY <1>0, <2>1, <2>2 DEF Keeps, Owns, Busy
  <2>4. Busy(<<r, 0>>)'
    BY <2>2 DEF Busy
  <2>5. ASSUME NEW q \in Runs
        PROVE  status'[q] \in Ends \/ \E f \in Execs : f[1] = q /\ Busy(f)'
    BY <2>1, <2>2, <2>3, <2>4 DEF Quiet
  <2>6. ASSUME NEW q \in Runs
        PROVE  pc'[<<q, 0>>] # "idle" => linked'[q]
    BY <2>2, Executors, ZenonT(60) DEF Quiet
  <2>7. QED
    BY <1>0, <2>2, <2>3, <2>5, <2>6 DEF Quiet
<1>22. ASSUME Users
      PROVE  Quiet'
  <2>1. /\ UNCHANGED <<pc, runRows, seen>>
        /\ UNCHANGED lock \/ (lock \in {NoLock, User} /\ lock' \in {NoLock, User})
    BY <1>0, <1>22 DEF Users, UserLocks, ReadRowLock, UserUploads, UserUnlocks, ForceUnlock, locks
  <2>2. lock \in {NoLock, User} => \A f \in Execs : ~Keeps(f)
    BY Executors DEF Quiet
  <2>3. \A f \in Execs : (Keeps(f)' <=> Keeps(f)) /\ (Busy(f)' <=> Busy(f))
    BY <2>1 DEF Keeps, Owns, Busy
  <2>4. QED
    BY <2>1, <2>2, <2>3 DEF Quiet, runRows
<1>23. ~Crash /\ ~SidecarRestart
  BY <1>0 DEF Crash, SidecarRestart
<1>24. ASSUME NEW e \in Execs
      PROVE  ~Panic(e)
  BY <1>0 DEF Panic, Flushes
<1>25. QED
  BY <1>1, <1>2, <1>3, <1>4, <1>5, <1>6, <1>7, <1>8, <1>9, <1>10, <1>11, <1>12, <1>13, <1>14,
     <1>15, <1>16, <1>17, <1>18, <1>19, <1>20, <1>21, <1>22, <1>23, <1>24
     DEF Next, Execute

\* In an orderly history whoever keeps a lock or leaves a run unfinished is still at work.
LEMMA QuietAlways == Spec => [](Orderly => Quiet)
<1>1. ASSUME NEW e \in Execs, Execute(e)
      PROVE  UNCHANGED fault
  BY <1>1 DEF setting, Execute, QueueApply, Start, LockBlob, LockRow, Begin, Download, RunLocally,
        StartJob, WaitForJob, RecordPlan, FinishPlan, QueueAfterPlan, RecordApply,
        FinishApply, Refuse, UnlockBlob, UnlockRow, Panic
<1>2. Next => UNCHANGED fault
  BY <1>1 DEF setting, Next, CreateRun, AskApply, RunJob, EndOrphan, Users, UserLocks,
        ReadRowLock, UserUploads, UserUnlocks, ForceUnlock, Crash, SidecarRestart
<1>3. Typed /\ Course /\ Owned /\ (Orderly => Quiet) /\ [Next]_vars => (Orderly => Quiet)'
  <2>1. UNCHANGED vars /\ (Orderly => Quiet) => (Orderly => Quiet)'
    BY DEF vars, Orderly, Quiet, Keeps, Owns, Busy, setting, runRows, locks, outcome
  <2>2. Next /\ Orderly' => Orderly
    BY <1>2 DEF Next, Orderly
  <2>3. QED
    BY <2>1, <2>2, QuietStep
<1>4. QED
  BY <1>3, QuietInit, CourseAlways, OwnedAlways, PTL DEF Spec

\* NothingLeftBehind: when all executors of an orderly history have ended,
\* every run has an end and no executor's lock is left on the unit, whatever
\* the order in which executors got in each other's way.
THEOREM ExecutorsCleanUp == Spec => []NothingLeftBehind
<1>1. (Orderly => Quiet) => NothingLeftBehind
  <2> SUFFICES ASSUME Quiet, \A e \in Execs : pc[e] \in {"idle", "done"}
               PROVE  /\ \A r \in Runs : status[r] \in {"none", "planned", "applied", "errored"}
                      /\ lock \in {NoLock, User}
    BY DEF NothingLeftBehind, Orderly
  <2>1. \A e \in Execs : ~Keeps(e) /\ ~Busy(e)
    BY DEF Keeps, Owns, Busy
  <2>2. QED
    BY <2>1 DEF Quiet, Ends
<1>2. QED
  BY <1>1, QuietAlways, PTL
=============================================================================
