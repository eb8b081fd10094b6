------------------------------ MODULE UnitStore ------------------------------
(***************************************************************************)
(* One unit (terraform state) of statesman: its row in the database, its   *)
(* object, lock and versions in the blob store, and the calls of           *)
(* UnitRepository, which go through both.                                  *)
(*                                                                         *)
(* The blob store is S3 ("s3"), where every request is a step of its own,  *)
(* or the map of the demo server ("mem"), whose methods hold a mutex.  A   *)
(* process has one call under way; the modules that extend this one make   *)
(* the calls (Call) and take their answers (Answered).                     *)
(***************************************************************************)
EXTENDS Integers, FiniteSets

CONSTANTS Procs,            \* processes that call the repository
          Stores,           \* the blob stores to look at
          LockIDs, NoLock,  \* IDs of locks
          MaxWrites,        \* bound: contents that are uploaded
          MaxVersions,      \* OPENTACO_MAX_VERSIONS
          Faults            \* "db", "s3": queries, requests fail; "crash": the server
                            \* restarts (one kind in a history); "none"

ASSUME StoresAssumption == Stores \subseteq {"mem", "s3"}
ASSUME LocksAssumption == NoLock \notin LockIDs
ASSUME BoundsAssumption == MaxWrites \in Nat /\ MaxVersions \in Nat \ {0}
ASSUME FaultAssumption == Faults \subseteq {"none", "db", "s3", "crash"}

Contents == 0..MaxWrites     \* 0 is what Create stores
NoContent == -1
Locks == LockIDs \cup {NoLock}
Calls == {"none", "lock", "unlock", "upload", "restore", "delete"}
CallPCs == {"idle", "mem", "head", "headLock", "putLock", "getLock", "deleteLock", "find",
            "readLock", "archive", "prune", "put", "copy", "deleteObject", "deleteObjectLock",
            "saveRow", "rowRead", "answered"}

\* Calls that overlapped: two that change the lock, any two; a GetLock that
\* failed and counted as no lock; a call that ended before it saved the row;
\* an upload under the lock ID another client was given.
Excuses == {"lockRace", "race", "blind", "cut", "borrowed"}
LockCalls == {"lock", "unlock", "delete"}

VARIABLES store, fault,    \* the blob store the server was started with, what may fail
          life, rowLock,   \* the row of the unit: "new" before, "gone" after it
          content, lock,   \* the object and the lock, where there are any
          versions, clock, \* the archived contents, each with its time
          creating,        \* the goroutine of Create
          op, arg, data, pc, ans, \* the calls: lock ID and content given
          seen,            \* what the store's guarantees do not cover, once it happened
          pruned           \* contents cleanupOldVersions has deleted

unit == <<store, fault, life, rowLock, content, lock, versions, clock, creating>>
calls == <<op, arg, data, pc, ans>>
storeVars == <<unit, calls, seen, pruned>>

StoreTypeOK ==
  /\ store \in Stores /\ fault \in Faults
  /\ life \in {"new", "live", "gone"} /\ rowLock \in Locks
  /\ content \in Contents \cup {NoContent} /\ lock \in Locks
  /\ versions \subseteq Nat \X Contents /\ clock \in Nat
  /\ creating \in {"none", "begin", "put"}
  /\ op \in [Procs -> Calls] /\ arg \in [Procs -> Locks]
  /\ data \in [Procs -> Nat] /\ pc \in [Procs -> CallPCs]
  /\ ans \in [Procs -> {"ok", "notFound", "conflict", "error"}]
  /\ seen \subseteq Excuses /\ pruned \subseteq Contents
  /\ \A p \in Procs : pc[p] = "idle" <=> op[p] = "none"
  /\ \A v, w \in versions : v[1] <= clock /\ (v[1] = w[1] => v = w)

StoreInit ==
  /\ store \in Stores /\ fault \in Faults
  /\ store = "mem" => fault \in {"none", "db"}
  /\ life = "new" /\ rowLock = NoLock
  /\ content = NoContent /\ lock = NoLock
  /\ versions = {} /\ clock = 0 /\ creating = "none"
  /\ op = [p \in Procs |-> "none"] /\ arg = [p \in Procs |-> NoLock]
  /\ data = [p \in Procs |-> 0] /\ pc = [p \in Procs |-> "idle"]
  /\ ans = [p \in Procs |-> "ok"]
  /\ seen = {} /\ pruned = {}

-----------------------------------------------------------------------------
(* Calls and answers                                                       *)

Busy(p) == pc[p] \notin {"idle", "answered"}

\* Where a call goes on once it has found the row of the unit.
FirstStep(o) ==
  IF store = "mem" THEN "mem"
  ELSE CASE o = "unlock" -> "getLock"
         [] o = "restore" -> "find"
         [] OTHER -> "head"

Overlaps(p, o) ==
  LET others == {q \in Procs \ {p} : Busy(q)}
  IN  (IF others = {} THEN {} ELSE {"race"})
        \cup (IF o \in LockCalls /\ \E q \in others : op[q] \in LockCalls
              THEN {"lockRace"} ELSE {})

\* The call o of the repository, with lock ID id and content (of restore: the
\* time of the version) c, has read the row.
Call(p, o, id, c) ==
  /\ pc[p] = "idle"
  /\ op' = [op EXCEPT ![p] = o]
  /\ arg' = [arg EXCEPT ![p] = id]
  /\ data' = [data EXCEPT ![p] = c]
  /\ pc' = [pc EXCEPT ![p] = IF life = "live" THEN FirstStep(o) ELSE "answered"]
  /\ ans' = [ans EXCEPT ![p] = IF life = "live" THEN "ok" ELSE "notFound"]
  /\ seen' = seen \cup Overlaps(p, o)
  /\ UNCHANGED <<unit, pruned>>

\* A handler that was given no ID reads the one in the row (GetLock) and makes
\* the call with it later; there is nothing to unlock when the row has none.
\* The client thinks it has the lock id.
CallWithRowLock(p, o, id, c) ==
  /\ pc[p] = "idle" /\ life = "live"
  /\ op' = [op EXCEPT ![p] = o]
  /\ arg' = [arg EXCEPT ![p] = rowLock]
  /\ data' = [data EXCEPT ![p] = c]
  /\ pc' = [pc EXCEPT ![p] = IF o = "unlock" /\ rowLock = NoLock THEN "answered" ELSE "rowRead"]
  /\ ans' = [ans EXCEPT ![p] = "ok"]
  /\ seen' = seen \cup Overlaps(p, o)
               \cup (IF o = "upload" /\ rowLock \notin {id, NoLock} THEN {"borrowed"} ELSE {})
  /\ UNCHANGED <<unit, pruned>>

Goto(p, l) == pc' = [pc EXCEPT ![p] = l] /\ UNCHANGED <<op, arg, data, ans>>

Answer(p, a) ==
  /\ pc' = [pc EXCEPT ![p] = "answered"]
  /\ ans' = [ans EXCEPT ![p] = a]
  /\ UNCHANGED <<op, arg, data>>

FindRow(p) ==
  /\ pc[p] = "rowRead"
  /\ IF life = "live" THEN Goto(p, FirstStep(op[p])) ELSE Answer(p, "notFound")
  /\ UNCHANGED <<unit, seen, pruned>>

\* The caller has taken the answer.
Answered(p) ==
  /\ pc[p] = "answered"
  /\ op' = [op EXCEPT ![p] = "none"]
  /\ arg' = [arg EXCEPT ![p] = NoLock]
  /\ data' = [data EXCEPT ![p] = 0]
  /\ pc' = [pc EXCEPT ![p] = "idle"]
  /\ ans' = [ans EXCEPT ![p] = "ok"]

\* A slip: a caller that gives no ID is let through.
RefusedWithID(id) == id # NoLock /\ lock # NoLock /\ lock # id

\* Of a content or a restore with lock ID id.
Refused(id) == lock # NoLock /\ lock # id

\* The versions cleanupOldVersions keeps of S, and deletes.
Oldest(S) == {v \in S : Cardinality({w \in S : w[1] > v[1]}) >= MaxVersions}

-----------------------------------------------------------------------------
(* The blob store in memory                                                *)

\* A slip: a unit may be locked twice.
MemLockAgain(p) ==
  /\ IF content = NoContent
     THEN Answer(p, "notFound") /\ UNCHANGED lock
     ELSE lock' = arg[p] /\ Goto(p, "saveRow")
  /\ UNCHANGED <<store, fault, life, rowLock, content, versions, clock, creating, seen, pruned>>

MemLock(p) ==
  /\ IF content = NoContent
     THEN Answer(p, "notFound") /\ UNCHANGED lock
     ELSE IF lock # NoLock
     THEN Answer(p, "conflict") /\ UNCHANGED lock
     ELSE lock' = arg[p] /\ Goto(p, "saveRow")
  /\ UNCHANGED <<store, fault, life, rowLock, content, versions, clock, creating, seen, pruned>>

MemUnlock(p) ==
  /\ IF content # NoContent /\ lock # NoLock /\ lock = arg[p]
     THEN lock' = NoLock /\ Goto(p, "saveRow")
     ELSE /\ Answer(p, IF content = NoContent THEN "notFound"
                       ELSE IF lock = NoLock THEN "error" ELSE "conflict")
          /\ UNCHANGED lock
  /\ UNCHANGED <<store, fault, life, rowLock, content, versions, clock, creating, seen, pruned>>

\* The current content, when it is not empty, becomes a version.
MemArchive ==
  IF content <= 0
  THEN UNCHANGED <<versions, clock, pruned>>
  ELSE LET all == versions \cup {<<clock + 1, content>>}
       IN  /\ versions' = all \ Oldest(all)
           /\ pruned' = pruned \cup {v[2] : v \in Oldest(all)}
           /\ clock' = clock + 1

\* Upload makes the unit when it is not there yet.
MemUpload(p) ==
  /\ IF Refused(arg[p])
     THEN Answer(p, "conflict") /\ UNCHANGED <<content, versions, clock, pruned>>
     ELSE MemArchive /\ content' = data[p] /\ Goto(p, "saveRow")
  /\ UNCHANGED <<store, fault, life, rowLock, lock, creating, seen>>

MemRestore(p) ==
  /\ IF content = NoContent \/ Refused(arg[p]) \/ \A v \in versions : v[1] # data[p]
     THEN /\ Answer(p, IF content = NoContent THEN "notFound"
                       ELSE IF Refused(arg[p]) THEN "conflict" ELSE "error")
          /\ UNCHANGED <<content, versions, clock, pruned>>
     ELSE /\ MemArchive
          /\ \E v \in versions : v[1] = data[p] /\ content' = v[2]
          /\ Answer(p, "ok")
  /\ UNCHANGED <<store, fault, life, rowLock, lock, creating, seen>>

MemDelete(p) ==
  /\ content' = NoContent /\ lock' = NoLock /\ versions' = {}
  /\ Goto(p, "saveRow")
  /\ UNCHANGED <<store, fault, life, rowLock, clock, creating, seen, pruned>>

MemStep(p) ==
  /\ pc[p] = "mem"
  /\ \/ op[p] = "lock" /\ MemLock(p)
     \/ op[p] = "unlock" /\ MemUnlock(p)
     \/ op[p] = "upload" /\ MemUpload(p)
     \/ op[p] = "restore" /\ MemRestore(p)
     \/ op[p] = "delete" /\ MemDelete(p)

-----------------------------------------------------------------------------
(* The blob store in S3, request by request                                *)

Keep(vars) == UNCHANGED vars /\ UNCHANGED <<store, fault, life, rowLock, creating, seen>>

S3Head(p) ==
  /\ pc[p] = "head"
  /\ IF content = NoContent
     THEN IF op[p] = "delete" THEN Goto(p, "saveRow") ELSE Answer(p, "notFound")
     ELSE Goto(p, CASE op[p] = "lock" -> "headLock"
                    [] op[p] = "delete" -> "deleteObject"
                    [] OTHER -> "readLock")
  /\ Keep(<<content, lock, versions, clock, pruned>>)

S3HeadLock(p) ==
  /\ pc[p] = "headLock"
  /\ IF lock # NoLock THEN Answer(p, "conflict") ELSE Goto(p, "putLock")
  /\ Keep(<<content, lock, versions, clock, pruned>>)

S3PutLock(p) ==
  /\ pc[p] = "putLock"
  /\ lock' = arg[p]
  /\ Goto(p, "saveRow")
  /\ Keep(<<content, versions, clock, pruned>>)

S3GetLock(p) ==
  /\ pc[p] = "getLock"
  /\ IF lock = arg[p] /\ lock # NoLock
     THEN Goto(p, "deleteLock")
     ELSE Answer(p, IF lock = NoLock THEN "error" ELSE "conflict")
  /\ Keep(<<content, lock, versions, clock, pruned>>)

S3DeleteLock(p) ==
  /\ pc[p] = "deleteLock"
  /\ lock' = NoLock
  /\ Goto(p, "saveRow")
  /\ Keep(<<content, versions, clock, pruned>>)

S3Find(p) ==
  /\ pc[p] = "find"
  /\ IF \E v \in versions : v[1] = data[p] THEN Goto(p, "head") ELSE Answer(p, "error")
  /\ Keep(<<content, lock, versions, clock, pruned>>)

\* Get drops the error of GetLock: the unit then counts as unlocked.
S3ReadLock(p) ==
  /\ pc[p] = "readLock"
  /\ \/ Refused(arg[p]) /\ Answer(p, "conflict") /\ UNCHANGED seen
     \/ ~Refused(arg[p]) /\ Goto(p, "archive") /\ UNCHANGED seen
     \/ fault = "s3" /\ Goto(p, "archive") /\ seen' = seen \cup {"blind"}
  /\ UNCHANGED <<unit, pruned>>

\* A slip: two versions may have one time.
S3ArchiveNow(p) ==
  /\ pc[p] = "archive" /\ content # NoContent
  /\ versions' = versions \cup {<<clock, content>>}
  /\ Goto(p, IF op[p] = "upload" THEN "prune" ELSE "copy")
  /\ Keep(<<content, lock, clock, pruned>>)

\* The object is copied; the empty state of Create is an object like others.
S3Archive(p) ==
  /\ pc[p] = "archive"
  /\ IF content = NoContent
     THEN Answer(p, "error") /\ UNCHANGED <<versions, clock>>
     ELSE /\ versions' = versions \cup {<<clock + 1, content>>}
          /\ clock' = clock + 1
          /\ Goto(p, IF op[p] = "upload" THEN "prune" ELSE "copy")
  /\ Keep(<<content, lock, pruned>>)

\* A slip: the archive keeps one version less than the limit.
S3PruneOne(p) ==
  /\ pc[p] = "prune"
  /\ LET D == {v \in versions : Cardinality({w \in versions : w[1] > v[1]}) >= MaxVersions - 1}
     IN  versions' = versions \ D
  /\ Goto(p, "put")
  /\ Keep(<<content, lock, clock, pruned>>)

\* cleanupOldVersions goes on past a deletion that fails, and Upload past it.
S3Prune(p) ==
  /\ pc[p] = "prune"
  /\ \E D \in SUBSET Oldest(versions) :
       /\ fault # "s3" => D = Oldest(versions)
       /\ versions' = versions \ D
       /\ pruned' = pruned \cup {v[2] : v \in D}
  /\ Goto(p, "put")
  /\ Keep(<<content, lock, clock>>)

S3Put(p) ==
  /\ pc[p] = "put"
  /\ content' = data[p]
  /\ Goto(p, "saveRow")
  /\ Keep(<<lock, versions, clock, pruned>>)

\* CopyObject of a version that cleanupOldVersions may have deleted.
S3Copy(p) ==
  /\ pc[p] = "copy"
  /\ \/ \E v \in versions : v[1] = data[p] /\ content' = v[2] /\ Answer(p, "ok")
     \/ (\A v \in versions : v[1] # data[p]) /\ Answer(p, "error") /\ UNCHANGED content
  /\ Keep(<<lock, versions, clock, pruned>>)

\* Both deletions are best effort.
S3Delete(p) ==
  \/ /\ pc[p] = "deleteObject" /\ Goto(p, "deleteObjectLock")
     /\ \/ content' = NoContent
        \/ fault = "s3" /\ UNCHANGED content
     /\ Keep(<<lock, versions, clock, pruned>>)
  \/ /\ pc[p] = "deleteObjectLock" /\ Goto(p, "saveRow")
     /\ \/ lock' = NoLock
        \/ fault = "s3" /\ UNCHANGED lock
     /\ Keep(<<content, versions, clock, pruned>>)

\* A request the call cannot go on without fails.
S3Fails(p) ==
  /\ fault = "s3"
  /\ pc[p] \in CallPCs \ {"idle", "mem", "readLock", "prune", "deleteObject",
                          "deleteObjectLock", "saveRow", "answered"}
  /\ Answer(p, "error")
  /\ UNCHANGED <<unit, seen, pruned>>

S3Step(p) ==
  \/ S3Head(p) \/ S3HeadLock(p) \/ S3PutLock(p) \/ S3GetLock(p) \/ S3DeleteLock(p)
  \/ S3Find(p) \/ S3ReadLock(p) \/ S3Archive(p) \/ S3Prune(p) \/ S3Put(p) \/ S3Copy(p)
  \/ S3Delete(p) \/ S3Fails(p)

-----------------------------------------------------------------------------
(* The row                                                                 *)

\* Create inserts the row and leaves the blob to a goroutine.
CreateRow ==
  /\ life = "new"
  /\ life' = "live" /\ creating' = "begin"
  /\ UNCHANGED <<store, fault, rowLock, content, lock, versions, clock, seen, pruned>>

\* The goroutine: the store in memory makes an empty state in one step, S3
\* after a HEAD; a failure is only logged.
CreateBlob ==
  /\ \/ creating = "begin" /\ store = "mem" /\ creating' = "none"
        /\ content' = IF content = NoContent THEN 0 ELSE content
     \/ creating = "begin" /\ store = "s3" /\ UNCHANGED content
        /\ creating' = IF content = NoContent THEN "put" ELSE "none"
     \/ creating = "put" /\ content' = 0 /\ creating' = "none"
     \/ creating # "none" /\ fault = "s3" /\ store = "s3"
        /\ creating' = "none" /\ UNCHANGED content
  /\ UNCHANGED <<store, fault, life, rowLock, lock, versions, clock, seen, pruned>>

\* A slip: the row keeps the lock that was released.
SaveLocked(p) ==
  /\ pc[p] = "saveRow"
  /\ rowLock' = IF life = "live" /\ op[p] = "lock" THEN arg[p] ELSE rowLock
  /\ life' = IF op[p] = "delete" THEN "gone" ELSE life
  /\ Answer(p, "ok")
  /\ UNCHANGED <<store, fault, content, lock, versions, clock, creating, seen, pruned>>

\* Updates of a row that was deleted meanwhile change nothing and succeed.
SaveRow(p) ==
  /\ pc[p] = "saveRow"
  /\ \/ /\ rowLock' = IF life # "live" THEN rowLock
                      ELSE CASE op[p] = "lock" -> arg[p]
                             [] op[p] \in {"unlock", "delete"} -> NoLock
                             [] OTHER -> rowLock
        /\ life' = IF op[p] = "delete" THEN "gone" ELSE life
        /\ Answer(p, "ok")
        /\ UNCHANGED seen
     \/ /\ fault = "db" /\ Answer(p, "error")
        /\ seen' = seen \cup {"cut"}
        /\ UNCHANGED <<rowLock, life>>
  /\ UNCHANGED <<store, fault, content, lock, versions, clock, creating, pruned>>

StoreStep(p) == FindRow(p) \/ MemStep(p) \/ S3Step(p) \/ SaveRow(p)

\* The server restarts: calls end where they are.  (The store in memory would
\* be empty: another history.)
Restart ==
  /\ fault = "crash" /\ store = "s3"
  /\ op' = [p \in Procs |-> "none"] /\ arg' = [p \in Procs |-> NoLock]
  /\ data' = [p \in Procs |-> 0] /\ pc' = [p \in Procs |-> "idle"]
  /\ ans' = [p \in Procs |-> "ok"]
  /\ creating' = "none"
  /\ seen' = IF \E p \in Procs : pc[p] = "saveRow" THEN seen \cup {"cut"} ELSE seen
  /\ UNCHANGED <<store, fault, life, rowLock, content, lock, versions, clock, pruned>>
=============================================================================
