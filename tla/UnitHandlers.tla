---------------------------- MODULE UnitHandlers ----------------------------
(***************************************************************************)
(* The handlers of statesman that work on one unit, and terraform and taco *)
(* clients that call them.  A client is told the ID of the lock it takes;  *)
(* the HTTP and unit handlers are given that ID with an upload or an       *)
(* unlock, the TFE and S3 handlers read it from the row of the unit.       *)
(***************************************************************************)
EXTENDS UnitStore

CONSTANT MaxRestores       \* bound: versions restored

ASSUME RestoresAssumption == MaxRestores \in Nat

VARIABLES holds,      \* the lock ID a client was told it has
          base,       \* the content it has last read under that lock
          issued,     \* lock IDs in use: every LOCK has a fresh one
          written,    \* contents uploaded so far
          restored,   \* versions restored so far
          unlocking,  \* IDs somebody has asked to unlock
          deletion,   \* somebody has asked to delete the unit
          stored      \* contents the object has had

clients == <<holds, base, issued, written, restored, unlocking, deletion, stored>>
vars == <<storeVars, clients>>

TypeOK ==
  /\ StoreTypeOK
  /\ holds \in [Procs -> Locks] /\ base \in [Procs -> Contents \cup {NoContent}]
  /\ issued \subseteq LockIDs /\ written \in Contents /\ restored \in Nat
  /\ unlocking \subseteq LockIDs /\ deletion \in BOOLEAN /\ stored \subseteq Contents
  /\ \A p \in Procs : holds[p] # NoLock => holds[p] \in issued
  /\ lock \in issued \cup {NoLock} /\ rowLock \in issued \cup {NoLock}

Init ==
  /\ StoreInit
  /\ holds = [p \in Procs |-> NoLock] /\ base = [p \in Procs |-> NoContent]
  /\ issued = {} /\ written = 0 /\ restored = 0 /\ unlocking = {} /\ deletion = FALSE /\ stored = {}

-----------------------------------------------------------------------------
(* Requests                                                                *)

CreateUnit ==
  /\ CreateRow
  /\ UNCHANGED <<calls, clients>>

\* Nobody asks whether the unit is locked.
DeleteUnit(p) ==
  /\ Call(p, "delete", NoLock, 0)
  /\ deletion' = TRUE
  /\ UNCHANGED <<holds, base, issued, written, restored, unlocking, stored>>

\* GET of the state by the holder of the lock (other readers leave no trace).
DownloadUnit(p) ==
  /\ holds[p] # NoLock
  /\ pc[p] = "idle" /\ life = "live" /\ content # NoContent
  /\ base' = [base EXCEPT ![p] = content]
  /\ UNCHANGED <<storeVars, holds, issued, written, restored, unlocking, deletion, stored>>

\* The lock is asked for under a fresh ID, of the client or of the handler.
TakeLock(p) ==
  /\ holds[p] = NoLock
  /\ \E id \in LockIDs \ issued :
       Call(p, "lock", id, 0) /\ issued' = issued \cup {id}
  /\ base' = [base EXCEPT ![p] = NoContent]
  /\ UNCHANGED <<holds, written, restored, unlocking, deletion, stored>>

LockUnit(p) == TakeLock(p)         \* of the unit API
HandleLock(p) == TakeLock(p)       \* LOCK of the HTTP backend
PutLockFile(p) == TakeLock(p)      \* of the S3 backend
LockWorkspace(p) == TakeLock(p)    \* of a TFE workspace

\* The client names the lock it has, if any.
Upload(p) ==
  /\ written < MaxWrites
  /\ Call(p, "upload", holds[p], written + 1)
  /\ written' = written + 1
  /\ UNCHANGED <<holds, base, issued, restored, unlocking, deletion, stored>>

\* A client uploads under the ID found in the row: its own, another's, or none.
UploadUnderRow(p) ==
  /\ written < MaxWrites
  /\ CallWithRowLock(p, "upload", holds[p], written + 1)
  /\ written' = written + 1
  /\ UNCHANGED <<holds, base, issued, restored, unlocking, deletion, stored>>

UploadUnit(p) == Upload(p)
UpdateState(p) == Upload(p)                     \* POST of the HTTP backend
PutState(p) == UploadUnderRow(p)                \* PUT of the S3 backend
UploadStateVersion(p) == UploadUnderRow(p)      \* by the signed URL of CreateStateVersion
CreateStateVersionDirect(p) == UploadUnderRow(p)

\* The client names the lock it has.
Release(p) ==
  /\ holds[p] # NoLock
  /\ Call(p, "unlock", holds[p], 0)
  /\ holds' = [holds EXCEPT ![p] = NoLock]
  /\ base' = [base EXCEPT ![p] = NoContent]
  /\ unlocking' = unlocking \cup {holds[p]}
  /\ UNCHANGED <<issued, written, restored, deletion, stored>>

\* The lock the row tells is released: the client's own or another's.
ReleaseRow(p) ==
  /\ CallWithRowLock(p, "unlock", holds[p], 0)
  /\ holds' = [holds EXCEPT ![p] = NoLock]
  /\ base' = [base EXCEPT ![p] = NoContent]
  /\ unlocking' = unlocking \cup ({holds[p], rowLock} \ {NoLock})
  /\ UNCHANGED <<issued, written, restored, deletion, stored>>

UnlockUnit(p) == Release(p)
HandleUnlock(p) == Release(p)                   \* UNLOCK of the HTTP backend
DeleteLockFile(p) == ReleaseRow(p)              \* of the S3 backend
UnlockWorkspace(p) == ReleaseRow(p)

\* A lock ID that is given has to be the one of the row.
ForceUnlockWorkspace(p) == holds[p] \in {NoLock, rowLock} /\ ReleaseRow(p)

RestoreVersion(p) ==
  /\ restored < MaxRestores
  /\ restored' = restored + 1
  /\ \E v \in versions : Call(p, "restore", holds[p], v[1])
  /\ base' = [base EXCEPT ![p] = NoContent]
  /\ UNCHANGED <<holds, issued, written, unlocking, deletion, stored>>

\* The client takes the answer.
Take(p) ==
  /\ Answered(p)
  /\ holds' = [holds EXCEPT ![p] = IF op[p] = "lock" /\ ans[p] = "ok" THEN arg[p] ELSE @]
  /\ base' = [base EXCEPT ![p] =
                IF op[p] # "upload" THEN @
                ELSE IF ans[p] = "ok" /\ holds[p] # NoLock THEN data[p] ELSE NoContent]
  /\ UNCHANGED <<unit, seen, pruned, issued, written, restored, unlocking, deletion, stored>>

-----------------------------------------------------------------------------
(* The system                                                              *)

\* A step of the store; the history notes what the object has held.
Serve(p) ==
  /\ StoreStep(p)
  /\ stored' = stored \cup ({content'} \ {NoContent})
  /\ UNCHANGED <<holds, base, issued, written, restored, unlocking, deletion>>

CreateInBackground ==
  /\ CreateBlob
  /\ stored' = stored \cup ({content'} \ {NoContent})
  /\ UNCHANGED <<calls, holds, base, issued, written, restored, unlocking, deletion>>

Crash ==
  /\ Restart
  /\ base' = [p \in Procs |-> IF pc[p] = "idle" THEN base[p] ELSE NoContent]
  /\ UNCHANGED <<holds, issued, written, restored, unlocking, deletion, stored>>

\* Bound: nothing is asked of a unit after its deletion.
Request(p) ==
  /\ ~deletion
  /\ \/ DeleteUnit(p) \/ DownloadUnit(p) \/ RestoreVersion(p)
     \/ LockUnit(p) \/ HandleLock(p) \/ PutLockFile(p) \/ LockWorkspace(p)
     \/ UploadUnit(p) \/ UpdateState(p) \/ PutState(p) \/ UploadStateVersion(p)
     \/ CreateStateVersionDirect(p)
     \/ UnlockUnit(p) \/ HandleUnlock(p) \/ DeleteLockFile(p) \/ UnlockWorkspace(p)
     \/ ForceUnlockWorkspace(p)

Next ==
  \/ CreateUnit \/ CreateInBackground \/ Crash
  \/ \E p \in Procs : Request(p) \/ Serve(p) \/ Take(p)

Spec == Init /\ [][Next]_vars

-----------------------------------------------------------------------------
(* Properties                                                              *)

Guaranteed(excuses) == store = "mem" \/ seen \cap excuses = {}

\* A client that was told it has the lock has it until somebody asks to unlock
\* that ID or to delete the unit; over S3, whose lock is a read and a write,
\* unless two calls that change the lock overlapped (Lock, Unlock and Delete
\* of both stores).
LockStands ==
  ~deletion /\ Guaranteed({"lockRace"}) =>
    \A p \in Procs : holds[p] # NoLock /\ holds[p] \notin unlocking => lock = holds[p]

\* The holder of the lock overwrites the content it has read, never another's:
\* the lock check of Upload keeps every other client out, unless a client
\* was lent the ID of the row (UploadStateVersion), or over S3 calls
\* overlapped or the lock could not be read.
NoLostUpdate ==
  [][\A p \in Procs :
       /\ op[p] = "upload" /\ content' # content /\ pc[p] # pc'[p]
       /\ holds[p] = arg[p] /\ holds[p] \notin unlocking \cup {NoLock}
       /\ base[p] # NoContent
       /\ "borrowed" \notin seen /\ ~deletion /\ Guaranteed({"race", "blind"})
       => content = base[p]]_vars

\* Whatever the state has been is still there: as the current state, or as a
\* version, unless it is among the oldest that cleanupOldVersions deletes; the
\* store in memory does not keep the empty state of Create (the archiving
\* steps of Upload and RestoreVersion).
HistoryKept ==
  ~deletion /\ Guaranteed({"race"}) =>
    \A c \in stored :
      \/ c = content \/ c \in pruned
      \/ c = 0 /\ store = "mem"
      \/ \E v \in versions : v[2] = c

\* When no call is under way the row tells the lock of the blob store, or the
\* TFE handlers answer for a lock that is not there: unless calls overlapped or
\* one ended in between (Lock and Unlock of the repository).
RowTellsLock ==
  /\ ~deletion
  /\ \A p \in Procs : ~Busy(p)
  /\ seen \cap {"lockRace", "cut"} = {}
  => rowLock = lock
=============================================================================
