-------------------------- MODULE UnitHandlersProofs --------------------------
(***************************************************************************)
(* What the handlers of statesman keep true of a unit, for any number of   *)
(* clients, lock IDs, uploads and versions, over both stores and whatever  *)
(* fails: the types (Typed), who may overlap (Alone), whose the lock is    *)
(* (Stands, Once), what the row tells (RowTells), what becomes of the      *)
(* contents (History) and what a client that holds the lock has read       *)
(* (Fresh).                                                                *)
(***************************************************************************)
EXTENDS UnitHandlers, TLAPS

S3Stages == {"head", "headLock", "putLock", "getLock", "deleteLock", "find", "readLock",
             "archive", "prune", "put", "copy", "deleteObject", "deleteObjectLock"}

\* The stages a call goes through.
StageOf(p) ==
  /\ op[p] = "lock" => pc[p] \in {"mem", "head", "headLock", "putLock", "saveRow", "answered"}
  /\ op[p] = "unlock" => pc[p] \in {"rowRead", "mem", "getLock", "deleteLock", "saveRow",
                                    "answered"}
  /\ op[p] = "upload" => pc[p] \in {"rowRead", "mem", "head", "readLock", "archive", "prune",
                                    "put", "saveRow", "answered"}
  /\ op[p] = "restore" => pc[p] \in {"mem", "find", "head", "readLock", "archive", "copy",
                                     "answered"}
  /\ op[p] = "delete" => pc[p] \in {"mem", "head", "deleteObject", "deleteObjectLock",
                                    "saveRow", "answered"}
  /\ pc[p] = "mem" => store = "mem"
  /\ pc[p] \in S3Stages => store = "s3"
  /\ Busy(p) => life # "new"

\* What a call was given, and what its client has.
GivenTo(p) ==
  /\ arg[p] \in issued \cup {NoLock}
  /\ op[p] = "lock" => arg[p] # NoLock /\ holds[p] = NoLock /\ base[p] = NoContent
  /\ op[p] = "unlock" => arg[p] \in unlocking \cup {NoLock} /\ holds[p] = NoLock
  /\ op[p] = "upload" => data[p] \in Contents
  /\ op[p] = "upload" /\ "borrowed" \notin seen => arg[p] \in {holds[p], NoLock}
  /\ op[p] = "restore" => arg[p] = holds[p] /\ base[p] = NoContent
  /\ op[p] = "delete" => deletion

Typed ==
  /\ TypeOK
  /\ \A p \in Procs : StageOf(p) /\ GivenTo(p)
  /\ creating # "none" => life # "new"
  /\ creating = "put" => store = "s3"
  /\ life = "gone" => deletion

-----------------------------------------------------------------------------
(* What the steps do                                                       *)

\* A step leaves the calls and the clients other than p as they are.
OthersStay(p) ==
  \A q \in Procs \ {p} :
    /\ op'[q] = op[q] /\ arg'[q] = arg[q] /\ data'[q] = data[q] /\ pc'[q] = pc[q]
    /\ ans'[q] = ans[q] /\ holds'[q] = holds[q] /\ base'[q] = base[q]

\* A request of p begins a call.
Asked(p) ==
  /\ ~deletion /\ OthersStay(p) /\ UNCHANGED <<unit, pruned, stored>>
  /\ op' \in [Procs -> Calls] /\ arg' \in [Procs -> Locks] /\ data' \in [Procs -> Nat]
  /\ pc' \in [Procs -> CallPCs] /\ ans' \in [Procs -> {"ok", "notFound", "conflict", "error"}]
  /\ pc[p] = "idle" /\ pc'[p] # "idle" /\ op'[p] # "none"
  /\ StageOf(p)' /\ pc'[p] \in {"rowRead", "mem", "head", "getLock", "find", "answered"}
  /\ pc'[p] = "answered" => ans'[p] # "ok" \/ op'[p] = "unlock"
  /\ seen \cup Overlaps(p, op'[p]) \subseteq seen' /\ seen' \subseteq Excuses
  /\ seen' \subseteq seen \cup Overlaps(p, op'[p]) \cup {"borrowed"}

\* What p is left with and what its call is given.
AskedWith(p) ==
  /\ holds' \in [Procs -> Locks] /\ base' \in [Procs -> Contents \cup {NoContent}]
  /\ issued \subseteq issued' /\ issued' \subseteq LockIDs
  /\ unlocking \subseteq unlocking' /\ unlocking' \subseteq LockIDs
  /\ written' \in Contents /\ restored' \in Nat /\ deletion' \in BOOLEAN
  /\ GivenTo(p)'
  /\ op'[p] = "lock" => arg'[p] \notin issued
  /\ holds'[p] \in {holds[p], NoLock} /\ base'[p] \in {base[p], NoContent}
  /\ op'[p] # "unlock" => holds'[p] = holds[p]
  /\ op'[p] = "lock" \/ op'[p] = "restore" => base'[p] = NoContent
  /\ op'[p] # "delete" => deletion' = deletion

\* A request with a lock ID of its own begins a call of the repository.
LEMMA CallBegins ==
  ASSUME Typed, ~deletion, NEW p \in Procs, NEW o \in Calls \ {"none"}, NEW id \in Locks,
         NEW c \in Nat, Call(p, o, id, c), UNCHANGED stored,
         \A q \in Procs \ {p} : holds'[q] = holds[q] /\ base'[q] = base[q]
  PROVE  Asked(p) /\ op'[p] = o /\ arg'[p] = id /\ data'[p] = c /\ seen' = seen \cup Overlaps(p, o)
<1> USE DEF Typed, TypeOK, StoreTypeOK
<1>1. /\ op'[p] = o /\ arg'[p] = id /\ data'[p] = c
      /\ pc'[p] = IF life = "live" THEN FirstStep(o) ELSE "answered"
      /\ ans'[p] = IF life = "live" THEN "ok" ELSE "notFound"
      /\ \A q \in Procs \ {p} : /\ op'[q] = op[q] /\ arg'[q] = arg[q] /\ data'[q] = data[q]
                                /\ pc'[q] = pc[q] /\ ans'[q] = ans[q]
  BY DEF Call
<1>2. /\ FirstStep(o) \in {"mem", "getLock", "find", "head"}
      /\ FirstStep(o) = "mem" <=> store = "mem"
      /\ FirstStep(o) = "getLock" => o = "unlock"
      /\ FirstStep(o) = "find" => o = "restore"
      /\ o = "unlock" => FirstStep(o) # "head" /\ FirstStep(o) # "find"
  BY DEF FirstStep
<1>3. seen' = seen \cup Overlaps(p, o) /\ Overlaps(p, o) \subseteq Excuses
  BY DEF Call, Overlaps, Excuses
<1>4. /\ op' \in [Procs -> Calls] /\ arg' \in [Procs -> Locks] /\ data' \in [Procs -> Nat]
      /\ ans' \in [Procs -> {"ok", "notFound", "conflict", "error"}]
  BY DEF Call
<1>5. pc' \in [Procs -> CallPCs] /\ pc[p] = "idle" /\ UNCHANGED <<unit, pruned>>
  BY <1>2 DEF Call, CallPCs
<1>6. StageOf(p)'
  BY <1>1, <1>2, <1>5, StoresAssumption DEF StageOf, Busy, S3Stages, unit, Calls
<1>7. OthersStay(p)
  BY <1>1 DEF OthersStay
<1>8. QED
  BY <1>1, <1>2, <1>3, <1>4, <1>5, <1>6, <1>7 DEF Asked

\* A handler that takes the lock ID from the row begins a call with it.
LEMMA RowCallBegins ==
  ASSUME Typed, ~deletion, NEW p \in Procs, NEW o \in {"unlock", "upload"}, NEW id \in Locks,
         NEW c \in Nat, CallWithRowLock(p, o, id, c), UNCHANGED stored,
         \A q \in Procs \ {p} : holds'[q] = holds[q] /\ base'[q] = base[q]
  PROVE  /\ Asked(p) /\ op'[p] = o /\ arg'[p] = rowLock /\ data'[p] = c
         /\ o = "upload" /\ "borrowed" \notin seen' => rowLock \in {id, NoLock}
<1> USE DEF Typed, TypeOK, StoreTypeOK
<1>1. /\ op'[p] = o /\ arg'[p] = rowLock /\ data'[p] = c
      /\ pc'[p] = IF o = "unlock" /\ rowLock = NoLock THEN "answered" ELSE "rowRead"
      /\ ans'[p] = "ok" /\ pc[p] = "idle" /\ life = "live"
      /\ \A q \in Procs \ {p} : /\ op'[q] = op[q] /\ arg'[q] = arg[q] /\ data'[q] = data[q]
                                /\ pc'[q] = pc[q] /\ ans'[q] = ans[q]
  BY DEF CallWithRowLock, Calls
<1>2. /\ seen \cup Overlaps(p, o) \subseteq seen' /\ seen' \subseteq Excuses
      /\ seen' \subseteq seen \cup Overlaps(p, o) \cup {"borrowed"}
      /\ o = "upload" /\ "borrowed" \notin seen' => rowLock \in {id, NoLock}
  BY DEF CallWithRowLock, Overlaps, Excuses
<1>3. /\ op' \in [Procs -> Calls] /\ arg' \in [Procs -> Locks] /\ data' \in [Procs -> Nat]
      /\ pc' \in [Procs -> CallPCs] /\ UNCHANGED <<unit, pruned>>
      /\ ans' \in [Procs -> {"ok", "notFound", "conflict", "error"}]
  BY DEF CallWithRowLock, CallPCs, Calls
<1>4. StageOf(p)'
  BY <1>1, <1>3 DEF StageOf, Busy, S3Stages, unit
<1>5. OthersStay(p)
  BY <1>1 DEF OthersStay
<1>6. QED
  BY <1>1, <1>2, <1>3, <1>4, <1>5 DEF Asked

\* A request begins a call, but for a download: an upload or a version to
\* restore are given the lock of the client or of the row, an unlock one that
\* is asked to go, a lock one that nobody has.
LEMMA RequestStep ==
  ASSUME Typed, NEW p \in Procs, Request(p)
  PROVE  DownloadUnit(p) \/ (Asked(p) /\ AskedWith(p))
<1> USE DEF Typed, TypeOK, StoreTypeOK
<1>1. ~deletion
  BY DEF Request
<1>2. NoLock \in Locks /\ holds[p] \in Locks /\ rowLock \in Locks
  BY DEF Locks
<1>3. CASE DeleteUnit(p)
  <2>1. Asked(p) /\ op'[p] = "delete" /\ arg'[p] = NoLock
    BY <1>1, <1>2, <1>3, CallBegins DEF DeleteUnit, Calls
  <2>2. QED
    BY <1>1, <1>3, <2>1 DEF DeleteUnit, AskedWith, GivenTo
<1>4. CASE TakeLock(p)
  <2>1. PICK id \in LockIDs \ issued : Call(p, "lock", id, 0) /\ issued' = issued \cup {id}
    BY <1>4 DEF TakeLock
  <2>2. \A q \in Procs \ {p} : holds'[q] = holds[q] /\ base'[q] = base[q]
    BY <1>4 DEF TakeLock
  <2>3. Asked(p) /\ op'[p] = "lock" /\ arg'[p] = id
    BY <1>1, <1>4, <2>1, <2>2, CallBegins DEF TakeLock, Calls, Locks
  <2>4. base'[p] = NoContent /\ base' \in [Procs -> Contents \cup {NoContent}]
    BY <1>4 DEF TakeLock
  <2>5. id # NoLock
    BY LocksAssumption
  <2>6. QED
    BY <1>1, <1>4, <2>1, <2>3, <2>4, <2>5 DEF TakeLock, AskedWith, GivenTo
<1>5. CASE Upload(p)
  <2>1. written + 1 \in Contents /\ written + 1 \in Nat
    BY <1>5, BoundsAssumption DEF Upload, Contents
  <2> "upload" \in Calls \ {"none"}
    BY DEF Calls
  <2> /\ Call(p, "upload", holds[p], written + 1) /\ UNCHANGED stored
      /\ \A q \in Procs \ {p} : holds'[q] = holds[q] /\ base'[q] = base[q]
    BY <1>5 DEF Upload
  <2>2. Asked(p) /\ op'[p] = "upload" /\ arg'[p] = holds[p] /\ data'[p] = written + 1
    <3> HIDE DEF Typed, TypeOK, StoreTypeOK
    <3> QED
      BY <1>1, <1>2, <2>1, CallBegins
  <2>3. QED
    BY <1>1, <1>5, <2>1, <2>2 DEF Upload, AskedWith, GivenTo
<1>6. CASE UploadUnderRow(p)
  <2>1. written + 1 \in Contents /\ written + 1 \in Nat
    BY <1>6, BoundsAssumption DEF UploadUnderRow, Contents
  <2>2. /\ Asked(p) /\ op'[p] = "upload" /\ arg'[p] = rowLock /\ data'[p] = written + 1
        /\ "borrowed" \notin seen' => rowLock \in {holds[p], NoLock}
    BY <1>1, <1>2, <1>6, <2>1, RowCallBegins DEF UploadUnderRow
  <2>3. QED
    BY <1>1, <1>6, <2>1, <2>2 DEF UploadUnderRow, AskedWith, GivenTo
<1>7. CASE Release(p)
  <2>1. \A q \in Procs \ {p} : holds'[q] = holds[q] /\ base'[q] = base[q]
    BY <1>7 DEF Release
  <2>2. Asked(p) /\ op'[p] = "unlock" /\ arg'[p] = holds[p]
    <3>1. Call(p, "unlock", holds[p], 0) /\ UNCHANGED stored /\ "unlock" \in Calls \ {"none"}
      BY <1>7 DEF Release, Calls
    <3> HIDE DEF Typed, TypeOK, StoreTypeOK
    <3>2. QED
      BY <1>1, <1>2, <2>1, <3>1, CallBegins
  <2>3. /\ holds'[p] = NoLock /\ base'[p] = NoContent
        /\ holds' \in [Procs -> Locks] /\ base' \in [Procs -> Contents \cup {NoContent}]
    BY <1>2, <1>7 DEF Release
  <2>4. QED
    BY <1>1, <1>7, <2>2, <2>3 DEF Release, AskedWith, GivenTo
<1>8. CASE ReleaseRow(p)
  <2>1. \A q \in Procs \ {p} : holds'[q] = holds[q] /\ base'[q] = base[q]
    BY <1>8 DEF ReleaseRow
  <2>2. Asked(p) /\ op'[p] = "unlock" /\ arg'[p] = rowLock
    BY <1>1, <1>2, <1>8, <2>1, RowCallBegins DEF ReleaseRow
  <2>3. /\ holds'[p] = NoLock /\ base'[p] = NoContent
        /\ holds' \in [Procs -> Locks] /\ base' \in [Procs -> Contents \cup {NoContent}]
    BY <1>2, <1>8 DEF ReleaseRow
  <2>4. /\ unlocking \subseteq unlocking' /\ unlocking' \subseteq LockIDs
        /\ rowLock \in unlocking' \cup {NoLock}
    BY <1>2, <1>8 DEF ReleaseRow, Locks
  <2>5. QED
    BY <1>1, <1>8, <2>2, <2>3, <2>4 DEF ReleaseRow, AskedWith, GivenTo
<1>9. CASE RestoreVersion(p)
  <2>1. PICK v \in versions : Call(p, "restore", holds[p], v[1])
    BY <1>9 DEF RestoreVersion
  <2>2. v[1] \in Nat
    OBVIOUS
  <2>3. \A q \in Procs \ {p} : holds'[q] = holds[q] /\ base'[q] = base[q]
    BY <1>9 DEF RestoreVersion
  <2> "restore" \in Calls \ {"none"} /\ UNCHANGED stored
    BY <1>9 DEF Calls, RestoreVersion
  <2>4. Asked(p) /\ op'[p] = "restore" /\ arg'[p] = holds[p]
    <3> HIDE DEF Typed, TypeOK, StoreTypeOK
    <3> QED
      BY <1>1, <1>2, <2>1, <2>2, <2>3, CallBegins
  <2>5. base'[p] = NoContent /\ base' \in [Procs -> Contents \cup {NoContent}]
    BY <1>9 DEF RestoreVersion
  <2>6. QED
    BY <1>1, <1>9, <2>4, <2>5 DEF RestoreVersion, AskedWith, GivenTo
<1>10. QED
  BY <1>3, <1>4, <1>5, <1>6, <1>7, <1>8, <1>9 DEF Request, LockUnit, HandleLock, PutLockFile,
     LockWorkspace, UploadUnit, UpdateState, PutState, UploadStateVersion,
     CreateStateVersionDirect, UnlockUnit, HandleUnlock, DeleteLockFile, UnlockWorkspace,
     ForceUnlockWorkspace

\* A step of the store takes the call of p from one stage to another.
Moved(p) ==
  /\ UNCHANGED <<store, fault, creating, op, arg, data>>
  /\ pc' \in [Procs -> CallPCs] /\ ans' \in [Procs -> {"ok", "notFound", "conflict", "error"}]
  /\ \A q \in Procs \ {p} : pc'[q] = pc[q] /\ ans'[q] = ans[q]
  /\ Busy(p) /\ pc'[p] \notin {"idle", "rowRead"} /\ StageOf(p)'
  /\ seen \subseteq seen' /\ seen' \subseteq Excuses
  /\ seen' \subseteq seen \cup {"blind", "cut"}
  /\ life' = life \/ (life' = "gone" /\ op[p] = "delete")

\* The lock changes when a call locks, unlocks or deletes the unit, which is
\* then to be saved in the row.
LockEffect(p) ==
  LET locks == /\ op[p] = "lock" /\ lock' = arg[p] /\ pc'[p] = "saveRow"
               /\ pc[p] = "putLock" \/ (pc[p] = "mem" /\ lock = NoLock)
      unlocks == /\ op[p] = "unlock" /\ lock' = NoLock /\ pc'[p] = "saveRow"
                 /\ pc[p] = "deleteLock" \/ (pc[p] = "mem" /\ lock = arg[p])
  IN  /\ lock' = lock \/ locks \/ unlocks \/ (op[p] = "delete" /\ lock' = NoLock)
      /\ pc'[p] = "saveRow" /\ op[p] = "lock" => locks
      /\ pc'[p] = "saveRow" /\ op[p] = "unlock" => unlocks
      /\ pc'[p] = "putLock" => lock' = lock /\ lock = NoLock
      /\ pc'[p] = "deleteLock" => lock' = lock /\ lock = arg[p]
      /\ pc'[p] = "answered" /\ op[p] = "lock" /\ ans'[p] = "ok" =>
           pc[p] = "saveRow" /\ lock' = lock

\* The row changes when a call that is through with the blob store saves it.
RowEffect(p) ==
  /\ pc[p] # "saveRow" => UNCHANGED <<rowLock, life>>
  /\ pc[p] = "saveRow" =>
       /\ pc'[p] = "answered" /\ lock' = lock
       /\ \/ "cut" \in seen' /\ rowLock' = rowLock
          \/ rowLock' = IF life # "live" THEN rowLock
                        ELSE IF op[p] = "lock" THEN arg[p]
                        ELSE IF op[p] \in {"unlock", "delete"} THEN NoLock ELSE rowLock

\* All that Serve does to what is not of the store.
LEMMA StageSteps ==
  ASSUME Typed, NEW p \in Procs, StoreStep(p)
  PROVE  Moved(p)
<1> DEFINE Stays == /\ UNCHANGED <<store, fault, creating>> /\ seen \subseteq seen'
                    /\ seen' \subseteq Excuses /\ seen' \subseteq seen \cup {"blind", "cut"}
           Gone(l) == /\ UNCHANGED <<op, arg, data>> /\ pc' \in [Procs -> CallPCs]
                      /\ ans' \in [Procs -> {"ok", "notFound", "conflict", "error"}]
                      /\ \A q \in Procs \ {p} : pc'[q] = pc[q] /\ ans'[q] = ans[q]
                      /\ pc'[p] = l
           Shape == /\ op[p] = "lock" => pc'[p] \in {"mem", "head", "headLock", "putLock",
                                                     "saveRow", "answered"}
                    /\ op[p] = "unlock" => pc'[p] \in {"mem", "getLock", "deleteLock",
                                                       "saveRow", "answered"}
                    /\ op[p] = "upload" => pc'[p] \in {"mem", "head", "readLock", "archive",
                                                       "prune", "put", "saveRow", "answered"}
                    /\ op[p] = "restore" => pc'[p] \in {"mem", "find", "head", "readLock",
                                                        "archive", "copy", "answered"}
                    /\ op[p] = "delete" => pc'[p] \in {"mem", "head", "deleteObject",
                                                       "deleteObjectLock", "saveRow", "answered"}
                    /\ pc'[p] = "mem" => store = "mem"
                    /\ pc'[p] \in S3Stages => store = "s3"
<1>1. \A l \in CallPCs : Goto(p, l) => Gone(l)
  BY DEF Typed, TypeOK, StoreTypeOK, Goto
<1>2. \A a \in {"ok", "notFound", "conflict", "error"} :
        Answer(p, a) => Gone("answered") /\ ans'[p] = a
  BY DEF Typed, TypeOK, StoreTypeOK, Answer, CallPCs
<1>3. /\ op[p] \in Calls /\ pc[p] \in CallPCs /\ StageOf(p) /\ seen \subseteq Excuses
      /\ pc[p] = "idle" <=> op[p] = "none"
      /\ store \in Stores /\ life \in {"new", "live", "gone"}
  BY DEF Typed, TypeOK, StoreTypeOK
<1> HIDE DEF Gone
<1>4. ASSUME Stays, life' = life \/ (life' = "gone" /\ op[p] = "delete"), Busy(p),
             NEW l \in CallPCs \ {"idle", "rowRead"}, Gone(l), Shape
      PROVE  Moved(p)
  BY <1>3, <1>4 DEF Moved, StageOf, Busy, Gone, S3Stages
<1>5. CASE FindRow(p)
  <2>1. Stays /\ life' = life /\ Busy(p)
    BY <1>3, <1>5 DEF FindRow, unit, Busy
  <2>2. /\ FirstStep(op[p]) \in {"mem", "getLock", "find", "head"}
        /\ FirstStep(op[p]) = "mem" <=> store = "mem"
        /\ FirstStep(op[p]) = "getLock" => op[p] = "unlock"
        /\ FirstStep(op[p]) = "find" => op[p] = "restore"
        /\ op[p] = "unlock" => FirstStep(op[p]) # "head" /\ FirstStep(op[p]) # "find"
    BY DEF FirstStep
  <2>3. op[p] \in {"unlock", "upload"}
    BY <1>3, <1>5 DEF FindRow, StageOf, Calls
  <2>4. CASE Goto(p, FirstStep(op[p]))
    <3>1. Gone(FirstStep(op[p])) /\ pc'[p] = FirstStep(op[p])
      BY <1>1, <2>2, <2>4 DEF CallPCs, Gone
    <3>2. Shape
      BY <1>3, <2>2, <2>3, <3>1, StoresAssumption DEF S3Stages
    <3>3. QED
      BY <1>4, <2>1, <2>2, <3>1, <3>2 DEF CallPCs
  <2>5. CASE Answer(p, "notFound")
    BY <1>2, <1>4, <2>1, <2>5 DEF CallPCs, Gone, S3Stages
  <2>6. QED
    BY <1>5, <2>4, <2>5 DEF FindRow
<1>6. CASE MemStep(p)
  <2>1. Stays /\ life' = life /\ Busy(p)
    BY <1>3, <1>6 DEF MemStep, MemLock, MemUnlock, MemUpload, MemRestore, MemDelete, Busy
  <2>2. Goto(p, "saveRow") \/ \E a \in {"ok", "notFound", "conflict", "error"} : Answer(p, a)
    BY <1>6 DEF MemStep, MemLock, MemUnlock, MemUpload, MemRestore, MemDelete
  <2>3. Gone("saveRow") \/ Gone("answered")
    BY <1>1, <1>2, <2>2 DEF CallPCs
  <2>4. op[p] = "restore" => Gone("answered")
    BY <1>2, <1>6 DEF MemStep, MemRestore
  <2>5. QED
    BY <1>3, <1>4, <2>1, <2>3, <2>4 DEF CallPCs, Gone, S3Stages
<1>7. CASE SaveRow(p)
  <2>1. Stays /\ (life' = life \/ (life' = "gone" /\ op[p] = "delete")) /\ Busy(p)
    BY <1>3, <1>7 DEF SaveRow, Busy, Excuses
  <2>2. Gone("answered")
    BY <1>2, <1>7 DEF SaveRow
  <2>3. QED
    BY <1>4, <2>1, <2>2 DEF CallPCs, Gone, S3Stages
<1>8. CASE S3Step(p)
  <2>1. Stays /\ life' = life
    BY <1>3, <1>8 DEF S3Step, S3Head, S3HeadLock, S3PutLock, S3GetLock, S3DeleteLock, S3Find,
       S3ReadLock, S3Archive, S3Prune, S3Put, S3Copy, S3Delete, S3Fails, Keep, unit, Excuses
  <2>2. ASSUME NEW a \in {"ok", "notFound", "conflict", "error"}, Answer(p, a), Busy(p)
        PROVE  Moved(p)
    BY <1>2, <1>4, <2>1, <2>2 DEF CallPCs, Gone, S3Stages
  <2>3. ASSUME NEW l \in CallPCs \ {"idle", "rowRead"}, Goto(p, l), Busy(p), pc'[p] = l => Shape
        PROVE  Moved(p)
    BY <1>1, <1>4, <2>1, <2>3 DEF CallPCs, Gone
  <2>4. CASE S3Head(p)
    BY <1>3, <2>2, <2>3, <2>4 DEF S3Head, StageOf, CallPCs, S3Stages, Busy, Calls
  <2>5. CASE S3HeadLock(p)
    BY <1>3, <2>2, <2>3, <2>5 DEF S3HeadLock, StageOf, CallPCs, S3Stages, Busy, Calls
  <2>6. CASE S3PutLock(p)
    BY <1>3, <2>2, <2>3, <2>6 DEF S3PutLock, StageOf, CallPCs, S3Stages, Busy, Calls
  <2>7. CASE S3GetLock(p)
    BY <1>3, <2>2, <2>3, <2>7 DEF S3GetLock, StageOf, CallPCs, S3Stages, Busy, Calls
  <2>8. CASE S3DeleteLock(p)
    BY <1>3, <2>2, <2>3, <2>8 DEF S3DeleteLock, StageOf, CallPCs, S3Stages, Busy, Calls
  <2>9. CASE S3Find(p)
    BY <1>3, <2>2, <2>3, <2>9 DEF S3Find, StageOf, CallPCs, S3Stages, Busy, Calls
  <2>10. CASE S3ReadLock(p)
    BY <1>3, <2>2, <2>3, <2>10 DEF S3ReadLock, StageOf, CallPCs, S3Stages, Busy, Calls
  <2>11. CASE S3Archive(p)
    BY <1>3, <2>2, <2>3, <2>11 DEF S3Archive, StageOf, CallPCs, S3Stages, Busy, Calls
  <2>12. CASE S3Prune(p)
    BY <1>3, <2>2, <2>3, <2>12 DEF S3Prune, StageOf, CallPCs, S3Stages, Busy, Calls
  <2>13. CASE S3Put(p)
    BY <1>3, <2>2, <2>3, <2>13 DEF S3Put, StageOf, CallPCs, S3Stages, Busy, Calls
  <2>14. CASE S3Copy(p)
    BY <1>3, <2>2, <2>3, <2>14 DEF S3Copy, StageOf, CallPCs, S3Stages, Busy, Calls
  <2>15. CASE S3Delete(p)
    BY <1>3, <2>2, <2>3, <2>15 DEF S3Delete, StageOf, CallPCs, S3Stages, Busy, Calls
  <2>16. CASE S3Fails(p)
    BY <1>3, <2>2, <2>3, <2>16 DEF S3Fails, StageOf, CallPCs, S3Stages, Busy, Calls
  <2>17. QED
    BY <1>8, <2>4, <2>5, <2>6, <2>7, <2>8, <2>9, <2>10, <2>11, <2>12, <2>13, <2>14, <2>15,
       <2>16 DEF S3Step
<1>9. QED
  BY <1>5, <1>6, <1>7, <1>8 DEF StoreStep

\* Where Goto and Answer leave the call.
LEMMA Goes ==
  ASSUME Typed, NEW p \in Procs
  PROVE  /\ \A l : Goto(p, l) => pc'[p] = l
         /\ \A a : Answer(p, a) => pc'[p] = "answered" /\ ans'[p] = a
BY DEF Typed, TypeOK, StoreTypeOK, Goto, Answer

\* What a step of the store does to the lock and to the row.
LEMMA LockSteps ==
  ASSUME Typed, NEW p \in Procs, StoreStep(p)
  PROVE  LockEffect(p) /\ RowEffect(p)
<1>1. /\ \A l : Goto(p, l) => pc'[p] = l
      /\ \A a : Answer(p, a) => pc'[p] = "answered" /\ ans'[p] = a
  BY Goes
<1>2. /\ op[p] \in Calls /\ StageOf(p) /\ life \in {"new", "live", "gone"}
      /\ op[p] = "none" => pc[p] = "idle"
  BY DEF Typed, TypeOK, StoreTypeOK
<1>3. CASE FindRow(p)
  <2>1. pc[p] = "rowRead" /\ UNCHANGED <<lock, rowLock, life>>
    BY <1>3 DEF FindRow, unit
  <2>2. FirstStep(op[p]) \in {"mem", "getLock", "find", "head"}
    BY DEF FirstStep
  <2>3. pc'[p] \in {"mem", "getLock", "find", "head"} \/ (pc'[p] = "answered" /\ ans'[p] = "notFound")
    BY <1>1, <1>3, <2>2 DEF FindRow
  <2>4. QED
    BY <2>1, <2>3 DEF LockEffect, RowEffect
<1>4. CASE MemStep(p)
  BY <1>1, <1>4 DEF MemStep, MemLock, MemUnlock, MemUpload, MemRestore, MemDelete, LockEffect,
     RowEffect
<1>5. CASE SaveRow(p)
  <2>1. pc[p] = "saveRow" /\ UNCHANGED lock /\ pc'[p] = "answered"
    BY <1>1, <1>5 DEF SaveRow
  <2>2. LockEffect(p)
    BY <2>1 DEF LockEffect
  <2>3. \/ "cut" \in seen' /\ rowLock' = rowLock
        \/ rowLock' = IF life # "live" THEN rowLock
                      ELSE CASE op[p] = "lock" -> arg[p]
                             [] op[p] \in {"unlock", "delete"} -> NoLock
                             [] OTHER -> rowLock
    BY <1>5 DEF SaveRow
  <2>4. QED
    BY <2>1, <2>2, <2>3 DEF RowEffect
<1>6. CASE S3PutLock(p) \/ S3DeleteLock(p)
  BY <1>1, <1>2, <1>6 DEF S3PutLock, S3DeleteLock, Keep, LockEffect, RowEffect, StageOf, Calls
<1>7. CASE S3Head(p) \/ S3HeadLock(p) \/ S3GetLock(p)
  BY <1>1, <1>2, <1>7 DEF S3Head, S3HeadLock, S3GetLock, Keep, LockEffect, RowEffect, StageOf,
     Calls
<1>8. CASE S3Find(p) \/ S3ReadLock(p) \/ S3Archive(p) \/ S3Prune(p) \/ S3Put(p) \/ S3Copy(p)
  <2>1. /\ UNCHANGED <<lock, rowLock, life>> /\ op[p] \notin {"lock", "unlock"}
        /\ pc[p] # "saveRow" /\ pc'[p] \notin {"putLock", "deleteLock"}
    <3>1. CASE S3Find(p) \/ S3ReadLock(p)
      BY <1>1, <1>2, <3>1 DEF S3Find, S3ReadLock, Keep, unit, StageOf
    <3>2. CASE S3Archive(p) \/ S3Prune(p)
      BY <1>1, <1>2, <3>2 DEF S3Archive, S3Prune, Keep, StageOf
    <3>3. CASE S3Put(p) \/ S3Copy(p)
      BY <1>1, <1>2, <3>3 DEF S3Put, S3Copy, Keep, StageOf
    <3>4. QED
      BY <1>8, <3>1, <3>2, <3>3
  <2>2. QED
    BY <2>1 DEF LockEffect, RowEffect
<1>9. CASE S3Delete(p)
  BY <1>1, <1>2, <1>9 DEF S3Delete, Keep, LockEffect, RowEffect, StageOf, Calls
<1>10. CASE S3Fails(p)
  BY <1>1, <1>10 DEF S3Fails, unit, LockEffect, RowEffect
<1>11. QED
  BY <1>3, <1>4, <1>5, <1>6, <1>7, <1>8, <1>9, <1>10 DEF StoreStep, S3Step

\* What a step of the store does to the contents.  Nothing but a deletion
\* drops a version that is not noted as pruned.
ContentEffect(p) ==
  LET kept(c) == c \in pruned' \/ \E v \in versions' : v[2] = c
      uploads == /\ op[p] = "upload" /\ content' = data[p] /\ pc'[p] = "saveRow"
                 /\ pc[p] = "put" \/ (pc[p] = "mem" /\ ~Refused(arg[p]))
      restores == /\ op[p] = "restore" /\ pc'[p] = "answered"
                  /\ pc[p] = "copy" \/ (pc[p] = "mem" /\ ~Refused(arg[p]))
                  /\ \E v \in versions : content' = v[2]
  IN  /\ content' = content \/ uploads \/ restores \/ op[p] = "delete"
      /\ pc'[p] = "saveRow" /\ op[p] = "upload" => uploads
      /\ pc'[p] = "answered" /\ ans'[p] = "ok" /\ op[p] = "upload" => pc[p] = "saveRow"
      /\ op[p] # "delete" =>
           /\ pruned \subseteq pruned'
           /\ \A v \in versions : v \in versions' \/ v[2] \in pruned'
      /\ store = "mem" /\ content' # content /\ op[p] # "delete" =>
           content <= 0 \/ kept(content)
      /\ pc'[p] \in {"prune", "copy"} => content' = content /\ kept(content)
      /\ pc'[p] = "put" => pc[p] = "prune" /\ content' = content
      /\ pc'[p] = "archive" => /\ pc[p] = "readLock" /\ lock' = lock
                               /\ ~Refused(arg[p]) \/ "blind" \in seen'
      /\ pc'[p] \in {"prune", "put", "copy"} =>
           lock' = lock /\ pc[p] \in {"archive", "prune"}
      /\ pc'[p] \in {"headLock", "putLock", "readLock", "archive", "prune", "put", "copy"} =>
           /\ content' = content
           /\ \/ content # NoContent
              \/ pc[p] \in {"headLock", "putLock", "readLock", "archive", "prune", "put", "copy"}

\* And to their types.
UnitTypes ==
  /\ content' \in Contents \cup {NoContent}
  /\ versions' \subseteq Nat \X Contents /\ clock' \in Nat /\ pruned' \subseteq Contents
  /\ \A v, w \in versions' : v[1] <= clock' /\ (v[1] = w[1] => v = w)

\* What a step of the store does to the object and its versions.
LEMMA ContentSteps ==
  ASSUME Typed, NEW p \in Procs, StoreStep(p)
  PROVE  ContentEffect(p) /\ UnitTypes
<1>1. /\ \A l : Goto(p, l) => pc'[p] = l
      /\ \A a : Answer(p, a) => pc'[p] = "answered" /\ ans'[p] = a
  BY Goes
<1>2. /\ op[p] \in Calls /\ StageOf(p) /\ GivenTo(p) /\ (op[p] = "none" => pc[p] = "idle")
      /\ content \in Contents \cup {NoContent} /\ versions \subseteq Nat \X Contents
      /\ clock \in Nat /\ pruned \subseteq Contents
      /\ \A v, w \in versions : v[1] <= clock /\ (v[1] = w[1] => v = w)
  BY DEF Typed, TypeOK, StoreTypeOK
<1>3. \A c \in Contents : c \in Int /\ c >= 0
  BY DEF Contents
<1>4. ASSUME UNCHANGED <<content, versions, clock, pruned>>
      PROVE  UnitTypes
  BY <1>2, <1>4 DEF UnitTypes
<1> DEFINE all == versions \cup {<<clock + 1, content>>}
<1>5. ASSUME content # NoContent, content' \in Contents, NEW D \in SUBSET all,
             versions' = all \ D, clock' = clock + 1, pruned' = pruned \cup {v[2] : v \in D}
      PROVE  /\ UnitTypes /\ pruned \subseteq pruned'
             /\ \A v \in versions : v \in versions' \/ v[2] \in pruned'
             /\ content \in pruned' \/ \E v \in versions' : v[2] = content
  <2>1. <<clock + 1, content>> \in all /\ all \subseteq Nat \X Contents
    BY <1>2, <1>5
  <2>2. \A v, w \in all : v[1] <= clock + 1 /\ (v[1] = w[1] => v = w)
    <3> SUFFICES ASSUME NEW v \in all, NEW w \in all
                 PROVE  v[1] <= clock + 1 /\ (v[1] = w[1] => v = w)
      OBVIOUS
    <3>1. v \in versions => v[1] \in Nat /\ v[1] <= clock
      BY <1>2
    <3>2. w \in versions => w[1] \in Nat /\ w[1] <= clock
      BY <1>2
    <3>3. v \in versions /\ w \in versions => (v[1] = w[1] => v = w)
      BY <1>2
    <3>4. v \notin versions => v = <<clock + 1, content>> /\ v[1] = clock + 1
      OBVIOUS
    <3>5. w \notin versions => w = <<clock + 1, content>> /\ w[1] = clock + 1
      OBVIOUS
    <3>6. QED
      BY <1>2, <3>1, <3>2, <3>3, <3>4, <3>5
  <2>3. versions' \subseteq all /\ pruned \subseteq pruned' /\ pruned' \subseteq Contents
    BY <1>2, <1>5, <2>1
  <2>4. \A v \in all : v \in versions' \/ v[2] \in pruned'
    BY <1>5
  <2>5. versions \subseteq all /\ <<clock + 1, content>>[2] = content
    OBVIOUS
  <2> HIDE DEF all
  <2>6. UnitTypes
    BY <1>2, <1>5, <2>1, <2>2, <2>3 DEF UnitTypes
  <2>7. QED
    BY <2>1, <2>3, <2>4, <2>5, <2>6
<1> HIDE DEF all
<1>6. ASSUME MemArchive, content' \in Contents
      PROVE  /\ UnitTypes /\ pruned \subseteq pruned'
             /\ \A v \in versions : v \in versions' \/ v[2] \in pruned'
             /\ content <= 0 \/ content \in pruned' \/ \E v \in versions' : v[2] = content
  <2>1. CASE content <= 0
    BY <1>2, <1>6, <2>1 DEF MemArchive, UnitTypes
  <2>2. CASE ~(content <= 0)
    <3>1. content # NoContent
      BY <2>2 DEF NoContent
    <3>2. Oldest(all) \in SUBSET all
      BY DEF Oldest
    <3>3. /\ versions' = all \ Oldest(all) /\ clock' = clock + 1
          /\ pruned' = pruned \cup {v[2] : v \in Oldest(all)}
      BY <1>6, <2>2 DEF MemArchive, all
    <3>4. QED
      BY <1>5, <1>6, <3>1, <3>2, <3>3
  <2>3. QED
    BY <2>1, <2>2
<1>7. CASE FindRow(p)
  <2>1. pc[p] = "rowRead" /\ UNCHANGED <<content, lock, versions, clock, pruned>>
    BY <1>7 DEF FindRow, unit
  <2>2. FirstStep(op[p]) \in {"mem", "getLock", "find", "head"}
    BY DEF FirstStep
  <2>3. pc'[p] \in {"mem", "getLock", "find", "head"} \/ (pc'[p] = "answered" /\ ans'[p] = "notFound")
    BY <1>1, <1>7, <2>2 DEF FindRow
  <2>4. QED
    BY <1>4, <2>1, <2>3 DEF ContentEffect
<1>8. CASE MemStep(p)
  <2>1. pc[p] = "mem"
    BY <1>8 DEF MemStep
  <2>2. CASE op[p] = "lock" \/ op[p] = "unlock"
    <3>1. UNCHANGED <<content, versions, clock, pruned>> /\ pc'[p] \in {"saveRow", "answered"}
      BY <1>1, <1>8, <2>2 DEF MemStep, MemLock, MemUnlock
    <3>2. QED
      BY <1>4, <2>1, <2>2, <3>1 DEF ContentEffect
  <2>3. CASE op[p] = "upload"
    <3>1. CASE Refused(arg[p])
      <4>1. UNCHANGED <<content, versions, clock, pruned>> /\ pc'[p] = "answered"
            /\ ans'[p] = "conflict"
        BY <1>1, <1>8, <2>3, <3>1 DEF MemStep, MemUpload
      <4>2. QED
        BY <1>4, <2>3, <4>1 DEF ContentEffect
    <3>2. CASE ~Refused(arg[p])
      <4>1. MemArchive /\ content' = data[p] /\ pc'[p] = "saveRow" /\ data[p] \in Contents
        BY <1>1, <1>2, <1>8, <2>3, <3>2 DEF MemStep, MemUpload, GivenTo
      <4>2. QED
        BY <1>6, <2>1, <2>3, <3>2, <4>1 DEF ContentEffect
    <3>3. QED
      BY <3>1, <3>2
  <2>4. CASE op[p] = "restore"
    <3>1. CASE content = NoContent \/ Refused(arg[p]) \/ \A v \in versions : v[1] # data[p]
      <4>1. UNCHANGED <<content, versions, clock, pruned>> /\ pc'[p] = "answered"
        BY <1>1, <1>8, <2>4, <3>1 DEF MemStep, MemRestore
      <4>2. QED
        BY <1>4, <2>4, <4>1 DEF ContentEffect
    <3>2. CASE ~(content = NoContent \/ Refused(arg[p]) \/ \A v \in versions : v[1] # data[p])
      <4>1. /\ MemArchive /\ pc'[p] = "answered" /\ ~Refused(arg[p])
            /\ \E v \in versions : content' = v[2]
        BY <1>1, <1>8, <2>4, <3>2 DEF MemStep, MemRestore
      <4>2. content' \in Contents
        BY <1>2, <4>1
      <4>3. QED
        BY <1>6, <2>1, <2>4, <4>1, <4>2 DEF ContentEffect
    <3>3. QED
      BY <3>1, <3>2
  <2>5. CASE op[p] = "delete"
    <3>1. /\ content' = NoContent /\ versions' = {} /\ UNCHANGED <<clock, pruned>>
          /\ pc'[p] = "saveRow"
      BY <1>1, <1>8, <2>5 DEF MemStep, MemDelete
    <3>2. QED
      BY <1>2, <2>5, <3>1 DEF ContentEffect, UnitTypes
  <2>6. QED
    BY <1>8, <2>2, <2>3, <2>4, <2>5 DEF MemStep
<1>9. CASE SaveRow(p)
  <2>1. UNCHANGED <<content, versions, clock, pruned>> /\ pc'[p] = "answered" /\ pc[p] = "saveRow"
    BY <1>1, <1>9 DEF SaveRow
  <2>2. QED
    BY <1>4, <2>1 DEF ContentEffect
<1>10. CASE S3Head(p) \/ S3HeadLock(p) \/ S3PutLock(p) \/ S3GetLock(p) \/ S3DeleteLock(p)
            \/ S3Find(p)
  <2>1. UNCHANGED <<content, versions, clock, pruned>>
    BY <1>10 DEF S3Head, S3HeadLock, S3PutLock, S3GetLock, S3DeleteLock, S3Find, Keep
  <2>2. \/ pc'[p] \in {"saveRow", "deleteObject", "deleteLock", "head"}
        \/ pc'[p] = "answered" /\ ans'[p] # "ok"
        \/ pc'[p] = "putLock" /\ pc[p] = "headLock"
        \/ pc'[p] \in {"headLock", "readLock"} /\ content # NoContent
    BY <1>1, <1>10 DEF S3Head, S3HeadLock, S3PutLock, S3GetLock, S3DeleteLock, S3Find
  <2>3. pc'[p] = "saveRow" => op[p] # "upload"
    BY <1>1, <1>2, <1>10 DEF S3Head, S3HeadLock, S3PutLock, S3GetLock, S3DeleteLock, S3Find,
       StageOf
  <2>4. QED
    BY <1>4, <2>1, <2>2, <2>3 DEF ContentEffect
<1>11. CASE S3ReadLock(p)
  <2>1. UNCHANGED <<content, lock, versions, clock, pruned>> /\ pc[p] = "readLock"
    BY <1>11 DEF S3ReadLock, unit
  <2>2. \/ pc'[p] = "answered" /\ ans'[p] = "conflict"
        \/ pc'[p] = "archive" /\ (~Refused(arg[p]) \/ "blind" \in seen')
    BY <1>1, <1>11 DEF S3ReadLock
  <2>3. QED
    BY <1>4, <2>1, <2>2 DEF ContentEffect
<1>12. CASE S3Archive(p)
  <2>1. pc[p] = "archive" /\ UNCHANGED <<content, lock, pruned>>
    BY <1>12 DEF S3Archive, Keep
  <2>2. CASE content = NoContent
    <3>1. UNCHANGED <<versions, clock>> /\ pc'[p] = "answered" /\ ans'[p] = "error"
      BY <1>1, <1>12, <2>2 DEF S3Archive
    <3>2. QED
      BY <1>4, <2>1, <3>1 DEF ContentEffect
  <2>3. CASE content # NoContent
    <3>1. versions' = all /\ clock' = clock + 1 /\ pc'[p] \in {"prune", "copy"}
      BY <1>1, <1>12, <2>3 DEF S3Archive, all
    <3>2. /\ UnitTypes /\ \A v \in versions : v \in versions'
          /\ content \in pruned' \/ \E v \in versions' : v[2] = content
      <4>1. {} \in SUBSET all /\ all \ {} = all /\ {v[2] : v \in {}} = {}
        OBVIOUS
      <4>2. versions' = all \ {} /\ pruned' = pruned \cup {v[2] : v \in {}} /\ content' \in Contents
        BY <1>2, <2>1, <2>3, <3>1, <4>1
      <4>3. UnitTypes /\ (content \in pruned' \/ \E v \in versions' : v[2] = content)
        BY <1>5, <2>3, <3>1, <4>1, <4>2
      <4>4. QED
        BY <3>1, <4>3 DEF all
    <3>3. QED
      BY <2>1, <2>3, <3>1, <3>2 DEF ContentEffect
  <2>4. QED
    BY <2>2, <2>3
<1>13. CASE S3Prune(p)
  <2>1. PICK D \in SUBSET Oldest(versions) :
          versions' = versions \ D /\ pruned' = pruned \cup {v[2] : v \in D}
    BY <1>13 DEF S3Prune
  <2>2. /\ pc[p] = "prune" /\ pc'[p] = "put" /\ UNCHANGED <<content, lock, clock>>
    BY <1>1, <1>13 DEF S3Prune, Keep
  <2>3. D \subseteq versions
    BY DEF Oldest
  <2>4. /\ pruned \subseteq pruned' /\ \A v \in versions : v \in versions' \/ v[2] \in pruned'
        /\ pruned' \subseteq Contents /\ versions' \subseteq versions
    BY <1>2, <2>1, <2>3
  <2>5. UnitTypes
    BY <1>2, <2>2, <2>4 DEF UnitTypes
  <2>6. QED
    BY <2>2, <2>4, <2>5 DEF ContentEffect
<1>14. CASE S3Put(p)
  <2>1. /\ pc[p] = "put" /\ pc'[p] = "saveRow" /\ content' = data[p]
        /\ UNCHANGED <<lock, versions, clock, pruned>>
    BY <1>1, <1>14 DEF S3Put, Keep
  <2>2. op[p] = "upload" /\ data[p] \in Contents /\ store = "s3"
    BY <1>2, <2>1 DEF StageOf, GivenTo, Calls, S3Stages
  <2>3. QED
    BY <1>2, <2>1, <2>2 DEF ContentEffect, UnitTypes
<1>15. CASE S3Copy(p)
  <2>1. /\ pc[p] = "copy" /\ pc'[p] = "answered" /\ UNCHANGED <<lock, versions, clock, pruned>>
        /\ content' = content \/ \E v \in versions : content' = v[2]
    BY <1>1, <1>15 DEF S3Copy, Keep
  <2>2. op[p] = "restore" /\ store = "s3" /\ content' \in Contents \cup {NoContent}
    BY <1>2, <2>1 DEF StageOf, Calls, S3Stages
  <2>3. QED
    BY <1>2, <2>1, <2>2 DEF ContentEffect, UnitTypes
<1>16. CASE S3Delete(p)
  <2>1. /\ pc[p] \in {"deleteObject", "deleteObjectLock"} /\ UNCHANGED <<versions, clock, pruned>>
        /\ content' \in {content, NoContent} /\ pc'[p] \in {"deleteObjectLock", "saveRow"}
    BY <1>1, <1>16 DEF S3Delete, Keep
  <2>2. op[p] = "delete"
    BY <1>2, <2>1 DEF StageOf, Calls
  <2>3. QED
    BY <1>2, <2>1, <2>2 DEF ContentEffect, UnitTypes
<1>17. CASE S3Fails(p)
  <2>1. UNCHANGED <<content, versions, clock, pruned>> /\ pc'[p] = "answered" /\ ans'[p] = "error"
    BY <1>1, <1>17 DEF S3Fails, unit
  <2>2. QED
    BY <1>4, <2>1 DEF ContentEffect
<1>18. QED
  BY <1>7, <1>8, <1>9, <1>10, <1>11, <1>12, <1>13, <1>14, <1>15, <1>16, <1>17
     DEF StoreStep, S3Step

\* The client takes the answer: a lock, when the call has ended well.
Taken(p) ==
  /\ OthersStay(p) /\ UNCHANGED <<unit, seen, pruned, issued, written, restored, unlocking>>
  /\ UNCHANGED <<deletion, stored>>
  /\ op' \in [Procs -> Calls] /\ arg' \in [Procs -> Locks] /\ data' \in [Procs -> Nat]
  /\ pc' \in [Procs -> CallPCs] /\ ans' \in [Procs -> {"ok", "notFound", "conflict", "error"}]
  /\ holds' \in [Procs -> Locks] /\ base' \in [Procs -> Contents \cup {NoContent}]
  /\ pc[p] = "answered" /\ op'[p] = "none" /\ arg'[p] = NoLock /\ pc'[p] = "idle"
  /\ holds'[p] = IF op[p] = "lock" /\ ans[p] = "ok" THEN arg[p] ELSE holds[p]
  /\ base'[p] = IF op[p] # "upload" THEN base[p]
                ELSE IF ans[p] = "ok" /\ holds[p] # NoLock THEN data[p] ELSE NoContent

\* A client takes the answer of its call and is idle again.
LEMMA TakeStep ==
  ASSUME Typed, NEW p \in Procs, Take(p)
  PROVE  Taken(p)
<1> USE DEF Typed, TypeOK, StoreTypeOK
<1>1. /\ op' \in [Procs -> Calls] /\ arg' \in [Procs -> Locks] /\ data' \in [Procs -> Nat]
      /\ pc' \in [Procs -> CallPCs] /\ op'[p] = "none" /\ arg'[p] = NoLock /\ pc'[p] = "idle"
      /\ ans' \in [Procs -> {"ok", "notFound", "conflict", "error"}] /\ pc[p] = "answered"
  BY DEF Take, Answered, Calls, CallPCs, Locks
<1>2. \A q \in Procs \ {p} : /\ op'[q] = op[q] /\ arg'[q] = arg[q] /\ data'[q] = data[q]
                             /\ pc'[q] = pc[q] /\ ans'[q] = ans[q]
  BY DEF Take, Answered
<1>3. /\ holds' \in [Procs -> Locks]
      /\ holds'[p] = IF op[p] = "lock" /\ ans[p] = "ok" THEN arg[p] ELSE holds[p]
      /\ \A q \in Procs \ {p} : holds'[q] = holds[q]
  BY DEF Take
<1>4. op[p] = "upload" => data[p] \in Contents
  BY DEF GivenTo
<1>5. /\ base' \in [Procs -> Contents \cup {NoContent}]
      /\ base'[p] = IF op[p] # "upload" THEN base[p]
                    ELSE IF ans[p] = "ok" /\ holds[p] # NoLock THEN data[p] ELSE NoContent
      /\ \A q \in Procs \ {p} : base'[q] = base[q]
  BY <1>4 DEF Take
<1>6. OthersStay(p)
  BY <1>2, <1>3, <1>5 DEF OthersStay
<1>7. QED
  BY <1>1, <1>3, <1>5, <1>6 DEF Take, Taken

\* A step of the store leaves the clients alone.
LEMMA ServeStep ==
  ASSUME Typed, NEW p \in Procs, Serve(p)
  PROVE  /\ Moved(p) /\ LockEffect(p) /\ RowEffect(p) /\ ContentEffect(p) /\ UnitTypes
         /\ OthersStay(p)
         /\ UNCHANGED <<holds, base, issued, written, restored, unlocking, deletion>>
         /\ stored' = stored \cup ({content'} \ {NoContent})
<1>1. Moved(p) /\ LockEffect(p) /\ RowEffect(p) /\ ContentEffect(p) /\ UnitTypes
  BY StageSteps, LockSteps, ContentSteps DEF Serve
<1>2. QED
  BY <1>1 DEF Serve, OthersStay, Moved

\* A step is a creation, a restart, a request, a step of a call, or an answer taken.
LEMMA Steps ==
  ASSUME [Next]_vars
  PROVE  \/ UNCHANGED vars \/ CreateUnit \/ CreateInBackground \/ Crash
         \/ \E p \in Procs : Request(p) \/ Serve(p) \/ Take(p)
BY DEF Next

\* A restart ends all calls.
LEMMA CrashStep ==
  ASSUME Typed, Crash
  PROVE  /\ op' \in [Procs -> Calls] /\ arg' \in [Procs -> Locks] /\ data' \in [Procs -> Nat]
         /\ pc' \in [Procs -> CallPCs]
         /\ ans' \in [Procs -> {"ok", "notFound", "conflict", "error"}]
         /\ base' \in [Procs -> Contents \cup {NoContent}]
         /\ \A p \in Procs : /\ op'[p] = "none" /\ arg'[p] = NoLock /\ pc'[p] = "idle"
                             /\ base'[p] = IF pc[p] = "idle" THEN base[p] ELSE NoContent
         /\ seen \subseteq seen' /\ seen' \subseteq seen \cup {"cut"}
         /\ (\E p \in Procs : pc[p] = "saveRow") => "cut" \in seen'
         /\ creating' = "none"
         /\ UNCHANGED <<store, fault, life, rowLock, content, lock, versions, clock, pruned>>
         /\ UNCHANGED <<holds, issued, written, restored, unlocking, deletion, stored>>
BY DEF Typed, TypeOK, StoreTypeOK, Crash, Restart, Calls, CallPCs, Locks

\* The types hold for a new server.
LEMMA TypedInit == Init => Typed
<1> SUFFICES ASSUME Init
             PROVE  Typed
  OBVIOUS
<1>1. StoreTypeOK
  BY DEF Init, StoreInit, StoreTypeOK, Calls, CallPCs, Locks, Excuses, Contents
<1>2. TypeOK
  <2>1. /\ holds \in [Procs -> Locks] /\ base \in [Procs -> Contents \cup {NoContent}]
        /\ \A p \in Procs : holds[p] = NoLock
    BY DEF Init, Locks
  <2>2. written \in Contents /\ restored \in Nat
    BY BoundsAssumption DEF Init, Contents
  <2>3. QED
    BY <1>1, <2>1, <2>2 DEF Init, StoreInit, TypeOK
<1>3. \A p \in Procs : StageOf(p) /\ GivenTo(p)
  BY DEF Init, StoreInit, StageOf, GivenTo, Busy, S3Stages
<1>4. QED
  BY <1>2, <1>3 DEF Typed, Init, StoreInit

\* Each step keeps the types and a call in the stages of its kind.
LEMMA TypedStep ==
  ASSUME Typed, [Next]_vars
  PROVE  Typed'
<1> DEFINE Own(p) == StageOf(p) /\ GivenTo(p) /\ (pc[p] = "idle" <=> op[p] = "none")
<1>1. StoreTypeOK /\ TypeOK /\ \A p \in Procs : Own(p)
  BY DEF Typed, TypeOK, StoreTypeOK
<1>2. ASSUME NEW p \in Procs, OthersStay(p), UNCHANGED store, seen \subseteq seen',
             life # "new" => life' # "new", issued \subseteq issued',
             unlocking \subseteq unlocking', deletion => deletion'
      PROVE  \A q \in Procs \ {p} : Own(q)'
  <2> SUFFICES ASSUME NEW q \in Procs \ {p}
               PROVE  Own(q)'
    OBVIOUS
  <2>1. StageOf(q)'
    BY <1>1, <1>2 DEF OthersStay, StageOf, Busy
  <2>2. GivenTo(q)'
    BY <1>1, <1>2 DEF OthersStay, GivenTo
  <2>3. QED
    BY <1>1, <1>2, <2>1, <2>2 DEF OthersStay
<1>3. CASE UNCHANGED vars
  BY <1>1, <1>3 DEF vars, storeVars, unit, calls, clients, Typed, TypeOK, StoreTypeOK, StageOf,
     GivenTo, Busy
<1>4. CASE CreateUnit
  BY <1>1, <1>4 DEF CreateUnit, CreateRow, calls, clients, Typed, TypeOK, StoreTypeOK, StageOf,
     GivenTo, Busy
<1>5. CASE CreateInBackground
  <2>1. /\ content' \in Contents \cup {NoContent} /\ creating' \in {"none", "begin", "put"}
        /\ stored' \subseteq Contents
        /\ creating' # "none" => creating # "none"
        /\ creating' = "put" => store = "s3"
    <3>1. /\ content' \in {content, 0} /\ creating' \in {"none", "put"} /\ creating # "none"
          /\ creating' = "put" => store = "s3"
      BY <1>5 DEF CreateInBackground, CreateBlob
    <3>2. 0 \in Contents
      BY BoundsAssumption DEF Contents
    <3>3. content \in Contents \cup {NoContent} /\ stored \subseteq Contents
      BY <1>1 DEF StoreTypeOK, TypeOK
    <3>4. stored' = stored \cup ({content'} \ {NoContent})
      BY <1>5 DEF CreateInBackground
    <3>5. QED
      BY <3>1, <3>2, <3>3, <3>4
  <2>2. /\ UNCHANGED <<store, fault, life, rowLock, lock, versions, clock, seen, pruned>>
        /\ UNCHANGED <<op, arg, data, pc, ans>>
        /\ UNCHANGED <<holds, base, issued, written, restored, unlocking, deletion>>
    BY <1>5 DEF CreateInBackground, CreateBlob, calls
  <2>3. QED
    <3>1. \A p \in Procs : StageOf(p)' /\ GivenTo(p)'
      BY <1>1, <2>2 DEF StageOf, GivenTo, Busy
    <3>2. StoreTypeOK'
      BY <1>1, <2>1, <2>2 DEF StoreTypeOK
    <3>3. TypeOK'
      BY <1>1, <2>1, <2>2, <3>2 DEF TypeOK
    <3>4. QED
      BY <2>1, <2>2, <3>1, <3>3 DEF Typed
<1>6. CASE Crash
  <2>1. \A p \in Procs : StageOf(p)' /\ GivenTo(p)'
    BY <1>6, CrashStep DEF StageOf, GivenTo, Busy, S3Stages
  <2>2. StoreTypeOK'
    <3>1. seen' \subseteq Excuses /\ creating' \in {"none", "begin", "put"}
      BY <1>1, <1>6, CrashStep DEF StoreTypeOK, Excuses
    <3>2. \A p \in Procs : pc'[p] = "idle" <=> op'[p] = "none"
      BY <1>6, CrashStep
    <3>3. UNCHANGED <<store, fault, life, rowLock, content, lock, versions, clock, pruned>>
      BY <1>6, CrashStep
    <3>4. QED
      BY <1>1, <1>6, <3>1, <3>2, <3>3, CrashStep DEF StoreTypeOK
  <2>3. TypeOK'
    BY <1>1, <1>6, <2>2, CrashStep DEF TypeOK
  <2>4. QED
    BY <1>6, <2>1, <2>2, <2>3, CrashStep DEF Typed
<1>7. ASSUME NEW p \in Procs, DownloadUnit(p)
      PROVE  Typed'
  <2>1. base' \in [Procs -> Contents \cup {NoContent}] /\ base'[p] = content
        /\ \A q \in Procs \ {p} : base'[q] = base[q]
    BY <1>1, <1>7 DEF DownloadUnit, TypeOK, StoreTypeOK
  <2>2. op[p] = "none"
    BY <1>1, <1>7 DEF DownloadUnit
  <2>3. \A q \in Procs : GivenTo(q)' /\ StageOf(q)'
    BY <1>1, <1>7, <2>1, <2>2 DEF DownloadUnit, storeVars, unit, calls, GivenTo, StageOf, Busy
  <2>4. QED
    BY <1>1, <1>7, <2>1, <2>3 DEF DownloadUnit, storeVars, unit, calls, Typed, TypeOK, StoreTypeOK
<1>8. ASSUME NEW p \in Procs, Asked(p), AskedWith(p)
      PROVE  Typed'
  <2>1. /\ StoreTypeOK'
        /\ UNCHANGED <<store, fault, life, rowLock, content, lock, versions, clock, creating, stored>>
    <3>1. UNCHANGED <<store, fault, life, rowLock, content, lock, versions, clock, creating, pruned,
                      stored>>
      BY <1>8 DEF Asked, unit
    <3>2. \A q \in Procs : pc'[q] = "idle" <=> op'[q] = "none"
      BY <1>1, <1>8 DEF Asked, OthersStay
    <3>3. QED
      BY <1>1, <1>8, <3>1, <3>2 DEF Asked, StoreTypeOK
  <2>2. \A q \in Procs : StageOf(q)' /\ GivenTo(q)'
    BY <1>2, <1>8, <2>1 DEF Asked, AskedWith
  <2>3. \A q \in Procs : holds'[q] # NoLock => holds'[q] \in issued'
    BY <1>1, <1>8 DEF Asked, AskedWith, OthersStay, TypeOK
  <2>4. TypeOK'
    BY <1>1, <1>8, <2>1, <2>3 DEF AskedWith, TypeOK
  <2>5. QED
    BY <1>8, <2>1, <2>2, <2>4 DEF Typed, Asked, AskedWith
<1>9. ASSUME NEW p \in Procs, Serve(p)
      PROVE  Typed'
  <2>1. /\ Moved(p) /\ LockEffect(p) /\ RowEffect(p) /\ UnitTypes /\ OthersStay(p)
        /\ UNCHANGED <<holds, base, issued, written, restored, unlocking, deletion>>
        /\ stored' = stored \cup ({content'} \ {NoContent})
    BY <1>9, ServeStep
  <2>2. arg[p] \in issued \cup {NoLock} /\ GivenTo(p)
    BY <1>1 DEF GivenTo
  <2>3. lock' \in issued \cup {NoLock} /\ rowLock' \in issued \cup {NoLock}
    BY <1>1, <2>1, <2>2 DEF LockEffect, RowEffect, TypeOK
  <2>4. \A q \in Procs : StageOf(q)' /\ GivenTo(q)'
    <3>1. life # "new" => life' # "new"
      BY <2>1 DEF Moved
    <3>2. GivenTo(p)'
      BY <2>1, <2>2 DEF Moved, GivenTo
    <3>3. QED
      BY <1>2, <2>1, <3>1, <3>2 DEF Moved
  <2>5. \A q \in Procs : pc'[q] = "idle" <=> op'[q] = "none"
    BY <1>1, <2>1 DEF Moved, Busy
  <2>6. issued \subseteq LockIDs /\ stored' \subseteq Contents
    BY <1>1, <2>1 DEF TypeOK, UnitTypes
  <2>7. StoreTypeOK'
    BY <1>1, <2>1, <2>3, <2>5, <2>6 DEF StoreTypeOK, Moved, UnitTypes, Locks
  <2>8. TypeOK'
    BY <1>1, <2>1, <2>3, <2>6, <2>7 DEF TypeOK
  <2>9. life' = "gone" => deletion'
    BY <2>1, <2>2 DEF Moved, Typed, GivenTo
  <2>10. QED
    BY <2>1, <2>4, <2>8, <2>9 DEF Typed, Moved
<1>10. ASSUME NEW p \in Procs, Take(p)
       PROVE  Typed'
  <2>1. Taken(p)
    BY <1>10, TakeStep
  <2>2. UNCHANGED <<store, fault, life, rowLock, content, lock, versions, clock, creating>>
    BY <2>1 DEF Taken, unit
  <2>3. StoreTypeOK'
    <3>1. \A q \in Procs : pc'[q] = "idle" <=> op'[q] = "none"
      BY <1>1, <2>1 DEF Taken, OthersStay
    <3>2. QED
      BY <1>1, <2>1, <2>2, <3>1 DEF StoreTypeOK, Taken
  <2>4. \A q \in Procs : holds'[q] # NoLock => holds'[q] \in issued'
    BY <1>1, <2>1 DEF Taken, OthersStay, TypeOK, GivenTo
  <2>5. TypeOK'
    BY <1>1, <2>1, <2>2, <2>3, <2>4 DEF TypeOK, Taken
  <2>6. \A q \in Procs : StageOf(q)' /\ GivenTo(q)'
    <3>1. StageOf(p)' /\ GivenTo(p)'
      BY <2>1 DEF Taken, StageOf, GivenTo, Busy, S3Stages
    <3>2. QED
      BY <1>2, <2>1, <2>2, <3>1 DEF Taken
  <2>7. QED
    BY <2>1, <2>2, <2>5, <2>6 DEF Typed, Taken
<1>11. QED
  BY <1>3, <1>4, <1>5, <1>6, <1>7, <1>8, <1>9, <1>10, RequestStep, Steps

\* Every variable keeps its type, and a call goes through the stages of its
\* kind with a lock ID that was issued.
THEOREM TypeCorrect == Spec => []TypeOK
<1>1. Typed => TypeOK
  BY DEF Typed
<1>2. QED
  BY <1>1, TypedInit, TypedStep, PTL DEF Spec

-----------------------------------------------------------------------------
(* Who may overlap                                                         *)

\* Calls that overlap are noted, and two that change the lock as such.
Alone ==
  /\ \A p, q \in Procs : p # q /\ Busy(p) /\ Busy(q) =>
       "race" \in seen /\ (op[p] \in LockCalls /\ op[q] \in LockCalls => "lockRace" \in seen)
  /\ "lockRace" \in seen => "race" \in seen

\* Each step keeps two calls from being under way unless it records that they overlap.
LEMMA AloneStep ==
  ASSUME Typed, Alone, [Next]_vars
  PROVE  Alone'
<1>1. ASSUME \A q \in Procs : Busy(q)' => Busy(q) /\ op'[q] = op[q],
             seen \subseteq seen', seen' \subseteq seen \cup {"blind", "cut"}
      PROVE  Alone'
  BY <1>1 DEF Alone
<1>2. CASE UNCHANGED vars \/ CreateUnit \/ CreateInBackground
  BY <1>1, <1>2 DEF vars, storeVars, calls, CreateUnit, CreateRow, CreateInBackground,
     CreateBlob, Busy
<1>3. CASE Crash
  BY <1>1, <1>3, CrashStep DEF Busy
<1>4. ASSUME NEW p \in Procs, DownloadUnit(p)
      PROVE  Alone'
  BY <1>1, <1>4 DEF DownloadUnit, storeVars, calls, Busy
<1>5. ASSUME NEW p \in Procs, Serve(p)
      PROVE  Alone'
  <2>1. Moved(p)
    BY <1>5, ServeStep
  <2>2. QED
    BY <1>1, <2>1 DEF Moved, Busy
<1>6. ASSUME NEW p \in Procs, Take(p)
      PROVE  Alone'
  <2>1. Taken(p)
    BY <1>6, TakeStep
  <2>2. QED
    BY <1>1, <2>1 DEF Taken, OthersStay, Busy
<1>7. ASSUME NEW p \in Procs, Asked(p)
      PROVE  Alone'
  <2>1. /\ \A q \in Procs \ {p} : (Busy(q)' <=> Busy(q)) /\ op'[q] = op[q]
        /\ seen \subseteq seen' /\ Overlaps(p, op'[p]) \subseteq seen'
        /\ seen' \subseteq seen \cup Overlaps(p, op'[p]) \cup {"borrowed"}
    BY <1>7 DEF Asked, OthersStay, Busy
  <2>2. \A q \in Procs \ {p} : Busy(q) =>
          "race" \in seen' /\ (op'[p] \in LockCalls /\ op[q] \in LockCalls => "lockRace" \in seen')
    BY <2>1 DEF Overlaps
  <2>3. "lockRace" \in seen' => "race" \in seen'
    BY <2>1, <2>2 DEF Alone, Overlaps
  <2>4. QED
    BY <2>1, <2>2, <2>3 DEF Alone
<1>8. QED
  BY <1>2, <1>3, <1>4, <1>5, <1>6, <1>7, RequestStep, Steps

\* Calls that overlap are recorded in every history.
LEMMA AloneAlways == Spec => [](Typed /\ Alone)
<1>1. Init => Alone
  BY DEF Init, StoreInit, Alone, Busy
<1>2. QED
  BY <1>1, TypedInit, TypedStep, AloneStep, PTL DEF Spec

-----------------------------------------------------------------------------
(* Whose the lock is                                                       *)

\* The lock is the one a call has taken, or its client was told it has, until
\* somebody asks to unlock it; it is free for a call that is about to take it.
LockPath(p) ==
  /\ op[p] = "lock" /\ (pc[p] = "saveRow" \/ (pc[p] = "answered" /\ ans[p] = "ok"))
     /\ arg[p] \notin unlocking => lock = arg[p]
  /\ holds[p] # NoLock /\ holds[p] \notin unlocking => lock = holds[p]
  /\ pc[p] = "putLock" => lock = NoLock
  /\ pc[p] = "deleteLock" => lock = arg[p]

Stands == ~deletion /\ Guaranteed({"lockRace"}) => \A p \in Procs : LockPath(p)

\* What is guaranteed has been so before.
LEMMA GuaranteedBefore ==
  ASSUME NEW excuses, Guaranteed(excuses)', store' = store, seen \subseteq seen'
  PROVE  Guaranteed(excuses)
BY DEF Guaranteed

\* Each step leaves the lock with the client that was told it has it.
LEMMA StandsStep ==
  ASSUME Typed, Alone, Stands, [Next]_vars
  PROVE  Stands'
<1> SUFFICES ASSUME ~deletion', Guaranteed({"lockRace"})'
             PROVE  \A p \in Procs : LockPath(p)'
  BY DEF Stands
<1>1. ASSUME store' = store, seen \subseteq seen', deletion => deletion'
      PROVE  ~deletion /\ Guaranteed({"lockRace"}) /\ \A p \in Procs : LockPath(p)
  BY <1>1, GuaranteedBefore DEF Stands
<1>2. CASE UNCHANGED vars \/ CreateUnit \/ CreateInBackground
  BY <1>1, <1>2 DEF vars, storeVars, unit, clients, calls, CreateUnit, CreateRow,
     CreateInBackground, CreateBlob, LockPath
<1>3. CASE Crash
  BY <1>1, <1>3, CrashStep DEF LockPath
<1>4. ASSUME NEW p \in Procs, DownloadUnit(p)
      PROVE  \A q \in Procs : LockPath(q)'
  BY <1>1, <1>4 DEF DownloadUnit, storeVars, unit, calls, LockPath
<1>5. ASSUME NEW p \in Procs, Asked(p), AskedWith(p)
      PROVE  \A q \in Procs : LockPath(q)'
  <2>1. /\ lock' = lock /\ \A q \in Procs : LockPath(q)
        /\ unlocking \subseteq unlocking' /\ store' = store
    BY <1>1, <1>5 DEF Asked, AskedWith, unit
  <2>2. \A q \in Procs \ {p} : LockPath(q)'
    BY <1>5, <2>1 DEF Asked, OthersStay, LockPath
  <2>3. LockPath(p)'
    BY <1>5, <2>1 DEF Asked, AskedWith, LockPath
  <2>4. QED
    BY <2>2, <2>3
<1>6. ASSUME NEW p \in Procs, Take(p)
      PROVE  \A q \in Procs : LockPath(q)'
  <2>1. Taken(p)
    BY <1>6, TakeStep
  <2>2. /\ lock' = lock /\ \A q \in Procs : LockPath(q)
        /\ unlocking' = unlocking /\ store' = store
    BY <1>1, <2>1 DEF Taken, unit
  <2>3. \A q \in Procs \ {p} : LockPath(q)'
    BY <2>1, <2>2 DEF Taken, OthersStay, LockPath
  <2>4. LockPath(p)'
    BY <2>1, <2>2 DEF Taken, LockPath
  <2>5. QED
    BY <2>3, <2>4
<1>7. ASSUME NEW p \in Procs, Serve(p)
      PROVE  \A q \in Procs : LockPath(q)'
  <2>1. /\ Moved(p) /\ LockEffect(p) /\ OthersStay(p)
        /\ UNCHANGED <<holds, unlocking, deletion>>
    BY <1>7, ServeStep
  <2>2. ~deletion /\ Guaranteed({"lockRace"}) /\ \A q \in Procs : LockPath(q)
    BY <1>1, <2>1 DEF Moved
  <2>3. GivenTo(p) /\ StageOf(p) /\ Busy(p) /\ op' = op /\ arg' = arg
    BY <2>1 DEF Typed, Moved
  <2>4. LockPath(p)'
    BY <2>1, <2>2, <2>3 DEF LockEffect, LockPath, GivenTo, StageOf, Moved
  <2>5. ASSUME NEW q \in Procs \ {p}
        PROVE  LockPath(q)'
    <3>1. GivenTo(q) /\ LockPath(q) /\ LockPath(p) /\ StageOf(q) /\ op[q] \in Calls
          /\ (op[q] = "none" <=> pc[q] = "idle") /\ store \in Stores
      BY <2>2 DEF Typed, TypeOK, StoreTypeOK
    <3>2. CASE lock' = lock
      BY <2>1, <3>1, <3>2 DEF OthersStay, LockPath
    <3>3. CASE lock' # lock
      <4>1. op[p] \in {"lock", "unlock"} /\ \/ op[p] = "lock" /\ lock = NoLock
                                            \/ op[p] = "unlock" /\ lock = arg[p]
        BY <2>1, <2>3, <2>2, <3>1, <3>3 DEF LockEffect, LockPath, GivenTo
      <4>2. /\ ~(op[q] = "lock" /\ (pc[q] = "saveRow" \/ (pc[q] = "answered" /\ ans[q] = "ok"))
                 /\ arg[q] \notin unlocking)
            /\ ~(holds[q] # NoLock /\ holds[q] \notin unlocking)
        BY <2>3, <3>1, <4>1 DEF LockPath, GivenTo
      <4>3. pc[q] \notin {"putLock", "deleteLock"}
        <5>1. SUFFICES ASSUME pc[q] \in {"putLock", "deleteLock"}
                       PROVE  FALSE
          OBVIOUS
        <5>2. op[q] \in LockCalls /\ op[p] \in LockCalls /\ Busy(q)
          BY <3>1, <4>1, <5>1 DEF StageOf, LockCalls, Busy, Calls
        <5>3. store = "s3"
          BY <3>1, <5>1 DEF StageOf, S3Stages
        <5>4. "lockRace" \in seen
          BY <2>3, <5>2 DEF Alone
        <5>5. QED
          BY <2>2, <5>3, <5>4 DEF Guaranteed
      <4>4. QED
        BY <2>1, <4>2, <4>3 DEF OthersStay, LockPath
    <3>4. QED
      BY <3>2, <3>3
  <2>6. QED
    BY <2>4, <2>5
<1>8. QED
  BY <1>2, <1>3, <1>4, <1>5, <1>6, <1>7, RequestStep, Steps

\* Locks stand in every history.
LEMMA StandsAlways == Spec => [](Typed /\ Alone /\ Stands)
<1>1. Init => Stands
  BY DEF Init, StoreInit, Stands, LockPath
<1>2. QED
  BY <1>1, AloneAlways, StandsStep, PTL DEF Spec

\* A client that was told it has the lock has it, until somebody asks to unlock
\* it or to delete the unit: in memory whatever the clients do, because Lock
\* finds it free and Unlock names it under one mutex; over S3 as long as no two
\* calls that change the lock overlap between their read and their write.
THEOREM LockHeld == Spec => []LockStands
<1>1. Stands => LockStands
  BY DEF Stands, LockStands, LockPath
<1>2. QED
  BY <1>1, StandsAlways, PTL

-----------------------------------------------------------------------------
(* What the row tells                                                      *)

Saving(p) == pc[p] = "saveRow" /\ op[p] \in {"lock", "unlock"}

\* The row tells the lock, but while a call saves what it has done to it.
RowTells ==
  ~deletion /\ seen \cap {"lockRace", "cut"} = {} =>
    /\ \A p \in Procs : Saving(p) => lock = IF op[p] = "lock" THEN arg[p] ELSE NoLock
    /\ (\A p \in Procs : ~Saving(p)) => rowLock = lock

\* Each step leaves the row with the lock of the blob store, or a call that is to save it.
LEMMA RowTellsStep ==
  ASSUME Typed, Alone, RowTells, [Next]_vars
  PROVE  RowTells'
<1> DEFINE Told == /\ \A p \in Procs : Saving(p) => lock = IF op[p] = "lock" THEN arg[p] ELSE NoLock
                   /\ (\A p \in Procs : ~Saving(p)) => rowLock = lock
<1> SUFFICES ASSUME ~deletion', seen' \cap {"lockRace", "cut"} = {}
             PROVE  Told'
  BY DEF RowTells
<1>1. ASSUME seen \subseteq seen', deletion => deletion'
      PROVE  ~deletion /\ seen \cap {"lockRace", "cut"} = {} /\ Told
  BY <1>1 DEF RowTells
<1>2. CASE UNCHANGED vars \/ CreateUnit \/ CreateInBackground
  BY <1>1, <1>2 DEF vars, storeVars, unit, clients, calls, CreateUnit, CreateRow,
     CreateInBackground, CreateBlob, Saving
<1>3. CASE Crash
  BY <1>1, <1>3, CrashStep DEF Saving
<1>4. ASSUME NEW p \in Procs, DownloadUnit(p)
      PROVE  Told'
  BY <1>1, <1>4 DEF DownloadUnit, storeVars, unit, calls, Saving
<1>5. ASSUME NEW p \in Procs, Asked(p), AskedWith(p)
      PROVE  Told'
  <2>1. lock' = lock /\ rowLock' = rowLock /\ Told
    BY <1>1, <1>5 DEF Asked, AskedWith, unit
  <2>2. ~Saving(p) /\ ~Saving(p)'
    BY <1>5 DEF Asked, Saving
  <2>3. \A q \in Procs \ {p} : (Saving(q)' <=> Saving(q)) /\ op'[q] = op[q] /\ arg'[q] = arg[q]
    BY <1>5 DEF Asked, OthersStay, Saving
  <2>4. QED
    BY <2>1, <2>2, <2>3
<1>6. ASSUME NEW p \in Procs, Take(p)
      PROVE  Told'
  <2>1. Taken(p)
    BY <1>6, TakeStep
  <2>2. lock' = lock /\ rowLock' = rowLock /\ Told
    BY <1>1, <2>1 DEF Taken, unit
  <2>3. ~Saving(p) /\ ~Saving(p)'
    BY <2>1 DEF Taken, Saving
  <2>4. \A q \in Procs \ {p} : (Saving(q)' <=> Saving(q)) /\ op'[q] = op[q] /\ arg'[q] = arg[q]
    BY <2>1 DEF Taken, OthersStay, Saving
  <2>5. QED
    BY <2>2, <2>3, <2>4
<1>7. ASSUME NEW p \in Procs, Serve(p)
      PROVE  Told'
  <2>1. /\ Moved(p) /\ LockEffect(p) /\ RowEffect(p) /\ OthersStay(p) /\ deletion' = deletion
    BY <1>7, ServeStep
  <2>2. ~deletion /\ seen \cap {"lockRace", "cut"} = {} /\ Told
    BY <1>1, <2>1 DEF Moved
  <2>3. /\ GivenTo(p) /\ StageOf(p) /\ Busy(p) /\ op' = op /\ arg' = arg
        /\ op[p] # "delete" /\ life = "live"
    BY <2>1, <2>2 DEF Typed, TypeOK, StoreTypeOK, Moved, GivenTo, StageOf
  <2>4. \A q \in Procs \ {p} : Saving(q)' <=> Saving(q)
    BY <2>1, <2>3 DEF OthersStay, Saving
  <2>5. CASE Saving(p)'
    <3>1. op[p] \in LockCalls /\ lock' = IF op[p] = "lock" THEN arg[p] ELSE NoLock
      BY <2>1, <2>3, <2>5 DEF Saving, LockEffect, LockCalls
    <3>2. \A q \in Procs \ {p} : ~Saving(q)
      BY <2>2, <2>3, <3>1 DEF Alone, Saving, Busy, LockCalls
    <3>3. QED
      BY <2>3, <2>4, <2>5, <3>1, <3>2
  <2>6. CASE ~Saving(p)'
    <3>1. lock' = lock
      BY <2>1, <2>3, <2>6 DEF Saving, LockEffect
    <3>2. CASE Saving(p)
      <4>1. rowLock' = IF op[p] = "lock" THEN arg[p] ELSE NoLock
        BY <2>1, <2>3, <3>2 DEF Saving, RowEffect
      <4>2. QED
        BY <2>2, <2>3, <2>4, <2>6, <3>1, <3>2, <4>1
    <3>3. CASE ~Saving(p)
      <4>1. rowLock' = rowLock
        BY <2>1, <2>3, <3>3 DEF Saving, RowEffect
      <4>2. QED
        BY <2>2, <2>3, <2>4, <2>6, <3>1, <3>3, <4>1
    <3>4. QED
      BY <3>2, <3>3
  <2>7. QED
    BY <2>5, <2>6
<1>8. QED
  BY <1>2, <1>3, <1>4, <1>5, <1>6, <1>7, RequestStep, Steps

\* The row of the unit tells the lock of the blob store whenever no call is
\* under way, unless calls on the lock overlapped or one was cut off before it
\* saved the row: Lock and Unlock of the repository write the blob store first
\* and the row last.
THEOREM RowIsTold == Spec => []RowTellsLock
<1>1. Init => RowTells
  BY DEF Init, StoreInit, RowTells, Saving
<1>2. RowTells => RowTellsLock
  BY DEF RowTells, RowTellsLock, Saving, Busy
<1>3. QED
  BY <1>1, <1>2, AloneAlways, RowTellsStep, PTL DEF Spec

-----------------------------------------------------------------------------
(* What becomes of the contents                                            *)

Kept(c) == c \in pruned \/ (c = 0 /\ store = "mem") \/ \E v \in versions : v[2] = c

\* What the object has held is kept, and so is what it holds once a call is
\* about to replace it.
KeptAll ==
  /\ \A c \in stored : c = content \/ Kept(c)
  /\ \A p \in Procs : pc[p] \in {"prune", "put", "copy"} => Kept(content)

\* Over S3 the goroutine of Create comes before every call that finds the unit.
Made ==
  /\ creating # "none" => content = NoContent
  /\ \A p \in Procs : pc[p] \in {"headLock", "putLock", "readLock", "archive", "prune", "put",
                                 "copy"} => content # NoContent

History ==
  /\ content \in stored \cup {NoContent}
  /\ life = "new" => content = NoContent
  /\ store = "s3" /\ ~deletion => Made
  /\ ~deletion /\ Guaranteed({"race"}) => KeptAll

\* Each step keeps what the object has held, in the object or in a version.
LEMMA HistoryStep ==
  ASSUME Typed, Alone, History, [Next]_vars
  PROVE  History'
<1>0. /\ stored \subseteq Contents /\ NoContent \notin Contents
      /\ content \in Contents \cup {NoContent} /\ store \in Stores
  BY DEF Typed, TypeOK, StoreTypeOK, Contents, NoContent
<1>1. ASSUME UNCHANGED <<store, content, stored, pruned, versions>>, seen \subseteq seen',
             deletion => deletion', life' = "new" => life = "new",
             creating' # "none" => creating # "none" \/ life = "new",
             \A q \in Procs : pc'[q] = pc[q] \/ pc'[q] \notin
               {"headLock", "putLock", "readLock", "archive", "prune", "put", "copy"}
      PROVE  History'
  <2>1. content' \in stored' \cup {NoContent} /\ (life' = "new" => content' = NoContent)
    BY <1>1 DEF History
  <2>2. ASSUME store' = "s3", ~deletion'
        PROVE  Made'
    BY <1>1, <2>2 DEF History, Made
  <2>3. ASSUME ~deletion', Guaranteed({"race"})'
        PROVE  KeptAll'
    <3>1. KeptAll
      BY <1>1, <2>3, GuaranteedBefore DEF History
    <3>2. \A c : Kept(c)' <=> Kept(c)
      BY <1>1 DEF Kept
    <3>3. QED
      BY <1>1, <3>1, <3>2 DEF KeptAll
  <2>4. QED
    BY <2>1, <2>2, <2>3 DEF History
<1>2. CASE UNCHANGED vars \/ CreateUnit
  BY <1>1, <1>2 DEF vars, storeVars, unit, clients, calls, CreateUnit, CreateRow
<1>3. CASE CreateInBackground
  <2>1. /\ UNCHANGED <<store, pruned, versions, seen, pc, deletion, life>> /\ creating # "none"
        /\ content' = content \/ (content' = 0 /\ creating' = "none")
        /\ content' # content => content = NoContent \/ creating = "put"
        /\ store = "s3" /\ creating' # "none" => content = NoContent /\ content' = content
        /\ stored' = stored \cup ({content'} \ {NoContent})
    BY <1>3 DEF CreateInBackground, CreateBlob, calls, Typed
  <2>2. life # "new" /\ (creating = "put" => store = "s3")
    BY <2>1 DEF Typed
  <2>3. ASSUME store = "s3", ~deletion
        PROVE  Made'
    <3>1. Made
      BY <2>3 DEF History
    <3>2. \A p \in Procs : pc[p] \notin {"headLock", "putLock", "readLock", "archive", "prune",
                                         "put", "copy"}
      BY <2>1, <3>1 DEF Made
    <3>3. QED
      BY <2>1, <2>3, <3>2 DEF Made
  <2>4. ASSUME ~deletion, Guaranteed({"race"})
        PROVE  KeptAll'
    <3>1. KeptAll
      BY <2>4 DEF History
    <3>2. content' # content => content = NoContent
      BY <2>1, <2>2, <2>4 DEF History, Made
    <3>3. \A c : Kept(c)' <=> Kept(c)
      BY <2>1 DEF Kept
    <3>4. \A c \in stored' : c = content' \/ Kept(c)'
      BY <1>0, <2>1, <3>1, <3>2, <3>3 DEF KeptAll
    <3>5. \A p \in Procs : pc[p] \notin {"prune", "put", "copy"}
      <4>1. SUFFICES ASSUME NEW p \in Procs, pc[p] \in {"prune", "put", "copy"}
                     PROVE  FALSE
        OBVIOUS
      <4>2. store = "s3"
        BY <4>1 DEF Typed, StageOf, S3Stages
      <4>3. QED
        BY <2>1, <2>4, <4>1, <4>2 DEF History, Made
    <3>6. QED
      BY <2>1, <3>4, <3>5 DEF KeptAll
  <2>5. Guaranteed({"race"})' => Guaranteed({"race"})
    BY <2>1, GuaranteedBefore
  <2>6. content' \in stored' \cup {NoContent}
    BY <2>1
  <2>7. QED
    BY <2>1, <2>2, <2>3, <2>4, <2>5, <2>6 DEF History
<1>4. CASE Crash
  BY <1>1, <1>4, CrashStep
<1>5. ASSUME NEW p \in Procs, DownloadUnit(p)
      PROVE  History'
  BY <1>1, <1>5 DEF DownloadUnit, storeVars, unit, calls
<1>6. ASSUME NEW p \in Procs, Asked(p), AskedWith(p)
      PROVE  History'
  BY <1>1, <1>6 DEF Asked, AskedWith, OthersStay, unit
<1>7. ASSUME NEW p \in Procs, Take(p)
      PROVE  History'
  <2>1. Taken(p)
    BY <1>7, TakeStep
  <2>2. QED
    BY <1>1, <2>1 DEF Taken, OthersStay, unit
<1>8. ASSUME NEW p \in Procs, Serve(p)
      PROVE  History'
  <2>1. /\ Moved(p) /\ ContentEffect(p) /\ UnitTypes /\ OthersStay(p) /\ deletion' = deletion
        /\ stored' = stored \cup ({content'} \ {NoContent})
    BY <1>8, ServeStep
  <2>2. /\ GivenTo(p) /\ StageOf(p) /\ Busy(p) /\ store' = store /\ creating' = creating
        /\ life # "new" /\ life' # "new" /\ seen \subseteq seen' /\ op' = op
        /\ versions \subseteq Nat \X Contents
    BY <2>1 DEF Typed, TypeOK, StoreTypeOK, Moved, StageOf
  <2>3. op[p] = "delete" => deletion
    BY <2>2 DEF GivenTo
  <2>4. ASSUME ~deletion
        PROVE  content' # content => content' \in Contents
    BY <2>1, <2>2, <2>3, <2>4 DEF ContentEffect, GivenTo
  <2>5. ASSUME store = "s3", ~deletion
        PROVE  Made'
    <3>1. Made
      BY <2>5 DEF History
    <3>2. content' # content => pc[p] \in {"put", "copy"}
      BY <2>1, <2>2, <2>3, <2>5 DEF ContentEffect, StageOf
    <3>3. content' # content => content # NoContent
      BY <3>1, <3>2 DEF Made
    <3>4. content # NoContent => content' # NoContent
      BY <1>0, <2>4, <2>5
    <3>5. creating' # "none" => content' = NoContent
      BY <2>2, <3>1, <3>3 DEF Made
    <3>6. \A q \in Procs \ {p} : pc'[q] = pc[q]
      BY <2>1 DEF OthersStay
    <3>7. pc'[p] \in {"headLock", "putLock", "readLock", "archive", "prune", "put", "copy"} =>
            content' # NoContent
      BY <2>1, <3>1, <3>4 DEF ContentEffect, Made
    <3>8. QED
      BY <3>1, <3>4, <3>5, <3>6, <3>7 DEF Made
  <2>6. ASSUME ~deletion, Guaranteed({"race"}), Guaranteed({"race"})'
        PROVE  KeptAll'
    <3>1. KeptAll
      BY <2>6 DEF History
    <3>2. \A c : Kept(c) => Kept(c)'
      BY <2>1, <2>2, <2>3, <2>6 DEF ContentEffect, Kept
    <3>3. ASSUME content' # content, NEW c \in Contents, c = content
          PROVE  Kept(c)'
      <4>1. CASE store = "mem"
        <5>1. c <= 0 => c = 0
          BY DEF Contents
        <5>2. c <= 0 \/ c \in pruned' \/ \E v \in versions' : v[2] = c
          BY <2>1, <2>3, <2>6, <3>3, <4>1 DEF ContentEffect
        <5>3. QED
          BY <2>2, <4>1, <5>1, <5>2 DEF Kept
      <4>2. CASE store = "s3"
        <5>1. pc[p] \in {"put", "copy"}
          BY <2>1, <2>2, <2>3, <2>6, <3>3, <4>2 DEF ContentEffect, StageOf
        <5>2. QED
          BY <3>1, <3>2, <3>3, <5>1 DEF KeptAll
      <4>3. QED
        BY <1>0, <4>1, <4>2, StoresAssumption
    <3>4. \A c \in stored' : c = content' \/ Kept(c)'
      BY <1>0, <2>1, <3>1, <3>2, <3>3 DEF KeptAll
    <3>5. pc'[p] \in {"prune", "put", "copy"} => Kept(content)' /\ content' = content
      BY <2>1, <2>2, <3>1, <3>2 DEF ContentEffect, KeptAll, Kept
    <3>6. ASSUME NEW q \in Procs \ {p}, pc'[q] \in {"prune", "put", "copy"}
          PROVE  FALSE
      <4>1. pc[q] = pc'[q] /\ Busy(q) /\ store = "s3"
        BY <2>1, <3>6 DEF OthersStay, Busy, Typed, StageOf, S3Stages
      <4>2. "race" \in seen
        BY <2>2, <4>1 DEF Alone
      <4>3. QED
        BY <2>6, <4>1, <4>2 DEF Guaranteed
    <3>7. \A q \in Procs : pc'[q] \in {"prune", "put", "copy"} => Kept(content)' /\ content' = content
      BY <3>5, <3>6
    <3>8. QED
      BY <3>4, <3>7 DEF KeptAll
  <2>7. Guaranteed({"race"})' => Guaranteed({"race"})
    BY <2>2, GuaranteedBefore
  <2>8. content' \in stored' \cup {NoContent}
    BY <2>1
  <2>9. QED
    BY <2>1, <2>2, <2>5, <2>6, <2>7, <2>8 DEF History
<1>9. QED
  BY <1>2, <1>3, <1>4, <1>5, <1>6, <1>7, <1>8, RequestStep, Steps

\* Contents are kept in every history.
LEMMA HistoryAlways == Spec => [](Typed /\ Alone /\ History)
<1>1. Init => History
  BY DEF Init, StoreInit, History, KeptAll, Made
<1>2. QED
  BY <1>1, AloneAlways, HistoryStep, PTL DEF Spec

\* Whatever the object has held is still its content or a version of it, or
\* was the oldest version when it was pruned; the store in memory drops only
\* the empty state it was created with.  Upload and RestoreVersion archive the
\* content before they replace it, and over S3 nobody comes between the two
\* unless calls overlap.
THEOREM NothingIsLost == Spec => []HistoryKept
<1>1. History => HistoryKept
  BY DEF History, KeptAll, Kept, HistoryKept
<1>2. QED
  BY <1>1, HistoryAlways, PTL

-----------------------------------------------------------------------------
(* What the holder of the lock has read                                    *)

\* No two clients have, or are about to be told, one lock ID.
Once ==
  \A p, q \in Procs : p # q =>
    /\ holds[p] # NoLock => holds[p] # holds[q]
    /\ op[p] = "lock" => arg[p] # holds[q] /\ (op[q] = "lock" => arg[p] # arg[q])

\* Each step gives a lock ID to one client at most.
LEMMA OnceStep ==
  ASSUME Typed, Once, [Next]_vars
  PROVE  Once'
<1>1. CASE UNCHANGED vars \/ CreateUnit \/ CreateInBackground
  BY <1>1 DEF vars, storeVars, clients, calls, CreateUnit, CreateInBackground, Once
<1>2. CASE Crash
  BY <1>2, CrashStep DEF Once
<1>3. ASSUME NEW p \in Procs, DownloadUnit(p) \/ Serve(p)
      PROVE  Once'
  <2>1. UNCHANGED <<op, arg, holds>>
    <3>1. DownloadUnit(p) => UNCHANGED <<op, arg, holds>>
      BY DEF DownloadUnit, storeVars, calls
    <3>2. Serve(p) => UNCHANGED <<op, arg, holds>>
      BY ServeStep DEF Moved
    <3>3. QED
      BY <1>3, <3>1, <3>2
  <2>2. QED
    BY <2>1 DEF Once
<1>4. ASSUME NEW p \in Procs, Asked(p), AskedWith(p)
      PROVE  Once'
  <2>1. /\ \A q \in Procs \ {p} : op'[q] = op[q] /\ arg'[q] = arg[q] /\ holds'[q] = holds[q]
        /\ holds'[p] \in {holds[p], NoLock}
        /\ op'[p] = "lock" => arg'[p] \notin issued /\ arg'[p] # NoLock
    BY <1>4 DEF Asked, AskedWith, OthersStay, GivenTo
  <2>2. \A q \in Procs : /\ holds[q] \in issued \cup {NoLock}
                         /\ arg[q] \in issued \cup {NoLock}
                         /\ op[q] = "lock" => arg[q] # NoLock
    BY DEF Typed, TypeOK, GivenTo
  <2>3. QED
    BY <2>1, <2>2 DEF Once
<1>5. ASSUME NEW p \in Procs, Take(p)
      PROVE  Once'
  <2>1. Taken(p)
    BY <1>5, TakeStep
  <2>2. /\ \A q \in Procs \ {p} : op'[q] = op[q] /\ arg'[q] = arg[q] /\ holds'[q] = holds[q]
        /\ op'[p] = "none" /\ holds'[p] \in {holds[p], arg[p]}
        /\ holds'[p] # holds[p] => op[p] = "lock"
    BY <2>1 DEF Taken, OthersStay
  <2>3. \A q \in Procs : op[q] = "lock" => arg[q] # NoLock
    BY DEF Typed, GivenTo
  <2>4. QED
    BY <2>2, <2>3 DEF Once
<1>6. QED
  BY <1>1, <1>2, <1>3, <1>4, <1>5, RequestStep, Steps

\* What a client that holds the lock has read is the content, until its own
\* upload is stored; a call past the lock check still has the lock it names.
Reads(p) ==
  /\ pc[p] \in {"archive", "prune", "put", "copy"} => ~Refused(arg[p])
  /\ holds[p] \notin unlocking \cup {NoLock} =>
       /\ base[p] # NoContent => op[p] \in {"none", "upload"}
       /\ /\ base[p] # NoContent
          /\ pc[p] = "idle" \/ (op[p] = "upload" /\ pc[p] \notin {"saveRow", "answered"})
          => content = base[p]
       /\ /\ op[p] = "upload"
          /\ pc[p] = "saveRow" \/ (pc[p] = "answered" /\ ans[p] = "ok")
          => content = data[p]

Sound == ~deletion /\ "borrowed" \notin seen /\ Guaranteed({"race", "blind"})

Fresh == Sound => \A p \in Procs : Reads(p)

\* Another's content is kept out by the lock check.
LEMMA OthersKeptOut ==
  ASSUME Typed, Alone, Stands, Once, Fresh, Sound, NEW p \in Procs, Serve(p),
         NEW q \in Procs \ {p}, holds[q] \notin unlocking \cup {NoLock}
  PROVE  content' = content
<1>1. ContentEffect(p) /\ GivenTo(p) /\ Reads(p)
  BY ServeStep DEF Typed, Fresh
<1>2. lock = holds[q]
  <2>1. Guaranteed({"lockRace"})
    BY DEF Sound, Guaranteed, Alone
  <2>2. QED
    BY <2>1 DEF Stands, LockPath, Sound
<1>3. SUFFICES ASSUME content' # content
               PROVE  FALSE
  OBVIOUS
<1>4. op[p] \in {"upload", "restore"} /\ ~Refused(arg[p])
  BY <1>1, <1>3 DEF ContentEffect, GivenTo, Reads, Sound
<1>5. arg[p] = holds[q]
  BY <1>2, <1>4 DEF Refused
<1>6. holds[p] = holds[q]
  BY <1>1, <1>4, <1>5 DEF GivenTo, Sound
<1>7. QED
  BY <1>6 DEF Once

\* Each step leaves the content as the holder of the lock has read it.
LEMMA FreshStep ==
  ASSUME Typed, Alone, Stands, History, Once, Fresh, [Next]_vars
  PROVE  Fresh'
<1> SUFFICES ASSUME Sound'
             PROVE  \A p \in Procs : Reads(p)'
  BY DEF Fresh
<1>1. ASSUME store' = store, seen \subseteq seen', deletion => deletion'
      PROVE  Sound /\ \A p \in Procs : Reads(p)
  BY <1>1, GuaranteedBefore DEF Sound, Fresh
<1>2. CASE UNCHANGED vars \/ CreateUnit
  <2>1. /\ UNCHANGED <<store, seen, deletion, pc, op, arg, data, ans, holds, base, unlocking>>
        /\ UNCHANGED <<content, lock>>
    BY <1>2 DEF vars, storeVars, unit, clients, calls, CreateUnit, CreateRow
  <2>2. QED
    BY <1>1, <2>1 DEF Reads, Refused
<1>3. CASE CreateInBackground
  <2>1. /\ UNCHANGED <<store, seen, deletion, pc, op, arg, data, ans, holds, base, unlocking, lock>>
        /\ content' # content => content = NoContent \/ creating = "put"
    BY <1>3 DEF CreateInBackground, CreateBlob, calls
  <2>2. Sound /\ \A p \in Procs : Reads(p)
    BY <1>1, <2>1
  <2>3. content' # content => content = NoContent
    BY <2>1, <2>2 DEF Sound, History, Made, Typed
  <2>4. \A p \in Procs : op[p] = "upload" => data[p] # NoContent
    BY DEF Typed, GivenTo, Contents, NoContent
  <2>5. QED
    BY <2>1, <2>2, <2>3, <2>4 DEF Reads, Refused
<1>4. CASE Crash
  <2>1. \A p \in Procs : Reads(p)
    BY <1>1, <1>4, CrashStep
  <2>2. QED
    BY <1>4, <2>1, CrashStep DEF Reads
<1>5. ASSUME NEW p \in Procs, DownloadUnit(p)
      PROVE  \A q \in Procs : Reads(q)'
  <2>1. /\ UNCHANGED <<store, seen, deletion, pc, op, arg, data, ans, holds, unlocking, lock>>
        /\ content' = content /\ base'[p] = content /\ pc[p] = "idle"
        /\ \A q \in Procs \ {p} : base'[q] = base[q]
    BY <1>5 DEF DownloadUnit, storeVars, unit, calls, Typed, TypeOK
  <2>2. \A q \in Procs : Reads(q)
    BY <1>1, <2>1
  <2>3. op[p] = "none"
    BY <2>1 DEF Typed, TypeOK, StoreTypeOK
  <2>4. QED
    BY <2>1, <2>2, <2>3 DEF Reads, Refused
<1>6. ASSUME NEW p \in Procs, Asked(p), AskedWith(p)
      PROVE  \A q \in Procs : Reads(q)'
  <2>1. /\ UNCHANGED <<store, content, lock>> /\ seen \subseteq seen' /\ ~deletion
        /\ unlocking \subseteq unlocking'
    BY <1>6 DEF Asked, AskedWith, unit
  <2>2. \A q \in Procs : Reads(q)
    BY <1>1, <2>1
  <2>3. \A q \in Procs \ {p} : Reads(q)'
    BY <1>6, <2>1, <2>2 DEF Asked, OthersStay, Reads, Refused
  <2>4. op'[p] # "delete" /\ op'[p] \in Calls \ {"none"}
    BY <1>6 DEF Asked, AskedWith, GivenTo, Sound
  <2>5. /\ pc[p] = "idle" /\ pc'[p] \in {"rowRead", "mem", "head", "getLock", "find", "answered"}
        /\ pc'[p] = "answered" => ans'[p] # "ok" \/ op'[p] = "unlock"
        /\ op'[p] = "unlock" => holds'[p] = NoLock
        /\ holds'[p] \in {holds[p], NoLock} /\ base'[p] \in {base[p], NoContent}
        /\ op'[p] \in {"lock", "restore"} => base'[p] = NoContent
    BY <1>6 DEF Asked, AskedWith, GivenTo
  <2>6. op'[p] \in {"lock", "unlock", "upload", "restore"}
    BY <2>4 DEF Calls
  <2>7. Reads(p)'
    BY <2>1, <2>2, <2>5, <2>6 DEF Reads
  <2>8. QED
    BY <2>3, <2>7
<1>7. ASSUME NEW p \in Procs, Take(p)
      PROVE  \A q \in Procs : Reads(q)'
  <2>1. Taken(p)
    BY <1>7, TakeStep
  <2>2. UNCHANGED <<store, content, lock, seen, deletion, unlocking>>
    BY <2>1 DEF Taken, unit
  <2>3. \A q \in Procs : Reads(q)
    BY <1>1, <2>2
  <2>4. \A q \in Procs \ {p} : Reads(q)'
    BY <2>1, <2>2, <2>3 DEF Taken, OthersStay, Reads, Refused
  <2>5. GivenTo(p) /\ op[p] # "none"
    BY <2>1 DEF Taken, Typed, TypeOK, StoreTypeOK
  <2>6. Reads(p)'
    BY <2>1, <2>2, <2>3, <2>5 DEF Taken, Reads, GivenTo
  <2>7. QED
    BY <2>4, <2>6
<1>8. ASSUME NEW p \in Procs, Serve(p)
      PROVE  \A q \in Procs : Reads(q)'
  <2>1. /\ Moved(p) /\ LockEffect(p) /\ RowEffect(p) /\ ContentEffect(p) /\ OthersStay(p)
        /\ UNCHANGED <<holds, base, unlocking, deletion>>
    BY <1>8, ServeStep
  <2>2. Sound /\ \A q \in Procs : Reads(q)
    BY <1>1, <2>1 DEF Moved
  <2>3. /\ GivenTo(p) /\ StageOf(p) /\ StageOf(p)' /\ Busy(p) /\ UNCHANGED <<op, arg, data, store>>
        /\ op[p] \in Calls \ {"none"}
    BY <2>1 DEF Typed, TypeOK, StoreTypeOK, Moved, Busy
  <2>4. ASSUME NEW q \in Procs \ {p}
        PROVE  Reads(q)'
    <3>1. pc[q] \notin {"archive", "prune", "put", "copy"}
      <4>1. SUFFICES ASSUME pc[q] \in {"archive", "prune", "put", "copy"}
                     PROVE  FALSE
        OBVIOUS
      <4>2. store = "s3" /\ Busy(q)
        BY <4>1 DEF Typed, StageOf, S3Stages, Busy
      <4>3. QED
        BY <2>2, <2>3, <4>2 DEF Alone, Sound, Guaranteed
    <3>2. holds[q] \notin unlocking \cup {NoLock} => content' = content
      BY <1>8, <2>2, OthersKeptOut
    <3>3. QED
      BY <2>1, <2>2, <3>1, <3>2 DEF OthersStay, Reads
  <2>5. pc'[p] \in {"archive", "prune", "put", "copy"} => ~Refused(arg[p])'
    <3>1. SUFFICES ASSUME pc'[p] \in {"archive", "prune", "put", "copy"}
                   PROVE  ~Refused(arg[p])'
      OBVIOUS
    <3>2. store = "s3"
      BY <2>3, <3>1 DEF StageOf, S3Stages
    <3>3. "blind" \notin seen'
      BY <2>3, <3>2 DEF Sound, Guaranteed
    <3>4. lock' = lock /\ (pc'[p] = "archive" => ~Refused(arg[p]))
      BY <2>1, <3>1, <3>3 DEF ContentEffect
    <3>5. ~Refused(arg[p])
      BY <2>1, <2>2, <3>1, <3>4 DEF ContentEffect, Reads
    <3>6. QED
      BY <2>3, <3>4, <3>5 DEF Refused
  <2>6. CASE op[p] = "upload"
    <3>1. pc'[p] \notin {"saveRow", "answered"} => content' = content /\ pc[p] \notin {"saveRow", "answered"}
      BY <2>1, <2>3, <2>6 DEF ContentEffect, RowEffect, Busy
    <3>2. pc'[p] = "saveRow" => content' = data[p]
      BY <2>1, <2>6 DEF ContentEffect
    <3>3. pc'[p] = "answered" /\ ans'[p] = "ok" => content' = content /\ pc[p] = "saveRow"
      BY <2>1, <2>6 DEF ContentEffect
    <3>4. pc'[p] # "idle"
      BY <2>1 DEF Moved
    <3>5. QED
      BY <2>1, <2>2, <2>3, <2>4, <2>5, <2>6, <3>1, <3>2, <3>3, <3>4 DEF Reads
  <2>7. CASE op[p] # "upload"
    <3>1. holds[p] = NoLock \/ base[p] = NoContent
      BY <2>2, <2>3, <2>7 DEF GivenTo, Calls, Sound
    <3>2. QED
      BY <2>1, <2>3, <2>4, <2>5, <2>7, <3>1 DEF Reads
  <2>8. QED
    BY <2>6, <2>7
<1>9. QED
  BY <1>2, <1>3, <1>4, <1>5, <1>6, <1>7, <1>8, RequestStep, Steps

\* The holder of the lock knows the content in every history.
LEMMA FreshAlways == Spec => [](Typed /\ Alone /\ Stands /\ History /\ Once /\ Fresh)
<1>1. Init => Once /\ Fresh
  BY DEF Init, StoreInit, Once, Fresh, Reads
<1>2. QED
  BY <1>1, StandsAlways, HistoryAlways, OnceStep, FreshStep, PTL DEF Spec

\* The holder of the lock overwrites the content it has read and no other: the
\* lock check of Upload and RestoreVersion keeps the others out, because no
\* two clients are told one lock ID.  The histories left out are those in which
\* a handler lent the ID of the row to a client, or over S3 calls overlapped or
\* Get took a lock it could not read for none.
THEOREM UpdatesAreKept == Spec => NoLostUpdate
<1> DEFINE Lost(p) ==
      /\ op[p] = "upload" /\ content' # content /\ pc[p] # pc'[p]
      /\ holds[p] = arg[p] /\ holds[p] \notin unlocking \cup {NoLock}
      /\ base[p] # NoContent
      /\ "borrowed" \notin seen /\ ~deletion /\ Guaranteed({"race", "blind"})
<1>1. ASSUME Typed, Fresh, [Next]_vars, NEW p \in Procs, Lost(p)
      PROVE  content = base[p]
  <2>1. Reads(p)
    BY <1>1 DEF Fresh, Sound
  <2>2. PICK q \in Procs : Serve(q)
    <3>1. ~(UNCHANGED vars \/ CreateUnit \/ CreateInBackground)
      BY <1>1 DEF vars, storeVars, unit, calls, CreateUnit, CreateRow, CreateInBackground
    <3>2. ~Crash
      BY <1>1, CrashStep
    <3>3. ASSUME NEW q \in Procs, Request(q) \/ Take(q)
          PROVE  FALSE
      <4>1. DownloadUnit(q) \/ Asked(q) \/ Taken(q)
        BY <1>1, <3>3, RequestStep, TakeStep
      <4>2. QED
        BY <1>1, <4>1 DEF DownloadUnit, Asked, Taken, storeVars, unit
    <3>4. QED
      BY <1>1, <3>1, <3>2, <3>3, Steps
  <2>3. Moved(q) /\ ContentEffect(q) /\ OthersStay(q)
    BY <1>1, <2>2, ServeStep
  <2>4. q = p
    BY <1>1, <2>3 DEF OthersStay
  <2>5. pc[p] \in {"put", "mem"}
    BY <1>1, <2>3, <2>4 DEF ContentEffect
  <2>6. QED
    BY <1>1, <2>1, <2>5 DEF Reads
<1>2. ASSUME Typed, Fresh, [Next]_vars
      PROVE  [\A p \in Procs : Lost(p) => content = base[p]]_vars
  BY <1>1, <1>2
<1>3. QED
  BY <1>2, FreshAlways, PTL DEF Spec, NoLostUpdate
==============================================================================
