--------------------------- MODULE PullRequestLock ---------------------------
(***************************************************************************)
(* PR-level project locks: libs/locking (PullRequestLock) over the four    *)
(* stores that hold them: the backend's digger_locks table ("db"),         *)
(* DynamoDB ("dynamo"), an Azure table ("azure"), a GCS bucket ("gcp").    *)
(*                                                                         *)
(* A worker is one execution of a digger command: a webhook handler of the *)
(* backend when Store = "db", a CI job running the CLI otherwise.  Every   *)
(* call to the store or to the VCS is one step, so workers interleave      *)
(* between the calls of Lock(), Unlock() and ForceUnlock().                *)
(***************************************************************************)
EXTENDS Naturals, Sequences, FiniteSets

CONSTANTS Repos,     \* repositories of one organisation
          Numbers,   \* pull request numbers (unique inside one repository)
          Projects,  \* project names of digger.yml
          Prefix,    \* <<a, b>> when the full name of a is a prefix of b's
          Workers,   \* concurrent executions of commands
          PrOf,      \* the pull request each worker acts for
          Store,     \* which implementation of locking.Lock is in use
          Commands,  \* commands users and events issue
          Env        \* what the environment may do: "close", "error", "lostAck"

PRs == [repo : Repos, num : Numbers]

\* LockId(): namespace#project
Resources == [repo : Repos, project : Projects]

NoResource == CHOOSE r \in Resources : TRUE

ASSUME ResourcesAssumption == Resources # {}
ASSUME PrOfAssumption == PrOf \in [Workers -> PRs]
ASSUME StoreAssumption == Store \in {"db", "dynamo", "azure", "gcp"}
ASSUME CommandsAssumption == Commands \subseteq {"plan", "lock", "unlock"}
ASSUME PrefixAssumption == Prefix \subseteq Repos \X Repos

\* The stores whose Lock is a conditional write of a single row per resource.
AtomicStore == Store \in {"dynamo", "azure"}

PCs == {"idle", "next", "verifyGet", "isClosed", "release", "get", "insert",
        "unlockGet", "delete"}

VARIABLES rows,     \* rows[r]: lock rows of resource r, oldest first
          closed,   \* pull requests that have been closed
          pc, cmd, todo, cur, seen,   \* the local state of each worker
          told,     \* told[r]: PRs whose last word on r was that they hold it
          revoked   \* revoked[r]: those whose row another PR's worker deleted

store == <<rows, told, revoked>>
local == <<pc, cmd, todo, cur, seen>>
vars == <<rows, closed, pc, cmd, todo, cur, seen, told, revoked>>

TypeOK ==
  /\ rows \in [Resources -> Seq(PRs)]
  /\ closed \in SUBSET PRs
  /\ pc \in [Workers -> PCs]
  /\ cmd \in [Workers -> {"plan", "lock", "unlock"}]
  /\ todo \in [Workers -> SUBSET Resources]
  /\ cur \in [Workers -> Resources]
  /\ seen \in [Workers -> PRs]
  /\ told \in [Resources -> SUBSET PRs]
  /\ revoked \in [Resources -> SUBSET PRs]

Init ==
  /\ rows = [r \in Resources |-> <<>>]
  /\ closed = {}
  /\ pc = [w \in Workers |-> "idle"]
  /\ cmd = [w \in Workers |-> "plan"]
  /\ todo = [w \in Workers |-> {}]
  /\ cur = [w \in Workers |-> NoResource]
  /\ seen = PrOf
  /\ told = [r \in Resources |-> {}]
  /\ revoked = [r \in Resources |-> {}]

-----------------------------------------------------------------------------
(* The stores.  GetLock returns the transaction id of the (oldest) row.    *)
(* Here and below, a definition that a comment calls a slip is not the     *)
(* code's: it is a plausible error in it, which a property has to notice.  *)

Free(r) == rows[r] = <<>>
HeldBy(r, p) == rows[r] # <<>> /\ Head(rows[r]) = p
RowOwners(r) == {rows[r][i] : i \in 1..Len(rows[r])}

\* Slips: the answer of the conditional write is ignored; the row is put
\* unconditionally, or a second one is added.
LockAnswerDropped(r) == TRUE
RowsOverwritten(r, p) == <<p>>
RowsAppended(r, p) == Append(rows[r], p)

\* InternalLock.Lock: does it answer true, and which rows are there after it?
\* The table has no unique index and the bucket write no precondition.
LockAnswer(r) == AtomicStore => Free(r)
RowsAfterLock(r, p) ==
  IF Store = "db" THEN Append(rows[r], p)
  ELSE IF Free(r) \/ Store = "gcp" THEN <<p>> ELSE rows[r]

\* InternalLock.Unlock deletes by resource, whoever owns the row.  Azure's
\* DeleteEntity fails when there is none; the bucket's Unlock looks first and
\* then deletes nothing, which the empty deletion is.
UnlockFails(r) == Store = "azure" /\ Free(r)

Goto(w, l) == pc' = [pc EXCEPT ![w] = l]

\* Lock() or Unlock() returns, and its local variables go out of scope.
Return(w, label, rest) ==
  /\ Goto(w, label)
  /\ todo' = [todo EXCEPT ![w] = rest]
  /\ cur' = [cur EXCEPT ![w] = NoResource]
  /\ seen' = [seen EXCEPT ![w] = PrOf[w]]
  /\ UNCHANGED cmd

Proceed(w) == Return(w, "next", todo[w])

\* An error ends a webhook handler, with the locks it has taken so far; the
\* CLI goes on with its other projects.
Fail(w) == IF Store = "db" THEN Return(w, "idle", {}) ELSE Proceed(w)

\* The command reports to pull request p that it holds resource r.
Grant(r, p) ==
  /\ told' = [told EXCEPT ![r] = @ \cup {p}]
  /\ revoked' = [revoked EXCEPT ![r] = @ \ {p}]

\* All rows of r are deleted by a worker of p.
DeleteRows(r, p) ==
  /\ rows' = [rows EXCEPT ![r] = <<>>]
  /\ told' = [told EXCEPT ![r] = @ \ {p}]
  /\ revoked' = [revoked EXCEPT ![r] = @ \cup (RowOwners(r) \ {p})]

-----------------------------------------------------------------------------
(* Commands: the loops over impacted projects.                             *)

Begin(w) ==
  /\ pc[w] = "idle"
  /\ \E c \in Commands, S \in SUBSET {r \in Resources : r.repo = PrOf[w].repo} :
       /\ S # {}
       /\ cmd' = [cmd EXCEPT ![w] = c]
       /\ todo' = [todo EXCEPT ![w] = S]
  /\ Goto(w, "next")
  /\ UNCHANGED <<cur, seen, closed, store>>

NextProject(w) ==
  /\ pc[w] = "next"
  /\ \E r \in todo[w] :
       /\ cur' = [cur EXCEPT ![w] = r]
       /\ todo' = [todo EXCEPT ![w] = @ \ {r}]
  /\ Goto(w, IF cmd[w] = "unlock" THEN "unlockGet" ELSE "verifyGet")
  /\ UNCHANGED <<cmd, seen, closed, store>>

\* resource LIKE repoFullName%, lock_id = number
MatchedByLike(p, r, q) == <<p.repo, r.repo>> \in Prefix /\ q.num = p.num

\* The rows of s at the positions K, in their order.  (SelectSeq with its rows
\* numbered: the k-th row is the one with k positions of K up to its own.)
UpTo(K, k) == {l \in K : l <= k}
RowsAt(s, K) ==
  [i \in 1..Cardinality(K) |-> s[CHOOSE k \in K : Cardinality(UpTo(K, k)) = i]]

\* Where the rows of r are that the deletion for p does not match.
RowsLeft(r, p) == {k \in 1..Len(rows[r]) : ~MatchedByLike(p, r, rows[r][k])}

\* The handler ends.  After `digger unlock` the backend also deletes every
\* row of this pull request, also for projects it no longer impacts.
Finish(w) ==
  /\ pc[w] = "next" /\ todo[w] = {}
  /\ Goto(w, "idle")
  /\ IF Store = "db" /\ cmd[w] = "unlock"
     THEN LET p == PrOf[w] IN
          /\ rows' = [r \in Resources |-> RowsAt(rows[r], RowsLeft(r, p))]
          /\ told' = [r \in Resources |-> told[r] \ {p}]
          /\ revoked' = [r \in Resources |-> revoked[r] \cup
               {q \in RowOwners(r) : MatchedByLike(p, r, q) /\ q # p}]
     ELSE UNCHANGED store
  /\ cmd' = [cmd EXCEPT ![w] = "plan"]
  /\ UNCHANGED <<todo, cur, seen, closed>>

-----------------------------------------------------------------------------
(* Lock()                                                                  *)

\* A slip: the resource is kept where the transaction id belongs.
VerifyGetOfResource(w) ==
  /\ pc[w] = "verifyGet"
  /\ IF Free(cur[w]) \/ HeldBy(cur[w], PrOf[w])
     THEN Goto(w, "get") /\ UNCHANGED seen
     ELSE Goto(w, "isClosed") /\ seen' = [seen EXCEPT ![w] = cur[w]]
  /\ UNCHANGED <<cmd, todo, cur, closed, store>>

VerifyGet(w) ==
  /\ pc[w] = "verifyGet"
  /\ IF Free(cur[w]) \/ HeldBy(cur[w], PrOf[w])
     THEN Goto(w, "get") /\ UNCHANGED seen
     ELSE Goto(w, "isClosed") /\ seen' = [seen EXCEPT ![w] = Head(rows[cur[w]])]
  /\ UNCHANGED <<cmd, todo, cur, closed, store>>

\* A slip: the test is inverted.
VerifyIsOpen(w) ==
  /\ pc[w] = "isClosed"
  /\ IF seen[w] \notin closed
     THEN Goto(w, "release") /\ UNCHANGED <<cmd, todo, cur, seen>>
     ELSE Fail(w)
  /\ UNCHANGED <<closed, store>>

VerifyIsClosed(w) ==
  /\ pc[w] = "isClosed"
  /\ IF seen[w] \in closed
     THEN Goto(w, "release") /\ UNCHANGED <<cmd, todo, cur, seen>>
     ELSE Fail(w)
  /\ UNCHANGED <<closed, store>>

VerifyRelease(w) ==
  /\ pc[w] = "release"
  /\ IF UnlockFails(cur[w])
     THEN Fail(w) /\ UNCHANGED store
     ELSE /\ DeleteRows(cur[w], PrOf[w])
          /\ \/ Goto(w, "get") /\ UNCHANGED <<cmd, todo, cur, seen>>
             \/ "lostAck" \in Env /\ Fail(w)
  /\ UNCHANGED closed

LockGet(w) ==
  /\ pc[w] = "get"
  /\ LET r == cur[w] IN
     \/ Free(r) /\ Goto(w, "insert") /\ UNCHANGED <<cmd, todo, cur, seen, store>>
     \/ HeldBy(r, PrOf[w]) /\ Grant(r, PrOf[w]) /\ Proceed(w) /\ UNCHANGED rows
     \/ ~Free(r) /\ ~HeldBy(r, PrOf[w]) /\ Fail(w) /\ UNCHANGED store
  /\ UNCHANGED closed

\* The boolean Lock() returns is dropped by `digger lock` (and by the
\* backend); plan and apply do nothing when it is false.  The bucket write
\* answers true even when it failed.
InternalLock(w) ==
  /\ pc[w] = "insert"
  /\ LET r == cur[w]  p == PrOf[w] IN
     \/ /\ rows' = [rows EXCEPT ![r] = RowsAfterLock(r, p)]
        /\ IF LockAnswer(r) \/ cmd[w] = "lock"
           THEN Grant(r, p) ELSE UNCHANGED <<told, revoked>>
        /\ Proceed(w)
     \/ /\ "lostAck" \in Env /\ Store # "gcp"
        /\ rows' = [rows EXCEPT ![r] = RowsAfterLock(r, p)]
        /\ Fail(w) /\ UNCHANGED <<told, revoked>>
     \/ /\ "error" \in Env /\ Store = "gcp"
        /\ Grant(r, p) /\ Proceed(w) /\ UNCHANGED rows
  /\ UNCHANGED closed

-----------------------------------------------------------------------------
(* Unlock() of the backend, ForceUnlock() of the CLI                        *)

UnlockGet(w) ==
  /\ pc[w] = "unlockGet"
  /\ IF IF Store = "db" THEN HeldBy(cur[w], PrOf[w]) ELSE ~Free(cur[w])
     THEN Goto(w, "delete") /\ UNCHANGED <<cmd, todo, cur, seen>>
     ELSE Proceed(w)
  /\ UNCHANGED <<closed, store>>

InternalUnlock(w) ==
  /\ pc[w] = "delete"
  /\ IF UnlockFails(cur[w])
     THEN Fail(w) /\ UNCHANGED store
     ELSE /\ DeleteRows(cur[w], PrOf[w])
          /\ Proceed(w) \/ ("lostAck" \in Env /\ Fail(w))
  /\ UNCHANGED closed

-----------------------------------------------------------------------------
(* A call of the store or the VCS fails before it has an effect.           *)
CallFails(w) ==
  /\ "error" \in Env
  /\ pc[w] \notin {"idle", "next"}
  /\ Fail(w)
  /\ UNCHANGED <<closed, store>>

ClosePR(p) ==
  /\ "close" \in Env
  /\ p \notin closed
  /\ closed' = closed \cup {p}
  /\ UNCHANGED <<local, store>>

Step(w) ==
  \/ NextProject(w) \/ Finish(w)
  \/ VerifyGet(w) \/ VerifyIsClosed(w) \/ VerifyRelease(w)
  \/ LockGet(w) \/ InternalLock(w)
  \/ UnlockGet(w) \/ InternalUnlock(w)

Next ==
  \/ \E w \in Workers : Begin(w) \/ Step(w) \/ CallFails(w)
  \/ \E p \in PRs : ClosePR(p)

Spec == Init /\ [][Next]_vars

\* A command that has begun runs to its end: every call returns.
FairSpec == Spec /\ \A w \in Workers : WF_vars(Step(w))
-----------------------------------------------------------------------------
(* Properties                                                              *)

Holders(r) == told[r] \ revoked[r]

\* What the PR-level locks are for ("this locking guarantees that no two PRs
\* can wipe off eachother's changes"): no project is held by two open pull
\* requests.  libs/locking/locking.go, Lock.
MutualExclusion ==
  \A r \in Resources : \A p, q \in told[r] \ closed : p = q

\* The lock a pull request was told it holds is in the store, unless a worker
\* of another pull request deleted it: no interleaving of Lock() calls loses
\* or overwrites a granted lock.  InternalLock.Lock of each store.
GrantRecorded ==
  \A r \in Resources : Holders(r) \subseteq RowOwners(r)

\* With a conditional write, acquiring is sound whatever the interleaving: two
\* pull requests told that they hold one project means that the lock of one
\* of them was deleted by the other side (a hanging lock's release or a force
\* unlock), never that both acquired it.  Lock of DynamoDbLock, StorageAccount.
ExclusiveUnlessRevoked ==
  \A r \in Resources : Len(rows[r]) <= 1 /\ \A p, q \in Holders(r) : p = q

\* `digger unlock` "will unlock projects in current PR": the rows it deletes,
\* project by project and at its end, are those of its own pull request.
UnlockReleasesOnlyOwn ==
  [][\A w \in Workers : pc[w] \in {"delete", "next"} /\ pc'[w] # pc[w] =>
       \A r \in Resources : RowOwners(r) \ RowOwners(r)' \subseteq {PrOf[w]}]_vars

\* A lock left behind by a closed pull request blocks nobody for ever: once
\* another pull request tries to lock the project, it goes away.
\* verifyNoHangingLocks.
HangingLockYields ==
  \A w \in Workers, r \in Resources, p \in PRs :
    (/\ pc[w] = "verifyGet" /\ cur[w] = r /\ PrOf[w] # p
     /\ HeldBy(r, p) /\ p \in closed) ~> ~HeldBy(r, p)
=============================================================================
