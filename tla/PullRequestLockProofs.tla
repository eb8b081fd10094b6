------------------------ MODULE PullRequestLockProofs ------------------------
(***************************************************************************)
(* What acquiring a PR-level lock guarantees for every number of workers,  *)
(* pull requests and projects: when the store's Lock is a conditional      *)
(* write (DynamoDB, Azure), and over the rows of the backend's table.      *)
(***************************************************************************)
EXTENDS PullRequestLock, FiniteSetTheorems, TLAPS

LEMMA NoResourceType == NoResource \in Resources
  BY ResourcesAssumption DEF NoResource

-----------------------------------------------------------------------------
(* The rows that a deletion leaves: RowsAt keeps each of them and adds     *)
(* none.  Every position kept has a rank of its own among them.            *)

LEMMA PositionsFinite ==
  ASSUME NEW n \in Nat, NEW K \in SUBSET (1..n)
  PROVE  IsFiniteSet(K) /\ Cardinality(K) \in Nat
<1>1. IsFiniteSet(1..n)
  BY FS_Interval
<1>2. IsFiniteSet(K)
  BY <1>1, FS_Subset
<1> QED BY <1>2, FS_CardinalityType

LEMMA RankBounded ==
  ASSUME NEW n \in Nat, NEW K \in SUBSET (1..n), NEW k \in K
  PROVE  Cardinality(UpTo(K, k)) \in 1..Cardinality(K)
<1>1. IsFiniteSet(K) /\ Cardinality(K) \in Nat
  BY PositionsFinite
<1>2. UpTo(K, k) \in SUBSET K /\ k \in UpTo(K, k)
  BY DEF UpTo
<1>3. /\ IsFiniteSet(UpTo(K, k))
      /\ Cardinality(UpTo(K, k)) \in Nat
      /\ Cardinality(UpTo(K, k)) <= Cardinality(K)
  BY <1>1, <1>2, FS_Subset, FS_CardinalityType
<1>4. Cardinality(UpTo(K, k)) # 0
  BY <1>2, <1>3, FS_EmptySet
<1> QED BY <1>1, <1>3, <1>4

LEMMA RankGrows ==
  ASSUME NEW n \in Nat, NEW K \in SUBSET (1..n), NEW k \in K, NEW l \in K, k < l
  PROVE  Cardinality(UpTo(K, k)) # Cardinality(UpTo(K, l))
<1>1. IsFiniteSet(K)
  BY PositionsFinite
<1>2. UpTo(K, l) \in SUBSET K
  BY DEF UpTo
<1>3. UpTo(K, k) \in SUBSET UpTo(K, l)
  <2>1. ASSUME NEW m \in K, m <= k PROVE m <= l
    <3>1. m \in Int /\ k \in Int /\ l \in Int
      OBVIOUS
    <3> QED BY <2>1, <3>1
  <2> QED BY <2>1 DEF UpTo
<1>4. l \in UpTo(K, l) /\ l \notin UpTo(K, k)
  BY DEF UpTo
<1>5. IsFiniteSet(UpTo(K, l))
  BY <1>1, <1>2, FS_Subset
<1> QED BY <1>3, <1>4, <1>5, FS_Subset

LEMMA RankReached ==
  ASSUME NEW n \in Nat, NEW K \in SUBSET (1..n), NEW i \in 1..Cardinality(K)
  PROVE  \E k \in K : Cardinality(UpTo(K, k)) = i
<1> DEFINE f == [k \in K |-> Cardinality(UpTo(K, k))]
           T == 1..Cardinality(K)
<1>1. IsFiniteSet(K) /\ Cardinality(K) \in Nat
  BY PositionsFinite
<1>2. f \in [K -> T]
  BY RankBounded
<1>3. ASSUME NEW k \in K, NEW l \in K, f[k] = f[l] PROVE k = l
  <2>1. ~(k < l) /\ ~(l < k)
    BY <1>3, RankGrows
  <2> QED BY <2>1
<1>4. f \in Injection(K, T)
  BY <1>2, <1>3 DEF Injection, IsInjective
<1>5. IsFiniteSet(T) /\ Cardinality(T) = Cardinality(K)
  BY <1>1, FS_Interval
<1>6. f \in Surjection(K, T)
  BY <1>4, <1>5, FS_Injection
<1>7. PICK k \in K : f[k] = i
  BY <1>6 DEF Surjection
<1> QED BY <1>7

LEMMA RowsAtType ==
  ASSUME NEW S, NEW s \in Seq(S), NEW K \in SUBSET (1..Len(s))
  PROVE  /\ RowsAt(s, K) \in Seq(S)
         /\ Len(RowsAt(s, K)) = Cardinality(K)
<1>1. Len(s) \in Nat
  OBVIOUS
<1>3. Cardinality(K) \in Nat
  BY <1>1, PositionsFinite
<1>2. ASSUME NEW i \in 1..Cardinality(K)
      PROVE  s[CHOOSE k \in K : Cardinality(UpTo(K, k)) = i] \in S
  <2>1. \E k \in K : Cardinality(UpTo(K, k)) = i
    BY <1>1, RankReached
  <2>2. PICK l \in K : l = CHOOSE k \in K : Cardinality(UpTo(K, k)) = i
    BY <2>1
  <2>3. s[l] \in S
    OBVIOUS
  <2> QED BY <2>2, <2>3
<1>4. RowsAt(s, K) \in [1..Cardinality(K) -> S]
  BY <1>2 DEF RowsAt
<1> QED BY <1>3, <1>4

LEMMA RowsAtKeeps ==
  ASSUME NEW S, NEW s \in Seq(S), NEW K \in SUBSET (1..Len(s)), NEW k \in K
  PROVE  \E i \in 1..Len(RowsAt(s, K)) : RowsAt(s, K)[i] = s[k]
<1>1. Len(s) \in Nat
  OBVIOUS
<1>2. PICK i \in 1..Cardinality(K) : i = Cardinality(UpTo(K, k))
  BY <1>1, RankBounded
<1>3. PICK l \in K : l = CHOOSE m \in K : Cardinality(UpTo(K, m)) = i
  BY <1>2
<1>4. Cardinality(UpTo(K, l)) = i
  BY <1>2, <1>3
<1>5. k = l
  <2>1. ~(k < l) /\ ~(l < k)
    BY <1>1, <1>2, <1>4, RankGrows
  <2> QED BY <2>1
<1>6. RowsAt(s, K)[i] = s[l]
  BY <1>3 DEF RowsAt
<1> QED BY <1>5, <1>6, RowsAtType

-----------------------------------------------------------------------------
(* Type correctness.                                                       *)

LEMMA ReturnType ==
  ASSUME TypeOK, NEW w \in Workers, NEW label \in PCs,
         NEW rest \in SUBSET Resources, Return(w, label, rest)
  PROVE  /\ pc' \in [Workers -> PCs]
         /\ cmd' \in [Workers -> {"plan", "lock", "unlock"}]
         /\ todo' \in [Workers -> SUBSET Resources]
         /\ cur' \in [Workers -> Resources]
         /\ seen' \in [Workers -> PRs]
  BY NoResourceType, PrOfAssumption DEF Return, Goto, TypeOK

LEMMA ProceedType ==
  ASSUME TypeOK, NEW w \in Workers, Proceed(w)
  PROVE  /\ pc' \in [Workers -> PCs]
         /\ cmd' \in [Workers -> {"plan", "lock", "unlock"}]
         /\ todo' \in [Workers -> SUBSET Resources]
         /\ cur' \in [Workers -> Resources]
         /\ seen' \in [Workers -> PRs]
  <1>1. todo[w] \in SUBSET Resources /\ "next" \in PCs
    BY DEF TypeOK, PCs
  <1> QED BY <1>1, ReturnType DEF Proceed

LEMMA FailType ==
  ASSUME TypeOK, NEW w \in Workers, Fail(w)
  PROVE  /\ pc' \in [Workers -> PCs]
         /\ cmd' \in [Workers -> {"plan", "lock", "unlock"}]
         /\ todo' \in [Workers -> SUBSET Resources]
         /\ cur' \in [Workers -> Resources]
         /\ seen' \in [Workers -> PRs]
  <1>1. {} \in SUBSET Resources /\ "idle" \in PCs
    BY DEF PCs
  <1> QED BY <1>1, ReturnType, ProceedType DEF Fail

LEMMA GrantType ==
  ASSUME TypeOK, NEW r \in Resources, NEW p \in PRs, Grant(r, p)
  PROVE  /\ told' \in [Resources -> SUBSET PRs]
         /\ revoked' \in [Resources -> SUBSET PRs]
  BY DEF Grant, TypeOK

LEMMA RowOwnersType ==
  ASSUME TypeOK, NEW r \in Resources
  PROVE  RowOwners(r) \in SUBSET PRs
  BY DEF RowOwners, TypeOK

LEMMA DeleteRowsType ==
  ASSUME TypeOK, NEW r \in Resources, NEW p \in PRs, DeleteRows(r, p)
  PROVE  /\ rows' \in [Resources -> Seq(PRs)]
         /\ told' \in [Resources -> SUBSET PRs]
         /\ revoked' \in [Resources -> SUBSET PRs]
  BY RowOwnersType DEF DeleteRows, TypeOK

LEMMA RowsAfterLockType ==
  ASSUME TypeOK, NEW r \in Resources, NEW p \in PRs
  PROVE  RowsAfterLock(r, p) \in Seq(PRs)
  BY StoreAssumption DEF RowsAfterLock, TypeOK, Free

\* What the end of `digger unlock` leaves of the rows of r.
LEMMA RowsLeftType ==
  ASSUME TypeOK, NEW r \in Resources, NEW p \in PRs
  PROVE  /\ RowsLeft(r, p) \in SUBSET (1..Len(rows[r]))
         /\ RowsAt(rows[r], RowsLeft(r, p)) \in Seq(PRs)
<1>1. RowsLeft(r, p) \in SUBSET (1..Len(rows[r])) /\ rows[r] \in Seq(PRs)
  BY DEF RowsLeft, TypeOK
<1> QED BY <1>1, RowsAtType

LEMMA StepType ==
  ASSUME TypeOK, [Next]_vars
  PROVE  TypeOK'
<1> USE DEF TypeOK
<1>1. ASSUME NEW w \in Workers, Begin(w) PROVE TypeOK'
  <2>1. PICK c \in Commands, S \in SUBSET {r \in Resources : r.repo = PrOf[w].repo} :
          cmd' = [cmd EXCEPT ![w] = c] /\ todo' = [todo EXCEPT ![w] = S]
    BY <1>1 DEF Begin
  <2>2. c \in {"plan", "lock", "unlock"} /\ S \in SUBSET Resources
    BY CommandsAssumption
  <2> QED BY <1>1, <2>1, <2>2 DEF Begin, Goto, PCs, store
<1>2. ASSUME NEW w \in Workers, NextProject(w) PROVE TypeOK'
  BY <1>2 DEF NextProject, Goto, PCs, store
<1>3. ASSUME NEW w \in Workers, Finish(w) PROVE TypeOK'
  <2>1. CASE UNCHANGED store
    BY <1>3, <2>1 DEF Finish, Goto, PCs, store
  <2>2. CASE Store = "db" /\ cmd[w] = "unlock"
    <3>1. PICK p \in PRs : p = PrOf[w]
      BY PrOfAssumption
    <3>2. /\ rows' = [r \in Resources |-> RowsAt(rows[r], RowsLeft(r, p))]
          /\ told' = [r \in Resources |-> told[r] \ {p}]
          /\ revoked' = [r \in Resources |-> revoked[r] \cup
               {q \in RowOwners(r) : MatchedByLike(p, r, q) /\ q # p}]
      BY <1>3, <2>2, <3>1 DEF Finish
    <3>3. rows' \in [Resources -> Seq(PRs)]
      BY <3>2, RowsLeftType
    <3>4. told' \in [Resources -> SUBSET PRs] /\ revoked' \in [Resources -> SUBSET PRs]
      BY <3>2, RowOwnersType
    <3> QED BY <1>3, <3>3, <3>4 DEF Finish, Goto, PCs
  <2> QED BY <1>3, <2>1, <2>2 DEF Finish
<1>4. ASSUME NEW w \in Workers, VerifyGet(w) PROVE TypeOK'
  <2>1. CASE Free(cur[w]) \/ HeldBy(cur[w], PrOf[w])
    BY <1>4, <2>1 DEF VerifyGet, Goto, PCs, store
  <2>2. CASE ~(Free(cur[w]) \/ HeldBy(cur[w], PrOf[w]))
    <3>1. Head(rows[cur[w]]) \in PRs
      BY <2>2 DEF Free
    <3> QED BY <1>4, <2>2, <3>1 DEF VerifyGet, Goto, PCs, store
  <2> QED BY <2>1, <2>2
<1>5. ASSUME NEW w \in Workers, VerifyIsClosed(w) PROVE TypeOK'
  <2>1. CASE Fail(w)
    BY <1>5, <2>1, FailType DEF VerifyIsClosed, store
  <2>2. CASE Goto(w, "release") /\ UNCHANGED <<cmd, todo, cur, seen>>
    BY <1>5, <2>2 DEF VerifyIsClosed, Goto, PCs, store
  <2> QED BY <1>5, <2>1, <2>2 DEF VerifyIsClosed
<1>6. ASSUME NEW w \in Workers, VerifyRelease(w) PROVE TypeOK'
  <2>1. rows' \in [Resources -> Seq(PRs)] /\ told' \in [Resources -> SUBSET PRs]
          /\ revoked' \in [Resources -> SUBSET PRs]
    BY <1>6, DeleteRowsType, PrOfAssumption DEF VerifyRelease, store
  <2>2. CASE Fail(w)
    BY <1>6, <2>1, <2>2, FailType DEF VerifyRelease
  <2>3. CASE Goto(w, "get") /\ UNCHANGED <<cmd, todo, cur, seen>>
    BY <1>6, <2>1, <2>3 DEF VerifyRelease, Goto, PCs
  <2> QED BY <1>6, <2>2, <2>3 DEF VerifyRelease
<1>7. ASSUME NEW w \in Workers, LockGet(w) PROVE TypeOK'
  <2>1. CASE Goto(w, "insert") /\ UNCHANGED <<cmd, todo, cur, seen, store>>
    BY <1>7, <2>1 DEF LockGet, Goto, PCs, store
  <2>2. CASE Grant(cur[w], PrOf[w]) /\ Proceed(w) /\ UNCHANGED rows
    BY <1>7, <2>2, GrantType, ProceedType, PrOfAssumption DEF LockGet
  <2>3. CASE Fail(w) /\ UNCHANGED store
    BY <1>7, <2>3, FailType DEF LockGet, store
  <2> QED BY <1>7, <2>1, <2>2, <2>3 DEF LockGet
<1>8. ASSUME NEW w \in Workers, InternalLock(w) PROVE TypeOK'
  <2>1. RowsAfterLock(cur[w], PrOf[w]) \in Seq(PRs)
    BY RowsAfterLockType, PrOfAssumption
  <2>2. rows' \in [Resources -> Seq(PRs)]
    BY <1>8, <2>1 DEF InternalLock
  <2>3. told' \in [Resources -> SUBSET PRs] /\ revoked' \in [Resources -> SUBSET PRs]
    BY <1>8, GrantType, PrOfAssumption DEF InternalLock
  <2>4. /\ pc' \in [Workers -> PCs]
        /\ cmd' \in [Workers -> {"plan", "lock", "unlock"}]
        /\ todo' \in [Workers -> SUBSET Resources]
        /\ cur' \in [Workers -> Resources]
        /\ seen' \in [Workers -> PRs]
    BY <1>8, ProceedType, FailType DEF InternalLock
  <2> QED BY <1>8, <2>2, <2>3, <2>4 DEF InternalLock
<1>9. ASSUME NEW w \in Workers, UnlockGet(w) PROVE TypeOK'
  <2>1. CASE Proceed(w)
    BY <1>9, <2>1, ProceedType DEF UnlockGet, store
  <2>2. CASE Goto(w, "delete") /\ UNCHANGED <<cmd, todo, cur, seen>>
    BY <1>9, <2>2 DEF UnlockGet, Goto, PCs, store
  <2> QED BY <1>9, <2>1, <2>2 DEF UnlockGet
<1>10. ASSUME NEW w \in Workers, InternalUnlock(w) PROVE TypeOK'
  <2>1. rows' \in [Resources -> Seq(PRs)] /\ told' \in [Resources -> SUBSET PRs]
          /\ revoked' \in [Resources -> SUBSET PRs]
    BY <1>10, DeleteRowsType, PrOfAssumption DEF InternalUnlock, store
  <2> QED BY <1>10, <2>1, FailType, ProceedType DEF InternalUnlock
<1>11. ASSUME NEW w \in Workers, CallFails(w) PROVE TypeOK'
  BY <1>11, FailType DEF CallFails, store
<1>12. ASSUME NEW p \in PRs, ClosePR(p) PROVE TypeOK'
  BY <1>12 DEF ClosePR, local, store
<1>13. CASE UNCHANGED vars
  BY <1>13 DEF vars
<1> QED
  BY <1>1, <1>2, <1>3, <1>4, <1>5, <1>6, <1>7, <1>8, <1>9, <1>10, <1>11, <1>12,
     <1>13 DEF Next, Step

\* Every variable keeps its type, whichever store is in use.
THEOREM TypeCorrect == Spec => []TypeOK
<1>1. Init => TypeOK
  BY NoResourceType, PrOfAssumption DEF Init, TypeOK, PCs
<1>2. TypeOK /\ [Next]_vars => TypeOK'
  BY StepType
<1> QED BY <1>1, <1>2, PTL DEF Spec
-----------------------------------------------------------------------------
(* Acquisition: a holder is recorded, and there is one row at most.        *)

\* The inductive invariant.  A granted lock that nobody else deleted is the
\* one row of its resource; no command drops the answer of Lock().
OneRow == \A r \in Resources : Len(rows[r]) <= 1
AnswerHeeded == \A w \in Workers : cmd[w] # "lock"
LockInv == TypeOK /\ OneRow /\ GrantRecorded /\ AnswerHeeded

LEMMA OneRowIsOneOwner ==
  ASSUME NEW s \in Seq(PRs), Len(s) <= 1, NEW i \in 1..Len(s), NEW j \in 1..Len(s)
  PROVE  s[i] = s[j]
  <1>1. Len(s) \in Nat
    OBVIOUS
  <1>2. i = 1 /\ j = 1
    BY <1>1
  <1> QED BY <1>2

LEMMA LockInvExcludes == LockInv => ExclusiveUnlessRevoked
<1> SUFFICES ASSUME LockInv, NEW r \in Resources
             PROVE  Len(rows[r]) <= 1 /\ \A p, q \in Holders(r) : p = q
  BY DEF ExclusiveUnlessRevoked
<1>1. Len(rows[r]) <= 1 /\ rows[r] \in Seq(PRs)
  BY DEF LockInv, OneRow, TypeOK
<1>2. ASSUME NEW p \in Holders(r), NEW q \in Holders(r) PROVE p = q
  <2>1. p \in RowOwners(r) /\ q \in RowOwners(r)
    BY DEF LockInv, GrantRecorded
  <2>2. PICK i \in 1..Len(rows[r]), j \in 1..Len(rows[r]) :
          p = rows[r][i] /\ q = rows[r][j]
    BY <2>1 DEF RowOwners
  <2> QED BY <1>1, <2>2, OneRowIsOneOwner
<1> QED BY <1>1, <1>2

\* Deleting every row of a resource leaves no holder but revoked ones.
LEMMA DeleteRowsRecords ==
  ASSUME TypeOK, GrantRecorded, NEW r \in Resources, NEW p \in PRs, DeleteRows(r, p)
  PROVE  GrantRecorded'
<1>1. ASSUME NEW s \in Resources, NEW h \in Holders(s)' PROVE h \in RowOwners(s)'
  <2>1. CASE s = r
    <3>1. h \in told[r] \ {p} /\ h \notin revoked[r] \cup (RowOwners(r) \ {p})
      BY <1>1, <2>1 DEF DeleteRows, Holders, TypeOK
    <3>2. h \in RowOwners(r)
      BY <3>1 DEF GrantRecorded, Holders
    <3> QED BY <3>1, <3>2
  <2>2. CASE s # r
    <3>1. told'[s] = told[s] /\ revoked'[s] = revoked[s] /\ rows'[s] = rows[s]
      BY <2>2 DEF DeleteRows, TypeOK
    <3> QED BY <1>1, <3>1 DEF GrantRecorded, Holders, RowOwners
  <2> QED BY <2>1, <2>2
<1> QED BY <1>1 DEF GrantRecorded

LEMMA DeleteRowsKeeps ==
  ASSUME LockInv, NEW r \in Resources, NEW p \in PRs, DeleteRows(r, p)
  PROVE  OneRow' /\ GrantRecorded'
<1>1. OneRow'
  BY DEF DeleteRows, LockInv, OneRow, TypeOK
<1> QED BY <1>1, DeleteRowsRecords DEF LockInv

\* Granting r to p is sound when p owns a row of r and no row has gone.
LEMMA GrantKeeps ==
  ASSUME TypeOK, GrantRecorded, NEW r \in Resources, NEW p \in PRs, Grant(r, p),
         p \in RowOwners(r)',
         \A s \in Resources : RowOwners(s) \subseteq RowOwners(s)'
  PROVE  GrantRecorded'
<1>1. ASSUME NEW s \in Resources, NEW h \in Holders(s)' PROVE h \in RowOwners(s)'
  <2>1. CASE s = r /\ h = p
    BY <2>1
  <2>2. CASE ~(s = r /\ h = p)
    <3>1. h \in Holders(s)
      BY <1>1, <2>2 DEF Grant, Holders, TypeOK
    <3> QED BY <3>1 DEF GrantRecorded
  <2> QED BY <2>1, <2>2
<1> QED BY <1>1 DEF GrantRecorded

LEMMA StoreUnchangedKeeps ==
  ASSUME LockInv, UNCHANGED store
  PROVE  OneRow' /\ GrantRecorded'
  BY DEF store, LockInv, OneRow, GrantRecorded, Holders, RowOwners

\* A conditional write of p's row to r keeps the invariant, whether p is told
\* of it or the acknowledgement is lost.
LEMMA ConditionalWriteKeeps ==
  ASSUME LockInv, NEW r \in Resources, NEW p \in PRs,
         rows' = [rows EXCEPT ![r] = IF Free(r) THEN <<p>> ELSE rows[r]],
         (Free(r) /\ Grant(r, p)) \/ UNCHANGED <<told, revoked>>
  PROVE  OneRow' /\ GrantRecorded'
<1>1. rows \in [Resources -> Seq(PRs)]
  BY DEF LockInv, TypeOK
<1>2. OneRow'
  BY <1>1 DEF LockInv, OneRow
<1>3. ASSUME NEW s \in Resources PROVE RowOwners(s) \subseteq RowOwners(s)'
  <2>1. CASE s = r /\ Free(r)
    <3>1. RowOwners(s) = {}
      BY <2>1 DEF RowOwners, Free
    <3> QED BY <3>1
  <2>2. CASE ~(s = r /\ Free(r))
    <3>1. rows'[s] = rows[s]
      BY <1>1, <2>2
    <3> QED BY <3>1 DEF RowOwners
  <2> QED BY <2>1, <2>2
<1>4. CASE Free(r) /\ Grant(r, p)
  <2>1. rows'[r] = <<p>>
    BY <1>1, <1>4
  <2>a. \A q : Len(<<q>>) = 1 /\ <<q>>[1] = q
    OBVIOUS
  <2>2. 1 \in 1..Len(rows'[r]) /\ rows'[r][1] = p
    <3>1. Len(rows'[r]) = 1 /\ rows'[r][1] = p
      BY <2>1, <2>a, Zenon
    <3> QED BY <3>1
  <2>3. p \in RowOwners(r)'
    BY <2>2 DEF RowOwners
  <2>4. GrantRecorded'
    BY <1>3, <1>4, <2>3, GrantKeeps DEF LockInv
  <2> QED BY <1>2, <2>4
<1>5. CASE UNCHANGED <<told, revoked>>
  <2>1. ASSUME NEW s \in Resources PROVE Holders(s)' \subseteq RowOwners(s)'
    <3>1. Holders(s)' = Holders(s)
      BY <1>5 DEF Holders
    <3>2. Holders(s) \subseteq RowOwners(s)
      BY DEF LockInv, GrantRecorded
    <3> QED BY <1>3, <3>1, <3>2
  <2> QED BY <1>2, <2>1 DEF GrantRecorded
<1> QED BY <1>4, <1>5

LEMMA InternalLockKeeps ==
  ASSUME LockInv, AtomicStore, NEW w \in Workers, InternalLock(w)
  PROVE  OneRow' /\ GrantRecorded'
<1>1. PICK r \in Resources, p \in PRs : r = cur[w] /\ p = PrOf[w]
  BY PrOfAssumption DEF LockInv, TypeOK
<1>2. rows' = [rows EXCEPT ![r] = IF Free(r) THEN <<p>> ELSE rows[r]]
  BY <1>1 DEF InternalLock, RowsAfterLock, AtomicStore
<1>3. (Free(r) /\ Grant(r, p)) \/ UNCHANGED <<told, revoked>>
  BY <1>1 DEF InternalLock, LockAnswer, AtomicStore, LockInv, AnswerHeeded
<1> QED BY <1>2, <1>3, ConditionalWriteKeeps

LEMMA HeedStep ==
  ASSUME LockInv, "lock" \notin Commands, [Next]_vars
  PROVE  AnswerHeeded'
<1> USE DEF LockInv, AnswerHeeded, TypeOK
<1>1. ASSUME NEW w \in Workers, Begin(w) PROVE AnswerHeeded'
  BY <1>1, CommandsAssumption DEF Begin
<1>2. ASSUME NEW w \in Workers, Finish(w) PROVE AnswerHeeded'
  BY <1>2 DEF Finish
<1>3. ASSUME UNCHANGED cmd PROVE AnswerHeeded'
  BY <1>3
<1>4. ASSUME NEW w \in Workers, Fail(w) \/ Proceed(w) PROVE UNCHANGED cmd
  BY <1>4 DEF Fail, Proceed, Return
<1>5. ASSUME NEW w \in Workers, CallFails(w) \/ (Step(w) /\ ~Finish(w)) PROVE UNCHANGED cmd
  BY <1>4, <1>5 DEF Step, NextProject, VerifyGet, VerifyIsClosed, VerifyRelease,
     LockGet, InternalLock, UnlockGet, InternalUnlock, CallFails
<1>6. ASSUME NEW p \in PRs, ClosePR(p) PROVE UNCHANGED cmd
  BY <1>6 DEF ClosePR, local
<1>7. ASSUME UNCHANGED vars PROVE UNCHANGED cmd
  BY <1>7 DEF vars
<1> QED
  BY <1>1, <1>2, <1>3, <1>5, <1>6, <1>7 DEF Next

LEMMA LockInvStep ==
  ASSUME LockInv, AtomicStore, "lock" \notin Commands, [Next]_vars
  PROVE  LockInv'
<1>1. TypeOK' /\ AnswerHeeded'
  BY StepType, HeedStep DEF LockInv
<1>2. ASSUME NEW w \in Workers, VerifyRelease(w) \/ InternalUnlock(w)
      PROVE  OneRow' /\ GrantRecorded'
  <2>1. cur[w] \in Resources /\ PrOf[w] \in PRs
    BY PrOfAssumption DEF LockInv, TypeOK
  <2>2. DeleteRows(cur[w], PrOf[w]) \/ UNCHANGED store
    BY <1>2 DEF VerifyRelease, InternalUnlock
  <2> QED BY <2>1, <2>2, DeleteRowsKeeps, StoreUnchangedKeeps
<1>3. ASSUME NEW w \in Workers, LockGet(w) PROVE OneRow' /\ GrantRecorded'
  <2>1. PICK r \in Resources, p \in PRs : r = cur[w] /\ p = PrOf[w]
    BY PrOfAssumption DEF LockInv, TypeOK
  <2>2. CASE HeldBy(r, p) /\ Grant(r, p) /\ UNCHANGED rows
    <3>1. p \in RowOwners(r)
      BY <2>2 DEF HeldBy, RowOwners, LockInv, TypeOK
    <3>2. \A s \in Resources : RowOwners(s)' = RowOwners(s)
      BY <2>2 DEF RowOwners
    <3>3. GrantRecorded'
      BY <2>2, <3>1, <3>2, GrantKeeps DEF LockInv
    <3> QED BY <2>2, <3>3 DEF LockInv, OneRow
  <2> QED BY <1>3, <2>1, <2>2, StoreUnchangedKeeps DEF LockGet
<1>4. ASSUME NEW w \in Workers, Begin(w) \/ NextProject(w) \/ Finish(w) \/ VerifyGet(w)
             \/ VerifyIsClosed(w) \/ UnlockGet(w) \/ CallFails(w)
      PROVE  UNCHANGED store
  BY <1>4 DEF Begin, NextProject, Finish, VerifyGet, VerifyIsClosed, UnlockGet,
     CallFails, AtomicStore
<1>5. ASSUME NEW p \in PRs, ClosePR(p) PROVE UNCHANGED store
  BY <1>5 DEF ClosePR
<1>6. ASSUME UNCHANGED vars PROVE UNCHANGED store
  BY <1>6 DEF vars, store
<1>7. OneRow' /\ GrantRecorded'
  BY <1>2, <1>3, <1>4, <1>5, <1>6, StoreUnchangedKeeps, InternalLockKeeps
     DEF Next, Step
<1> QED BY <1>1, <1>7 DEF LockInv

\* With a conditional write and commands that heed the answer of Lock(), two
\* pull requests hold a project only after a worker of one deleted the lock
\* of the other, whatever the interleaving, the closings and the errors.
THEOREM AcquisitionSound ==
  AtomicStore /\ "lock" \notin Commands /\ Spec
    => [](ExclusiveUnlessRevoked /\ GrantRecorded)
<1>1. Init => LockInv
  <2>1. Init => TypeOK
    BY NoResourceType, PrOfAssumption DEF Init, TypeOK, PCs
  <2> QED BY <2>1 DEF Init, LockInv, OneRow, GrantRecorded, Holders, AnswerHeeded
<1>2. LockInv => ExclusiveUnlessRevoked /\ GrantRecorded
  BY LockInvExcludes DEF LockInv
<1>3. ASSUME AtomicStore, "lock" \notin Commands
      PROVE  Spec => [](ExclusiveUnlessRevoked /\ GrantRecorded)
  <2>1. LockInv /\ [Next]_vars => LockInv'
    BY <1>3, LockInvStep
  <2> QED BY <1>1, <1>2, <2>1, PTL DEF Spec
<1> QED BY <1>3

\* In particular no granted lock is lost or overwritten: the lock a pull
\* request was told it holds is its row in the store until a worker of another
\* one deletes it.  InternalLock.Lock of DynamoDbLock and StorageAccount.
THEOREM GrantsAreKept ==
  AtomicStore /\ "lock" \notin Commands /\ Spec => []GrantRecorded
BY AcquisitionSound, PTL

-----------------------------------------------------------------------------
(* The backend's table, where Lock() always adds a row: several pull       *)
(* requests may hold a project, and yet no grant is lost.                  *)

\* A holder whose rows are all still there is still recorded.
LEMMA NoRowGoneRecords ==
  ASSUME GrantRecorded, UNCHANGED <<told, revoked>>,
         \A s \in Resources : RowOwners(s) \subseteq RowOwners(s)'
  PROVE  GrantRecorded'
<1>1. ASSUME NEW s \in Resources PROVE Holders(s)' \subseteq RowOwners(s)'
  <2>1. Holders(s)' = Holders(s)
    BY DEF Holders
  <2>2. Holders(s) \subseteq RowOwners(s)
    BY DEF GrantRecorded
  <2> QED BY <2>1, <2>2
<1> QED BY <1>1 DEF GrantRecorded

\* A new row stands after the others.
LEMMA AppendKeepsRows ==
  ASSUME TypeOK, NEW r \in Resources, NEW p \in PRs,
         rows' = [rows EXCEPT ![r] = Append(@, p)]
  PROVE  /\ p \in RowOwners(r)'
         /\ \A s \in Resources : RowOwners(s) \subseteq RowOwners(s)'
<1>1. rows[r] \in Seq(PRs) /\ rows'[r] = Append(rows[r], p)
  BY DEF TypeOK
<1>2. /\ Len(rows'[r]) = Len(rows[r]) + 1
      /\ rows'[r][Len(rows[r]) + 1] = p
      /\ \A i \in 1..Len(rows[r]) : rows'[r][i] = rows[r][i]
  BY <1>1
<1>3. Len(rows[r]) \in Nat
  BY <1>1
<1>4. p \in RowOwners(r)' /\ RowOwners(r) \subseteq RowOwners(r)'
  BY <1>2, <1>3 DEF RowOwners
<1>5. ASSUME NEW s \in Resources, s # r PROVE RowOwners(s)' = RowOwners(s)
  <2>1. rows'[s] = rows[s]
    BY <1>5 DEF TypeOK
  <2> QED BY <2>1 DEF RowOwners
<1> QED BY <1>4, <1>5

\* The end of `digger unlock` takes its own grants back and records the
\* others whose rows its pattern matches: who still holds keeps a row.
LEMMA FinishRecords ==
  ASSUME TypeOK, GrantRecorded, NEW w \in Workers, Finish(w),
         Store = "db", cmd[w] = "unlock"
  PROVE  GrantRecorded'
<1>1. PICK p \in PRs : p = PrOf[w]
  BY PrOfAssumption
<1>2. /\ rows' = [r \in Resources |-> RowsAt(rows[r], RowsLeft(r, p))]
      /\ told' = [r \in Resources |-> told[r] \ {p}]
      /\ revoked' = [r \in Resources |-> revoked[r] \cup
           {q \in RowOwners(r) : MatchedByLike(p, r, q) /\ q # p}]
  BY <1>1 DEF Finish
<1>3. ASSUME NEW r \in Resources, NEW h \in Holders(r)' PROVE h \in RowOwners(r)'
  <2>1. h \in told[r] \ {p} /\ h \notin revoked[r]
          /\ ~(h \in RowOwners(r) /\ MatchedByLike(p, r, h) /\ h # p)
    BY <1>2, <1>3 DEF Holders
  <2>2. h \in RowOwners(r)
    BY <2>1 DEF GrantRecorded, Holders
  <2>3. PICK k \in 1..Len(rows[r]) : h = rows[r][k]
    BY <2>2 DEF RowOwners
  <2>4. k \in RowsLeft(r, p)
    BY <2>1, <2>2, <2>3 DEF RowsLeft
  <2>5. rows[r] \in Seq(PRs) /\ RowsLeft(r, p) \in SUBSET (1..Len(rows[r]))
    BY RowsLeftType DEF TypeOK
  <2>6. \E i \in 1..Len(rows'[r]) : rows'[r][i] = h
    BY <1>2, <2>3, <2>4, <2>5, RowsAtKeeps
  <2> QED BY <2>6 DEF RowOwners
<1> QED BY <1>3 DEF GrantRecorded

LEMMA TableStep ==
  ASSUME TypeOK, GrantRecorded, Store = "db", [Next]_vars
  PROVE  GrantRecorded'
<1>0. ASSUME UNCHANGED store PROVE GrantRecorded'
  BY <1>0 DEF store, GrantRecorded, Holders, RowOwners
<1>1. ASSUME NEW w \in Workers, VerifyRelease(w) \/ InternalUnlock(w)
      PROVE  GrantRecorded'
  <2>1. cur[w] \in Resources /\ PrOf[w] \in PRs
    BY PrOfAssumption DEF TypeOK
  <2>2. DeleteRows(cur[w], PrOf[w]) \/ UNCHANGED store
    BY <1>1 DEF VerifyRelease, InternalUnlock
  <2> QED BY <1>0, <2>1, <2>2, DeleteRowsRecords
<1>2. ASSUME NEW w \in Workers, LockGet(w) PROVE GrantRecorded'
  <2>1. PICK r \in Resources, p \in PRs : r = cur[w] /\ p = PrOf[w]
    BY PrOfAssumption DEF TypeOK
  <2>2. CASE HeldBy(r, p) /\ Grant(r, p) /\ UNCHANGED rows
    <3>1. p \in RowOwners(r)
      BY <2>2 DEF HeldBy, RowOwners, TypeOK
    <3>2. \A s \in Resources : RowOwners(s)' = RowOwners(s)
      BY <2>2 DEF RowOwners
    <3> QED BY <2>2, <3>1, <3>2, GrantKeeps
  <2> QED BY <1>0, <1>2, <2>1, <2>2 DEF LockGet
<1>3. ASSUME NEW w \in Workers, InternalLock(w) PROVE GrantRecorded'
  <2>1. PICK r \in Resources, p \in PRs : r = cur[w] /\ p = PrOf[w]
    BY PrOfAssumption DEF TypeOK
  <2>2. /\ rows' = [rows EXCEPT ![r] = Append(@, p)]
        /\ Grant(r, p) \/ UNCHANGED <<told, revoked>>
    BY <1>3, <2>1 DEF InternalLock, RowsAfterLock, LockAnswer, AtomicStore
  <2> QED BY <2>2, AppendKeepsRows, GrantKeeps, NoRowGoneRecords
<1>4. ASSUME NEW w \in Workers, Finish(w) PROVE GrantRecorded'
  <2>1. CASE cmd[w] = "unlock"
    BY <1>4, <2>1, FinishRecords
  <2>2. CASE cmd[w] # "unlock"
    BY <1>0, <1>4, <2>2 DEF Finish
  <2> QED BY <2>1, <2>2
<1>5. ASSUME NEW w \in Workers, Begin(w) \/ NextProject(w) \/ VerifyGet(w)
             \/ VerifyIsClosed(w) \/ UnlockGet(w) \/ CallFails(w)
      PROVE  UNCHANGED store
  BY <1>5 DEF Begin, NextProject, VerifyGet, VerifyIsClosed, UnlockGet, CallFails
<1>6. ASSUME NEW p \in PRs, ClosePR(p) PROVE UNCHANGED store
  BY <1>6 DEF ClosePR
<1>7. ASSUME UNCHANGED vars PROVE UNCHANGED store
  BY <1>7 DEF vars, store
<1> QED
  BY <1>0, <1>1, <1>2, <1>3, <1>4, <1>5, <1>6, <1>7 DEF Next, Step

\* Over the table, whatever the commands, closings, errors and lost answers:
\* the lock a pull request was told it holds is among the rows until a worker
\* of another one deletes it.  CreateDiggerLock, DeleteDiggerLock,
\* DeleteAllLocksAcquiredByPR.
THEOREM TableKeepsGrants ==
  Store = "db" /\ Spec => []GrantRecorded
<1>1. Init => GrantRecorded
  BY DEF Init, GrantRecorded, Holders
<1>2. ASSUME Store = "db" PROVE Spec => []GrantRecorded
  <2>1. TypeOK /\ GrantRecorded /\ [Next]_vars => GrantRecorded'
    BY <1>2, TableStep
  <2>2. Spec => []TypeOK
    BY TypeCorrect
  <2> QED BY <1>1, <2>1, <2>2, PTL DEF Spec
<1> QED BY <1>2

-----------------------------------------------------------------------------
(* While pull requests stay open and nobody unlocks, a project has one     *)
(* holder.                                                                 *)

\* Nothing that deletes a row has happened.
NoDeletion ==
  /\ closed = {}
  /\ \A r \in Resources : revoked[r] = {}
  /\ \A w \in Workers : cmd[w] = "plan" /\ pc[w] \notin {"release", "unlockGet", "delete"}

LEMMA GrantRevokesNone ==
  ASSUME revoked \in [Resources -> SUBSET PRs], \A s \in Resources : revoked[s] = {},
         NEW r \in Resources, NEW p \in PRs,
         Grant(r, p) \/ UNCHANGED revoked
  PROVE  \A s \in Resources : revoked'[s] = {}
<1>1. CASE revoked' = [revoked EXCEPT ![r] = @ \ {p}]
  BY <1>1
<1> QED BY <1>1 DEF Grant

LEMMA NoDeletionStep ==
  ASSUME LockInv, NoDeletion, Commands \subseteq {"plan"}, "close" \notin Env, AtomicStore,
         [Next]_vars
  PROVE  NoDeletion'
<1> USE DEF LockInv, TypeOK, NoDeletion
<1>0. ASSUME NEW w \in Workers, Fail(w) \/ Proceed(w), UNCHANGED closed,
             \A r \in Resources : revoked'[r] = {}
      PROVE  NoDeletion'
  BY <1>0 DEF Fail, Proceed, Return, Goto
<1>1. ASSUME NEW w \in Workers, Begin(w) PROVE NoDeletion'
  BY <1>1 DEF Begin, Goto, store
<1>2. ASSUME NEW w \in Workers, NextProject(w) \/ Finish(w) \/ VerifyGet(w) PROVE NoDeletion'
  BY <1>2 DEF NextProject, Finish, VerifyGet, Goto, store, AtomicStore
<1>3. ASSUME NEW w \in Workers, VerifyIsClosed(w) \/ CallFails(w) PROVE NoDeletion'
  BY <1>0, <1>3 DEF VerifyIsClosed, CallFails, store
<1>4. ASSUME NEW w \in Workers, LockGet(w) PROVE NoDeletion'
  <2>0. Grant(cur[w], PrOf[w]) \/ UNCHANGED revoked
    BY <1>4 DEF LockGet, store
  <2>1. UNCHANGED closed /\ \A r \in Resources : revoked'[r] = {}
    BY <1>4, <2>0, GrantRevokesNone, PrOfAssumption DEF LockGet
  <2>2. CASE Goto(w, "insert") /\ UNCHANGED <<cmd, todo, cur, seen, store>>
    BY <2>1, <2>2 DEF Goto
  <2> QED BY <1>0, <1>4, <2>1, <2>2 DEF LockGet
<1>5. ASSUME NEW w \in Workers, InternalLock(w) PROVE NoDeletion'
  <2>1. Grant(cur[w], PrOf[w]) \/ UNCHANGED revoked
    BY <1>5 DEF InternalLock
  <2>2. \A r \in Resources : revoked'[r] = {}
    BY <2>1, GrantRevokesNone, PrOfAssumption
  <2>3. UNCHANGED closed /\ (Fail(w) \/ Proceed(w))
    BY <1>5 DEF InternalLock
  <2> QED BY <1>0, <2>2, <2>3
<1>6. ASSUME NEW w \in Workers, VerifyRelease(w) \/ UnlockGet(w) \/ InternalUnlock(w)
      PROVE  FALSE
  BY <1>6 DEF VerifyRelease, UnlockGet, InternalUnlock
<1>7. ASSUME NEW p \in PRs, ClosePR(p) PROVE FALSE
  BY <1>7 DEF ClosePR
<1>8. ASSUME UNCHANGED vars PROVE NoDeletion'
  BY <1>8 DEF vars
<1> QED
  BY <1>1, <1>2, <1>3, <1>4, <1>5, <1>6, <1>7, <1>8 DEF Next, Step

\* The guarantee of the documentation, on the path that keeps it: a project is
\* held by one pull request at most when the store writes conditionally and
\* locks are neither unlocked nor left by closed pull requests.
THEOREM OpenPRsExclude ==
  AtomicStore /\ Commands \subseteq {"plan"} /\ "close" \notin Env /\ Spec
    => []MutualExclusion
<1> DEFINE I == LockInv /\ NoDeletion
<1>1. Init => I
  <2>1. Init => TypeOK
    BY NoResourceType, PrOfAssumption DEF Init, TypeOK, PCs
  <2> QED BY <2>1 DEF Init, LockInv, OneRow, GrantRecorded, Holders, AnswerHeeded, NoDeletion
<1>2. I => MutualExclusion
  <2>1. ASSUME I PROVE MutualExclusion
    <3>1. ExclusiveUnlessRevoked
      BY <2>1, LockInvExcludes
    <3>2. \A r \in Resources : Holders(r) = told[r]
      BY <2>1 DEF NoDeletion, Holders
    <3> QED BY <3>1, <3>2 DEF ExclusiveUnlessRevoked, MutualExclusion
  <2> QED BY <2>1
<1>3. ASSUME AtomicStore, Commands \subseteq {"plan"}, "close" \notin Env
      PROVE  Spec => []MutualExclusion
  <2>1. I /\ [Next]_vars => I'
    BY <1>3, LockInvStep, NoDeletionStep
  <2> HIDE DEF I
  <2> QED BY <1>1, <1>2, <2>1, PTL DEF Spec
<1> QED BY <1>3
=============================================================================
