--------------------------- MODULE CliJobsProofs ---------------------------
(***************************************************************************)
(* Proofs about CliJobs, for any pull requests, projects, workflows,       *)
(* storages, faults and slots, and for any bounds.  Typed gives types to   *)
(* the variables and says what a job at a place of run() has in hand;      *)
(* Owner, Fresh, Told and Applies are the inductive invariants behind      *)
(* OneOwner, PreviewFresh, PolicyTold and MergesApplied.                   *)
(***************************************************************************)
EXTENDS CliJobs, FiniteSetTheorems, WellFoundedInduction, TLAPS

-----------------------------------------------------------------------------
(* Inductive invariants                                                    *)

\* What the job of j has in hand where it is: a project of RunJobs' loop, the
\* plan terraform just made, the command that leads there.
Course(j) ==
  LET J == job[j]
  IN  J # NoJob =>
        /\ J.pc \in {"next", "merge", "merging", "status"} \/ J.todo # {}
        /\ J.pc \in {"merge", "merging", "status"} => J.todo = {}
        /\ J.pc \in {"store", "show"} =>
             J.plan \in Plans /\ J.plan.base <= Len(infra[Project(j)])
        /\ J.pc \notin {"store", "show", "tfapply"} => J.plan = NoPlan
        /\ J.pc \in {"check", "retrieve", "tfapply"} => Command(j) = "apply"
        /\ J.pc \in {"tfplan", "store", "show"} => Command(j) = "plan"
        /\ J.pc \in {"unlock", "delete"} => Command(j) = "unlock"
        /\ J.pc = "retrieve" => storage # "none"

Typed == TypeOK /\ \A j \in Slots : Course(j)

\* A job that works on a project has its lock, unless that was taken away.
Owner ==
  \A j \in Slots, p \in Projects : WorksOn(j, p) /\ ~job[j].stray => lock[p] = job[j].pr

\* What was done to a project after a plan was of the plan's pull request, for
\* plans that were shown and for those about to be.
SinceMine(j) ==
  \A i \in job[j].plan.base + 1 .. Len(infra[Project(j)]) :
    infra[Project(j)][i].pr = job[j].pr \/ infra[Project(j)][i].stray

Fresh ==
  /\ PreviewFresh
  /\ \A p \in Projects : guarded[p] # -1 => lock[p] # NoPR
  /\ \A j \in Slots : (Running(j, "store") \/ Running(j, "show")) /\ ~job[j].stray => SinceMine(j)

\* An apply the policy was not told about, on its way to terraform, would find
\* no plan with violations, or has one without.
Told ==
  \A j \in Slots : job[j] # NoJob /\ ~job[j].known /\ ~job[j].moved =>
    /\ job[j].pc \in {"lock", "put", "retrieve"} /\ Command(j) = "apply" => ~Violates(j)
    /\ job[j].pc = "tfapply" /\ job[j].plan # NoPlan => job[j].plan.ok

AppliedBy(r, h) == \E i \in DOMAIN h : h[i].pr = r /\ h[i].at > 0
Has(cmds, c) == \E i \in DOMAIN cmds : cmds[i] = c

\* The keys and values of appliesPerProject: true only for what was applied, and
\* a key for every project whose apply is behind it.
Applying(j) ==
  LET J == job[j]
  IN  J # NoJob =>
        /\ \A p \in J.good : AppliedBy(J.pr, infra[p])
        /\ ~Has(J.cmds, "apply") => J.good = {}
        /\ \A i \in DOMAIN J.left : Has(J.cmds, J.left[i])
        /\ J.todo # {} /\ Has(J.cmds, "apply") => Project(j) \in J.tried \/ Has(J.left, "apply")
        /\ J.pc # "next" /\ J.todo # {} /\ Command(j) = "apply" => Project(j) \in J.tried
        /\ Has(J.cmds, "apply") /\ J.covers =>
             \/ impacted[J.pr] \subseteq J.tried \cup J.todo
             \/ J.todo = {} /\ ~(J.tried \subseteq J.good)
        /\ J.pc \in {"merge", "merging"} => J.covers /\ J.tried # {} /\ J.tried \subseteq J.good

Applies == \A j \in Slots : Applying(j)

-----------------------------------------------------------------------------
(* The records of jobs                                                     *)

\* The topological sort puts one of the projects that are left first.
LEMMA FirstOf ==
  ASSUME NEW ps \in SUBSET Projects, ps # {}
  PROVE  First(ps) \in ps
<1> DEFINE places == {Order[p] : p \in ps}
<1>1. places \subseteq Nat /\ places # {}
  BY ProjectsAssumption
<1>2. PICK n \in places : \A m \in places : ~ (<<m, n>> \in OpToRel(<, Nat))
  <2> HIDE DEF places
  <2> QED BY <1>1, WFMin, NatLessThanWellFounded, Zenon
<1>3. PICK p \in ps : Order[p] = n
  OBVIOUS
<1>4. \A q \in ps : Order[p] <= Order[q]
  <2> TAKE q \in ps
  <2>1. Order[q] \in places /\ Order[q] \in Nat /\ Order[p] \in Nat
    BY ProjectsAssumption
  <2>2. ~ (Order[q] < Order[p])
    BY <1>2, <1>3, <2>1 DEF OpToRel
  <2> QED BY <2>1, <2>2
<1> QED BY <1>4 DEF First

\* The commands a job has left when the first of them is over.
LEMMA TailOf ==
  ASSUME NEW S, NEW s \in Seq(S), s # <<>>
  PROVE  /\ Head(s) \in S /\ Len(s) \in Nat \ {0}
         /\ Len(s) # 1 => Len(s) > 1 /\ Tail(s) \in Seq(S) /\ Tail(s) # <<>>
         /\ \A i \in DOMAIN Tail(s) : i + 1 \in DOMAIN s /\ Tail(s)[i] = s[i + 1]
<1>1. Len(s) \in Nat \ {0} /\ Tail(s) \in Seq(S) /\ Len(Tail(s)) = Len(s) - 1
  OBVIOUS
<1>2. Head(s) \in S
  OBVIOUS
<1>3. Len(s) # 1 => Len(s) > 1 /\ Tail(s) # <<>>
  <2>1. Len(<<>>) = 0
    OBVIOUS
  <2>2. Tail(s) = <<>> => Len(Tail(s)) = 0
    BY <2>1, Zenon
  <2> QED BY <1>1, <2>2
<1>4. ASSUME NEW i \in DOMAIN Tail(s)
      PROVE  i + 1 \in DOMAIN s /\ Tail(s)[i] = s[i + 1]
  <2>1. i \in 1..Len(s) - 1
    BY <1>1, <1>4
  <2>2. i + 1 \in DOMAIN s
    BY <1>1, <2>1
  <2> QED BY <1>1, <2>1, <2>2
<1> QED BY <1>1, <1>2, <1>3, <1>4

\* A command is over: back in the loop, with nothing in hand.
Over(J, K) ==
  /\ K \in JobRecords /\ K.pc = "next" /\ K.plan = NoPlan
  /\ ~K.stray /\ ~K.known /\ ~K.moved
  /\ K.pr = J.pr /\ K.at = J.at /\ K.covers = J.covers /\ K.cmds = J.cmds

\* The loop goes to the next command of the job, or to the next job.
Passes(J, K, p) ==
  \/ Len(J.left) > 1 /\ K.todo = J.todo /\ K.left = Tail(J.left)
  \/ Len(J.left) = 1 /\ K.todo = J.todo \ {p} /\ K.left = J.cmds

Refused(J, K, p) == K.tried = J.tried \cup {p} /\ K.good = J.good \ {p}

\* What Done, Denied, Failed and Aborted make of the record of a job.
LEMMA CommandEnds ==
  ASSUME TypeOK, NEW j \in Slots, job[j] # NoJob, job[j].todo # {}
  PROVE  /\ Project(j) \in job[j].todo /\ Project(j) \in Projects /\ Command(j) \in Commands
         /\ Over(job[j], Done(j)) /\ Passes(job[j], Done(j), Project(j))
         /\ Done(j).tried = job[j].tried /\ Done(j).good = job[j].good
         /\ Over(job[j], Denied(j)) /\ Passes(job[j], Denied(j), Project(j))
         /\ Refused(job[j], Denied(j), Project(j))
         /\ Over(job[j], Failed(j)) /\ Refused(job[j], Failed(j), Project(j))
         /\ Failed(j).todo = job[j].todo \ {Project(j)} /\ Failed(j).left = job[j].cmds
         /\ Over(job[j], Aborted(j)) /\ Refused(job[j], Aborted(j), Project(j))
         /\ Aborted(j).todo = {} /\ Aborted(j).left = job[j].cmds
<1> DEFINE J == job[j]
<1> DEFINE p == Project(j)
<1>1. J \in JobRecords
  BY DEF TypeOK
<1>2. p \in J.todo /\ p \in Projects
  BY <1>1, FirstOf DEF JobRecords, Project
<1>3. J.left \in Seq(Commands) /\ J.left # <<>> /\ J.cmds \in Seq(Commands) \ {<<>>}
  BY <1>1 DEF JobRecords
<1>4. Command(j) \in Commands /\ Len(J.left) \in Nat \ {0}
  BY <1>3, TailOf DEF Command
<1>5. Len(J.left) # 1 => Tail(J.left) \in Seq(Commands) \ {<<>>} /\ Len(J.left) > 1
  <2> HIDE DEF J
  <2> QED BY <1>3, TailOf
<1>6. /\ Over(J, Done(j)) /\ Passes(J, Done(j), p)
      /\ Done(j).tried = J.tried /\ Done(j).good = J.good
  <2>1. CASE Len(J.left) = 1
    BY <1>1, <1>2, <1>3, <2>1, ZenonT(60) DEF Done, NextJob, JobRecords, Over, Passes, PCs
  <2>2. CASE Len(J.left) # 1
    BY <1>1, <1>2, <1>3, <1>5, <2>2 DEF Done, JobRecords, Over, Passes, PCs
  <2> QED BY <2>1, <2>2
<1> DEFINE D == Done(j)
<1>7. D \in JobRecords
  BY <1>6 DEF Over
<1> HIDE DEF J, p, D
<1>8. Denied(j) = [D EXCEPT !.tried = @ \cup {p}, !.good = @ \ {p}]
  BY DEF D, p, Denied
<1>9. Over(J, Denied(j)) /\ Passes(J, Denied(j), p) /\ Refused(J, Denied(j), p)
  <2>1. Over(J, D) /\ Passes(J, D, p) /\ D.tried = J.tried /\ D.good = J.good
    BY <1>6 DEF D
  <2>2. D.tried \cup {p} \in SUBSET Projects /\ D.good \ {p} \in SUBSET Projects
    BY <1>2, <1>7 DEF JobRecords
  <2>3. Denied(j) = [[D EXCEPT !.tried = D.tried \cup {p}] EXCEPT !.good = D.good \ {p}]
    BY <1>7, <1>8 DEF JobRecords
  <2>4. Denied(j) \in JobRecords
    <3> DEFINE t == D.tried \cup {p}
    <3> DEFINE g == D.good \ {p}
    <3> HIDE DEF t, g
    <3>1. t \in SUBSET Projects /\ g \in SUBSET Projects
      BY <2>2 DEF t, g
    <3>2. [D EXCEPT !.tried = t] \in JobRecords
      BY <1>7, <3>1 DEF JobRecords
    <3>3. [[D EXCEPT !.tried = t] EXCEPT !.good = g] \in JobRecords
      BY <3>1, <3>2 DEF JobRecords
    <3> QED BY <2>3, <3>3 DEF t, g
  <2> QED BY <1>7, <1>8, <2>1, <2>4 DEF JobRecords, Over, Passes, Refused
<1> DEFINE E == Denied(j)
<1>10. E \in JobRecords /\ E.todo \ {p} = J.todo \ {p}
  BY <1>9 DEF Over, Passes
<1> HIDE DEF E
<1>11. Failed(j) = [E EXCEPT !.todo = @ \ {p}, !.left = J.cmds]
  BY DEF Failed, NextJob, E, p, J
<1>12. /\ Over(J, Failed(j)) /\ Refused(J, Failed(j), p)
       /\ Failed(j).todo = J.todo \ {p} /\ Failed(j).left = J.cmds
  BY <1>3, <1>9, <1>10, <1>11, ZenonT(60) DEF JobRecords, Over, Refused, E
<1> DEFINE F == Failed(j)
<1>13. F \in JobRecords
  BY <1>12 DEF Over
<1> HIDE DEF F
<1>14. Aborted(j) = [F EXCEPT !.todo = {}]
  BY DEF Aborted, F
<1>15. /\ Over(J, Aborted(j)) /\ Refused(J, Aborted(j), p)
       /\ Aborted(j).todo = {} /\ Aborted(j).left = J.cmds
  BY <1>12, <1>13, <1>14 DEF JobRecords, Over, Refused, F
<1> QED BY <1>2, <1>4, <1>6, <1>9, <1>12, <1>15 DEF J, p

-----------------------------------------------------------------------------
(* What each step does to the job it is of, and to what jobs share         *)

Others(j) == \A k \in Slots \ {j} : job'[k] = job[k]
Quiet(j) == Others(j) /\ UNCHANGED <<lock, stores, infra, guarded>>

\* A job that goes to l with all it has, up to its plan, what it told the
\* policy and the table of applies.
Moves(J, K, l) ==
  /\ J \in JobRecords /\ K \in JobRecords /\ K.pc = l
  /\ K.pr = J.pr /\ K.at = J.at /\ K.covers = J.covers /\ K.cmds = J.cmds
  /\ K.todo = J.todo /\ K.left = J.left /\ K.stray = J.stray
Counts(J, K) == K.tried = J.tried /\ K.good = J.good
Hands(J, K) == K.plan = J.plan /\ K.known = J.known /\ K.moved = J.moved
MovesOn(J, K, l) == Moves(J, K, l) /\ Counts(J, K) /\ Hands(J, K)

Completes(J, K, p) == Over(J, K) /\ Passes(J, K, p) /\ Counts(J, K)
GivesUp(J, K, p) ==
  /\ Over(J, K) /\ Refused(J, K, p)
  /\ \/ Passes(J, K, p)
     \/ (K.todo = J.todo \ {p} \/ K.todo = {}) /\ K.left = J.cmds

\* At l, with a project.
At(j, ls) ==
  /\ job[j] \in JobRecords /\ job[j] # NoJob /\ job[j].pc \in ls /\ job[j].todo # {}
  /\ Project(j) \in job[j].todo /\ Project(j) \in Projects /\ Command(j) \in Commands

GoesOn(j) ==
  /\ At(j, {"next"}) /\ Quiet(j)
  /\ \/ Command(j) = "apply" /\ Moves(job[j], job'[j], "check") /\ Hands(job[j], job'[j])
        /\ Refused(job[j], job'[j], Project(j))
     \/ Command(j) = "unlock" /\ MovesOn(job[j], job'[j], "unlock")
     \/ Command(j) \in {"plan", "lock"} /\ MovesOn(job[j], job'[j], "lock")
Drops(j) ==
  /\ At(j, PCs) /\ Quiet(j) /\ GivesUp(job[j], job'[j], Project(j))
Grants(j) ==
  /\ At(j, {"lock", "put"}) /\ lock[Project(j)] \in {NoPR, job[j].pr}
  /\ lock' = [lock EXCEPT ![Project(j)] = job[j].pr]
  /\ Others(j) /\ UNCHANGED <<stores, infra, guarded>>
  /\ \/ Command(j) = "plan" /\ MovesOn(job[j], job'[j], "tfplan")
     \/ Command(j) = "apply" /\ storage = "none" /\ MovesOn(job[j], job'[j], "tfapply")
     \/ Command(j) = "apply" /\ storage # "none" /\ MovesOn(job[j], job'[j], "retrieve")
     \/ Command(j) \notin {"plan", "apply"} /\ Completes(job[j], job'[j], Project(j))
Puts(j) == At(j, {"lock"}) /\ Quiet(j) /\ MovesOn(job[j], job'[j], "put")
Loses(j) ==
  /\ At(j, {"put"}) /\ Quiet(j)
  /\ \/ job'[j] = NoJob
     \/ Command(j) # "apply" /\ Completes(job[j], job'[j], Project(j))
Frees(j) ==
  /\ At(j, {"lock", "unlock"})
  /\ lock' = [lock EXCEPT ![Project(j)] = NoPR] /\ guarded' = [guarded EXCEPT ![Project(j)] = -1]
  /\ UNCHANGED <<stores, infra>>
  /\ \A k \in Slots \ {j} :
       job'[k] = IF WorksOn(k, Project(j)) THEN [job[k] EXCEPT !.stray = TRUE] ELSE job[k]
  /\ \/ job[j].pc = "lock" /\ job'[j] = job[j]
     \/ job[j].pc = "unlock" /\ Command(j) = "unlock" /\ MovesOn(job[j], job'[j], "delete")
Deletes(j) ==
  /\ At(j, {"delete"}) /\ Others(j) /\ UNCHANGED <<lock, latest, infra, guarded>>
  /\ Command(j) = "unlock" /\ Completes(job[j], job'[j], Project(j))
  /\ \/ stored' = [stored EXCEPT ![job[j].pr][Project(j)] = NoPlan]
     \/ UNCHANGED stored
PlansIt(j) ==
  /\ At(j, {"tfplan"}) /\ Quiet(j)
  /\ Moves(job[j], job'[j], "store") \/ Moves(job[j], job'[j], "show")
  /\ Counts(job[j], job'[j])
  /\ job'[j].plan \in Plans /\ job'[j].plan.base = Len(infra[Project(j)])
Stores(j) ==
  /\ At(j, {"store"}) /\ UNCHANGED <<lock, infra, guarded>>
  /\ stored' = [stored EXCEPT ![job[j].pr][Project(j)] = job[j].plan]
  /\ latest' = [latest EXCEPT ![Project(j)] = job[j].pr]
  /\ MovesOn(job[j], job'[j], "show")
  /\ \A k \in Slots \ {j} :
       job'[k] = IF job[k] # NoJob /\ job[k].todo # {} /\ job[k].pr = job[j].pr
                    /\ Project(k) = Project(j) /\ job[k].pc \in {"lock", "put", "retrieve"}
                 THEN [job[k] EXCEPT !.moved = Command(k) = "apply"] ELSE job[k]
Shows(j) ==
  /\ At(j, {"show"}) /\ Others(j) /\ UNCHANGED <<lock, stores, infra>>
  /\ guarded' = IF job[j].stray THEN guarded
                ELSE [guarded EXCEPT ![Project(j)] = job[j].plan.base]
  /\ Command(j) = "plan"
  /\ Completes(job[j], job'[j], Project(j)) \/ GivesUp(job[j], job'[j], Project(j))
Asks(j) ==
  /\ At(j, {"check"}) /\ Quiet(j) /\ Moves(job[j], job'[j], "lock") /\ Counts(job[j], job'[j])
  /\ job'[j].plan = job[j].plan /\ job'[j].known = Violates(j) /\ ~job'[j].moved
Retrieves(j) ==
  /\ At(j, {"retrieve"}) /\ Quiet(j) /\ Moves(job[j], job'[j], "tfapply") /\ Counts(job[j], job'[j])
  /\ job'[j].plan = PlanOf(j) /\ job'[j].known = job[j].known /\ job'[j].moved = job[j].moved
Alters(j) ==
  /\ At(j, {"tfapply"}) /\ Others(j) /\ UNCHANGED <<lock, stores, guarded>>
  /\ \E at \in 0..MaxPushes :
       /\ infra' = [infra EXCEPT ![Project(j)] =
                      Append(@, [pr |-> job[j].pr, at |-> at, stray |-> job[j].stray])]
       /\ \/ /\ at > 0 /\ Over(job[j], job'[j]) /\ Passes(job[j], job'[j], Project(j))
             /\ job'[j].tried = job[j].tried
             /\ job'[j].good = job[j].good \cup {Project(j)}
          \/ GivesUp(job[j], job'[j], Project(j))
Finishes(j) ==
  /\ job[j] \in JobRecords /\ job[j] # NoJob /\ job[j].todo = {} /\ Quiet(j)
  /\ \/ job'[j] = NoJob \/ MovesOn(job[j], job'[j], "status")
     \/ /\ MovesOn(job[j], job'[j], "merge")
        /\ job[j].covers /\ job[j].tried # {} /\ job[j].tried \subseteq job[j].good
     \/ job[j].pc = "merge" /\ MovesOn(job[j], job'[j], "merging")
Starts(j) ==
  /\ job[j] = NoJob /\ Quiet(j)
  /\ LET K == job'[j]
     IN  /\ K \in JobRecords /\ K.pc = "next" /\ K.plan = NoPlan
         /\ K.todo # {} /\ K.left = K.cmds /\ K.tried = {} /\ K.good = {}
         /\ K.covers <=> K.todo = impacted[K.pr]
         /\ ~K.stray /\ ~K.known /\ ~K.moved

Effect(j) ==
  \/ GoesOn(j) \/ Drops(j) \/ Grants(j) \/ Puts(j) \/ Loses(j) \/ Frees(j) \/ Deletes(j)
  \/ PlansIt(j) \/ Stores(j) \/ Shows(j) \/ Asks(j) \/ Retrieves(j) \/ Alters(j) \/ Finishes(j)

\* Goto moves a job to another place of the same command.
LEMMA MovesByGoto ==
  ASSUME NEW J \in JobRecords, NEW l \in PCs
  PROVE  MovesOn(J, [J EXCEPT !.pc = l], l)
BY DEF JobRecords, MovesOn, Moves, Counts, Hands

\* A command that is over, done or given up.
LEMMA EndsOf ==
  ASSUME TypeOK, NEW j \in Slots, job[j] # NoJob, job[j].todo # {}
  PROVE  /\ At(j, {job[j].pc}) /\ At(j, PCs)
         /\ Completes(job[j], Done(j), Project(j))
         /\ GivesUp(job[j], Denied(j), Project(j)) /\ GivesUp(job[j], Failed(j), Project(j))
         /\ GivesUp(job[j], Aborted(j), Project(j))
<1>1. job[j] \in JobRecords
  BY DEF TypeOK
<1>2. job[j].pc \in PCs
  BY <1>1 DEF JobRecords
<1> QED BY <1>1, <1>2, CommandEnds DEF At, Completes, GivesUp, Counts

\* A step that is only of job j.
LEMMA OnlyOf ==
  ASSUME TypeOK, NEW j \in Slots, NEW rec, Becomes(j, rec)
  PROVE  job'[j] = rec /\ Others(j) /\ (UNCHANGED <<lock, stores, infra, guarded>> => Quiet(j))
BY DEF TypeOK, Becomes, Others, Quiet

\* Every step has one of the effects above.
LEMMA StepEffect ==
  ASSUME Typed, NEW j \in Slots, Step(j)
  PROVE  Effect(j)
<1> DEFINE J == job[j]
<1> DEFINE K == job'[j]
<1> DEFINE p == Project(j)
<1>1. TypeOK /\ Course(j)
  BY DEF Typed
<1>2. J # NoJob
  BY DEF Step, NextCommand, Lock, PutLock, Unlock, DeletePlan, TerraformPlan, StorePlan, ShowPlan,
         CheckApply, RetrievePlan, TerraformApply, Report, CheckMerge, Merge, Succeed, Running
<1>3. J \in JobRecords
  BY <1>1, <1>2 DEF TypeOK
<1>4. \A l \in PCs : MovesOn(J, Goto(j, l), l)
  BY <1>3, MovesByGoto DEF Goto
<1>5. J.todo # {} => /\ At(j, {J.pc}) /\ At(j, PCs) /\ Completes(J, Done(j), p)
                     /\ GivesUp(J, Denied(j), p) /\ GivesUp(J, Failed(j), p)
                     /\ GivesUp(J, Aborted(j), p)
  BY <1>1, <1>2, EndsOf
<1>6. J.pc \notin {"next", "merge", "merging", "status"} => J.todo # {}
  BY <1>1, <1>2 DEF Course
<1>7. \A rec : Only(j, rec) => K = rec /\ Quiet(j)
  BY <1>1, OnlyOf DEF Only
<1>8. \A rec : Becomes(j, rec) => K = rec /\ Others(j)
  BY <1>1, OnlyOf
<1>9. ASSUME Only(j, Denied(j)) \/ Only(j, Failed(j)) \/ Only(j, Aborted(j)), J.todo # {}
      PROVE  Drops(j)
  BY <1>5, <1>7, <1>9 DEF Drops
<1> HIDE DEF J, K, p
<1>10. CASE NextCommand(j)
  <2>1. J.pc = "next" /\ J.todo # {}
    BY <1>10 DEF NextCommand, Running, J
  <2>2. CASE \E rec \in {Denied(j), Failed(j), Aborted(j)} : Only(j, rec)
    BY <1>9, <2>1, <2>2 DEF Effect
  <2>3. CASE Command(j) = "apply" /\ Only(j, [Goto(j, "check") EXCEPT !.tried = @ \cup {p}, !.good = @ \ {p}])
    <3> DEFINE G == Goto(j, "check")
    <3>1. MovesOn(J, G, "check")
      BY <1>4 DEF PCs
    <3> HIDE DEF G
    <3>2. K = [G EXCEPT !.tried = @ \cup {p}, !.good = @ \ {p}]
      BY <1>7, <2>3 DEF G
    <3>3. G \in JobRecords /\ p \in Projects
      BY <1>5, <2>1, <3>1 DEF MovesOn, Moves, At, p
    <3> DEFINE t == G.tried \cup {p}
    <3> DEFINE g == G.good \ {p}
    <3>4. t \in SUBSET Projects /\ g \in SUBSET Projects
      BY <3>3 DEF JobRecords
    <3>5. K = [[G EXCEPT !.tried = t] EXCEPT !.good = g]
      BY <3>2, <3>3 DEF JobRecords
    <3>6. K.tried = t /\ K.good = g
      BY <3>3, <3>5 DEF JobRecords
    <3> HIDE DEF t, g
    <3>7. [G EXCEPT !.tried = t] \in JobRecords
      BY <3>3, <3>4 DEF JobRecords
    <3>8. K \in JobRecords
      BY <3>4, <3>5, <3>7 DEF JobRecords
    <3>9. Moves(J, K, "check") /\ Hands(J, K)
      BY <3>1, <3>3, <3>5, <3>8 DEF JobRecords, MovesOn, Moves, Hands
    <3>10. Refused(J, K, p)
      BY <3>1, <3>6 DEF MovesOn, Counts, Refused, t, g
    <3>11. Quiet(j) /\ At(j, {"next"})
      BY <1>5, <1>7, <2>1, <2>3
    <3> QED BY <2>3, <3>9, <3>10, <3>11 DEF GoesOn, Effect, J, K, p
  <2>4. CASE Command(j) = "unlock" /\ Only(j, Goto(j, "unlock"))
    <3>1. MovesOn(J, K, "unlock")
      BY <1>4, <1>7, <2>4 DEF PCs
    <3>2. Quiet(j) /\ At(j, {"next"})
      BY <1>5, <1>7, <2>1, <2>4
    <3> QED BY <2>4, <3>1, <3>2 DEF GoesOn, Effect, J, K, p
  <2>5. CASE Command(j) \in {"plan", "lock"} /\ Only(j, Goto(j, "lock"))
    <3>1. MovesOn(J, K, "lock")
      BY <1>4, <1>7, <2>5 DEF PCs
    <3>2. Quiet(j) /\ At(j, {"next"})
      BY <1>5, <1>7, <2>1, <2>5
    <3> QED BY <2>5, <3>1, <3>2 DEF GoesOn, Effect, J, K, p
  <2>6. Command(j) \in Commands
    BY <1>5, <2>1 DEF At
  <2> QED BY <1>10, <2>2, <2>3, <2>4, <2>5, <2>6 DEF NextCommand, Commands, p
<1>11. CASE Lock(j)
  <2>1. J.pc = "lock" /\ At(j, {"lock"}) /\ J.todo # {}
    BY <1>5, <1>6, <1>11 DEF Lock, Running, J
  <2>2. CASE lock[p] = J.pr /\ Only(j, Granted(j))
    <3>1. Quiet(j) /\ K = Granted(j)
      BY <1>7, <2>2
    <3>2. lock' = [lock EXCEPT ![p] = J.pr]
      BY <1>1, <2>2, <3>1 DEF Quiet, TypeOK
    <3>3. At(j, {"lock", "put"})
      BY <2>1 DEF At
    <3>4. \/ Command(j) = "plan" /\ MovesOn(J, K, "tfplan")
          \/ Command(j) = "apply" /\ storage = "none" /\ MovesOn(J, K, "tfapply")
          \/ Command(j) = "apply" /\ storage # "none" /\ MovesOn(J, K, "retrieve")
          \/ Command(j) \notin {"plan", "apply"} /\ Completes(J, K, p)
      BY <1>4, <1>5, <2>1, <3>1 DEF Granted, PCs
    <3> QED BY <2>2, <3>1, <3>2, <3>3, <3>4 DEF Grants, Quiet, Effect, J, K, p
  <2>3. CASE lock[p] = NoPR /\ Only(j, Goto(j, "put"))
    BY <1>4, <1>7, <2>1, <2>3 DEF Puts, Effect, PCs, J, K
  <2>4. CASE FreeLock(j, p, J) /\ UNCHANGED stores /\ UNCHANGED infra
    <3>1. At(j, {"lock", "unlock"})
      BY <2>1 DEF At
    <3>2. job'[j] = job[j] /\ \A k \in Slots \ {j} :
              job'[k] = IF WorksOn(k, p) THEN [job[k] EXCEPT !.stray = TRUE] ELSE job[k]
      BY <2>4 DEF FreeLock, J
    <3> QED BY <2>1, <2>4, <3>1, <3>2 DEF Frees, FreeLock, Effect, J, p
  <2>5. CASE Only(j, Failed(j))
    BY <1>9, <2>1, <2>5 DEF Effect
  <2> QED BY <1>11, <2>2, <2>3, <2>4, <2>5 DEF Lock, J, p
<1>12. CASE PutLock(j)
  <2>1. J.pc = "put" /\ At(j, {"put"}) /\ J.todo # {}
    BY <1>5, <1>6, <1>12 DEF PutLock, Running, J
  <2>2. CASE /\ lock[p] = NoPR /\ lock' = [lock EXCEPT ![p] = J.pr] /\ Becomes(j, Granted(j))
             /\ UNCHANGED <<stores, infra, guarded>>
    <3>1. Others(j) /\ K = Granted(j)
      BY <1>8, <2>2
    <3>3. At(j, {"lock", "put"})
      BY <2>1 DEF At
    <3>4. \/ Command(j) = "plan" /\ MovesOn(J, K, "tfplan")
          \/ Command(j) = "apply" /\ storage = "none" /\ MovesOn(J, K, "tfapply")
          \/ Command(j) = "apply" /\ storage # "none" /\ MovesOn(J, K, "retrieve")
          \/ Command(j) \notin {"plan", "apply"} /\ Completes(J, K, p)
      BY <1>4, <1>5, <2>1, <3>1 DEF Granted, PCs
    <3> QED BY <2>2, <3>1, <3>3, <3>4 DEF Grants, Effect, J, K, p
  <2>3. CASE Only(j, IF Command(j) = "apply" THEN NoJob ELSE Done(j))
    BY <1>5, <1>7, <2>1, <2>3 DEF Loses, Effect, J, K, p
  <2> QED BY <1>12, <2>2, <2>3 DEF PutLock, J, p
<1>13. CASE Unlock(j)
  <2>1. J.pc = "unlock" /\ At(j, {"unlock"}) /\ J.todo # {}
    BY <1>5, <1>6, <1>13 DEF Unlock, Running, J
  <2>2. At(j, {"lock", "unlock"})
    BY <2>1 DEF At
  <2>3. K = Goto(j, "delete") /\ \A k \in Slots \ {j} :
              job'[k] = IF WorksOn(k, p) THEN [job[k] EXCEPT !.stray = TRUE] ELSE job[k]
    BY <1>13 DEF Unlock, FreeLock, K, p
  <2>4. MovesOn(J, K, "delete")
    BY <1>4, <2>3 DEF PCs
  <2>5. Command(j) = "unlock"
    BY <1>1, <1>2, <2>1 DEF Course, J
  <2> QED BY <1>13, <2>1, <2>2, <2>3, <2>4, <2>5 DEF Frees, Unlock, FreeLock, Effect, J, K, p
<1>14. CASE DeletePlan(j)
  <2>1. J.pc = "delete" /\ At(j, {"delete"}) /\ J.todo # {}
    BY <1>5, <1>6, <1>14 DEF DeletePlan, Running, J
  <2>2. K = Done(j) /\ Others(j)
    BY <1>8, <1>14 DEF DeletePlan
  <2>3. Command(j) = "unlock"
    BY <1>1, <1>2, <2>1 DEF Course, J
  <2>4. stored' = [stored EXCEPT ![J.pr][p] = NoPlan] \/ UNCHANGED stored
    BY <1>14 DEF DeletePlan, J, p
  <2>5. UNCHANGED <<lock, latest, infra, guarded>>
    BY <1>14 DEF DeletePlan
  <2> QED BY <1>5, <2>1, <2>2, <2>3, <2>4, <2>5 DEF Deletes, Effect, J, K, p
<1>15. CASE TerraformPlan(j)
  <2>1. J.pc = "tfplan" /\ At(j, {"tfplan"}) /\ J.todo # {} /\ p \in Projects
    BY <1>5, <1>6, <1>15 DEF TerraformPlan, Running, J, At, p
  <2>2. CASE Only(j, Failed(j))
    BY <1>9, <2>1, <2>2 DEF Effect
  <2>3. ASSUME NEW ok \in BOOLEAN,
               Only(j, [Goto(j, IF storage = "none" THEN "show" ELSE "store") EXCEPT
                     !.plan = [at |-> job[j].at, base |-> Len(infra[Project(j)]), ok |-> ok]])
        PROVE  PlansIt(j)
    <3> DEFINE l == IF storage = "none" THEN "show" ELSE "store"
    <3> DEFINE G == Goto(j, l)
    <3> DEFINE plan == [at |-> J.at, base |-> Len(infra[p]), ok |-> ok]
    <3>1. MovesOn(J, G, l)
      BY <1>4 DEF PCs
    <3>2. infra[p] \in Seq(Changes)
      BY <1>1, <2>1 DEF TypeOK
    <3>3. plan \in Plans /\ plan.base = Len(infra[p])
      BY <1>3, <3>2 DEF Plans, JobRecords
    <3> HIDE DEF G, plan, l
    <3>4. K = [G EXCEPT !.plan = plan] /\ Quiet(j)
      BY <1>7, <2>3 DEF G, plan, l, J, p
    <3>5. K \in JobRecords /\ K.plan = plan
      BY <3>1, <3>3, <3>4 DEF JobRecords, MovesOn, Moves
    <3>6. Moves(J, K, l) /\ Counts(J, K)
      BY <3>1, <3>4, <3>5 DEF JobRecords, MovesOn, Moves, Counts
    <3> QED BY <2>1, <3>3, <3>4, <3>5, <3>6 DEF PlansIt, l, J, K, p
  <2>4. CASE \E ok \in IF fault = "policy" THEN BOOLEAN ELSE {TRUE} :
          Only(j, [Goto(j, IF storage = "none" THEN "show" ELSE "store") EXCEPT
                     !.plan = [at |-> job[j].at, base |-> Len(infra[Project(j)]), ok |-> ok]])
    BY <2>3, <2>4 DEF Effect
  <2> QED BY <1>15, <2>2, <2>4 DEF TerraformPlan
<1>16. CASE StorePlan(j)
  <2>1. J.pc = "store" /\ At(j, {"store"}) /\ J.todo # {}
    BY <1>5, <1>6, <1>16 DEF StorePlan, Running, J
  <2>2. CASE Only(j, Failed(j))
    BY <1>9, <2>1, <2>2 DEF Effect
  <2>3. CASE ~Only(j, Failed(j))
    <3>1. /\ stored' = [stored EXCEPT ![J.pr][p] = J.plan]
          /\ latest' = [latest EXCEPT ![p] = J.pr] /\ UNCHANGED <<lock, infra, guarded>>
      BY <1>16, <2>3 DEF StorePlan, J, p
    <3>2. /\ K = Goto(j, "show")
          /\ \A k \in Slots \ {j} :
               job'[k] = IF job[k] # NoJob /\ job[k].todo # {} /\ job[k].pr = job[j].pr
                            /\ Project(k) = Project(j) /\ job[k].pc \in {"lock", "put", "retrieve"}
                         THEN [job[k] EXCEPT !.moved = Command(k) = "apply"] ELSE job[k]
      BY <1>16, <2>3 DEF StorePlan, K
    <3>3. MovesOn(J, K, "show")
      BY <1>4, <3>2 DEF PCs
    <3> QED BY <2>1, <3>1, <3>2, <3>3 DEF Stores, Effect, J, K, p
  <2> QED BY <2>2, <2>3
<1>17. CASE ShowPlan(j)
  <2>1. J.pc = "show" /\ At(j, {"show"}) /\ J.todo # {}
    BY <1>5, <1>6, <1>17 DEF ShowPlan, Running, J
  <2>2. CASE Only(j, Failed(j))
    BY <1>9, <2>1, <2>2 DEF Effect
  <2>3. CASE ~Only(j, Failed(j))
    <3>1. /\ Becomes(j, IF J.plan.ok THEN Done(j) ELSE Failed(j))
          /\ guarded' = IF J.stray THEN guarded ELSE [guarded EXCEPT ![p] = J.plan.base]
          /\ UNCHANGED <<lock, stores, infra>>
      BY <1>17, <2>3 DEF ShowPlan, J, p
    <3>2. Others(j) /\ (Completes(J, K, p) \/ GivesUp(J, K, p))
      BY <1>5, <1>8, <2>1, <3>1
    <3>3. Command(j) = "plan"
      BY <1>1, <1>2, <2>1 DEF Course, J
    <3> QED BY <2>1, <3>1, <3>2, <3>3 DEF Shows, Effect, J, K, p
  <2> QED BY <2>2, <2>3
<1>18. CASE CheckApply(j)
  <2>1. J.pc = "check" /\ At(j, {"check"}) /\ J.todo # {}
    BY <1>5, <1>6, <1>18 DEF CheckApply, Running, J
  <2>2. CASE Only(j, Failed(j))
    BY <1>9, <2>1, <2>2 DEF Effect
  <2>3. CASE Only(j, [Goto(j, "lock") EXCEPT !.known = Violates(j), !.moved = FALSE])
    <3> DEFINE G == Goto(j, "lock")
    <3> DEFINE v == Violates(j)
    <3>1. MovesOn(J, G, "lock")
      BY <1>4 DEF PCs
    <3>2. v \in BOOLEAN
      BY DEF Violates
    <3> HIDE DEF G, v
    <3>3. K = [G EXCEPT !.known = v, !.moved = FALSE] /\ Quiet(j)
      BY <1>7, <2>3 DEF G, v
    <3>4. K \in JobRecords /\ K.known = v /\ K.moved = FALSE /\ K.plan = J.plan
      BY <3>1, <3>2, <3>3 DEF JobRecords, MovesOn, Moves, Hands
    <3>5. Moves(J, K, "lock") /\ Counts(J, K)
      BY <3>1, <3>3, <3>4 DEF JobRecords, MovesOn, Moves, Counts
    <3> QED BY <2>1, <3>3, <3>4, <3>5 DEF Asks, Effect, v, J, K
  <2> QED BY <1>18, <2>2, <2>3 DEF CheckApply
<1>19. CASE RetrievePlan(j)
  <2>1. J.pc = "retrieve" /\ At(j, {"retrieve"}) /\ J.todo # {} /\ p \in Projects
    BY <1>5, <1>6, <1>19 DEF RetrievePlan, Running, J, At, p
  <2>2. CASE Only(j, Failed(j))
    BY <1>9, <2>1, <2>2 DEF Effect
  <2>3. CASE Only(j, [Goto(j, "tfapply") EXCEPT !.plan = PlanOf(j)])
    <3> DEFINE G == Goto(j, "tfapply")
    <3> DEFINE v == PlanOf(j)
    <3>1. MovesOn(J, G, "tfapply")
      BY <1>4 DEF PCs
    <3>2. v \in Plans \cup {NoPlan}
      <4>1. J.pr \in PRs
        BY <1>3 DEF JobRecords
      <4> QED BY <1>1, <2>1, <4>1 DEF PlanOf, TypeOK, J, p
    <3> HIDE DEF G, v
    <3>3. K = [G EXCEPT !.plan = v] /\ Quiet(j)
      BY <1>7, <2>3 DEF G, v
    <3>4. K \in JobRecords /\ K.plan = v /\ K.known = J.known /\ K.moved = J.moved
      BY <3>1, <3>2, <3>3 DEF JobRecords, MovesOn, Moves, Hands
    <3>5. Moves(J, K, "tfapply") /\ Counts(J, K)
      BY <3>1, <3>3, <3>4 DEF JobRecords, MovesOn, Moves, Counts
    <3> QED BY <2>1, <3>3, <3>4, <3>5 DEF Retrieves, Effect, v, J, K
  <2> QED BY <1>19, <2>2, <2>3 DEF RetrievePlan
<1>20. CASE TerraformApply(j)
  <2>1. J.pc = "tfapply" /\ At(j, {"tfapply"}) /\ J.todo # {} /\ p \in Projects
    BY <1>5, <1>6, <1>20 DEF TerraformApply, Running, J, At, p
  <2>2. CASE Only(j, Failed(j))
    BY <1>9, <2>1, <2>2 DEF Effect
  <2>3. CASE /\ Change(j, IF J.plan = NoPlan THEN J.at ELSE J.plan.at)
             /\ Becomes(j, [Done(j) EXCEPT !.good = @ \cup {p}])
             /\ UNCHANGED <<lock, stores, guarded>>
    <3> DEFINE at == IF J.plan = NoPlan THEN J.at ELSE J.plan.at
    <3> DEFINE D == Done(j)
    <3>1. at \in 0..MaxPushes /\ at > 0
      BY <1>3, BoundsAssumption DEF JobRecords, Plans, Commits
    <3>2. D \in JobRecords /\ Completes(J, D, p)
      BY <1>5, <2>1 DEF Completes, Over
    <3> HIDE DEF at, D
    <3>3. K = [D EXCEPT !.good = @ \cup {p}] /\ Others(j)
      BY <1>8, <2>3 DEF D
    <3>4. K \in JobRecords /\ K.good = D.good \cup {p} /\ K.tried = D.tried
      BY <2>1, <3>2, <3>3 DEF JobRecords
    <3>5. Over(J, K) /\ Passes(J, K, p) /\ K.tried = J.tried /\ K.good = J.good \cup {p}
      BY <3>2, <3>3, <3>4 DEF JobRecords, Completes, Over, Passes, Counts
    <3> QED BY <2>1, <2>3, <3>1, <3>3, <3>5 DEF Alters, Change, Effect, at, J, K, p
  <2>4. CASE Change(j, 0) /\ Becomes(j, Failed(j)) /\ UNCHANGED <<lock, stores, guarded>>
    <3>1. 0 \in 0..MaxPushes
      BY BoundsAssumption
    <3>2. GivesUp(J, K, p) /\ Others(j)
      BY <1>5, <1>8, <2>1, <2>4
    <3> QED BY <2>1, <2>4, <3>1, <3>2 DEF Alters, Change, Effect, J, K, p
  <2> QED BY <1>20, <2>2, <2>3, <2>4 DEF TerraformApply, J, p
<1>21. CASE Report(j)
  <2>1. J.todo = {}
    BY <1>21 DEF Report, J
  <2>2. CASE SetStatus(j, "failure")
    <3>1. K = NoJob /\ Quiet(j)
      BY <1>8, <2>2 DEF SetStatus, Quiet
    <3> QED BY <1>2, <1>3, <2>1, <3>1 DEF Finishes, Effect, J, K
  <2>3. CASE AllApplied(j) /\ Only(j, Goto(j, IF J.tried # {} /\ J.covers THEN "merge" ELSE "status"))
    <3>1. Quiet(j) /\ (MovesOn(J, K, "status") \/ (MovesOn(J, K, "merge") /\ J.tried # {} /\ J.covers))
      <4>1. CASE J.tried # {} /\ J.covers
        <5>1. Only(j, Goto(j, "merge"))
          BY <2>3, <4>1
        <5> QED BY <1>4, <1>7, <4>1, <5>1 DEF PCs
      <4>2. CASE ~(J.tried # {} /\ J.covers)
        <5>1. (IF J.tried # {} /\ J.covers THEN "merge" ELSE "status") = "status"
          BY <4>2
        <5>2. Only(j, Goto(j, "status"))
          BY <2>3, <5>1, Zenon
        <5>3. K = Goto(j, "status") /\ Quiet(j)
          BY <1>7, <5>2
        <5>4. MovesOn(J, K, "status")
          BY <1>4, <5>3 DEF PCs
        <5> QED BY <5>3, <5>4
      <4> QED BY <4>1, <4>2
    <3> QED BY <1>2, <1>3, <2>1, <2>3, <3>1 DEF Finishes, AllApplied, Effect, J, K
  <2> QED BY <1>21, <2>2, <2>3 DEF Report, J
<1>22. CASE CheckMerge(j)
  <2>1. J.todo = {} /\ J.pc = "merge"
    BY <1>1, <1>2, <1>22 DEF CheckMerge, Running, Course, J
  <2>2. K \in {NoJob, Goto(j, "status"), Goto(j, "merging")} /\ Quiet(j)
    BY <1>7, <1>22 DEF CheckMerge
  <2>3. K = NoJob \/ MovesOn(J, K, "status") \/ MovesOn(J, K, "merging")
    BY <1>4, <2>2 DEF PCs
  <2> QED BY <1>2, <1>3, <2>1, <2>2, <2>3 DEF Finishes, Effect, J, K
<1>23. CASE Merge(j)
  <2>1. J.todo = {}
    BY <1>1, <1>2, <1>23 DEF Merge, Running, Course, J
  <2>2. K \in {NoJob, Goto(j, "status")} /\ Quiet(j)
    BY <1>7, <1>8, <1>23 DEF Merge, Quiet
  <2>3. K = NoJob \/ MovesOn(J, K, "status")
    BY <1>4, <2>2 DEF PCs
  <2> QED BY <1>2, <1>3, <2>1, <2>2, <2>3 DEF Finishes, Effect, J, K
<1>24. CASE Succeed(j)
  <2>1. J.todo = {}
    BY <1>1, <1>2, <1>24 DEF Succeed, Running, Course, J
  <2>2. K = NoJob /\ Quiet(j)
    BY <1>8, <1>24 DEF Succeed, SetStatus, Quiet
  <2> QED BY <1>2, <1>3, <2>1, <2>2 DEF Finishes, Effect, J, K
<1> QED BY <1>10, <1>11, <1>12, <1>13, <1>14, <1>15, <1>16, <1>17, <1>18, <1>19, <1>20, <1>21,
          <1>22, <1>23, <1>24 DEF Step

\* An event starts a job, and the pull request is of the model.
LEMMA EventEffect ==
  ASSUME Typed, NEW j \in Slots, NEW r \in PRs, Event(j, r)
  PROVE  Starts(j) /\ started' \in [jobs : 0..MaxJobs, tasks : 0..MaxTasks]
<1>1. TypeOK
  BY DEF Typed
<1>2. ASSUME NEW at \in Commits, NEW ps \in SUBSET impacted[r], NEW cmds \in Seq(Commands) \ {<<>>},
             StartJob(j, r, at, ps, cmds), UNCHANGED <<lock, stores, infra, guarded>>
      PROVE  Starts(j) /\ started' \in [jobs : 0..MaxJobs, tasks : 0..MaxTasks]
  <2>1. ps \in SUBSET Projects
    BY <1>1, ProjectsAssumption DEF TypeOK
  <2>2. Cardinality(ps) \in Nat /\ Len(cmds) \in Nat
    BY <2>1, ProjectsAssumption, FS_Subset, FS_CardinalityType
  <2>3. Cardinality(ps) * Len(cmds) \in Nat
    <3>1. \A m, n \in Nat : m * n \in Nat
      OBVIOUS
    <3> QED BY <2>2, <3>1
  <2>4. started' \in [jobs : 0..MaxJobs, tasks : 0..MaxTasks]
    <3> DEFINE n == Cardinality(ps) * Len(cmds)
    <3> HIDE DEF n
    <3>1. n \in Nat
      BY <2>3 DEF n
    <3>2. /\ started' = [jobs |-> started.jobs + 1, tasks |-> started.tasks + n]
          /\ started'.jobs <= MaxJobs /\ started'.tasks <= MaxTasks
      BY <1>2 DEF StartJob, n
    <3>3. started.jobs \in Nat /\ started.tasks \in Nat
      BY <1>1, BoundsAssumption DEF TypeOK
    <3> QED BY <3>1, <3>2, <3>3, BoundsAssumption
  <2> DEFINE K == job'[j]
  <2>5. K = [pr |-> r, at |-> at, pc |-> "next", plan |-> NoPlan,
             todo |-> ps, cmds |-> cmds, left |-> cmds,
             tried |-> {}, good |-> {}, covers |-> ps = impacted[r],
             known |-> FALSE, moved |-> FALSE, stray |-> FALSE]
    BY <1>1, <1>2 DEF StartJob, TypeOK
  <2> HIDE DEF K
  <2>6. K \in JobRecords
    BY <2>1, <2>5 DEF JobRecords, PCs
  <2>7. Others(j) /\ job[j] = NoJob /\ ps # {}
    BY <1>2, <1>1 DEF StartJob, Others, TypeOK
  <2>8. /\ K.pc = "next" /\ K.plan = NoPlan /\ K.todo # {} /\ K.left = K.cmds /\ K.tried = {} /\ K.good = {}
        /\ K.covers <=> K.todo = impacted[K.pr]
        /\ ~K.stray /\ ~K.known /\ ~K.moved
    BY <2>5, <2>7
  <2> QED BY <1>2, <2>4, <2>6, <2>7, <2>8 DEF Starts, Quiet, K
<1>3. head[r] \in Commits /\ impacted[r] \in SUBSET impacted[r]
  BY <1>1 DEF TypeOK
<1>4. OnPush \in Seq(Commands) \ {<<>>}
  BY SettingAssumption DEF Commands
<1>5. \A c \in Commands : <<c>> \in Seq(Commands) \ {<<>>}
  OBVIOUS
<1>6. CASE Push(j, r)
  <2>1. head[r] + 1 \in Commits
    BY <1>3, <1>6, BoundsAssumption DEF Push, Commits
  <2> QED BY <1>2, <1>3, <1>4, <1>6, <2>1 DEF Push
<1>7. CASE Reopen(j, r)
  BY <1>2, <1>3, <1>4, <1>7 DEF Reopen
<1>8. CASE Close(j, r)
  <2>1. <<"unlock">> \in Seq(Commands) \ {<<>>}
    BY <1>5 DEF Commands
  <2> QED BY <1>2, <1>3, <1>8, <2>1 DEF Close
<1>9. CASE Comment(j, r)
  <2>1. PICK c \in Commands, ps \in {impacted[r]} \cup {{p} : p \in impacted[r]} :
          StartJob(j, r, head[r], ps, <<c>>)
    BY <1>9 DEF Comment
  <2>2. ps \in SUBSET impacted[r]
    OBVIOUS
  <2> QED BY <1>2, <1>3, <1>5, <1>9, <2>1, <2>2 DEF Comment
<1> QED BY <1>6, <1>7, <1>8, <1>9 DEF Event

\* The records of jobs that a step makes are records of jobs.
LEMMA JobsTyped ==
  ASSUME TypeOK, NEW j \in Slots, Effect(j) \/ Starts(j), DOMAIN job' = Slots
  PROVE  \A k \in Slots : job'[k] \in JobRecords \cup {NoJob}
<1>1. job'[j] \in JobRecords \cup {NoJob}
  BY DEF Effect, GoesOn, Drops, Grants, Puts, Loses, Frees, Deletes, PlansIt, Stores, Shows, Asks,
         Retrieves, Alters, Finishes, Starts, MovesOn, Moves, Completes, GivesUp, Over, TypeOK
<1>2. ASSUME NEW k \in Slots \ {j}
      PROVE  job'[k] \in JobRecords \cup {NoJob}
  <2>1. \/ job'[k] = job[k]
        \/ job[k] # NoJob /\ job'[k] = [job[k] EXCEPT !.stray = TRUE]
        \/ job[k] # NoJob /\ \E b \in BOOLEAN : job'[k] = [job[k] EXCEPT !.moved = b]
    BY DEF Effect, GoesOn, Drops, Grants, Puts, Loses, Frees, Deletes, PlansIt, Stores, Shows, Asks,
           Retrieves, Alters, Finishes, Starts, Quiet, Others, WorksOn, Working
  <2>2. job[k] \in JobRecords \cup {NoJob}
    BY DEF TypeOK
  <2> QED BY <2>1, <2>2, ZenonT(60) DEF JobRecords
<1> QED BY <1>1, <1>2

\* No job has started.
LEMMA TypedInit == Init => Typed
<1> SUFFICES ASSUME Init PROVE Typed
  OBVIOUS
<1>1. \A j \in Slots : job[j] = NoJob
  BY DEF Init
<1>2. started \in [jobs : 0..MaxJobs, tasks : 0..MaxTasks]
  BY BoundsAssumption DEF Init
<1>3. /\ head \in [PRs -> Commits]
      /\ lock \in [Projects -> PRs \cup {NoPR}]
      /\ stored \in [PRs -> [Projects -> Plans \cup {NoPlan}]]
      /\ latest \in [Projects -> PRs \cup {NoPR}]
      /\ guarded \in [Projects -> Nat \cup {-1}]
      /\ job \in [Slots -> JobRecords \cup {NoJob}]
  BY BoundsAssumption DEF Init, Commits
<1>4. /\ state \in [PRs -> {"open", "closed", "merged"}]
      /\ status \in [PRs -> [plan : {"none", "success", "failure"}, apply : {"none", "success", "failure"}]]
  BY DEF Init, NoStatus
<1>5. infra \in [Projects -> Seq(Changes)]
  <2>1. <<>> \in Seq(Changes)
    OBVIOUS
  <2> QED BY <2>1 DEF Init
<1>6. storage \in Storages /\ fault \in Faults /\ impacted \in Impacts
  BY DEF Init
<1> QED BY <1>1, <1>2, <1>3, <1>4, <1>5, <1>6 DEF Typed, TypeOK, Course

\* A step keeps the setting and the types of what it writes.
LEMMA SharedTyped ==
  ASSUME Typed, NEW j \in Slots, Step(j) \/ \E r \in PRs : Event(j, r)
  PROVE  /\ UNCHANGED setting /\ DOMAIN job' = Slots
         /\ state' \in [PRs -> {"open", "closed", "merged"}] /\ head' \in [PRs -> Commits]
         /\ status' \in [PRs -> [plan : {"none", "success", "failure"},
                                 apply : {"none", "success", "failure"}]]
         /\ lock' \in [Projects -> PRs \cup {NoPR}]
         /\ stored' \in [PRs -> [Projects -> Plans \cup {NoPlan}]]
         /\ latest' \in [Projects -> PRs \cup {NoPR}]
         /\ guarded' \in [Projects -> Nat \cup {-1}]
         /\ started' \in [jobs : 0..MaxJobs, tasks : 0..MaxTasks]
<1> USE DEF Typed
<1>1. CASE Step(j)
  <2>1. UNCHANGED <<setting, started, head>>
    BY <1>1 DEF Step, NextCommand, Lock, PutLock, Unlock, DeletePlan, TerraformPlan, StorePlan,
       ShowPlan, CheckApply, RetrievePlan, TerraformApply, Report, CheckMerge, Merge, Succeed, Only, SetStatus,
       requests
  <2>2. DOMAIN job' = Slots
    <3>1. ASSUME NEW rec, Becomes(j, rec) PROVE DOMAIN job' = Slots
      BY <3>1 DEF Becomes, TypeOK
    <3>2. ASSUME NEW rec, FreeLock(j, Project(j), rec) PROVE DOMAIN job' = Slots
      BY <3>2 DEF FreeLock
    <3>3. CASE StorePlan(j)
      <4>1. CASE Only(j, Failed(j))
        BY <3>1, <4>1 DEF Only
      <4>2. CASE ~Only(j, Failed(j))
        BY <3>3, <4>2 DEF StorePlan
      <4> QED BY <4>1, <4>2
    <3>4. CASE ~StorePlan(j)
      <4>1. (\E rec : Becomes(j, rec)) \/ (\E rec : FreeLock(j, Project(j), rec))
        BY <1>1, <3>4 DEF Step, NextCommand, Lock, PutLock, Unlock, DeletePlan, TerraformPlan,
           ShowPlan, CheckApply, RetrievePlan, TerraformApply, Report, CheckMerge, Merge, Succeed, Only, SetStatus
      <4> QED BY <3>1, <3>2, <4>1
    <3> QED BY <3>3, <3>4
  <2>3. state' \in [PRs -> {"open", "closed", "merged"}]
    <3>1. UNCHANGED state \/ state' = [state EXCEPT ![job[j].pr] = "merged"]
      BY <1>1 DEF Step, NextCommand, Lock, PutLock, Unlock, DeletePlan, TerraformPlan, StorePlan,
         ShowPlan, CheckApply, RetrievePlan, TerraformApply, Report, CheckMerge, Merge, Succeed, Only, SetStatus,
         requests
    <3> QED BY <3>1 DEF TypeOK
  <2>4. status' \in [PRs -> [plan : {"none", "success", "failure"}, apply : {"none", "success", "failure"}]]
    <3>1. CASE UNCHANGED status
      BY <3>1 DEF TypeOK
    <3>2. CASE \E s \in {"success", "failure"} : SetStatus(j, s)
      <4> DEFINE R == [plan : {"none", "success", "failure"}, apply : {"none", "success", "failure"}]
      <4> DEFINE r == job[j].pr
      <4>1. PICK s \in {"success", "failure"} : SetStatus(j, s)
        BY <3>2
      <4>2. PICK v : /\ v = [status[r] EXCEPT !.plan = s] \/ v = [status[r] EXCEPT !.apply = s]
                     /\ status' = [status EXCEPT ![r] = v]
        BY <4>1 DEF SetStatus
      <4>3. CASE r \in PRs
        <5>1. status[r] \in R
          BY <4>3 DEF TypeOK
        <5>2. v \in R
          BY <4>2, <5>1
        <5> HIDE DEF R
        <5>3. status \in [PRs -> R]
          BY DEF TypeOK, R
        <5>4. status' \in [PRs -> R]
          BY <4>2, <5>2, <5>3
        <5> QED BY <5>4 DEF R
      <4>4. CASE r \notin PRs
        BY <4>2, <4>4 DEF TypeOK
      <4> QED BY <4>3, <4>4
    <3>3. (\E s \in {"success", "failure"} : SetStatus(j, s)) \/ UNCHANGED status
      BY <1>1 DEF Step, NextCommand, Lock, PutLock, Unlock, DeletePlan, TerraformPlan, StorePlan,
         ShowPlan, CheckApply, RetrievePlan, TerraformApply, Report, CheckMerge, Merge, Succeed, Only, requests
    <3> QED BY <3>1, <3>2, <3>3
  <2>5. Effect(j)
    BY <1>1, StepEffect
  <2>6. lock' \in [Projects -> PRs \cup {NoPR}]
    BY <2>5 DEF Effect, GoesOn, Drops, Grants, Puts, Loses, Frees, Deletes, PlansIt, Stores, Shows,
         Asks, Retrieves, Alters, Finishes, Quiet, At, TypeOK, JobRecords
  <2>7. /\ stored' \in [PRs -> [Projects -> Plans \cup {NoPlan}]]
        /\ latest' \in [Projects -> PRs \cup {NoPR}]
    <3>1. CASE UNCHANGED stores
      BY <3>1 DEF stores, TypeOK
    <3>2. CASE Deletes(j)
      <4>1. job[j].pr \in PRs /\ Project(j) \in Projects
        BY <3>2 DEF Deletes, At, JobRecords
      <4>2. CASE UNCHANGED stored
        BY <3>2, <4>2 DEF Deletes, TypeOK
      <4>3. CASE stored' = [stored EXCEPT ![job[j].pr][Project(j)] = NoPlan]
        BY <3>2, <4>1, <4>3 DEF Deletes, TypeOK
      <4> QED BY <3>2, <4>2, <4>3 DEF Deletes
    <3>3. CASE Stores(j)
      <4>1. job[j].pr \in PRs /\ Project(j) \in Projects /\ job[j].plan \in Plans \cup {NoPlan}
        BY <3>3 DEF Stores, At, JobRecords
      <4> QED BY <3>3, <4>1 DEF Stores, TypeOK
    <3> QED BY <2>5, <3>1, <3>2, <3>3 DEF Effect, GoesOn, Drops, Grants, Puts, Loses, Frees,
                PlansIt, Shows, Asks, Retrieves, Alters, Finishes, Quiet
  <2>8. guarded' \in [Projects -> Nat \cup {-1}]
    <3>1. CASE UNCHANGED guarded
      BY <3>1 DEF TypeOK
    <3>2. CASE Frees(j)
      BY <3>2 DEF Frees, At, TypeOK
    <3>3. CASE Shows(j)
      <4>1. job[j].plan \in Plans
        BY <3>3 DEF Shows, At, Course
      <4>2. job[j].plan.base \in Nat
        BY <4>1 DEF Plans
      <4> QED BY <3>3, <4>2 DEF Shows, At, TypeOK
    <3> QED BY <2>5, <3>1, <3>2, <3>3 DEF Effect, GoesOn, Drops, Grants, Puts, Loses, Deletes,
                PlansIt, Stores, Asks, Retrieves, Alters, Finishes, Quiet
  <2> QED BY <2>1, <2>2, <2>3, <2>4, <2>6, <2>7, <2>8 DEF TypeOK
<1>2. ASSUME NEW r \in PRs, Event(j, r)
      PROVE  /\ UNCHANGED <<setting, lock, stores, guarded>> /\ DOMAIN job' = Slots
             /\ state' \in [PRs -> {"open", "closed", "merged"}] /\ head' \in [PRs -> Commits]
             /\ status' \in [PRs -> [plan : {"none", "success", "failure"},
                                     apply : {"none", "success", "failure"}]]
             /\ started' \in [jobs : 0..MaxJobs, tasks : 0..MaxTasks]
  <2>1. started' \in [jobs : 0..MaxJobs, tasks : 0..MaxTasks]
    BY <1>2, EventEffect
  <2>2. UNCHANGED <<setting, lock, stores, guarded>>
    BY <1>2 DEF Event, Push, Reopen, Close, Comment
  <2>6. DOMAIN job' = Slots
    <3>1. ASSUME NEW at, NEW ps, NEW cmds, StartJob(j, r, at, ps, cmds) PROVE DOMAIN job' = Slots
      BY <3>1 DEF StartJob, TypeOK
    <3> QED BY <1>2, <3>1 DEF Event, Push, Reopen, Close, Comment
  <2>3. state' \in [PRs -> {"open", "closed", "merged"}]
    <3>1. UNCHANGED state \/ \E s \in {"open", "closed", "merged"} : state' = [state EXCEPT ![r] = s]
      BY <1>2 DEF Event, Push, Reopen, Close, Comment, requests
    <3> QED BY <3>1 DEF TypeOK
  <2>4. head' \in [PRs -> Commits]
    <3>1. head[r] < MaxPushes => head[r] + 1 \in Commits
      BY BoundsAssumption DEF TypeOK, Commits
    <3>2. CASE Push(j, r)
      BY <3>1, <3>2 DEF Push, TypeOK
    <3>3. CASE UNCHANGED head
      BY <3>3 DEF TypeOK
    <3> QED BY <1>2, <3>2, <3>3 DEF Event, Reopen, Close, Comment, requests
  <2>5. status' \in [PRs -> [plan : {"none", "success", "failure"}, apply : {"none", "success", "failure"}]]
    <3>1. UNCHANGED status \/ status' = [status EXCEPT ![r] = NoStatus]
      BY <1>2 DEF Event, Push, Reopen, Close, Comment, requests
    <3> DEFINE R == [plan : {"none", "success", "failure"}, apply : {"none", "success", "failure"}]
    <3>2. NoStatus \in R
      BY DEF NoStatus
    <3>3. status \in [PRs -> R]
      BY DEF TypeOK
    <3> HIDE DEF R
    <3>4. status' \in [PRs -> R]
      BY <3>1, <3>2, <3>3
    <3> QED BY <3>4 DEF R
  <2> QED BY <2>1, <2>2, <2>3, <2>4, <2>5, <2>6
<1>3. CASE \E r \in PRs : Event(j, r)
  BY <1>2, <1>3 DEF TypeOK, stores
<1> QED BY <1>1, <1>3

\* The other jobs stay where they are with what they have, up to the marks that
\* their lock is taken away or their plan stored again.
Sits(J, K) ==
  /\ J \in JobRecords /\ K \in JobRecords
  /\ K.pc = J.pc /\ K.pr = J.pr /\ K.at = J.at /\ K.covers = J.covers /\ K.cmds = J.cmds
  /\ K.todo = J.todo /\ K.left = J.left /\ K.plan = J.plan /\ K.known = J.known /\ Counts(J, K)
  /\ (J.stray => K.stray)

\* A step of one job leaves the others where they are; it may take the lock away from
\* them or replace their plan.
LEMMA OthersSit ==
  ASSUME TypeOK, NEW j \in Slots, Effect(j) \/ Starts(j), NEW k \in Slots, k # j
  PROVE  \/ job[k] = NoJob /\ job'[k] = NoJob
         \/ job[k] # NoJob /\ Sits(job[k], job'[k])
<1>1. \/ job'[k] = job[k]
      \/ job[k] # NoJob /\ job'[k] = [job[k] EXCEPT !.stray = TRUE]
      \/ job[k] # NoJob /\ \E b \in BOOLEAN : job'[k] = [job[k] EXCEPT !.moved = b]
  BY DEF Effect, GoesOn, Drops, Grants, Puts, Loses, Frees, Deletes, PlansIt, Stores, Shows, Asks,
         Retrieves, Alters, Finishes, Starts, Quiet, Others, WorksOn, Working
<1>2. job[k] \in JobRecords \cup {NoJob}
  BY DEF TypeOK
<1>3. CASE job[k] = NoJob
  BY <1>1, <1>3
<1>4. ASSUME job[k] # NoJob
      PROVE  Sits(job[k], job'[k])
  <2> DEFINE J == job[k]
  <2> DEFINE K == job'[k]
  <2>1. J \in JobRecords
    BY <1>2, <1>4
  <2>2. \/ K = J \/ K = [J EXCEPT !.stray = TRUE]
        \/ \E b \in BOOLEAN : K = [J EXCEPT !.moved = b]
    BY <1>1
  <2> HIDE DEF J, K
  <2>3. Sits(J, K)
    BY <2>1, <2>2, ZenonT(60) DEF JobRecords, Sits, Counts
  <2> QED BY <2>3 DEF J, K
<1> QED BY <1>3, <1>4

\* The history of a project only grows.
LEMMA InfraGrows ==
  ASSUME TypeOK, NEW j \in Slots, Effect(j) \/ Starts(j)
  PROVE  /\ infra' \in [Projects -> Seq(Changes)]
         /\ \A p \in Projects :
              /\ Len(infra[p]) \in Nat /\ Len(infra'[p]) >= Len(infra[p])
              /\ \A i \in 1..Len(infra[p]) : infra'[p][i] = infra[p][i]
<1>1. \A p \in Projects : infra[p] \in Seq(Changes) /\ Len(infra[p]) \in Nat
  BY DEF TypeOK
<1>2. CASE UNCHANGED infra
  BY <1>1, <1>2 DEF TypeOK
<1>3. CASE Alters(j)
  <2>1. PICK at \in 0..MaxPushes :
          infra' = [infra EXCEPT ![Project(j)] =
                      Append(@, [pr |-> job[j].pr, at |-> at, stray |-> job[j].stray])]
    BY <1>3 DEF Alters
  <2>2. [pr |-> job[j].pr, at |-> at, stray |-> job[j].stray] \in Changes /\ Project(j) \in Projects
    BY <1>3 DEF Alters, At, JobRecords, Changes
  <2> DEFINE c == [pr |-> job[j].pr, at |-> at, stray |-> job[j].stray]
  <2> HIDE DEF c
  <2>3. c \in Changes /\ infra' = [infra EXCEPT ![Project(j)] = Append(@, c)]
    BY <2>1, <2>2 DEF c
  <2>4. ASSUME NEW p \in Projects
        PROVE  infra'[p] = infra[p] \/ infra'[p] = Append(infra[p], c)
    BY <2>2, <2>3 DEF TypeOK
  <2>5. ASSUME NEW p \in Projects
        PROVE  /\ infra'[p] \in Seq(Changes) /\ Len(infra'[p]) >= Len(infra[p])
               /\ \A i \in 1..Len(infra[p]) : infra'[p][i] = infra[p][i]
    <3> DEFINE s == infra[p]
    <3>1. s \in Seq(Changes)
      BY <1>1
    <3> HIDE DEF s
    <3>2. Append(s, c) \in Seq(Changes) /\ Len(Append(s, c)) = Len(s) + 1 /\ Len(s) \in Nat
      BY <2>3, <3>1
    <3>3. \A i \in 1..Len(s) : Append(s, c)[i] = s[i]
      BY <2>3, <3>1
    <3> DEFINE t == infra'[p]
    <3>4. t = s \/ t = Append(s, c)
      BY <2>4 DEF s
    <3> HIDE DEF t
    <3>5. t \in Seq(Changes) /\ Len(t) >= Len(s)
      BY <3>1, <3>2, <3>4
    <3>6. \A i \in 1..Len(s) : t[i] = s[i]
      BY <3>3, <3>4
    <3> QED BY <3>5, <3>6 DEF s, t
  <2>6. infra' \in [Projects -> Seq(Changes)]
    BY <2>3, <2>5 DEF TypeOK
  <2> QED BY <1>1, <2>5, <2>6
<1> QED BY <1>2, <1>3 DEF Effect, GoesOn, Drops, Grants, Puts, Loses, Frees, Deletes, PlansIt,
           Stores, Shows, Asks, Retrieves, Finishes, Starts, Quiet

\* Each step keeps the types and what belongs to the place of a job.
LEMMA TypedStep == Typed /\ [Next]_vars => Typed'
<1> SUFFICES ASSUME Typed, [Next]_vars
             PROVE  Typed'
  OBVIOUS
<1>1. TypeOK /\ \A j \in Slots : Course(j)
  BY DEF Typed
<1>2. CASE UNCHANGED vars
  <2>1. TypeOK'
    BY <1>1, <1>2 DEF TypeOK, vars, setting, requests, stores
  <2>2. \A j \in Slots : Course(j)'
    BY <1>1, <1>2 DEF Course, Project, Command, vars, setting, requests, stores
  <2> QED BY <2>1, <2>2 DEF Typed
<1>3. ASSUME NEW j \in Slots, Step(j) \/ \E r \in PRs : Event(j, r)
      PROVE  Typed'
  <2>1. Effect(j) \/ Starts(j)
    BY <1>3, StepEffect, EventEffect
  <2>2. \A k \in Slots : job'[k] \in JobRecords \cup {NoJob}
    BY <1>1, <1>3, <2>1, JobsTyped, SharedTyped
  <2>3. TypeOK'
    <3>1. infra' \in [Projects -> Seq(Changes)]
      BY <1>1, <2>1, InfraGrows
    <3>2. job' \in [Slots -> JobRecords \cup {NoJob}]
      <4>1. job' = [k \in Slots |-> job'[k]]
        <5>1. CASE Step(j)
          BY <5>1, <1>1 DEF Step, NextCommand, Lock, PutLock, Unlock, DeletePlan, TerraformPlan, StorePlan,
             ShowPlan, CheckApply, RetrievePlan, TerraformApply, Report, CheckMerge, Merge, Succeed, Only, SetStatus,
             Becomes, FreeLock, TypeOK
        <5> QED BY <1>1, <1>3, <5>1 DEF Event, Push, Reopen, Close, Comment, StartJob, TypeOK
      <4> QED BY <2>2, <4>1
    <3> QED BY <1>1, <1>3, <3>1, <3>2, SharedTyped DEF TypeOK, setting
  <2>4. ASSUME NEW k \in Slots, k # j
        PROVE  Course(k)'
    <3>1. CASE job[k] = NoJob /\ job'[k] = NoJob
      BY <3>1 DEF Course
    <3>2. CASE job[k] # NoJob /\ Sits(job[k], job'[k])
      <4>1. Project(k)' = Project(k) /\ Command(k)' = Command(k)
        BY <3>2 DEF Sits, Project, Command
      <4>2. storage' = storage
        BY <1>3, SharedTyped DEF setting
      <4>3. job[k].todo # {} => Project(k) \in Projects
        BY <1>1, <3>2, EndsOf DEF At
      <4>5. job[k].pc \in {"store", "show"} => job[k].plan.base <= Len(infra'[Project(k)])
        <5>1. job[k].pc \in {"store", "show"} =>
                 job[k].plan.base <= Len(infra[Project(k)]) /\ job[k].plan.base \in Nat
                 /\ Project(k) \in Projects
          BY <1>1, <3>2, <4>3 DEF Course, Plans
        <5>2. \A p \in Projects : /\ Len(infra[p]) \in Nat /\ Len(infra'[p]) \in Nat
                                  /\ Len(infra'[p]) >= Len(infra[p])
          BY <1>1, <2>1, <2>3, InfraGrows DEF TypeOK
        <5> QED BY <5>1, <5>2
      <4> QED BY <1>1, <3>2, <4>1, <4>2, <4>5 DEF Course, Sits
    <3> QED BY <1>1, <2>1, <2>4, <3>1, <3>2, OthersSit
  <2>5. Course(j)'
    <3>2. storage' = storage
      BY <1>3, SharedTyped DEF setting
    <3>3. Course(j)
      BY <1>1
    <3>4. Project(j)' = First(job'[j].todo) /\ Command(j)' = Head(job'[j].left)
      BY DEF Project, Command
    <3>5. CASE Starts(j)
      BY <3>5 DEF Starts, Course
    <3>6. ASSUME NEW l, MovesOn(job[j], job'[j], l) \/ Moves(job[j], job'[j], l)
          PROVE  Project(j)' = Project(j) /\ Command(j)' = Command(j) /\ job'[j].todo = job[j].todo
                 /\ job'[j].pc = l
      BY <3>4, <3>6 DEF MovesOn, Moves, Project, Command
    <3>7. ASSUME Over(job[j], job'[j])
          PROVE  Course(j)'
      BY <3>7 DEF Over, Course
    <3>8. CASE GoesOn(j)
      BY <3>3, <3>6, <3>8 DEF GoesOn, At, Course, MovesOn, Hands
    <3>9. CASE Drops(j) \/ Deletes(j) \/ Shows(j) \/ Alters(j)
      BY <3>7, <3>9 DEF Drops, Deletes, Shows, Alters, GivesUp, Completes
    <3>10. CASE Grants(j)
      BY <3>2, <3>3, <3>6, <3>7, <3>10 DEF Grants, At, Course, MovesOn, Hands, Completes
    <3>11. CASE Puts(j)
      BY <3>3, <3>6, <3>11 DEF Puts, At, Course, MovesOn, Hands
    <3>12. CASE Loses(j)
      BY <3>7, <3>12 DEF Loses, Course, Completes
    <3>13. CASE Frees(j)
      <4>1. CASE job'[j] = job[j]
        BY <3>3, <3>4, <3>13, <4>1 DEF Frees, Course, Project, Command, At
      <4>2. CASE job'[j] # job[j]
        BY <3>3, <3>6, <3>13, <4>2 DEF Frees, At, Course, MovesOn, Hands
      <4> QED BY <4>1, <4>2
    <3>14. CASE PlansIt(j)
      <4>1. infra' = infra /\ Project(j) \in Projects
        BY <3>14 DEF PlansIt, Quiet, At
      <4>2. Len(infra[Project(j)]) \in Nat
        BY <1>1, <4>1 DEF TypeOK
      <4>3. job[j].pc = "tfplan" /\ Command(j) = "plan"
        BY <3>3, <3>14 DEF PlansIt, At, Course
      <4>4. Project(j)' = Project(j) /\ Command(j)' = Command(j) /\ job'[j].todo # {}
            /\ job'[j].pc \in {"store", "show"}
        BY <3>6, <3>14 DEF PlansIt, At
      <4>5. job'[j].plan \in Plans /\ job'[j].plan.base <= Len(infra'[Project(j)'])
        BY <3>14, <4>1, <4>2, <4>4 DEF PlansIt
      <4> QED BY <4>3, <4>4, <4>5 DEF Course
    <3>15. CASE Stores(j)
      <4>1. infra' = infra /\ job[j].pc = "store"
        BY <3>15 DEF Stores, At
      <4> QED BY <3>3, <3>6, <3>15, <4>1 DEF Stores, At, Course, MovesOn, Hands
    <3>16. CASE Asks(j)
      BY <3>3, <3>6, <3>16 DEF Asks, At, Course
    <3>17. CASE Retrieves(j)
      BY <3>3, <3>6, <3>17 DEF Retrieves, At, Course
    <3>18. CASE Finishes(j)
      BY <3>3, <3>6, <3>18 DEF Finishes, Course, MovesOn, Hands
    <3> QED BY <2>1, <3>5, <3>8, <3>9, <3>10, <3>11, <3>12, <3>13, <3>14, <3>15, <3>16, <3>17, <3>18
            DEF Effect
  <2> QED BY <2>3, <2>4, <2>5 DEF Typed
<1> QED BY <1>2, <1>3 DEF Next

\* What a step of another job leaves of a job.
LEMMA OtherPlaces ==
  ASSUME TypeOK, NEW j \in Slots, Effect(j) \/ Starts(j), NEW k \in Slots, k # j, job'[k] # NoJob
  PROVE  /\ job[k] # NoJob /\ Sits(job[k], job'[k])
         /\ Project(k)' = Project(k) /\ Command(k)' = Command(k)
         /\ \A p : WorksOn(k, p)' = WorksOn(k, p)
<1>1. job[k] # NoJob /\ Sits(job[k], job'[k])
  BY OthersSit
<1>2. Project(k)' = Project(k) /\ Command(k)' = Command(k)
  BY <1>1 DEF Sits, Project, Command
<1>3. Working(k)' = Working(k)
  BY <1>1 DEF Sits, Working
<1> QED BY <1>1, <1>2, <1>3 DEF WorksOn

\* Steps that leave their job outside of the lock.
LEMMA OutOfLock ==
  ASSUME NEW j \in Slots, Effect(j) \/ Starts(j), Working(j)'
  PROVE  \/ Grants(j) /\ job'[j].todo = job[j].todo /\ job'[j].pr = job[j].pr
         \/ /\ PlansIt(j) \/ Stores(j) \/ Retrieves(j)
            /\ Working(j) /\ \E l : Moves(job[j], job'[j], l)
<1>1. job'[j] # NoJob /\ job'[j].pc \in {"tfplan", "store", "show", "retrieve", "tfapply"}
  BY DEF Working
<1>2. ~Over(job[j], job'[j])
  BY <1>1 DEF Over
<1>3. CASE Grants(j)
  BY <1>2, <1>3 DEF Grants, Completes, MovesOn, Moves
<1>4. CASE PlansIt(j) \/ Stores(j) \/ Retrieves(j)
  BY <1>4 DEF PlansIt, Stores, Retrieves, At, Working, MovesOn
<1>5. ~(GoesOn(j) \/ Drops(j) \/ Puts(j) \/ Loses(j) \/ Deletes(j) \/ Shows(j) \/ Asks(j)
        \/ Alters(j) \/ Finishes(j) \/ Starts(j))
  BY <1>1, <1>2 DEF GoesOn, Drops, Puts, Loses, Deletes, Shows, Asks, Alters, Finishes, Starts,
     MovesOn, Moves, Completes, GivesUp
<1>6. ~Frees(j)
  BY <1>1 DEF Frees, At, MovesOn, Moves
<1> QED BY <1>3, <1>4, <1>5, <1>6 DEF Effect

\* Each step leaves the lock with the job at work, or marks the job as stray.
LEMMA OwnerStep ==
  ASSUME Typed, Owner, NEW j \in Slots, Effect(j) \/ Starts(j)
  PROVE  Owner'
<1>1. TypeOK
  BY DEF Typed
<1> SUFFICES ASSUME NEW k \in Slots, NEW p \in Projects, WorksOn(k, p)', ~job'[k].stray
             PROVE  lock'[p] = job'[k].pr
  BY DEF Owner
<1>2. job'[k] # NoJob
  BY DEF WorksOn, Working
<1>3. CASE k # j
  <2>1. job[k] # NoJob /\ Sits(job[k], job'[k]) /\ WorksOn(k, p)
    BY <1>1, <1>2, <1>3, OtherPlaces
  <2>2. lock[p] = job[k].pr /\ job'[k].pr = job[k].pr /\ lock[p] # NoPR
    BY <2>1, NullsAssumption DEF Owner, Sits, JobRecords
  <2>3. lock'[p] = lock[p]
    <3>1. CASE Grants(j)
      <4>1. lock' = [lock EXCEPT ![Project(j)] = job[j].pr] /\ lock[Project(j)] \in {NoPR, job[j].pr}
        BY <3>1 DEF Grants
      <4> QED BY <1>1, <2>2, <4>1 DEF TypeOK
    <3>2. CASE Frees(j)
      <4>1. CASE p = Project(j)
        <5>1. job'[k] = [job[k] EXCEPT !.stray = TRUE]
          BY <1>3, <2>1, <3>2, <4>1 DEF Frees
        <5> QED BY <2>1, <5>1 DEF Sits, JobRecords
      <4>2. CASE p # Project(j)
        BY <1>1, <3>2, <4>2 DEF Frees, TypeOK
      <4> QED BY <4>1, <4>2
    <3> QED BY <3>1, <3>2 DEF Effect, GoesOn, Drops, Puts, Loses, Deletes, PlansIt, Stores, Shows,
               Asks, Retrieves, Alters, Finishes, Starts, Quiet
  <2> QED BY <2>2, <2>3
<1>4. CASE k = j
  <2>1. Working(j)' /\ p = Project(j)'
    BY <1>4 DEF WorksOn
  <2>2. CASE Grants(j) /\ job'[j].todo = job[j].todo /\ job'[j].pr = job[j].pr
    <3>1. p = Project(j)
      BY <2>1, <2>2 DEF Project
    <3> QED BY <1>1, <1>4, <2>2, <3>1 DEF Grants, TypeOK
  <2>3. CASE /\ PlansIt(j) \/ Stores(j) \/ Retrieves(j)
             /\ Working(j) /\ \E l : Moves(job[j], job'[j], l)
    <3>1. p = Project(j) /\ job'[j].pr = job[j].pr /\ ~job[j].stray
      BY <1>4, <2>1, <2>3 DEF Project, Moves
    <3>2. UNCHANGED lock
      BY <2>3 DEF PlansIt, Stores, Retrieves, Quiet
    <3> QED BY <1>4, <2>3, <3>1, <3>2 DEF Owner, WorksOn
  <2> QED BY <2>1, <2>2, <2>3, OutOfLock
<1> QED BY <1>3, <1>4

\* An entry of the history of a project is old, or the one terraform now made.
LEMMA InfraEntry ==
  ASSUME TypeOK, NEW j \in Slots, Effect(j) \/ Starts(j),
         NEW q \in Projects, NEW i \in 1..Len(infra'[q])
  PROVE  \/ i \in 1..Len(infra[q]) /\ infra'[q][i] = infra[q][i]
         \/ /\ Alters(j) /\ q = Project(j)
            /\ infra'[q][i].pr = job[j].pr /\ infra'[q][i].stray = job[j].stray
<1>1. infra[q] \in Seq(Changes) /\ infra'[q] \in Seq(Changes) /\ Len(infra[q]) \in Nat
  BY InfraGrows DEF TypeOK
<1>2. CASE i \in 1..Len(infra[q])
  BY <1>2, InfraGrows
<1>3. CASE i \notin 1..Len(infra[q])
  <2>1. infra'[q] # infra[q] /\ i > Len(infra[q])
    BY <1>1, <1>3
  <2>2. Alters(j)
    BY <2>1 DEF Effect, GoesOn, Drops, Grants, Puts, Loses, Frees, Deletes, PlansIt,
       Stores, Shows, Asks, Retrieves, Finishes, Starts, Quiet
  <2>3. PICK at \in 0..MaxPushes :
          infra' = [infra EXCEPT ![Project(j)] =
                      Append(@, [pr |-> job[j].pr, at |-> at, stray |-> job[j].stray])]
    BY <2>2 DEF Alters
  <2> DEFINE c == [pr |-> job[j].pr, at |-> at, stray |-> job[j].stray]
  <2>4. c.pr = job[j].pr /\ c.stray = job[j].stray /\ c \in Changes
    BY <2>2 DEF Alters, At, JobRecords, Changes
  <2> HIDE DEF c
  <2>5. infra' = [infra EXCEPT ![Project(j)] = Append(@, c)]
    BY <2>3 DEF c
  <2>6. q = Project(j) /\ infra'[q] = Append(infra[q], c)
    BY <2>1, <2>5 DEF TypeOK
  <2> DEFINE s == infra[q]
  <2>7. s \in Seq(Changes) /\ i \in 1..Len(Append(s, c)) /\ i > Len(s) /\ Len(s) \in Nat
    BY <1>1, <2>1, <2>6
  <2> HIDE DEF s
  <2>8. Append(s, c)[i] = c
    <3>1. Len(Append(s, c)) = Len(s) + 1 /\ Append(s, c)[Len(s) + 1] = c
      BY <2>4, <2>7
    <3>2. i = Len(s) + 1
      BY <2>7, <3>1
    <3> QED BY <3>1, <3>2
  <2> QED BY <2>2, <2>4, <2>6, <2>8 DEF s
<1> QED BY <1>2, <1>3

\* Who makes a change has the lock of the project, or had it.
LEMMA AltersOwn ==
  ASSUME Typed, Owner, NEW j \in Slots, Alters(j)
  PROVE  job[j].stray \/ lock[Project(j)] = job[j].pr
<1>1. WorksOn(j, Project(j)) /\ Project(j) \in Projects
  BY DEF Alters, At, WorksOn, Working
<1> QED BY <1>1 DEF Owner

\* While a project is guarded its lock stays whose it is; it is guarded anew by
\* a preview of the one who has it.
LEMMA GuardKeeps ==
  ASSUME Typed, Owner, Fresh, NEW j \in Slots, Effect(j) \/ Starts(j),
         NEW q \in Projects, guarded'[q] # -1
  PROVE  \/ guarded'[q] = guarded[q] /\ lock'[q] = lock[q]
         \/ /\ Shows(j) /\ q = Project(j) /\ ~job[j].stray
            /\ guarded'[q] = job[j].plan.base /\ lock'[q] = job[j].pr /\ infra' = infra
<1>1. TypeOK
  BY DEF Typed
<1>2. CASE Shows(j)
  <2>1. CASE job[j].stray
    BY <1>2, <2>1 DEF Shows
  <2>2. CASE ~job[j].stray
    <3>1. WorksOn(j, Project(j)) /\ Project(j) \in Projects
      BY <1>2 DEF Shows, At, WorksOn, Working
    <3>2. lock[Project(j)] = job[j].pr
      BY <2>2, <3>1 DEF Owner
    <3> QED BY <1>1, <1>2, <2>2, <3>1, <3>2 DEF Shows, TypeOK
  <2> QED BY <2>1, <2>2
<1>3. CASE Frees(j)
  BY <1>1, <1>3 DEF Frees, TypeOK
<1>4. CASE Grants(j)
  <2>1. guarded'[q] = guarded[q] /\ lock[q] # NoPR
    BY <1>4 DEF Grants, Fresh
  <2>2. lock' = [lock EXCEPT ![Project(j)] = job[j].pr] /\ lock[Project(j)] \in {NoPR, job[j].pr}
    BY <1>4 DEF Grants
  <2> QED BY <1>1, <2>1, <2>2 DEF TypeOK
<1>5. CASE UNCHANGED <<lock, guarded>>
  BY <1>5
<1> QED BY <1>2, <1>3, <1>4, <1>5 DEF Effect, GoesOn, Drops, Puts, Loses, Deletes, PlansIt,
           Stores, Asks, Retrieves, Alters, Finishes, Starts, Quiet

\* Each step leaves the project as the holder of its lock has previewed it.
LEMMA FreshStep ==
  ASSUME Typed, Owner, Fresh, NEW j \in Slots, Effect(j) \/ Starts(j)
  PROVE  Fresh'
<1>1. TypeOK /\ \A k \in Slots : Course(k)
  BY DEF Typed
<1>2. \A q \in Projects : /\ Len(infra[q]) \in Nat /\ Len(infra'[q]) \in Nat
                          /\ Len(infra'[q]) >= Len(infra[q])
  BY <1>1, InfraGrows
<1>3. ASSUME NEW q \in Projects, guarded'[q] # -1
      PROVE  /\ lock'[q] # NoPR
             /\ \A i \in guarded'[q] + 1 .. Len(infra'[q]) :
                  infra'[q][i].pr = lock'[q] \/ infra'[q][i].stray
  <2>1. CASE guarded'[q] = guarded[q] /\ lock'[q] = lock[q]
    <3>1. guarded[q] # -1 /\ guarded[q] \in Nat
      BY <1>1, <1>3, <2>1 DEF TypeOK
    <3>2. ASSUME NEW i \in guarded'[q] + 1 .. Len(infra'[q])
          PROVE  infra'[q][i].pr = lock'[q] \/ infra'[q][i].stray
      <4>1. i \in 1..Len(infra'[q]) /\ i >= guarded[q] + 1
        BY <1>2, <2>1, <3>1, <3>2
      <4>2. CASE i \in 1..Len(infra[q]) /\ infra'[q][i] = infra[q][i]
        <5>1. i \in guarded[q] + 1 .. Len(infra[q])
          BY <1>2, <3>1, <4>1, <4>2
        <5> QED BY <2>1, <3>1, <4>2, <5>1 DEF Fresh, PreviewFresh
      <4>3. CASE Alters(j) /\ q = Project(j)
                 /\ infra'[q][i].pr = job[j].pr /\ infra'[q][i].stray = job[j].stray
        BY <2>1, <4>3, AltersOwn
      <4> QED BY <1>1, <4>1, <4>2, <4>3, InfraEntry
    <3> QED BY <2>1, <3>1, <3>2 DEF Fresh
  <2>2. CASE /\ Shows(j) /\ q = Project(j) /\ ~job[j].stray
             /\ guarded'[q] = job[j].plan.base /\ lock'[q] = job[j].pr /\ infra' = infra
    <3>1. Running(j, "show") /\ job[j].pr \in PRs
      BY <2>2 DEF Shows, At, Running, JobRecords
    <3>2. SinceMine(j)
      BY <2>2, <3>1 DEF Fresh
    <3> QED BY <2>2, <3>1, <3>2, NullsAssumption DEF SinceMine
  <2> QED BY <1>3, <2>1, <2>2, GuardKeeps
<1>4. ASSUME NEW k \in Slots, (Running(k, "store") \/ Running(k, "show"))', ~job'[k].stray
      PROVE  SinceMine(k)'
  <2>1. job'[k] # NoJob /\ job'[k].pc \in {"store", "show"} /\ Working(k)'
    BY <1>4 DEF Running, Working
  <2>2. CASE k # j
    <3>1. /\ job[k] # NoJob /\ Sits(job[k], job'[k]) /\ Project(k)' = Project(k)
          /\ \A q : WorksOn(k, q)' = WorksOn(k, q)
      BY <1>1, <2>1, <2>2, OtherPlaces
    <3> DEFINE q == Project(k)
    <3>2. /\ job[k].pc \in {"store", "show"} /\ ~job[k].stray /\ job[k].todo # {}
          /\ job'[k].plan = job[k].plan /\ job'[k].pr = job[k].pr
      BY <1>1, <1>4, <2>1, <3>1 DEF Sits, Course
    <3>3. q \in Projects /\ job[k].plan.base \in Nat
      BY <1>1, <3>1, <3>2, EndsOf DEF At, Course, Plans
    <3>4. SinceMine(k) /\ lock[q] = job[k].pr
      BY <3>1, <3>2, <3>3 DEF Fresh, Running, Owner, WorksOn, Working
    <3>5. ASSUME NEW i \in job[k].plan.base + 1 .. Len(infra'[q])
          PROVE  infra'[q][i].pr = job[k].pr \/ infra'[q][i].stray
      <4>1. i \in 1..Len(infra'[q]) /\ i >= job[k].plan.base + 1
        BY <1>2, <3>3, <3>5
      <4>2. CASE i \in 1..Len(infra[q]) /\ infra'[q][i] = infra[q][i]
        <5>1. i \in job[k].plan.base + 1 .. Len(infra[q])
          BY <1>2, <3>3, <4>1, <4>2
        <5> QED BY <3>4, <4>2, <5>1 DEF SinceMine
      <4>3. CASE Alters(j) /\ q = Project(j)
                 /\ infra'[q][i].pr = job[j].pr /\ infra'[q][i].stray = job[j].stray
        BY <3>4, <4>3, AltersOwn
      <4> QED BY <1>1, <3>3, <4>1, <4>2, <4>3, InfraEntry
    <3> QED BY <3>1, <3>2, <3>5 DEF SinceMine
  <2>3. CASE k = j
    <3>1. ~Grants(j) /\ ~Retrieves(j)
      BY <2>1, <2>3 DEF Grants, Retrieves, MovesOn, Moves, Completes, Over
    <3>2. PlansIt(j) \/ Stores(j)
      BY <2>1, <2>3, <3>1, OutOfLock
    <3>3. Project(j)' = Project(j) /\ job'[j].pr = job[j].pr /\ infra' = infra
          /\ Project(j) \in Projects /\ job'[j].stray = job[j].stray
      BY <3>2 DEF PlansIt, Stores, MovesOn, Moves, Project, Quiet, At
    <3>4. CASE PlansIt(j)
      <4>1. job'[j].plan.base = Len(infra[Project(j)])
        BY <3>4 DEF PlansIt
      <4>2. job'[j].plan.base + 1 .. Len(infra'[Project(j)']) = {}
        BY <1>2, <3>3, <4>1
      <4> QED BY <2>3, <3>3, <4>2 DEF SinceMine
    <3>5. CASE Stores(j)
      <4>1. job'[j].plan = job[j].plan /\ Running(j, "store")
        BY <3>5 DEF Stores, MovesOn, Hands, At, Running
      <4>2. SinceMine(j)
        BY <1>4, <2>3, <3>3, <4>1 DEF Fresh
      <4> QED BY <2>3, <3>3, <4>1, <4>2 DEF SinceMine
    <3> QED BY <3>2, <3>4, <3>5
  <2> QED BY <2>2, <2>3
<1> QED BY <1>3, <1>4 DEF Fresh, PreviewFresh

\* Only StorePlan marks a job as having its plan stored again, and only one that
\* has still to retrieve it.
LEMMA OtherMarks ==
  ASSUME TypeOK, NEW j \in Slots, Effect(j) \/ Starts(j), NEW k \in Slots, k # j,
         job[k] # NoJob
  PROVE  \/ job'[k].moved = job[k].moved /\ ~Stores(j)
         \/ /\ Stores(j) /\ job[k].todo # {} /\ job[k].pr = job[j].pr /\ Project(k) = Project(j)
            /\ job[k].pc \in {"lock", "put", "retrieve"}
            /\ job'[k].moved = (Command(k) = "apply")
         \/ /\ Stores(j) /\ job'[k] = job[k]
            /\ ~ (job[k].todo # {} /\ job[k].pr = job[j].pr /\ Project(k) = Project(j)
                  /\ job[k].pc \in {"lock", "put", "retrieve"})
<1>1. job[k] \in JobRecords
  BY DEF TypeOK
<1> DEFINE J == job[k]
<1> DEFINE K == job'[k]
<1>2. CASE Stores(j)
  <2> DEFINE b == Command(k) = "apply"
  <2>1. K = [J EXCEPT !.moved = b]
        \/ (K = J /\ ~ (job[k].todo # {} /\ job[k].pr = job[j].pr /\ Project(k) = Project(j)
                        /\ job[k].pc \in {"lock", "put", "retrieve"}))
    BY <1>2 DEF Stores
  <2>2. K = [J EXCEPT !.moved = b] => K.moved = b
    <3> HIDE DEF J, K, b
    <3> QED BY <1>1 DEF JobRecords, J
  <2>3. (job[k].todo # {} /\ job[k].pr = job[j].pr /\ Project(k) = Project(j)
         /\ job[k].pc \in {"lock", "put", "retrieve"}) => K = [J EXCEPT !.moved = b]
    BY <1>2 DEF Stores
  <2>4. ~(job[k].todo # {} /\ job[k].pr = job[j].pr /\ Project(k) = Project(j)
         /\ job[k].pc \in {"lock", "put", "retrieve"}) => K = J
    BY <1>2 DEF Stores
  <2> QED BY <1>2, <2>2, <2>3, <2>4
<1>3. CASE ~Stores(j)
  <2>1. K = J \/ K = [J EXCEPT !.stray = TRUE]
    BY <1>3 DEF Effect, GoesOn, Drops, Grants, Puts, Loses, Frees, Deletes, PlansIt, Shows, Asks,
         Retrieves, Alters, Finishes, Starts, Quiet, Others
  <2>2. K.moved = J.moved
    <3> HIDE DEF J, K
    <3> QED BY <1>1, <2>1 DEF JobRecords, J
  <2> QED BY <1>3, <2>2
<1> QED BY <1>2, <1>3

\* A plan with violations is not found by an apply it was not found by before,
\* unless the job just stored it.
LEMMA ViolatesStays ==
  ASSUME TypeOK, NEW j \in Slots, Effect(j) \/ Starts(j), UNCHANGED storage,
         NEW k \in Slots, job[k] \in JobRecords, job'[k].pr = job[k].pr, Project(k) \in Projects,
         Project(k)' = Project(k), Violates(k)',
         Stores(j) => ~ (job[k].pr = job[j].pr /\ Project(k) = Project(j))
  PROVE  Violates(k)
<1> DEFINE r == job[k].pr
<1> DEFINE q == Project(k)
<1>1. r \in PRs /\ q \in Projects
  BY DEF JobRecords
<1>2. PlanOf(k)' = IF storage = "bucket" \/ latest'[q] = r THEN stored'[r][q] ELSE NoPlan
  BY DEF PlanOf
<1>3. PlanOf(k) = IF storage = "bucket" \/ latest[q] = r THEN stored[r][q] ELSE NoPlan
  BY DEF PlanOf
<1>4. storage # "none" /\ PlanOf(k)' # NoPlan /\ ~PlanOf(k)'.ok
  BY DEF Violates
<1> HIDE DEF r, q
<1>5. CASE UNCHANGED stores
  BY <1>2, <1>3, <1>4, <1>5 DEF stores, Violates
<1>6. CASE Deletes(j)
  <2>1. job[j].pr \in PRs /\ Project(j) \in Projects /\ latest' = latest
    BY <1>6 DEF Deletes, At, JobRecords
  <2>2. stored'[r][q] \in {stored[r][q], NoPlan}
    <3>1. CASE UNCHANGED stored
      BY <3>1
    <3>2. CASE stored' = [stored EXCEPT ![job[j].pr][Project(j)] = NoPlan]
      BY <1>1, <2>1, <3>2 DEF TypeOK
    <3> QED BY <1>6, <3>1, <3>2 DEF Deletes
  <2> QED BY <1>2, <1>3, <1>4, <2>1, <2>2 DEF Violates
<1>7. CASE Stores(j)
  <2>1. job[j].pr \in PRs /\ Project(j) \in Projects /\ ~ (r = job[j].pr /\ q = Project(j))
    BY <1>7 DEF Stores, At, JobRecords, r, q
  <2>2. stored'[r][q] = stored[r][q]
    BY <1>1, <1>7, <2>1 DEF Stores, TypeOK
  <2>3. latest'[q] = r => latest[q] = r
    BY <1>1, <1>7, <2>1 DEF Stores, TypeOK
  <2> QED BY <1>2, <1>3, <1>4, <2>2, <2>3 DEF Violates
<1> QED BY <1>5, <1>6, <1>7 DEF Effect, GoesOn, Drops, Grants, Puts, Loses, Frees, PlansIt, Shows,
           Asks, Retrieves, Alters, Finishes, Starts, Quiet

\* Each step leaves the policy told of the violations of the plan that will be applied.
LEMMA ToldStep ==
  ASSUME Typed, Told, NEW j \in Slots, Effect(j) \/ Starts(j), UNCHANGED storage
  PROVE  Told'
<1>1. TypeOK /\ \A k \in Slots : Course(k)
  BY DEF Typed
<1> SUFFICES ASSUME NEW k \in Slots, job'[k] # NoJob, ~job'[k].known, ~job'[k].moved
             PROVE  /\ job'[k].pc \in {"lock", "put", "retrieve"} /\ Command(k)' = "apply" => ~Violates(k)'
                    /\ job'[k].pc = "tfapply" /\ job'[k].plan # NoPlan => job'[k].plan.ok
  BY DEF Told
<1> DEFINE J == job[k]
<1> DEFINE K == job'[k]
<1>2. CASE k # j
  <2>1. J # NoJob /\ Sits(J, K) /\ Project(k)' = Project(k) /\ Command(k)' = Command(k)
    BY <1>1, <1>2, OtherPlaces
  <2>2. J \in JobRecords /\ ~J.known /\ J.pc = K.pc /\ J.plan = K.plan /\ J.pr = K.pr
    BY <2>1 DEF Sits
  <2>3. CASE K.pc = "tfapply"
    <3>1. ~J.moved
      BY <1>1, <1>2, <2>1, <2>2, <2>3, OtherMarks
    <3> QED BY <2>1, <2>2, <2>3, <3>1 DEF Told
  <2>4. CASE K.pc \in {"lock", "put", "retrieve"} /\ Command(k)' = "apply"
    <3>1. J.todo # {}
      BY <1>1, <2>1, <2>2, <2>4 DEF Course
    <3>2. Project(k) \in Projects
      BY <1>1, <2>1, <3>1, EndsOf DEF At
    <3>3. ~J.moved /\ (Stores(j) => ~ (J.pr = job[j].pr /\ Project(k) = Project(j)))
      BY <1>1, <1>2, <2>1, <2>2, <2>4, <3>1, OtherMarks
    <3>4. ~Violates(k)
      BY <2>1, <2>2, <2>4, <3>3 DEF Told
    <3> QED BY <1>1, <2>1, <2>2, <2>4, <3>2, <3>3, <3>4, ViolatesStays
  <2> QED BY <2>3, <2>4
<1>3. CASE k = j
  <2>1. ASSUME Moves(J, K, K.pc), J # NoJob, ~Stores(j),
               J.pc \in {"lock", "put", "retrieve"}, Hands(J, K), K.pc \in {"lock", "put", "retrieve"},
               Command(k)' = "apply"
        PROVE  ~Violates(k)'
    <3>1. Project(k)' = Project(k) /\ Command(k)' = Command(k) /\ K.pr = J.pr /\ J \in JobRecords
      BY <2>1 DEF Moves, Project, Command
    <3>2. ~Violates(k)
      BY <2>1, <3>1 DEF Told, Hands
    <3>3. Project(k) \in Projects
      BY <1>1, <2>1, EndsOf DEF At, Course
    <3> QED BY <1>1, <2>1, <3>1, <3>2, <3>3, ViolatesStays
  <2>2. CASE GoesOn(j)
    <3>1. K.pc \in {"check", "unlock"} \/ (K.pc = "lock" /\ Command(k)' = Command(k) /\ Command(k) # "apply")
      BY <1>3, <2>2 DEF GoesOn, MovesOn, Moves, Command
    <3> QED BY <3>1
  <2>3. CASE Over(J, K) \/ Finishes(j) \/ Starts(j)
    BY <1>3, <2>3 DEF Over, Finishes, Starts, MovesOn, Moves
  <2>4. CASE Grants(j) /\ ~Over(J, K)
    <3>1. CASE MovesOn(J, K, "tfplan")
      BY <3>1 DEF MovesOn, Moves
    <3>2. CASE MovesOn(J, K, "tfapply")
      <4>1. J.plan = NoPlan
        BY <1>1, <1>3, <2>4 DEF Grants, At, Course
      <4> QED BY <3>2, <4>1 DEF MovesOn, Moves, Hands
    <3>3. CASE MovesOn(J, K, "retrieve")
      <4>1. J # NoJob /\ J.pc \in {"lock", "put"} /\ ~Stores(j)
        BY <1>3, <2>4 DEF Grants, At, Stores
      <4>2. K.pc = "retrieve" /\ Hands(J, K) /\ Moves(J, K, K.pc)
        BY <3>3 DEF MovesOn, Moves
      <4> QED BY <2>1, <4>1, <4>2
    <3> QED BY <1>3, <2>4, <3>1, <3>2, <3>3 DEF Grants, Completes
  <2>5. CASE Puts(j)
    <3>1. J # NoJob /\ J.pc = "lock" /\ ~Stores(j) /\ K.pc = "put" /\ Hands(J, K) /\ Moves(J, K, K.pc)
      BY <1>3, <2>5 DEF Puts, At, Stores, MovesOn, Moves
    <3> QED BY <2>1, <3>1
  <2>6. CASE Frees(j)
    <3>1. CASE J.pc = "lock" /\ K = J
      <4>1. J # NoJob /\ ~Stores(j) /\ Hands(J, K) /\ Moves(J, K, K.pc)
        BY <1>3, <2>6, <3>1 DEF Frees, At, Stores, Hands, Moves
      <4> QED BY <2>1, <3>1, <4>1
    <3>2. CASE K.pc = "delete"
      BY <3>2
    <3> QED BY <1>3, <2>6, <3>1, <3>2 DEF Frees, MovesOn, Moves
  <2>7. CASE PlansIt(j) \/ Stores(j)
    BY <1>3, <2>7 DEF PlansIt, Stores, MovesOn, Moves
  <2>8. CASE Asks(j)
    <3>1. K.pc = "lock" /\ K.pr = J.pr /\ Project(k)' = Project(k) /\ ~Violates(k) /\ ~Stores(j)
          /\ J \in JobRecords /\ Project(k) \in Projects
      BY <1>3, <2>8 DEF Asks, Moves, Project, At, Stores
    <3> QED BY <1>1, <3>1, ViolatesStays
  <2>9. CASE Retrieves(j)
    <3>1. /\ K.pc = "tfapply" /\ K.plan = PlanOf(k) /\ J.pc = "retrieve" /\ J # NoJob
          /\ ~J.known /\ ~J.moved
      BY <1>3, <2>9 DEF Retrieves, Moves, At
    <3>2. Command(k) = "apply" /\ storage # "none"
      BY <1>1, <3>1 DEF Course
    <3>3. ~Violates(k)
      BY <3>1, <3>2 DEF Told
    <3> QED BY <3>1, <3>2, <3>3 DEF Violates
  <2>10. CASE Drops(j) \/ Loses(j) \/ Deletes(j) \/ Shows(j) \/ Alters(j)
    BY <1>3, <2>3, <2>10 DEF Drops, Loses, Deletes, Shows, Alters, GivesUp, Completes
  <2> QED BY <2>2, <2>3, <2>4, <2>5, <2>6, <2>7, <2>8, <2>9, <2>10 DEF Effect
<1> QED BY <1>2, <1>3

\* What a pull request has applied stays applied.
LEMMA AppliedStays ==
  ASSUME TypeOK, NEW j \in Slots, Effect(j) \/ Starts(j), NEW r, NEW q \in Projects, AppliedBy(r, infra[q])
  PROVE  AppliedBy(r, infra'[q])
<1>1. infra[q] \in Seq(Changes) /\ infra'[q] \in Seq(Changes)
  BY InfraGrows DEF TypeOK
<1>2. PICK i \in DOMAIN infra[q] : infra[q][i].pr = r /\ infra[q][i].at > 0
  BY DEF AppliedBy
<1>3. i \in 1..Len(infra[q]) /\ Len(infra[q]) \in Nat
  BY <1>1
<1>4. infra'[q][i] = infra[q][i] /\ Len(infra'[q]) >= Len(infra[q])
  BY <1>3, InfraGrows
<1>5. i \in DOMAIN infra'[q]
  BY <1>1, <1>3, <1>4
<1> QED BY <1>2, <1>4, <1>5 DEF AppliedBy

\* The commands that are left are of the job; when the last of them is over and
\* the job has an apply, the apply is behind it.
LEMMA PassesOn ==
  ASSUME Typed, Applies, NEW j \in Slots, At(j, PCs), Over(job[j], job'[j]),
         job[j].tried \subseteq job'[j].tried,
         \/ /\ Passes(job[j], job'[j], Project(j))
            /\ Command(j) = "apply" => Project(j) \in job'[j].tried
         \/ /\ Project(j) \in job'[j].tried /\ job'[j].left = job[j].cmds
            /\ job'[j].todo = job[j].todo \ {Project(j)} \/ job'[j].todo = {}
  PROVE  /\ \A i \in DOMAIN job'[j].left : Has(job'[j].cmds, job'[j].left[i])
         /\ job'[j].todo # {} /\ Has(job'[j].cmds, "apply") =>
              Project(j)' \in job'[j].tried \/ Has(job'[j].left, "apply")
         /\ Has(job'[j].cmds, "apply") /\ job'[j].covers /\ (job'[j].todo = {} => job[j].todo = {Project(j)}) =>
              impacted[job[j].pr] \subseteq job'[j].tried \cup job'[j].todo
<1> DEFINE J == job[j]
<1> DEFINE K == job'[j]
<1> DEFINE p == Project(j)
<1>1. J \in JobRecords /\ K \in JobRecords /\ J # NoJob /\ J.todo # {} /\ p \in J.todo
  BY DEF At, Over
<1>2. J.left \in Seq(Commands) /\ J.left # <<>> /\ K.cmds = J.cmds /\ K.covers = J.covers
  BY <1>1 DEF JobRecords, Over
<1>3. /\ \A i \in DOMAIN J.left : Has(J.cmds, J.left[i])
      /\ Has(J.cmds, "apply") => p \in J.tried \/ Has(J.left, "apply")
      /\ Has(J.cmds, "apply") /\ J.covers => impacted[J.pr] \subseteq J.tried \cup J.todo
  BY <1>1 DEF Applies, Applying
<1>4. Command(j) = J.left[1] /\ Len(J.left) \in Nat /\ DOMAIN J.left = 1..Len(J.left)
  BY <1>2 DEF Command
<1>5. \A i \in DOMAIN J.cmds : Has(J.cmds, J.cmds[i])
  BY DEF Has
<1> HIDE DEF J, K, p
<1>6. CASE K.left = J.cmds
  <2>1. Has(K.cmds, "apply") => Has(K.left, "apply")
    BY <1>2, <1>6
  <2>2. \A i \in DOMAIN K.left : Has(K.cmds, K.left[i])
    BY <1>2, <1>5, <1>6
  <2>3. p \in K.tried \/ ~Has(J.cmds, "apply") \/ K.todo = J.todo
    <3>1. CASE Passes(J, K, p) /\ Len(J.left) = 1
      <4>1. Has(J.left, "apply") => Command(j) = "apply"
        BY <1>4, <3>1 DEF Has
      <4> QED BY <1>3, <4>1 DEF J, K, p
    <3>2. CASE Passes(J, K, p) /\ Len(J.left) # 1
      BY <3>2 DEF Passes
    <3> QED BY <3>1, <3>2 DEF J, K, p
  <2>4. (K.todo = {} => J.todo = {p}) => J.todo \subseteq K.todo \cup {p}
    BY DEF Passes, J, K, p
  <2> QED BY <1>2, <1>3, <2>1, <2>2, <2>3, <2>4 DEF J, K, p
<1>7. CASE K.left # J.cmds
  <2>1. Passes(J, K, p) /\ Len(J.left) > 1 /\ K.todo = J.todo /\ K.left = Tail(J.left)
        /\ (Command(j) = "apply" => p \in K.tried)
    BY <1>7 DEF Passes, J, K, p
  <2>2. \A i \in DOMAIN K.left : i + 1 \in DOMAIN J.left /\ K.left[i] = J.left[i + 1]
    BY <1>2, <2>1, TailOf
  <2>3. Has(J.left, "apply") => Command(j) = "apply" \/ Has(K.left, "apply")
    <3> SUFFICES ASSUME NEW i \in DOMAIN J.left, J.left[i] = "apply", i # 1
                 PROVE  Has(K.left, "apply")
      BY <1>4 DEF Has
    <3>1. i - 1 \in DOMAIN Tail(J.left) /\ (i - 1) + 1 = i
      BY <1>2, <1>4
    <3> QED BY <2>1, <2>2, <3>1 DEF Has
  <2>4. Project(j)' = p
    BY <2>1 DEF Project, J, K, p
  <2>5. p \in K.tried \/ ~Has(J.cmds, "apply") \/ Has(K.left, "apply")
    BY <1>3, <2>1, <2>3 DEF J, K
  <2>6. \A i \in DOMAIN K.left : Has(K.cmds, K.left[i])
    BY <1>2, <1>3, <2>2
  <2> QED BY <1>2, <1>3, <2>1, <2>4, <2>5, <2>6 DEF J, K
<1> QED BY <1>6, <1>7

\* A job that moves on with its tables keeps what Applying says of it.
LEMMA ApplyingMoves ==
  ASSUME Typed, Applies, NEW j \in Slots, Effect(j) \/ Starts(j), UNCHANGED impacted,
         NEW k \in Slots, job[k] # NoJob, job[k] \in JobRecords, job'[k] \in JobRecords,
         job'[k].pr = job[k].pr, job'[k].covers = job[k].covers, job'[k].cmds = job[k].cmds,
         job'[k].todo = job[k].todo, job'[k].left = job[k].left, Counts(job[k], job'[k]),
         \/ job[k].pc # "next" \/ job[k].todo = {} \/ Command(k) # "apply"
         \/ job'[k].pc = "next",
         job'[k].pc \in {"merge", "merging"} =>
           \/ job[k].pc \in {"merge", "merging"}
           \/ job[k].covers /\ job[k].tried # {} /\ job[k].tried \subseteq job[k].good
  PROVE  Applying(k)'
<1>1. TypeOK /\ Applying(k)
  BY DEF Typed, Applies
<1>2. Project(k)' = Project(k) /\ Command(k)' = Command(k)
  BY DEF Project, Command
<1>3. \A q \in job'[k].good : AppliedBy(job'[k].pr, infra'[q])
  <2>1. \A q \in job[k].good : q \in Projects /\ AppliedBy(job[k].pr, infra[q])
    BY <1>1 DEF Applying, JobRecords
  <2>2. \A q \in job[k].good : AppliedBy(job[k].pr, infra'[q])
    BY <1>1, <2>1, AppliedStays
  <2> QED BY <2>2 DEF Counts, AppliedBy
<1> QED BY <1>1, <1>2, <1>3 DEF Applying, Counts

\* Each step keeps the table appliesPerProject true.
LEMMA AppliesStep ==
  ASSUME Typed, Applies, NEW j \in Slots, Effect(j) \/ Starts(j), UNCHANGED impacted
  PROVE  Applies'
<1>1. TypeOK /\ \A k \in Slots : Course(k) /\ Applying(k)
  BY DEF Typed, Applies
<1>2. ASSUME NEW k \in Slots, k # j, job'[k] # NoJob
      PROVE  Applying(k)'
  <2>1. /\ job[k] # NoJob /\ Sits(job[k], job'[k])
        /\ Project(k)' = Project(k) /\ Command(k)' = Command(k)
    BY <1>1, <1>2, OtherPlaces
  <2> QED BY <2>1, ApplyingMoves DEF Sits
<1> DEFINE J == job[j]
<1> DEFINE K == job'[j]
<1> DEFINE p == Project(j)
<1>3. ASSUME K # NoJob
      PROVE  Applying(j)'
  <2>1. CASE Starts(j)
    <3>1. /\ K \in JobRecords /\ K.pc = "next" /\ K.todo # {} /\ K.left = K.cmds
          /\ K.good = {} /\ (K.covers <=> K.todo = impacted[K.pr])
      BY <2>1 DEF Starts
    <3>2. /\ \A q \in K.good : AppliedBy(K.pr, infra'[q])
          /\ \A i \in DOMAIN K.left : Has(K.cmds, K.left[i])
      BY <3>1 DEF Has
    <3> QED BY <2>1, <3>1, <3>2 DEF Applying, Starts
  <2>2. ASSUME NEW l, MovesOn(J, K, l) \/ (Moves(J, K, l) /\ Counts(J, K)), J # NoJob,
               J.pc # "next" \/ J.todo = {} \/ Command(j) # "apply",
               l \in {"merge", "merging"} => J.covers /\ J.tried # {} /\ J.tried \subseteq J.good
        PROVE  Applying(j)'
    BY <2>2, ApplyingMoves DEF MovesOn, Moves
  <2>3. ASSUME At(j, PCs), Over(J, K), J.tried \subseteq K.tried,
               \A q \in K.good : AppliedBy(K.pr, infra'[q]),
               ~Has(J.cmds, "apply") => K.good = {},
               \/ /\ Passes(J, K, p)
                  /\ Command(j) = "apply" => p \in K.tried
               \/ /\ p \in K.tried /\ p \notin K.good /\ K.left = J.cmds
                  /\ K.todo = J.todo \ {p} \/ K.todo = {}
        PROVE  Applying(j)'
    <3>1. /\ \A i \in DOMAIN K.left : Has(K.cmds, K.left[i])
          /\ K.todo # {} /\ Has(K.cmds, "apply") => Project(j)' \in K.tried \/ Has(K.left, "apply")
          /\ Has(K.cmds, "apply") /\ K.covers /\ (K.todo = {} => J.todo = {p}) =>
               impacted[J.pr] \subseteq K.tried \cup K.todo
      <4>1. \/ /\ Passes(J, K, p)
               /\ Command(j) = "apply" => p \in K.tried
            \/ /\ p \in K.tried /\ K.left = J.cmds
               /\ K.todo = J.todo \ {p} \/ K.todo = {}
        BY <2>3
      <4> QED BY <2>3, <4>1, PassesOn
    <3>2. K.pc = "next" /\ K.cmds = J.cmds /\ K.pr = J.pr
      BY <2>3 DEF Over
    <3>3. K.todo = {} /\ J.todo # {p} => ~ (K.tried \subseteq K.good)
      BY <2>3 DEF Passes, At
    <3> HIDE DEF K, J
    <3>4. Has(K.cmds, "apply") /\ K.covers =>
             \/ impacted'[K.pr] \subseteq K.tried \cup K.todo
             \/ K.todo = {} /\ ~(K.tried \subseteq K.good)
      BY <3>1, <3>2, <3>3
    <3>5. K = job'[j]
      BY DEF K
    <3> QED BY <2>3, <3>1, <3>2, <3>4, <3>5 DEF Applying
  <2>4. ASSUME At(j, PCs), Over(J, K), K.good \subseteq J.good
        PROVE  /\ \A q \in K.good : AppliedBy(K.pr, infra'[q])
               /\ ~Has(J.cmds, "apply") => K.good = {}
    <3>1. K.pr = J.pr /\ J \in JobRecords /\ J # NoJob
      BY <2>4 DEF Over, At
    <3>2. \A q \in J.good : q \in Projects /\ AppliedBy(J.pr, infra[q])
      BY <1>1, <3>1 DEF Applying, JobRecords
    <3>3. \A q \in J.good : AppliedBy(J.pr, infra'[q])
      BY <1>1, <3>2, AppliedStays
    <3>4. ~Has(J.cmds, "apply") => J.good = {}
      BY <1>1, <3>1 DEF Applying
    <3> QED BY <2>4, <3>1, <3>3, <3>4 DEF AppliedBy
  <2>5. ASSUME At(j, PCs), GivesUp(J, K, p)
        PROVE  Applying(j)'
    <3>1. /\ Over(J, K) /\ J.tried \subseteq K.tried /\ K.good \subseteq J.good
          /\ p \in K.tried /\ p \notin K.good
      BY <2>5 DEF GivesUp, Refused
    <3>2. \/ /\ Passes(J, K, p)
             /\ Command(j) = "apply" => p \in K.tried
          \/ /\ p \in K.tried /\ p \notin K.good /\ K.left = J.cmds
             /\ K.todo = J.todo \ {p} \/ K.todo = {}
      BY <2>5, <3>1 DEF GivesUp
    <3> QED BY <2>3, <2>4, <2>5, <3>1, <3>2
  <2>6. ASSUME At(j, PCs \ {"next"}), Completes(J, K, p)
        PROVE  Applying(j)'
    <3>1. /\ Over(J, K) /\ J.tried \subseteq K.tried /\ K.good \subseteq J.good /\ Passes(J, K, p)
          /\ At(j, PCs) /\ K.tried = J.tried
      BY <2>6 DEF Completes, Counts, At
    <3>2. Command(j) = "apply" => p \in K.tried
      BY <1>1, <2>6, <3>1 DEF At, Applying
    <3> QED BY <2>3, <2>4, <3>1, <3>2
  <2>7. CASE GoesOn(j)
    <3>1. J # NoJob /\ J.pc = "next"
      BY <2>7 DEF GoesOn, At
    <3>2. CASE Command(j) # "apply"
      BY <2>2, <2>7, <3>1, <3>2 DEF GoesOn
    <3>3. CASE Command(j) = "apply"
      <4>1. /\ Moves(J, K, "check") /\ K.tried = J.tried \cup {p} /\ K.good = J.good \ {p}
            /\ J.todo # {} /\ Command(j)' = Command(j) /\ Project(j)' = p /\ J \in JobRecords
        BY <2>7, <3>3 DEF GoesOn, Refused, At, Moves, Command, Project
      <4>2. \A q \in J.good : q \in Projects /\ AppliedBy(J.pr, infra[q])
        BY <1>1, <3>1, <4>1 DEF Applying, JobRecords
      <4>3. \A q \in J.good : AppliedBy(J.pr, infra'[q])
        BY <1>1, <4>2, AppliedStays
      <4>4. \A q \in K.good : AppliedBy(K.pr, infra'[q])
        BY <4>1, <4>3 DEF Moves, AppliedBy
      <4>5. Applying(j)
        BY <1>1
      <4> QED BY <3>1, <4>1, <4>4, <4>5 DEF Applying, Moves
    <3> QED BY <3>2, <3>3
  <2>8. CASE Drops(j)
    BY <2>5, <2>8 DEF Drops
  <2>9. CASE Grants(j)
    <3>1. At(j, PCs \ {"next"}) /\ J # NoJob /\ J.pc # "next"
      BY <2>9 DEF Grants, At, PCs
    <3>2. \/ \E l \in {"tfplan", "tfapply", "retrieve"} : MovesOn(J, K, l)
          \/ Completes(J, K, p)
      BY <2>9 DEF Grants
    <3> QED BY <2>2, <2>6, <3>1, <3>2
  <2>10. CASE Puts(j)
    BY <2>2, <2>10 DEF Puts, At
  <2>11. CASE Loses(j)
    <3>1. At(j, PCs \ {"next"})
      BY <2>11 DEF Loses, At, PCs
    <3> QED BY <1>3, <2>6, <2>11, <3>1 DEF Loses
  <2>12. CASE Frees(j)
    <3>1. J # NoJob /\ J.pc # "next" /\ J.pc # "merge" /\ J \in JobRecords
      BY <2>12 DEF Frees, At
    <3>2. CASE K = J
      BY <3>1, <3>2, ApplyingMoves DEF Counts
    <3>3. CASE MovesOn(J, K, "delete")
      BY <2>2, <3>1, <3>3
    <3> QED BY <2>12, <3>2, <3>3 DEF Frees
  <2>13. CASE Deletes(j) \/ Shows(j)
    <3>1. At(j, PCs \ {"next"}) /\ At(j, PCs)
      BY <2>13 DEF Deletes, Shows, At, PCs
    <3> QED BY <2>5, <2>6, <2>13, <3>1 DEF Deletes, Shows
  <2>14. CASE PlansIt(j)
    <3>1. \E l \in {"store", "show"} : Moves(J, K, l) /\ Counts(J, K)
      BY <2>14 DEF PlansIt
    <3>2. J # NoJob /\ J.pc # "next"
      BY <2>14 DEF PlansIt, At
    <3> QED BY <2>2, <3>1, <3>2
  <2>15. CASE Stores(j)
    BY <2>2, <2>15 DEF Stores, At
  <2>16. CASE Asks(j)
    BY <2>2, <2>16 DEF Asks, At
  <2>17. CASE Retrieves(j)
    BY <2>2, <2>17 DEF Retrieves, At
  <2>18. CASE Alters(j)
    <3>1. At(j, PCs) /\ J.pc = "tfapply" /\ J # NoJob /\ J \in JobRecords /\ J.todo # {}
          /\ p \in Projects /\ J.pr \in PRs
      BY <2>18 DEF Alters, At, PCs, JobRecords
    <3>2. Command(j) = "apply"
      BY <1>1, <3>1 DEF Course
    <3>3. p \in J.tried /\ Has(J.cmds, "apply")
      <4>1. p \in J.tried /\ \A i \in DOMAIN J.left : Has(J.cmds, J.left[i])
        BY <1>1, <3>1, <3>2 DEF Applying
      <4>2. J.left \in Seq(Commands) /\ J.left # <<>>
        BY <3>1 DEF JobRecords
      <4>3. 1 \in DOMAIN J.left /\ J.left[1] = "apply"
        BY <3>2, <4>2 DEF Command
      <4> QED BY <4>1, <4>3
    <3>4. PICK at \in 0..MaxPushes :
            /\ infra' = [infra EXCEPT ![p] =
                           Append(@, [pr |-> J.pr, at |-> at, stray |-> J.stray])]
            /\ \/ /\ at > 0 /\ Over(J, K) /\ Passes(J, K, p)
                  /\ K.tried = J.tried /\ K.good = J.good \cup {p}
               \/ GivesUp(J, K, p)
      BY <2>18 DEF Alters
    <3>5. CASE GivesUp(J, K, p)
      BY <2>5, <3>1, <3>5
    <3>6. CASE /\ at > 0 /\ Over(J, K) /\ Passes(J, K, p)
               /\ K.tried = J.tried /\ K.good = J.good \cup {p}
      <4> DEFINE c == [pr |-> J.pr, at |-> at, stray |-> J.stray]
      <4>1. c.pr = J.pr /\ c.at > 0 /\ c \in Changes /\ K.pr = J.pr
        BY <3>1, <3>6 DEF JobRecords, Changes, Over
      <4>2. infra'[p] = Append(infra[p], c) /\ infra[p] \in Seq(Changes)
        BY <1>1, <3>1, <3>4 DEF TypeOK
      <4> HIDE DEF c
      <4>3. AppliedBy(K.pr, infra'[p])
        <5> DEFINE s == infra[p]
        <5> HIDE DEF s
        <5>1. s \in Seq(Changes) /\ infra'[p] = Append(s, c)
          BY <4>2 DEF s
        <5>2. Len(s) + 1 \in DOMAIN Append(s, c) /\ Append(s, c)[Len(s) + 1] = c
          BY <4>1, <5>1
        <5> QED BY <4>1, <5>1, <5>2 DEF AppliedBy
      <4>4. \A q \in J.good : q \in Projects /\ AppliedBy(J.pr, infra[q])
        BY <1>1, <3>1 DEF Applying, JobRecords
      <4>5. \A q \in J.good : AppliedBy(J.pr, infra'[q])
        BY <1>1, <4>4, AppliedStays
      <4>6. \A q \in K.good : AppliedBy(K.pr, infra'[q])
        BY <3>6, <4>1, <4>3, <4>5 DEF AppliedBy
      <4>7. J.tried \subseteq K.tried /\ (Command(j) = "apply" => p \in K.tried)
        BY <3>3, <3>6
      <4> QED BY <2>3, <3>1, <3>3, <3>6, <4>6, <4>7
    <3> QED BY <3>4, <3>5, <3>6
  <2>19. CASE Finishes(j)
    <3>1. J # NoJob /\ J.todo = {}
      BY <2>19 DEF Finishes
    <3>2. CASE MovesOn(J, K, "status")
      BY <2>2, <3>1, <3>2
    <3>3. CASE MovesOn(J, K, "merge") /\ J.covers /\ J.tried # {} /\ J.tried \subseteq J.good
      BY <2>2, <3>1, <3>3
    <3>4. CASE J.pc = "merge" /\ MovesOn(J, K, "merging")
      <4>1. J.covers /\ J.tried # {} /\ J.tried \subseteq J.good
        BY <1>1, <3>1, <3>4 DEF Applying
      <4> QED BY <2>2, <3>1, <3>4, <4>1
    <3> QED BY <1>3, <2>19, <3>2, <3>3, <3>4 DEF Finishes
  <2> QED BY <2>1, <2>7, <2>8, <2>9, <2>10, <2>11, <2>12, <2>13, <2>14, <2>15, <2>16, <2>17, <2>18,
             <2>19 DEF Effect
<1> QED BY <1>2, <1>3 DEF Applies, Applying

-----------------------------------------------------------------------------
(* The theorems                                                            *)

\* The types hold in every history.
LEMMA TypedAlways == Spec => []Typed
BY TypedInit, TypedStep, PTL DEF Spec

\* Every step has an effect of a job, or leaves everything.
LEMMA NextEffect ==
  ASSUME Typed, [Next]_vars
  PROVE  \/ UNCHANGED vars
         \/ \E j \in Slots : (Effect(j) \/ Starts(j)) /\ UNCHANGED <<storage, impacted>>
<1>1. ASSUME NEW j \in Slots, Step(j) \/ \E r \in PRs : Event(j, r)
      PROVE  (Effect(j) \/ Starts(j)) /\ UNCHANGED <<storage, impacted>>
  BY <1>1, StepEffect, EventEffect, SharedTyped DEF setting
<1> QED BY <1>1 DEF Next

\* Jobs of the CLI are in one of the places of run() with what belongs there,
\* and what they share has its type: the state of TypeOK, in every history.
THEOREM TypeCorrect == Spec => []TypeOK
BY TypedAlways, PTL DEF Typed

\* Whoever is at work has the lock or has lost it, in every history.
LEMMA OwnerAlways == Spec => []Owner
<1>1. Init => Owner
  BY DEF Init, Owner, WorksOn, Working
<1>2. Typed /\ Owner /\ [Next]_vars => Owner'
  <2> SUFFICES ASSUME Typed, Owner, [Next]_vars PROVE Owner'
    OBVIOUS
  <2>1. CASE UNCHANGED vars
    BY <2>1 DEF vars, Owner, WorksOn, Working, Project
  <2> QED BY <2>1, NextEffect, OwnerStep
<1> QED BY <1>1, <1>2, TypedAlways, PTL DEF Spec

\* Terraform of two pull requests is not at work on one project at a time, but
\* for jobs whose lock was taken away (locking.go:50, ForceUnlock).
THEOREM OwnersExclude == Spec => []OneOwner
<1>1. Owner => OneOwner
  BY DEF Owner, OneOwner
<1> QED BY <1>1, OwnerAlways, PTL

\* Previews stay true of their project in every history.
LEMMA FreshAlways == Spec => []Fresh
<1>1. Init => Fresh
  BY DEF Init, Fresh, PreviewFresh, Running
<1>2. Typed /\ Owner /\ Fresh /\ [Next]_vars => Fresh'
  <2> SUFFICES ASSUME Typed, Owner, Fresh, [Next]_vars PROVE Fresh'
    OBVIOUS
  <2>1. CASE UNCHANGED vars
    BY <2>1 DEF vars, Fresh, PreviewFresh, SinceMine, Running, Project
  <2> QED BY <2>1, NextEffect, FreshStep
<1> QED BY <1>1, <1>2, TypedAlways, OwnerAlways, PTL DEF Spec

\* The preview a pull request shows stays true of the project while it keeps the
\* lock it planned under (plan-preview.mdx:18): nobody else changes the project.
THEOREM PreviewsHold == Spec => []PreviewFresh
<1>1. Fresh => PreviewFresh
  BY DEF Fresh
<1> QED BY <1>1, FreshAlways, PTL

\* A plan on its way to an apply has no violations untold, in every history.
LEMMA ToldAlways == Spec => []Told
<1>1. Init => Told
  BY DEF Init, Told
<1>2. Typed /\ Told /\ [Next]_vars => Told'
  <2> SUFFICES ASSUME Typed, Told, [Next]_vars PROVE Told'
    OBVIOUS
  <2>1. CASE UNCHANGED vars
    BY <2>1 DEF vars, Told, Command, Violates, PlanOf, Project, stores, setting
  <2> QED BY <2>1, NextEffect, ToldStep
<1> QED BY <1>1, <1>2, TypedAlways, PTL DEF Spec

\* A stored plan with violations is applied only when the access policy had been
\* told of them (digger.go:366), or the plan was stored again after that.
THEOREM ViolationsAreTold == Spec => PolicyTold
<1>1. Told /\ [Next]_vars =>
        [\A j \in Slots :
           Running(j, "tfapply") /\ job[j].plan # NoPlan /\ job'[j] # job[j] /\ infra' # infra =>
             job[j].plan.ok \/ job[j].known \/ job[j].moved]_vars
  BY DEF Told, Running
<1> QED BY <1>1, ToldAlways, PTL DEF Spec, PolicyTold

\* appliesPerProject is true in every history.
LEMMA AppliesAlways == Spec => []Applies
<1>1. Init => Applies
  BY DEF Init, Applies, Applying
<1>2. Typed /\ Applies /\ [Next]_vars => Applies'
  <2> SUFFICES ASSUME Typed, Applies, [Next]_vars PROVE Applies'
    OBVIOUS
  <2>1. CASE UNCHANGED vars
    BY <2>1 DEF vars, Applies, Applying, Command, Project, AppliedBy, setting
  <2> QED BY <2>1, NextEffect, AppliesStep
<1> QED BY <1>1, <1>2, TypedAlways, PTL DEF Spec

\* A merge by digger (github.go:360) is of a pull request all of whose projects
\* it has applied: what the table appliesPerProject says is so, and covers them.
THEOREM MergesFollowApplies == Spec => MergesApplied
<1>1. ASSUME Typed, Applies, Next, NEW r \in PRs,
             state[r] # "merged", state'[r] = "merged", started' = started,
             NEW q \in impacted[r]
      PROVE  \E i \in DOMAIN infra[q] : infra[q][i].pr = r /\ infra[q][i].at > 0
  <2>1. TypeOK /\ \A k \in Slots : Course(k) /\ Applying(k)
    BY <1>1 DEF Typed, Applies
  <2>2. PICK j \in Slots : Step(j) \/ \E s \in PRs : Event(j, s)
    BY <1>1 DEF Next
  <2>3. ~ \E s \in PRs : Event(j, s)
    <3>1. ASSUME NEW at, NEW ps, NEW cmds, NEW s, StartJob(j, s, at, ps, cmds)
          PROVE  started' # started
      <4>1. started'.jobs = started.jobs + 1 /\ started.jobs \in Nat
        BY <2>1, <3>1, BoundsAssumption DEF StartJob, TypeOK
      <4> QED BY <4>1
    <3> QED BY <1>1, <3>1 DEF Event, Push, Reopen, Close, Comment
  <2>4. Merge(j) /\ job[j].pr = r
    <3>1. Merge(j) \/ UNCHANGED state
      BY <2>2, <2>3 DEF Step, NextCommand, Lock, PutLock, Unlock, DeletePlan, TerraformPlan, StorePlan,
         ShowPlan, CheckApply, RetrievePlan, TerraformApply, Report, CheckMerge, Succeed, Only, SetStatus, requests
    <3>2. UNCHANGED state \/ state' = [state EXCEPT ![job[j].pr] = "merged"]
      BY <2>2, <2>3 DEF Step, NextCommand, Lock, PutLock, Unlock, DeletePlan, TerraformPlan, StorePlan,
         ShowPlan, CheckApply, RetrievePlan, TerraformApply, Report, CheckMerge, Merge, Succeed, Only, SetStatus,
         requests
    <3> QED BY <1>1, <2>1, <3>1, <3>2 DEF TypeOK
  <2>5. /\ job[j] # NoJob /\ job[j].pc = "merging" /\ job[j].todo = {}
        /\ job[j].covers /\ job[j].tried # {} /\ job[j].tried \subseteq job[j].good
    BY <2>1, <2>4 DEF Merge, Running, Course, Applying
  <2>6. Has(job[j].cmds, "apply")
    BY <2>1, <2>5 DEF Applying
  <2>7. impacted[r] \subseteq job[j].good
    BY <2>1, <2>4, <2>5, <2>6 DEF Applying
  <2>8. AppliedBy(r, infra[q])
    BY <2>1, <2>4, <2>5, <2>7, <1>1 DEF Applying
  <2> QED BY <2>8 DEF AppliedBy
<1>2. Typed /\ Applies /\ [Next]_vars =>
        [\A r \in PRs : state[r] # "merged" /\ state'[r] = "merged" /\ started' = started =>
           \A p \in impacted[r] :
             \E i \in DOMAIN infra[p] : infra[p][i].pr = r /\ infra[p][i].at > 0]_vars
  BY <1>1
<1> QED BY <1>2, TypedAlways, AppliesAlways, PTL DEF Spec, MergesApplied
==============================================================================
