---------------------------- MODULE ImpactedGraph ----------------------------
(***************************************************************************)
(* From the dependency graph of digger.yml to the jobs of one batch        *)
(* (backend/utils/graphs.go): ImpactedProjectsOnlyGraph and CollapsedGraph *)
(* reduce the graph to the impacted projects, depth first; then            *)
(* TraverseGraphVisitAllParentsFirst visits the result breadth first, and  *)
(* each visit creates the rows of a project in digger_jobs.                *)
(*                                                                         *)
(* The code ranges over Go maps, so every loop may take its keys in any    *)
(* order: the model picks the next key nondeterministically.               *)
(***************************************************************************)
EXTENDS Naturals, Sequences

CONSTANTS Projects,
          Graphs,   \* dependency graphs: sets of <<d, p>>, p depends on d
          NoParent

ASSUME GraphsAssumption == Graphs \subseteq SUBSET (Projects \X Projects)
ASSUME NoParentAssumption == NoParent \notin Projects

Parent == Projects \cup {NoParent}

\* A call of CollapsedGraph: currentNode, impactedParent, children to range over.
Calls == [node : Projects, parent : Parent, todo : SUBSET Projects]

VARIABLES deps, impacted,  \* the input: projectsGraph and impactedProjectMap
          phase,
          roots,           \* roots of projectsGraph still to be collapsed
          stack,           \* calls of CollapsedGraph, the innermost last
          vertices, edges, \* graphWithImpactedProjectsOnly
          queue, seen,     \* breadth-first search
          adjacent,        \* neighbours of the visited vertex, not looked at yet
          jobs,            \* rows of digger_jobs: a project, and the project
                           \* whose job it has a parent link to
          result,          \* projects the result map has a job for
          failed           \* a query has failed

input == <<deps, impacted>>
graph == <<vertices, edges>>
search == <<queue, seen, adjacent>>
vars == <<input, phase, roots, stack, graph, search, jobs, result, failed>>

TypeOK ==
  /\ deps \in Graphs /\ impacted \in SUBSET Projects
  /\ phase \in {"collapse", "visit", "done", "panic"}
  /\ roots \in SUBSET Projects
  /\ stack \in Seq(Calls)
  /\ vertices \in SUBSET impacted
  /\ edges \in SUBSET (vertices \X vertices)
  /\ queue \in Seq(vertices)
  /\ seen \in SUBSET vertices /\ adjacent \in SUBSET vertices
  /\ jobs \in SUBSET (vertices \X Parent)
  /\ result \in SUBSET vertices
  /\ failed \in BOOLEAN

Children(n) == {c \in Projects : <<n, c>> \in deps}

Init ==
  /\ deps \in Graphs /\ impacted \in SUBSET Projects
  /\ phase = "collapse"
  /\ roots = {p \in Projects : \A d \in Projects : <<d, p>> \notin deps}
  /\ stack = <<>>
  /\ vertices = {} /\ edges = {}
  /\ queue = <<>> /\ seen = {} /\ adjacent = {}
  /\ jobs = {} /\ result = {}
  /\ failed = FALSE

-----------------------------------------------------------------------------
(* CollapsedGraph.  A definition that a comment calls a slip is not the    *)
(* code's: it is a plausible error in it, which a property has to notice.  *)

Top == stack[Len(stack)]
Pop == SubSeq(stack, 1, Len(stack) - 1)

\* A slip: an edge is added on every path that reaches an impacted project.
CallAddingEdges(calls, n, p) ==
  IF n \in impacted /\ n \in vertices
  THEN /\ stack' = calls /\ UNCHANGED vertices
       /\ edges' = edges \cup (IF p = NoParent THEN {} ELSE {<<p, n>>})
  ELSE /\ stack' = Append(calls, [node |-> n, parent |-> p, todo |-> Children(n)])
       /\ vertices' = vertices \cup ({n} \cap impacted)
       /\ UNCHANGED edges

\* AddVertex fails on a vertex that is there, and the call returns at once.
Call(calls, n, p) ==
  /\ IF n \in impacted /\ n \in vertices
     THEN stack' = calls /\ UNCHANGED vertices
     ELSE /\ stack' = Append(calls, [node |-> n, parent |-> p, todo |-> Children(n)])
          /\ vertices' = vertices \cup ({n} \cap impacted)
  /\ UNCHANGED edges

\* ImpactedProjectsOnlyGraph: the loop over the projects without dependencies.
CollapseRoot ==
  /\ phase = "collapse" /\ stack = <<>>
  /\ \E r \in roots : roots' = roots \ {r} /\ Call(stack, r, NoParent)
  /\ UNCHANGED <<input, phase, search, jobs, result, failed>>

\* Slips: a project that is not impacted hands on itself, or nothing.
ParentOfChildrenAlways(call) == call.node
ParentOfChildrenLost(call) == IF call.node \in impacted THEN call.node ELSE NoParent

ParentOfChildren(call) == IF call.node \in impacted THEN call.node ELSE call.parent

CollapseChild ==
  /\ stack # <<>>
  /\ \E c \in Top.todo :
       Call(Append(Pop, [Top EXCEPT !.todo = @ \ {c}]), c, ParentOfChildren(Top))
  /\ UNCHANGED <<input, phase, roots, search, jobs, result, failed>>

\* The edge is added after the children, when the call returns.
CollapseReturn ==
  /\ stack # <<>> /\ Top.todo = {}
  /\ stack' = Pop
  /\ edges' = edges \cup (IF Top.node \in impacted /\ Top.parent # NoParent
                          THEN {<<Top.parent, Top.node>>} ELSE {})
  /\ UNCHANGED <<input, phase, roots, vertices, search, jobs, result, failed>>

-----------------------------------------------------------------------------
(* TraverseGraphVisitAllParentsFirst                                       *)

Predecessors(v) == {u \in vertices : <<u, v>> \in edges}

\* A slip: the search starts at the roots of the whole graph only.
StartAtConfigRoots ==
  /\ phase = "collapse" /\ stack = <<>> /\ roots = {}
  /\ phase' = "visit"
  /\ adjacent' = {v \in vertices : \A d \in Projects : <<d, v>> \notin deps}
  /\ UNCHANGED <<input, roots, stack, graph, queue, seen, jobs, result, failed>>

\* The dummy parent is visited first; its neighbours are the roots.
StartTraversal ==
  /\ phase = "collapse" /\ stack = <<>> /\ roots = {}
  /\ phase' = "visit"
  /\ adjacent' = {v \in vertices : Predecessors(v) = {}}
  /\ UNCHANGED <<input, roots, stack, graph, queue, seen, jobs, result, failed>>

Discover ==
  /\ phase = "visit"
  /\ \E v \in adjacent :
       /\ adjacent' = adjacent \ {v}
       /\ seen' = seen \cup {v}
       /\ queue' = IF v \in seen THEN queue ELSE Append(queue, v)
  /\ UNCHANGED <<input, phase, roots, stack, graph, jobs, result, failed>>

\* visit, for a project without predecessors: one job.
VisitRoot(v) ==
  /\ Predecessors(v) = {}
  /\ jobs' = jobs \cup {<<v, NoParent>>}
  /\ result' = result \cup {v}
  /\ UNCHANGED <<phase, failed>>

\* A slip: the link is made in the other direction.
LinkedBackwards(v, S) == {<<u, v>> : u \in S}

Linked(v, S) == {<<v, u>> : u \in S}

\* visit, for a project with predecessors: a job and its link for each.
VisitChild(v) ==
  /\ Predecessors(v) # {} /\ Predecessors(v) \subseteq result
  /\ jobs' = jobs \cup Linked(v, Predecessors(v))
  /\ result' = result \cup {v}
  /\ UNCHANGED <<phase, failed>>

\* The creation of a job, of its CI link or of its parent link fails: the
\* visit is over, for every predecessor not done yet, and nobody is told.
VisitFails(v) ==
  /\ failed' = TRUE
  /\ \E S \in SUBSET (Predecessors(v) \cap result), unlinked \in {{}, {<<v, NoParent>>}} :
       /\ Predecessors(v) # {} => S # Predecessors(v)
       /\ jobs' = jobs \cup Linked(v, S) \cup unlinked
       /\ result' = result \cup (IF S = {} THEN {} ELSE {v})
  /\ UNCHANGED phase

\* A predecessor that is not in the result map is a nil pointer.
VisitPanics(v) ==
  /\ ~ (Predecessors(v) \subseteq result)
  /\ phase' = "panic"
  /\ \E S \in SUBSET (Predecessors(v) \cap result) :
       jobs' = jobs \cup Linked(v, S) \cup {<<v, NoParent>>}
  /\ UNCHANGED <<result, failed>>

Visit ==
  /\ phase = "visit" /\ adjacent = {} /\ queue # <<>>
  /\ LET v == Head(queue) IN
     /\ VisitRoot(v) \/ VisitChild(v) \/ VisitFails(v) \/ VisitPanics(v)
     /\ adjacent' = {c \in vertices : <<v, c>> \in edges}
  /\ queue' = Tail(queue)
  /\ UNCHANGED <<input, roots, stack, graph, seen>>

Finish ==
  /\ phase = "visit" /\ adjacent = {} /\ queue = <<>>
  /\ phase' = "done"
  /\ UNCHANGED <<input, roots, stack, graph, search, jobs, result, failed>>

Next ==
  \/ CollapseRoot \/ CollapseChild \/ CollapseReturn
  \/ StartTraversal \/ Discover \/ Visit \/ Finish

Spec == Init /\ [][Next]_vars
-----------------------------------------------------------------------------
(* Properties                                                              *)

\* Project v depends on u through projects that are not impacted, or directly:
\* v is in every set that has the dependants of u and those of its members
\* that are not impacted.
DependsOn(v, u) ==
  \A S \in SUBSET Projects :
    Children(u) \subseteq S /\ (\A x \in S \ impacted : Children(x) \subseteq S) => v \in S

\* Every parent link stands for a dependency of the configuration, through
\* projects that are not impacted at most.  CollapsedGraph.
LinksAreDependencies ==
  \A job \in jobs : job[2] # NoParent => DependsOn(job[1], job[2])

\* The nil pointer is never met unless a query failed before: each project is
\* visited after its predecessors, although the search is breadth first, in
\* the order of a map.  TraverseGraphVisitAllParentsFirst.
ParentsVisitedFirst == phase = "panic" => failed

\* Each impacted project, and no other, gets one job, with one parent link at
\* most, although the visit creates a job for each predecessor.
\* ConvertJobsToDiggerJobs.
OneJobEach ==
  /\ \A j, k \in jobs : j[1] = k[1] => j = k
  /\ phase = "done" /\ ~failed => {j[1] : j \in jobs} = impacted

\* Where no project has two dependencies, none is lost: the job of a project
\* is linked to the job of the impacted project it depends on.
\* CollapsedGraph, for every order of its loops.
TreesAreKept ==
  phase = "done" /\ ~failed
    /\ (\A p, d, e \in Projects : <<d, p>> \in deps /\ <<e, p>> \in deps => d = e) =>
  \A u, v \in impacted : DependsOn(v, u) => <<v, u>> \in jobs

\* "Plans / apply jobs that do not depend on each other run in parallel": a
\* project with an impacted dependency waits for it, or for a job that does.
Waits(v, u) ==
  \A S \in SUBSET Projects :
    v \in S /\ (\A job \in jobs : job[1] \in S /\ job[2] # NoParent => job[2] \in S) => u \in S

DependenciesOrdered ==
  phase = "done" /\ ~failed =>
    \A u, v \in impacted : <<u, v>> \in deps => Waits(v, u)
=============================================================================
