--------------------------- MODULE ImpactDetection ---------------------------
(***************************************************************************)
(* Which projects a batch is for: the handlers of pull request events and  *)
(* comments find the projects whose files have changed, in the mode "hard" *)
(* of dependency_configuration the projects that depend on them as well    *)
(* (libs/ci/generic/events.go), and keep those that the comment asks for   *)
(* and that target the branch (comment_filter.go).  The result is what     *)
(* ImpactedGraph turns into jobs.                                          *)
(***************************************************************************)
EXTENDS ImpactedGraph, SequencesExt

CONSTANT Branches  \* sets of projects that may target the branch of the event
ASSUME ProjectsAssumption == IsFiniteSet(Projects)
ASSUME BranchesAssumption == Branches \subseteq SUBSET Projects

Requests == [event : {"pull_request", "comment"},
             hard : BOOLEAN,     \* dependency_configuration.mode
             branch : Branches]  \* projects that target the branch

VARIABLES request, stage,
          changed,   \* projects that the changed files impact
          starts,    \* roots from which the graph is still to be searched
          walk, met, \* breadth-first search: queue, vertices put into it
          all,       \* projects found, which are also those marked as visited
          list,      \* impactedProjectsForComment: how often each is in it
          covers     \* coversAllImpactedProjects

walking == <<starts, walk, met>>
asking == <<list, covers>>
detection == <<request, stage, changed, walking, all, asking>>

Nobody == [p \in Projects |-> 0]

\* The types, besides TypeOK.
DetectionOK ==
  /\ request \in Requests
  /\ stage \in {"changed", "walk", "found", "asked", "graph", "refused"}
  /\ changed \in SUBSET Projects /\ starts \in SUBSET Projects
  /\ met \in SUBSET Projects /\ walk \in Seq(met)
  /\ all \in SUBSET Projects
  /\ list \in [Projects -> 0..2] /\ covers \in BOOLEAN

\* GetModifiedProjects: which patterns match the changed files is a choice.
DetectionInit ==
  /\ Init /\ impacted = {}
  /\ request \in Requests /\ stage = "changed"
  /\ changed \in SUBSET Projects
  /\ starts = {} /\ walk = <<>> /\ met = {} /\ all = {}
  /\ list = Nobody /\ covers = FALSE

-----------------------------------------------------------------------------
(* FindAllProjectsDependantOnImpactedProjects                              *)

\* The event of a pull request drops the projects of other branches before
\* their dependants are looked for, a comment after that.
Impacted == IF request.event = "pull_request"
            THEN changed \cap request.branch ELSE changed

Detect ==
  /\ stage = "changed"
  /\ changed' = Impacted
  /\ IF request.hard
     THEN stage' = "walk" /\ starts' = roots /\ UNCHANGED all
     ELSE stage' = "found" /\ all' = Impacted /\ UNCHANGED starts
  /\ UNCHANGED <<request, walk, met, asking>>

WalkFrom ==
  /\ stage = "walk" /\ walk = <<>>
  /\ \E r \in starts : starts' = starts \ {r} /\ walk' = <<r>> /\ met' = {r}
  /\ UNCHANGED <<request, stage, changed, all, asking>>

\* A project that has changed, or whose dependency has changed or was found.
IsImpacted(n) == n \in changed \/ \E d \in changed \cup all : <<d, n>> \in deps

\* A slip: the search goes no further than a project that is not impacted.
StopsAt(n) == n \in all \/ ~ IsImpacted(n)

\* The search ends at a project that an earlier one has found, with all that
\* is still in the queue.
Stops(n) == n \in all

Enqueue(n) ==
  \E order \in SetToSeqs(Children(n) \ met) :
    walk' = Tail(walk) \o order /\ met' = met \cup Children(n)

WalkVisit ==
  /\ stage = "walk" /\ walk # <<>>
  /\ LET n == Head(walk) IN
     \/ Stops(n) /\ walk' = <<>> /\ UNCHANGED <<met, all>>
     \/ /\ ~ Stops(n) /\ Enqueue(n)
        /\ all' = all \cup {p \in {n} : IsImpacted(p)}
  /\ UNCHANGED <<request, stage, changed, starts, asking>>

WalkEnds ==
  /\ stage = "walk" /\ walk = <<>> /\ starts = {}
  /\ stage' = "found" /\ met' = {}
  /\ UNCHANGED <<request, changed, starts, walk, all, asking>>

-----------------------------------------------------------------------------
(* The flags of a comment                                                  *)

Once(S) == [p \in Projects |-> IF p \in S THEN 1 ELSE 0]

\* A project that is named and whose directory is named is in the list twice.
NamedOrIn(named, in) == [p \in Projects |-> Once(named)[p] + Once(in)[p]]

OnBranch(l) == [p \in Projects |-> IF p \in request.branch THEN l[p] ELSE 0]

Entries(l) == Cardinality({e \in Projects \X {1, 2} : e[2] <= l[e[1]]})

\* A slip: what the branch drops is not missed.
AskedOfBranch(l) ==
  /\ list' = OnBranch(l)
  /\ covers' = (Entries(l) = Cardinality(all))

\* The list covers all projects if it is as long as that of all projects.
Asked(l) ==
  /\ list' = OnBranch(l)
  /\ covers' = (Entries(OnBranch(l)) = Cardinality(all))

\* No flags; a layer or directories, which are some of the projects; names,
\* with directories or without.
AskProjects ==
  /\ stage = "found" /\ request.event = "comment"
  /\ stage' = "asked"
  /\ \E in \in SUBSET all :
       Asked(Once(in)) \/ \E named \in SUBSET all : Asked(NamedOrIn(named, in))
  /\ UNCHANGED <<request, changed, walking, all>>

\* ConvertGithubPullRequestEventToJobs
AskAll ==
  /\ stage = "found" /\ request.event = "pull_request"
  /\ stage' = "asked"
  /\ list' = Once(all) /\ covers' = TRUE
  /\ UNCHANGED <<request, changed, walking, all>>

\* The comment names a project that is not impacted, or mixes a layer with
\* other flags; there are too many projects, or none.
Refuse ==
  /\ stage \in {"found", "asked"}
  /\ stage = "found" => request.event = "comment"
  /\ stage' = "refused"
  /\ UNCHANGED <<request, changed, walking, all, asking>>

\* The lists become a map from names to jobs.  Nothing reads the lists after
\* that, and the model forgets them.
StartBatch ==
  /\ stage = "asked" /\ list # Nobody
  /\ impacted' = {p \in Projects : list[p] > 0}
  /\ stage' = "graph"
  /\ changed' = {} /\ all' = {} /\ list' = Nobody /\ covers' = FALSE
  /\ UNCHANGED <<deps, phase, roots, stack, graph, search, jobs, result, failed,
                 request, walking>>

DetectionNext ==
  \/ /\ Detect \/ WalkFrom \/ WalkVisit \/ WalkEnds \/ AskProjects \/ AskAll \/ Refuse
     /\ UNCHANGED vars
  \/ StartBatch
  \/ stage = "graph" /\ Next /\ UNCHANGED detection

DetectionSpec == DetectionInit /\ [][DetectionNext]_<<vars, detection>>
-----------------------------------------------------------------------------
(* Properties                                                              *)

\* The projects of S and all that depend on them.
WithDependants(S) ==
  {p \in Projects : \A T \in SUBSET Projects :
     S \subseteq T /\ (\A x \in T : Children(x) \subseteq T) => p \in T}

Forest == \A p, d, e \in Projects : <<d, p>> \in deps /\ <<e, p>> \in deps => d = e

Roots == {p \in Projects : \A d \in Projects : <<d, p>> \notin deps}

\* What is found has changed or depends on what has changed.  Where no project
\* has two dependencies, that is all of it.  A changed project is lost only if
\* each root above it has another project below that was found from another
\* root, where the search from the first one ended.  All this in every order of
\* the map of vertices.  FindAllProjectsDependantOnImpactedProjects.
DependantsFound ==
  stage = "found" /\ request.hard =>
    /\ all \subseteq WithDependants(changed)
    /\ Forest => all = WithDependants(changed)
    /\ \A p \in changed \ all, r \in Roots : p \in WithDependants({r}) =>
         \E q \in all \cap WithDependants({r}), s \in Roots \ {r} : q \in WithDependants({s})

\* What "add a project if it was impacted" says (events.go:82): no project whose
\* files have changed is dropped.  The order of the map of vertices may.
ChangesFound == stage = "found" => changed \subseteq all

\* A batch is said to cover all projects if and only if it has a job for each
\* of them, unless a comment has named one twice, by its name and by its
\* directory.  ConvertIssueCommentEventToJobs, which compares two lengths.
CoversTold ==
  stage = "asked" /\ (\A p \in Projects : list[p] < 2) =>
    (covers <=> \A p \in all : list[p] > 0)
=============================================================================
