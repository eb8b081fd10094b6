------------------------ MODULE ImpactDetectionProofs ------------------------
(***************************************************************************)
(* Theorems about ImpactDetection, for every finite set of projects, every *)
(* set of dependency graphs without cycles, branches and order of the      *)
(* loops: what the search for dependants finds, when a comment is said to  *)
(* cover everything, and what ImpactedGraph makes of the result.           *)
(***************************************************************************)
EXTENDS ImpactDetection, ImpactedGraphProofs, FiniteSetTheorems

-----------------------------------------------------------------------------
(* Invariants                                                              *)

\* The projects that the search from a root can reach.
Below(r) == WithDependants({r})

\* The search from r may end early: a project below it is below another root
\* too, and was found.
Shared(r) == \E q \in all \cap Below(r), s \in Roots \ {r} : q \in Below(s)

\* What has to be found of the projects in S.
Complete(S) ==
  /\ S \cap changed \subseteq all
  /\ Forest => S \cap WithDependants(changed) \subseteq all

\* What the search from r must leave behind when it is over.
Searched(r) == Shared(r) \/ Complete(Below(r))

\* Sequences without repetition, and their elements.
Distinct(s) == \A i, j \in 1..Len(s) : s[i] = s[j] => i = j
In(x, s) == \E i \in 1..Len(s) : s[i] = x

Waiting == {walk[i] : i \in 1..Len(walk)}
\* The vertices that the running search met and has left.
Behind == met \ Waiting

\* Under way from r: what was visited has its children in the queue or behind
\* it, and what was found and is not behind was found from other roots.
Searching(r) ==
  /\ r \in met /\ met \subseteq Below(r)
  /\ \A x \in Behind : Children(x) \subseteq met
  /\ \A x \in met : x = r \/ \E d \in Behind : x \in Children(d)
  /\ Complete(Behind)
  /\ \A q \in all \ Behind : \E s \in (Roots \ starts) \ {r} : q \in Below(s)

\* After the last search: each was completed or shares, and what was found is
\* below a root.
SearchOver ==
  /\ \A r \in Roots \ starts : Searched(r)
  /\ \A q \in all : \E r \in Roots \ starts : q \in Below(r)

\* During a search: the running one is as Searching has it, the earlier ones
\* are over.
SearchRuns ==
  \E r \in Roots \ starts :
    Searching(r) /\ \A s \in (Roots \ starts) \ {r} : Searched(s)

\* The invariant of the searches, through the stages.
WalkInv ==
  stage \in {"walk", "found"} /\ request.hard =>
    /\ all \subseteq WithDependants(changed) /\ starts \subseteq Roots
    /\ stage = "found" => walk = <<>> /\ starts = {}
    /\ walk = <<>> => SearchOver
    /\ walk # <<>> => SearchRuns

\* Until the batch is started nothing happens to the graph.
Composed ==
  /\ stage # "graph" => Init
  /\ stage = "graph" => Inv /\ Reach /\ Cover /\ Kept

\* What each stage has settled of the lists and of the graph.
Stages ==
  /\ stage = "changed" => all = {}
  /\ stage \in {"changed", "found"} => walk = <<>>
  /\ stage = "walk" => request.hard
  /\ Distinct(walk)

-----------------------------------------------------------------------------
(* Dependants                                                              *)

\* The projects of S and all that depend on them are the smallest set of its
\* kind.
LEMMA Dependants ==
  ASSUME NEW S \in SUBSET Projects
  PROVE  /\ WithDependants(S) \subseteq Projects
         /\ S \subseteq WithDependants(S)
         /\ \A x \in WithDependants(S) : Children(x) \subseteq WithDependants(S)
         /\ \A T \in SUBSET Projects :
              S \subseteq T /\ (\A x \in T : Children(x) \subseteq T) => WithDependants(S) \subseteq T
<1>1. WithDependants(S) \subseteq Projects /\ S \subseteq WithDependants(S)
  BY DEF WithDependants
<1>2. ASSUME NEW x \in WithDependants(S), NEW c \in Children(x) PROVE c \in WithDependants(S)
  BY <1>2 DEF WithDependants, Children
<1>3. ASSUME NEW T \in SUBSET Projects, S \subseteq T, \A x \in T : Children(x) \subseteq T
      PROVE  WithDependants(S) \subseteq T
  BY <1>3 DEF WithDependants
<1> QED
  BY <1>1, <1>2, <1>3

\* A dependant that is not in S itself depends on another one.
LEMMA LastDependant ==
  ASSUME NEW S \in SUBSET Projects, NEW p \in WithDependants(S)
  PROVE  p \in S \/ \E d \in WithDependants(S) : <<d, p>> \in deps
<1> DEFINE T == {x \in WithDependants(S) :
                  x \in S \/ \E d \in WithDependants(S) : <<d, x>> \in deps}
<1>1. T \in SUBSET Projects /\ S \subseteq T
  BY Dependants
<1>2. \A x \in T : Children(x) \subseteq T
  <2> SUFFICES ASSUME NEW x \in T, NEW c \in Children(x) PROVE c \in T
    OBVIOUS
  <2>1. c \in WithDependants(S) /\ <<x, c>> \in deps
    BY Dependants DEF Children
  <2> QED
    BY <2>1
<1> HIDE DEF T
<1>3. p \in T
  BY <1>1, <1>2, Dependants
<1> QED
  BY <1>3 DEF T

\* Where no project has two dependencies, none is below two roots.
LEMMA RootsApart ==
  ASSUME Forest, NEW r \in Roots, NEW s \in Roots, NEW q \in Below(r), q \in Below(s)
  PROVE  r = s
<1> SUFFICES ASSUME r # s PROVE FALSE
  OBVIOUS
<1> DEFINE T == Below(r) \ Below(s)
<1>1. r \in Projects /\ s \in Projects /\ (\A d \in Projects : <<d, r>> \notin deps)
      /\ \A d \in Projects : <<d, s>> \notin deps
  BY DEF Roots
<1>2. Below(r) \subseteq Projects /\ Below(s) \subseteq Projects
  BY <1>1, Dependants DEF Below
<1>3. r \in T
  <2>1. r \in Below(r)
    BY <1>1, Dependants DEF Below
  <2>2. r \notin Below(s)
    BY <1>1, <1>2, LastDependant DEF Below
  <2> QED
    BY <2>1, <2>2
<1>4. \A x \in T : Children(x) \subseteq T
  <2> SUFFICES ASSUME NEW x \in T, NEW c \in Children(x), c \in Below(s) PROVE FALSE
    BY <1>1, Dependants DEF Below
  <2>1. <<x, c>> \in deps /\ c \in Projects /\ x \in Projects
    BY <1>2 DEF Children
  <2>2. PICK d \in Below(s) : <<d, c>> \in deps
    BY <1>1, <2>1, LastDependant DEF Below
  <2>3. d = x
    BY <1>2, <2>1, <2>2 DEF Forest
  <2> QED
    BY <2>2, <2>3
<1>5. T \in SUBSET Projects
  BY <1>2
<1> HIDE DEF T
<1>6. Below(r) \subseteq T
  BY <1>1, <1>3, <1>4, <1>5, Dependants DEF Below
<1> QED
  BY <1>6 DEF T

\* Where there is no cycle, every project is below a root.
LEMMA RootAbove ==
  ASSUME NEW rank, Ranks(deps, rank), NEW p \in Projects
  PROVE  \E r \in Roots : p \in Below(r)
<1> DEFINE Lost == {q \in Projects : \A r \in Roots : q \notin Below(r)}
<1> SUFFICES ASSUME Lost # {} PROVE FALSE
  OBVIOUS
<1>1. PICK q \in Lost : \A x \in Lost : rank[q] <= rank[x]
  BY LowestRank DEF Ranks
<1>2. CASE q \in Roots
  <2>1. q \in Below(q)
    BY Dependants DEF Below
  <2> QED
    BY <1>2, <2>1
<1>3. CASE q \notin Roots
  <2>1. PICK d \in Projects : <<d, q>> \in deps
    BY <1>3 DEF Roots
  <2>2. rank[d] < rank[q] /\ rank[d] \in Nat /\ rank[q] \in Nat
    BY <2>1 DEF Ranks
  <2>3. PICK r \in Roots : d \in Below(r)
    BY <1>1, <2>2
  <2>4. r \in Projects
    BY DEF Roots
  <2>5. q \in Below(r)
    BY <2>1, <2>3, <2>4, Dependants DEF Below, Children
  <2> QED
    BY <2>5
<1> QED
  BY <1>2, <1>3

-----------------------------------------------------------------------------
(* The queue                                                               *)

\* An order of a set is a sequence of its elements, each in one place.
LEMMA OrderFacts ==
  ASSUME NEW S \in SUBSET Projects, NEW order \in SetToSeqs(S)
  PROVE  order \in Seq(S) /\ (\A x \in S : In(x, order)) /\ Distinct(order)
<1> DEFINE n == Cardinality(S)
<1>1. IsFiniteSet(S) /\ n \in Nat
  BY ProjectsAssumption, FS_Subset, FS_CardinalityType
<1>2. order \in [1..n -> S] /\ \A i, j \in 1..n : i # j => order[i] # order[j]
  BY DEF SetToSeqs
<1>a. Cardinality(S) = n
  OBVIOUS
<1> HIDE DEF n
<1>3. order \in Surjection(1..n, S)
  <2>1. Cardinality(1..n) = n
    BY <1>1, FS_Interval
  <2>2. order \in Injection(1..n, S)
    BY <1>2 DEF Injection, IsInjective
  <2> QED
    <3>1. Cardinality(1..n) = Cardinality(S) <=> order \in Surjection(1..n, S)
      BY <1>1, <2>2, FS_Injection, Zenon
    <3> QED
      BY <1>a, <2>1, <3>1
<1>4. order \in Seq(S) /\ Len(order) = n
  BY <1>1, <1>2
<1>5. \A x \in S : \E i \in 1..n : order[i] = x
  BY <1>3 DEF Surjection
<1> QED
  BY <1>2, <1>4, <1>5 DEF In, Distinct

\* Two sequences of different elements, one after the other.
LEMMA Joined ==
  ASSUME NEW A, NEW B, A \cap B = {}, NEW s \in Seq(A), NEW t \in Seq(B),
         Distinct(s), Distinct(t), NEW c, c = s \o t
  PROVE  c \in Seq(A \cup B) /\ Distinct(c) /\ \A x : In(x, c) <=> In(x, s) \/ In(x, t)
<1>1. Len(s) \in Nat /\ Len(t) \in Nat
  OBVIOUS
<1>2. /\ c \in Seq(A \cup B) /\ Len(c) = Len(s) + Len(t)
      /\ \A i \in 1..Len(s) : c[i] = s[i]
      /\ \A i \in 1..Len(t) : c[Len(s) + i] = t[i]
  OBVIOUS
<1>3. \A k \in 1..Len(c) : \/ k \in 1..Len(s) /\ c[k] = s[k] /\ c[k] \in A
                           \/ k - Len(s) \in 1..Len(t) /\ c[k] = t[k - Len(s)] /\ c[k] \in B
  <2> SUFFICES ASSUME NEW k \in 1..Len(c), k \notin 1..Len(s)
               PROVE  k - Len(s) \in 1..Len(t) /\ c[k] = t[k - Len(s)]
    BY <1>2
  <2>1. k - Len(s) \in 1..Len(t) /\ Len(s) + (k - Len(s)) = k
    BY <1>1, <1>2
  <2> QED
    BY <1>2, <2>1
<1>4. \A i \in 1..Len(s) : i \in 1..Len(c) /\ c[i] = s[i]
  BY <1>1, <1>2
<1>5. \A i \in 1..Len(t) : Len(s) + i \in 1..Len(c) /\ c[Len(s) + i] = t[i]
  BY <1>1, <1>2
<1>6. ASSUME NEW x PROVE In(x, c) <=> In(x, s) \/ In(x, t)
  <2>1. In(x, c) => In(x, s) \/ In(x, t)
    BY <1>3 DEF In
  <2>2. In(x, s) => In(x, c)
    BY <1>4 DEF In
  <2>3. In(x, t) => In(x, c)
    BY <1>5 DEF In
  <2> QED
    BY <2>1, <2>2, <2>3
<1>7. ASSUME NEW i \in 1..Len(c), NEW j \in 1..Len(c), c[i] = c[j] PROVE i = j
  <2>1. i \in 1..Len(s) <=> j \in 1..Len(s)
    BY <1>3, <1>7
  <2>2. CASE i \in 1..Len(s)
    BY <1>3, <1>4, <1>7, <2>1, <2>2 DEF Distinct
  <2>3. CASE i \notin 1..Len(s)
    <3>1. i - Len(s) = j - Len(s)
      BY <1>3, <1>7, <2>1, <2>3 DEF Distinct
    <3> QED
      BY <1>1, <3>1
  <2> QED
    BY <2>2, <2>3
<1> QED
  BY <1>2, <1>6, <1>7 DEF Distinct

\* A vertex leaves the queue, and the neighbours that were not in it yet enter.
LEMMA EnqueueFacts ==
  ASSUME met \in SUBSET Projects, walk \in Seq(met), walk # <<>>, Distinct(walk),
         NEW n, n = Head(walk), Enqueue(n)
  PROVE  /\ n \in Waiting /\ n \in met
         /\ met' = met \cup Children(n)
         /\ walk' \in Seq(met') /\ Distinct(walk')
         /\ Waiting' = (Waiting \ {n}) \cup (Children(n) \ met)
         /\ Behind' = Behind \cup {n}
<1> DEFINE new == Children(n) \ met
<1>1. PICK order \in SetToSeqs(new) : walk' = Tail(walk) \o order /\ met' = met \cup Children(n)
  BY DEF Enqueue
<1>2. new \in SUBSET Projects
  BY DEF Children
<1>3. order \in Seq(new) /\ (\A x \in new : In(x, order)) /\ Distinct(order)
  BY <1>2, OrderFacts
<1>4. /\ Len(walk) \in Nat \ {0} /\ n \in met /\ n = walk[1]
      /\ Tail(walk) \in Seq(met) /\ Len(Tail(walk)) = Len(walk) - 1
      /\ \A i \in 1..Len(Tail(walk)) : i + 1 \in 1..Len(walk) /\ Tail(walk)[i] = walk[i + 1]
  BY HeadFacts
<1>5. PICK rest : rest = Tail(walk)
  OBVIOUS
<1>6. Distinct(rest)
  <2> SUFFICES ASSUME NEW i \in 1..Len(rest), NEW j \in 1..Len(rest), rest[i] = rest[j]
               PROVE  i = j
    BY DEF Distinct
  <2>1. i + 1 = j + 1
    BY <1>4, <1>5 DEF Distinct
  <2> QED
    BY <1>4, <1>5, <2>1
<1>7. \A x : In(x, rest) <=> x \in Waiting \ {n}
  <2>1. 1 \in 1..Len(walk) /\ \A i \in 1..Len(rest) : i + 1 # 1
    BY <1>4, <1>5
  <2>2. \A i \in 1..Len(rest) : rest[i] \in Waiting \ {n}
    BY <1>4, <1>5, <2>1 DEF Waiting, Distinct
  <2>3. ASSUME NEW x \in Waiting \ {n} PROVE In(x, rest)
    <3>1. PICK k \in 1..Len(walk) : walk[k] = x
      BY DEF Waiting
    <3>2. k # 1
      BY <1>4, <2>3, <3>1
    <3>3. k - 1 \in 1..Len(rest) /\ (k - 1) + 1 = k
      BY <1>4, <1>5, <3>2
    <3> QED
      BY <1>4, <1>5, <3>1, <3>3 DEF In
  <2> QED
    BY <2>2, <2>3 DEF In
<1> HIDE DEF new
<1>8. met \cap new = {} /\ met' = met \cup new
  BY <1>1 DEF new
<1>9. /\ walk' \in Seq(met \cup new) /\ Distinct(walk')
      /\ \A x : In(x, walk') <=> In(x, rest) \/ In(x, order)
  <2>1. rest \in Seq(met) /\ walk' = rest \o order
    BY <1>1, <1>4, <1>5
  <2> QED
    BY <1>3, <1>6, <1>8, <2>1, Joined
<1>10. \A x : In(x, order) <=> x \in new
  BY <1>3 DEF In
<1>11. Waiting' = (Waiting \ {n}) \cup new
  <2>1. \A x : x \in Waiting' <=> In(x, walk')
    BY DEF Waiting, In
  <2> QED
    BY <1>7, <1>9, <1>10, <2>1
<1>12. n \in Waiting /\ Waiting \subseteq met
  <2>1. 1 \in 1..Len(walk)
    BY <1>4
  <2> QED
    BY <1>4, <2>1 DEF Waiting
<1>13. Behind' = Behind \cup {n}
  BY <1>8, <1>11, <1>12 DEF Behind
<1> QED
  BY <1>1, <1>4, <1>8, <1>9, <1>11, <1>12, <1>13 DEF new

-----------------------------------------------------------------------------
(* Types, and what is between the stages                                   *)

\* All variables of the composition.
DetectionVars == <<vars, detection>>

\* Before the batch is started the graph is as Init of ImpactedGraph has it.
LEMMA InitialInvariants == Acyclic /\ Init => Inv /\ Reach /\ Cover /\ Kept
<1>1. Init => Cover /\ Kept
  BY DEF Init, Cover, Kept, Linking
<1> QED
  BY <1>1, InitInv, InitReach

\* In every stage the graph is well typed.
LEMMA ComposedType == Composed => TypeOK
<1>1. Init => TypeOK
  BY InitInv DEF Inv
<1> QED
  BY <1>1 DEF Composed, Inv

\* The steps of the detection leave the graph alone until they hand it over;
\* from then on its own steps keep its own invariants.
LEMMA ComposedStep ==
  ASSUME Acyclic, Composed, [DetectionNext]_DetectionVars
  PROVE  Composed'
<1>1. CASE UNCHANGED vars /\ stage # "graph" /\ stage' # "graph"
  BY <1>1 DEF Composed, Init, vars, input, graph, search
<1>2. CASE StartBatch
  <2>1. Init'
    <3>1. Init /\ impacted' \in SUBSET Projects /\ stage' = "graph"
      BY <1>2 DEF StartBatch, Composed
    <3> QED
      BY <1>2, <3>1 DEF StartBatch, Init, graph, search
  <2>2. (Acyclic /\ Init => Inv /\ Reach /\ Cover /\ Kept)'
    BY InitialInvariants, PTL
  <2>3. Acyclic'
    BY DEF Acyclic, Ranks
  <2>4. stage' = "graph"
    BY <1>2 DEF StartBatch
  <2> QED
    BY <2>1, <2>2, <2>3, <2>4 DEF Composed
<1>3. CASE stage = "graph" /\ stage' = stage /\ [Next]_vars
  BY <1>3, InvStep, ReachStep, CoverStep, KeptStep DEF Composed
<1>4. CASE UNCHANGED DetectionVars
  <2>1. stage' = stage /\ UNCHANGED vars
    BY <1>4 DEF DetectionVars, detection
  <2> QED
    BY <1>1, <1>3, <2>1
<1>5. CASE (Detect \/ WalkFrom \/ WalkVisit \/ WalkEnds \/ AskProjects \/ AskAll \/ Refuse)
           /\ UNCHANGED vars
  BY <1>1, <1>5 DEF Detect, WalkFrom, WalkVisit, WalkEnds, AskProjects, AskAll, Refuse
<1>6. CASE stage = "graph" /\ Next /\ UNCHANGED detection
  BY <1>3, <1>6 DEF detection
<1> QED
  BY <1>2, <1>4, <1>5, <1>6 DEF DetectionNext

\* The lists: how often a project may be in one.
LEMMA ListTypes ==
  ASSUME NEW S \in SUBSET Projects, NEW T \in SUBSET Projects
  PROVE  /\ Nobody \in [Projects -> 0..2]
         /\ Once(S) \in [Projects -> 0..1]
         /\ \A p \in Projects : Once(S)[p] > 0 <=> p \in S
         /\ NamedOrIn(S, T) \in [Projects -> 0..2]
         /\ \A p \in Projects : NamedOrIn(S, T)[p] > 0 <=> p \in S \cup T
<1>1. Nobody \in [Projects -> 0..2]
  BY DEF Nobody
<1>2. \A U \in SUBSET Projects :
        /\ Once(U) \in [Projects -> 0..1]
        /\ \A p \in Projects : Once(U)[p] > 0 <=> p \in U
  BY DEF Once
<1>3. \A p \in Projects : Once(S)[p] + Once(T)[p] \in 0..2
  BY <1>2
<1>4. /\ NamedOrIn(S, T) \in [Projects -> 0..2]
      /\ \A p \in Projects : NamedOrIn(S, T)[p] = Once(S)[p] + Once(T)[p]
  BY <1>3 DEF NamedOrIn
<1>5. ASSUME NEW p \in Projects PROVE NamedOrIn(S, T)[p] > 0 <=> p \in S \cup T
  <2>1. Once(S)[p] \in 0..1 /\ Once(T)[p] \in 0..1
    BY <1>2
  <2> QED
    BY <1>2, <1>4, <2>1
<1> QED
  BY <1>1, <1>2, <1>4, <1>5

\* What AskProjects leaves behind: a list of projects that were found.
LEMMA AskedList ==
  ASSUME DetectionOK, AskProjects
  PROVE  \E l \in [Projects -> 0..2] :
           Asked(l) /\ \A p \in Projects : l[p] > 0 => p \in all
<1>1. all \in SUBSET Projects
  BY DEF DetectionOK
<1>2. PICK in \in SUBSET all :
        Asked(Once(in)) \/ \E named \in SUBSET all : Asked(NamedOrIn(named, in))
  BY DEF AskProjects
<1>3. CASE Asked(Once(in))
  <2>1. Once(in) \in [Projects -> 0..1] /\ \A p \in Projects : Once(in)[p] > 0 <=> p \in in
    BY <1>1, ListTypes
  <2>2. Once(in) \in [Projects -> 0..2]
    BY <2>1
  <2> QED
    BY <1>1, <1>3, <2>1, <2>2
<1>4. ASSUME NEW named \in SUBSET all, Asked(NamedOrIn(named, in))
      PROVE  \E l \in [Projects -> 0..2] :
               Asked(l) /\ \A p \in Projects : l[p] > 0 => p \in all
  <2>1. /\ NamedOrIn(named, in) \in [Projects -> 0..2]
        /\ \A p \in Projects : NamedOrIn(named, in)[p] > 0 <=> p \in named \cup in
    BY <1>1, ListTypes
  <2> QED
    BY <1>1, <1>4, <2>1
<1> QED
  BY <1>2, <1>3, <1>4

\* Every step keeps the types of the detection, and what Stages says.
LEMMA TypesStep ==
  ASSUME TypeOK, DetectionOK, Stages, [DetectionNext]_DetectionVars
  PROVE  DetectionOK' /\ Stages'
<1>1. CASE Detect
  BY <1>1 DEF Detect, DetectionOK, Stages, Impacted, TypeOK, asking, Requests
<1>2. CASE WalkFrom
  <2>1. PICK r \in starts : starts' = starts \ {r} /\ walk' = <<r>> /\ met' = {r}
    BY <1>2 DEF WalkFrom
  <2>2. walk' \in Seq(met') /\ met' \in SUBSET Projects
    BY <2>1 DEF DetectionOK
  <2>3. Distinct(walk')
    BY <2>1 DEF Distinct
  <2>4. stage = "walk" /\ UNCHANGED <<request, stage, changed, all, asking>>
    BY <1>2 DEF WalkFrom
  <2> QED
    BY <2>1, <2>2, <2>3, <2>4 DEF DetectionOK, Stages, asking
<1>3. CASE WalkVisit
  <2>1. stage = "walk" /\ walk # <<>> /\ UNCHANGED <<request, stage, changed, starts, asking>>
    BY <1>3 DEF WalkVisit
  <2>2. PICK n : n = Head(walk)
    OBVIOUS
  <2>3. CASE walk' = <<>> /\ UNCHANGED <<met, all>>
    <3>1. walk' \in Seq(met') /\ Distinct(walk')
      BY <2>3 DEF Distinct
    <3> QED
      BY <2>1, <2>3, <3>1 DEF DetectionOK, Stages, asking
  <2>4. CASE Enqueue(n) /\ all' = all \cup {p \in {n} : IsImpacted(p)}
    <3>1. n \in met /\ met' = met \cup Children(n) /\ walk' \in Seq(met') /\ Distinct(walk')
      BY <2>1, <2>2, <2>4, EnqueueFacts DEF DetectionOK, Stages
    <3>2. met' \in SUBSET Projects /\ all' \in SUBSET Projects
      BY <2>4, <3>1 DEF DetectionOK, Children
    <3> QED
      BY <2>1, <3>1, <3>2 DEF DetectionOK, Stages, asking
  <2> QED
    BY <1>3, <2>2, <2>3, <2>4 DEF WalkVisit
<1>4. CASE WalkEnds
  <2>1. walk' = <<>> /\ met' = {} /\ walk' \in Seq(met') /\ Distinct(walk')
    BY <1>4 DEF WalkEnds, Distinct
  <2> QED
    BY <1>4, <2>1 DEF WalkEnds, DetectionOK, Stages, asking
<1>5. CASE AskProjects
  <2>1. PICK l \in [Projects -> 0..2] : Asked(l)
    BY <1>5, AskedList
  <2>2. list' \in [Projects -> 0..2] /\ covers' \in BOOLEAN
    BY <2>1 DEF Asked, OnBranch
  <2> QED
    BY <1>5, <2>2 DEF AskProjects, DetectionOK, Stages, walking
<1>6. CASE AskAll
  <2>1. list' \in [Projects -> 0..2] /\ covers' \in BOOLEAN
    <3>1. Once(all) \in [Projects -> 0..1]
      BY ListTypes DEF DetectionOK
    <3> QED
      BY <1>6, <3>1 DEF AskAll
  <2> QED
    BY <1>6, <2>1 DEF AskAll, DetectionOK, Stages, walking
<1>7. CASE Refuse
  BY <1>7 DEF Refuse, DetectionOK, Stages, walking, asking
<1>8. CASE StartBatch
  <2>1. list' \in [Projects -> 0..2]
    BY <1>8, ListTypes DEF StartBatch
  <2> QED
    BY <1>8, <2>1 DEF StartBatch, DetectionOK, Stages, walking
<1>9. CASE UNCHANGED detection
  BY <1>9 DEF detection, walking, asking, DetectionOK, Stages
<1> QED
  BY <1>1, <1>2, <1>3, <1>4, <1>5, <1>6, <1>7, <1>8, <1>9 DEF DetectionNext, DetectionVars

-----------------------------------------------------------------------------
(* The search for dependants                                               *)

\* What the steps of the search leave as it is.
LEMMA Frame ==
  ASSUME UNCHANGED <<deps, changed>>
  PROVE  /\ \A x : Children(x)' = Children(x)
         /\ Roots' = Roots /\ (Forest' <=> Forest)
         /\ \A r : Below(r)' = Below(r)
         /\ WithDependants(changed)' = WithDependants(changed)
<1>1. \A x : Children(x)' = Children(x)
  BY DEF Children
<1>2. Roots' = Roots /\ (Forest' <=> Forest)
  BY DEF Roots, Forest
<1>3. \A r : Below(r)' = Below(r)
  BY <1>1 DEF Below, WithDependants
<1>4. WithDependants(changed)' = WithDependants(changed)
  BY <1>1 DEF WithDependants
<1> QED
  BY <1>1, <1>2, <1>3, <1>4

\* A search that is over stays over, whatever else is found.
LEMMA SearchedStays ==
  ASSUME UNCHANGED <<deps, changed>>, all \subseteq all', NEW r, Searched(r)
  PROVE  Searched(r)'
<1>1. /\ Roots' = Roots /\ (Forest' <=> Forest) /\ (\A s : Below(s)' = Below(s))
      /\ WithDependants(changed)' = WithDependants(changed)
  BY Frame
<1>2. Shared(r) => Shared(r)'
  BY <1>1 DEF Shared
<1>3. Complete(Below(r)) => Complete(Below(r))'
  BY <1>1 DEF Complete
<1> QED
  BY <1>2, <1>3 DEF Searched

\* The search visits a vertex that no search has found.
LEMMA VisitSearches ==
  ASSUME DetectionOK, Stages, walk # <<>>, UNCHANGED <<deps, changed, starts>>,
         all \subseteq WithDependants(changed),
         NEW r \in Roots \ starts, Searching(r),
         NEW n, n = Head(walk), Enqueue(n), all' = all \cup {p \in {n} : IsImpacted(p)}
  PROVE  Searching(r)' /\ all' \subseteq WithDependants(changed)
<1>1. /\ met \in SUBSET Projects /\ walk \in Seq(met) /\ Distinct(walk)
      /\ changed \in SUBSET Projects /\ all \in SUBSET Projects
  BY DEF DetectionOK, Stages
<1>2. n \in met /\ met' = met \cup Children(n) /\ Behind' = Behind \cup {n}
  BY <1>1, EnqueueFacts
<1>3. /\ Roots' = Roots /\ (Forest' <=> Forest) /\ (\A s : Below(s)' = Below(s))
      /\ WithDependants(changed)' = WithDependants(changed)
      /\ \A x : Children(x)' = Children(x)
  BY Frame
<1>4. r \in Projects /\ (\A d \in Projects : <<d, r>> \notin deps) /\ n \in Projects
  BY <1>1, <1>2 DEF Roots
<1>5. met' \subseteq Below(r)
  <2>1. Children(n) \subseteq Below(r)
    BY <1>2, <1>4, Dependants DEF Searching, Below
  <2> QED
    BY <1>2, <2>1 DEF Searching
<1>6. IsImpacted(n) => n \in WithDependants(changed)
  <2>1. changed \subseteq WithDependants(changed)
    BY <1>1, Dependants
  <2>2. \A d \in changed \cup all : <<d, n>> \in deps => n \in WithDependants(changed)
    BY <1>1, <1>4, <2>1, Dependants DEF Children
  <2> QED
    BY <2>1, <2>2 DEF IsImpacted
<1>7. all' \subseteq WithDependants(changed)
  BY <1>6
<1>8. n \in changed => n \in all'
  BY DEF IsImpacted
<1>9. ASSUME Forest, n \in WithDependants(changed) PROVE n \in all'
  <2>1. CASE n \in changed
    BY <1>8, <2>1
  <2>2. CASE n \notin changed
    <3>1. PICK d \in WithDependants(changed) : <<d, n>> \in deps
      BY <1>1, <1>9, <2>2, LastDependant
    <3>2. d \in Projects
      BY <1>1, <3>1, Dependants
    <3>3. PICK e \in Behind : n \in Children(e)
      BY <1>2, <1>4, <3>1, <3>2 DEF Searching
    <3>4. e \in Projects /\ <<e, n>> \in deps
      BY <1>1, <3>3 DEF Behind, Children
    <3>5. d = e
      BY <1>4, <1>9, <3>1, <3>2, <3>4 DEF Forest
    <3>6. d \in all
      BY <1>9, <3>1, <3>3, <3>5 DEF Searching, Complete
    <3> QED
      BY <3>1, <3>6 DEF IsImpacted
  <2> QED
    BY <2>1, <2>2
<1>10. Complete(Behind)'
  BY <1>2, <1>3, <1>8, <1>9 DEF Searching, Complete
<1>11. \A x \in Behind' : Children(x) \subseteq met'
  BY <1>2 DEF Searching
<1>12. \A x \in met' : x = r \/ \E d \in Behind' : x \in Children(d)
  BY <1>2 DEF Searching
<1>13. \A q \in all' \ Behind' : \E s \in (Roots \ starts) \ {r} : q \in Below(s)
  BY <1>2 DEF Searching
<1>14. Searching(r)'
  BY <1>2, <1>3, <1>5, <1>10, <1>11, <1>12, <1>13 DEF Searching
<1> QED
  BY <1>7, <1>14

\* A search that has emptied its queue has reached everything below its root.
LEMMA SearchEnds ==
  met \in SUBSET Projects /\ walk = <<>> /\ SearchRuns => SearchOver
<1> SUFFICES ASSUME met \in SUBSET Projects, walk = <<>>, NEW r \in Roots \ starts,
                    Searching(r), \A s \in (Roots \ starts) \ {r} : Searched(s)
             PROVE  SearchOver
  BY DEF SearchRuns
<1>1. Waiting = {} /\ Behind = met
  BY DEF Waiting, Behind
<1>2. Below(r) \subseteq met
  <2>1. {r} \subseteq met /\ \A x \in met : Children(x) \subseteq met
    BY <1>1 DEF Searching
  <2>2. {r} \in SUBSET Projects
    BY DEF Roots
  <2> QED
    BY <2>1, <2>2, Dependants DEF Below
<1>3. Searched(r)
  BY <1>1, <1>2 DEF Searching, Searched, Complete
<1>4. \A q \in all : \E s \in Roots \ starts : q \in Below(s)
  BY <1>1 DEF Searching
<1> QED
  BY <1>3, <1>4 DEF SearchOver

\* A search that meets a project found before stops.
LEMMA SearchStops ==
  ASSUME DetectionOK, walk # <<>>, SearchRuns, Stops(Head(walk))
  PROVE  SearchOver
<1> SUFFICES ASSUME NEW r \in Roots \ starts, Searching(r),
                    \A s \in (Roots \ starts) \ {r} : Searched(s)
             PROVE  SearchOver
  BY DEF SearchRuns
<1>1. Head(walk) \in met /\ Head(walk) \in Waiting /\ Head(walk) \in all
  <2>1. Head(walk) \in met /\ Head(walk) = walk[1] /\ 1 \in 1..Len(walk)
    BY HeadFacts DEF DetectionOK
  <2> QED
    BY <2>1 DEF Waiting, Stops
<1>2. PICK s \in (Roots \ starts) \ {r} : Head(walk) \in Below(s)
  BY <1>1 DEF Searching, Behind
<1>3. Shared(r)
  BY <1>1, <1>2 DEF Shared, Searching
<1>4. \A q \in all : \E t \in Roots \ starts : q \in Below(t)
  BY DEF Searching, Behind
<1> QED
  BY <1>3, <1>4 DEF Searched, SearchOver

\* Every step keeps the invariant of the searches.
LEMMA WalkStep ==
  ASSUME Composed, DetectionOK, Stages, WalkInv, [DetectionNext]_DetectionVars,
         DetectionOK', Stages'
  PROVE  WalkInv'
<1> SUFFICES ASSUME stage' \in {"walk", "found"}, request'.hard PROVE WalkInv'
  BY DEF WalkInv
<1>1. CASE Detect /\ UNCHANGED vars
  <2>1. /\ stage = "changed" /\ walk = <<>> /\ all = {} /\ stage' = "walk" /\ starts' = roots
        /\ walk' = <<>> /\ all' = {} /\ UNCHANGED deps
    BY <1>1 DEF Detect, Stages, vars, input
  <2>2. roots = Roots
    BY <2>1 DEF Composed, Init, Roots
  <2>3. Roots' = Roots
    BY <2>1 DEF Roots
  <2> QED
    BY <2>1, <2>2, <2>3 DEF WalkInv, SearchOver, SearchRuns
<1>2. CASE stage = "walk" /\ UNCHANGED <<deps, changed, request>>
           /\ (WalkFrom \/ WalkVisit \/ WalkEnds)
  <2>1. /\ request.hard /\ all \subseteq WithDependants(changed) /\ starts \subseteq Roots
        /\ walk = <<>> => SearchOver
        /\ walk # <<>> => SearchRuns
    BY <1>2 DEF Stages, WalkInv
  <2>2. /\ Roots' = Roots /\ (Forest' <=> Forest) /\ (\A s : Below(s)' = Below(s))
        /\ WithDependants(changed)' = WithDependants(changed)
        /\ \A x : Children(x)' = Children(x)
    BY <1>2, Frame
  <2>3. CASE WalkFrom
    <3>1. PICK r \in starts : starts' = starts \ {r} /\ walk' = <<r>> /\ met' = {r}
      BY <2>3 DEF WalkFrom
    <3>2. walk = <<>> /\ walk' # <<>> /\ stage' = "walk" /\ all' = all
      BY <1>2, <2>3, <3>1 DEF WalkFrom
    <3>3. r \in Roots' \ starts'
      BY <2>1, <2>2, <3>1
    <3>4. \A s \in (Roots' \ starts') \ {r} : Searched(s)'
      BY <1>2, <2>1, <2>2, <3>1, <3>2, SearchedStays DEF SearchOver
    <3>5. Behind' = {}
      BY <3>1 DEF Behind, Waiting
    <3>6. {r} \subseteq Below(r)
      BY <3>3, Dependants DEF Below, Roots
    <3>7. Searching(r)'
      BY <2>1, <2>2, <3>1, <3>2, <3>5, <3>6 DEF Searching, Complete, SearchOver
    <3> QED
      BY <2>1, <2>2, <3>1, <3>2, <3>3, <3>4, <3>7 DEF WalkInv, SearchRuns
  <2>4. CASE WalkVisit
    <3>1. walk # <<>> /\ starts' = starts /\ stage' = "walk"
      BY <1>2, <2>4 DEF WalkVisit
    <3>2. PICK r \in Roots \ starts :
            Searching(r) /\ \A s \in (Roots \ starts) \ {r} : Searched(s)
      BY <2>1, <3>1 DEF SearchRuns
    <3>3. PICK n : n = Head(walk)
      OBVIOUS
    <3>4. CASE Stops(n) /\ walk' = <<>> /\ UNCHANGED <<met, all>>
      <4>1. SearchOver
        BY <2>1, <3>1, <3>3, <3>4, SearchStops
      <4>2. \A s \in Roots \ starts : Searched(s)'
        BY <1>2, <3>4, <4>1, SearchedStays DEF SearchOver
      <4> QED
        BY <2>1, <2>2, <3>1, <3>4, <4>1, <4>2 DEF WalkInv, SearchOver
    <3>5. CASE Enqueue(n) /\ all' = all \cup {p \in {n} : IsImpacted(p)}
      <4>1. Searching(r)' /\ all' \subseteq WithDependants(changed)
        BY <1>2, <2>1, <3>1, <3>2, <3>3, <3>5, VisitSearches
      <4>2. \A s \in (Roots \ starts) \ {r} : Searched(s)'
        BY <1>2, <3>2, <3>5, SearchedStays
      <4>3. SearchRuns'
        BY <2>2, <3>1, <4>1, <4>2 DEF SearchRuns
      <4>4. walk' = <<>> => SearchOver'
        <5>1. (met \in SUBSET Projects /\ walk = <<>> /\ SearchRuns => SearchOver)'
          BY SearchEnds, PTL
        <5> QED
          BY <4>3, <5>1 DEF DetectionOK
      <4> QED
        BY <2>1, <2>2, <3>1, <4>1, <4>3, <4>4 DEF WalkInv
    <3> QED
      BY <2>4, <3>3, <3>4, <3>5 DEF WalkVisit
  <2>5. CASE WalkEnds
    <3>1. /\ walk = <<>> /\ walk' = <<>> /\ starts = {} /\ UNCHANGED <<all, starts>>
          /\ stage' = "found"
      BY <2>5 DEF WalkEnds
    <3>2. \A s \in Roots \ starts : Searched(s)'
      BY <1>2, <2>1, <3>1, SearchedStays DEF SearchOver
    <3> QED
      BY <2>1, <2>2, <3>1, <3>2 DEF WalkInv, SearchOver
  <2> QED
    BY <1>2, <2>3, <2>4, <2>5
<1>3. CASE (WalkFrom \/ WalkVisit \/ WalkEnds) /\ UNCHANGED vars
  BY <1>2, <1>3 DEF WalkFrom, WalkVisit, WalkEnds, vars, input
<1>4. CASE AskProjects \/ AskAll \/ Refuse \/ StartBatch
  BY <1>4 DEF AskProjects, AskAll, Refuse, StartBatch
<1>5. CASE stage = "graph" /\ UNCHANGED detection
  BY <1>5 DEF detection
<1>6. CASE UNCHANGED <<vars, detection>>
  <2>1. /\ UNCHANGED <<deps, changed, all, starts, walk, met, stage, request>>
        /\ Waiting' = Waiting /\ Behind' = Behind
    BY <1>6 DEF vars, input, detection, walking, Behind, Waiting
  <2>2. /\ Roots' = Roots /\ (Forest' <=> Forest) /\ (\A s : Below(s)' = Below(s))
        /\ WithDependants(changed)' = WithDependants(changed)
        /\ \A x : Children(x)' = Children(x)
    BY <2>1, Frame
  <2>3. \A r : (Searched(r) => Searched(r)') /\ (Searching(r) => Searching(r)')
    BY <2>1, <2>2, SearchedStays DEF Searching, Complete
  <2> QED
    BY <2>1, <2>2, <2>3 DEF WalkInv, SearchOver, SearchRuns
<1> QED
  BY <1>1, <1>3, <1>4, <1>5, <1>6 DEF DetectionNext, DetectionVars

-----------------------------------------------------------------------------
(* The flags of a comment                                                  *)

\* A list that has no project twice is as long as its set of projects.
LEMMA EntriesOf ==
  ASSUME all \in SUBSET Projects, NEW l \in [Projects -> 0..2],
         \A p \in Projects : l[p] < 2 /\ (l[p] > 0 => p \in all)
  PROVE  Entries(l) = Cardinality(all) <=> \A p \in all : l[p] > 0
<1> DEFINE S == {p \in Projects : l[p] > 0}
           E == {e \in Projects \X {1, 2} : e[2] <= l[e[1]]}
           f == [p \in S |-> <<p, 1>>]
<1>1. S \in SUBSET all /\ IsFiniteSet(all)
  BY ProjectsAssumption, FS_Subset
<1>2. IsFiniteSet(S) /\ (Cardinality(all) = Cardinality(S) => all = S)
  BY <1>1, FS_Subset
<1>3. f \in Bijection(S, E)
  <2>1. \A p \in Projects : l[p] \in 0..1 /\ (l[p] > 0 <=> 1 <= l[p]) /\ ~ (2 <= l[p])
    <3> TAKE p \in Projects
    <3>1. l[p] \in 0..2 /\ l[p] < 2
      OBVIOUS
    <3> QED
      BY <3>1
  <2>2. f \in [S -> E]
    BY <2>1
  <2>3. IsInjective(f)
    BY DEF IsInjective
  <2>4. \A e \in E : \E p \in S : f[p] = e
    <3> SUFFICES ASSUME NEW e \in E PROVE e[1] \in S /\ f[e[1]] = e
      OBVIOUS
    <3>1. e = <<e[1], e[2]>> /\ e[1] \in Projects /\ e[2] \in {1, 2} /\ e[2] <= l[e[1]]
      OBVIOUS
    <3>2. e[2] = 1
      BY <2>1, <3>1
    <3>3. e[1] \in S
      BY <2>1, <3>1, <3>2
    <3> QED
      BY <3>1, <3>2, <3>3
  <2> QED
    BY <2>2, <2>3, <2>4 DEF Bijection, Injection, Surjection
<1>4. Entries(l) = Cardinality(E)
  BY DEF Entries
<1> HIDE DEF f, E
<1>5. Cardinality(E) = Cardinality(S)
  <2>1. ExistsBijection(S, E)
    BY <1>3 DEF ExistsBijection
  <2> QED
    BY <1>2, <2>1, FS_Bijection
<1>6. S = all <=> \A p \in all : l[p] > 0
  BY <1>1
<1> HIDE DEF S
<1> QED
  BY <1>2, <1>4, <1>5, <1>6

\* Every step keeps the word on covering: lists without repetition are compared
\* by length.
LEMMA CoversStep ==
  ASSUME DetectionOK, CoversTold, [DetectionNext]_DetectionVars
  PROVE  CoversTold'
<1> SUFFICES ASSUME stage' = "asked", \A p \in Projects : list'[p] < 2
             PROVE  covers' <=> \A p \in all' : list'[p] > 0
  BY DEF CoversTold
<1>1. CASE AskProjects
  <2>1. PICK l \in [Projects -> 0..2] : Asked(l) /\ \A p \in Projects : l[p] > 0 => p \in all
    BY <1>1, AskedList
  <2>2. list' = OnBranch(l) /\ all' = all
    BY <1>1, <2>1 DEF AskProjects, Asked
  <2>3. /\ OnBranch(l) \in [Projects -> 0..2]
        /\ \A p \in Projects : OnBranch(l)[p] > 0 => p \in all
    BY <2>1 DEF OnBranch
  <2>4. \A p \in Projects : OnBranch(l)[p] < 2 /\ (OnBranch(l)[p] > 0 => p \in all)
    BY <2>2, <2>3
  <2>5. Entries(OnBranch(l)) = Cardinality(all) <=> \A p \in all : OnBranch(l)[p] > 0
    BY <2>3, <2>4, EntriesOf DEF DetectionOK
  <2> QED
    BY <2>1, <2>2, <2>5 DEF Asked
<1>2. CASE AskAll
  <2>1. list' = Once(all) /\ covers' = TRUE /\ all' = all
    BY <1>2 DEF AskAll
  <2> QED
    BY <2>1, ListTypes DEF DetectionOK
<1>3. CASE Detect \/ WalkFrom \/ WalkVisit \/ WalkEnds \/ Refuse \/ StartBatch
  BY <1>3 DEF Detect, WalkFrom, WalkVisit, WalkEnds, Refuse, StartBatch
<1>4. CASE UNCHANGED detection
  BY <1>4 DEF detection, asking, CoversTold
<1> QED
  BY <1>1, <1>2, <1>3, <1>4 DEF DetectionNext, DetectionVars

-----------------------------------------------------------------------------
(* The theorems                                                            *)

\* The inductive invariant of the composition.
DetectionInv == Composed /\ DetectionOK /\ Stages /\ WalkInv /\ CoversTold

\* It holds at the start.
LEMMA DetectionInitInv == DetectionInit => DetectionInv
<1> SUFFICES ASSUME DetectionInit PROVE DetectionInv
  OBVIOUS
<1>1. Composed
  BY DEF DetectionInit, Composed
<1>2. DetectionOK /\ Stages
  <2>1. Nobody \in [Projects -> 0..2]
    BY ListTypes
  <2>2. walk \in Seq(met) /\ Distinct(walk)
    BY DEF DetectionInit, Distinct
  <2> QED
    BY <2>1, <2>2 DEF DetectionInit, DetectionOK, Stages
<1>3. WalkInv /\ CoversTold
  BY DEF DetectionInit, WalkInv, CoversTold
<1> QED
  BY <1>1, <1>2, <1>3 DEF DetectionInv

\* The invariant holds in every reachable state.
THEOREM DetectionInvariance == Acyclic /\ DetectionSpec => [](Acyclic /\ DetectionInv)
<1>1. Acyclic /\ DetectionInv /\ [DetectionNext]_<<vars, detection>> => (Acyclic /\ DetectionInv)'
  <2> SUFFICES ASSUME Acyclic, DetectionInv, [DetectionNext]_DetectionVars
               PROVE  (Acyclic /\ DetectionInv)'
    BY DEF DetectionVars
  <2>1. TypeOK
    BY ComposedType DEF DetectionInv
  <2>2. Composed'
    BY ComposedStep DEF DetectionInv
  <2>3. DetectionOK' /\ Stages'
    BY <2>1, TypesStep DEF DetectionInv
  <2>4. WalkInv' /\ CoversTold'
    BY <2>3, WalkStep, CoversStep DEF DetectionInv
  <2>5. Acyclic'
    BY DEF Acyclic, Ranks
  <2> QED
    BY <2>2, <2>3, <2>4, <2>5 DEF DetectionInv
<1> QED
  BY <1>1, DetectionInitInv, PTL DEF DetectionSpec

\* Every reachable state of the detection and of the graph it leads to is well
\* typed.  ConvertGithubPullRequestEventToJobs, ConvertIssueCommentEventToJobs.
THEOREM DetectionTyped == Acyclic /\ DetectionSpec => [](TypeOK /\ DetectionOK)
<1>1. DetectionInv => TypeOK /\ DetectionOK
  BY ComposedType DEF DetectionInv
<1> QED
  BY <1>1, DetectionInvariance, PTL

\* Whatever the detection finds and the comment asks for, the properties of
\* ImpactedGraph hold of the batch.  ConvertJobsToDiggerJobs.
THEOREM BatchesAreSound ==
  Acyclic /\ DetectionSpec =>
    [](LinksAreDependencies /\ ParentsVisitedFirst /\ OneJobEach /\ TreesAreKept)
<1>1. Acyclic /\ Inv /\ Reach /\ Cover /\ Kept
        => LinksAreDependencies /\ ParentsVisitedFirst /\ OneJobEach /\ TreesAreKept
  BY InvLinks, InvJobs, InvTrees DEF Inv, SearchInv
<1>2. Acyclic /\ DetectionInv
        => LinksAreDependencies /\ ParentsVisitedFirst /\ OneJobEach /\ TreesAreKept
  BY <1>1, InitialInvariants DEF DetectionInv, Composed
<1> QED
  BY <1>2, DetectionInvariance, PTL

\* What the search finds has changed or depends on what has changed; that is
\* all of it where no project has two dependencies; and what it loses it loses
\* to another search.  FindAllProjectsDependantOnImpactedProjects.
THEOREM SearchFinds == Acyclic /\ DetectionSpec => []DependantsFound
<1>1. Acyclic /\ DetectionInv => DependantsFound
  <2> SUFFICES ASSUME Acyclic, DetectionInv, stage = "found", request.hard
               PROVE  /\ all \subseteq WithDependants(changed)
                      /\ Forest => all = WithDependants(changed)
                      /\ \A p \in changed \ all, r \in Roots : p \in Below(r) =>
                           \E q \in all \cap Below(r), s \in Roots \ {r} : q \in Below(s)
    BY DEF DependantsFound, Below
  <2>1. all \subseteq WithDependants(changed) /\ \A r \in Roots : Searched(r)
    BY DEF DetectionInv, WalkInv, SearchOver
  <2>2. changed \in SUBSET Projects /\ deps \in Graphs
    BY ComposedType DEF DetectionInv, DetectionOK, TypeOK
  <2>3. ASSUME Forest, NEW p \in WithDependants(changed) PROVE p \in all
    <3>1. PICK rank : Ranks(deps, rank)
      BY <2>2 DEF Acyclic
    <3>2. p \in Projects
      BY <2>2, <2>3, Dependants
    <3>3. PICK r \in Roots : p \in Below(r)
      BY <3>1, <3>2, RootAbove
    <3>4. ~Shared(r)
      BY <2>3, RootsApart DEF Shared
    <3> QED
      BY <2>1, <2>3, <3>3, <3>4 DEF Searched, Complete
  <2>4. ASSUME NEW p \in changed \ all, NEW r \in Roots, p \in Below(r) PROVE Shared(r)
    BY <2>1, <2>4 DEF Searched, Complete
  <2> QED
    BY <2>1, <2>3, <2>4 DEF Shared
<1> QED
  BY <1>1, DetectionInvariance, PTL

\* A batch covers all impacted projects exactly when it is said to, although
\* only lengths are compared.  ConvertIssueCommentEventToJobs.
THEOREM CoveringIsTold == Acyclic /\ DetectionSpec => []CoversTold
<1>1. DetectionInv => CoversTold
  BY DEF DetectionInv
<1> QED
  BY <1>1, DetectionInvariance, PTL
==============================================================================
