------------------------- MODULE ImpactedGraphProofs -------------------------
(***************************************************************************)
(* Theorems about ImpactedGraph, for every set of projects, dependency     *)
(* graph and order of the loops: parent links are dependencies, projects   *)
(* are visited after their predecessors, and none gets two jobs.           *)
(***************************************************************************)
EXTENDS ImpactedGraph, WellFoundedInduction, TLAPS

-----------------------------------------------------------------------------
(* The inductive invariant                                                 *)

\* What the calls in progress rely on: the parent they hand on is a vertex
\* that their project depends on.
CallsOK(s, V) ==
  \A i \in 1..Len(s) :
    /\ s[i].todo \subseteq Children(s[i].node)
    /\ s[i].node \in impacted => s[i].node \in V
    /\ s[i].parent # NoParent => s[i].parent \in V /\ DependsOn(s[i].node, s[i].parent)

\* A project whose call is in progress has no edge to it yet, and no second
\* call.
Pending(s, E) ==
  \A i \in 1..Len(s) : s[i].node \in impacted =>
    /\ \A u \in Projects : <<u, s[i].node>> \notin E
    /\ \A j \in 1..Len(s) : s[j].node = s[i].node => i = j

\* Edges join a project to one it depends on, and each has one at most.
Trees(E) ==
  /\ \A u, v \in Projects : <<u, v>> \in E => DependsOn(v, u)
  /\ \A u, v, w \in Projects : <<u, v>> \in E /\ <<w, v>> \in E => u = w

\* What the recursion keeps of its calls, its vertices and its edges.
CollapseInv ==
  /\ phase # "collapse" => stack = <<>>
  /\ CallsOK(stack, vertices)
  /\ Pending(stack, edges)
  /\ Trees(edges)

\* The queue holds projects seen and not visited, once each.
QueueInv ==
  /\ \A i \in 1..Len(queue) : queue[i] \in seen
  /\ \A i, j \in 1..Len(queue) : queue[i] = queue[j] => i = j

\* The rows so far are those of visited projects, one each, and their links
\* are edges.
JobsInv ==
  /\ \A job \in jobs :
       /\ job[1] \in seen
       /\ \A i \in 1..Len(queue) : queue[i] # job[1]
       /\ job[2] # NoParent => <<job[2], job[1]>> \in edges
  /\ \A j, k \in jobs : j[1] = k[1] => j = k

\* The search: before it nothing is found, and who is found has visited
\* predecessors, unless a query failed.
SearchInv ==
  /\ phase = "collapse" => queue = <<>> /\ seen = {} /\ adjacent = {} /\ jobs = {}
  /\ ~failed => \A v \in seen \cup adjacent : Predecessors(v) \subseteq result
  /\ ParentsVisitedFirst

\* The inductive invariant that holds with cycles too.
Inv == TypeOK /\ CollapseInv /\ QueueInv /\ JobsInv /\ SearchInv

-----------------------------------------------------------------------------
(* Dependencies                                                            *)

\* DependsOn is closed under the steps CollapsedGraph takes.
LEMMA DirectDependency ==
  ASSUME NEW u \in Projects, NEW c \in Children(u)
  PROVE  DependsOn(c, u)
BY DEF DependsOn

LEMMA NextDependency ==
  ASSUME NEW u \in Projects, NEW n \in Projects, DependsOn(n, u), n \notin impacted,
         NEW c \in Children(n)
  PROVE  DependsOn(c, u)
BY DEF DependsOn

\* All but the last element of a sequence.
LEMMA FrontFacts ==
  ASSUME NEW S, NEW s \in Seq(S), NEW m \in Nat, m + 1 = Len(s)
  PROVE  /\ s[m + 1] \in S
         /\ SubSeq(s, 1, m) \in Seq(S)
         /\ Len(SubSeq(s, 1, m)) = m
         /\ \A i \in 1..m : SubSeq(s, 1, m)[i] = s[i]
<1>1. s[m + 1] \in S
  OBVIOUS
<1>2. SubSeq(s, 1, m) \in Seq(S)
  OBVIOUS
<1>3. Len(SubSeq(s, 1, m)) = m
  OBVIOUS
<1>4. \A i \in 1..m : SubSeq(s, 1, m)[i] = s[i]
  OBVIOUS
<1> QED
  BY <1>1, <1>2, <1>3, <1>4

\* Taking the innermost call off the stack.
LEMMA PopFacts ==
  ASSUME stack \in Seq(Calls), stack # <<>>
  PROVE  /\ Len(stack) \in Nat \ {0}
         /\ Top \in Calls
         /\ Pop \in Seq(Calls)
         /\ Len(Pop) = Len(stack) - 1
         /\ \A i \in 1..Len(Pop) : Pop[i] = stack[i]
<1>1. Len(stack) \in Nat \ {0}
  OBVIOUS
<1>2. PICK m \in Nat : m + 1 = Len(stack)
  <2>1. Len(stack) - 1 \in Nat /\ (Len(stack) - 1) + 1 = Len(stack)
    BY <1>1
  <2> QED
    BY <2>1
<1>3. Top = stack[m + 1] /\ Pop = SubSeq(stack, 1, m)
  <2>1. Len(stack) - 1 = m
    BY <1>2
  <2> QED
    BY <1>2, <2>1 DEF Top, Pop
<1>4. /\ stack[m + 1] \in Calls
      /\ SubSeq(stack, 1, m) \in Seq(Calls)
      /\ Len(SubSeq(stack, 1, m)) = m
      /\ \A i \in 1..m : SubSeq(stack, 1, m)[i] = stack[i]
  BY <1>2, FrontFacts
<1> QED
  BY <1>1, <1>2, <1>3, <1>4

\* The innermost call takes its next child, c.
LEMMA NextChild ==
  ASSUME stack \in Seq(Calls), stack # <<>>, NEW c \in Top.todo
  PROVE  LET calls == Append(Pop, [Top EXCEPT !.todo = @ \ {c}])
         IN  /\ calls \in Seq(Calls) /\ Len(calls) = Len(stack)
             /\ \A i \in 1..Len(stack) :
                  /\ calls[i].node = stack[i].node /\ calls[i].parent = stack[i].parent
                  /\ calls[i].todo \subseteq stack[i].todo
                  /\ stack[i].todo \subseteq calls[i].todo \cup {c}
<1> DEFINE top == [Top EXCEPT !.todo = @ \ {c}]
           calls == Append(Pop, top)
<1>1. /\ Len(stack) \in Nat \ {0} /\ Top \in Calls /\ Pop \in Seq(Calls)
      /\ Len(Pop) = Len(stack) - 1 /\ \A i \in 1..Len(Pop) : Pop[i] = stack[i]
  BY PopFacts
<1>2. /\ top \in Calls /\ top.node = Top.node /\ top.parent = Top.parent
      /\ top.todo \subseteq Top.todo /\ Top.todo \subseteq top.todo \cup {c}
  BY <1>1 DEF Calls
<1> HIDE DEF top
<1>3. /\ calls \in Seq(Calls) /\ Len(calls) = Len(stack) /\ calls[Len(stack)] = top
      /\ \A i \in 1..(Len(stack) - 1) : calls[i] = stack[i]
  BY <1>1, <1>2
<1>4. \A i \in 1..Len(stack) : i = Len(stack) \/ i \in 1..(Len(stack) - 1)
  BY <1>1
<1> HIDE DEF calls
<1>5. /\ calls \in Seq(Calls) /\ Len(calls) = Len(stack)
      /\ \A i \in 1..Len(stack) :
           /\ calls[i].node = stack[i].node /\ calls[i].parent = stack[i].parent
           /\ calls[i].todo \subseteq stack[i].todo
           /\ stack[i].todo \subseteq calls[i].todo \cup {c}
  BY <1>2, <1>3, <1>4 DEF Top
<1> QED
  BY <1>5 DEF calls, top

-----------------------------------------------------------------------------
(* One call of CollapsedGraph                                              *)

LEMMA CallKeeps ==
  ASSUME TypeOK, Trees(edges),
         NEW calls \in Seq(Calls), CallsOK(calls, vertices), Pending(calls, edges),
         NEW n \in Projects, NEW p \in Parent,
         p # NoParent => p \in vertices /\ DependsOn(n, p),
         Call(calls, n, p)
  PROVE  /\ stack' \in Seq(Calls)
         /\ vertices' \in SUBSET impacted
         /\ vertices \subseteq vertices'
         /\ edges' = edges
         /\ CallsOK(stack', vertices')
         /\ Pending(stack', edges)
<1> DEFINE call == [node |-> n, parent |-> p, todo |-> Children(n)]
<1>1. edges' = edges
  BY DEF Call
<1>2. CASE n \in impacted /\ n \in vertices
  <2>1. stack' = calls /\ vertices' = vertices
    BY <1>2 DEF Call
  <2> QED
    BY <1>1, <2>1 DEF TypeOK
<1>3. CASE ~ (n \in impacted /\ n \in vertices)
  <2>1. stack' = Append(calls, call) /\ vertices' = vertices \cup ({n} \cap impacted)
    BY <1>3 DEF Call
  <2>2. call \in Calls
    BY DEF Calls, Children
  <2>3. /\ stack' \in Seq(Calls) /\ Len(stack') = Len(calls) + 1
        /\ stack'[Len(calls) + 1] = call
        /\ \A i \in 1..Len(calls) : stack'[i] = calls[i]
        /\ Len(calls) \in Nat
    BY <2>1, <2>2
  <2>4. vertices' \in SUBSET impacted /\ vertices \subseteq vertices'
    BY <2>1 DEF TypeOK
  <2>5. CallsOK(stack', vertices')
    <3> SUFFICES ASSUME NEW i \in 1..Len(stack')
                 PROVE  /\ stack'[i].todo \subseteq Children(stack'[i].node)
                        /\ stack'[i].node \in impacted => stack'[i].node \in vertices'
                        /\ stack'[i].parent # NoParent =>
                             stack'[i].parent \in vertices' /\ DependsOn(stack'[i].node, stack'[i].parent)
      BY DEF CallsOK
    <3>1. CASE i \in 1..Len(calls)
      BY <2>3, <2>4, <3>1 DEF CallsOK
    <3>2. CASE i = Len(calls) + 1
      BY <2>1, <2>3, <2>4, <3>2
    <3> QED
      BY <2>3, <3>1, <3>2
  <2>6. Pending(stack', edges)
    <3>1. ASSUME n \in impacted
          PROVE  /\ \A u \in Projects : <<u, n>> \notin edges
                 /\ \A i \in 1..Len(calls) : calls[i].node # n
      <4>1. n \notin vertices
        BY <1>3, <3>1
      <4> QED
        BY <3>1, <4>1 DEF TypeOK, CallsOK
    <3> SUFFICES ASSUME NEW i \in 1..Len(stack'), stack'[i].node \in impacted
                 PROVE  /\ \A u \in Projects : <<u, stack'[i].node>> \notin edges
                        /\ \A j \in 1..Len(stack') : stack'[j].node = stack'[i].node => i = j
      BY DEF Pending
    <3>2. CASE i \in 1..Len(calls)
      BY <2>3, <3>1, <3>2, SMTT(30) DEF Pending
    <3>3. CASE i = Len(calls) + 1
      BY <2>3, <3>1, <3>3 DEF Pending
    <3> QED
      BY <2>3, <3>2, <3>3
  <2> QED
    BY <1>1, <2>3, <2>4, <2>5, <2>6
<1> QED
  BY <1>2, <1>3

-----------------------------------------------------------------------------
(* Initial states, and the steps of each action                            *)

\* It holds at the start.
LEMMA InitInv == Init => Inv
<1> SUFFICES ASSUME Init PROVE Inv
  OBVIOUS
<1>1. TypeOK
  <2>1. stack \in Seq(Calls) /\ queue \in Seq(vertices)
    BY DEF Init
  <2>2. deps \in Graphs /\ impacted \in SUBSET Projects /\ roots \in SUBSET Projects
    BY DEF Init
  <2> QED
    BY <2>1, <2>2, Zenon DEF Init, TypeOK
<1>2. CollapseInv
  BY DEF Init, CollapseInv, CallsOK, Pending, Trees
<1>3. QueueInv /\ JobsInv
  BY DEF Init, QueueInv, JobsInv
<1>4. SearchInv
  BY DEF Init, SearchInv, ParentsVisitedFirst
<1> QED
  BY <1>1, <1>2, <1>3, <1>4 DEF Inv

\* A step of the collapse that leaves its calls and edges as they should be.
LEMMA CollapseStep ==
  ASSUME Inv, phase = "collapse",
         UNCHANGED <<input, phase, search, jobs, result, failed>>,
         roots' \in SUBSET Projects,
         stack' \in Seq(Calls),
         vertices' \in SUBSET impacted, vertices \subseteq vertices',
         edges' \in SUBSET (vertices' \X vertices'),
         CallsOK(stack', vertices'), Pending(stack', edges'), Trees(edges')
  PROVE  Inv'
<1> USE DEF input, search
<1>1. deps' = deps /\ impacted' = impacted
  OBVIOUS
<1>2. /\ queue = <<>> /\ seen = {} /\ adjacent = {} /\ jobs = {}
      /\ queue' = <<>> /\ seen' = {} /\ adjacent' = {} /\ jobs' = {}
  BY DEF Inv, SearchInv
<1>3. TypeOK'
  <2>1. queue' \in Seq(vertices') /\ result' \in SUBSET vertices'
    BY <1>2 DEF Inv, TypeOK
  <2> QED
    BY <1>1, <1>2, <2>1 DEF Inv, TypeOK
<1>4. CollapseInv'
  <2>1. CallsOK(stack, vertices)'
    BY <1>1 DEF CallsOK, Children, DependsOn
  <2>2. Pending(stack, edges)'
    BY <1>1 DEF Pending
  <2>3. Trees(edges)'
    BY <1>1 DEF Trees, Children, DependsOn
  <2> QED
    BY <2>1, <2>2, <2>3 DEF CollapseInv
<1>5. QueueInv' /\ JobsInv'
  BY <1>2 DEF QueueInv, JobsInv
<1>6. SearchInv'
  BY <1>2 DEF Inv, SearchInv, ParentsVisitedFirst
<1> QED
  BY <1>3, <1>4, <1>5, <1>6 DEF Inv

\* One lemma for each action from here on.
LEMMA CollapseRootInv == Inv /\ CollapseRoot => Inv'
<1> SUFFICES ASSUME Inv, CollapseRoot PROVE Inv'
  OBVIOUS
<1>1. PICK r \in roots : roots' = roots \ {r} /\ Call(stack, r, NoParent)
  BY DEF CollapseRoot
<1>2. r \in Projects /\ NoParent \in Parent /\ TypeOK /\ Trees(edges)
  BY DEF Inv, TypeOK, Parent, CollapseInv
<1>3. stack \in Seq(Calls) /\ CallsOK(stack, vertices) /\ Pending(stack, edges)
  BY DEF Inv, TypeOK, CollapseInv
<1>4. /\ stack' \in Seq(Calls) /\ vertices' \in SUBSET impacted
      /\ vertices \subseteq vertices' /\ edges' = edges
      /\ CallsOK(stack', vertices') /\ Pending(stack', edges)
  BY <1>1, <1>2, <1>3, CallKeeps
<1>5. edges' \in SUBSET (vertices' \X vertices') /\ roots' \in SUBSET Projects
  BY <1>1, <1>2, <1>4 DEF TypeOK
<1>6. phase = "collapse" /\ UNCHANGED <<input, phase, search, jobs, result, failed>>
  BY DEF CollapseRoot
<1> QED
  BY <1>2, <1>4, <1>5, <1>6, CollapseStep

LEMMA CollapseChildInv == Inv /\ CollapseChild => Inv'
<1> SUFFICES ASSUME Inv, CollapseChild PROVE Inv'
  OBVIOUS
<1> DEFINE calls(c) == Append(Pop, [Top EXCEPT !.todo = @ \ {c}])
<1>1. PICK c \in Top.todo : Call(calls(c), c, ParentOfChildren(Top))
  BY DEF CollapseChild
<1>2. TypeOK /\ stack \in Seq(Calls) /\ stack # <<>> /\ phase = "collapse" /\ Trees(edges)
  BY DEF CollapseChild, Inv, TypeOK, CollapseInv
<1>3. /\ Len(stack) \in Nat \ {0} /\ Top \in Calls /\ Pop \in Seq(Calls)
      /\ Len(Pop) = Len(stack) - 1 /\ \A i \in 1..Len(Pop) : Pop[i] = stack[i]
  BY <1>2, PopFacts
<1>4. /\ Top.node \in Projects /\ Top.parent \in Parent /\ c \in Children(Top.node)
      /\ c \in Projects
      /\ Top.node \in impacted => Top.node \in vertices
      /\ Top.parent # NoParent => Top.parent \in vertices /\ DependsOn(Top.node, Top.parent)
  <2>1. Len(stack) \in 1..Len(stack) /\ Top = stack[Len(stack)]
    BY <1>3 DEF Top
  <2>2. Top.node \in Projects /\ Top.parent \in Parent /\ Top.todo \subseteq Projects
    BY <1>3 DEF Calls
  <2> QED
    BY <2>1, <2>2 DEF Inv, CollapseInv, CallsOK
<1>5. /\ ParentOfChildren(Top) \in Parent
      /\ ParentOfChildren(Top) # NoParent =>
           ParentOfChildren(Top) \in vertices /\ DependsOn(c, ParentOfChildren(Top))
  <2>1. CASE Top.node \in impacted
    BY <1>4, <2>1, DirectDependency DEF ParentOfChildren, Parent
  <2>2. CASE Top.node \notin impacted
    <3>1. ParentOfChildren(Top) = Top.parent
      BY <2>2 DEF ParentOfChildren
    <3>2. Top.parent # NoParent => Top.parent \in Projects
      BY <1>4 DEF Parent
    <3> QED
      BY <1>4, <2>2, <3>1, <3>2, NextDependency
  <2> QED
    BY <2>1, <2>2
<1>6. /\ calls(c) \in Seq(Calls) /\ Len(calls(c)) = Len(stack)
      /\ \A i \in 1..Len(stack) :
           /\ calls(c)[i].node = stack[i].node /\ calls(c)[i].parent = stack[i].parent
           /\ calls(c)[i].todo \subseteq stack[i].todo
  BY <1>1, <1>2, NextChild
<1> HIDE DEF calls
<1>7. CallsOK(calls(c), vertices)
  BY <1>6 DEF Inv, CollapseInv, CallsOK
<1>8. Pending(calls(c), edges)
  BY <1>6 DEF Inv, CollapseInv, Pending
<1>9. /\ stack' \in Seq(Calls) /\ vertices' \in SUBSET impacted
      /\ vertices \subseteq vertices' /\ edges' = edges
      /\ CallsOK(stack', vertices') /\ Pending(stack', edges)
  BY <1>1, <1>2, <1>4, <1>5, <1>6, <1>7, <1>8, CallKeeps
<1>10. edges' \in SUBSET (vertices' \X vertices') /\ roots' \in SUBSET Projects
  BY <1>2, <1>9 DEF TypeOK, CollapseChild
<1>11. UNCHANGED <<input, phase, search, jobs, result, failed>>
  BY DEF CollapseChild
<1> QED
  BY <1>2, <1>9, <1>10, <1>11, CollapseStep

LEMMA CollapseReturnInv == Inv /\ CollapseReturn => Inv'
<1> SUFFICES ASSUME Inv, CollapseReturn PROVE Inv'
  OBVIOUS
<1>1. TypeOK /\ stack \in Seq(Calls) /\ stack # <<>> /\ phase = "collapse" /\ Trees(edges)
  BY DEF CollapseReturn, Inv, TypeOK, CollapseInv
<1>2. /\ Len(stack) \in Nat \ {0} /\ Top \in Calls /\ Pop \in Seq(Calls)
      /\ Len(Pop) = Len(stack) - 1 /\ \A i \in 1..Len(Pop) : Pop[i] = stack[i]
  BY <1>1, PopFacts
<1>3. /\ Len(stack) \in 1..Len(stack) /\ Top = stack[Len(stack)]
      /\ 1..Len(Pop) \subseteq 1..Len(stack)
      /\ \A i \in 1..Len(Pop) : i # Len(stack)
  BY <1>2 DEF Top
<1>4. stack' = Pop /\ UNCHANGED <<input, phase, roots, vertices, search, jobs, result, failed>>
  BY DEF CollapseReturn
<1>5. CallsOK(Pop, vertices)
  BY <1>2, <1>3 DEF Inv, CollapseInv, CallsOK
<1>6. Pending(Pop, edges)
  BY <1>2, <1>3 DEF Inv, CollapseInv, Pending
<1>7. vertices' \in SUBSET impacted /\ roots' \in SUBSET Projects
  BY <1>1, <1>4 DEF TypeOK
<1>8. CASE ~ (Top.node \in impacted /\ Top.parent # NoParent)
  <2>1. edges' = edges
    BY <1>8 DEF CollapseReturn
  <2> QED
    BY <1>1, <1>2, <1>4, <1>5, <1>6, <1>7, <2>1, CollapseStep DEF TypeOK
<1>9. CASE Top.node \in impacted /\ Top.parent # NoParent
  <2>1. edges' = edges \cup {<<Top.parent, Top.node>>}
    BY <1>9 DEF CollapseReturn
  <2>2. /\ Top.node \in vertices /\ Top.parent \in vertices
        /\ DependsOn(Top.node, Top.parent)
    BY <1>3, <1>9 DEF Inv, CollapseInv, CallsOK
  <2>3. /\ \A u \in Projects : <<u, Top.node>> \notin edges
        /\ \A i \in 1..Len(Pop) : Pop[i].node # Top.node
    BY <1>2, <1>3, <1>9 DEF Inv, CollapseInv, Pending
  <2>4. edges' \in SUBSET (vertices' \X vertices')
    BY <1>1, <1>4, <2>1, <2>2 DEF TypeOK
  <2>5. Trees(edges')
    BY <1>1, <2>1, <2>2, <2>3 DEF Trees
  <2>6. Pending(Pop, edges')
    BY <1>6, <2>1, <2>3 DEF Pending
  <2> QED
    BY <1>1, <1>2, <1>4, <1>5, <1>7, <2>4, <2>5, <2>6, CollapseStep
<1> QED
  BY <1>8, <1>9

\* A step of the search, which leaves the graph alone.
LEMMA SearchStep ==
  ASSUME Inv, stack = <<>>,
         UNCHANGED <<input, roots, stack, graph>>,
         phase' \in {"visit", "done", "panic"},
         queue' \in Seq(vertices), seen' \in SUBSET vertices, adjacent' \in SUBSET vertices,
         jobs' \in SUBSET (vertices \X Parent), result' \in SUBSET vertices,
         failed' \in BOOLEAN,
         QueueInv', JobsInv', SearchInv'
  PROVE  Inv'
<1>1. /\ deps' = deps /\ impacted' = impacted /\ vertices' = vertices /\ edges' = edges
      /\ stack' = <<>>
  BY DEF input, graph
<1>2. TypeOK'
  BY <1>1 DEF Inv, TypeOK
<1>3. CollapseInv'
  <2>1. CallsOK(stack, vertices)' /\ Pending(stack, edges)'
    BY <1>1 DEF CallsOK, Pending
  <2>2. Trees(edges)'
    BY <1>1 DEF Inv, CollapseInv, Trees, Children, DependsOn
  <2> QED
    BY <1>1, <2>1, <2>2 DEF CollapseInv
<1> QED
  BY <1>2, <1>3 DEF Inv

LEMMA StartTraversalInv == Inv /\ StartTraversal => Inv'
<1> SUFFICES ASSUME Inv, StartTraversal PROVE Inv'
  OBVIOUS
<1>1. /\ queue = <<>> /\ seen = {} /\ jobs = {} /\ stack = <<>>
      /\ UNCHANGED <<input, roots, stack, graph, queue, seen, jobs, result, failed>>
      /\ phase' = "visit" /\ adjacent' = {v \in vertices : Predecessors(v) = {}}
  BY DEF StartTraversal, Inv, SearchInv
<1>2. QueueInv' /\ JobsInv'
  BY <1>1 DEF QueueInv, JobsInv
<1>3. SearchInv'
  BY <1>1 DEF SearchInv, ParentsVisitedFirst, Predecessors, graph
<1>4. /\ queue' \in Seq(vertices) /\ seen' \in SUBSET vertices
      /\ adjacent' \in SUBSET vertices /\ jobs' \in SUBSET (vertices \X Parent)
      /\ result' \in SUBSET vertices /\ failed' \in BOOLEAN
  BY <1>1 DEF Inv, TypeOK
<1> QED
  BY <1>1, <1>2, <1>3, <1>4, SearchStep

LEMMA DiscoverInv == Inv /\ Discover => Inv'
<1> SUFFICES ASSUME Inv, Discover PROVE Inv'
  OBVIOUS
<1>1. PICK v \in adjacent :
        /\ adjacent' = adjacent \ {v}
        /\ seen' = seen \cup {v}
        /\ queue' = IF v \in seen THEN queue ELSE Append(queue, v)
  BY DEF Discover
<1>2. /\ phase = "visit" /\ stack = <<>>
      /\ UNCHANGED <<input, phase, roots, stack, graph, jobs, result, failed>>
  BY DEF Discover, Inv, CollapseInv
<1>3. v \in vertices /\ queue \in Seq(vertices)
  BY DEF Inv, TypeOK
<1>4. /\ queue' \in Seq(vertices) /\ seen' \in SUBSET vertices
      /\ adjacent' \in SUBSET vertices /\ jobs' \in SUBSET (vertices \X Parent)
      /\ result' \in SUBSET vertices /\ failed' \in BOOLEAN
  BY <1>1, <1>2, <1>3 DEF Inv, TypeOK
<1>5. QueueInv' /\ JobsInv'
  <2>1. CASE v \in seen
    BY <1>1, <1>2, <2>1 DEF Inv, QueueInv, JobsInv, graph
  <2>2. CASE v \notin seen
    <3>1. /\ Len(queue) \in Nat /\ Len(queue') = Len(queue) + 1
          /\ queue'[Len(queue) + 1] = v
          /\ \A i \in 1..Len(queue) : queue'[i] = queue[i]
      BY <1>1, <1>3, <2>2
    <3>2. \A i \in 1..Len(queue') : i \in 1..Len(queue) \/ i = Len(queue) + 1
      BY <3>1
    <3>3. \A i \in 1..Len(queue) : queue[i] \in seen /\ queue[i] # v
      BY <2>2 DEF Inv, QueueInv
    <3>4. QueueInv'
      BY <1>1, <3>1, <3>2, <3>3 DEF Inv, QueueInv
    <3>5. JobsInv'
      <4>1. \A job \in jobs : \A i \in 1..Len(queue') : queue'[i] # job[1]
        BY <2>2, <3>1, <3>2 DEF Inv, JobsInv
      <4> QED
        BY <1>1, <1>2, <4>1 DEF Inv, JobsInv, graph
    <3> QED
      BY <3>4, <3>5
  <2> QED
    BY <2>1, <2>2
<1>6. SearchInv'
  BY <1>1, <1>2 DEF Inv, SearchInv, ParentsVisitedFirst, Predecessors, graph
<1>7. phase' \in {"visit", "done", "panic"}
  BY <1>2
<1> QED
  BY <1>2, <1>4, <1>5, <1>6, <1>7, SearchStep

LEMMA FinishInv == Inv /\ Finish => Inv'
<1> SUFFICES ASSUME Inv, Finish PROVE Inv'
  OBVIOUS
<1>1. /\ phase = "visit" /\ phase' = "done" /\ stack = <<>>
      /\ UNCHANGED <<input, roots, stack, graph, queue, seen, adjacent, jobs, result, failed>>
  BY DEF Finish, Inv, CollapseInv, search
<1>2. QueueInv' /\ JobsInv'
  BY <1>1 DEF Inv, QueueInv, JobsInv, graph
<1>3. SearchInv'
  BY <1>1 DEF Inv, SearchInv, ParentsVisitedFirst, Predecessors, graph
<1>4. /\ queue' \in Seq(vertices) /\ seen' \in SUBSET vertices
      /\ adjacent' \in SUBSET vertices /\ jobs' \in SUBSET (vertices \X Parent)
      /\ result' \in SUBSET vertices /\ failed' \in BOOLEAN
  BY <1>1 DEF Inv, TypeOK
<1> QED
  BY <1>1, <1>2, <1>3, <1>4, SearchStep

\* The first of the queue, and the rest of it.
LEMMA HeadFacts ==
  ASSUME NEW S, NEW s \in Seq(S), s # <<>>
  PROVE  /\ Len(s) \in Nat \ {0} /\ Head(s) \in S /\ Head(s) = s[1]
         /\ Tail(s) \in Seq(S) /\ Len(Tail(s)) = Len(s) - 1
         /\ \A i \in 1..Len(Tail(s)) : i + 1 \in 1..Len(s) /\ Tail(s)[i] = s[i + 1]
<1>1. Len(s) \in Nat \ {0} /\ Head(s) \in S /\ Head(s) = s[1]
  OBVIOUS
<1>2. Tail(s) \in Seq(S) /\ Len(Tail(s)) = Len(s) - 1
  OBVIOUS
<1>3. \A i \in 1..Len(Tail(s)) : i + 1 \in 1..Len(s) /\ Tail(s)[i] = s[i + 1]
  OBVIOUS
<1> QED
  BY <1>1, <1>2, <1>3

LEMMA VisitInv == Inv /\ Visit => Inv'
<1> SUFFICES ASSUME Inv, Visit PROVE Inv'
  OBVIOUS
<1>1. PICK v : v = Head(queue)
  OBVIOUS
<1>2. /\ phase = "visit" /\ stack = <<>> /\ queue \in Seq(vertices) /\ queue # <<>>
      /\ adjacent = {}
  BY DEF Visit, Inv, TypeOK, CollapseInv
<1>3. /\ VisitRoot(v) \/ VisitChild(v) \/ VisitFails(v) \/ VisitPanics(v)
      /\ adjacent' = {c \in vertices : <<v, c>> \in edges}
      /\ queue' = Tail(queue)
      /\ UNCHANGED <<input, roots, stack, graph, seen>>
  BY <1>1 DEF Visit
<1>4. /\ Len(queue) \in Nat \ {0} /\ v \in vertices /\ v = queue[1]
      /\ queue' \in Seq(vertices) /\ Len(queue') = Len(queue) - 1
      /\ \A i \in 1..Len(queue') : i + 1 \in 1..Len(queue) /\ queue'[i] = queue[i + 1]
  BY <1>1, <1>2, <1>3, HeadFacts
<1>5. /\ v \in seen
      /\ \A i \in 1..Len(queue') : queue'[i] \in seen /\ queue'[i] # v
      /\ \A job \in jobs : job[1] # v
  <2>1. 1 \in 1..Len(queue) /\ \A i \in 1..Len(queue') : i + 1 # 1
    BY <1>4
  <2> QED
    BY <1>4, <2>1 DEF Inv, QueueInv, JobsInv
<1>6. /\ v \in Projects /\ vertices \subseteq Projects
      /\ \A u, w \in Predecessors(v) : u = w
      /\ \A c \in adjacent' : Predecessors(c) = {v}
  <2>1. vertices \subseteq Projects
    BY DEF Inv, TypeOK
  <2> QED
    BY <1>3, <1>4, <2>1 DEF Inv, CollapseInv, Trees, Predecessors
<1>single. /\ {<<v, NoParent>>} \in SUBSET (Linked(v, Predecessors(v)) \cup {<<v, NoParent>>})
      /\ \A j, k \in {<<v, NoParent>>} : j = k
  OBVIOUS
<1>7. PICK N \in SUBSET (Linked(v, Predecessors(v)) \cup {<<v, NoParent>>}) :
        jobs' = jobs \cup N /\ \A j, k \in N : j = k
  <2>1. CASE VisitRoot(v)
    <3>1. jobs' = jobs \cup {<<v, NoParent>>}
      BY <2>1 DEF VisitRoot
    <3> QED
      BY <3>1, <1>single
  <2>2. CASE VisitChild(v)
    <3>1. jobs' = jobs \cup Linked(v, Predecessors(v))
      BY <2>2 DEF VisitChild
    <3>2. \A j, k \in Linked(v, Predecessors(v)) : j = k
      BY <1>6 DEF Linked
    <3> QED
      BY <3>1, <3>2
  <2>3. CASE VisitFails(v)
    <3>1. PICK S \in SUBSET Predecessors(v), unlinked \in {{}, {<<v, NoParent>>}} :
            /\ Predecessors(v) # {} => S # Predecessors(v)
            /\ jobs' = jobs \cup Linked(v, S) \cup unlinked
      BY <2>3 DEF VisitFails
    <3>2. S = {}
      BY <1>6, <3>1
    <3>3. Linked(v, S) = {}
      BY <3>2 DEF Linked
    <3>4. jobs' = jobs \cup unlinked
      BY <3>1, <3>3
    <3> QED
      BY <3>4
  <2>4. CASE VisitPanics(v)
    <3>1. PICK S \in SUBSET (Predecessors(v) \cap result) :
            jobs' = jobs \cup Linked(v, S) \cup {<<v, NoParent>>}
      BY <2>4 DEF VisitPanics
    <3>2. S = {}
      BY <1>6, <2>4, <3>1 DEF VisitPanics
    <3>3. Linked(v, S) = {}
      BY <3>2 DEF Linked
    <3>4. jobs' = jobs \cup {<<v, NoParent>>}
      BY <3>1, <3>3
    <3> QED
      BY <3>4, <1>single
  <2> QED
    BY <1>3, <2>1, <2>2, <2>3, <2>4
<1>8. \A j \in N : /\ j \in vertices \X Parent /\ j[1] = v
                   /\ j[2] # NoParent => <<j[2], j[1]>> \in edges
  <2> SUFFICES ASSUME NEW j \in N
               PROVE  /\ j \in vertices \X Parent /\ j[1] = v
                      /\ j[2] # NoParent => <<j[2], j[1]>> \in edges
    OBVIOUS
  <2>1. j = <<v, NoParent>> \/ \E u \in Predecessors(v) : j = <<v, u>>
    BY <1>7 DEF Linked
  <2>2. CASE j = <<v, NoParent>>
    BY <1>4, <2>2 DEF Parent
  <2>3. ASSUME NEW u \in Predecessors(v), j = <<v, u>>
        PROVE  /\ j \in vertices \X Parent /\ j[1] = v
               /\ j[2] # NoParent => <<j[2], j[1]>> \in edges
    <3>1. u \in vertices /\ u \in Parent /\ <<u, v>> \in edges
      BY <1>6, <2>3 DEF Predecessors, Parent
    <3> QED
      BY <1>4, <2>3, <3>1
  <2> QED
    BY <2>1, <2>2, <2>3
<1>9. /\ result' \in SUBSET vertices /\ result \subseteq result' /\ failed' \in BOOLEAN
      /\ failed => failed'
      /\ phase' \in {"visit", "panic"} /\ (phase' = "panic" => failed')
      /\ ~failed' => ~failed /\ v \in result'
  <2>1. result \in SUBSET vertices /\ failed \in BOOLEAN
    BY DEF Inv, TypeOK
  <2>2. CASE VisitRoot(v)
    BY <1>2, <1>4, <2>1, <2>2 DEF VisitRoot
  <2>3. CASE VisitChild(v)
    BY <1>2, <1>4, <2>1, <2>3 DEF VisitChild
  <2>4. CASE VisitFails(v)
    BY <1>2, <1>4, <2>1, <2>4 DEF VisitFails
  <2>5. CASE VisitPanics(v)
    <3>1. failed
      BY <1>5, <2>1, <2>5 DEF VisitPanics, Inv, SearchInv
    <3> QED
      BY <2>1, <2>5, <3>1 DEF VisitPanics
  <2> QED
    BY <1>3, <2>2, <2>3, <2>4, <2>5
<1>10. /\ seen' \in SUBSET vertices /\ adjacent' \in SUBSET vertices
       /\ jobs' \in SUBSET (vertices \X Parent)
  BY <1>3, <1>7, <1>8 DEF Inv, TypeOK
<1>11. QueueInv'
  <2>1. \A i, j \in 1..Len(queue') : queue'[i] = queue'[j] => i = j
    <3> SUFFICES ASSUME NEW i \in 1..Len(queue'), NEW j \in 1..Len(queue'),
                        queue'[i] = queue'[j]
                 PROVE  i = j
      OBVIOUS
    <3>1. i + 1 = j + 1
      BY <1>4 DEF Inv, QueueInv
    <3> QED
      BY <1>4, <3>1
  <2> QED
    BY <1>3, <1>5, <2>1 DEF QueueInv
<1>12. JobsInv'
  <2>1. \A job \in jobs :
          /\ job[1] \in seen /\ job[1] # v
          /\ \A i \in 1..Len(queue') : queue'[i] # job[1]
          /\ job[2] # NoParent => <<job[2], job[1]>> \in edges
    BY <1>4, <1>5 DEF Inv, JobsInv
  <2>2. \A j, k \in jobs' : j[1] = k[1] => j = k
    BY <1>7, <1>8, <2>1 DEF Inv, JobsInv
  <2>3. seen' = seen /\ edges' = edges
    BY <1>3 DEF graph
  <2>4. \A job \in jobs' :
          /\ job[1] \in seen
          /\ \A i \in 1..Len(queue') : queue'[i] # job[1]
          /\ job[2] # NoParent => <<job[2], job[1]>> \in edges
    BY <1>5, <1>7, <1>8, <2>1
  <2> QED
    BY <2>2, <2>3, <2>4 DEF JobsInv
<1>13. SearchInv'
  <2>1. \A c : Predecessors(c)' = Predecessors(c)
    BY <1>3 DEF Predecessors, graph
  <2>2. ASSUME ~failed' PROVE \A c \in seen \cup adjacent' : Predecessors(c) \subseteq result'
    BY <1>6, <1>9, <2>2 DEF Inv, SearchInv
  <2> QED
    BY <1>3, <1>9, <2>1, <2>2 DEF SearchInv, ParentsVisitedFirst
<1>14. phase' \in {"visit", "done", "panic"}
  BY <1>9
<1> QED
  BY <1>2, <1>3, <1>4, <1>9, <1>10, <1>11, <1>12, <1>13, <1>14, SearchStep

LEMMA StutterInv == Inv /\ UNCHANGED vars => Inv'
<1> SUFFICES ASSUME Inv, UNCHANGED vars PROVE Inv'
  OBVIOUS
<1> USE DEF vars, input, graph, search
<1>1. TypeOK'
  BY DEF Inv, TypeOK
<1>2. CollapseInv'
  BY DEF Inv, CollapseInv, CallsOK, Pending, Trees, Children, DependsOn
<1>3. QueueInv' /\ JobsInv'
  BY DEF Inv, QueueInv, JobsInv
<1>4. SearchInv'
  BY DEF Inv, SearchInv, ParentsVisitedFirst, Predecessors
<1> QED
  BY <1>1, <1>2, <1>3, <1>4 DEF Inv

\* Every step keeps the invariant.
LEMMA InvStep == Inv /\ [Next]_vars => Inv'
BY CollapseRootInv, CollapseChildInv, CollapseReturnInv, StartTraversalInv, DiscoverInv,
   VisitInv, FinishInv, StutterInv DEF Next

-----------------------------------------------------------------------------
(* Every impacted project is reached                                       *)

\* The configuration has no cycle of dependencies (graph.PreventCycles, in
\* CreateProjectDependencyGraph): projects can be numbered so that each comes
\* after those it depends on.
Ranks(g, rank) ==
  rank \in [Projects -> Nat] /\ \A d, p \in Projects : <<d, p>> \in g => rank[d] < rank[p]

Acyclic == \A g \in Graphs : \E rank : Ranks(g, rank)

\* A set that has what is left to call, and the children of its members that
\* are not in the graph yet, has every impacted project still missing there.
CallsLeft(S) == roots \subseteq S /\ \A i \in 1..Len(stack) : stack[i].todo \subseteq S
Closed(S) == \A x \in S \ vertices : Children(x) \subseteq S

Reach ==
  /\ phase = "collapse" => \A S \in SUBSET Projects :
       CallsLeft(S) /\ Closed(S) => impacted \ vertices \subseteq S
  /\ phase # "collapse" => vertices = impacted

\* A visited project has its job and its links, and its neighbours are seen or
\* about to be.
Visited(v) == v \in seen /\ \A i \in 1..Len(queue) : queue[i] # v

Given(v) ==
  IF Predecessors(v) = {} THEN <<v, NoParent>> \in jobs
  ELSE \A u \in Predecessors(v) : <<v, u>> \in jobs

Cover ==
  phase \in {"visit", "done"} =>
    /\ \A v \in vertices : Predecessors(v) = {} => v \in seen \cup adjacent
    /\ \A v, c \in vertices : Visited(v) /\ <<v, c>> \in edges => c \in seen \cup adjacent
    /\ ~failed => \A v \in vertices : Visited(v) => Given(v)
    /\ phase = "done" => queue = <<>> /\ adjacent = {}

\* A set of projects that is not empty has one of the lowest rank.
LEMMA LowestRank ==
  ASSUME NEW rank \in [Projects -> Nat], NEW S \in SUBSET Projects, S # {}
  PROVE  \E p \in S : \A q \in S : rank[p] <= rank[q]
<1> DEFINE places == {rank[p] : p \in S}
<1>1. places \subseteq Nat /\ places # {}
  OBVIOUS
<1>2. PICK n \in places : \A m \in places : ~ (<<m, n>> \in OpToRel(<, Nat))
  <2> HIDE DEF places
  <2> QED
    BY <1>1, WFMin, NatLessThanWellFounded, Zenon
<1>3. PICK p \in S : rank[p] = n
  OBVIOUS
<1>4. \A q \in S : rank[p] <= rank[q]
  <2> TAKE q \in S
  <2>1. rank[q] \in places /\ rank[q] \in Nat /\ rank[p] \in Nat
    OBVIOUS
  <2>2. ~ (rank[q] < rank[p])
    BY <1>2, <1>3, <2>1 DEF OpToRel
  <2> QED
    BY <2>1, <2>2
<1> QED
  BY <1>4

\* A project comes after those it depends on.
LEMMA DependencyRank ==
  ASSUME NEW rank, Ranks(deps, rank), NEW u \in Projects, NEW v \in Projects, DependsOn(v, u)
  PROVE  rank[u] < rank[v]
<1> DEFINE S == {x \in Projects : rank[u] < rank[x]}
<1>1. Children(u) \subseteq S
  BY DEF Children, Ranks
<1>2. \A x \in S : Children(x) \subseteq S
  BY DEF Children, Ranks
<1>3. S \in SUBSET Projects
  OBVIOUS
<1> HIDE DEF S
<1>4. v \in S
  BY <1>1, <1>2, <1>3 DEF DependsOn
<1> QED
  BY <1>4 DEF S

\* At the start the roots reach every impacted project.
LEMMA InitReach == Acyclic /\ Init => Reach
<1> SUFFICES ASSUME Acyclic, Init, NEW S \in SUBSET Projects, CallsLeft(S), Closed(S),
                    Projects \ S # {}
             PROVE  FALSE
  BY DEF Reach, Init
<1>1. PICK rank : Ranks(deps, rank)
  BY DEF Acyclic, Init
<1>2. PICK p \in Projects \ S : \A q \in Projects \ S : rank[p] <= rank[q]
  BY <1>1, LowestRank DEF Ranks
<1>3. PICK d \in Projects : <<d, p>> \in deps
  BY <1>2 DEF Init, CallsLeft
<1>4. rank[d] < rank[p] /\ rank[d] \in Nat /\ rank[p] \in Nat
  BY <1>1, <1>2, <1>3 DEF Ranks
<1>5. d \in S
  BY <1>2, <1>3, <1>4
<1>6. p \in Children(d) /\ d \notin vertices
  BY <1>2, <1>3 DEF Children, Init
<1> QED
  BY <1>2, <1>5, <1>6 DEF Closed

\* A call of CollapsedGraph: what was left before it is left after it, but for
\* its project.
LEMMA CallReach ==
  ASSUME Reach, phase = "collapse", phase' = phase, UNCHANGED input,
         vertices \subseteq impacted,
         NEW calls \in Seq(Calls), NEW n \in Projects, NEW p \in Parent, Call(calls, n, p),
         roots \subseteq roots' \cup {n},
         Len(calls) = Len(stack),
         \A i \in 1..Len(stack) : stack[i].todo \subseteq calls[i].todo \cup {n}
  PROVE  Reach'
<1> SUFFICES ASSUME NEW S \in SUBSET Projects, CallsLeft(S)', Closed(S)'
             PROVE  (impacted \ vertices)' \subseteq S
  BY DEF Reach
<1> DEFINE T == S \cup {n}
<1>1. deps' = deps /\ impacted' = impacted
  BY DEF input
<1>2. vertices \subseteq vertices' /\ (n \in impacted => n \in vertices')
  BY DEF Call
<1>3. \A x : Children(x)' = Children(x)
  BY <1>1 DEF Children
<1>4. /\ \A i \in 1..Len(calls) : calls[i].todo \subseteq S
      /\ n \notin vertices => Children(n) \subseteq S
  <2>1. CASE n \in impacted /\ n \in vertices
    BY <2>1 DEF Call, CallsLeft
  <2>2. CASE ~ (n \in impacted /\ n \in vertices)
    <3> DEFINE call == [node |-> n, parent |-> p, todo |-> Children(n)]
    <3>1. stack' = Append(calls, call) /\ call \in Calls
      BY <2>2 DEF Call, Calls, Children
    <3>2. /\ Len(calls) \in Nat /\ Len(stack') = Len(calls) + 1
          /\ stack'[Len(calls) + 1] = call
          /\ \A i \in 1..Len(calls) : stack'[i] = calls[i]
      BY <3>1
    <3>3. Len(calls) + 1 \in 1..Len(stack') /\ \A i \in 1..Len(calls) : i \in 1..Len(stack')
      BY <3>2
    <3>4. \A i \in 1..Len(stack') : stack'[i].todo \subseteq S
      BY DEF CallsLeft
    <3>5. call.todo = Children(n)
      OBVIOUS
    <3> QED
      BY <3>2, <3>3, <3>4, <3>5
  <2> QED
    BY <2>1, <2>2
<1>5. CallsLeft(T)
  BY <1>4 DEF CallsLeft
<1>6. Closed(T)
  <2> SUFFICES ASSUME NEW x \in T \ vertices PROVE Children(x) \subseteq S
    BY DEF Closed
  <2>1. CASE x = n
    BY <1>4, <2>1
  <2>2. CASE x # n
    <3>1. x \in S \ vertices'
      BY <2>2 DEF Call
    <3> QED
      BY <1>3, <3>1 DEF Closed
  <2> QED
    BY <2>1, <2>2
<1>7. impacted \ vertices \subseteq T
  <2>1. T \in SUBSET Projects
    OBVIOUS
  <2> QED
    BY <1>5, <1>6, <2>1 DEF Reach
<1> QED
  BY <1>1, <1>2, <1>7

\* Every step keeps it.
LEMMA ReachStep == Inv /\ Reach /\ [Next]_vars => Reach'
<1> SUFFICES ASSUME Inv, Reach, [Next]_vars PROVE Reach'
  OBVIOUS
<1>1. TypeOK /\ vertices \subseteq impacted /\ stack \in Seq(Calls)
  BY DEF Inv, TypeOK
<1>2. CASE CollapseRoot
  <2>1. PICK r \in roots : roots' = roots \ {r} /\ Call(stack, r, NoParent)
    BY <1>2 DEF CollapseRoot
  <2>2. /\ phase = "collapse" /\ phase' = phase /\ UNCHANGED input
        /\ r \in Projects /\ NoParent \in Parent
    BY <1>1, <1>2 DEF CollapseRoot, TypeOK, Parent
  <2>3. roots \subseteq roots' \cup {r}
    BY <2>1
  <2> QED
    BY <1>1, <2>1, <2>2, <2>3, CallReach
<1>3. CASE CollapseChild
  <2> DEFINE calls(c) == Append(Pop, [Top EXCEPT !.todo = @ \ {c}])
  <2>1. PICK c \in Top.todo : Call(calls(c), c, ParentOfChildren(Top))
    BY <1>3 DEF CollapseChild
  <2>2. /\ stack # <<>> /\ phase = "collapse" /\ phase' = phase
        /\ UNCHANGED input /\ roots' = roots
    BY <1>3 DEF CollapseChild, Inv, CollapseInv
  <2>3. /\ calls(c) \in Seq(Calls) /\ Len(calls(c)) = Len(stack)
        /\ \A i \in 1..Len(stack) : stack[i].todo \subseteq calls(c)[i].todo \cup {c}
    BY <1>1, <2>1, <2>2, NextChild
  <2>4. c \in Projects /\ ParentOfChildren(Top) \in Parent
    <3>1. Top \in Calls
      BY <1>1, <2>2, PopFacts
    <3> QED
      BY <2>1, <3>1 DEF Calls, ParentOfChildren, Parent
  <2> HIDE DEF calls
  <2> QED
    BY <1>1, <2>1, <2>2, <2>3, <2>4, CallReach
<1>4. CASE CollapseReturn
  <2>1. /\ stack # <<>> /\ phase = "collapse" /\ Top.todo = {}
        /\ stack' = Pop /\ UNCHANGED <<input, phase, roots, vertices>>
    BY <1>4 DEF CollapseReturn, Inv, CollapseInv
  <2>2. /\ Len(stack) \in Nat \ {0} /\ Len(Pop) = Len(stack) - 1
        /\ \A i \in 1..Len(Pop) : Pop[i] = stack[i]
    BY <1>1, <2>1, PopFacts
  <2>3. \A i \in 1..Len(stack) : i \in 1..Len(Pop) \/ i = Len(stack)
    BY <2>2
  <2>4. \A S : CallsLeft(S)' => CallsLeft(S)
    BY <2>1, <2>2, <2>3 DEF CallsLeft, Top
  <2>5. \A S : Closed(S)' => Closed(S)
    BY <2>1 DEF Closed, Children, input
  <2> QED
    BY <2>1, <2>4, <2>5 DEF Reach, input
<1>5. CASE StartTraversal
  <2>1. /\ phase = "collapse" /\ stack = <<>> /\ roots = {} /\ phase' = "visit"
        /\ UNCHANGED <<input, graph>>
    BY <1>5 DEF StartTraversal
  <2>2. CallsLeft({}) /\ Closed({})
    BY <2>1 DEF CallsLeft, Closed
  <2>3. impacted \ vertices \subseteq {}
    BY <2>1, <2>2 DEF Reach
  <2> QED
    BY <1>1, <2>1, <2>3 DEF Reach, input, graph
<1>6. CASE Discover \/ Visit \/ Finish
  <2>1. phase = "visit" /\ phase' # "collapse" /\ UNCHANGED <<input, graph>>
    BY <1>6 DEF Discover, Visit, Finish, VisitRoot, VisitChild, VisitFails, VisitPanics
  <2> QED
    BY <2>1 DEF Reach, input, graph
<1>7. CASE UNCHANGED vars
  BY <1>7 DEF vars, input, graph, Reach, CallsLeft, Closed, Children
<1> QED
  BY <1>2, <1>3, <1>4, <1>5, <1>6, <1>7 DEF Next

\* Every step keeps the cover of the visit.
LEMMA CoverStep == Inv /\ Cover /\ [Next]_vars => Cover'
<1> SUFFICES ASSUME Inv, Cover, [Next]_vars, phase' \in {"visit", "done"} PROVE Cover'
  BY DEF Cover
<1>1. CASE CollapseRoot \/ CollapseChild \/ CollapseReturn
  BY <1>1 DEF CollapseRoot, CollapseChild, CollapseReturn, Inv, CollapseInv
<1>2. CASE StartTraversal
  <2>1. /\ seen' = {} /\ phase' = "visit" /\ UNCHANGED graph
        /\ adjacent' = {v \in vertices : Predecessors(v) = {}}
    BY <1>2 DEF StartTraversal, Inv, SearchInv
  <2> QED
    BY <2>1 DEF Cover, Visited, Predecessors, graph
<1>3. CASE Discover
  <2>1. PICK v \in adjacent :
          /\ adjacent' = adjacent \ {v}
          /\ seen' = seen \cup {v}
          /\ queue' = IF v \in seen THEN queue ELSE Append(queue, v)
    BY <1>3 DEF Discover
  <2>2. phase = "visit" /\ phase' = "visit" /\ UNCHANGED <<graph, jobs, failed>>
    BY <1>3 DEF Discover
  <2>3. \A x : Visited(x)' => Visited(x)
    <3>1. CASE v \in seen
      BY <2>1, <3>1 DEF Visited
    <3>2. CASE v \notin seen
      <4>1. v \in vertices /\ queue \in Seq(vertices) /\ queue' = Append(queue, v)
        BY <2>1, <3>2 DEF Inv, TypeOK
      <4>2. /\ Len(queue) \in Nat /\ Len(queue') = Len(queue) + 1
            /\ queue'[Len(queue) + 1] = v
            /\ \A i \in 1..Len(queue) : queue'[i] = queue[i]
        BY <4>1
      <4>3. Len(queue) + 1 \in 1..Len(queue') /\ \A i \in 1..Len(queue) : i \in 1..Len(queue')
        BY <4>2
      <4> QED
        BY <2>1, <4>2, <4>3 DEF Visited
    <3> QED
      BY <3>1, <3>2
  <2>4. seen \cup adjacent \subseteq seen' \cup adjacent'
    BY <2>1
  <2>5. \A x : Predecessors(x)' = Predecessors(x) /\ (Given(x) => Given(x)')
    BY <2>2 DEF Predecessors, Given, graph
  <2> QED
    BY <2>2, <2>3, <2>4, <2>5 DEF Cover, graph
<1>4. CASE Visit
  <2>1. PICK v : v = Head(queue)
    OBVIOUS
  <2>2. /\ phase = "visit" /\ adjacent = {} /\ queue # <<>>
        /\ VisitRoot(v) \/ VisitChild(v) \/ VisitFails(v) \/ VisitPanics(v)
        /\ adjacent' = {c \in vertices : <<v, c>> \in edges}
        /\ queue' = Tail(queue) /\ UNCHANGED <<graph, seen>>
    BY <1>4, <2>1 DEF Visit
  <2>3. /\ v \in vertices /\ v = queue[1] /\ Len(queue) \in Nat \ {0}
        /\ Len(queue') = Len(queue) - 1
        /\ \A i \in 1..Len(queue') : i + 1 \in 1..Len(queue) /\ queue'[i] = queue[i + 1]
    BY <2>1, <2>2, HeadFacts DEF Inv, TypeOK
  <2>4. \A x : Visited(x)' => x = v \/ Visited(x)
    <3> SUFFICES ASSUME NEW x, Visited(x)', x # v, NEW i \in 1..Len(queue) PROVE queue[i] # x
      BY <2>2 DEF Visited
    <3>1. CASE i = 1
      BY <2>3, <3>1
    <3>2. CASE i # 1
      <4>1. i - 1 \in 1..Len(queue') /\ (i - 1) + 1 = i
        BY <2>3, <3>2
      <4> QED
        BY <2>3, <4>1 DEF Visited
    <3> QED
      BY <3>1, <3>2
  <2>5. ~failed' => ~failed /\ (VisitRoot(v) \/ VisitChild(v))
    BY <2>2 DEF VisitRoot, VisitChild, VisitFails, VisitPanics
  <2>6. ~failed' => /\ jobs \subseteq jobs'
                    /\ Predecessors(v) = {} => <<v, NoParent>> \in jobs'
                    /\ \A u \in Predecessors(v) : <<v, u>> \in jobs'
    BY <2>5 DEF VisitRoot, VisitChild, Linked
  <2>7. \A x : Predecessors(x)' = Predecessors(x)
    BY <2>2 DEF Predecessors, graph
  <2>8. ~failed' => \A x \in vertices : Visited(x)' => Given(x)'
    BY <2>2, <2>4, <2>5, <2>6, <2>7 DEF Cover, Given
  <2>9. phase' # "done"
    BY <2>2 DEF VisitRoot, VisitChild, VisitFails, VisitPanics
  <2> QED
    BY <2>2, <2>4, <2>7, <2>8, <2>9 DEF Cover, graph
<1>5. CASE Finish
  BY <1>5 DEF Finish, Cover, Visited, Given, Predecessors, graph, search
<1>6. CASE UNCHANGED vars
  BY <1>6 DEF vars, Cover, Visited, Given, Predecessors, graph, search
<1> QED
  BY <1>1, <1>2, <1>3, <1>4, <1>5, <1>6 DEF Next

\* At the end every impacted project was visited: one that was not, of the
\* lowest rank, would have a predecessor that was, or be a root.
LEMMA AllVisited ==
  ASSUME Inv, Reach, Cover, phase = "done", NEW rank, Ranks(deps, rank)
  PROVE  \A v \in impacted : v \in vertices /\ Visited(v)
<1>1. /\ vertices = impacted /\ queue = <<>> /\ adjacent = {} /\ seen \subseteq vertices
      /\ impacted \subseteq Projects
  BY DEF Inv, TypeOK, Reach, Cover
<1>2. \A v \in seen : Visited(v)
  BY <1>1 DEF Visited
<1>3. ASSUME impacted \ seen # {} PROVE FALSE
  <2>1. PICK v \in impacted \ seen : \A w \in impacted \ seen : rank[v] <= rank[w]
    BY <1>1, <1>3, LowestRank DEF Ranks
  <2>2. PICK u \in Predecessors(v) : TRUE
    BY <1>1, <2>1 DEF Cover
  <2>3. u \in vertices /\ <<u, v>> \in edges
    BY <2>2 DEF Predecessors
  <2>4. DependsOn(v, u)
    BY <1>1, <2>1, <2>3 DEF Inv, CollapseInv, Trees
  <2>5. rank[u] < rank[v]
    BY <1>1, <2>1, <2>3, <2>4, DependencyRank
  <2>6. rank[u] \in Nat /\ rank[v] \in Nat
    BY <1>1, <2>1, <2>3 DEF Ranks
  <2>7. u \in seen
    BY <1>1, <2>1, <2>3, <2>5, <2>6
  <2> QED
    BY <1>1, <1>2, <2>1, <2>3, <2>7 DEF Cover
<1> QED
  BY <1>1, <1>2, <1>3

-----------------------------------------------------------------------------
(* Trees are kept                                                          *)

\* No project depends on two others.
OneDependency == \A p, d, e \in Projects : <<d, p>> \in deps /\ <<e, p>> \in deps => d = e

\* The parent that a call hands on is the one its project depends on, and a
\* vertex has its edge or a call that will add it.
Linking(s, V, E) ==
  /\ \A i \in 1..Len(s), u \in impacted : DependsOn(s[i].node, u) => s[i].parent = u
  /\ \A v \in V, u \in impacted : DependsOn(v, u) =>
       \/ <<u, v>> \in E
       \/ \E i \in 1..Len(s) : s[i].node = v /\ s[i].parent = u

\* Where that is so, the links of the collapse are complete.
Kept ==
  OneDependency =>
    /\ \A r \in roots, d \in Projects : <<d, r>> \notin deps
    /\ Linking(stack, vertices, edges)

\* A dependency has a last step.
LEMMA LastDependency ==
  ASSUME NEW u \in Projects, NEW v \in Projects, DependsOn(v, u)
  PROVE  \E d \in Projects : <<d, v>> \in deps /\ (d = u \/ (d \notin impacted /\ DependsOn(d, u)))
<1> DEFINE S == Children(u) \cup {x \in Projects : \E d \in Projects \ impacted :
                                     DependsOn(d, u) /\ x \in Children(d)}
<1>1. S \in SUBSET Projects
  BY DEF Children
<1>2. \A x \in S \ impacted : DependsOn(x, u)
  <2> SUFFICES ASSUME NEW x \in S \ impacted PROVE DependsOn(x, u)
    OBVIOUS
  <2>1. CASE x \in Children(u)
    BY <2>1, DirectDependency
  <2>2. ASSUME NEW d \in Projects \ impacted, DependsOn(d, u), x \in Children(d)
        PROVE  DependsOn(x, u)
    BY <2>2, NextDependency
  <2> QED
    BY <2>1, <2>2
<1>3. \A x \in S \ impacted : Children(x) \subseteq S
  BY <1>1, <1>2 DEF Children
<1>4. Children(u) \subseteq S
  OBVIOUS
<1> HIDE DEF S
<1>5. v \in S
  BY <1>1, <1>3, <1>4 DEF DependsOn
<1> QED
  BY <1>5 DEF S, Children

\* A call of CollapsedGraph with the parent its project depends on.
LEMMA CallLinks ==
  ASSUME NEW calls \in Seq(Calls), NEW n \in Projects, NEW p \in Parent,
         Linking(calls, vertices, edges), Call(calls, n, p),
         \A u \in impacted : DependsOn(n, u) => p = u
  PROVE  Linking(stack', vertices', edges')
<1>1. edges' = edges
  BY DEF Call
<1>2. CASE n \in impacted /\ n \in vertices
  BY <1>1, <1>2 DEF Call
<1>3. CASE ~ (n \in impacted /\ n \in vertices)
  <2> DEFINE call == [node |-> n, parent |-> p, todo |-> Children(n)]
  <2>1. /\ stack' = Append(calls, call) /\ call \in Calls
        /\ vertices' = vertices \cup ({n} \cap impacted)
    BY <1>3 DEF Call, Calls, Children
  <2>2. call.node = n /\ call.parent = p
    OBVIOUS
  <2> HIDE DEF call
  <2>3. /\ Len(calls) \in Nat /\ Len(stack') = Len(calls) + 1
        /\ stack'[Len(calls) + 1] = call
        /\ \A i \in 1..Len(calls) : stack'[i] = calls[i]
    BY <2>1
  <2>4. /\ Len(calls) + 1 \in 1..Len(stack') /\ \A i \in 1..Len(calls) : i \in 1..Len(stack')
        /\ \A i \in 1..Len(stack') : i \in 1..Len(calls) \/ i = Len(calls) + 1
    BY <2>3
  <2>5. \A i \in 1..Len(stack'), u \in impacted :
          DependsOn(stack'[i].node, u) => stack'[i].parent = u
    BY <2>2, <2>3, <2>4 DEF Linking
  <2>6. ASSUME NEW v \in vertices', NEW u \in impacted, DependsOn(v, u)
        PROVE  \/ <<u, v>> \in edges
               \/ \E i \in 1..Len(stack') : stack'[i].node = v /\ stack'[i].parent = u
    <3>1. CASE v \in vertices
      BY <2>3, <2>4, <2>6, <3>1 DEF Linking
    <3>2. CASE v = n
      BY <2>2, <2>3, <2>4, <2>6, <3>2
    <3> QED
      BY <2>1, <3>1, <3>2
  <2> QED
    BY <1>1, <2>5, <2>6 DEF Linking
<1> QED
  BY <1>2, <1>3

\* Every step keeps it.
LEMMA KeptStep == Inv /\ Kept /\ [Next]_vars => Kept'
<1> SUFFICES ASSUME Inv, Kept, [Next]_vars, OneDependency' PROVE Kept'
  BY DEF Kept
<1>1. deps' = deps /\ impacted' = impacted
  BY DEF Next, CollapseRoot, CollapseChild, CollapseReturn, StartTraversal, Discover, Visit,
     Finish, vars, input
<1>2. /\ \A u, v \in Projects : DependsOn(v, u)' = DependsOn(v, u)
      /\ OneDependency
  BY <1>1 DEF DependsOn, Children, OneDependency
<1>3. /\ stack \in Seq(Calls) /\ vertices \subseteq Projects /\ roots \subseteq Projects
      /\ impacted \subseteq Projects
      /\ \A r \in roots, d \in Projects : <<d, r>> \notin deps
      /\ Linking(stack, vertices, edges)
  BY <1>2 DEF Inv, TypeOK, Kept
<1>4. SUFFICES ASSUME TRUE
               PROVE  roots' \subseteq roots /\ Linking(stack', vertices', edges')
  BY <1>1, <1>3 DEF Kept, Linking, DependsOn, Children
<1>5. CASE CollapseRoot
  <2>1. PICK r \in roots : roots' = roots \ {r} /\ Call(stack, r, NoParent)
    BY <1>5 DEF CollapseRoot
  <2>2. \A u \in impacted : ~DependsOn(r, u)
    BY <1>3, LastDependency
  <2>3. Linking(stack', vertices', edges')
    BY <1>3, <2>1, <2>2, CallLinks DEF Parent
  <2> QED
    BY <2>1, <2>3
<1>6. CASE CollapseChild
  <2> DEFINE calls(c) == Append(Pop, [Top EXCEPT !.todo = @ \ {c}])
  <2>1. PICK c \in Top.todo : Call(calls(c), c, ParentOfChildren(Top))
    BY <1>6 DEF CollapseChild
  <2>2. stack # <<>> /\ roots' = roots
    BY <1>6 DEF CollapseChild
  <2>3. /\ calls(c) \in Seq(Calls) /\ Len(calls(c)) = Len(stack)
        /\ \A i \in 1..Len(stack) :
             calls(c)[i].node = stack[i].node /\ calls(c)[i].parent = stack[i].parent
    BY <1>3, <2>1, <2>2, NextChild
  <2> HIDE DEF calls
  <2>4. Linking(calls(c), vertices, edges)
    <3>1. PICK taken \in Seq(Calls) : taken = calls(c)
      BY <2>3
    <3>2. /\ Len(taken) = Len(stack)
          /\ \A i \in 1..Len(stack) :
               taken[i].node = stack[i].node /\ taken[i].parent = stack[i].parent
      BY <2>3, <3>1
    <3>3. Linking(taken, vertices, edges)
      BY <1>3, <3>2 DEF Linking
    <3> QED
      BY <3>1, <3>3
  <2>5. /\ Top.node \in Projects /\ Top.parent \in Parent
        /\ c \in Projects /\ <<Top.node, c>> \in deps
        /\ \A u \in impacted : DependsOn(Top.node, u) => Top.parent = u
    <3>1. Len(stack) \in 1..Len(stack) /\ Top \in Calls /\ Top = stack[Len(stack)]
      BY <1>3, <2>2, PopFacts DEF Top
    <3>2. Top.todo \subseteq Children(Top.node)
      BY <3>1 DEF Inv, CollapseInv, CallsOK
    <3> QED
      BY <1>3, <2>1, <3>1, <3>2 DEF Calls, Children, Linking
  <2>6. ASSUME NEW u \in impacted, DependsOn(c, u) PROVE ParentOfChildren(Top) = u
    <3>1. PICK d \in Projects : <<d, c>> \in deps /\ (d = u \/ (d \notin impacted /\ DependsOn(d, u)))
      BY <1>3, <2>5, <2>6, LastDependency
    <3>2. d = Top.node
      BY <1>2, <2>5, <3>1 DEF OneDependency
    <3> QED
      BY <2>5, <3>1, <3>2 DEF ParentOfChildren
  <2>7. ParentOfChildren(Top) \in Parent
    BY <2>5 DEF ParentOfChildren, Parent
  <2>8. Linking(stack', vertices', edges')
    BY <2>1, <2>3, <2>4, <2>5, <2>6, <2>7, CallLinks
  <2> QED
    BY <2>2, <2>8
<1>7. CASE CollapseReturn
  <2>1. /\ stack # <<>> /\ stack' = Pop /\ vertices' = vertices /\ roots' = roots
        /\ edges' = edges \cup (IF Top.node \in impacted /\ Top.parent # NoParent
                                THEN {<<Top.parent, Top.node>>} ELSE {})
    BY <1>7 DEF CollapseReturn
  <2>2. /\ Len(stack) \in Nat \ {0} /\ Len(Pop) = Len(stack) - 1
        /\ \A i \in 1..Len(Pop) : Pop[i] = stack[i]
    BY <1>3, <2>1, PopFacts
  <2>3. /\ \A i \in 1..Len(stack) : i \in 1..Len(Pop) \/ i = Len(stack)
        /\ \A i \in 1..Len(Pop) : i \in 1..Len(stack)
        /\ Top = stack[Len(stack)]
    BY <2>2 DEF Top
  <2>4. \A i \in 1..Len(Pop), u \in impacted : DependsOn(Pop[i].node, u) => Pop[i].parent = u
    BY <1>3, <2>2, <2>3 DEF Linking
  <2>5. ASSUME NEW v \in vertices, NEW u \in impacted, DependsOn(v, u)
        PROVE  \/ <<u, v>> \in edges'
               \/ \E i \in 1..Len(Pop) : Pop[i].node = v /\ Pop[i].parent = u
    <3>1. CASE <<u, v>> \in edges
      BY <2>1, <3>1
    <3>2. CASE <<u, v>> \notin edges
      <4>1. PICK i \in 1..Len(stack) : stack[i].node = v /\ stack[i].parent = u
        BY <1>3, <2>5, <3>2 DEF Linking
      <4>2. CASE i \in 1..Len(Pop)
        BY <2>2, <4>1, <4>2
      <4>3. CASE i = Len(stack)
        <5>1. Top.node = v /\ Top.parent = u
          BY <2>3, <4>1, <4>3
        <5>2. v \in impacted /\ u # NoParent
          BY <1>3, NoParentAssumption DEF Inv, TypeOK
        <5> QED
          BY <2>1, <5>1, <5>2
      <4> QED
        BY <2>3, <4>2, <4>3
    <3> QED
      BY <3>1, <3>2
  <2> QED
    BY <2>1, <2>4, <2>5 DEF Linking
<1>8. CASE StartTraversal \/ Discover \/ Visit \/ Finish \/ UNCHANGED vars
  <2>1. UNCHANGED <<roots, stack, graph>>
    BY <1>8 DEF StartTraversal, Discover, Visit, Finish, vars, graph
  <2> QED
    BY <1>3, <2>1 DEF graph
<1> QED
  BY <1>5, <1>6, <1>7, <1>8 DEF Next

-----------------------------------------------------------------------------
(* The theorems                                                            *)

\* The invariant holds in every reachable state.
THEOREM Invariance == Spec => []Inv
BY InvStep, InitInv, PTL DEF Spec

\* Every reachable state is well typed; in particular the edges join impacted
\* projects only.  CollapsedGraph.
THEOREM TypeCorrect == Spec => []TypeOK
<1>1. Inv => TypeOK
  BY DEF Inv
<1> QED
  BY <1>1, Invariance, PTL

\* A job that has a parent comes from an edge.
LEMMA InvLinks == Inv => LinksAreDependencies
<1> SUFFICES ASSUME Inv, NEW job \in jobs, job[2] # NoParent
             PROVE  DependsOn(job[1], job[2])
  BY DEF LinksAreDependencies
<1>1. <<job[2], job[1]>> \in edges
  BY DEF Inv, JobsInv
<1>2. job[1] \in Projects /\ job[2] \in Projects
  BY <1>1 DEF Inv, TypeOK
<1> QED
  BY <1>1, <1>2 DEF Inv, CollapseInv, Trees

\* A job waits only for jobs of projects that its project depends on.
\* CollapsedGraph, ConvertJobsToDiggerJobs.
THEOREM LinksSound == Spec => []LinksAreDependencies
BY InvLinks, Invariance, PTL

\* The breadth-first visit never meets the nil pointer of a predecessor that
\* was not visited, unless a query failed.  TraverseGraphVisitAllParentsFirst.
THEOREM VisitSafe == Spec => []ParentsVisitedFirst
<1>1. Inv => ParentsVisitedFirst
  BY DEF Inv, SearchInv
<1> QED
  BY <1>1, Invariance, PTL

\* The part of OneJobEach that does not depend on which projects the recursion
\* reaches.
AtMostOneJob == \A j, k \in jobs : j[1] = k[1] => j = k

\* No project gets two jobs, whatever fails and whether the dependencies have a
\* cycle or not.  ConvertJobsToDiggerJobs.
THEOREM NoSecondJob == Spec => []AtMostOneJob
<1>1. Inv => AtMostOneJob
  BY DEF Inv, JobsInv, AtMostOneJob
<1> QED
  BY <1>1, Invariance, PTL

\* At the end every impacted project has a job.
LEMMA InvJobs == Acyclic /\ Inv /\ Reach /\ Cover => OneJobEach
<1> SUFFICES ASSUME Acyclic, Inv, Reach, Cover PROVE OneJobEach
  OBVIOUS
<1>1. \A j, k \in jobs : j[1] = k[1] => j = k
  BY DEF Inv, JobsInv
<1>2. ASSUME phase = "done", ~failed PROVE {j[1] : j \in jobs} = impacted
  <2>1. PICK rank : Ranks(deps, rank)
    BY DEF Inv, TypeOK, Acyclic
  <2>2. ASSUME NEW v \in impacted PROVE \E j \in jobs : j[1] = v
    <3>1. v \in vertices /\ Given(v)
      BY <1>2, <2>1, <2>2, AllVisited DEF Cover
    <3>2. PICK u : <<v, u>> \in jobs
      BY <3>1 DEF Given
    <3> QED
      BY <3>2
  <2>3. \A j \in jobs : j[1] \in impacted
    BY DEF Inv, TypeOK
  <2> QED
    BY <2>2, <2>3
<1> QED
  BY <1>1, <1>2 DEF OneJobEach

\* At the end a project whose dependency has an edge is linked to it.
LEMMA InvTrees == Acyclic /\ Inv /\ Reach /\ Cover /\ Kept => TreesAreKept
<1> SUFFICES ASSUME Acyclic, Inv, Reach, Cover, Kept, phase = "done", ~failed, OneDependency,
                    NEW u \in impacted, NEW v \in impacted, DependsOn(v, u)
             PROVE  <<v, u>> \in jobs
  BY DEF TreesAreKept, OneDependency
<1>1. vertices = impacted /\ stack = <<>>
  BY DEF Reach, Inv, CollapseInv
<1>2. Linking(stack, vertices, edges)
  BY DEF Kept
<1>3. <<u, v>> \in edges
  BY <1>1, <1>2 DEF Linking
<1>4. u \in Predecessors(v)
  BY <1>1, <1>3 DEF Predecessors
<1>5. Visited(v) /\ v \in vertices
  <2>1. PICK rank : Ranks(deps, rank)
    BY DEF Inv, TypeOK, Acyclic
  <2> QED
    BY <2>1, AllVisited
<1>6. Given(v)
  BY <1>5 DEF Cover
<1> QED
  BY <1>4, <1>6 DEF Given

\* With no cycle in the configuration, the invariants of the collapse and of
\* the search hold in every reachable state.
THEOREM FullInvariance == Acyclic /\ Spec => [](Acyclic /\ Inv /\ Reach /\ Cover /\ Kept)
<1>1. Init => Cover /\ Kept
  BY DEF Init, Cover, Kept, Linking
<1>2. Acyclic => Acyclic'
  BY DEF Acyclic, Ranks
<1> QED
  BY <1>1, <1>2, InitInv, InitReach, InvStep, ReachStep, CoverStep, KeptStep, PTL DEF Spec

\* Where no cycle of dependencies is configured, each impacted project gets one
\* job and no other project does, in every order of the loops.
\* CollapsedGraph, ConvertJobsToDiggerJobs.
THEOREM EachGetsItsJob == Acyclic /\ Spec => []OneJobEach
BY InvJobs, FullInvariance, PTL

\* Where no project has two dependencies either, no dependency is lost,
\* whatever the order of the loops.  CollapsedGraph.
THEOREM NoLinkIsLost == Acyclic /\ Spec => []TreesAreKept
BY InvTrees, FullInvariance, PTL
==============================================================================
