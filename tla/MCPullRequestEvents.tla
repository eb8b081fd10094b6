------------------------ MODULE MCPullRequestEvents ------------------------
(* Two projects; the second commit impacts one of them only.               *)
EXTENDS PullRequestEvents

CONSTANTS a, b

TwoCommits == <<{a, b}, {a}>>
AllOrOne == {{}, {a}, {b}}

\* Once the pull request is closed or a draft, no job reports; when something
\* other than overlapping reports has gone wrong, one handler runs at a time,
\* and none when nothing can be merged without another going wrong.
Covered ==
  /\ Cardinality(odd) <= MaxOdd
  /\ pr.state = "closed" \/ pr.draft => Reporting = {}
  /\ odd \subseteq {"overlap"}
       \/ Cardinality(Handling) + Cardinality(Reporting) <=
            IF odd \cap {"refused", "clash", "unmarked"} = {} THEN 1 ELSE 0
==============================================================================
