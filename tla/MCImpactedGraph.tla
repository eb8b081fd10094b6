--------------------------- MODULE MCImpactedGraph ---------------------------
(* Every dependency graph of the projects 1..N, up to their names: a graph *)
(* without cycles can be numbered in the order of its dependencies.  All   *)
(* projects target the branch, or all but one.                             *)
EXTENDS ImpactDetection

CONSTANT N

Numbered == 1..N
AllGraphs == SUBSET {e \in Numbered \X Numbered : e[1] < e[2]}
AllBranches == {Numbered} \cup {Numbered \ {p} : p \in Numbered}
=============================================================================
