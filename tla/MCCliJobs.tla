------------------------------ MODULE MCCliJobs ------------------------------
(* Instances of CliJobs for TLC.                                           *)
EXTENDS CliJobs, TLC

CONSTANTS pr1, pr2, vpc, eks, s1, s2

\* Two pull requests for one project, or one for two projects.
Touches == {[r \in PRs |-> {vpc}]} \cup
           {[r \in PRs |-> IF r = only THEN {vpc, eks} ELSE {}] : only \in PRs}
EksFirst == [p \in Projects |-> IF p = eks THEN 1 ELSE 2]
PlanOnPush == <<"plan">>

\* Failing policies are looked at where plans are stored, failing terraform and
\* projects without a stored plan beside the bucket's.
Covered ==
  /\ storage = "none" => fault # "policy"
  /\ storage = "github" => fault # "terraform"

Symmetry == Permutations(Slots) \cup Permutations(PRs)
=============================================================================
