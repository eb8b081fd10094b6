-------------------------- MODULE MCPullRequestLock --------------------------
(* Instances of PullRequestLock for TLC.                                   *)
EXTENDS PullRequestLock, TLC

CONSTANTS repo1, repo2, w1, w2, w3

PR(repo, num) == [repo |-> repo, num |-> num]
Acting(f) == [w \in Workers |-> f[w]]

\* Each worker acts for a pull request of its own.
OneEach == Acting(w1 :> PR(repo1, 1) @@ w2 :> PR(repo1, 2) @@ w3 :> PR(repo1, 3))

\* Two workers of pull request 1 (two comments in a row), one of 2.
TwoAndOne == Acting(w1 :> PR(repo1, 1) @@ w2 :> PR(repo1, 1) @@ w3 :> PR(repo1, 2))

\* The same number in two repositories.
TwoRepos == Acting(w1 :> PR(repo1, 1) @@ w2 :> PR(repo2, 1))

\* acme/app is a prefix of acme/app-infra, and every name of itself.
SelfPrefix == {<<r, r>> : r \in Repos}
AppPrefix == SelfPrefix \cup {<<repo1, repo2>>}
=============================================================================
