SPECIFICATION FairSpec
CONSTANTS
  repo1 = repo1
  repo2 = repo2
  w1 = w1
  w2 = w2
  w3 = w3
  Repos = {repo1}
  Numbers = {1, 2}
  Projects = {"p"}
  Prefix <- SelfPrefix
  Workers = {w1, w2}
  PrOf <- OneEach
  Store = "db"
  Commands = {"plan", "lock", "unlock"}
  Env = {"close"}
INVARIANT GrantRecorded
PROPERTY HangingLockYields
