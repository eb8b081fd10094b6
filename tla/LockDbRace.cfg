SPECIFICATION Spec
CONSTANTS
  repo1 = repo1
  repo2 = repo2
  w1 = w1
  w2 = w2
  w3 = w3
  Repos = {repo1}
  Numbers = {1, 2, 3}
  Projects = {"p"}
  Prefix <- SelfPrefix
  Workers = {w1, w2, w3}
  PrOf <- OneEach
  Store = "db"
  Commands = {"plan"}
  Env = {}
INVARIANT MutualExclusion
