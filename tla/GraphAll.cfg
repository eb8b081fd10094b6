SPECIFICATION DetectionSpec
CONSTANTS
  N = 4
  Projects <- Numbered
  Graphs <- AllGraphs
  Branches <- AllBranches
  NoParent = NoParent
INVARIANT TypeOK
INVARIANT LinksAreDependencies
INVARIANT ParentsVisitedFirst
INVARIANT OneJobEach
INVARIANT TreesAreKept
INVARIANT DependantsFound
INVARIANT CoversTold
CHECK_DEADLOCK FALSE
