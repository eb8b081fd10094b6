CONSTANTS
  a = a
  b = b
  Projects = {a, b}
  ImpactedBy <- TwoCommits
  CommentCommands = {"apply"}
  Selections <- AllOrOne
  OnPushed = "plan"
  OnClosed = "unlock"
  AllowDraftPRs = FALSE
  MaxImpacted = 2
  MaxTasks = 3
  MaxRows = 4
  MaxJobs = 2
  MaxBusy = 2
  MaxOdd = 1

SPECIFICATION Spec
CONSTRAINT Covered
INVARIANTS
  TypeOK
  MergedAllApplied
  MarksEarned
  RowsCover
  CheckTold
  AppliedMerges
CHECK_DEADLOCK FALSE
