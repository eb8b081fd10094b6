SPECIFICATION Spec
CONSTANTS
  pr1 = pr1
  pr2 = pr2
  vpc = vpc
  eks = eks
  s1 = s1
  s2 = s2
  PRs = {pr1, pr2}
  Projects = {vpc, eks}
  Impacts <- Touches
  Order <- EksFirst
  OnPush <- PlanOnPush
  SkipMergeCheck = {eks}
  Storages = {"none", "bucket", "github"}
  Faults = {"policy", "terraform", "storage"}
  Slots = {s1, s2}
  MaxJobs = 3
  MaxTasks = 4
  MaxPushes = 2
  NoPR = none
  NoPlan = noplan
  NoJob = nojob
CONSTRAINT Covered
SYMMETRY Symmetry
INVARIANTS OneOwner PreviewFresh
PROPERTIES MergesApplied PolicyTold
CHECK_DEADLOCK FALSE
