SPECIFICATION Spec
CONSTANTS
  r1 = r1
  r2 = r2
  Runs = {r1, r2}
  MaxRequests = 3
  MaxUploads = 1
  Faults = {"db", "blob", "lostStart", "slow", "crash", "force"}
  NoLock = none
  User = user
CONSTRAINT Covered
SYMMETRY Symmetry
INVARIANTS  PlanBeforeApply 
 
CHECK_DEADLOCK FALSE
