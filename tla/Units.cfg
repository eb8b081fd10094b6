SPECIFICATION Spec
CONSTANTS
  alice = alice
  bob = bob
  l1 = l1
  l2 = l2
  Procs = {alice, bob}
  Stores = {"mem", "s3"}
  LockIDs = {l1, l2}
  NoLock = none
  MaxWrites = 2
  MaxVersions = 1
  MaxRestores = 1
  Faults = {"db", "s3", "crash"}
SYMMETRY Symmetry
CONSTRAINT Covered
INVARIANTS TypeOK LockStands HistoryKept RowTellsLock
PROPERTY NoLostUpdate
CHECK_DEADLOCK FALSE
