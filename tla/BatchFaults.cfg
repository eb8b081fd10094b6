SPECIFICATION Spec
CONSTANTS
  vpc = vpc
  eks = eks
  app = app
  Jobs = {vpc, eks}
  Parents <- Chain
  MaxConcurrency = 1
  MaxRuns = 1
  Trigger = webhook
  Ticks = {cron1}
  Faults <- AllFaults
INVARIANT TypeOK
INVARIANT ParentsFirst
INVARIANT BatchSound
CHECK_DEADLOCK FALSE
