SPECIFICATION FairSpec
CONSTANTS
  vpc = vpc
  eks = eks
  app = app
  Jobs = {vpc, eks}
  Parents <- Chain
  MaxConcurrency = 0
  MaxRuns = 2
  Trigger = webhook
  Ticks = {}
  Faults = {"rerun"}
PROPERTIES ImplementsOrder BatchCompletes
CHECK_DEADLOCK FALSE
