SPECIFICATION Spec
CONSTANTS
  vpc = vpc
  eks = eks
  app = app
  Jobs = {vpc, eks, app}
  Parents <- Flat
  MaxConcurrency = 1
  MaxRuns = 2
  Trigger = webhook
  Ticks = {cron1}
  Faults = {"fail"}
INVARIANT TriggeredOnce
INVARIANT LimitOvershoot
CHECK_DEADLOCK FALSE
