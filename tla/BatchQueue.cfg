SPECIFICATION FairSpec
CONSTANTS
  vpc = vpc
  eks = eks
  app = app
  Jobs = {vpc, eks}
  Parents <- Flat
  MaxConcurrency = 1
  MaxRuns = 1
  Trigger = webhook
  Ticks = {cron1}
  Faults = {"fail", "comment", "reply", "fastCI"}
PROPERTIES QueueDrains OnlyTriggerPutsBack
CHECK_DEADLOCK FALSE
