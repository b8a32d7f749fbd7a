\* One owner thread; the worker starts on its own time.
CONSTANTS
  c1 = c1
  Clients <- OneClient
  Owner = c1
  MaxJobs = 2
  Spurious = FALSE
SPECIFICATION FairSpec
PROPERTY WaitReturns
CHECK_DEADLOCK FALSE
