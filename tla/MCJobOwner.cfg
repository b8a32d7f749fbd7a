\* One owner thread, the worker starting on its own time, spurious wakeups.
CONSTANTS
  c1 = c1
  Clients <- OneClient
  Owner = c1
  MaxJobs = 3
  Spurious = TRUE
SPECIFICATION FairSpec
INVARIANTS ResultOfLastJob NoRetRace CancelStands DestroyDrains IInv
PROPERTIES ImplementsSlot GetReturns DestroyReturns AcceptedRuns
