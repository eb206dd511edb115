SPECIFICATION FairReconcilerSpec
CONSTANTS
  MaxOps = 2
  MaxFaults = 1
  MaxStale = 0
  Ops = {"edit", "delete", "skip", "foreign", "period", "resync"}
  Answers = {"Creating", "Created", "Deleted"}
  Writes = {"recorded"}
  Policies = {FALSE}
  Externals = {"none"}
  Periods = {"none", "valid"}
INVARIANTS TypeOK QuiescentMeansHandled ObservedGenerationWasHandled
PROPERTIES ForeignFinalizerKept FinalizerHeldUntilDeletion GenerationIsHandled
CHECK_DEADLOCK FALSE
