SPECIFICATION ReconcilerSpec
CONSTANTS
  MaxOps = 1
  MaxFaults = 0
  MaxStale = 0
  Ops = {"edit"}
  Answers = {"Creating", "Created"}
  Writes = {}
  Policies = {FALSE}
  Externals = {"none"}
  Periods = {"valid"}
INVARIANT ObservedGenerationIsHonest
CHECK_DEADLOCK FALSE
