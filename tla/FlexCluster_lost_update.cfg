SPECIFICATION FlexSpec
CONSTANTS
  MaxOps = 1
  MaxFaults = 0
  MaxStale = 0
  Ops = {"edit"}
  Answers = {"Initial", "ImportRequested", "Imported", "Creating", "Created", "Updating", "Updated", "DeletionRequested", "Deleting", "Deleted"}
  Writes = {"recorded", "tracker"}
  Policies = {FALSE}
  Externals = {"none"}
  Periods = {"none"}
INVARIANT GenerationChangeIsDetected
CHECK_DEADLOCK FALSE
