SPECIFICATION FlexSpec
CONSTANTS
  MaxOps = 1
  MaxFaults = 1
  MaxStale = 0
  Ops = {"delete"}
  Answers = {"Initial", "ImportRequested", "Imported", "Creating", "Created", "Updating", "Updated", "DeletionRequested", "Deleting", "Deleted"}
  Writes = {"recorded", "tracker"}
  Policies = {FALSE}
  Externals = {"none"}
  Periods = {"none"}
INVARIANT DeletionReachesAtlas
CHECK_DEADLOCK FALSE
