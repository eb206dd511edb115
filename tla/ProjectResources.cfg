SPECIFICATION FairResourcesSpec
CONSTANTS
  MaxOps = 2
  MaxFaults = 1
  MaxStale = 0
  Ops = {"resync"}
  Answers = {"Initial", "ImportRequested", "Imported", "Creating", "Created", "Updating", "Updated", "DeletionRequested", "Deleting", "Deleted"}
  Writes = {"recorded", "tracker"}
  Policies = {FALSE}
  Externals = {"none"}
  Periods = {"none"}
INVARIANTS ResourcesTypeOK ChangesAreDetected NoOrphan NeverPanics
PROPERTIES DeletionCompletes ChangesReachAtlas
CHECK_DEADLOCK FALSE
