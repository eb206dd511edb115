SPECIFICATION FairIntegrationSpec
CONSTANTS
  MaxOps = 1
  MaxFaults = 0
  MaxStale = 0
  Ops = {"rotate", "resync"}
  Answers = {"Initial", "ImportRequested", "Imported", "Creating", "Created", "Updating", "Updated", "DeletionRequested", "Deleting", "Deleted"}
  Writes = {"recorded", "tracker"}
  Policies = {FALSE}
  Externals = {"none"}
  Periods = {"none"}
PROPERTY RotationReachesAtlas
CHECK_DEADLOCK FALSE
