SPECIFICATION GroupSpec
CONSTANTS
  MaxOps = 2
  MaxFaults = 0
  MaxStale = 0
  Ops = {"delete", "refer"}
  Answers = {"Initial", "ImportRequested", "Imported", "Creating", "Created", "Updating", "Updated", "DeletionRequested", "Deleting", "Deleted"}
  Writes = {"recorded", "tracker"}
  Policies = {FALSE}
  Externals = {"none"}
  Periods = {"none"}
PROPERTY DependentsBlockDeletion
CHECK_DEADLOCK FALSE
