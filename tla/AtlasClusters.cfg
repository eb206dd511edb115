SPECIFICATION FairClustersSpec
CONSTANTS
  MaxOps = 2
  MaxFaults = 1
  MaxStale = 0
  Ops = {"edit", "delete", "group", "resync", "vanish", "repair"}
  Answers = {"Initial", "ImportRequested", "Imported", "Creating", "Created", "Updating", "Updated", "DeletionRequested", "Deleting", "Deleted"}
  Writes = {"recorded", "tracker"}
  Policies = {FALSE}
  Externals = {"none", "full"}
  Periods = {"none"}
INVARIANTS ClustersTypeOK SettledClusterIsThere ClusterGoesToo
PROPERTIES LiveUntilDeleted DeletionCompletes ChangeSettles
CHECK_DEADLOCK FALSE
