SPECIFICATION FlexSpec
CONSTANTS
  MaxOps = 2
  MaxFaults = 1
  MaxStale = 1
  Ops = {"edit", "delete", "keep", "resync", "group", "vanish", "period"}
  Answers = {"Initial", "ImportRequested", "Imported", "Creating", "Created", "Updating", "Updated", "DeletionRequested", "Deleting", "Deleted"}
  Writes = {"recorded", "tracker"}
  Policies = {FALSE}
  Externals = {"none", "partial"}
  Periods = {"valid", "invalid"}
INVARIANTS FlexTypeOK NoOrphan SettledHasCluster NeverCreatesTwice
PROPERTIES CreateOnlyUnderFinalizer KeepIsRespected ReconcilerSpec
CHECK_DEADLOCK FALSE
