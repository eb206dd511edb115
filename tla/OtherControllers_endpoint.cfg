SPECIFICATION FairOtherSpec
CONSTANTS
  Systems = {"endpoint"}
  MaxOps = 1
  MaxFaults = 0
  Ops = {"delete"}
  Policies = {FALSE}
  Names = {"a", "b"}
PROPERTIES RemovedEndpointGoes
CHECK_DEADLOCK FALSE
