SPECIFICATION FairOtherSpec
CONSTANTS
  Systems = {"network", "list", "endpoint", "account", "secrets"}
  MaxOps = 2
  MaxFaults = 1
  Ops = {"edit", "delete", "skip", "project", "resync", "vanish", "expire"}
  Policies = {TRUE, FALSE}
  Names = {"a", "b"}
INVARIANTS OtherTypeOK AtRestMeansApplied ReadyIsHeld QuiescentSecretsAreRight
PROPERTIES NoNetworkOrphan HeldUntilGone NothingStaysBehind
CHECK_DEADLOCK FALSE
