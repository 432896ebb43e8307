\* The probe of an app container with a preStop hook of its own may fail.
SPECIFICATION FairSpec
CONSTANTS
  None = None
  NotANumber = NotANumber
  Probed = {"app"}
  MinOpenConnections = 0
  Labels = 1
  MaxConnections = 1
  MaxFaults = 1
  Specs <- MCSpecs
  Annotations <- MCAnnotations
  OtherContainers = {"app"}
  EnvoyConfigs = {"e1"}
  NodeIDs = {"n1", "n2"}
  DSName = "ds"
  Addresses = {"a1"}
  Scales = {1, 2}
  MaxChanges = 2
PROPERTY StopsGracefully
CHECK_DEADLOCK FALSE
