\* The probes of Envoy and of the shutdown manager may fail, those of the app do not.
SPECIFICATION FairSpec
CONSTANTS
  None = None
  NotANumber = NotANumber
  Probed = {"envoy", "envoy-shtdn-mgr"}
  MinOpenConnections = 0
  Labels = 1
  MaxConnections = 1
  MaxFaults = 1
  Specs <- MCSpecs
  Annotations <- MCAnnotations
  OtherContainers = {"app"}
  EnvoyConfigs = {"e1"}
  NodeIDs = {"n1", "n2"}
  DSName = "ds"
  Addresses = {"a1"}
  Scales = {1, 2}
  MaxChanges = 3
INVARIANTS SettledObjects
PROPERTIES StopsGracefully PodFollowsSpec
\* Users stop when their changes are spent, and a namespace may be empty.
CHECK_DEADLOCK FALSE
