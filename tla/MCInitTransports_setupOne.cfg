CONSTANTS
  N = 3
  Hosts = {h1, h2}
  ChannelCounts = {2, 4}
  MaxChannels = 8
  CollNetSplit = FALSE
  HomogeneousGate = TRUE
  AllowDuplicateGpu = FALSE
  SetupResults = {0, 1}
  ConnectResults = {0}
  LocalFailures = {}
SYMMETRY HostSymmetry
SPECIFICATION Spec
INVARIANT SupportImpliesConnected
CHECK_DEADLOCK FALSE
