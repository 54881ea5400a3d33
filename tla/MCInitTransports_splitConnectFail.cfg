CONSTANTS
  N = 3
  Hosts = {h1, h2}
  ChannelCounts = {2, 4}
  MaxChannels = 8
  CollNetSplit = TRUE
  HomogeneousGate = TRUE
  AllowDuplicateGpu = FALSE
  SetupResults = {0}
  ConnectResults = {0, 2}
  LocalFailures = {}
SYMMETRY HostSymmetry
SPECIFICATION Spec
PROPERTY InitTerminates
CHECK_DEADLOCK FALSE
