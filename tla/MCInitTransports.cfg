CONSTANTS
  N = 3
  Hosts = {h1, h2}
  ChannelCounts = {2, 4}
  MaxChannels = 8
  CollNetSplit = FALSE
  HomogeneousGate = TRUE
  AllowDuplicateGpu = FALSE
  SetupResults = {0}
  ConnectResults = {0, 2}
  LocalFailures = {"tail"}
SYMMETRY HostSymmetry
SPECIFICATION Spec
INVARIANT TypeOK
INVARIANT CollectivesMatch
INVARIANT ReconciledAgree
INVARIANT CollNetAllOrNothing
 
PROPERTY InitTerminates
PROPERTY RendezvousRefinement
CHECK_DEADLOCK FALSE
