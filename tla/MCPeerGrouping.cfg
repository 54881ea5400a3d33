CONSTANTS
  NR = 4
  HostIds = {h1, h2, h3}
  PidIds = {p1, p2}
  MaxChannels = 8
SPECIFICATION Spec
INVARIANT IntraScanCorrect
INVARIANT NodeScanCorrect
INVARIANT RotationCorrect
INVARIANT CompactionKeepsLanes
INVARIANT CliqueModeCorrect
