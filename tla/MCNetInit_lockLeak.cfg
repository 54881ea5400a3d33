\* Two threads, two calls each; the socket transport may fail to initialise.
CONSTANTS
  Threads = {t1, t2}
  NoThread = NoThread
  MaxCalls = 2
  BootNetResults = {TRUE}
  PluginResults = {"absent"}
  CollNetResults = {"nosym"}
  IbResults = {FALSE}
  SocketResults = {TRUE, FALSE}
SYMMETRY ThreadSymmetry
SPECIFICATION Spec
PROPERTY CallsReturn
CHECK_DEADLOCK FALSE
