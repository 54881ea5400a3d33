\* Three threads, two calls each; the plugin may be missing, lack its symbol,
\* fail or work (with or without CollNet) and IB may fail; the bootstrap
\* network and the socket transport initialise, so initNet cannot fail.
CONSTANTS
  Threads = {t1, t2, t3}
  NoThread = NoThread
  MaxCalls = 2
  BootNetResults = {TRUE}
  PluginResults = {"absent", "nosym", "fail", "ok"}
  CollNetResults = {"nosym", "fail", "ok"}
  IbResults = {TRUE, FALSE}
  SocketResults = {TRUE}
SYMMETRY ThreadSymmetry
SPECIFICATION Spec
INVARIANT NetInitializedOnce
INVARIANT SelectedNetIsFirstWorking
PROPERTY CallsReturn
CHECK_DEADLOCK FALSE
