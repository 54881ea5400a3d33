\* commAlloc may fail on a rank whose application passes a handle that was
\* never initialised, or still holds a comm it destroyed earlier.
CONSTANTS
  IntraRanks = 2
  MaxCalls = 1
  EarlyExits = FALSE
  AllocResults = {TRUE, FALSE}
  HandleInit = {"null", "stale"}
  InitResults = {TRUE}
  DestroyFailures = {"none"}
  RetryAfterError = FALSE
SPECIFICATION Spec
INVARIANT NoForeignBootstrapAbort
CHECK_DEADLOCK FALSE
