\* Three ranks in one process; initialisation may fail after
\* ncclCommSetIntra (ncclProxyCreate, devCommSetup), and each application
\* destroys the comm it got back once, successfully.
CONSTANTS
  IntraRanks = 3
  MaxCalls = 1
  EarlyExits = FALSE
  AllocResults = {TRUE}
  HandleInit = {"null"}
  InitResults = {TRUE, FALSE}
  DestroyFailures = {"none"}
  RetryAfterError = FALSE
SPECIFICATION Spec
INVARIANT SharedFreedWhenAllDone
CHECK_DEADLOCK FALSE
