\* The application retries ncclCommDestroy after it returned an error from
\* commDestroy, before commFree (proxy) or inside it (inner).
CONSTANTS
  IntraRanks = 3
  MaxCalls = 3
  EarlyExits = FALSE
  AllocResults = {TRUE}
  HandleInit = {"null"}
  InitResults = {TRUE}
  DestroyFailures = {"none", "proxy", "inner"}
  RetryAfterError = TRUE
SPECIFICATION Spec
INVARIANT NoDoubleFree
CHECK_DEADLOCK FALSE
