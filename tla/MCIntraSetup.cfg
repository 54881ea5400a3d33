\* Three ranks in one process in GROUP mode, with GPUs of two compute
\* capabilities that all report cooperative multi-device launch support,
\* and the query under #if CUDART_VERSION >= 9000 compiled in.
CONSTANTS
  IntraRanks = 3
  CompCaps = {80, 90}
  SupportResults = {TRUE}
  ParallelEnv = {FALSE}
  StreamResults = {TRUE}
  Rank0Failures = {"none"}
  CgQueryCompiled = TRUE
SPECIFICATION Spec
INVARIANT CgModeAgreement
CHECK_DEADLOCK FALSE
