SPECIFICATION FairSpec
CONSTANTS
  Prefix = {"p", "q"}
  Dep = {"dep"}
  DepOf <- SharedDep
  Once = TRUE
  Quiesce = {}
  PidFile = TRUE
  Budget <- Quiet
PROPERTIES OnceTerminates
CHECK_DEADLOCK FALSE
