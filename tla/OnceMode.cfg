SPECIFICATION FairSpec
CONSTANTS
  Prefix = {"p", "q"}
  Dep = {"dep/p", "dep/q"}
  DepOf <- OwnDep
  Once = TRUE
  Quiesce = {}
  PidFile = TRUE
  Budget <- All
INVARIANTS TypeOK OnceComplete
PROPERTIES OnceTerminates
CHECK_DEADLOCK FALSE
