SPECIFICATION FairSpec
CONSTANTS
  Prefix = {"p", "q"}
  Dep = {"dep/p","dep/q"}
  DepOf <- OwnDep
  Once = FALSE
  Quiesce = {}
  PidFile = TRUE
  Budget <- KillOther
PROPERTIES KillHonoured
CHECK_DEADLOCK FALSE
