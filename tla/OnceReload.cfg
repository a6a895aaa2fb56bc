SPECIFICATION Spec
CONSTANTS
  Prefix = {"p", "q"}
  Dep = {"dep/p","dep/q"}
  DepOf <- OwnDep
  Once = TRUE
  Quiesce = {}
  PidFile = TRUE
  Budget <- ReloadOnly
INVARIANTS NoPanic
CHECK_DEADLOCK FALSE
