SPECIFICATION Spec
CONSTANTS
  Prefix = {"p", "q"}
  Dep = {"dep/p","dep/q"}
  DepOf <- OwnDep
  Once = FALSE
  Quiesce = {1}
  PidFile = TRUE
  Budget <- FaultOnly
INVARIANTS FaultTolerant
CHECK_DEADLOCK FALSE
