SPECIFICATION Spec
CONSTANTS
  Prefix = {"p", "q"}
  Dep = {"dep/p","dep/q"}
  DepOf <- OwnDep
  Once = FALSE
  Quiesce = {1}
  PidFile = TRUE
  Budget <- KillOnly
INVARIANTS GracefulKill
CHECK_DEADLOCK FALSE
