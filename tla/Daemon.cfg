SPECIFICATION FairSpec
CONSTANTS
  Prefix = {"p", "q"}
  Dep = {"dep"}
  DepOf <- SharedDep
  Once = FALSE
  Quiesce = {2}
  PidFile = TRUE
  Budget <- All
INVARIANTS PassesApart PidPresent
PROPERTIES DataReplicated ErrorNotLost SignalServed
CHECK_DEADLOCK FALSE
