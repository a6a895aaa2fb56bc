SPECIFICATION Spec
CONSTANTS
  Runner = {"r"}
  Prefix = {"p"}
  PrefixOf <- SamePrefixes
  Dep = {"dep"}
  Key <- TwoKeys
  DKey <- TwoDKeys
  StatusKey = {"status"}
  DepOf <- OneDepOf
  DestOf <- OneDestOf
  Under <- OneUnder
  Excluded <- OneExcluded
  ExcludedLocal <- OneExcludedLocal
  StatusOf <- OneStatusOf
  StatusUnder <- NoneUnder
  MaySelf = {}
  LocalKey = {"X", "X/own", "own"}
  AllowStale = FALSE
  AllowRestore = FALSE
  MaxIndex = 4
  MaxFault = 2
  Absent = Absent
  Local = Local
INVARIANTS TypeOK IInv CheckpointCovers CheckpointExact
PROPERTIES ImplementsReplica ExcludedUntouched
CHECK_DEADLOCK FALSE
