SPECIFICATION FairSpec
CONSTANTS
  Runner = {"r"}
  Prefix = {"p"}
  PrefixOf <- SamePrefixes
  Dep = {"dep"}
  Key <- OneKeys
  DKey <- OneDKeys
  StatusKey = {"status"}
  DepOf <- OneDepOf
  DestOf <- OneDestOf
  Under <- OneUnder
  Excluded <- OneExcluded
  ExcludedLocal <- OneExcludedLocal
  StatusOf <- OneStatusOf
  StatusUnder <- NoneUnder
  MaySelf = {}
  LocalKey = {}
  AllowStale = TRUE
  AllowRestore = FALSE
  MaxIndex = 3
  MaxFault = 1
  Absent = Absent
  Local = Local
PROPERTIES Convergence
CHECK_DEADLOCK FALSE
