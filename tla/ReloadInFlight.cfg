SPECIFICATION ReloadSpec
CONSTANTS
  Runner = {"old", "new"}
  Old = "old"
  New = "new"
  Prefix = {"p"}
  PrefixOf <- SamePrefixes
  Dep = {"dep"}
  Key <- OneKeys
  DKey <- OneDKeys
  StatusKey = {"status"}
  DepOf <- OneDepOf
  DestOf <- OneDestOf
  Under <- OneUnder
  Excluded <- OneExcluded
  ExcludedLocal <- OneExcludedLocal
  StatusOf <- OneStatusOf
  StatusUnder <- NoneUnder
  MaySelf = {}
  LocalKey = {}
  AllowStale = FALSE
  AllowRestore = FALSE
  MaxIndex = 3
  MaxFault = 0
  Absent = Absent
  Local = Local
PROPERTIES Convergence
CHECK_DEADLOCK FALSE
