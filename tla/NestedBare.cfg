SPECIFICATION FairSpec
CONSTANTS
  Runner = {"r"}
  Prefix = {"p", "q"}
  PrefixOf <- SamePrefixes
  Dep = {"dep/p", "dep/q"}
  Key = {"a"}
  DKey <- DKeys
  StatusKey = {"status/p", "status/q"}
  DepOf <- DepPerPrefix
  DestOf <- DestPerPrefix
  Under <- NestedUnder
  Excluded <- NoneExcluded
  ExcludedLocal <- NoneExcluded
  StatusOf <- StatusPerPrefix
  StatusUnder <- NestedStatusUnder
  MaySelf = {}
  LocalKey = {"own/q"}
  AllowStale = FALSE
  AllowRestore = FALSE
  MaxIndex = 2
  MaxFault = 0
  Absent = Absent
  Local = Local
PROPERTIES Convergence
CHECK_DEADLOCK FALSE
