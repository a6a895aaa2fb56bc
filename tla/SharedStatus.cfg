SPECIFICATION FairSpec
CONSTANTS
  Runner = {"r"}
  Prefix = {"p", "q"}
  PrefixOf <- SamePrefixes
  Dep = {"dep/p", "dep/q"}
  Key = {"a"}
  DKey <- DKeys
  StatusKey = {"status"}
  DepOf <- DepPerPrefix
  DestOf <- DestPerPrefix
  Under <- DKeysOf
  Excluded <- NoneExcluded
  ExcludedLocal <- NoneExcluded
  StatusOf <- OneStatusOf
  StatusUnder <- NoneUnder
  MaySelf = {}
  LocalKey = {}
  AllowStale = FALSE
  AllowRestore = FALSE
  MaxIndex = 3
  MaxFault = 0
  Absent = Absent
  Local = Local
PROPERTIES Convergence
CHECK_DEADLOCK FALSE
