SPECIFICATION ReloadSpec
CONSTANTS
  Runner = {"old", "new"}
  Old = "old"
  New = "new"
  Prefix = {"p", "q"}
  PrefixOf <- PrefixChanged
  Dep = {"dep/p", "dep/q"}
  Key = {"a"}
  DKey = {"A"}
  StatusKey = {"status"}
  DepOf <- DepPerPrefix
  DestOf <- OneDestOf
  Under <- OneUnder
  Excluded <- NoneExcluded
  ExcludedLocal <- NoneUnder
  StatusOf <- OneStatusOf
  StatusUnder <- NoneUnder
  MaySelf = {}
  LocalKey = {}
  AllowStale = FALSE
  AllowRestore = FALSE
  MaxIndex = 3
  MaxFault = 0
  Absent = Absent
  Local = Local
PROPERTIES QuietReload
CHECK_DEADLOCK FALSE
