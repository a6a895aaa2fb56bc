SPECIFICATION ReloadSpec
CONSTANTS
  Runner = {"old", "new"}
  Old = "old"
  New = "new"
  Prefix = {"p", "q"}
  PrefixOf <- PrefixChanged
  Dep = {"dep"}
  Key <- OneKeys
  DKey = {"A", "X"}
  StatusKey = {"status"}
  DepOf <- OneDepOf
  DestOf <- OneDestOf
  Under <- OneUnder
  Excluded <- ExcludedBefore
  ExcludedLocal <- ExcludedLocalBefore
  StatusOf <- OneStatusOf
  StatusUnder <- NoneUnder
  MaySelf = {}
  LocalKey = {}
  AllowStale = FALSE
  AllowRestore = FALSE
  MaxIndex = 3
  MaxFault = 0
  Absent = Absent
  Local = Local
PROPERTIES QuietReload
CHECK_DEADLOCK FALSE
