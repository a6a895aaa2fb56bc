SPECIFICATION ReloadSpec
CONSTANTS
  Runner = {"old", "new"}
  Old = "old"
  New = "new"
  Prefix = {"p", "q"}
  PrefixOf <- PrefixAdded
  Dep = {"dep"}
  Key = {"a"}
  DKey <- DKeys
  StatusKey = {"status/p", "status/q"}
  DepOf <- OneDepOf
  DestOf <- DestPerPrefix
  Under <- UnderPerPrefix
  Excluded <- NoneExcluded
  ExcludedLocal <- NoneUnder
  StatusOf <- StatusPerPrefix
  StatusUnder <- NoneUnder
  MaySelf = {}
  LocalKey = {}
  AllowStale = FALSE
  AllowRestore = FALSE
  MaxIndex = 3
  MaxFault = 2
  Absent = Absent
  Local = Local
INVARIANT QuietCovers
PROPERTY QuietReload
CONSTRAINT StillQuiet
CHECK_DEADLOCK FALSE
