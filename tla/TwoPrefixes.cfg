SPECIFICATION FairSpec
CONSTANTS
  Runner = {"r"}
  Prefix = {"p", "q"}
  PrefixOf <- SamePrefixes
  Dep = {"dep/p", "dep/q"}
  Key = {"a"}
  DKey <- DKeys
  StatusKey = {"status/p", "status/q"}
  DepOf <- DepPerPrefix
  DestOf <- DestPerPrefix
  Under <- NestedUnder
  Excluded <- NoneExcluded
  ExcludedLocal <- NestedExcludedLocal
  StatusOf <- StatusPerPrefix
  StatusUnder <- NestedStatusUnder
  MaySelf = {"q"}
  LocalKey = {"own/q"}
  AllowStale = FALSE
  AllowRestore = FALSE
  MaxIndex = 3
  MaxFault = 0
  Absent = Absent
  Local = Local
INVARIANTS CheckpointCovers
PROPERTIES Convergence NoSelfReplication
CHECK_DEADLOCK FALSE
