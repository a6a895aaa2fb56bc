SPECIFICATION Spec
CONSTANTS
  Path <- Paths
  FilesOf <- PathFiles
  Directory = {"conf.d"}
  Content <- Incomplete
  Flags <- Given
  LogLevel <- Levels
  Default <- Defaults
  Unset = Unset
  Missing = Missing
INVARIANTS PrefixesComplete
CHECK_DEADLOCK FALSE
