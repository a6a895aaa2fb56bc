SPECIFICATION Spec
CONSTANTS
  Path <- Paths
  FilesOf <- PathFiles
  Directory = {"conf.d"}
  Content <- Contents
  Flags <- Given
  LogLevel <- Levels
  Default <- Defaults
  Unset = Unset
  Missing = Missing
INVARIANTS StatusDirHonoured
CHECK_DEADLOCK FALSE
