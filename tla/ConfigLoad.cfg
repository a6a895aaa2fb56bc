SPECIFICATION Spec
CONSTANTS
  Path <- Paths
  FilesOf <- PathFiles
  Directory = {"conf.d"}
  Content <- Contents
  Flags <- Given
  LogLevel <- Levels
  Default <- Defaults
  Unset = Unset
  Missing = Missing
INVARIANTS Precedence DestinationsGiven
PROPERTIES ReloadStable
CHECK_DEADLOCK FALSE
