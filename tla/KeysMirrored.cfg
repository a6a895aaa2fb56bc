SPECIFICATION Spec
CONSTANTS
  Char <- Chars
  Pair <- Apart
  Rest <- RestsAB
  ExcludedRest <- FewRests
  MaxKeys = 2
  MaxExcludes = 2
INVARIANTS Mirrored
CHECK_DEADLOCK FALSE
