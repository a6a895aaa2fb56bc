SPECIFICATION Spec
CONSTANTS
  Char <- Chars
  Pair <- Again
  Rest <- RestsAB
  ExcludedRest <- FewRests
  MaxKeys = 2
  MaxExcludes = 2
INVARIANTS ProtectedSurvive
CHECK_DEADLOCK FALSE
