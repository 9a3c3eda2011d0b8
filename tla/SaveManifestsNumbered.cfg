CONSTANTS
  Results <- NumberedResults
  Lower <- MCLower
  MaxAttempts = 1
SPECIFICATION Spec
INVARIANT DistinctFiles
CHECK_DEADLOCK FALSE
