CONSTANTS
  Results <- MCResults
  Lower <- MCLower
  MaxAttempts = 2
SPECIFICATION Spec
INVARIANTS
  DistinctFilesUnlessNumbered
  SavingOnlyAdds
  RetryRepairs
CHECK_DEADLOCK FALSE
