CONSTANTS
  Commands <- MCCommands
  Trees <- MCTrees
  Lower <- MCLower
  MaxRuns = 2
SPECIFICATION Spec
INVARIANT
  EveryObjectOnDisk
PROPERTIES
  NothingSavedBeforeAllRendered
  RunsEnd
CHECK_DEADLOCK FALSE
