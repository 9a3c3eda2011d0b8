CONSTANTS
  Commands <- MCCommands
  Trees <- MCTrees
SPECIFICATION Spec
INVARIANTS
  EveryApplicationOnce
  InTreeOrder
  GroupedByApplication
  WarningsKept
  OutputWhole
CHECK_DEADLOCK FALSE
