CONSTANTS
  Runs = {r1, r2}
  Files = 2
  Base <- MCBase
  Charts <- TwoBases
SPECIFICATION Spec
INVARIANT OnlySameBaseMixes
PROPERTY EveryCallReturns
CHECK_DEADLOCK FALSE
