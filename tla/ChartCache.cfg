CONSTANTS
  Runs = {r1, r2, r3}
  Files = 1
  Base <- MCBase
  Charts <- OneBase
SYMMETRY RunSymmetry
SPECIFICATION Spec
INVARIANTS
  TypeOK
  WholeUnlessCrowded
PROPERTIES
  AbandonedStays
  KeepsStorePromise
CHECK_DEADLOCK FALSE
