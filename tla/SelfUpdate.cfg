CONSTANTS
  Runs = {a, b}
  Releases <- TwoReleases
  Builds <- MCBuilds
SPECIFICATION Spec
INVARIANTS
  InstalledWhole
  BinaryInPlace
  NeverBackwards
  ModePreserved
PROPERTIES
  KeepsHandsOff
  UpdatesEnd
CHECK_DEADLOCK FALSE
