CONSTANTS
  Applications <- MCApplications
  Charts = {"web"}
  Contents <- MCContents
  Newest = 3
  MaxRuns = 2
  MaxFileEdits = 2
SPECIFICATION InputsSpec
INVARIANTS
  VersionsFixed
  OneClusterPerApplication
CHECK_DEADLOCK FALSE
