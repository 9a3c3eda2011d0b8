CONSTANTS
  Repos = {"https://host/repo", "https://Host/repo.git"}
  NoRepo = "no repo"
  Refs = {"values", "charts", "bad!"}
  NoRef = "no ref"
  LegalRefs = {"values", "charts"}
  NoChart = "no chart"
  NoBlock = NoBlock
  NoKind = 0
  Charts = {"chart"}
  Nothing = Nothing
  NormalURL <- MCNormalURL
  GroupKind <- MCGroupKind
  ClusterKinds <- MCClusterKinds
  Blocks <- MCBlocks
  Objects <- MCObjects
  Applications <- OrderApplications
  Options <- MCOptions
SPECIFICATION Spec
INVARIANT StableOrder
CHECK_DEADLOCK FALSE
