CONSTANTS
  Repos = {"https://host/repo", "https://Host/repo.git"}
  NoRepo = "no repo"
  Refs = {"values", "charts", "bad!"}
  NoRef = "no ref"
  LegalRefs = {"values", "charts"}
  NoChart = "no chart"
  NoBlock = NoBlock
  NoKind = 0
  Charts = {"chart"}
  Nothing = Nothing
  NormalURL <- MCNormalURL
  GroupKind <- MCGroupKind
  ClusterKinds <- MCClusterKinds
  Blocks <- MCBlocks
  Objects <- MCObjects
  Applications <- MCApplications
  Options <- MCOptions
SPECIFICATION Spec
INVARIANTS
  TypeOK
  OverlaysReleased
  CheckoutUntouched
  SourceTypeKept
  RefsResolve
  NamedObjectsStable
PROPERTIES
  KeepsContract
CHECK_DEADLOCK FALSE
