CONSTANTS
  Documents <- MCDocuments
  Depth <- MCDepth
  Namespace = "argocd"
  AppSets <- MCAppSets
  ClustersFiles <- MCClustersFiles
  PullsFiles <- MCPullsFiles
  MaxEdits = 1
SPECIFICATION Spec
INVARIANTS
  EverySecretFoundUnlessNamesCollide
  EveryRepoItsPullRequestsIfOneProvider
  ValuesFromParametersOnly
  WarnedWhenLess
PROPERTIES
  ImplementsContract
CHECK_DEADLOCK FALSE
