CONSTANTS
  Entries <- MCEntries
  Hidden <- MCHidden
  Matching <- MCMatching
  PathRank <- MCPathRank
  MaxChanges = 2
  Starts <- MCStarts
SPECIFICATION CollectSpec
INVARIANTS
  EveryEntryFoundUnlessRootHidden
  NothingElseFound
  InOrderOfPath
CHECK_DEADLOCK FALSE
