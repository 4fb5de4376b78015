SPECIFICATION AdoptSpec
CONSTANTS
  None = None
  Bare <- MCBare
  TypeKey <- MCTypeKey
  Family <- MCFamily
  Rank <- MCRank
  MergeKinds <- MCMergeKinds
  Projects <- MCProjects
  Catalog = {"int", "bigint", "int8", "text"}
  MaxMigrations = 3
  MaxEdits = 2
CHECK_DEADLOCK FALSE
INVARIANTS
  MigrationReplays
  HistoryStaysUsable
  PlainMakeReachesDesired
  NotAskedAgain
  ConversationEnds
  RollbackRestores
  PrefixesKeepReferences
  CycleOnlyThrough
  AdoptionOnlyAdds
