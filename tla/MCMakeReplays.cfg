SPECIFICATION AdoptSpec
CONSTANTS
  None = None
  Bare <- MCBare
  TypeKey <- MCTypeKey
  Family <- MCFamily
  Rank <- MCRank
  MergeKinds <- MCMergeKinds
  Projects <- MCEnumProjects
  Catalog = {"int", "bigint", "int8", "text"}
  MaxMigrations = 3
  MaxEdits = 2
CHECK_DEADLOCK FALSE
INVARIANT AcceptedMigrationReplays
