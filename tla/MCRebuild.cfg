SPECIFICATION Spec
CONSTANTS
  None = None
  Bare <- MCBare
  Affinity <- MCAffinity
  OnDelete <- MCOnDelete
  Histories <- MCHistories
INVARIANTS
  DatabaseIsAsReplayed
  RebuildKeepsValues
  NeverRefusedMidway
  ExpectedSchemaExecutes
