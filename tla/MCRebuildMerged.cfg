SPECIFICATION Spec
CONSTANTS
  None = None
  Bare <- MCBare
  Affinity <- MCAffinity
  OnDelete <- MCOnDelete
  Histories <- MCHistories
INVARIANT RebuildPreservesTheRest
