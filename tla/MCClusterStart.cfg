CONSTANTS
  MnCount <- MCMnCount
  PoolSize <- MCPoolSize

SPECIFICATION Spec

INVARIANT TypeOK
INVARIANT ConnectsAfterStarts
INVARIANT StarOnReturn
INVARIANT CleanupOnlyWhenStopped
