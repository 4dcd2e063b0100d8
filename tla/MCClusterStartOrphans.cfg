CONSTANTS
  MnCount <- MCMnCount
  PoolSize <- MCPoolSize

SPECIFICATION Spec

INVARIANT NoOrphanNodes
