SPECIFICATION Spec
CONSTANTS
  PoolSize = 3
  K = 2
  MaxTimestamp = 7
INVARIANTS
  EvictPicksLRUK
PROPERTY ImplementsReplacer
