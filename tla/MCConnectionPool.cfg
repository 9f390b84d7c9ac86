SPECIFICATION Spec
CONSTANTS
  ListRequests = {l1, l2}
  CatalogWrites = {w1}
  Reads = {q1, q2}
  PoolSize = 4
  Nobody = Nobody
INVARIANTS
  TypeOK
  HolderCanGoOn
PROPERTIES
  EveryRequestAnswered
