CONSTANTS
  Adapters = {a1, a2, a3}
  None = None
  RouteIds = {i1, i2}
  Requests = {q1, q2}
  MaxCpuLoras = 2
  MaxOperations = 2
  MaxWaiting = 1
  MaxBare = 1
SPECIFICATION MCSpec
SYMMETRY Symmetry
INVARIANT TypeOK
INVARIANT CacheBounded
PROPERTY SentToLoaded
PROPERTY OnlyApprovedServed
PROPERTY InUseStays
