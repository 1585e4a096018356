CONSTANTS
  Adapters = {a1}
  None = None
  Runs = {r1, r2}
  Leases = {l1, l2}
  Requests = {q1}
  TrainingEnabled = {TRUE}
  Actors = {"nightly", "lease", "leaseReconciler", "stalledReconciler", "rollback",
            "duplicate", "crash"}
  Faults = {"docker", "health", "drain", "memory", "corpus", "probe", "refresh",
            "manifest", "post", "trainer"}
SPECIFICATION Spec
SYMMETRY Symmetry
INVARIANT TypeOK
INVARIANT LeaseExcludesInference
PROPERTY OneTenant
PROPERTY DrainedBeforeStop
PROPERTY LeaseEndsByItsClient
CHECK_DEADLOCK FALSE
