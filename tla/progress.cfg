CONSTANTS
  Adapters = {a1, a2}
  None = None
  Runs = {r1}
  Leases = {l1}
  Requests = {q1}
  TrainingEnabled = {TRUE}
  Actors = {"nightly", "lease", "leaseReconciler", "stalledReconciler"}
  Faults = {"health", "drain", "memory", "probe", "refresh", "manifest", "post",
            "trainer"}
SPECIFICATION FairSpec
PROPERTY TrainingEnds
PROPERTY InferenceReturns
CHECK_DEADLOCK FALSE
