CONSTANTS
  Adapters = {a1, a2}
  None = None
  Runs = {r1, r2}
  Leases = {l1, l2}
  Requests = {q1}
  TrainingEnabled = {TRUE}
  Actors = {"nightly", "lease", "stalledReconciler", "duplicate"}
  Faults = {"docker", "health", "drain", "memory", "corpus", "probe", "refresh",
            "manifest", "post", "trainer", "lateTrainer"}
SPECIFICATION Spec
SYMMETRY Symmetry
INVARIANT GateMatchesPhase
CHECK_DEADLOCK FALSE
