CONSTANTS
  Adapters = {a1}
  None = None
  Runs = {r1}
  Leases = {l1}
  Requests = {q1}
  TrainingEnabled = {TRUE}
  Actors = {"lease", "leaseReconciler"}
  Faults = {}
SPECIFICATION Spec
INVARIANT NeverShutWithoutOwner
CHECK_DEADLOCK FALSE
