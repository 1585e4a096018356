CONSTANTS
  Adapters = {a1, a2}
  None = None
  Runs = {r1, r2}
  Leases = {}
  Requests = {}
  TrainingEnabled = {TRUE, FALSE}
  Actors = {"nightly", "rollback", "operator", "compose"}
  Faults = {"probe", "manifest", "lateTrainer"}
SPECIFICATION DreamSpec
SYMMETRY Symmetry
INVARIANT AliasesApproved
PROPERTY VerdictIsFinal
CHECK_DEADLOCK FALSE
