CONSTANTS
  Adapters = {a1, a2}
  None = None
  Runs = {r1}
  Leases = {}
  Requests = {}
  TrainingEnabled = {TRUE}
  Actors = {"duplicate"}
  Faults = {}
SPECIFICATION DreamSpec
PROPERTY VerdictIsFinal
CHECK_DEADLOCK FALSE
