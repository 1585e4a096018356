CONSTANTS
  Adapters = {a1}
  None = None
  Runs = {r1}
  Leases = {l1}
  Requests = {q1}
  TrainingEnabled = {FALSE}
  Actors = {"nightly", "lease"}
  Faults = {}
SPECIFICATION Spec
PROPERTY LeaseEndsByItsClient
CHECK_DEADLOCK FALSE
