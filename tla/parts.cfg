SPECIFICATION MCSpec
CONSTANTS
  c1 = c1
  c2 = c2
  i1 = i1
  i2 = i2
  Calls = {c1, c2}
  Ids = {i1, i2}
  MayAsk <- MCMayAsk
  None = None
  MaxSteps = 2
  MaxCrashes = 1
  s1 = s1
  s2 = s2
  o1 = o1
  o2 = o2
  Seeds = {s1, s2}
  Objects = {o1, o2}
  ObjectOf <- MCObjectOf
  Propagations = {p1, p2}
  Nobody = Nobody
  Frames = 2
  MaxRestarts = 1
  Sections = 3
  MaxDeaths = 2
  Projects = {1, 2}
  MaxVersions = 2
  MaxRewrites = 1
  MaxFailures = 1
  Artifacts = {m1, m2, m3}
  Unset = Unset
  MaxBase = 2
INVARIANTS
  PartsTypeOK
  CancelBinds
  PreviewIsOwn
  CheckpointHasMasks
  SeedsKept
  StatusIsTrue
  ServableFits
  RegisteredIsWhole
PROPERTIES
  TerminalIsFinal
  EveryCallEnds
  ToldStops
  ComesUp
  SkippedIsLearnt
  EveryCorpusJudged
CHECK_DEADLOCK FALSE
