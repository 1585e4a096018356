CONSTANTS
  Sessions = {1, 2}
  Jobs = {j1, j2}
  Window = 1
  MaxCrashes = 1
SPECIFICATION Spec
SYMMETRY Symmetry
INVARIANT TypeOK
INVARIANT SkippedIsWritten
INVARIANT StoredOnce
INVARIANT TrainedAsRecorded
