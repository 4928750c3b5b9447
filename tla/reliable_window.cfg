CONSTANTS
  Undefined = Undefined
  Indexes <- TenIndexes
  WINDOW_SIZE = 3

SPECIFICATION Spec

INVARIANTS
  TypeOK
  AdmittedOnce
  WindowIsFrontier
PROPERTY RefinesDuplicateFilter
