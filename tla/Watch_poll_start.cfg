\* What a restarted process makes of the files it finds when polling.
SPECIFICATION Spec
CONSTANTS
  f1 = f1
  f2 = f2
  Files = {f1}
  PollingModes = {TRUE}
  AssumeClosed = 1
  TouchExisting = TRUE
  Manners = {{}}
  Coalesce = TRUE
  MaxSize = 1
  MaxReaders = 0
  MaxOps = 2
  MaxStops = 1
INVARIANTS FilesGetReady
CHECK_DEADLOCK FALSE
