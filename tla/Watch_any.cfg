\* Everything the users of the directory do, with one restart or failure.
SPECIFICATION Spec
CONSTANTS
  f1 = f1
  f2 = f2
  Files = {f1, f2}
  PollingModes = {FALSE, TRUE}
  AssumeClosed = 1
  TouchExisting = TRUE
  Manners = {{"touch", "replace", "rename", "rename open"}, {"read", "touch", "rename"}}
  Coalesce = FALSE
  MaxSize = 1
  MaxReaders = 2
  MaxOps = 3
  MaxStops = 1
SYMMETRY FileSymmetry
INVARIANTS TypeOK DecksAgree DueFilesExist BreakIsSafe QuietFilesAreReady
CHECK_DEADLOCK FALSE
