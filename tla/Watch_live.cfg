\* Whatever is written or moved in is handed over, and not while it is written.
SPECIFICATION FairSpec
CONSTANTS
  f1 = f1
  f2 = f2
  Files = {f1, f2}
  PollingModes = {FALSE}
  AssumeClosed = 1
  TouchExisting = TRUE
  Manners = {{"rename", "touch"}}
  Coalesce = TRUE
  MaxSize = 1
  MaxReaders = 0
  MaxOps = 3
  MaxStops = 1
INVARIANTS WritersAreLeftAlone
PROPERTY EventuallyHandedOver
CHECK_DEADLOCK FALSE
