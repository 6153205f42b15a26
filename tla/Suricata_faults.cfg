\* One instance, two captures; any two timeouts, refusals, deaths or crashes.
SPECIFICATION FairSpec
CONSTANTS
  p1 = p1
  p2 = p2
  c1 = c1
  c2 = c2
  NoCapture = NoCapture
  Paths = {p1}
  Captures = {c1, c2}
  Tries = 3
  Connects = 2
  ForceReconnect = 0
  Prompt = TRUE
  MaxFaults = 2
INVARIANTS TypeOK AnswersMatch RecordIsTrue RunWithMetadata
PROPERTIES KeepsPromise EveryCaptureEnds
CHECK_DEADLOCK FALSE
