\* A running instance may take too long for the handshake.
SPECIFICATION Spec
CONSTANTS
  p1 = p1
  p2 = p2
  c1 = c1
  c2 = c2
  NoCapture = NoCapture
  Paths = {p1}
  Captures = {c1, c2}
  Tries = 3
  Connects = 2
  ForceReconnect = 0
  Prompt = FALSE
  MaxFaults = 2
INVARIANT OwnAnswers
CHECK_DEADLOCK FALSE
