\* Two requests for one file under the quarantined policy.
SPECIFICATION Spec
CONSTANTS
  q1 = q1
  q2 = q2
  w1 = w1
  w2 = w2
  f1 = f1
  f2 = f2
  Requests = {q1, q2}
  Scanners = {w1}
  Files = {f1}
  FileOf <- OneFile
  Policy = "quarantined"
  DeleteLimit = 1
  Outcomes <- FewOutcomes
  MinScanTime = 1
  MaxScanTime <- NoLimit
  MaxAge = 0
  MaxInbox = 2
  MaxStops = 0
SYMMETRY RequestSymmetry
INVARIANTS FlaggedFilesAreKept
