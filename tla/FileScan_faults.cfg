\* One request, two scanners: one stop or kill of any process, both time limits.
SPECIFICATION Spec
CONSTANTS
  q1 = q1
  q2 = q2
  w1 = w1
  w2 = w2
  f1 = f1
  f2 = f2
  Requests = {q1}
  Scanners = {w1, w2}
  Files = {f1}
  FileOf <- OneFile
  Policy = "quarantined"
  DeleteLimit = 1
  Outcomes <- FewOutcomes
  MinScanTime = 1
  MaxScanTime = 1
  MaxAge = 2
  MaxInbox = 2
  MaxStops = 1
SYMMETRY ScannerSymmetry
INVARIANTS TypeOK RecordsAreFinal RecordedOnce VerdictsAreFaithful DeletesAreOnRecord
