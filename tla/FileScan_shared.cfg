\* Two requests for one file, one scanner, a stop of the scanner, a kill of any process.
SPECIFICATION FairSpec
CONSTANTS
  q1 = q1
  q2 = q2
  w1 = w1
  w2 = w2
  f1 = f1
  f2 = f2
  Requests = {q1, q2}
  Scanners = {w1}
  Files = {f1}
  FileOf <- OneFile
  Policy = "quarantined"
  DeleteLimit = 1
  Outcomes <- FewOutcomes
  MinScanTime = 1
  MaxScanTime <- NoLimit
  MaxAge = 0
  MaxInbox = 2
  MaxStops = 1

PROPERTIES KeepsPromise DroppedFilesGo SubmittedIsRecorded LoggerForgets
