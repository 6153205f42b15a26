\* Two uploads of one name or of two, and a fault.
SPECIFICATION FairSpec
CONSTANTS
  u1 = u1
  u2 = u2
  a = a
  agz = agz
  b = b
  None = None
  Arkime = Arkime
  Zeek = Zeek
  Uploads = {u1, u2}
  Comes <- MCComes
  Names = {a, agz, b}
  Plain <- MCPlain
  MaxFaults = 1
INVARIANTS TypeOK UploadsAreKept AnalysedOnce
PROPERTY EveryUploadIsHandled
CHECK_DEADLOCK FALSE
