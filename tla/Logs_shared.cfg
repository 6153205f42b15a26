\* Two uploads of one name on their way to filebeat and out of the volume.
SPECIFICATION FairSpec
CONSTANTS
  u1 = u1
  u2 = u2
  n1 = n1
  r1 = r1
  r2 = r2
  None = None
  Uploads = {u1, u2}
  Comes <- MCComes
  Names = {n1}
  Runs = {r1, r2}
  MaxCopies = 1
  MaxFaults = 1
INVARIANTS TypeOK OnePreparer NothingIsOverwritten NoPartIsLinked ReadBeforeRemoved
PROPERTIES ArchivesAreRead
CHECK_DEADLOCK FALSE
