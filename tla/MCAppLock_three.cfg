\* Three copies, one of which may be killed.
CONSTANTS
  Procs = {p1, p2, p3}
  Killable = {p1}
  NoFile = NoFile
  Garbage = Garbage
SPECIFICATION FairSpec
INVARIANT TypeOK
PROPERTIES ExclusiveUnlessOvertaken MeddlingBlocks StaleLockCleared
