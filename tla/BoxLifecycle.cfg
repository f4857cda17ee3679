SPECIFICATION FairSpec
CONSTANTS
  Threads = {t1, t2, t3}
  Names = {"a"}
  Roots = {r1}
  MaxHandles = 2
  None = None
INVARIANTS
  MutationExclusive
  HandlesCounted
  CompactionAlone
  WritesReachRegisteredBox
  WritersFindOwnedBox
  OpenBoxHasFile
PROPERTIES
  MaintenanceEnds
  EveryCallReturns
