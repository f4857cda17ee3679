SPECIFICATION FairSpec
CONSTANTS
  Threads = {t1, t2}
  Names = {"a"}
  Roots = {"r1", "r2"}
  MaxHandles = 1
  None = None
PROPERTY RootSwitchRejected
