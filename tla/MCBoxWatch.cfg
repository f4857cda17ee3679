SPECIFICATION MCSpec
CONSTANTS
  Handles = {h1, h2}
  Calls = {c1, c2}
  Keys = {k1}
  MaxEvents = 3
  MaxRestarts = 1
  None = None
SYMMETRY WatchSymmetry
INVARIANTS
  EventsFollowCommits
  SnapshotCatchesUp
  SequentialCallsConverge
