SPECIFICATION FairSpec
CONSTANTS
  Migrators = {m1, m2}
  Openers = {o1}
  None = None
  MaxCrashes = 0
INVARIANT RejectedWithoutMutation
