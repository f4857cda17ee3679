SPECIFICATION FairSpec
CONSTANTS
  Migrators = {m1, m2}
  Openers = {o1, o2}
  None = None
  MaxCrashes = 2
INVARIANTS
  CleanDestination
  NoEscape
  NoHalfMigratedBox
  ReservationExclusive
PROPERTY ReservationReleased
