SPECIFICATION Spec
CONSTANTS
  Handles = {h1}
  Calls = {c1, c2}
  Keys = {k1, k2}
  MaxEvents = 2
  MaxRestarts = 0
  None = None
INVARIANTS
  MetadataConverges
