SPECIFICATION FaultySpec
CONSTANTS
  Keys = {"a", "b"}
  Values = {"int", "bare"}
  Malformed = {}
  Fields = {"age"}
  IndexNames = {"byAge"}
  Scalars = {"1"}
  IndexScalar <- MCIndexScalar
  Canon <- MCCanon
  Passwords = {"p1"}
  MaxBatch = 1
  Absent = Absent
  NoScalar = NoScalar
  Unsupported = Unsupported
  NoField = NoField
  Plain = Plain
PROPERTY ReopenKeepsRecords
