SPECIFICATION Spec
CONSTANTS
  Keys = {"a", "b"}
  Values = {"int", "float", "list", "bad"}
  Malformed = {"bad"}
  Fields = {"age", "rank"}
  IndexNames = {"i", "j"}
  Scalars = {"1", "1.0"}
  IndexScalar <- MCIndexScalar
  Canon <- MCCanon
  Passwords = {"p1", "p2"}
  MaxBatch = 3
  Absent = Absent
  NoScalar = NoScalar
  Unsupported = Unsupported
  NoField = NoField
  Plain = Plain
INVARIANTS
  TypeOK
  IndexConsistent
  StoredRecordsMaintainable
  EncryptionUniform
  HandleMatchesFile
PROPERTIES
  EncryptionSticks
  OpenKeepsRecords
  BatchAllOrNothing
  ImplementsLogicalBox
