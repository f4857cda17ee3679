SPECIFICATION MCSpec
CONSTANTS
  Half = 8
  Parts = 2
  RecordIds = {k1, k2}
  NoNumber = NoNumber
  Numbers <- MCNumbers
  Texts <- MCTexts
  Nesting = 18
  DartValues <- MCDartValues
  Foreign <- MCForeign
  Paths <- MCPaths
  Fields = {"a", "b"}
  BadFields = {"."}
  Comparisons <- MCComparisons
  Grouped <- MCGrouped
  Pages <- MCPages
  Payloads <- MCPayloads
  Numerals <- MCNumerals
  MaxCalls = 3
  k1 = k1
  k2 = k2
  Keys = {k1, k2}
  Readers = {r}
  Values = {v}
  Passwords = {p}
  Requests <- MCRequests
  Absent = Absent
  Plain = Plain
  MaxCommits = 5
  MaxFiles = 3
INVARIANTS
  SortFollowsReals
  LookupFindsAll
  RoundTrip
  QuerySeesFields
  
  QueryArrives
  LeftAssociative
  FrontendsAgree
  EngineGetsWellformed
  AnswersOneCommit
CHECK_DEADLOCK FALSE
