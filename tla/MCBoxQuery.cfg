SPECIFICATION Spec
CONSTANTS
  Keys = {1, 2}
  Fields = {"status", "age"}
  Records <- MCRecords
  Filters <- MCFilters
  Depth <- MCDepth
  Queries <- MCQueries
  Absent = Absent
  NoLimit = NoLimit
INVARIANTS
  AnswersSnapshot
  
