SPECIFICATION MCSpec
CONSTANTS
  Calls = {c1, c2, c3}
  Procs = {p1, p2}
  PidOf <- MCPidOf
  CommandLines <- MCEveryCommand
  Keys = {1, 2}
  IndexNames = {1}
  Values = {"v", "ext"}
  Unreadable = {"ext"}
  Password = "right"
  DefaultLimit = 2
  MaxKeyPageSize = 3
  MaxAttempts = 2
  MaxCommits = 3
  Missing = Missing
  Plain = Plain
  None = None
  Torn = Torn
SYMMETRY MCSymmetry
INVARIANTS
  AnswersOneContent
  OwnCopy
  NeverStuck
CHECK_DEADLOCK FALSE
