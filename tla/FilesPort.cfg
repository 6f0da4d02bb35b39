SPECIFICATION FilesSpec
CONSTANTS
  i1 = i1
  a1 = a1
  a2 = a2
  Instances = {i1}
  Heads = {}
  Accounts = {a1, a2}
  Plain = {a1}
  HostOf <- OneHost
  ReadErrors = FALSE
  MaxRuns = 1
  MaxEdits = 1
  MaxTokens = 2
  MaxCuts = 1
INVARIANT OwnPassword
CHECK_DEADLOCK FALSE
