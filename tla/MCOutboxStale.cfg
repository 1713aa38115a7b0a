\* Two tabs and one entry: a late outcome against a newer one.
CONSTANTS
  Keys = {k1}
  Procs = {p1, p2}
  NoKey = NoKey
  BatchSize = 1
  MaxAttempts = 3
  ClaimTimeout = 1
  RetryDelays = {1}
  MaxNow = 1
SPECIFICATION Spec
PROPERTIES StaleResponsesKeepNewerState
