\* Two tabs and two entries, of which a batch takes one.
CONSTANTS
  Keys = {k1, k2}
  Procs = {p1, p2}
  Steady = {p1}
  k1 = k1
  p1 = p1
  NoKey = NoKey
  BatchSize = 1
  MaxAttempts = 2
  ClaimTimeout = 1
  RetryDelays = {1}
  MaxNow = 2
  Gateways = {TRUE, FALSE}
  MaxSends = 3
  MaxStops = 1
SPECIFICATION PartSpec
PROPERTIES OutboxSpec SettlesTruly
