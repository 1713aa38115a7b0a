\* One tab, one entry and a bridge with a gateway: a delivery whose answer is
\* lost is sent again.
CONSTANTS
  Keys = {k1}
  Procs = {p1}
  Steady = {}
  NoKey = NoKey
  BatchSize = 1
  MaxAttempts = 3
  ClaimTimeout = 1
  RetryDelays = {0, 1}
  MaxNow = 1
  Gateways = {TRUE}
  MaxSends = 2
  MaxStops = 0
SPECIFICATION Spec
PROPERTIES DuplicatesAreIdempotent
