\* Outbox: two tabs share the database; batches of two entries, so that the
\* second claim of a batch is stamped with a time that may already be stale.
\* Blocks: two requests and two fetchers, whose breakers open at the second failure.
\* Keys: two devices with two calls at a time, three commits.
CONSTANTS
  Keys = {k1, k2}
  Procs = {p1, p2}
  NoKey = NoKey
  BatchSize = 2
  MaxAttempts = 2
  ClaimTimeout = 1
  RetryDelays = {1}
  MaxNow = 1
  Fetchers = {1, 2}
  BlockRequests = {r1, r2}
  Threshold = 2
  Cooldown = 1
  MaxCooldown = 2
  MaxTries = 2
  MaxBsNow = 4
  Members = {"a", "b"}
  KeyPackages <- MCKeyPackages
  Slots = {1, 2}
  NoState = NoState
  MaxCommits = 3
  MaxTexts = 2
  MaxLost = 1
SPECIFICATION ClientSpec
SYMMETRY Symmetry
INVARIANTS ConfirmedWasAccepted ExclusiveClaim AttemptsAreAccounted SourcesAreTriedAgain NoKeyIsUsedTwice
PROPERTIES SettledIsFinal
