\* One delivery at a time, one write that fails.
CONSTANTS
  k1 = k1
  k2 = k2
  k3 = k3
  e1 = e1
  e2 = e2
  t1 = t1
  h1 = h1
  h2 = h2
  Deliveries <- MCTwoKeys
  Handlers = {h1}
  NoDelivery = NoDelivery
  NotLoaded = NotLoaded
  ReaderTarget = t1
  MaxRecords = 2
  Ttl = 1
  ReadLimit = 1
  SeqPerTick = 1
  MaxNow = 1
  MaxSequence = 3
  MaxFailures = 1
  MaxConns = 0
  MaxPublished = 0
  BacklogLimit = 1
  MaxBuffered = 1
  SqlKeys = {1, 2}
  SqlRoom = 1
  SqlTtl = 1
  SqlPerTick = 2
  NoRow = NoRow
  NoTx = NoTx
  MaxSqlOps = 0
  MaxSqlUpsets = 0
  MaxSqlNow = 1
  Auth <- MCAuth
  NoAuth = NoAuth
  BadAuth = BadAuth
  Presented = {"v", "x"}
  NoValue = NoValue
  HttpConns = {1, 2}
  HttpLimit <- MCLimit
  MaxFlushes = 0
  MaxRestarts = 0
  MaxHttpNow = 0
  Tokens <- MCTokens
  InitialTokens <- MCInitialTokens
  NoFile = NoFile
  MaxSaves = 0
  MaxChanges = 0
  MaxTokenNow = 0
SPECIFICATION BridgeSpec
INVARIANTS ConfirmedIsDurable
