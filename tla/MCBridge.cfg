\* Two deliveries at a time of three requests for two keys, of which one write
\* may fail while the requests are for one key, or one of four requests for three
\* keys; room for two records that live for one tick.  Two connections, four
\* records of the stream, pages of two and a buffer of two.  Three operations on a
\* database with room for one record, one failure or restart.  Two connections and
\* two saves of the limiter's buckets at a time; three changes of two tokens, two
\* saves at a time.
CONSTANTS
  k1 = k1
  k2 = k2
  k3 = k3
  e1 = e1
  e2 = e2
  t1 = t1
  Deliveries <- MCDeliveries
  Handlers = {h1, h2}
  NoDelivery = NoDelivery
  NotLoaded = NotLoaded
  ReaderTarget = t1
  MaxRecords = 2
  Ttl = 1
  ReadLimit = 1
  SeqPerTick = 1
  MaxNow = 1
  MaxSequence = 3
  MaxFailures = 1
  MaxConns = 2
  MaxPublished = 4
  BacklogLimit = 2
  MaxBuffered = 2
  SqlKeys = {1, 2}
  SqlRoom = 1
  SqlTtl = 1
  SqlPerTick = 2
  NoRow = NoRow
  NoTx = NoTx
  MaxSqlOps = 3
  MaxSqlUpsets = 1
  MaxSqlNow = 1
  Auth <- MCAuth
  NoAuth = NoAuth
  BadAuth = BadAuth
  Presented = {"v", "x"}
  NoValue = NoValue
  HttpConns = {1, 2}
  HttpLimit <- MCLimit
  MaxFlushes = 2
  MaxRestarts = 1
  MaxHttpNow = 3
  Tokens <- MCTokens
  InitialTokens <- MCInitialTokens
  NoFile = NoFile
  MaxSaves = 3
  MaxChanges = 3
  MaxTokenNow = 1
SPECIFICATION BridgeSpec
SYMMETRY Symmetry
INVARIANTS ConfirmedIsStored ReaderMissesNothing LiveStreamIsWhole RevokedStaysOut LimiterKeepsCount
PROPERTIES SequencesNameRecords OneDeliveryPerKey SqlImplementsStore
