\* Mailbox: one rebuild and one sweep at a time, an envelope to oneself and a
\* foreign one.  Root: one rebuild.  Group: device 2 settles forks on its own
\* and takes controls in in one tab.  Authority: one host.  Keys: two tabs.
\* Budget: windows of three ticks for two runs and three entries.  Events: every
\* event there is.  Mail: one event for two identities with a device each.  Route
\* and thread: two who follow them.
CONSTANTS
  self = self
  foreign = foreign
  box = box
  r1 = r1
  s1 = s1
  Events <- MCEvents
  ToOwner = {self}
  FromOwner = {self}
  ExpiresAt <- MCExpiresAt
  NoEvent = NoEvent
  Rebuilders = {r1}
  Sweepers = {s1}
  FreshIds = {7}
  MaxNow = 1
  UdrEvents <- MCUdrEvents
  UdrInvalid <- MCUdrInvalid
  NoMailbox = NoMailbox
  UdrRebuilders = {r1}
  MlsControls <- MCControls
  MlsMalformed = {}
  MlsDevices = {2}
  MlsAutomated = {2}
  MlsPullers = 1
  IdEvents <- MCIdEvents
  IdMalformed <- MCIdMalformed
  NoKey = NoKey
  IdHosts = {h1}
  PublishScope = "publish"
  MaxIdNow = 1
  DiTabs = {p1, p2}
  Legacy = Legacy
  NoName = NoName
  Peer = Peer
  Self = Self
  MaxDiEpoch = 3
  WindowMs = 3
  MinIntervalMs = 1
  MaxRuns = 2
  MaxEntries = 3
  BatchSizes = {1, 2}
  RetryDelay <- DoublingDelay
  Never = Never
  MaxSendNow = 5
  MaxFailures = 2
  EvDevices = {"d1"}
  MailDevices = {"d1", "d2"}
  Identities = {"i1", "i2"}
  HomeOf <- MCHomeOf
  HeldRef <- MCHeldRef
  LostRef = "r0"
  Anyone = "anyone"
  MaxMoves = 4
  MaxMails = 1
  RouteKeepers = {k1, k2}
  Receipts <- MCReceipts
  ThisEnvelope = 1
  NoDate = NoDate
  ChatDevices = {p1, p2}
  ThisThread = 1
  ChatEvents <- MCChatEvents
  NoBody = NoBody
  NoThread = NoThread
SPECIFICATION DeviceSpec
INVARIANTS RowsBehindLog MlsForksAreSettledByContent DevicesAreRebuilt VerdictsAreKept OneIdentity BudgetAccounts KeptByItsParties ReplicasAgree
PROPERTIES ProjectionsHeal NothingGoesBack
