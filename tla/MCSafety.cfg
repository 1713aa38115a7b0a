\* Admission: two requests at a time, for an envelope that is in order and one
\* that is not.  Cases: two reports of three are taken, an appeal, an item
\* for two moderators, one policy, two decisions and two rules.
CONSTANTS
  AdmKeys = {k1, k2}
  Peers = {p1}
  Handlers = {h1, h2}
  Sources = {s1}
  HasStore = TRUE
  k1 = k1
  k2 = k2
  PeerOf <- PeerOfValue
  FlawOf <- FlawOfValue
  p1 = p1
  ReplayTtl = 2
  MaxEntries = 1
  Capacity = 1
  BaseBackoff = 1
  MaxBackoff = 2
  MinScore <- MinScoreValue
  MaxScore = 1
  DecayPerTick = 10
  QuarantineThreshold <- QuarantineValue
  RecoveryThreshold <- RecoveryValue
  MaxQuarantine = 4
  AdvisoryTtl = 1
  MaxAdmNow = 2
  MaxRequests = 3
  MaxUpsets = 1
  Controls <- MCControlEvents
  MalformedControls = {}
  MaxControlNow = 2
  LabelEvents <- MCLabelEvents
  MalformedLabels = {}
  MaxLabelRows = 5
  Reports <- MCReports
  ReportCap = 2
  Appeals <- MCAppeals
  Decisions <- MCDecisions
  QueueItems = {q1}
  Assignees = {m1, m2}
  Policies = {"c1"}
  MaxVersion = 2
  Rules = {c2, c3}
  MaxDelta = 1
  Grants <- MCGrants
  Revocations <- MCRevocations
  MaxCapNow = 2
  RepEvents <- MCRepEvents
  RepMalformed <- MCRepMalformed
  Publisher <- MCPublisher
  Seeds = {}
  Me = 1
  RepWindow = 1
  RepBucket = 1
  MaxSpan = 1
  MaxRepNodes = 5
  MaxEdges = 2
  Iterations = 3
  Registry <- MCRegistry
  Entries <- MCEntries
  MaxEntered = 1
  MaxRepRows = 3
  MaxRepNow = 1
  CliqueNodes = 3
  Parties = {"p", "q"}
  Deeds = {"x", "*"}
  AnyDeed = "*"
  Places <- MCPlaces
  Expiries = {1, 2, 3}
  ChainNow = 1
  RecordIssuer = "p"
  RecordSubject = "q"
  MaxChainDepth = 2
  MaxLinks = 3
  Registrations <- MCRegistrations
  Invocations <- MCInvocations
  RevocationDates = {0}
  VcBindings <- MCVcBindings
  VcWindow <- MCVcWindow
  MaxPrNow = 1
SYMMETRY SameHandlers
\* The deliveries to a gateway and the rows of a log are bounded.
CHECK_DEADLOCK FALSE
SPECIFICATION SafetySpec
INVARIANTS OneAtATimeIsSafe StrangersGainNothing EndorsedIsCurrent CliquesAreFound GrantedAllTheWay NothingIsLaundered
PROPERTIES DelegationIsBounded QuarantineHolds ShownByTheLog CasesAreKept
