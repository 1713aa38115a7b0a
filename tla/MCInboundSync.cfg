\* Two tabs, one of which is kept going, two records, pages of up to two.
CONSTANTS
  p1 = p1
  p2 = p2
  Events <- MCEvents
  Invalid <- MCInvalid
  OwnEvents <- MCOwnEvents
  NoEvent = NoEvent
  Pullers = {p1, p2}
  Steady = {p1}
  Limit = 2
  MaxRecords = 2
SPECIFICATION FairSpec
INVARIANTS NothingSkipped ControlMatchesStore
PROPERTIES ReaderSpec EveryRecordIsTaken
