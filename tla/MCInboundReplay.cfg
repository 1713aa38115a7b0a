\* One tab, an identity created here, two contact cards from another device.
CONSTANTS
  p1 = p1
  p2 = p2
  Events <- MCCards
  Invalid = {}
  OwnEvents <- MCOwnEvents
  NoEvent = NoEvent
  Pullers = {p1}
  Steady = {}
  Limit = 1
  MaxRecords = 3
SPECIFICATION Spec
PROPERTIES ReplayIsNoOp
