\* One rebuild and one sweep at a time, one envelope.
CONSTANTS
  self = self
  foreign = foreign
  box = box
  r1 = r1
  s1 = s1
  Events <- MCFetchedEvents
  ToOwner = {self}
  FromOwner = {self}
  ExpiresAt <- MCExpiresAt
  NoEvent = NoEvent
  Rebuilders = {r1}
  Sweepers = {s1}
  FreshIds = {7}
  MaxNow = 1
SPECIFICATION Spec
PROPERTIES FetchedIsLeftAlone
