SPECIFICATION Spec
CONSTANTS
  e1 = e1
  e2 = e2
  e3 = e3
  e4 = e4
  r1 = r1
  r2 = r2
  r3 = r3
  u1 = u1
  u2 = u2
  shipment = shipment
  alert = alert
  gps = gps
  AnyType = AnyType
  NoBreaker = NoBreaker
  Types = {shipment, alert, gps}
  EventType <- MCEventType
  Subscribed <- MCSubscribed
  Url <- MCUrl
  Schedule <- MCSchedule
  FailureThresh = 2
  SuccessThresh = 2
  OpenTimeout = 1
  Events = {e1, e2, e3}
  Regs = {r1}
  URLs = {u1}
  Active = {r1}
  Malformed = {}
  Unroutable = {}
SYMMETRY Symmetry
INVARIANTS
  TypeOK
  SharedBreaker
  FailingIsNotClosed
PROPERTIES
  ProbeOnlyWhenQuiet
  ClosesAfterSuccesses
  SkippedOnlyAfterFailure
