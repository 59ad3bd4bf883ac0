SPECIFICATION Spec
CONSTANTS
  m1 = m1
  m2 = m2
  Msg = {m1}
  Worker = {w1, w2}
  Id = {i1, i2, i3}
  NoId = NoId
  ConfiguredRetries = 1
  BatchLimit = 2
  Custom <- CustomNone
  Outcomes <- AnyOutcome
  Faults = {"sendFails", "ackLost", "deleteFails", "expires", "stops"}
  MaxFaults = 1
INVARIANTS TypeOK NoMessageLost DlqJustified
PROPERTY ImplementsDelivery
