SPECIFICATION FairSpec
CONSTANTS
  m1 = m1
  m2 = m2
  Msg = {m1}
  Worker = {w1}
  Id = {i1, i2, i3}
  NoId = NoId
  ConfiguredRetries = 1
  BatchLimit = 1
  Custom <- CustomSix
  Outcomes <- AnyOutcome
  Faults = {"sendFails", "ackLost", "deleteFails", "expires", "stops"}
  MaxFaults = 1
PROPERTIES EventuallySettled CancelledStops
