SPECIFICATION Spec
CONSTANTS
  m1 = m1
  m2 = m2
  Msg = {m1, m2}
  Worker = {w1}
  ConfiguredRetries = 1
  FetchLimit = 1
  Outcomes <- PermanentFirst
  Faults = {"sendFails"}
  MaxFaults = 3
INVARIANT NoMessageLost
