SPECIFICATION Spec
CONSTANTS
  m1 = m1
  m2 = m2
  Msg = {m1, m2}
  Worker = {w1}
  ConfiguredRetries = 1
  FetchLimit = 2
  Outcomes <- AnyAnswer
  Faults = {"sendFails", "ackLost", "commitFails", "rebalances", "stops"}
  MaxFaults = 1
INVARIANTS NoMessageLost MessageConserved BudgetRespected
