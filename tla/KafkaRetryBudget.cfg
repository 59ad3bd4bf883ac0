SPECIFICATION Spec
CONSTANTS
  m1 = m1
  m2 = m2
  Msg = {m1}
  Worker = {w1}
  ConfiguredRetries = 2
  FetchLimit = 1
  Outcomes <- TransientOnly
  Faults = {}
  MaxFaults = 0
INVARIANT BudgetRespected
