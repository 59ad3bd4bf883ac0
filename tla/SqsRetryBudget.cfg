SPECIFICATION Spec
CONSTANTS
  m1 = m1
  m2 = m2
  Msg = {m1}
  Worker = {w1}
  Id = {i1, i2, i3}
  NoId = NoId
  ConfiguredRetries = 2
  BatchLimit = 1
  Custom <- CustomNone
  Outcomes <- TransientOnly
  Faults = {}
  MaxFaults = 0
INVARIANT BudgetRespected
