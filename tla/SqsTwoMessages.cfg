SPECIFICATION Spec
CONSTANTS
  m1 = m1
  m2 = m2
  Msg = {m1, m2}
  Worker = {w1}
  Id = {i1, i2, i3, i4, i5}
  NoId = NoId
  ConfiguredRetries = 1
  BatchLimit = 2
  Custom <- CustomSix
  Outcomes <- OneOfEach
  Faults = {"ackLost", "deleteFails", "expires", "stops"}
  MaxFaults = 1
INVARIANTS ShutdownBounded MessageConserved BudgetRespected
