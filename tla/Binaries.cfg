SPECIFICATION FairSpec
CONSTANTS
  Budgets <- Scenarios
  Checker = {"mongo", "kafka", "sqs"}
  Critical = {"mongo"}
  FailureLimit = 2
  Request = {1, 2, 3, 4, 5, 6}
  Command = {1, 2}
  Client = {1, 2, 3}
  GlobalBurst = 5
  Burst = 1
  MaxSize = 2
  TTL = 1
  SpanTTL = 0
  StaleAfter = 0
  Never = Never
INVARIANTS TypeOK NoFalseAlarm ClientBounded SpansSettled SpansFlushed DrainBeforeRelease NothingLeaks
PROPERTIES OutageFollowed StallNoticed SignalStops
CHECK_DEADLOCK FALSE
