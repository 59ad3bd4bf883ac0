SPECIFICATION FairSpec
CONSTANTS
  r1 = r1
  r2 = r2
  r3 = r3
  r4 = r4
  Request = {r1, r2, r3, r4}
  UserRequest = {r1, r2, r3}
  KeyOf <- Keys
  MaxId = 4
  Limits = {0, 1, 3}
  DefaultLimit = 1
  MaxLimit = 2
  Failures = TRUE
INVARIANTS TypeOK WalkExact
PROPERTIES ImplementsAtomic WalkEnds
