SPECIFICATION Spec
CONSTANTS
  x1 = x1
  x2 = x2
  x3 = x3
  x4 = x4
  i1 = i1
  i2 = i2
  i3 = i3
  i4 = i4
  NoCall = NoCall
  NoId = NoId
  CorrelationIds = {i1, i2, i3, i4}
  Calls = {x1, x2}
  CorrelationId <- TwiceId
  Parent <- TwiceParent
  MaxWrites = 2
  PoolSize = 2
  Faults = {}
  MaxFaults = 0
INVARIANT AllOrNothing
\* The system stops once every call that is made has answered.
CHECK_DEADLOCK FALSE
