SPECIFICATION FairSpec
CONSTANTS
  RoutingKeys <- Keys2
  Settings <- Listeners
  MaxConnects = 2
  MaxFaults = 1
INVARIANTS ListenerInv ConsumerIsBound ReadyKeepsEvent CopiesOnlyWhenFresh ReadinessIsTrue
PROPERTY EventuallyConsumes
\* A listener that has ended, or consumes what there is, stops.
CHECK_DEADLOCK FALSE
