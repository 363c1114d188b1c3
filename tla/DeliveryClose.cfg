SPECIFICATION FairSpec
CONSTANTS
  q1 = q1
  q2 = q2
  q3 = q3
  c1 = c1
  c2 = c2
  c3 = c3
  c4 = c4
  Queues = {q1, q2}
  Consumers = {c1, c2, c3}
  Messages = {1, 2}
  QueueOf <- FanoutQueueOf
  Serves <- FanoutServes
  TypeOf <- FanoutTypeOf
  MessageId <- FanoutId
  ListenTo <- MCListenTo
  Prefix <- MCPrefix
  AutoAck <- MCAutoAck
  IsRetry <- MCIsRetry
  Faults = {"connection", "stop"}
  MaxFaults = 2
PROPERTY CloseShutsDown
\* The system stops once every message is settled and no failure is left.
CHECK_DEADLOCK FALSE
