SPECIFICATION Spec
CONSTANTS
  q1 = q1
  q2 = q2
  q3 = q3
  c1 = c1
  c2 = c2
  c3 = c3
  c4 = c4
  Queues = {q1, q3}
  Consumers = {c1, c3, c4}
  Messages = {1, 2, 3, 4, 5, 6, 7}
  QueueOf <- DupQueueOf
  Serves <- DupServes
  TypeOf <- DupTypeOf
  MessageId <- DupId
  ListenTo <- MCListenTo
  Prefix <- MCPrefix
  AutoAck <- MCAutoAck
  IsRetry <- MCIsRetry
  Faults = {"check", "dispatch", "mark"}
  MaxFaults = 3
INVARIANT InOrder
INVARIANT AtMostOncePerFault
INVARIANT AutoAckStalls
PROPERTY NoEffectOnceHandled
\* The system stops once every message is settled and no failure is left.
CHECK_DEADLOCK FALSE
