SPECIFICATION Spec
CONSTANTS
  q1 = q1
  q2 = q2
  q3 = q3
  c1 = c1
  c2 = c2
  c3 = c3
  c4 = c4
  Queues = {q1, q2}
  Consumers = {c1, c2, c3}
  Messages = {1, 2, 3, 4}
  QueueOf <- MixedQueueOf
  Serves <- MixedServes
  TypeOf <- MixedTypeOf
  MessageId <- MixedId
  ListenTo <- MCListenTo
  Prefix <- MCPrefix
  AutoAck <- MCAutoAck
  IsRetry <- MCIsRetry
  Faults = {"check"}
  MaxFaults = 1
PROPERTY OtherExceptionsReject
\* The system stops once every message is settled and no failure is left.
CHECK_DEADLOCK FALSE
