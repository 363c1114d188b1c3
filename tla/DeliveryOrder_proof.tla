------------------------- MODULE DeliveryOrder_proof -------------------------
(***************************************************************************)
(* What the prefetch of one gives, for every set of messages, queues and   *)
(* consumers and any number of failures: a consumer holds at most one      *)
(* message.  While the channels last, it follows that a queue with one     *)
(* consumer is handled in order, that no dispatch repeats what is marked,  *)
(* and that auto-acknowledging consumers stall.  The second part shows how *)
(* often a dispatch takes effect, whether channels last or not.            *)
(***************************************************************************)
EXTENDS MessageDelivery_proof, FiniteSetTheorems

\* A message is outstanding only at a consumer of its queue, and a consumer has
\* one outstanding message at most.
HeldByListener ==
  \A m \in Messages : loc[m] \in Consumers => Serves[loc[m]] = QueueOf[m]

OneAtATime ==
  \A m, n \in Messages : loc[m] \in Consumers /\ loc[n] = loc[m] => n = m

\* While channels last a channel is open for good once it is open, and nothing
\* is left of an earlier one.
OpenForGood ==
  ChannelsLast =>
    \A c \in Consumers : chan[c] \in {"off", "open"} /\ (chan[c] = "off" => Idle(c))

\* Nobody settles the messages of a queue whose listener auto-acknowledges,
\* but for those of other types, which Deliver leaves at their consumer too.
AutoAckNeverSettles ==
  \A m \in Messages : AutoAck[QueueOf[m]] => ~Settled(m)

\* Two handlers of one event never run together while the channels last, so
\* what is dispatched is not marked yet.
DispatchUnmarked ==
  ChannelsLast /\ NoConcurrentDuplicates /\ PrivateKeys =>
    \A c \in Consumers, m \in Messages :
      stage[c][m] = "dispatching" => KeyOf(m) \notin handled

PlacesInv ==
  /\ DeliveryInv
  /\ HeldByListener
  /\ OneAtATime
  /\ OpenForGood
  /\ AutoAckNeverSettles
  /\ InOrder
  /\ DispatchUnmarked

-----------------------------------------------------------------------------
(* Lemmas about what a step does to places.                                *)

\* A prefetch of one: a message is delivered to a consumer that has none.
LEMMA NothingUnacked ==
  ASSUME NEW c \in Consumers, Cardinality(Unacked(c)) < PrefetchCount
  PROVE  \A m \in Messages : loc[m] # c
<1>1. Unacked(c) \in SUBSET Messages
  BY DEF Unacked
<1>2. IsFiniteSet(Unacked(c))
  BY <1>1, FS_Subset, DeliveryAssumption
<1>3. Cardinality(Unacked(c)) \in Nat
  BY <1>2, FS_CardinalityType
<1>4. Cardinality(Unacked(c)) = 0
  BY <1>3 DEF PrefetchCount
<1>5. Unacked(c) = {}
  BY <1>2, <1>4, FS_EmptySet
<1>. QED
  BY <1>5 DEF Unacked

\* At most one consumer of a queue is one consumer.
LEMMA SoleConsumer ==
  ASSUME NEW q, Cardinality({c \in Consumers : Serves[c] = q}) <= 1,
         IsFiniteSet(Consumers)
  PROVE  \A c, d \in Consumers : Serves[c] = q /\ Serves[d] = q => c = d
<1>. DEFINE S == {c \in Consumers : Serves[c] = q}
<1>1. S \in SUBSET Consumers
  OBVIOUS
<1>2. IsFiniteSet(S)
  BY <1>1, FS_Subset
<1>3. Cardinality(S) \in Nat
  BY <1>2, FS_CardinalityType
<1>4. Cardinality(S) = 0 \/ Cardinality(S) = 1
  BY <1>3
<1>5. S = {} \/ \E x : S = {x}
  BY <1>2, <1>4, FS_EmptySet, FS_Singleton
<1>. QED
  BY <1>5

\* Messages come to a consumer by a delivery only, leave the ready ones by
\* delivery only, and stay settled.
LEMMA PlaceStep ==
  ASSUME DeliveryInv, Next, NEW n \in Messages
  PROVE  \/ loc'[n] = loc[n]
         \/ loc'[n] \in {"ready", "acked", "dropped"} /\ loc[n] \in Consumers
         \/ \E c \in Consumers : Deliver(c, n)
<1>0. TypeOK
  BY DEF DeliveryInv
<1>1. PICK c \in Consumers :
        \/ Register(c) \/ CancelOk(c) \/ CloseOk(c) \/ Environment(c)
        \/ \E m \in Messages : Deliver(c, m) \/ Handler(c, m) \/ HandlerFails(c, m)
  BY DEF Next
<1>2. CASE Register(c) \/ Stop(c) \/ CancelOk(c)
  BY <1>2 DEF Register, Stop, CancelOk
<1>3. CASE CloseOk(c) \/ ConnectionLoss(c) \/ ChannelError(c) \/ Crash(c)
  <2>1. Requeue(c)
    BY <1>3 DEF CloseOk, ConnectionLoss, ChannelError, Crash
  <2>. QED
    BY <1>0, <2>1, RequeueType
<1>4. ASSUME NEW m \in Messages, Deliver(c, m)
      PROVE  loc'[n] = loc[n] \/ n = m
  BY <1>0, <1>4 DEF Deliver, TypeOK
<1>5. ASSUME NEW m \in Messages, Acknowledge(c, m) \/ HandlerFails(c, m)
      PROVE  loc'[n] = loc[n] \/ (loc'[n] \in {"ready", "acked", "dropped"} /\ loc[n] \in Consumers)
  <2>1. stage[c][m] # "idle" /\ (Settle(c, m, "acked") \/ Nak(c, m))
    BY <1>5 DEF Acknowledge, Ack, HandlerFails, CheckFail, DispatchFail, MarkFail
  <2>2. \/ loc'[n] = loc[n]
        \/ n = m /\ loc'[n] \in {"ready", "acked", "dropped"} /\ ChannelIsUsable(c)
    BY <1>0, <2>1, SettleType, NakType
  <2>. QED
    BY <2>1, <2>2 DEF DeliveryInv, HandlerHoldsMessage
<1>6. ASSUME NEW m \in Messages,
             CheckFound(c, m) \/ CheckMissing(c, m) \/ DispatchOk(c, m) \/ MarkStored(c, m)
      PROVE  loc'[n] = loc[n]
  BY <1>6 DEF CheckFound, CheckMissing, DispatchOk, MarkStored
<1>. QED
  BY <1>1, <1>2, <1>3, <1>4, <1>5, <1>6 DEF Environment, Handler

\* What is acked or dropped is over.
LEMMA SettledStays ==
  ASSUME DeliveryInv, Next, NEW n \in Messages, Settled(n)
  PROVE  loc'[n] = loc[n]
<1>1. loc[n] \notin Consumers /\ loc[n] # "ready"
  BY DeliveryAssumption DEF Settled
<1>. QED
  BY <1>1, PlaceStep DEF Deliver, IsHead

\* A handler starts by a delivery; it moves on alone.
LEMMA StageStep ==
  ASSUME DeliveryInv, Next, NEW d \in Consumers, NEW n \in Messages
  PROVE  \/ stage'[d][n] = stage[d][n]
         \/ stage'[d][n] = "idle"
         \/ stage[d][n] # "idle" /\ Handler(d, n)
         \/ Deliver(d, n) /\ IsTargetMessageType(n) /\ stage'[d][n] = "checking"
<1>0. TypeOK
  BY DEF DeliveryInv
<1>1. PICK c \in Consumers :
        \/ Register(c) \/ CancelOk(c) \/ CloseOk(c) \/ Environment(c)
        \/ \E m \in Messages : Deliver(c, m) \/ Handler(c, m) \/ HandlerFails(c, m)
  BY DEF Next
<1>2. CASE Register(c) \/ CancelOk(c) \/ CloseOk(c) \/ Stop(c) \/ ConnectionLoss(c) \/ ChannelError(c)
  BY <1>2 DEF Register, CancelOk, CloseOk, Stop, ConnectionLoss, ChannelError
<1>3. CASE Crash(c)
  BY <1>0, <1>3 DEF Crash, TypeOK
<1>4. ASSUME NEW m \in Messages, Deliver(c, m)
      PROVE  \/ stage'[d][n] = stage[d][n]
             \/ d = c /\ n = m /\ IsTargetMessageType(n) /\ stage'[d][n] = "checking"
  <2>1. UNCHANGED stage \/ (IsTargetMessageType(m) /\ Goto(c, m, "checking"))
    BY <1>4 DEF Deliver
  <2>2. CASE IsTargetMessageType(m) /\ Goto(c, m, "checking")
    BY <1>0, <2>2, GotoType DEF Stage
  <2>. QED
    BY <2>1, <2>2
<1>5. ASSUME NEW m \in Messages, Handler(c, m)
      PROVE  stage'[d][n] = stage[d][n] \/ (d = c /\ n = m /\ stage[d][n] # "idle")
  <2>1. stage[c][m] # "idle" /\ \E s \in Stage : Goto(c, m, s)
    BY <1>5 DEF Handler, CheckFound, CheckMissing, DispatchOk, MarkStored, Acknowledge, Stage
  <2>. QED
    BY <1>0, <2>1, GotoType
<1>6. ASSUME NEW m \in Messages, HandlerFails(c, m)
      PROVE  stage'[d][n] \in {stage[d][n], "idle"}
  <2>1. Goto(c, m, "idle")
    BY <1>6 DEF HandlerFails, CheckFail, DispatchFail, MarkFail
  <2>. QED
    BY <1>0, <2>1, GotoType DEF Stage
<1>. QED
  BY <1>1, <1>2, <1>3, <1>4, <1>5, <1>6 DEF Environment

-----------------------------------------------------------------------------
(* The invariant.                                                          *)

LEMMA PlacesInit == Init => PlacesInv
<1>. SUFFICES ASSUME Init PROVE PlacesInv
  OBVIOUS
<1>1. \A m \in Messages : loc[m] = "ready" /\ loc[m] \notin Consumers
  BY DeliveryAssumption DEF Init
<1>2. HeldByListener /\ OneAtATime /\ AutoAckNeverSettles
  BY <1>1 DEF HeldByListener, OneAtATime, AutoAckNeverSettles, Settled
<1>3. OpenForGood /\ InOrder /\ DispatchUnmarked
  BY DEF Init, OpenForGood, Idle, InOrder, DispatchUnmarked
<1>. QED
  BY <1>2, <1>3, DeliveryInit DEF PlacesInv

LEMMA HeldStep ==
  ASSUME PlacesInv, Next
  PROVE  HeldByListener' /\ OneAtATime'
<1>1. \A n \in Messages : loc'[n] \in Consumers => loc'[n] = loc[n] \/ Deliver(loc'[n], n)
  <2>. SUFFICES ASSUME NEW n \in Messages, loc'[n] \in Consumers, loc'[n] # loc[n]
                PROVE  Deliver(loc'[n], n)
    OBVIOUS
  <2>1. PICK c \in Consumers : Deliver(c, n)
    BY PlaceStep, DeliveryAssumption DEF PlacesInv
  <2>2. loc'[n] \in {c, "acked"}
    BY <2>1 DEF Deliver, PlacesInv, DeliveryInv, TypeOK
  <2>. QED
    BY <2>1, <2>2, DeliveryAssumption
<1>2. ASSUME NEW c \in Consumers, NEW n \in Messages, Deliver(c, n)
      PROVE  \A m \in Messages : m # n => loc'[m] = loc[m] /\ loc[m] # c
  BY <1>2, NothingUnacked DEF Deliver, PlacesInv, DeliveryInv, TypeOK
<1>3. HeldByListener'
  BY <1>1 DEF HeldByListener, PlacesInv, Deliver
<1>4. OneAtATime'
  <2>. SUFFICES ASSUME NEW m \in Messages, NEW n \in Messages,
                       loc'[m] \in Consumers, loc'[n] = loc'[m], n # m
                PROVE  FALSE
    BY DEF OneAtATime
  <2>1. CASE loc'[m] = loc[m] /\ loc'[n] = loc[n]
    BY <2>1 DEF PlacesInv, OneAtATime
  <2>2. CASE Deliver(loc'[m], m)
    BY <1>2, <2>2
  <2>3. CASE Deliver(loc'[n], n)
    BY <1>2, <2>3
  <2>. QED
    BY <1>1, <2>1, <2>2, <2>3
<1>. QED
  BY <1>3, <1>4

LEMMA OpenStep ==
  ASSUME PlacesInv, Next
  PROVE  OpenForGood'
<1>. SUFFICES ASSUME ChannelsLast, NEW d \in Consumers
              PROVE  chan'[d] \in {"off", "open"} /\ (chan'[d] = "off" => Idle(d)')
  BY DEF OpenForGood
<1>0. /\ TypeOK
      /\ \A c \in Consumers : chan[c] \in {"off", "open"} /\ (chan[c] = "off" => Idle(c))
  BY DEF PlacesInv, DeliveryInv, OpenForGood
<1>1. ASSUME NEW c \in Consumers, CancelOk(c) \/ CloseOk(c) \/ Environment(c)
      PROVE  FALSE
  BY <1>0, <1>1 DEF CancelOk, CloseOk, Environment, Stop, ConnectionLoss, ChannelError, Crash, Fault,
    ChannelsLast
<1>2. chan'[d] \in {"off", "open"} /\ (chan'[d] = "off" => chan[d] = "off")
  BY <1>0, <1>1 DEF Next, Register, Deliver, Handler, HandlerFails, CheckFound, CheckMissing,
    DispatchOk, MarkStored, Acknowledge, CheckFail, DispatchFail, MarkFail, TypeOK
<1>3. ASSUME chan[d] = "off", NEW n \in Messages
      PROVE  stage'[d][n] = "idle"
  <2>1. stage[d][n] = "idle" /\ ~ChannelIsUsable(d)
    BY <1>0, <1>3 DEF Idle, ChannelIsUsable
  <2>. QED
    BY <2>1, StageStep DEF PlacesInv, Deliver
<1>. QED
  BY <1>2, <1>3 DEF Idle

LEMMA AutoAckStep ==
  ASSUME PlacesInv, Next
  PROVE  AutoAckNeverSettles'
<1>. SUFFICES ASSUME NEW n \in Messages, AutoAck[QueueOf[n]], Settled(n)'
              PROVE  FALSE
  BY DEF AutoAckNeverSettles
<1>0. TypeOK /\ ~Settled(n)
  BY DEF PlacesInv, DeliveryInv, AutoAckNeverSettles
<1>1. PICK c \in Consumers :
        \/ Register(c) \/ CancelOk(c) \/ CloseOk(c) \/ Environment(c)
        \/ \E m \in Messages : Deliver(c, m) \/ Handler(c, m) \/ HandlerFails(c, m)
  BY DEF Next
<1>2. CASE Register(c) \/ Stop(c) \/ CancelOk(c)
  BY <1>0, <1>2 DEF Register, Stop, CancelOk, Settled
<1>3. CASE CloseOk(c) \/ ConnectionLoss(c) \/ ChannelError(c) \/ Crash(c)
  <2>1. Requeue(c)
    BY <1>3 DEF CloseOk, ConnectionLoss, ChannelError, Crash
  <2>. QED
    BY <1>0, <2>1, RequeueType DEF Settled
<1>4. ASSUME NEW m \in Messages, Deliver(c, m)
      PROVE  FALSE
  <2>1. loc'[n] = loc[n] \/ loc'[n] = c
    BY <1>0, <1>4 DEF Deliver, TypeOK
  <2>. QED
    BY <1>0, <2>1, DeliveryAssumption DEF Settled
<1>5. ASSUME NEW m \in Messages, Handler(c, m) \/ HandlerFails(c, m)
      PROVE  FALSE
  <2>1. UNCHANGED loc \/ Settle(c, m, "acked") \/ Nak(c, m)
    BY <1>5 DEF Handler, CheckFound, CheckMissing, DispatchOk, MarkStored, Acknowledge, Ack,
      HandlerFails, CheckFail, DispatchFail, MarkFail
  <2>2. loc'[n] = loc[n]
    BY <1>0, <2>1 DEF Settle, Nak, TypeOK
  <2>. QED
    BY <1>0, <2>2 DEF Settled
<1>. QED
  BY <1>1, <1>2, <1>3, <1>4, <1>5 DEF Environment

LEMMA OrderStep ==
  ASSUME PlacesInv, Next
  PROVE  InOrder'
<1>. SUFFICES ASSUME ChannelsLast, NEW c \in Consumers, NEW m \in Messages,
                     stage'[c][m] # "idle",
                     \A d \in Consumers : Serves[d] = Serves[c] => d = c,
                     NEW n \in Messages, QueueOf[n] = QueueOf[m], n < m
              PROVE  loc'[n] \in {"acked", "dropped"}
  BY DEF InOrder, Settled
<1>0. DeliveryInv /\ TypeOK
  BY DEF PlacesInv, DeliveryInv
<1>1. CASE stage[c][m] # "idle"
  <2>1. Settled(n)
    BY <1>1 DEF PlacesInv, InOrder
  <2>. QED
    BY <1>0, <2>1, SettledStays DEF Settled
<1>2. CASE stage[c][m] = "idle"
  <2>1. Deliver(c, m)
    BY <1>0, <1>2, StageStep
  <2>2. Serves[c] = QueueOf[m] /\ IsHead(m) /\ \A k \in Messages : loc[k] # c
    BY <2>1, NothingUnacked DEF Deliver
  <2>3. loc[n] # "ready"
    BY <2>2, DeliveryAssumption DEF IsHead
  <2>4. loc[n] \notin Consumers
    BY <2>2 DEF PlacesInv, HeldByListener
  <2>5. Settled(n)
    BY <1>0, <2>3, <2>4 DEF TypeOK, Settled
  <2>. QED
    BY <1>0, <2>5, SettledStays DEF Settled
<1>. QED
  BY <1>1, <1>2

\* While the channels last, two handlers of one event in one queue are the same.
LEMMA OneHandler ==
  ASSUME PlacesInv, ChannelsLast, NoConcurrentDuplicates, IsFiniteSet(Consumers),
         NEW c \in Consumers, NEW m \in Messages, stage[c][m] # "idle",
         NEW d \in Consumers, NEW n \in Messages, stage[d][n] # "idle",
         QueueOf[m] = QueueOf[n], MessageId[m] = MessageId[n]
  PROVE  c = d /\ m = n
<1>1. ChannelIsUsable(c) /\ ChannelIsUsable(d)
  BY DEF PlacesInv, OpenForGood, Idle, ChannelIsUsable
<1>2. loc[m] = c /\ loc[n] = d /\ Serves[c] = QueueOf[m] /\ Serves[d] = QueueOf[m]
  BY <1>1 DEF PlacesInv, DeliveryInv, HandlerHoldsMessage, HandlersAreListeners
<1>3. QueueOf[m] \in Queues
  BY DeliveryAssumption
<1>4. CASE m = n
  BY <1>2, <1>4
<1>5. CASE m # n
  <2>1. Cardinality({e \in Consumers : Serves[e] = QueueOf[m]}) <= 1
    BY <1>3, <1>5 DEF NoConcurrentDuplicates
  <2>2. c = d
    BY <1>2, <2>1, SoleConsumer
  <2>. QED
    BY <1>2, <1>5, <2>2 DEF PlacesInv, OneAtATime
<1>. QED
  BY <1>4, <1>5

LEMMA MarkedStep ==
  ASSUME PlacesInv, Next, IsFiniteSet(Consumers)
  PROVE  DispatchUnmarked'
<1>. SUFFICES ASSUME ChannelsLast, NoConcurrentDuplicates, PrivateKeys,
                     NEW c \in Consumers, NEW m \in Messages, stage'[c][m] = "dispatching",
                     KeyOf(m) \in handled'
              PROVE  FALSE
  BY DEF DispatchUnmarked, KeyOf
<1>0. DeliveryInv /\ TypeOK
  BY DEF PlacesInv, DeliveryInv
<1>1. \/ stage[c][m] = "dispatching"
      \/ CheckMissing(c, m)
  <2>1. ASSUME Handler(c, m), ~CheckMissing(c, m) PROVE FALSE
    BY <1>0, <2>1, GotoType DEF Handler, CheckFound, DispatchOk, MarkStored, Acknowledge, Stage
  <2>. QED
    BY <1>0, <2>1, StageStep
<1>2. stage[c][m] # "idle" /\ KeyOf(m) \notin handled
  <2>1. CASE CheckMissing(c, m)
    BY <2>1 DEF CheckMissing, KeyOf, PlacesInv, DeliveryInv, HandlersAreListeners
  <2>2. CASE stage[c][m] = "dispatching"
    BY <2>2 DEF PlacesInv, DispatchUnmarked
  <2>. QED
    BY <1>1, <2>1, <2>2
<1>3. PICK d \in Consumers, n \in Messages :
        /\ stage[d][n] = "marking" /\ KeyOf(m) = KeyWithPrefix(Serves[d], MessageId[n])
        /\ stage'[d][n] # "dispatching"
  <2>1. PICK d \in Consumers, n \in Messages : MarkStored(d, n) \/ MarkFail(d, n)
    BY <1>2 DEF Next, Register, CancelOk, CloseOk, Environment, Stop, ConnectionLoss, ChannelError, Crash,
      Deliver, Handler, HandlerFails, CheckFound, CheckMissing, DispatchOk, Acknowledge,
      CheckFail, DispatchFail
  <2>2. /\ stage[d][n] = "marking" /\ (Goto(d, n, "acking") \/ Goto(d, n, "idle"))
        /\ KeyOf(m) = KeyWithPrefix(Serves[d], MessageId[n])
    BY <1>2, <2>1 DEF MarkStored, MarkFail
  <2>3. stage'[d][n] # "dispatching"
    BY <1>0, <2>2, GotoType DEF Stage
  <2>. QED
    BY <2>2, <2>3
<1>4. KeyOf(n) = KeyOf(m)
  BY <1>3 DEF PlacesInv, DeliveryInv, HandlersAreListeners, KeyOf
<1>5. QueueOf[m] = QueueOf[n] /\ MessageId[m] = MessageId[n]
  BY <1>4 DEF PrivateKeys, KeyOf, KeyWithPrefix
<1>6. c = d /\ m = n
  BY <1>2, <1>3, <1>5, OneHandler
<1>. QED
  BY <1>3, <1>6

LEMMA PlacesStep ==
  ASSUME IsFiniteSet(Consumers)
  PROVE  PlacesInv /\ [Next]_vars => PlacesInv'
<1>. SUFFICES ASSUME PlacesInv, [Next]_vars PROVE PlacesInv'
  OBVIOUS
<1>1. CASE UNCHANGED vars
  <2>1. DeliveryInv'
    BY DeliveryStep DEF PlacesInv
  <2>2. HeldByListener' /\ OneAtATime' /\ AutoAckNeverSettles' /\ InOrder'
    BY <1>1 DEF vars, PlacesInv, HeldByListener, OneAtATime, AutoAckNeverSettles, InOrder, Settled
  <2>3. OpenForGood' /\ DispatchUnmarked'
    BY <1>1 DEF vars, PlacesInv, OpenForGood, Idle, DispatchUnmarked, KeyOf
  <2>. QED
    BY <2>1, <2>2, <2>3 DEF PlacesInv
<1>2. CASE Next
  BY <1>2, DeliveryStep, HeldStep, OpenStep, AutoAckStep, OrderStep, MarkedStep DEF PlacesInv
<1>. QED
  BY <1>1, <1>2

-----------------------------------------------------------------------------
(* The theorems.                                                           *)

LEMMA PlacesHold ==
  ASSUME IsFiniteSet(Consumers)
  PROVE  Spec => []PlacesInv
<1>1. PlacesInv /\ [Next]_vars => PlacesInv'
  BY PlacesStep
<1>. QED
  BY <1>1, PlacesInit, PTL DEF Spec

\* A queue with one consumer is handled in queue order while channels last,
\* redeliveries included.
THEOREM HandledInOrder ==
  ASSUME IsFiniteSet(Consumers)
  PROVE  Spec => []InOrder
<1>1. PlacesInv => InOrder
  BY DEF PlacesInv
<1>. QED
  BY <1>1, PlacesHold, PTL

\* Auto-acknowledging consumers take one message each and stall.
LEMMA HeldStalls ==
  ASSUME IsFiniteSet(Consumers), PlacesInv
  PROVE  AutoAckStalls
<1>. SUFFICES ASSUME NEW q \in Queues, AutoAck[q]
              PROVE  Cardinality({m \in Messages : QueueOf[m] = q /\ loc[m] # "ready"})
                       <= Cardinality({c \in Consumers : Serves[c] = q})
  BY DEF AutoAckStalls
<1>. DEFINE S == {m \in Messages : QueueOf[m] = q /\ loc[m] # "ready"}
            T == {c \in Consumers : Serves[c] = q}
            f == [m \in S |-> loc[m]]
<1>1. \A m \in S : loc[m] \in Consumers
  BY DEF PlacesInv, DeliveryInv, TypeOK, AutoAckNeverSettles, Settled
<1>2. \A m \in S : loc[m] \in T
  BY <1>1 DEF PlacesInv, HeldByListener
<1>3. \A m, n \in S : loc[m] = loc[n] => m = n
  BY <1>1 DEF PlacesInv, OneAtATime
<1>4. f \in Injection(S, T)
  BY <1>2, <1>3 DEF Injection, IsInjective
<1>5. IsFiniteSet(T)
  <2>1. T \in SUBSET Consumers
    OBVIOUS
  <2>. QED
    BY <2>1, FS_Subset
<1>. QED
  BY <1>4, <1>5, FS_Injection

THEOREM AutoAckConsumersStall ==
  ASSUME IsFiniteSet(Consumers)
  PROVE  Spec => []AutoAckStalls
<1>1. PlacesInv => AutoAckStalls
  BY HeldStalls
<1>. QED
  BY <1>1, PlacesHold, PTL

\* What a dispatch does is never done again for an id that is marked.
LEMMA EffectStep ==
  ASSUME PlacesInv, Next, ChannelsLast, NoConcurrentDuplicates, PrivateKeys,
         NEW n \in Messages, KeyOf(n) \in handled
  PROVE  EffectsOf(n)' = EffectsOf(n)
<1>0. TypeOK
  BY DEF PlacesInv, DeliveryInv
<1>1. CASE UNCHANGED effects
  BY <1>1 DEF EffectsOf
<1>2. CASE ~UNCHANGED effects
  <2>1. PICK c \in Consumers, m \in Messages : DispatchOk(c, m) \/ DispatchFail(c, m)
    BY <1>2 DEF Next, Register, CancelOk, CloseOk, Environment, Stop, ConnectionLoss, ChannelError, Crash,
      Deliver, Handler, HandlerFails, CheckFound, CheckMissing, MarkStored, Acknowledge,
      CheckFail, MarkFail
  <2>2. stage[c][m] = "dispatching" /\ TakesEffect(Serves[c], MessageId[m])
    BY <1>2, <2>1 DEF DispatchOk, DispatchFail
  <2>3. Serves[c] = QueueOf[m] /\ KeyOf(m) \notin handled
    BY <2>2 DEF PlacesInv, DeliveryInv, HandlersAreListeners, DispatchUnmarked
  <2>4. QueueOf[n] # QueueOf[m] \/ MessageId[n] # MessageId[m]
    BY <2>3 DEF KeyOf
  <2>5. effects' = [effects EXCEPT ![QueueOf[m]][MessageId[m]] = @ + 1]
    BY <2>2, <2>3 DEF TakesEffect
  <2>6. QueueOf[n] \in Queues /\ MessageId[n] \in Ids
    BY DeliveryAssumption DEF Ids
  <2>. QED
    BY <1>0, <2>4, <2>5, <2>6 DEF EffectsOf, TypeOK
<1>. QED
  BY <1>1, <1>2

THEOREM MarkedIsFinal ==
  ASSUME IsFiniteSet(Consumers)
  PROVE  Spec => NoEffectOnceHandled
<1>. DEFINE Final ==
       ChannelsLast /\ NoConcurrentDuplicates /\ PrivateKeys =>
         \A m \in Messages : KeyOf(m) \in handled => EffectsOf(m)' = EffectsOf(m)
<1>1. PlacesInv /\ [Next]_vars => [Final]_vars
  BY EffectStep
<1>. QED
  BY <1>1, PlacesHold, PTL DEF Spec, NoEffectOnceHandled

-----------------------------------------------------------------------------
(* How often a dispatch takes effect: once for an event, and once more for *)
(* each failure.  The argument counts what may still take effect: handlers *)
(* on their way to a dispatch, a message nobody is handling, and consumers *)
(* being cancelled, whose message will come back.                          *)

Marked(q, i) == KeyWithPrefix(q, i) \in handled

\* The handlers of an event of a queue that have dispatched, or will dispatch
\* as things stand, but without the effect yet.
WillDispatch(c, m) ==
  \/ stage[c][m] = "dispatching"
  \/ stage[c][m] = "checking" /\ ~Marked(QueueOf[m], MessageId[m])

Under(q, i) ==
  {x \in Consumers \X Messages :
     QueueOf[x[2]] = q /\ MessageId[x[2]] = i /\ WillDispatch(x[1], x[2])}

\* Some handler of the event can still settle its message.
Live(q, i) ==
  \E c \in Consumers, m \in Messages :
    QueueOf[m] = q /\ MessageId[m] = i /\ stage[c][m] # "idle" /\ ChannelIsUsable(c)

\* The event may come to a handler again.
Due(q, i) == IF Marked(q, i) \/ Live(q, i) THEN 0 ELSE 1

Leaving(q) == {c \in Consumers : Serves[c] = q /\ chan[c] = "cancelling"}

Debt(q, i) ==
  effects[q][i] + Cardinality(Under(q, i)) + Due(q, i) + Cardinality(Leaving(q))

DebtInv == \A q \in Queues, i \in Ids : Debt(q, i) <= 1 + faults

-----------------------------------------------------------------------------
(* Lemmas about the parts of the debt.                                     *)

\* Sets of handlers and of consumers are finite.
LEMMA Finite ==
  ASSUME IsFiniteSet(Consumers)
  PROVE  /\ \A S \in SUBSET (Consumers \X Messages) : IsFiniteSet(S) /\ Cardinality(S) \in Nat
         /\ \A S \in SUBSET Consumers : IsFiniteSet(S) /\ Cardinality(S) \in Nat
<1>1. IsFiniteSet(Consumers \X Messages)
  BY FS_Product, DeliveryAssumption
<1>. QED
  BY <1>1, FS_Subset, FS_CardinalityType

\* How the cardinality of a set of them moves.
LEMMA Count ==
  ASSUME IsFiniteSet(Consumers), NEW U \in {Consumers, Consumers \X Messages},
         NEW S \in SUBSET U, NEW T \in SUBSET U, NEW x
  PROVE  /\ Cardinality(S) \in Nat /\ Cardinality(T) \in Nat
         /\ T \subseteq S => Cardinality(T) <= Cardinality(S)
         /\ T \subseteq S \cup {x} => Cardinality(T) <= Cardinality(S) + 1
         /\ T \subseteq S /\ x \in S /\ x \notin T => Cardinality(T) + 1 <= Cardinality(S)
<1>1. IsFiniteSet(S) /\ IsFiniteSet(T) /\ Cardinality(S) \in Nat /\ Cardinality(T) \in Nat
  BY Finite
<1>2. ASSUME T \subseteq S PROVE Cardinality(T) <= Cardinality(S)
  <2>1. T \in SUBSET S
    BY <1>2
  <2>. QED
    BY <1>1, <2>1, FS_Subset
<1>3. ASSUME T \subseteq S \cup {x} PROVE Cardinality(T) <= Cardinality(S) + 1
  <2>1. /\ IsFiniteSet(S \cup {x})
        /\ Cardinality(S \cup {x}) \in {Cardinality(S), Cardinality(S) + 1}
    BY <1>1, FS_AddElement
  <2>2. T \in SUBSET (S \cup {x})
    BY <1>3
  <2>3. Cardinality(T) <= Cardinality(S \cup {x})
    BY <2>1, <2>2, FS_Subset
  <2>. QED
    BY <1>1, <2>1, <2>3
<1>4. ASSUME T \subseteq S, x \in S, x \notin T PROVE Cardinality(T) + 1 <= Cardinality(S)
  <2>1. IsFiniteSet(S \ {x}) /\ Cardinality(S \ {x}) = Cardinality(S) - 1
    BY <1>1, <1>4, FS_RemoveElement
  <2>2. T \in SUBSET (S \ {x})
    BY <1>4
  <2>3. Cardinality(T) <= Cardinality(S \ {x})
    BY <2>1, <2>2, FS_Subset
  <2>. QED
    BY <1>1, <2>1, <2>3
<1>. QED
  BY <1>1, <1>2, <1>3, <1>4

LEMMA PartsType ==
  ASSUME TypeOK, TypeOK', NEW q \in Queues, NEW i \in Ids
  PROVE  /\ effects[q][i] \in Nat /\ effects'[q][i] \in Nat
         /\ Due(q, i) \in {0, 1} /\ Due(q, i)' \in {0, 1}
         /\ faults \in Nat /\ faults' \in Nat
         /\ Under(q, i) \in SUBSET (Consumers \X Messages)
         /\ Under(q, i)' \in SUBSET (Consumers \X Messages)
         /\ Leaving(q) \in SUBSET Consumers /\ Leaving(q)' \in SUBSET Consumers
<1>1. /\ Under(q, i) \in SUBSET (Consumers \X Messages)
      /\ Under(q, i)' \in SUBSET (Consumers \X Messages)
      /\ Leaving(q) \in SUBSET Consumers /\ Leaving(q)' \in SUBSET Consumers
  BY DEF Under, Leaving
<1>2. Due(q, i) \in {0, 1} /\ Due(q, i)' \in {0, 1}
  BY DEF Due
<1>3. effects[q][i] \in Nat /\ effects'[q][i] \in Nat /\ faults \in Nat /\ faults' \in Nat
  BY DeliveryAssumption DEF TypeOK
<1>. QED
  BY <1>1, <1>2, <1>3

\* A step that leads to no dispatch and interrupts no handler of the event
\* that is not over.
LEMMA QuietStep ==
  ASSUME TypeOK, TypeOK', IsFiniteSet(Consumers), NEW q \in Queues, NEW i \in Ids,
         Debt(q, i) <= 1 + faults, faults' >= faults,
         effects'[q][i] = effects[q][i],
         Under(q, i)' \subseteq Under(q, i), Leaving(q)' \subseteq Leaving(q),
         Marked(q, i) => Marked(q, i)', Live(q, i) => Live(q, i)' \/ Marked(q, i)'
  PROVE  Debt(q, i)' <= 1 + faults'
<1>1. /\ Cardinality(Under(q, i)') <= Cardinality(Under(q, i))
      /\ Cardinality(Under(q, i)') \in Nat /\ Cardinality(Under(q, i)) \in Nat
  BY PartsType, Count
<1>2. /\ Cardinality(Leaving(q)') <= Cardinality(Leaving(q))
      /\ Cardinality(Leaving(q)') \in Nat /\ Cardinality(Leaving(q)) \in Nat
  BY PartsType, Count
<1>3. Due(q, i)' <= Due(q, i)
  BY DEF Due
<1>. QED
  BY <1>1, <1>2, <1>3, PartsType DEF Debt

\* A failure pays for one more dispatch.
LEMMA FailureStep ==
  ASSUME TypeOK, TypeOK', IsFiniteSet(Consumers), NEW q \in Queues, NEW i \in Ids,
         Debt(q, i) <= 1 + faults, faults' = faults + 1,
         Leaving(q)' \subseteq Leaving(q), Under(q, i)' \subseteq Under(q, i),
         \/ effects'[q][i] = effects[q][i]
         \/ /\ effects'[q][i] = effects[q][i] + 1
            /\ \E x \in Under(q, i) : x \notin Under(q, i)'
  PROVE  Debt(q, i)' <= 1 + faults'
<1>1. /\ Cardinality(Leaving(q)') <= Cardinality(Leaving(q))
      /\ Cardinality(Leaving(q)') \in Nat /\ Cardinality(Leaving(q)) \in Nat
  BY PartsType, Count
<1>2. /\ Cardinality(Under(q, i)') <= Cardinality(Under(q, i))
      /\ Cardinality(Under(q, i)') \in Nat /\ Cardinality(Under(q, i)) \in Nat
  BY PartsType, Count
<1>3. CASE effects'[q][i] = effects[q][i]
  BY <1>1, <1>2, <1>3, PartsType DEF Debt
<1>4. CASE /\ effects'[q][i] = effects[q][i] + 1
           /\ \E x \in Under(q, i) : x \notin Under(q, i)'
  <2>1. Cardinality(Under(q, i)') + 1 <= Cardinality(Under(q, i))
    BY <1>4, PartsType, Count
  <2>. QED
    BY <1>1, <1>2, <1>4, <2>1, PartsType DEF Debt
<1>. QED
  BY <1>3, <1>4

-----------------------------------------------------------------------------
(* What the actions do to them.                                            *)

\* A handler that moves on, to a stage from which it dispatches only if it was
\* about to before.
LEMMA UnderShrinks ==
  ASSUME TypeOK, NEW c \in Consumers, NEW m \in Messages, NEW s \in Stage, Goto(c, m, s),
         handled \subseteq handled',
         s = "dispatching" => WillDispatch(c, m),
         s = "checking" => Marked(QueueOf[m], MessageId[m])'
  PROVE  \A q, i : Under(q, i)' \subseteq Under(q, i)
<1>1. \A d \in Consumers, n \in Messages : d # c \/ n # m => stage'[d][n] = stage[d][n]
  BY GotoType
<1>2. stage'[c][m] = s
  BY GotoType
<1>3. ASSUME NEW d \in Consumers, NEW n \in Messages, WillDispatch(d, n)'
      PROVE  WillDispatch(d, n)
  BY <1>1, <1>2, <1>3 DEF WillDispatch, Marked
<1>4. ASSUME NEW q, NEW i, NEW x \in Under(q, i)'
      PROVE  x \in Under(q, i)
  <2>1. /\ x \in Consumers \X Messages /\ QueueOf[x[2]] = q /\ MessageId[x[2]] = i
        /\ WillDispatch(x[1], x[2])'
    BY <1>4 DEF Under
  <2>2. WillDispatch(x[1], x[2])
    BY <1>3, <2>1
  <2>. QED
    BY <2>1, <2>2 DEF Under
<1>. QED
  BY <1>4

\* A handler's move is seen by the other events only as theirs: and by its own
\* as long as it goes on.
LEMMA LiveStays ==
  ASSUME TypeOK, NEW c \in Consumers, NEW m \in Messages, NEW s \in Stage, Goto(c, m, s),
         UNCHANGED chan, NEW q, NEW i,
         s # "idle" \/ q # QueueOf[m] \/ i # MessageId[m], Live(q, i)
  PROVE  Live(q, i)'
<1>1. PICK d \in Consumers, n \in Messages :
        QueueOf[n] = q /\ MessageId[n] = i /\ stage[d][n] # "idle" /\ ChannelIsUsable(d)
  BY DEF Live
<1>2. stage'[d][n] # "idle"
  BY <1>1, GotoType
<1>. QED
  BY <1>1, <1>2 DEF Live, ChannelIsUsable

\* What has no handler affected by a step.
LEMMA UnderSame ==
  ASSUME UNCHANGED stage, handled \subseteq handled'
  PROVE  \A q, i : Under(q, i)' \subseteq Under(q, i) /\ (Marked(q, i) => Marked(q, i)')
<1>1. ASSUME NEW c, NEW m, WillDispatch(c, m)'
      PROVE  WillDispatch(c, m)
  BY <1>1 DEF WillDispatch, Marked
<1>2. ASSUME NEW q, NEW i, NEW x \in Under(q, i)'
      PROVE  x \in Under(q, i)
  <2>1. /\ x \in Consumers \X Messages /\ QueueOf[x[2]] = q /\ MessageId[x[2]] = i
        /\ WillDispatch(x[1], x[2])'
    BY <1>2 DEF Under
  <2>2. WillDispatch(x[1], x[2])
    BY <1>1, <2>1
  <2>. QED
    BY <2>1, <2>2 DEF Under
<1>. QED
  BY <1>2 DEF Marked

\* An event that is delivered and not marked had no live handler.
LEMMA DeliveredAlone ==
  ASSUME PlacesInv, NoConcurrentDuplicates, IsFiniteSet(Consumers),
         NEW c \in Consumers, NEW m \in Messages, Deliver(c, m)
  PROVE  ~Live(QueueOf[m], MessageId[m])
<1>. SUFFICES ASSUME NEW d \in Consumers, NEW n \in Messages,
                     QueueOf[n] = QueueOf[m], MessageId[n] = MessageId[m],
                     stage[d][n] # "idle", ChannelIsUsable(d)
              PROVE  FALSE
  BY DEF Live
<1>1. loc[n] = d /\ Serves[d] = QueueOf[m]
  BY DEF PlacesInv, DeliveryInv, HandlerHoldsMessage, HandlersAreListeners
<1>2. loc[m] = "ready" /\ Serves[c] = QueueOf[m] /\ loc[n] # c
  BY NothingUnacked DEF Deliver, IsHead
<1>3. QueueOf[m] \in Queues /\ d # "ready" /\ n # m
  BY <1>1, <1>2, DeliveryAssumption
<1>4. Cardinality({e \in Consumers : Serves[e] = QueueOf[m]}) <= 1
  BY <1>3 DEF NoConcurrentDuplicates
<1>. QED
  BY <1>1, <1>2, <1>4, SoleConsumer

LEMMA DeliverDebt ==
  ASSUME PlacesInv, TypeOK', NoConcurrentDuplicates, IsFiniteSet(Consumers), DebtInv,
         NEW c \in Consumers, NEW m \in Messages, Deliver(c, m),
         NEW q \in Queues, NEW i \in Ids
  PROVE  Debt(q, i)' <= 1 + faults'
<1>0. TypeOK /\ Debt(q, i) <= 1 + faults /\ faults \in Nat
  BY DeliveryAssumption DEF PlacesInv, DeliveryInv, DebtInv, TypeOK
<1>1. UNCHANGED <<chan, handled, effects, faults>> /\ ChannelIsUsable(c)
  BY DEF Deliver
<1>2. Leaving(q)' = Leaving(q) /\ Marked(q, i)' = Marked(q, i)
  BY <1>1 DEF Leaving, Marked
<1>3. CASE ~IsTargetMessageType(m)
  <2>1. UNCHANGED stage
    BY <1>3 DEF Deliver
  <2>2. Live(q, i)' = Live(q, i)
    BY <1>1, <2>1 DEF Live, ChannelIsUsable
  <2>3. Under(q, i)' \subseteq Under(q, i)
    BY <1>1, <2>1, UnderSame
  <2>. QED
    BY <1>0, <1>1, <1>2, <2>2, <2>3, QuietStep
<1>4. CASE IsTargetMessageType(m) /\ (Marked(q, i) \/ q # QueueOf[m] \/ i # MessageId[m])
  <2>1. Goto(c, m, "checking")
    BY <1>4 DEF Deliver
  <2>2. Live(q, i) => Live(q, i)'
    BY <1>0, <1>1, <2>1, LiveStays DEF Stage
  <2>3. ASSUME NEW d \in Consumers, NEW n \in Messages, QueueOf[n] = q, MessageId[n] = i,
               WillDispatch(d, n)'
        PROVE  WillDispatch(d, n)
    BY <1>0, <1>1, <1>2, <1>4, <2>1, <2>3, GotoType DEF WillDispatch, Stage, Marked
  <2>4. Under(q, i)' \subseteq Under(q, i)
    <3>. SUFFICES ASSUME NEW x \in Under(q, i)' PROVE x \in Under(q, i)
      OBVIOUS
    <3>1. /\ x \in Consumers \X Messages /\ QueueOf[x[2]] = q /\ MessageId[x[2]] = i
          /\ WillDispatch(x[1], x[2])'
      BY DEF Under
    <3>2. WillDispatch(x[1], x[2])
      BY <2>3, <3>1
    <3>. QED
      BY <3>1, <3>2 DEF Under
  <2>. QED
    BY <1>0, <1>1, <1>2, <2>2, <2>4, QuietStep
<1>5. CASE IsTargetMessageType(m) /\ ~Marked(q, i) /\ q = QueueOf[m] /\ i = MessageId[m]
  <2>1. Goto(c, m, "checking")
    BY <1>5 DEF Deliver
  <2>2. /\ stage'[c][m] = "checking"
        /\ \A d \in Consumers, n \in Messages : d # c \/ n # m => stage'[d][n] = stage[d][n]
    BY <1>0, <2>1, GotoType DEF Stage
  <2>3. Due(q, i) = 1
    BY <1>5, DeliveredAlone DEF Due
  <2>4. Live(q, i)'
    BY <1>1, <1>5, <2>2 DEF Live, ChannelIsUsable
  <2>5. Due(q, i)' = 0
    BY <2>4 DEF Due
  <2>6. Under(q, i)' \subseteq Under(q, i) \cup {<<c, m>>}
    <3>. SUFFICES ASSUME NEW x \in Under(q, i)', x # <<c, m>> PROVE x \in Under(q, i)
      OBVIOUS
    <3>1. /\ x \in Consumers \X Messages /\ QueueOf[x[2]] = q /\ MessageId[x[2]] = i
          /\ WillDispatch(x[1], x[2])'
      BY DEF Under
    <3>2. x[1] # c \/ x[2] # m
      BY <3>1
    <3>3. stage'[x[1]][x[2]] = stage[x[1]][x[2]]
      BY <2>2, <3>1, <3>2
    <3>4. WillDispatch(x[1], x[2])
      BY <1>1, <3>1, <3>3 DEF WillDispatch, Marked
    <3>. QED
      BY <3>1, <3>4 DEF Under
  <2>7. /\ Cardinality(Under(q, i)') <= Cardinality(Under(q, i)) + 1
        /\ Cardinality(Under(q, i)') \in Nat /\ Cardinality(Under(q, i)) \in Nat
    BY <1>0, <2>6, PartsType, Count
  <2>8. Cardinality(Leaving(q)) \in Nat
    BY <1>0, PartsType, Count
  <2>9. effects'[q][i] = effects[q][i] /\ effects[q][i] \in Nat
    BY <1>0, <1>1, PartsType
  <2>. QED
    BY <1>0, <1>1, <1>2, <2>3, <2>5, <2>7, <2>8, <2>9 DEF Debt
<1>. QED
  BY <1>3, <1>4, <1>5

\* A dispatch that succeeds, or fails after it took effect, is no longer due.
LEMMA EffectLeavesUnder ==
  ASSUME PlacesInv, NEW c \in Consumers, NEW m \in Messages, NEW s \in {"marking", "idle"},
         stage[c][m] = "dispatching", Goto(c, m, s), TakesEffect(Serves[c], MessageId[m]),
         NEW q \in Queues, NEW i \in Ids
  PROVE  \/ effects'[q][i] = effects[q][i] /\ (q # QueueOf[m] \/ i # MessageId[m])
         \/ /\ effects'[q][i] = effects[q][i] + 1 /\ q = QueueOf[m] /\ i = MessageId[m]
            /\ <<c, m>> \in Under(q, i) /\ <<c, m>> \notin Under(q, i)'
<1>0. TypeOK /\ Serves[c] = QueueOf[m]
  BY DEF PlacesInv, DeliveryInv, HandlersAreListeners
<1>1. effects' = [effects EXCEPT ![QueueOf[m]][MessageId[m]] = @ + 1]
  BY <1>0 DEF TakesEffect
<1>2. effects \in [Queues -> [Ids -> Nat]]
  BY <1>0 DEF TypeOK
<1>3. CASE q # QueueOf[m] \/ i # MessageId[m]
  <2>1. effects'[q][i] = effects[q][i]
    BY <1>1, <1>2, <1>3
  <2>. QED
    BY <1>3, <2>1
<1>4. CASE q = QueueOf[m] /\ i = MessageId[m]
  <2>1. effects'[q][i] = effects[q][i] + 1
    BY <1>1, <1>2, <1>4
  <2>2. stage'[c][m] = s
    BY <1>0, GotoType DEF Stage
  <2>3. WillDispatch(c, m) /\ ~WillDispatch(c, m)'
    BY <2>2 DEF WillDispatch
  <2>. QED
    BY <1>4, <2>1, <2>3 DEF Under
<1>. QED
  BY <1>3, <1>4

LEMMA DispatchDebt ==
  ASSUME PlacesInv, TypeOK', IsFiniteSet(Consumers), DebtInv,
         NEW c \in Consumers, NEW m \in Messages, DispatchOk(c, m),
         NEW q \in Queues, NEW i \in Ids
  PROVE  Debt(q, i)' <= 1 + faults'
<1>0. TypeOK /\ Debt(q, i) <= 1 + faults /\ faults \in Nat
  BY DeliveryAssumption DEF PlacesInv, DeliveryInv, DebtInv, TypeOK
<1>1. /\ stage[c][m] = "dispatching" /\ Goto(c, m, "marking")
      /\ TakesEffect(Serves[c], MessageId[m])
      /\ UNCHANGED <<loc, chan, handled, faults>>
  BY DEF DispatchOk
<1>2. Under(q, i)' \subseteq Under(q, i)
  BY <1>0, <1>1, UnderShrinks DEF Stage
<1>3. Live(q, i) => Live(q, i)'
  BY <1>0, <1>1, LiveStays DEF Stage
<1>4. Leaving(q)' = Leaving(q) /\ Marked(q, i)' = Marked(q, i)
  BY <1>1 DEF Leaving, Marked
<1>5. CASE effects'[q][i] = effects[q][i]
  BY <1>0, <1>1, <1>2, <1>3, <1>4, <1>5, QuietStep
<1>6. CASE /\ effects'[q][i] = effects[q][i] + 1
           /\ <<c, m>> \in Under(q, i) /\ <<c, m>> \notin Under(q, i)'
  <2>1. /\ Cardinality(Under(q, i)') + 1 <= Cardinality(Under(q, i))
        /\ Cardinality(Under(q, i)') \in Nat /\ Cardinality(Under(q, i)) \in Nat
    BY <1>0, <1>2, <1>6, PartsType, Count
  <2>2. Due(q, i)' <= Due(q, i)
    BY <1>3, <1>4 DEF Due
  <2>3. Cardinality(Leaving(q)) \in Nat
    BY <1>0, PartsType, Count
  <2>4. /\ effects[q][i] \in Nat /\ effects'[q][i] = effects[q][i] + 1
        /\ Due(q, i) \in {0, 1} /\ Due(q, i)' \in {0, 1} /\ faults' = faults
    BY <1>0, <1>1, <1>6, PartsType
  <2>. QED
    BY <1>0, <1>4, <2>1, <2>2, <2>3, <2>4 DEF Debt
<1>. QED
  BY <1>1, <1>5, <1>6, EffectLeavesUnder

LEMMA HandlerDebt ==
  ASSUME PlacesInv, TypeOK', IsFiniteSet(Consumers), DebtInv,
         NEW c \in Consumers, NEW m \in Messages,
         CheckFound(c, m) \/ CheckMissing(c, m) \/ MarkStored(c, m) \/ Acknowledge(c, m),
         NEW q \in Queues, NEW i \in Ids
  PROVE  Debt(q, i)' <= 1 + faults'
<1>0. TypeOK /\ Debt(q, i) <= 1 + faults /\ faults \in Nat
  BY DeliveryAssumption DEF PlacesInv, DeliveryInv, DebtInv, TypeOK
<1>1. UNCHANGED <<chan, effects, faults>> /\ handled \subseteq handled'
  BY DEF CheckFound, CheckMissing, MarkStored, Acknowledge
<1>2. PICK s \in {"dispatching", "acking", "idle"} :
        /\ Goto(c, m, s)
        /\ s = "dispatching" => WillDispatch(c, m)
        /\ s = "idle" => Marked(QueueOf[m], MessageId[m])
  <2>1. CASE CheckFound(c, m) \/ MarkStored(c, m)
    BY <2>1 DEF CheckFound, MarkStored
  <2>2. CASE CheckMissing(c, m)
    BY <2>2 DEF CheckMissing, WillDispatch, Marked, PlacesInv, DeliveryInv, HandlersAreListeners
  <2>3. CASE Acknowledge(c, m)
    BY <2>3 DEF Acknowledge, PlacesInv, DeliveryInv, AckingIsHandled, KeyOf, Marked
  <2>. QED
    BY <2>1, <2>2, <2>3
<1>3. Under(q, i)' \subseteq Under(q, i)
  BY <1>0, <1>1, <1>2, UnderShrinks DEF Stage
<1>4. Leaving(q)' = Leaving(q) /\ (Marked(q, i) => Marked(q, i)')
  BY <1>1 DEF Leaving, Marked
<1>5. Live(q, i) => Live(q, i)' \/ Marked(q, i)'
  <2>1. CASE s # "idle" \/ q # QueueOf[m] \/ i # MessageId[m]
    BY <1>0, <1>1, <1>2, <2>1, LiveStays DEF Stage
  <2>2. CASE s = "idle" /\ q = QueueOf[m] /\ i = MessageId[m]
    BY <1>2, <1>4, <2>2
  <2>. QED
    BY <2>1, <2>2
<1>. QED
  BY <1>0, <1>1, <1>3, <1>4, <1>5, QuietStep

LEMMA HandlerFailsDebt ==
  ASSUME PlacesInv, TypeOK', IsFiniteSet(Consumers), DebtInv,
         NEW c \in Consumers, NEW m \in Messages, HandlerFails(c, m),
         NEW q \in Queues, NEW i \in Ids
  PROVE  Debt(q, i)' <= 1 + faults'
<1>0. TypeOK /\ Debt(q, i) <= 1 + faults
  BY DEF PlacesInv, DeliveryInv, DebtInv
<1>1. /\ Goto(c, m, "idle") /\ UNCHANGED chan /\ faults' = faults + 1
      /\ handled \subseteq handled'
      /\ \/ UNCHANGED effects
         \/ stage[c][m] = "dispatching" /\ TakesEffect(Serves[c], MessageId[m])
  BY DEF HandlerFails, CheckFail, DispatchFail, MarkFail, Fault
<1>2. Under(q, i)' \subseteq Under(q, i)
  BY <1>0, <1>1, UnderShrinks DEF Stage
<1>3. Leaving(q)' = Leaving(q)
  BY <1>1 DEF Leaving
<1>4. \/ effects'[q][i] = effects[q][i]
      \/ effects'[q][i] = effects[q][i] + 1 /\ \E x \in Under(q, i) : x \notin Under(q, i)'
  <2>1. CASE UNCHANGED effects
    BY <2>1
  <2>2. CASE stage[c][m] = "dispatching" /\ TakesEffect(Serves[c], MessageId[m])
    BY <1>1, <2>2, EffectLeavesUnder
  <2>. QED
    BY <1>1, <2>1, <2>2
<1>. QED
  BY <1>0, <1>1, <1>2, <1>3, <1>4, FailureStep

LEMMA RegisterDebt ==
  ASSUME PlacesInv, TypeOK', IsFiniteSet(Consumers), DebtInv,
         NEW c \in Consumers, Register(c), NEW q \in Queues, NEW i \in Ids
  PROVE  Debt(q, i)' <= 1 + faults'
<1>0. TypeOK /\ Debt(q, i) <= 1 + faults /\ faults \in Nat
  BY DeliveryAssumption DEF PlacesInv, DeliveryInv, DebtInv, TypeOK
<1>1. /\ UNCHANGED <<stage, handled, effects, faults>>
      /\ chan'[c] = "open" /\ \A d \in Consumers : d # c => chan'[d] = chan[d]
  BY <1>0 DEF Register, TypeOK
<1>2. Under(q, i)' \subseteq Under(q, i) /\ (Marked(q, i) => Marked(q, i)')
  BY <1>1, UnderSame
<1>3. Leaving(q)' \subseteq Leaving(q)
  BY <1>1 DEF Leaving
<1>4. Live(q, i) => Live(q, i)'
  BY <1>1 DEF Live, ChannelIsUsable
<1>. QED
  BY <1>0, <1>1, <1>2, <1>3, <1>4, QuietStep

LEMMA StopDebt ==
  ASSUME PlacesInv, TypeOK', IsFiniteSet(Consumers), DebtInv,
         NEW c \in Consumers, Stop(c), NEW q \in Queues, NEW i \in Ids
  PROVE  Debt(q, i)' <= 1 + faults'
<1>0. TypeOK /\ Debt(q, i) <= 1 + faults
  BY DEF PlacesInv, DeliveryInv, DebtInv
<1>1. /\ UNCHANGED <<stage, handled, effects>> /\ faults' = faults + 1
      /\ chan'[c] = "cancelling" /\ \A d \in Consumers : d # c => chan'[d] = chan[d]
  BY <1>0 DEF Stop, Fault, TypeOK
<1>2. Under(q, i)' \subseteq Under(q, i) /\ (Marked(q, i) => Marked(q, i)')
  BY <1>1, UnderSame
<1>3. Leaving(q)' \subseteq Leaving(q) \cup {c}
  BY <1>1 DEF Leaving
<1>4. Live(q, i) => Live(q, i)'
  BY <1>1 DEF Live, ChannelIsUsable
<1>5. Due(q, i)' <= Due(q, i)
  BY <1>2, <1>4 DEF Due
<1>6. /\ Cardinality(Under(q, i)') <= Cardinality(Under(q, i))
      /\ Cardinality(Under(q, i)') \in Nat /\ Cardinality(Under(q, i)) \in Nat
  BY <1>0, <1>2, PartsType, Count
<1>7. /\ Cardinality(Leaving(q)') <= Cardinality(Leaving(q)) + 1
      /\ Cardinality(Leaving(q)') \in Nat /\ Cardinality(Leaving(q)) \in Nat
  BY <1>0, <1>3, PartsType, Count
<1>. QED
  BY <1>0, <1>1, <1>5, <1>6, <1>7, PartsType DEF Debt

\* The cancelled consumer cannot settle its message any more, as was counted on.
LEMMA CancelDebt ==
  ASSUME PlacesInv, TypeOK', IsFiniteSet(Consumers), DebtInv,
         NEW c \in Consumers, CancelOk(c), NEW q \in Queues, NEW i \in Ids
  PROVE  Debt(q, i)' <= 1 + faults'
<1>0. TypeOK /\ Debt(q, i) <= 1 + faults /\ faults \in Nat
  BY DeliveryAssumption DEF PlacesInv, DeliveryInv, DebtInv, TypeOK
<1>1. /\ UNCHANGED <<stage, handled, effects, faults>> /\ chan[c] = "cancelling"
      /\ chan'[c] = "closing" /\ \A d \in Consumers : d # c => chan'[d] = chan[d]
  BY <1>0 DEF CancelOk, TypeOK
<1>2. Under(q, i)' \subseteq Under(q, i) /\ (Marked(q, i) => Marked(q, i)')
  BY <1>1, UnderSame
<1>3. Leaving(q)' \subseteq Leaving(q) /\ c \notin Leaving(q)'
  BY <1>1 DEF Leaving
<1>4. CASE Serves[c] # q
  <2>1. Live(q, i) => Live(q, i)'
    <3>. SUFFICES ASSUME NEW d \in Consumers, NEW n \in Messages,
                         QueueOf[n] = q, MessageId[n] = i,
                         stage[d][n] # "idle", ChannelIsUsable(d)
                  PROVE  Live(q, i)'
      BY DEF Live
    <3>1. d # c
      BY <1>4 DEF PlacesInv, DeliveryInv, HandlersAreListeners
    <3>2. ChannelIsUsable(d)' /\ stage'[d][n] # "idle"
      BY <1>1, <3>1 DEF ChannelIsUsable
    <3>. QED
      BY <3>2 DEF Live
  <2>. QED
    BY <1>0, <1>1, <1>2, <1>3, <2>1, QuietStep
<1>5. CASE Serves[c] = q
  <2>1. c \in Leaving(q)
    BY <1>1, <1>5 DEF Leaving
  <2>2. /\ Cardinality(Leaving(q)') + 1 <= Cardinality(Leaving(q))
        /\ Cardinality(Leaving(q)') \in Nat /\ Cardinality(Leaving(q)) \in Nat
    BY <1>0, <1>3, <2>1, PartsType, Count
  <2>3. /\ Cardinality(Under(q, i)') <= Cardinality(Under(q, i))
        /\ Cardinality(Under(q, i)') \in Nat /\ Cardinality(Under(q, i)) \in Nat
    BY <1>0, <1>2, PartsType, Count
  <2>. QED
    BY <1>0, <1>1, <2>2, <2>3, PartsType DEF Debt
<1>. QED
  BY <1>4, <1>5

\* Once a channel is closing its end changes nothing more.
LEMMA CloseDebt ==
  ASSUME PlacesInv, TypeOK', IsFiniteSet(Consumers), DebtInv,
         NEW c \in Consumers, CloseOk(c), NEW q \in Queues, NEW i \in Ids
  PROVE  Debt(q, i)' <= 1 + faults'
<1>0. TypeOK /\ Debt(q, i) <= 1 + faults /\ faults \in Nat
  BY DeliveryAssumption DEF PlacesInv, DeliveryInv, DebtInv, TypeOK
<1>1. /\ UNCHANGED <<stage, handled, effects, faults>> /\ chan[c] = "closing"
      /\ chan'[c] = "stopped" /\ \A d \in Consumers : d # c => chan'[d] = chan[d]
  BY <1>0 DEF CloseOk, TypeOK
<1>2. Under(q, i)' \subseteq Under(q, i) /\ (Marked(q, i) => Marked(q, i)')
  BY <1>1, UnderSame
<1>3. Leaving(q)' \subseteq Leaving(q)
  BY <1>1 DEF Leaving
<1>4. Live(q, i) => Live(q, i)'
  BY <1>1 DEF Live, ChannelIsUsable
<1>. QED
  BY <1>0, <1>1, <1>2, <1>3, <1>4, QuietStep

LEMMA BreakDebt ==
  ASSUME PlacesInv, TypeOK', IsFiniteSet(Consumers), DebtInv,
         NEW c \in Consumers, ConnectionLoss(c) \/ ChannelError(c) \/ Crash(c),
         NEW q \in Queues, NEW i \in Ids
  PROVE  Debt(q, i)' <= 1 + faults'
<1>0. TypeOK /\ Debt(q, i) <= 1 + faults
  BY DEF PlacesInv, DeliveryInv, DebtInv
<1>1. /\ UNCHANGED <<handled, effects>> /\ faults' = faults + 1
      /\ chan'[c] \in {"off", "broken"} /\ \A d \in Consumers : d # c => chan'[d] = chan[d]
  BY <1>0 DEF ConnectionLoss, ChannelError, Crash, Fault, TypeOK
<1>2. \A d \in Consumers, n \in Messages : stage'[d][n] \in {stage[d][n], "idle"}
  <2>1. UNCHANGED stage \/ stage' = [stage EXCEPT ![c] = [m \in Messages |-> "idle"]]
    BY DEF ConnectionLoss, ChannelError, Crash
  <2>. QED
    BY <1>0, <2>1 DEF TypeOK
<1>3. Under(q, i)' \subseteq Under(q, i)
  <2>1. ASSUME NEW d \in Consumers, NEW n \in Messages, WillDispatch(d, n)'
        PROVE  WillDispatch(d, n)
    BY <1>1, <1>2, <2>1 DEF WillDispatch, Marked
  <2>. SUFFICES ASSUME NEW x \in Under(q, i)' PROVE x \in Under(q, i)
    OBVIOUS
  <2>2. /\ x \in Consumers \X Messages /\ QueueOf[x[2]] = q /\ MessageId[x[2]] = i
        /\ WillDispatch(x[1], x[2])'
    BY DEF Under
  <2>3. WillDispatch(x[1], x[2])
    BY <2>1, <2>2
  <2>. QED
    BY <2>2, <2>3 DEF Under
<1>4. Leaving(q)' \subseteq Leaving(q)
  BY <1>1 DEF Leaving
<1>. QED
  BY <1>0, <1>1, <1>3, <1>4, FailureStep

-----------------------------------------------------------------------------
(* The theorem.                                                            *)

LEMMA DebtInit ==
  ASSUME Init, IsFiniteSet(Consumers)
  PROVE  DebtInv
<1>. SUFFICES ASSUME NEW q \in Queues, NEW i \in Ids PROVE Debt(q, i) <= 1 + faults
  BY DEF DebtInv
<1>1. Under(q, i) = {} /\ Leaving(q) = {}
  BY DEF Init, Under, WillDispatch, Leaving
<1>2. effects[q][i] = 0 /\ faults = 0 /\ Due(q, i) \in {0, 1}
  BY DEF Init, Due
<1>. QED
  BY <1>1, <1>2, FS_EmptySet DEF Debt

LEMMA DebtStep ==
  ASSUME IsFiniteSet(Consumers), NoConcurrentDuplicates, PlacesInv, PlacesInv', DebtInv,
         [Next]_vars
  PROVE  DebtInv'
<1>. SUFFICES ASSUME NEW q \in Queues, NEW i \in Ids
              PROVE  Debt(q, i)' <= 1 + faults'
  BY DEF DebtInv, Ids
<1>0. TypeOK'
  BY DEF PlacesInv, DeliveryInv
<1>1. CASE UNCHANGED vars
  <2>1. Debt(q, i)' = Debt(q, i)
    BY <1>1 DEF vars, Debt, Under, WillDispatch, Marked, Due, Live, ChannelIsUsable, Leaving
  <2>. QED
    BY <1>1, <2>1 DEF vars, DebtInv
<1>2. CASE Next
  BY <1>0, <1>2, RegisterDebt, CancelDebt, CloseDebt, StopDebt, BreakDebt, DeliverDebt, HandlerDebt,
    DispatchDebt, HandlerFailsDebt
  DEF Next, Environment, Handler
<1>. QED
  BY <1>1, <1>2

\* A dispatch takes effect for an event once, and once more for each failure.
LEMMA DebtBounds ==
  ASSUME IsFiniteSet(Consumers), PlacesInv, DebtInv
  PROVE  AtMostOncePerFault
<1>. SUFFICES ASSUME NEW q \in Queues, NEW i \in Ids
              PROVE  effects[q][i] <= 1 + faults
  BY DEF AtMostOncePerFault
<1>1. Debt(q, i) <= 1 + faults
  BY DEF DebtInv
<1>2. Under(q, i) \in SUBSET (Consumers \X Messages) /\ Leaving(q) \in SUBSET Consumers
  BY DEF Under, Leaving
<1>3. Cardinality(Under(q, i)) \in Nat /\ Cardinality(Leaving(q)) \in Nat
  BY <1>2, Finite
<1>4. effects[q][i] \in Nat /\ faults \in Nat /\ Due(q, i) \in {0, 1}
  BY DeliveryAssumption DEF PlacesInv, DeliveryInv, TypeOK, Due
<1>. QED
  BY <1>1, <1>3, <1>4 DEF Debt

THEOREM OncePerFault ==
  ASSUME IsFiniteSet(Consumers)
  PROVE  Spec => []AtMostOncePerFault
<1>1. CASE ~NoConcurrentDuplicates
  <2>1. AtMostOncePerFault
    BY <1>1 DEF AtMostOncePerFault
  <2>. QED
    BY <2>1, PTL
<1>2. CASE NoConcurrentDuplicates
  <2>1. Init => DebtInv
    BY DebtInit
  <2>2. PlacesInv /\ PlacesInv' /\ DebtInv /\ [Next]_vars => DebtInv'
    BY <1>2, DebtStep
  <2>3. PlacesInv /\ DebtInv => AtMostOncePerFault
    BY DebtBounds
  <2>. QED
    BY <2>1, <2>2, <2>3, PlacesHold, PTL DEF Spec
<1>. QED
  BY <1>1, <1>2
=============================================================================
