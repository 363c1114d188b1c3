------------------------ MODULE MessageDelivery_proof ------------------------
(***************************************************************************)
(* What MessageDelivery guarantees for every set of messages, queues and   *)
(* consumers, every configuration of the listeners and any number of       *)
(* failures: the inductive invariant DeliveryInv, the safety properties it *)
(* implies, and the refinement of EventHandling.                           *)
(***************************************************************************)
EXTENDS MessageDelivery, TLAPS

-----------------------------------------------------------------------------
(* Lemmas about the operators.                                             *)

\* The tracker's keys are sequences of segments.
LEMMA KeyType ==
  ASSUME NEW q \in Queues, NEW m \in Messages
  PROVE  KeyWithPrefix(q, MessageId[m]) \in Seq(STRING)
  BY DeliveryAssumption DEF KeyWithPrefix

\* Settling moves the one message, and to a place of the broker.
LEMMA SettleType ==
  ASSUME TypeOK, NEW c \in Consumers, NEW m \in Messages,
         NEW outcome \in {"ready", "acked", "dropped"}, Settle(c, m, outcome)
  PROVE  /\ loc' \in [Messages -> {"ready", "acked", "dropped"} \cup Consumers]
         /\ \A n \in Messages : loc'[n] = loc[n] \/ (n = m /\ loc'[n] = outcome /\ ChannelIsUsable(c))
  BY DEF Settle, TypeOK

LEMMA NakType ==
  ASSUME TypeOK, NEW c \in Consumers, NEW m \in Messages, Nak(c, m)
  PROVE  /\ loc' \in [Messages -> {"ready", "acked", "dropped"} \cup Consumers]
         /\ \A n \in Messages :
              loc'[n] = loc[n] \/ (n = m /\ loc'[n] \in {"ready", "dropped"} /\ ChannelIsUsable(c))
  BY SettleType DEF Nak

\* What the broker takes back was with the consumer.
LEMMA RequeueType ==
  ASSUME TypeOK, NEW c \in Consumers, Requeue(c)
  PROVE  /\ loc' \in [Messages -> {"ready", "acked", "dropped"} \cup Consumers]
         /\ \A n \in Messages : loc'[n] = IF loc[n] = c THEN "ready" ELSE loc[n]
  BY DEF Requeue, TypeOK

\* A dispatch adds to the count of one listener and one id only.
LEMMA EffectType ==
  ASSUME TypeOK, NEW m \in Messages, TakesEffect(QueueOf[m], MessageId[m])
  PROVE  /\ effects' \in [Queues -> [Ids -> Nat]]
         /\ EffectsOf(m)' >= 1
         /\ \A n \in Messages :
              EffectsOf(n)' >= EffectsOf(n) /\ EffectsOf(n) \in Nat /\ EffectsOf(n)' \in Nat
<1> DEFINE q == QueueOf[m]
           i == MessageId[m]
<1>1. q \in Queues /\ i \in Ids
  BY DeliveryAssumption DEF Ids
<1>2. effects \in [Queues -> [Ids -> Nat]]
  BY DEF TypeOK
<1>3. effects' = [effects EXCEPT ![q][i] = @ + 1]
  BY DEF TakesEffect
<1>4. EffectsOf(m)' = effects'[q][i]
  BY DEF EffectsOf
<1>. HIDE DEF i, q
<1>5. effects' \in [Queues -> [Ids -> Nat]] /\ effects'[q][i] = effects[q][i] + 1
  BY <1>1, <1>2, <1>3
<1>6. \A r \in Queues, j \in Ids :
        effects'[r][j] >= effects[r][j] /\ effects[r][j] \in Nat /\ effects'[r][j] \in Nat
  BY <1>1, <1>2, <1>3, <1>5
<1>7. EffectsOf(m)' >= 1
  BY <1>1, <1>4, <1>5, <1>6
<1>8. ASSUME NEW n \in Messages
      PROVE  EffectsOf(n)' >= EffectsOf(n) /\ EffectsOf(n) \in Nat /\ EffectsOf(n)' \in Nat
  <2>1. QueueOf[n] \in Queues /\ MessageId[n] \in Ids
    BY DeliveryAssumption DEF Ids
  <2>. QED
    BY <1>6, <2>1 DEF EffectsOf
<1>. QED
  BY <1>5, <1>7, <1>8

LEMMA GotoType ==
  ASSUME TypeOK, NEW c \in Consumers, NEW m \in Messages, NEW s \in Stage, Goto(c, m, s)
  PROVE  /\ stage' \in [Consumers -> [Messages -> Stage]]
         /\ stage'[c][m] = s
         /\ \A d \in Consumers, n \in Messages :
              d # c \/ n # m => stage'[d][n] = stage[d][n]
  BY DEF Goto, TypeOK

LEMMA FaultType ==
  ASSUME TypeOK, NEW kind, Fault(kind)
  PROVE  faults' \in 0 .. MaxFaults
  BY DeliveryAssumption DEF Fault, TypeOK

-----------------------------------------------------------------------------
(* The invariant.                                                          *)

\* Nothing has been handled at the start.
LEMMA DeliveryInit == Init => DeliveryInv
<1>. SUFFICES ASSUME Init PROVE DeliveryInv
  OBVIOUS
<1>1. TypeOK
  BY DeliveryAssumption DEF Init, TypeOK, ChanState, Stage
<1>2. HandlersAreListeners /\ HandlerHoldsMessage /\ AckingIsHandled /\ MarkingHadEffect
  BY DEF Init, HandlersAreListeners, HandlerHoldsMessage, AckingIsHandled, MarkingHadEffect
<1>3. AckedWasHandled /\ HandledHadEffect
  BY DEF Init, AckedWasHandled, HandledHadEffect
<1>. QED
  BY <1>1, <1>2, <1>3 DEF DeliveryInv

\* A handler that moves on without settling, or ends by settling its message,
\* leaves alone what the other handlers rely on.
LEMMA HandlerKeepsPlaces ==
  ASSUME DeliveryInv, NEW c \in Consumers, NEW m \in Messages, NEW s \in Stage,
         stage[c][m] # "idle", Goto(c, m, s), UNCHANGED chan,
         \/ UNCHANGED loc
         \/ /\ s = "idle"
            /\ \A n \in Messages : loc'[n] = loc[n] \/ (n = m /\ ChannelIsUsable(c))
  PROVE  HandlersAreListeners' /\ HandlerHoldsMessage'
<1>0. /\ stage'[c][m] = s
      /\ \A d \in Consumers, n \in Messages : d # c \/ n # m => stage'[d][n] = stage[d][n]
  BY GotoType DEF DeliveryInv
<1>1. HandlersAreListeners'
  BY <1>0 DEF DeliveryInv, HandlersAreListeners
<1>2. HandlerHoldsMessage'
  <2>. SUFFICES ASSUME NEW d \in Consumers, NEW n \in Messages,
                       stage'[d][n] # "idle", ChannelIsUsable(d)'
                PROVE  loc'[n] = d
    BY DEF HandlerHoldsMessage
  <2>1. ChannelIsUsable(d)
    BY DEF ChannelIsUsable
  <2>2. stage[d][n] # "idle"
    BY <1>0
  <2>3. loc[n] = d
    BY <2>1, <2>2 DEF DeliveryInv, HandlerHoldsMessage
  <2>4. CASE n = m /\ ChannelIsUsable(c)
    <3>1. loc[m] = c
      BY <2>4 DEF DeliveryInv, HandlerHoldsMessage
    <3>. QED
      BY <1>0, <2>3, <2>4, <3>1
  <2>. QED
    BY <2>3, <2>4
<1>. QED
  BY <1>1, <1>2

\* A handler that is not entering the marking or acking stage, and counts that
\* only grow, keep what those stages stand for.
LEMMA HandlerKeepsHistory ==
  ASSUME DeliveryInv, NEW c \in Consumers, NEW m \in Messages, NEW s \in Stage, Goto(c, m, s),
         handled \subseteq handled', s = "acking" => KeyOf(m) \in handled',
         \A n \in Messages : EffectsOf(n)' >= EffectsOf(n) /\ EffectsOf(n) \in Nat /\ EffectsOf(n)' \in Nat,
         s = "marking" => EffectsOf(m)' >= 1
  PROVE  AckingIsHandled' /\ MarkingHadEffect'
<1>0. /\ stage'[c][m] = s
      /\ \A d \in Consumers, n \in Messages : d # c \/ n # m => stage'[d][n] = stage[d][n]
  BY GotoType DEF DeliveryInv
<1>1. AckingIsHandled'
  <2>. SUFFICES ASSUME NEW d \in Consumers, NEW n \in Messages, stage'[d][n] = "acking"
                PROVE  KeyOf(n) \in handled'
    BY DEF AckingIsHandled
  <2>. QED
    BY <1>0 DEF DeliveryInv, AckingIsHandled
<1>2. MarkingHadEffect'
  <2>. SUFFICES ASSUME NEW d \in Consumers, NEW n \in Messages, stage'[d][n] = "marking"
                PROVE  EffectsOf(n)' >= 1
    BY DEF MarkingHadEffect
  <2>1. CASE d = c /\ n = m
    BY <1>0, <2>1
  <2>2. CASE d # c \/ n # m
    <3>1. EffectsOf(n) >= 1
      BY <1>0, <2>2 DEF DeliveryInv, MarkingHadEffect
    <3>. QED
      BY <3>1
  <2>. QED
    BY <2>1, <2>2
<1>. QED
  BY <1>1, <1>2

\* The count of every message is a number, and stays one.
LEMMA EffectsAreNumbers ==
  ASSUME TypeOK, UNCHANGED effects
  PROVE  \A n \in Messages :
           EffectsOf(n)' >= EffectsOf(n) /\ EffectsOf(n) \in Nat /\ EffectsOf(n)' \in Nat
<1>1. \A n \in Messages : QueueOf[n] \in Queues /\ MessageId[n] \in Ids
  BY DeliveryAssumption DEF Ids
<1>2. effects \in [Queues -> [Ids -> Nat]]
  BY DEF TypeOK
<1>3. \A n \in Messages : EffectsOf(n) \in Nat
  BY <1>1, <1>2 DEF EffectsOf
<1>4. \A n \in Messages : EffectsOf(n)' = EffectsOf(n)
  BY DEF EffectsOf
<1>. QED
  BY <1>3, <1>4

\* What makes a channel unusable returns the messages it held; handlers that
\* are still running there can no longer settle anything.
LEMMA RequeueKeepsInv ==
  ASSUME DeliveryInv, NEW c \in Consumers, Requeue(c), UNCHANGED <<handled, effects>>,
         chan' \in [Consumers -> ChanState], chan'[c] \notin {"open", "cancelling"},
         \A d \in Consumers : d # c => chan'[d] = chan[d],
         stage' \in [Consumers -> [Messages -> Stage]],
         \A d \in Consumers, n \in Messages : stage'[d][n] \in {stage[d][n], "idle"},
         faults' \in 0 .. MaxFaults
  PROVE  DeliveryInv'
<1>0. TypeOK /\ (\A n \in Messages : EffectsOf(n)' = EffectsOf(n))
  BY DEF DeliveryInv, EffectsOf
<1>1. /\ loc' \in [Messages -> {"ready", "acked", "dropped"} \cup Consumers]
      /\ \A n \in Messages : loc'[n] = IF loc[n] = c THEN "ready" ELSE loc[n]
  BY <1>0, RequeueType
<1>2. TypeOK'
  BY <1>0, <1>1 DEF TypeOK, Ids
<1>3. HandlersAreListeners'
  BY DEF DeliveryInv, HandlersAreListeners
<1>4. HandlerHoldsMessage'
  <2>. SUFFICES ASSUME NEW d \in Consumers, NEW n \in Messages,
                       stage'[d][n] # "idle", ChannelIsUsable(d)'
                PROVE  loc'[n] = d
    BY DEF HandlerHoldsMessage
  <2>1. d # c /\ ChannelIsUsable(d)
    BY DEF ChannelIsUsable
  <2>2. loc[n] = d
    BY <2>1 DEF DeliveryInv, HandlerHoldsMessage
  <2>. QED
    BY <1>1, <2>1, <2>2
<1>5. AckingIsHandled' /\ MarkingHadEffect'
  BY <1>0 DEF DeliveryInv, AckingIsHandled, MarkingHadEffect
<1>6. AckedWasHandled'
  BY <1>1 DEF DeliveryInv, AckedWasHandled
<1>7. HandledHadEffect'
  BY <1>0 DEF DeliveryInv, HandledHadEffect
<1>. QED
  BY <1>2, <1>3, <1>4, <1>5, <1>6, <1>7 DEF DeliveryInv

-----------------------------------------------------------------------------
(* One lemma for each step.                                                *)

LEMMA RegisterStep ==
  ASSUME DeliveryInv, NEW c \in Consumers, Register(c)
  PROVE  DeliveryInv'
<1>1. TypeOK'
  BY DEF DeliveryInv, Register, TypeOK, ChanState, Ids
<1>2. HandlerHoldsMessage'
  BY DEF DeliveryInv, Register, HandlerHoldsMessage, ChannelIsUsable, TypeOK, Idle
<1>3. HandlersAreListeners' /\ AckingIsHandled' /\ MarkingHadEffect'
  BY DEF DeliveryInv, Register, HandlersAreListeners, AckingIsHandled, MarkingHadEffect, EffectsOf
<1>4. AckedWasHandled' /\ HandledHadEffect'
  BY DEF DeliveryInv, Register, AckedWasHandled, HandledHadEffect, EffectsOf
<1>. QED
  BY <1>1, <1>2, <1>3, <1>4 DEF DeliveryInv

\* A delivery takes a message no handler with a usable channel has.
LEMMA DeliverStep ==
  ASSUME DeliveryInv, NEW c \in Consumers, NEW m \in Messages, Deliver(c, m)
  PROVE  DeliveryInv'
<1>0. /\ TypeOK /\ loc[m] = "ready" /\ Serves[c] = QueueOf[m]
      /\ UNCHANGED <<chan, handled, effects, faults>>
      /\ \A n \in Messages : EffectsOf(n)' = EffectsOf(n)
  BY DEF DeliveryInv, Deliver, IsHead, EffectsOf
<1>1. CASE IsTargetMessageType(m)
  <2>1. loc' = [loc EXCEPT ![m] = c] /\ Goto(c, m, "checking")
    BY <1>1 DEF Deliver
  <2>2. /\ stage' \in [Consumers -> [Messages -> Stage]]
        /\ stage'[c][m] = "checking"
        /\ \A d \in Consumers, n \in Messages : d # c \/ n # m => stage'[d][n] = stage[d][n]
    BY <1>0, <2>1, GotoType DEF Stage
  <2>3. loc'[m] = c /\ (\A n \in Messages : n # m => loc'[n] = loc[n])
    BY <1>0, <2>1 DEF TypeOK
  <2>4. TypeOK'
    BY <1>0, <2>1, <2>2 DEF TypeOK, Ids
  <2>5. HandlersAreListeners'
    BY <1>0, <1>1, <2>2 DEF DeliveryInv, HandlersAreListeners
  <2>6. HandlerHoldsMessage'
    <3>. SUFFICES ASSUME NEW d \in Consumers, NEW n \in Messages,
                         stage'[d][n] # "idle", ChannelIsUsable(d)'
                  PROVE  loc'[n] = d
      BY DEF HandlerHoldsMessage
    <3>1. CASE n # m
      BY <1>0, <2>2, <2>3, <3>1 DEF DeliveryInv, HandlerHoldsMessage, ChannelIsUsable
    <3>2. CASE n = m /\ d # c
      <4>1. loc[m] = d
        BY <1>0, <2>2, <3>2 DEF DeliveryInv, HandlerHoldsMessage, ChannelIsUsable
      <4>. QED
        BY <1>0, <4>1, DeliveryAssumption
    <3>. QED
      BY <2>3, <3>1, <3>2
  <2>7. AckingIsHandled' /\ MarkingHadEffect'
    BY <1>0, <2>2 DEF DeliveryInv, AckingIsHandled, MarkingHadEffect
  <2>8. AckedWasHandled'
    BY <1>0, <2>3, DeliveryAssumption DEF DeliveryInv, AckedWasHandled
  <2>9. HandledHadEffect'
    BY <1>0 DEF DeliveryInv, HandledHadEffect
  <2>. QED
    BY <2>4, <2>5, <2>6, <2>7, <2>8, <2>9 DEF DeliveryInv
<1>2. CASE ~IsTargetMessageType(m)
  <2>1. loc' = [loc EXCEPT ![m] = IF AutoAck[QueueOf[m]] THEN c ELSE "acked"] /\ UNCHANGED stage
    BY <1>2 DEF Deliver
  <2>2. /\ loc'[m] \in {c, "acked"}
        /\ \A n \in Messages : n # m => loc'[n] = loc[n]
    BY <1>0, <2>1 DEF TypeOK
  <2>3. TypeOK'
    BY <1>0, <2>1 DEF TypeOK, Ids
  <2>4. HandlerHoldsMessage'
    <3>. SUFFICES ASSUME NEW d \in Consumers, NEW n \in Messages,
                         stage'[d][n] # "idle", ChannelIsUsable(d)'
                  PROVE  loc'[n] = d
      BY DEF HandlerHoldsMessage
    <3>1. loc[n] = d
      BY <1>0, <2>1 DEF DeliveryInv, HandlerHoldsMessage, ChannelIsUsable
    <3>. QED
      BY <1>0, <2>2, <3>1, DeliveryAssumption
  <2>5. HandlersAreListeners' /\ AckingIsHandled' /\ MarkingHadEffect'
    BY <1>0, <2>1 DEF DeliveryInv, HandlersAreListeners, AckingIsHandled, MarkingHadEffect
  <2>6. AckedWasHandled'
    BY <1>0, <1>2, <2>2 DEF DeliveryInv, AckedWasHandled
  <2>7. HandledHadEffect'
    BY <1>0 DEF DeliveryInv, HandledHadEffect
  <2>. QED
    BY <2>3, <2>4, <2>5, <2>6, <2>7 DEF DeliveryInv
<1>. QED
  BY <1>1, <1>2

LEMMA CheckReplyStep ==
  ASSUME DeliveryInv, NEW c \in Consumers, NEW m \in Messages,
         CheckFound(c, m) \/ CheckMissing(c, m)
  PROVE  DeliveryInv'
<1>. DEFINE s == IF CheckFound(c, m) THEN "acking" ELSE "dispatching"
<1>1. /\ TypeOK /\ stage[c][m] = "checking"
      /\ Serves[c] = QueueOf[m]
  BY DEF DeliveryInv, CheckFound, CheckMissing, HandlersAreListeners
<1>2. /\ Goto(c, m, s) /\ s \in {"acking", "dispatching"} /\ s \in Stage
      /\ UNCHANGED <<loc, chan, handled, effects, faults>>
      /\ s = "acking" => KeyOf(m) \in handled
  BY <1>1 DEF CheckFound, CheckMissing, KeyOf, Stage
<1>. HIDE DEF s
<1>3. TypeOK'
  BY <1>1, <1>2, GotoType DEF TypeOK, Ids
<1>4. HandlersAreListeners' /\ HandlerHoldsMessage'
  BY <1>1, <1>2, HandlerKeepsPlaces
<1>5. AckingIsHandled' /\ MarkingHadEffect'
  BY <1>1, <1>2, EffectsAreNumbers, HandlerKeepsHistory
<1>6. AckedWasHandled' /\ HandledHadEffect'
  BY <1>2 DEF DeliveryInv, AckedWasHandled, HandledHadEffect, EffectsOf
<1>. QED
  BY <1>3, <1>4, <1>5, <1>6 DEF DeliveryInv

\* A handler that fails leaves its message to the queue, or drops it.
LEMMA HandlerFailsStep ==
  ASSUME DeliveryInv, NEW c \in Consumers, NEW m \in Messages, HandlerFails(c, m)
  PROVE  DeliveryInv'
<1>1. /\ TypeOK /\ stage[c][m] # "idle"
      /\ Serves[c] = QueueOf[m]
  BY DEF DeliveryInv, HandlerFails, CheckFail, DispatchFail, MarkFail, HandlersAreListeners
<1>2. /\ Goto(c, m, "idle") /\ Nak(c, m) /\ UNCHANGED chan
      /\ faults' \in 0 .. MaxFaults
  BY <1>1, FaultType DEF HandlerFails, CheckFail, DispatchFail, MarkFail
<1>3. /\ loc' \in [Messages -> {"ready", "acked", "dropped"} \cup Consumers]
      /\ \A n \in Messages :
           loc'[n] = loc[n] \/ (n = m /\ loc'[n] \in {"ready", "dropped"} /\ ChannelIsUsable(c))
  BY <1>1, <1>2, NakType
<1>4. /\ handled' \in {handled, handled \cup {KeyOf(m)}}
      /\ UNCHANGED handled \/ (UNCHANGED effects /\ stage[c][m] = "marking")
  BY <1>1 DEF HandlerFails, CheckFail, DispatchFail, MarkFail, KeyOf
<1>5. UNCHANGED effects \/ TakesEffect(QueueOf[m], MessageId[m])
  BY <1>1 DEF HandlerFails, CheckFail, DispatchFail, MarkFail
<1>6. /\ effects' \in [Queues -> [Ids -> Nat]]
      /\ \A n \in Messages :
           EffectsOf(n)' >= EffectsOf(n) /\ EffectsOf(n) \in Nat /\ EffectsOf(n)' \in Nat
  BY <1>1, <1>5, EffectType, EffectsAreNumbers DEF TypeOK
<1>7. TypeOK'
  <2>1. KeyOf(m) \in Seq(STRING)
    BY KeyType, DeliveryAssumption DEF KeyOf
  <2>. QED
    BY <1>1, <1>2, <1>3, <1>4, <1>6, <2>1, GotoType DEF TypeOK, Ids, Stage
<1>8. HandlersAreListeners' /\ HandlerHoldsMessage'
  BY <1>1, <1>2, <1>3, HandlerKeepsPlaces DEF Stage
<1>9. AckingIsHandled' /\ MarkingHadEffect'
  BY <1>2, <1>4, <1>6, HandlerKeepsHistory DEF Stage
<1>10. AckedWasHandled'
  BY <1>3, <1>4 DEF DeliveryInv, AckedWasHandled
<1>11. HandledHadEffect'
  <2>. SUFFICES ASSUME PrivateKeys, NEW n \in Messages, KeyOf(n) \in handled'
                PROVE  EffectsOf(n)' >= 1
    BY DEF HandledHadEffect
  <2>1. EffectsOf(n) >= 1
    <3>1. CASE KeyOf(n) \in handled
      BY <3>1 DEF DeliveryInv, HandledHadEffect
    <3>2. CASE KeyOf(n) \notin handled
      <4>1. KeyOf(n) = KeyOf(m) /\ EffectsOf(m) >= 1
        BY <1>4, <3>2 DEF DeliveryInv, MarkingHadEffect
      <4>. QED
        BY <4>1 DEF PrivateKeys, KeyOf, KeyWithPrefix, EffectsOf
    <3>. QED
      BY <3>1, <3>2
  <2>. QED
    BY <1>6, <2>1
<1>. QED
  BY <1>7, <1>8, <1>9, <1>10, <1>11 DEF DeliveryInv

LEMMA DispatchOkStep ==
  ASSUME DeliveryInv, NEW c \in Consumers, NEW m \in Messages, DispatchOk(c, m)
  PROVE  DeliveryInv'
<1>1. /\ TypeOK /\ stage[c][m] = "dispatching" /\ Goto(c, m, "marking")
      /\ TakesEffect(QueueOf[m], MessageId[m])
      /\ UNCHANGED <<loc, chan, handled, faults>>
  BY DEF DeliveryInv, DispatchOk, HandlersAreListeners
<1>2. /\ effects' \in [Queues -> [Ids -> Nat]] /\ EffectsOf(m)' >= 1
      /\ \A n \in Messages :
           EffectsOf(n)' >= EffectsOf(n) /\ EffectsOf(n) \in Nat /\ EffectsOf(n)' \in Nat
  BY <1>1, EffectType
<1>3. TypeOK'
  BY <1>1, <1>2, GotoType DEF TypeOK, Ids, Stage
<1>4. HandlersAreListeners' /\ HandlerHoldsMessage'
  BY <1>1, HandlerKeepsPlaces DEF Stage
<1>5. AckingIsHandled' /\ MarkingHadEffect'
  BY <1>1, <1>2, HandlerKeepsHistory DEF Stage
<1>6. AckedWasHandled'
  BY <1>1 DEF DeliveryInv, AckedWasHandled
<1>7. HandledHadEffect'
  BY <1>1, <1>2 DEF DeliveryInv, HandledHadEffect
<1>. QED
  BY <1>3, <1>4, <1>5, <1>6, <1>7 DEF DeliveryInv

\* The mark is stored: the event is handled, and it had its effect.
LEMMA MarkStoredStep ==
  ASSUME DeliveryInv, NEW c \in Consumers, NEW m \in Messages, MarkStored(c, m)
  PROVE  DeliveryInv'
<1>1. /\ TypeOK /\ stage[c][m] = "marking" /\ Goto(c, m, "acking")
      /\ handled' = handled \cup {KeyOf(m)}
      /\ UNCHANGED <<loc, chan, effects, faults>>
  BY DEF DeliveryInv, MarkStored, HandlersAreListeners, KeyOf
<1>2. TypeOK'
  <2>1. KeyOf(m) \in Seq(STRING)
    BY KeyType, DeliveryAssumption DEF KeyOf
  <2>. QED
    BY <1>1, <2>1, GotoType DEF TypeOK, Ids, Stage
<1>3. HandlersAreListeners' /\ HandlerHoldsMessage'
  BY <1>1, HandlerKeepsPlaces DEF Stage
<1>4. AckingIsHandled' /\ MarkingHadEffect'
  BY <1>1, EffectsAreNumbers, HandlerKeepsHistory DEF Stage
<1>5. AckedWasHandled'
  BY <1>1 DEF DeliveryInv, AckedWasHandled
<1>6. HandledHadEffect'
  <2>. SUFFICES ASSUME PrivateKeys, NEW n \in Messages, KeyOf(n) \in handled'
                PROVE  EffectsOf(n) >= 1
    BY <1>1 DEF HandledHadEffect, EffectsOf
  <2>1. CASE KeyOf(n) \in handled
    BY <2>1 DEF DeliveryInv, HandledHadEffect
  <2>2. CASE KeyOf(n) = KeyOf(m)
    <3>1. EffectsOf(m) >= 1
      BY <1>1 DEF DeliveryInv, MarkingHadEffect
    <3>. QED
      BY <2>2, <3>1 DEF PrivateKeys, KeyOf, KeyWithPrefix, EffectsOf
  <2>. QED
    BY <1>1, <2>1, <2>2
<1>. QED
  BY <1>2, <1>3, <1>4, <1>5, <1>6 DEF DeliveryInv

LEMMA AcknowledgeStep ==
  ASSUME DeliveryInv, NEW c \in Consumers, NEW m \in Messages, Acknowledge(c, m)
  PROVE  DeliveryInv'
<1>1. /\ TypeOK /\ stage[c][m] = "acking" /\ Goto(c, m, "idle")
      /\ Settle(c, m, "acked")
      /\ UNCHANGED <<chan, handled, effects, faults>>
  BY DEF DeliveryInv, Acknowledge, Ack
<1>2. /\ loc' \in [Messages -> {"ready", "acked", "dropped"} \cup Consumers]
      /\ \A n \in Messages : loc'[n] = loc[n] \/ (n = m /\ ChannelIsUsable(c))
  BY <1>1, SettleType
<1>3. TypeOK'
  BY <1>1, <1>2, GotoType DEF TypeOK, Ids, Stage
<1>4. HandlersAreListeners' /\ HandlerHoldsMessage'
  BY <1>1, <1>2, HandlerKeepsPlaces DEF Stage
<1>5. AckingIsHandled' /\ MarkingHadEffect'
  BY <1>1, EffectsAreNumbers, HandlerKeepsHistory DEF Stage
<1>6. AckedWasHandled'
  BY <1>1, <1>2 DEF DeliveryInv, AckedWasHandled, AckingIsHandled
<1>7. HandledHadEffect'
  BY <1>1 DEF DeliveryInv, HandledHadEffect, EffectsOf
<1>. QED
  BY <1>3, <1>4, <1>5, <1>6, <1>7 DEF DeliveryInv

LEMMA StopStep ==
  ASSUME DeliveryInv, NEW c \in Consumers, Stop(c) \/ CancelOk(c)
  PROVE  DeliveryInv'
<1>0. /\ UNCHANGED <<loc, stage, handled, effects>> /\ faults' \in 0 .. MaxFaults
      /\ \/ chan' = [chan EXCEPT ![c] = "cancelling"] /\ chan[c] = "open"
         \/ chan' = [chan EXCEPT ![c] = "closing"]
  BY FaultType DEF DeliveryInv, Stop, CancelOk, TypeOK
<1>1. TypeOK'
  BY <1>0 DEF DeliveryInv, TypeOK, ChanState, Ids
<1>2. HandlerHoldsMessage'
  BY <1>0 DEF DeliveryInv, HandlerHoldsMessage, ChannelIsUsable, TypeOK
<1>3. HandlersAreListeners' /\ AckingIsHandled' /\ MarkingHadEffect'
  BY <1>0 DEF DeliveryInv, HandlersAreListeners, AckingIsHandled, MarkingHadEffect, EffectsOf
<1>4. AckedWasHandled' /\ HandledHadEffect'
  BY <1>0 DEF DeliveryInv, AckedWasHandled, HandledHadEffect, EffectsOf
<1>. QED
  BY <1>1, <1>2, <1>3, <1>4 DEF DeliveryInv

LEMMA ChannelEndStep ==
  ASSUME DeliveryInv, NEW c \in Consumers,
         CloseOk(c) \/ ConnectionLoss(c) \/ ChannelError(c) \/ Crash(c)
  PROVE  DeliveryInv'
<1>0. TypeOK
  BY DEF DeliveryInv
<1>1. Requeue(c) /\ UNCHANGED <<handled, effects>> /\ faults' \in 0 .. MaxFaults
  BY <1>0, FaultType DEF CloseOk, ConnectionLoss, ChannelError, Crash, TypeOK
<1>2. /\ chan' \in [Consumers -> ChanState] /\ chan'[c] \notin {"open", "cancelling"}
      /\ \A d \in Consumers : d # c => chan'[d] = chan[d]
  BY <1>0 DEF CloseOk, ConnectionLoss, ChannelError, Crash, TypeOK, ChanState
<1>3. UNCHANGED stage \/ stage' = [stage EXCEPT ![c] = [m \in Messages |-> "idle"]]
  BY DEF CloseOk, ConnectionLoss, ChannelError, Crash
<1>4. /\ stage' \in [Consumers -> [Messages -> Stage]]
      /\ \A d \in Consumers, n \in Messages : stage'[d][n] \in {stage[d][n], "idle"}
  BY <1>0, <1>3 DEF TypeOK, Stage
<1>. QED
  BY <1>1, <1>2, <1>4, RequeueKeepsInv

\* Every step preserves the invariant.
LEMMA DeliveryStep == DeliveryInv /\ [Next]_vars => DeliveryInv'
<1>. SUFFICES ASSUME DeliveryInv, [Next]_vars PROVE DeliveryInv'
  OBVIOUS
<1>1. CASE UNCHANGED vars
  BY <1>1 DEF vars, DeliveryInv, TypeOK, HandlersAreListeners, HandlerHoldsMessage,
    AckingIsHandled, AckedWasHandled, MarkingHadEffect, HandledHadEffect, ChannelIsUsable,
    EffectsOf, Ids
<1>2. CASE Next
  BY <1>2, RegisterStep, DeliverStep, CheckReplyStep, HandlerFailsStep, DispatchOkStep,
    MarkStoredStep, AcknowledgeStep, StopStep, ChannelEndStep
  DEF Next, Handler, Environment
<1>. QED
  BY <1>1, <1>2

-----------------------------------------------------------------------------
(* The theorems.                                                           *)

\* DeliveryInv holds in every state.
THEOREM DeliveryCorrect == Spec => []DeliveryInv
  BY DeliveryInit, DeliveryStep, PTL DEF Spec

\* Every variable keeps its type.
THEOREM DeliveryTypeCorrect == Spec => []TypeOK
<1>1. DeliveryInv => TypeOK
  BY DEF DeliveryInv
<1>. QED
  BY <1>1, DeliveryCorrect, PTL

\* Only handled events are acknowledged.
THEOREM AckAfterMark == Spec => []AckedWasHandled
<1>1. DeliveryInv => AckedWasHandled
  BY DEF DeliveryInv
<1>. QED
  BY <1>1, DeliveryCorrect, PTL

\* Whatever an open channel's handler will settle is what the broker has
\* outstanding for it.
THEOREM SettlesItsOwn == Spec => []HandlerHoldsMessage
<1>1. DeliveryInv => HandlerHoldsMessage
  BY DEF DeliveryInv
<1>. QED
  BY <1>1, DeliveryCorrect, PTL

\* With a tracker prefix of its own, no listener misses an acknowledged event.
THEOREM NothingSwallowed == Spec => []NoEventSwallowed
<1>1. DeliveryInv => NoEventSwallowed
  BY DEF DeliveryInv, NoEventSwallowed, AckedWasHandled, HandledHadEffect
<1>. QED
  BY <1>1, DeliveryCorrect, PTL

-----------------------------------------------------------------------------
(* The refinement of EventHandling.                                        *)

\* Who holds a message is not seen from above.
LEMMA OutcomeSame ==
  ASSUME \A n \in Messages : \A s \in {"acked", "dropped"} : loc'[n] = s <=> loc[n] = s
  PROVE  UNCHANGED Outcome
  BY DEF Outcome

\* Settling one message is.
LEMMA OutcomeMoves ==
  ASSUME NEW m \in Messages, ~Settled(m), loc'[m] \in {"acked", "dropped"},
         \A n \in Messages : n # m => loc'[n] = loc[n]
  PROVE  /\ Outcome[m] = "pending"
         /\ Outcome' = [Outcome EXCEPT ![m] = IF loc'[m] = "acked" THEN "complete" ELSE "lost"]
  BY DEF Outcome, Settled

\* A handler whose channel lives has a message that is not settled.
LEMMA HeldIsPending ==
  ASSUME DeliveryInv, NEW c \in Consumers, NEW m \in Messages,
         stage[c][m] # "idle", ChannelIsUsable(c)
  PROVE  ~Settled(m)
<1>1. loc[m] = c
  BY DEF DeliveryInv, HandlerHoldsMessage
<1>. QED
  BY <1>1, DeliveryAssumption DEF Settled

LEMMA RefinementInit == Init => Abstract!HandlingInit
<1>. SUFFICES ASSUME Init PROVE Abstract!HandlingInit
  OBVIOUS
<1>1. Outcome = [m \in Messages |-> "pending"]
  BY DEF Init, Outcome
<1>. QED
  BY <1>1 DEF Init, Abstract!HandlingInit, Abstract!EventIds, Ids

\* Every step of the listeners is a step of EventHandling, or none.
LEMMA RefinementStep ==
  ASSUME PrivateKeys, DeliveryInv, [Next]_vars
  PROVE  [Abstract!HandlingNext]_<<Outcome, effects>>
<1>. DEFINE Stutter == UNCHANGED <<Outcome, effects>>
<1>0. TypeOK
  BY DEF DeliveryInv
<1>1. CASE UNCHANGED vars
  BY <1>1 DEF vars, Outcome
<1>2. ASSUME NEW c \in Consumers, Register(c) \/ Stop(c) \/ CancelOk(c) PROVE Stutter
  BY <1>2, OutcomeSame DEF Register, Stop, CancelOk
<1>3. ASSUME NEW c \in Consumers,
             CloseOk(c) \/ ConnectionLoss(c) \/ ChannelError(c) \/ Crash(c)
      PROVE  Stutter
  <2>1. Requeue(c) /\ UNCHANGED effects
    BY <1>3 DEF CloseOk, ConnectionLoss, ChannelError, Crash
  <2>2. \A n \in Messages : loc'[n] = IF loc[n] = c THEN "ready" ELSE loc[n]
    BY <1>0, <2>1, RequeueType
  <2>. QED
    BY <2>1, <2>2, OutcomeSame, DeliveryAssumption
<1>4. ASSUME NEW c \in Consumers, NEW m \in Messages, Deliver(c, m)
      PROVE  Stutter \/ Abstract!Complete(m)
  <2>1. /\ loc[m] = "ready" /\ UNCHANGED effects
        /\ \A n \in Messages : n # m => loc'[n] = loc[n]
        /\ loc'[m] \in {c, "acked"}
        /\ loc'[m] = "acked" => ~IsTargetMessageType(m)
    BY <1>0, <1>4, DeliveryAssumption DEF Deliver, IsHead, TypeOK
  <2>2. CASE loc'[m] = "acked"
    BY <2>1, <2>2, OutcomeMoves DEF Settled, Abstract!Complete
  <2>3. CASE loc'[m] # "acked"
    BY <2>1, <2>3, OutcomeSame, DeliveryAssumption
  <2>. QED
    BY <2>2, <2>3
<1>5. ASSUME NEW c \in Consumers, NEW m \in Messages, CheckFound(c, m) \/ CheckMissing(c, m) \/ MarkStored(c, m)
      PROVE  Stutter
  BY <1>5, OutcomeSame DEF CheckFound, CheckMissing, MarkStored
<1>6. ASSUME NEW c \in Consumers, NEW m \in Messages, DispatchOk(c, m)
      PROVE  Abstract!Handle(m)
  <2>1. IsTargetMessageType(m) /\ TakesEffect(QueueOf[m], MessageId[m]) /\ UNCHANGED Outcome
    BY <1>6, OutcomeSame DEF DeliveryInv, DispatchOk, HandlersAreListeners
  <2>. QED
    BY <2>1 DEF Abstract!Handle, Abstract!Repeat, TakesEffect
<1>7. ASSUME NEW c \in Consumers, NEW m \in Messages, HandlerFails(c, m)
      PROVE  Stutter \/ Abstract!Handle(m) \/ Abstract!Lose(m)
  <2>1. /\ stage[c][m] # "idle" /\ Nak(c, m) /\ IsTargetMessageType(m)
        /\ UNCHANGED effects \/ Abstract!Repeat(m)
    BY <1>7 DEF DeliveryInv, HandlersAreListeners, HandlerFails, CheckFail, DispatchFail,
      MarkFail, Abstract!Repeat, TakesEffect
  <2>2. \/ UNCHANGED loc
        \/ /\ ChannelIsUsable(c)
           /\ loc'[m] = IF IsRetry[QueueOf[m]] THEN "ready" ELSE "dropped"
           /\ \A n \in Messages : n # m => loc'[n] = loc[n]
    BY <1>0, <2>1 DEF Nak, Settle, TypeOK
  <2>3. CASE UNCHANGED loc
    BY <2>1, <2>3, OutcomeSame DEF Abstract!Handle
  <2>4. CASE /\ ChannelIsUsable(c)
             /\ loc'[m] = IF IsRetry[QueueOf[m]] THEN "ready" ELSE "dropped"
             /\ \A n \in Messages : n # m => loc'[n] = loc[n]
    <3>1. ~Settled(m)
      BY <2>1, <2>4, HeldIsPending
    <3>2. CASE IsRetry[QueueOf[m]]
      BY <2>1, <2>4, <3>1, <3>2, OutcomeSame DEF Settled, Abstract!Handle
    <3>3. CASE ~IsRetry[QueueOf[m]]
      <4>1. Outcome[m] = "pending" /\ Outcome' = [Outcome EXCEPT ![m] = "lost"]
        BY <2>4, <3>1, <3>3, OutcomeMoves
      <4>2. QueueOf[m] \in {q \in Queues : ~IsRetry[q]}
        BY <3>3, DeliveryAssumption
      <4>. QED
        BY <2>1, <4>1, <4>2 DEF Abstract!Lose
    <3>. QED
      BY <3>2, <3>3
  <2>. QED
    BY <2>2, <2>3, <2>4
<1>8. ASSUME NEW c \in Consumers, NEW m \in Messages, Acknowledge(c, m)
      PROVE  Stutter \/ Abstract!Complete(m)
  <2>1. /\ stage[c][m] = "acking" /\ Settle(c, m, "acked") /\ UNCHANGED effects
        /\ EffectsOf(m) >= 1
    BY <1>8 DEF DeliveryInv, Acknowledge, Ack, AckingIsHandled, HandledHadEffect
  <2>2. CASE UNCHANGED loc
    BY <2>1, <2>2, OutcomeSame
  <2>3. CASE ~UNCHANGED loc
    <3>1. /\ ChannelIsUsable(c) /\ loc'[m] = "acked"
          /\ \A n \in Messages : n # m => loc'[n] = loc[n]
      BY <1>0, <2>1, <2>3 DEF Settle, TypeOK
    <3>2. ~Settled(m)
      BY <2>1, <3>1, HeldIsPending
    <3>. QED
      BY <2>1, <3>1, <3>2, OutcomeMoves DEF Abstract!Complete, EffectsOf
  <2>. QED
    BY <2>2, <2>3
<1>9. CASE Next
  <2>1. Stutter \/ \E m \in Messages : Abstract!Handle(m) \/ Abstract!Complete(m) \/ Abstract!Lose(m)
    BY <1>2, <1>3, <1>4, <1>5, <1>6, <1>7, <1>8, <1>9 DEF Next, Handler, Environment
  <2>. QED
    BY <2>1 DEF Abstract!HandlingNext
<1>. QED
  BY <1>1, <1>9

\* Under private keys the listeners do what EventHandling promises, however
\* many messages, consumers and failures there are.
THEOREM ListenersImplementEventHandling ==
  ASSUME PrivateKeys
  PROVE  Spec => ImplementsEventHandling
<1>1. DeliveryInv /\ [Next]_vars => [Abstract!HandlingNext]_<<Outcome, effects>>
  BY RefinementStep
<1>. QED
  BY <1>1, RefinementInit, DeliveryCorrect, PTL
  DEF Spec, ImplementsEventHandling, Abstract!HandlingSpec
=============================================================================
