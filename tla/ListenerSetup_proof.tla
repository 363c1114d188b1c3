-------------------------- MODULE ListenerSetup_proof --------------------------
(***************************************************************************)
(* ListenerInv is inductive, for any number of connections, routing keys   *)
(* and refusals; from it the properties that say what a listener may rely  *)
(* on when setups of several wrappers overlap.                             *)
(***************************************************************************)
EXTENDS ListenerSetup, TLAPS, FiniteSetTheorems

\* What is left when deliveries go back and queues are deleted.
LEMMA TakingKeeps ==
  ASSUME NEW ws, NEW qs, TakeBack(ws, qs)
  PROVE  /\ Queues' = Queues \ qs
         /\ \A q \in Queues' : bindings'[q] = bindings[q]
         /\ inQueue' \subseteq inQueue \cup {QueueName(w) : w \in unacked}
         /\ unacked' \subseteq unacked \ ws
         /\ \A w \in unacked' : QueueName(w) \notin qs
         /\ qs = {} /\ (unacked # {} \/ inQueue # {}) => unacked' # {} \/ inQueue' # {}
<1>1. /\ Queues' = Queues \ qs /\ \A q \in Queues' : bindings'[q] = bindings[q]
      /\ inQueue' = (inQueue \cup {QueueName(w) : w \in unacked \cap ws}) \ qs
      /\ unacked' = {w \in unacked \ ws : QueueName(w) \notin qs}
  BY DEF TakeBack, Queues
<1>2. ASSUME qs = {}, unacked # {}
      PROVE  unacked' # {} \/ inQueue' # {}
  <2>1. PICK w \in unacked : TRUE
    BY <1>2
  <2> QED
    BY <1>1, <1>2, <2>1
<1> QED
  BY <1>1, <1>2

LEMMA NamesAreNames ==
  ASSUME TypeOK, wrappers > 0, NEW w \in Wrappers
  PROVE  QueueName(w) \in QueueNames
<1>1. wrappers \in Wrappers
  BY ListenerAssumption DEF TypeOK, Wrappers
<1> QED
  BY <1>1 DEF QueueName, QueueNames, NoConsumer

\* A setup that is anywhere is that of a wrapper there is.
LEMMA Numbered ==
  ASSUME ListenerInv, NEW w \in Wrappers, stage[w] # "none"
  PROVE  w \in 1 .. wrappers /\ wrappers \in Wrappers
<1>1. wrappers \in 0 .. MaxConnects
  BY DEF ListenerInv, TypeOK
<1>2. ~ (w > wrappers)
  BY DEF ListenerInv, SetupPlaces
<1> QED
  BY <1>1, <1>2, ListenerAssumption DEF Wrappers

\* Only what a setup waits for, or a consumer, fails when channels are closed.
LEMMA ClosingKeeps ==
  ASSUME TypeOK, NEW cs \in SUBSET (0 .. MaxConnects), CloseChannels(cs)
  PROVE  /\ stage' \in [Wrappers -> Stages]
         /\ broken' = broken \cup cs /\ broken' \subseteq 0 .. MaxConnects
         /\ errors' \in [Wrappers -> SUBSET {"handleError", "unhandled"}]
         /\ \A w \in Wrappers :
              \/ stage'[w] = stage[w] /\ errors'[w] = errors[w]
              \/ /\ stage'[w] = "failed" /\ stage[w] \in InSetup
                 /\ errors'[w] = errors[w] \cup {ErrorOf(w)}
              \/ /\ stage'[w] = "failed" /\ stage[w] = "consuming" /\ queueChannel[w] \in cs
                 /\ errors'[w] = errors[w]
         /\ \A w \in 1 .. wrappers :
              /\ stage[w] \in InSetup /\ ChannelOf(w) \in cs => stage'[w] = "failed"
              /\ stage[w] = "consuming" /\ queueChannel[w] \in cs => stage'[w] = "failed"
<1> DEFINE hit == {w \in 1 .. wrappers : stage[w] \in InSetup /\ ChannelOf(w) \in cs}
<1>1. /\ broken' = broken \cup cs
      /\ errors' = [w \in Wrappers |-> IF w \in hit THEN errors[w] \cup {ErrorOf(w)} ELSE errors[w]]
      /\ stage' = [w \in Wrappers |->
           IF w \in hit \/ (stage[w] = "consuming" /\ queueChannel[w] \in cs)
             THEN "failed" ELSE stage[w]]
  BY DEF CloseChannels
<1>2. 1 .. wrappers \subseteq Wrappers
  BY ListenerAssumption DEF TypeOK, Wrappers
<1>3. stage' \in [Wrappers -> Stages]
  <2>1. \A w \in Wrappers : stage[w] \in Stages /\ "failed" \in Stages
    BY DEF TypeOK, Stages
  <2> QED
    BY <1>1, <2>1
<1>4. errors' \in [Wrappers -> SUBSET {"handleError", "unhandled"}]
  <2>1. \A w \in Wrappers : ErrorOf(w) \in {"handleError", "unhandled"}
    BY DEF ErrorOf
  <2> QED
    BY <1>1, <2>1 DEF TypeOK
<1>5. ASSUME NEW w \in Wrappers
      PROVE  \/ stage'[w] = stage[w] /\ errors'[w] = errors[w]
             \/ /\ stage'[w] = "failed" /\ stage[w] \in InSetup
                /\ errors'[w] = errors[w] \cup {ErrorOf(w)}
             \/ /\ stage'[w] = "failed" /\ stage[w] = "consuming" /\ queueChannel[w] \in cs
                /\ errors'[w] = errors[w]
  BY <1>1
<1>6. ASSUME NEW w \in 1 .. wrappers
      PROVE  /\ stage[w] \in InSetup /\ ChannelOf(w) \in cs => stage'[w] = "failed"
             /\ stage[w] = "consuming" /\ queueChannel[w] \in cs => stage'[w] = "failed"
  BY <1>1, <1>2
<1>7. broken' = broken \cup cs /\ broken' \subseteq 0 .. MaxConnects
  BY <1>1 DEF TypeOK
<1> QED
  BY <1>3, <1>4, <1>5, <1>6, <1>7

\* A delivery lasts as long as its channel and its queue.
LEMMA HeldKeeps ==
  ASSUME DeliveriesLast, UNCHANGED <<options, conn, wrappers>>, unacked' \subseteq unacked,
         \A w \in unacked' : /\ stage'[w] = stage[w] \/ stage'[w] = "cancelled"
                             /\ QueueName(w) \in Queues'
  PROVE  DeliveriesLast'
<1>1. \A w : QueueName(w)' = QueueName(w)
  BY DEF QueueName
<1> QED
  BY <1>1 DEF DeliveriesLast

\* A consumer has awaited every binding of its queue.
LEMMA BoundConsumer ==
  ASSUME ListenerInv, NEW w \in Wrappers, Consumes(w)
  PROVE  /\ QueueName(w) \in Queues
         /\ \/ bindings[QueueName(w)] = Keys
            \/ wrappers > 1 /\ (deleted \/ options.autoDelete)
<1>1. TypeOK /\ QueueLasts(w) /\ stage[w] = "consuming"
  BY DEF ListenerInv, QueuesLast, Consumes, PastQueue
<1>2. QueueName(w) \in Queues /\ bound[w] = Len(RoutingKeys) /\ bindings[QueueName(w)] \subseteq Keys
  BY <1>1 DEF QueueLasts, TypeOK
<1>3. \A k \in Keys : \E i \in 1 .. Len(RoutingKeys) : k = RoutingKeys[i]
  BY ListenerAssumption DEF Keys
<1>4. ~ (wrappers > 1 /\ (deleted \/ options.autoDelete)) => Keys \subseteq bindings[QueueName(w)]
  BY <1>1, <1>2, <1>3 DEF QueueLasts
<1> QED
  BY <1>2, <1>4

-----------------------------------------------------------------------------
(* One lemma for every action.                                             *)

LEMMA InitInv == Init => ListenerInv
<1> SUFFICES ASSUME Init PROVE ListenerInv
  OBVIOUS
<1> USE DEF Init
<1>1. TypeOK
  <2>1. Len(RoutingKeys) \in Nat
    BY ListenerAssumption
  <2>2. /\ stage \in [Wrappers -> Stages] /\ queueChannel \in [Wrappers -> 0 .. MaxConnects]
        /\ bound \in [Wrappers -> 0 .. Len(RoutingKeys)]
        /\ errors \in [Wrappers -> SUBSET {"handleError", "unhandled"}]
    BY <2>1, ListenerAssumption DEF Stages
  <2>3. {messageConsumer, queue, target} \subseteq QueueNames
    BY DEF QueueNames
  <2>4. Queues = {}
    BY DEF Queues
  <2>5. /\ wrappers \in 0 .. MaxConnects /\ exchangeChannel \in 0 .. MaxConnects
        /\ faults \in 0 .. MaxFaults /\ heardIn \in 0 .. MaxConnects /\ settled \in Nat
        /\ broken = {} /\ inQueue \subseteq QueueNames /\ unacked \subseteq Wrappers
    BY ListenerAssumption
  <2> QED
    BY <2>2, <2>3, <2>4, <2>5, ListenerAssumption DEF TypeOK
<1>2. /\ SetupPlaces /\ ConsumerPlace /\ TargetPlace /\ QueuesLast /\ EventsLast
      /\ DeliveriesLast /\ ReadinessIsTrue
  BY DEF SetupPlaces, ConsumerPlace, TargetPlace, QueuesLast, EventsLast, DeliveriesLast,
     ReadinessIsTrue, InSetup, PastQueue, NoConsumer
<1> QED
  BY <1>1, <1>2 DEF ListenerInv

LEMMA ChannelOpenedKeeps ==
  ASSUME ListenerInv, NEW w \in Wrappers, ChannelOpened(w)
  PROVE  ListenerInv'
<1> USE DEF local, consumer, stop, event, broker, ListenerInv
<1>1. /\ stage' = [stage EXCEPT ![w] = "declaring"] /\ exchangeChannel' = w
      /\ w \in 0 .. MaxConnects /\ w \in 1 .. wrappers
  BY ListenerAssumption DEF ChannelOpened, TypeOK, SetupPlaces, Wrappers
<1>2. TypeOK'
  <2>1. stage' \in [Wrappers -> Stages]
    BY <1>1 DEF TypeOK, Stages, InSetup
  <2> QED
    BY <1>1, <2>1 DEF ChannelOpened, TypeOK, Queues
<1>3. SetupPlaces'
  <2>1. UNCHANGED <<conn, wrappers, errors, queueChannel, bound>> /\ conn = "up" /\ stage[w] = "opening"
    BY DEF ChannelOpened
  <2>2. stage'[w] = "declaring" /\ \A v \in Wrappers \ {w} : stage'[v] = stage[v]
    BY <1>1 DEF TypeOK
  <2> QED
    BY <1>1, <2>1, <2>2 DEF SetupPlaces, InSetup, PastQueue
<1>4. ConsumerPlace' /\ EventsLast'
  BY DEF ChannelOpened, TypeOK, ConsumerPlace, EventsLast, Lasting, IsKept, Queues, Consumes
<1>5. QueuesLast'
  BY DEF ChannelOpened, TypeOK, QueuesLast, QueueLasts, PastQueue, QueueName, Queues
<1>6. ReadinessIsTrue'
  BY DEF ChannelOpened, TypeOK, ReadinessIsTrue, ConsumerPlace, Consumes
<1>7. TargetPlace' /\ DeliveriesLast'
  BY DEF ChannelOpened, TypeOK, TargetPlace, DeliveriesLast, QueueName, Queues
<1> QED
  BY <1>2, <1>3, <1>4, <1>5, <1>6, <1>7

LEMMA ExchangeDeclaredKeeps ==
  ASSUME ListenerInv, NEW w \in Wrappers, ExchangeDeclared(w)
  PROVE  ListenerInv'
<1> USE DEF local, consumer, stop, event, broker, ListenerInv
<1>1. /\ queueChannel' = [queueChannel EXCEPT ![w] = exchangeChannel]
      /\ queue' = <<w, wrappers>> /\ exchangeChannel \in 1 .. wrappers
      /\ \/ stage' = [stage EXCEPT ![w] = "queueing"] /\ errors' = errors
         \/ /\ stage' = [stage EXCEPT ![w] = "failed"]
            /\ errors' = [errors EXCEPT ![w] = @ \cup {"unhandled"}]
      /\ conn = "up" /\ stage[w] = "declaring"
      /\ UNCHANGED <<conn, wrappers, bound, exchangeChannel>>
  BY DEF ExchangeDeclared, CloneQueue, SetupPlaces
<1>2. TypeOK'
  <2>1. stage' \in [Wrappers -> Stages]
    BY <1>1 DEF TypeOK, Stages, InSetup
  <2>2. queue' \in QueueNames
    BY <1>1, Numbered DEF QueueNames
  <2>3. errors' \in [Wrappers -> SUBSET {"handleError", "unhandled"}]
    <3>1. errors \in [Wrappers -> SUBSET {"handleError", "unhandled"}]
      BY DEF TypeOK
    <3>2. errors[w] \cup {"unhandled"} \in SUBSET {"handleError", "unhandled"}
      BY <3>1
    <3> QED
      BY <1>1, <3>1, <3>2
  <2>4. queueChannel' \in [Wrappers -> 0 .. MaxConnects]
    BY <1>1 DEF TypeOK
  <2> QED
    BY <2>1, <2>2, <2>3, <2>4 DEF ExchangeDeclared, TypeOK, Queues
<1>3. SetupPlaces'
  BY <1>1 DEF TypeOK, SetupPlaces, InSetup, PastQueue
<1>4. ConsumerPlace' /\ EventsLast'
  BY DEF ExchangeDeclared, TypeOK, ConsumerPlace, EventsLast, Lasting, IsKept, Queues, Consumes
<1>5. QueuesLast'
  BY DEF ExchangeDeclared, CloneQueue, TypeOK, QueuesLast, QueueLasts, PastQueue, QueueName, Queues
<1>6. ReadinessIsTrue'
  BY DEF ExchangeDeclared, CloneQueue, TypeOK, ReadinessIsTrue, ConsumerPlace, Consumes
<1>7. TargetPlace' /\ DeliveriesLast'
  BY DEF ExchangeDeclared, CloneQueue, TypeOK, TargetPlace, DeliveriesLast, QueueName, Queues
<1> QED
  BY <1>2, <1>3, <1>4, <1>5, <1>6, <1>7

LEMMA QueueDeclaredKeeps ==
  ASSUME ListenerInv, NEW w \in Wrappers, QueueDeclared(w)
  PROVE  ListenerInv'
<1> USE DEF local, consumer, stop, event, broker, ListenerInv
<1>1. /\ stage[w] = "queueing" /\ conn = "up"
      /\ stage' = [stage EXCEPT ![w] = "binding"]
      /\ Queues' = Queues \cup {QueueName(w)}
      /\ \A q \in Queues' : bindings'[q] = IF q \in Queues THEN bindings[q] ELSE {}
      /\ UNCHANGED <<options, conn, wrappers, bound, faults, stopping, deleted>>
  BY DEF QueueDeclared, Queues
<1>2. w \in 1 .. wrappers /\ bound[w] = 0
  BY <1>1 DEF SetupPlaces, TypeOK, InSetup, Wrappers
<1>3. TypeOK'
  <2>1. stage' \in [Wrappers -> Stages]
    BY <1>1 DEF TypeOK, Stages, InSetup
  <2>2. QueueName(w) \in QueueNames
    BY <1>2, NamesAreNames DEF TypeOK
  <2>3. Queues' \subseteq QueueNames /\ \A q \in Queues' : bindings'[q] \subseteq Keys
    BY <1>1, <2>2 DEF TypeOK
  <2> QED
    BY <2>1, <2>3 DEF QueueDeclared, TypeOK
<1>4. SetupPlaces' /\ ConsumerPlace'
  BY DEF QueueDeclared, TypeOK, SetupPlaces, ConsumerPlace, InSetup, PastQueue
<1>5. QueuesLast'
  <2>1. ASSUME NEW v \in Wrappers, stage'[v] \in PastQueue, v # w
        PROVE  QueueLasts(v)'
    <3>1. stage[v] = stage'[v] /\ QueueName(v)' = QueueName(v) /\ QueueLasts(v)
      BY <1>1, <2>1 DEF TypeOK, QueuesLast, QueueName
    <3>2. CASE QueueName(v) \in Queues
      BY <1>1, <3>1, <3>2 DEF QueueLasts
    <3>3. CASE QueueName(v) \notin Queues
      <4>1. wrappers > 1
        BY <1>2, <2>1, <3>1 DEF SetupPlaces, PastQueue, TypeOK, Wrappers
      <4> QED
        BY <1>1, <3>1, <3>3, <4>1 DEF QueueLasts
    <3> QED
      BY <3>2, <3>3
  <2>2. QueueLasts(w)'
    <3>1. QueueName(w)' = QueueName(w) /\ stage'[w] = "binding"
      BY <1>1 DEF QueueName, TypeOK
    <3> QED
      BY <1>1, <1>2, <3>1 DEF QueueLasts
  <2> QED
    BY <2>1, <2>2 DEF QueuesLast
<1>6. EventsLast'
  <2>1. \A q \in Queues : q \in Queues' /\ bindings'[q] = bindings[q]
    BY <1>1
  <2> QED
    BY <2>1 DEF QueueDeclared, EventsLast, Lasting, IsKept
<1>7. ReadinessIsTrue'
  BY DEF QueueDeclared, TypeOK, ReadinessIsTrue, ConsumerPlace, Consumes
<1>8. TargetPlace' /\ DeliveriesLast'
  BY DEF QueueDeclared, TypeOK, TargetPlace, DeliveriesLast, QueueName, Queues
<1> QED
  BY <1>3, <1>4, <1>5, <1>6, <1>7, <1>8

LEMMA BindQueueKeeps ==
  ASSUME ListenerInv, NEW w \in Wrappers, BindQueue(w)
  PROVE  ListenerInv'
<1> USE DEF local, consumer, stop, event, broker, ListenerInv
<1>1. /\ stage[w] = "binding" /\ conn = "up" /\ bound[w] < Len(RoutingKeys)
      /\ QueueName(w) \in Queues
      /\ bound' = [bound EXCEPT ![w] = @ + 1]
      /\ bindings' = [bindings EXCEPT ![QueueName(w)] = @ \cup {RoutingKeys[bound[w] + 1]}]
      /\ \/ stage' = [stage EXCEPT ![w] = "binding"]
         \/ stage' = [stage EXCEPT ![w] = "qos"] /\ bound[w] + 1 = Len(RoutingKeys)
      /\ UNCHANGED <<options, conn, wrappers, faults, stopping, deleted>>
  BY DEF BindQueue, QueueBound
<1>2. /\ Len(RoutingKeys) \in Nat /\ bound[w] \in Nat /\ bound[w] + 1 \in 1 .. Len(RoutingKeys)
      /\ RoutingKeys[bound[w] + 1] \in Keys
  BY <1>1, ListenerAssumption DEF TypeOK, Keys
<1>3. /\ Queues' = Queues
      /\ \A q \in Queues : bindings'[q] = IF q = QueueName(w)
                              THEN bindings[q] \cup {RoutingKeys[bound[w] + 1]} ELSE bindings[q]
  BY <1>1 DEF Queues
<1>4. TypeOK'
  <2>1. stage' \in [Wrappers -> Stages]
    BY <1>1 DEF TypeOK, Stages, InSetup
  <2>2. bound' \in [Wrappers -> 0 .. Len(RoutingKeys)]
    BY <1>1, <1>2 DEF TypeOK
  <2>3. Queues' \subseteq QueueNames /\ \A q \in Queues' : bindings'[q] \subseteq Keys
    BY <1>2, <1>3 DEF TypeOK
  <2> QED
    BY <2>1, <2>2, <2>3 DEF BindQueue, QueueBound, TypeOK
<1>5. SetupPlaces' /\ ConsumerPlace'
  BY DEF BindQueue, QueueBound, TypeOK, SetupPlaces, ConsumerPlace, InSetup, PastQueue
<1>6. QueuesLast'
  <2>1. ASSUME NEW v \in Wrappers, stage'[v] \in PastQueue, v # w
        PROVE  QueueLasts(v)'
    <3>1. stage[v] = stage'[v] /\ bound[v] = bound'[v] /\ QueueName(v)' = QueueName(v) /\ QueueLasts(v)
      BY <1>1, <2>1 DEF TypeOK, QueuesLast, QueueName
    <3> QED
      BY <1>1, <1>3, <3>1 DEF QueueLasts
  <2>2. QueueLasts(w)'
    <3>1. /\ QueueName(w)' = QueueName(w) /\ QueueLasts(w) /\ bound'[w] = bound[w] + 1
          /\ stage'[w] # "binding" => bound'[w] = Len(RoutingKeys)
      BY <1>1 DEF QueueName, TypeOK, QueuesLast, PastQueue
    <3>2. \A i \in 1 .. bound'[w] : i \in 1 .. bound[w] \/ i = bound[w] + 1
      BY <1>2, <3>1
    <3>3. /\ QueueName(w) \in Queues'
          /\ bindings'[QueueName(w)] = bindings[QueueName(w)] \cup {RoutingKeys[bound[w] + 1]}
      BY <1>1, <1>3
    <3>4. ~ (wrappers > 1 /\ (deleted \/ options.autoDelete)) =>
            \A i \in 1 .. bound[w] : RoutingKeys[i] \in bindings[QueueName(w)]
      BY <1>1, <3>1 DEF QueueLasts
    <3>5. ~ (wrappers > 1 /\ (deleted \/ options.autoDelete)) =>
            \A i \in 1 .. bound'[w] : RoutingKeys[i] \in bindings'[QueueName(w)]
      BY <3>2, <3>3, <3>4
    <3> QED
      BY <1>1, <3>1, <3>3, <3>5 DEF QueueLasts
  <2> QED
    BY <2>1, <2>2 DEF QueuesLast
<1>7. EventsLast'
  <2>1. \A q \in Queues : bindings[q] = Keys => bindings'[q] = Keys
    BY <1>2, <1>3
  <2> QED
    BY <2>1, <1>3 DEF BindQueue, QueueBound, EventsLast, Lasting, IsKept
<1>8. ReadinessIsTrue'
  BY DEF BindQueue, QueueBound, TypeOK, ReadinessIsTrue, ConsumerPlace, Consumes
<1>9. TargetPlace' /\ DeliveriesLast'
  BY DEF BindQueue, QueueBound, TypeOK, TargetPlace, DeliveriesLast, QueueName, Queues
<1> QED
  BY <1>4, <1>5, <1>6, <1>7, <1>8, <1>9

LEMMA RegisterConsumerKeeps ==
  ASSUME ListenerInv, NEW w \in Wrappers, RegisterConsumer(w)
  PROVE  ListenerInv'
<1> USE DEF local, consumer, stop, event, broker, ListenerInv
<1>1. /\ stage[w] = "qos" /\ stage' = [stage EXCEPT ![w] = "subscribing"]
      /\ messageConsumer' = <<w, wrappers>> /\ isConsuming' = FALSE
  BY DEF RegisterConsumer
<1>2. w \in 1 .. wrappers /\ wrappers \in Wrappers
  BY <1>1, ListenerAssumption DEF SetupPlaces, TypeOK, Wrappers
<1>3. TypeOK'
  <2>1. stage' \in [Wrappers -> Stages]
    BY <1>1 DEF TypeOK, Stages, InSetup
  <2>2. messageConsumer' \in QueueNames
    BY <1>1, <1>2 DEF QueueNames
  <2> QED
    BY <1>1, <2>1, <2>2 DEF RegisterConsumer, TypeOK, Queues
<1>4. SetupPlaces' /\ ConsumerPlace'
  <2>1. messageConsumer'[2] = wrappers /\ wrappers <= wrappers
    BY <1>1, <1>2, ListenerAssumption DEF Wrappers
  <2>2. ConsumerPlace'
    BY <1>1, <2>1 DEF RegisterConsumer, ConsumerPlace
  <2>3. SetupPlaces'
    BY <1>2, ListenerAssumption
    DEF RegisterConsumer, TypeOK, SetupPlaces, InSetup, PastQueue, Wrappers
  <2> QED
    BY <2>2, <2>3
<1>5. QueuesLast'
  BY DEF RegisterConsumer, TypeOK, QueuesLast, QueueLasts, PastQueue, QueueName, Queues
<1>6. EventsLast' /\ ReadinessIsTrue'
  BY DEF RegisterConsumer, TypeOK, EventsLast, Lasting, IsKept, Queues, ReadinessIsTrue, Consumes
<1>7. TargetPlace' /\ DeliveriesLast'
  BY DEF RegisterConsumer, TypeOK, TargetPlace, DeliveriesLast, QueueName, Queues
<1> QED
  BY <1>3, <1>4, <1>5, <1>6, <1>7

\* A setup that waits for the broker to register its consumer has bound its
\* queue to every key, so the listener is ready only now.
LEMMA ReceiveForKeeps ==
  ASSUME ListenerInv, NEW w \in Wrappers, ReceiveFor(w)
  PROVE  ListenerInv'
<1> USE DEF local, consumer, stop, event, broker, ListenerInv
<1>1. /\ stage[w] = "subscribing" /\ stage' = [stage EXCEPT ![w] = "consuming"]
      /\ conn = "up" /\ QueueName(w) \in Queues
      /\ isConsuming' = (isConsuming \/ messageConsumer = <<w, wrappers>>)
      /\ UNCHANGED <<options, wrappers, bound, bindings, faults, stopping, deleted>>
  BY DEF ReceiveFor
<1>2. QueueLasts(w)
  BY <1>1 DEF QueuesLast, PastQueue
<1>3. TypeOK'
  <2>1. stage' \in [Wrappers -> Stages]
    BY <1>1 DEF TypeOK, Stages, InSetup
  <2>2. isConsuming' \in BOOLEAN
    BY <1>1
  <2> QED
    BY <2>1, <2>2 DEF ReceiveFor, TypeOK, Queues
<1>4. SetupPlaces' /\ ConsumerPlace'
  BY DEF ReceiveFor, TypeOK, SetupPlaces, ConsumerPlace, InSetup, PastQueue
<1>5. QueuesLast'
  BY DEF ReceiveFor, TypeOK, QueuesLast, QueueLasts, PastQueue, QueueName, Queues
<1>6. EventsLast'
  <2>1. Lasting' => bindings[QueueName(w)] = Keys
    <3>1. Lasting' => \A i \in 1 .. Len(RoutingKeys) : RoutingKeys[i] \in bindings[QueueName(w)]
      BY <1>1, <1>2 DEF QueueLasts, Lasting
    <3>2. \A k \in Keys : \E i \in 1 .. Len(RoutingKeys) : k = RoutingKeys[i]
      BY ListenerAssumption DEF Keys
    <3>3. Lasting' => Keys \subseteq bindings[QueueName(w)]
      BY <3>1, <3>2
    <3>4. bindings[QueueName(w)] \subseteq Keys
      BY <1>1 DEF TypeOK
    <3> QED
      BY <3>3, <3>4
  <2> QED
    BY <1>1, <2>1 DEF ReceiveFor, EventsLast, Lasting, IsKept, Queues
<1>7. ReadinessIsTrue'
  BY DEF ReceiveFor, TypeOK, ReadinessIsTrue, ConsumerPlace, Consumes
<1>8. TargetPlace' /\ DeliveriesLast'
  BY DEF ReceiveFor, TypeOK, TargetPlace, DeliveriesLast, QueueName, Queues
<1> QED
  BY <1>3, <1>4, <1>5, <1>6, <1>7, <1>8

LEMMA ConnectKeeps ==
  ASSUME ListenerInv, Connect
  PROVE  ListenerInv'
<1> USE DEF local, consumer, stop, event, broker, ListenerInv
<1>1. /\ conn = "down" /\ conn' = "up" /\ wrappers' = wrappers + 1
      /\ stage' = [w \in Wrappers |-> IF w <= wrappers + 1 THEN "opening" ELSE "none"]
      /\ errors' = [w \in Wrappers |-> {}]
      /\ queueChannel' = [w \in Wrappers |-> 0] /\ bound' = [w \in Wrappers |-> 0]
      /\ UNCHANGED <<messageConsumer, isConsuming, stopping>>
  BY DEF Connect
<1>2. wrappers \in Nat /\ wrappers' \in 0 .. MaxConnects
  BY ListenerAssumption DEF Connect, TypeOK
<1>3. TypeOK'
  <2>1. stage' \in [Wrappers -> Stages]
    BY <1>1 DEF Stages
  <2>2. Len(RoutingKeys) \in Nat
    BY ListenerAssumption
  <2> QED
    BY <1>1, <1>2, <2>1, <2>2, ListenerAssumption DEF Connect, TypeOK, Queues
<1>4. SetupPlaces'
  BY <1>1, <1>2 DEF SetupPlaces, InSetup, PastQueue, Wrappers
<1>5. messageConsumer[2] \in Nat
  BY DEF TypeOK, QueueNames, NoConsumer, Wrappers
<1>6. ConsumerPlace' /\ ReadinessIsTrue'
  BY <1>1, <1>2, <1>5 DEF ConsumerPlace, ReadinessIsTrue
<1>7. QueuesLast'
  BY <1>1 DEF QueuesLast, PastQueue
<1>8. EventsLast'
  BY <1>1, <1>2 DEF Connect, TypeOK, EventsLast, Lasting, IsKept, Queues
<1>9. TargetPlace' /\ DeliveriesLast'
  BY <1>1 DEF Connect, TargetPlace, DeliveriesLast
<1> QED
  BY <1>3, <1>4, <1>6, <1>7, <1>8, <1>9

\* A connect that fails, and a wrapper that gets no channel.
LEMMA FailedKeeps ==
  ASSUME ListenerInv, ConnectFailed \/ \E w \in Wrappers : ChannelRefused(w)
  PROVE  ListenerInv'
<1> USE DEF local, consumer, stop, event, broker, ListenerInv
<1>1. /\ faults' = faults + 1 /\ faults < MaxFaults
      /\ errors' \in [Wrappers -> SUBSET {"handleError", "unhandled"}]
      /\ \/ stage' = stage
         \/ \E w \in Wrappers : stage[w] = "opening" /\ stage' = [stage EXCEPT ![w] = "failed"]
      /\ UNCHANGED <<options, conn, broken, queue, stop, local, consumer, broker, deleted>>
  BY DEF ConnectFailed, ChannelRefused, TypeOK
<1>2. /\ stage' \in [Wrappers -> Stages]
      /\ \A w \in Wrappers : stage'[w] = stage[w] \/ (stage[w] = "opening" /\ stage'[w] = "failed")
  BY <1>1 DEF TypeOK, Stages
<1>3. TypeOK'
  <2>1. faults' \in 0 .. MaxFaults
    BY <1>1, ListenerAssumption DEF TypeOK
  <2> QED
    BY <1>1, <1>2, <2>1 DEF TypeOK, Queues
<1>4. SetupPlaces' /\ ConsumerPlace' /\ TargetPlace'
  BY <1>1, <1>2 DEF TypeOK, SetupPlaces, ConsumerPlace, TargetPlace, InSetup, PastQueue
<1>5. QueuesLast'
  <2>1. faults' # 0
    BY <1>1, ListenerAssumption DEF TypeOK
  <2> QED
    BY <1>1, <1>2, <2>1 DEF QueuesLast, QueueLasts, PastQueue, QueueName, Queues
<1>6. EventsLast' /\ DeliveriesLast'
  BY <1>1, <1>2 DEF TypeOK, EventsLast, Lasting, IsKept, DeliveriesLast, QueueName, Queues
<1>7. ReadinessIsTrue'
  BY <1>1, ListenerAssumption DEF ReadinessIsTrue, TypeOK
<1> QED
  BY <1>3, <1>4, <1>5, <1>6, <1>7

\* The event reaches the queue of whatever consumes when it is published.
LEMMA PublishKeeps ==
  ASSUME ListenerInv, NEW k \in Keys, Publish(k)
  PROVE  ListenerInv'
<1> USE DEF local, consumer, stop, event, broker, ListenerInv
<1>1. /\ inQueue' = {q \in Queues : k \in bindings[q]} /\ Queues' = Queues
      /\ heardIn' = IF \E w \in Wrappers : Consumes(w) THEN wrappers ELSE 0
  BY DEF Publish, Queues
<1>2. TypeOK' /\ SetupPlaces' /\ ConsumerPlace' /\ TargetPlace'
  <2>1. heardIn' \in 0 .. MaxConnects /\ inQueue' \subseteq QueueNames
    BY <1>1, ListenerAssumption DEF TypeOK
  <2>2. TypeOK'
    BY <1>1, <2>1 DEF Publish, TypeOK
  <2>3. SetupPlaces' /\ ConsumerPlace' /\ TargetPlace'
    BY DEF Publish, SetupPlaces, ConsumerPlace, TargetPlace
  <2> QED
    BY <2>2, <2>3
<1>3. QueuesLast' /\ ReadinessIsTrue'
  BY DEF Publish, QueuesLast, QueueLasts, QueueName, Queues, ReadinessIsTrue, Consumes
<1>4. EventsLast'
  <2>1. ASSUME ~ options.autoDelete, ~ deleted, NEW w \in Wrappers, Consumes(w)
        PROVE  inQueue' # {}
    BY <1>1, <2>1, BoundConsumer DEF TypeOK
  <2>2. ASSUME NEW q \in Queues, bindings[q] = Keys
        PROVE  inQueue' # {}
    BY <1>1, <2>2
  <2>3. heardIn' <= wrappers' /\ heardIn' \in Nat
    BY <1>1, <1>2, ListenerAssumption DEF Publish, TypeOK
  <2>4. published' /\ wasReady' = isReady /\ UNCHANGED <<options, deleted, isReady, bindings, conn>>
    BY DEF Publish
  <2> QED
    BY <1>1, <2>1, <2>2, <2>3, <2>4 DEF EventsLast, Lasting, IsKept
<1>5. DeliveriesLast'
  BY <1>1 DEF Publish, DeliveriesLast, QueueName
<1> QED
  BY <1>2, <1>3, <1>4, <1>5

\* A delivery takes the event out of its queue, its end settles it or puts it back.
LEMMA DeliveryKeeps ==
  ASSUME ListenerInv, NEW w \in Wrappers, Deliver(w) \/ Settle(w)
  PROVE  ListenerInv'
<1> USE DEF local, consumer, stop, event, broker, ListenerInv
<1>1. UNCHANGED <<options, conn, stage, broken, errors, queue, stop, local, consumer,
                  bindings, event, faults, deleted>> /\ Queues' = Queues
  BY DEF Deliver, Settle, Queues
<1>2. \/ /\ Consumes(w) /\ QueueName(w) \in inQueue /\ inQueue' = inQueue \ {QueueName(w)}
         /\ unacked' = unacked \cup {w} /\ settled' = settled
      \/ /\ w \in unacked /\ unacked' = unacked \ {w}
         /\ settled' = settled + 1 /\ inQueue' = inQueue
      \/ /\ w \in unacked /\ unacked' = unacked \ {w}
         /\ inQueue' = inQueue \cup {QueueName(w)} /\ settled' = settled
  BY DEF Deliver, Settle
<1>3. w \in unacked => QueueName(w) \in Queues
  BY DEF DeliveriesLast
<1>4. TypeOK'
  BY <1>1, <1>2, <1>3 DEF TypeOK
<1>5. SetupPlaces' /\ ConsumerPlace' /\ TargetPlace'
  BY <1>1 DEF SetupPlaces, ConsumerPlace, TargetPlace
<1>6. QueuesLast' /\ ReadinessIsTrue'
  BY <1>1 DEF QueuesLast, QueueLasts, QueueName, ReadinessIsTrue, Consumes
<1>7. EventsLast'
  <2>1. settled' > 0 \/ unacked' # {} \/ inQueue' # {} \/ ~ IsKept
    <3>1. CASE w \in unacked'
      BY <3>1
    <3>2. CASE QueueName(w) \in inQueue'
      BY <3>2
    <3>3. CASE settled' = settled + 1
      BY <3>3 DEF TypeOK
    <3> QED
      BY <1>2, <3>1, <3>2, <3>3
  <2>2. IsKept => IsKept'
    BY <2>1 DEF IsKept
  <2> QED
    BY <1>1, <2>2 DEF EventsLast, Lasting
<1>8. DeliveriesLast'
  <2>1. \A v : QueueName(v)' = QueueName(v)
    BY <1>1 DEF QueueName
  <2>2. Consumes(w) => /\ conn = "up" /\ w <= wrappers /\ stage[w] = "consuming"
                       /\ QueueName(w) \in Queues
    BY ListenerAssumption
    DEF Consumes, SetupPlaces, QueuesLast, QueueLasts, PastQueue, TypeOK, Wrappers
  <2> QED
    BY <1>1, <1>2, <2>1, <2>2 DEF DeliveriesLast
<1> QED
  BY <1>4, <1>5, <1>6, <1>7, <1>8

LEMMA CallKeeps ==
  ASSUME ListenerInv, Stop \/ Close
  PROVE  ListenerInv'
<1> USE DEF local, consumer, stop, event, broker, ListenerInv
<1>1. /\ stopping = "no" /\ stopping' \in {"ignored", "cancelling", "closing", "rejected"}
      /\ target' \in {messageConsumer, queue}
      /\ UNCHANGED <<options, conn, stage, broken, errors, queue, local, consumer, broker,
                     faults, deleted>>
  BY DEF Stop, Close
<1>2. TypeOK' /\ SetupPlaces' /\ ConsumerPlace'
  BY <1>1 DEF TypeOK, Queues, SetupPlaces, ConsumerPlace
<1>3. QueuesLast' /\ ReadinessIsTrue'
  BY <1>1 DEF QueuesLast, QueueLasts, QueueName, Queues, ReadinessIsTrue
<1>4. EventsLast' /\ TargetPlace' /\ DeliveriesLast'
  <2>1. stopping' \in {"cancelling", "closing"} => target' # NoConsumer
    BY DEF Stop, Close
  <2> QED
    BY <1>1, <2>1 DEF EventsLast, Lasting, IsKept, TargetPlace, DeliveriesLast, QueueName, Queues
<1> QED
  BY <1>2, <1>3, <1>4

-----------------------------------------------------------------------------
(* Steps that delete queues.                                               *)

\* No queue of a consumer that goes on is deleted, and none at all of those
\* that last.
LEMMA ShrinkKeeps ==
  ASSUME ListenerInv, NEW ws, NEW qs, TakeBack(ws, qs),
         UNCHANGED <<options, wrappers, bound, isReady, event, settled>>,
         deleted => deleted', conn' = "up" => conn = "up",
         \A v \in Wrappers : stage'[v] \in PastQueue =>
           /\ stage'[v] = stage[v]
           /\ stage[v] = "consuming" => QueueName(v) \notin qs
           /\ ~ deleted' /\ ~ options.autoDelete => qs = {}
           /\ faults' = 0 /\ stopping' = "no" => faults = 0 /\ stopping = "no" /\ qs = {},
         Lasting' => qs = {}, ~ options.autoDelete /\ ~ deleted' /\ conn' = "up" => qs = {}
  PROVE  QueuesLast' /\ EventsLast'
<1> USE DEF ListenerInv, event
<1>1. /\ Queues' = Queues \ qs /\ \A q \in Queues' : bindings'[q] = bindings[q]
      /\ qs = {} /\ (unacked # {} \/ inQueue # {}) => unacked' # {} \/ inQueue' # {}
  BY TakingKeeps
<1>2. ASSUME NEW v \in Wrappers, stage'[v] \in PastQueue PROVE QueueLasts(v)'
  <2>1. QueueName(v)' = QueueName(v) /\ stage'[v] = stage[v] /\ QueueLasts(v)
    BY <1>2 DEF QueueName, QueuesLast
  <2>2. (\/ stage'[v] = "consuming"
         \/ ~ deleted' /\ ~ options.autoDelete
         \/ faults' = 0 /\ stopping' = "no") => QueueName(v) \in Queues'
    BY <1>1, <1>2, <2>1 DEF QueueLasts
  <2>3. QueueName(v) \in Queues' => QueueName(v) \in Queues /\ bindings'[QueueName(v)] = bindings[QueueName(v)]
    BY <1>1
  <2> QED
    BY <2>1, <2>2, <2>3 DEF QueueLasts
<1>3. QueuesLast'
  BY <1>2 DEF QueuesLast
<1>4. EventsLast'
  <2>1. qs = {} => (IsKept => IsKept')
    BY <1>1 DEF IsKept
  <2> QED
    BY <1>1, <2>1 DEF EventsLast, Lasting
<1> QED
  BY <1>3, <1>4

LEMMA ShrinkTypes ==
  ASSUME ListenerInv, NEW ws, NEW qs, TakeBack(ws, qs)
  PROVE  /\ Queues' \subseteq QueueNames /\ \A q \in Queues' : bindings'[q] \subseteq Keys
         /\ inQueue' \subseteq QueueNames /\ unacked' \subseteq Wrappers
<1>1. \A w \in unacked : QueueName(w) \in QueueNames
  BY DEF ListenerInv, TypeOK, DeliveriesLast
<1> QED
  BY <1>1, TakingKeeps DEF ListenerInv, TypeOK

\* The deliveries that are left are of consumers whose channel and queue are left.
LEMMA ShrinkHeld ==
  ASSUME ListenerInv, NEW ws, NEW qs, TakeBack(ws, qs), UNCHANGED <<options, conn, wrappers>>,
         \A w \in unacked \ ws : stage'[w] = stage[w] \/ stage'[w] = "cancelled" \/ QueueName(w) \in qs
  PROVE  DeliveriesLast'
<1>1. /\ unacked' \subseteq unacked \ ws /\ \A w \in unacked' : QueueName(w) \notin qs
      /\ Queues' = Queues \ qs
  BY TakingKeeps
<1>2. DeliveriesLast /\ \A w \in unacked' : QueueName(w) \in Queues'
  BY <1>1 DEF ListenerInv, DeliveriesLast
<1> QED
  BY <1>1, <1>2, HeldKeeps

LEMMA QueueDeletedKeeps ==
  ASSUME ListenerInv, NEW q \in Queues, QueueDeleted(q)
  PROVE  ListenerInv'
<1> USE DEF local, consumer, stop, event, broker, ListenerInv
<1>1. /\ TakeBack({}, {q}) /\ deleted' = TRUE /\ faults' = faults + 1 /\ faults < MaxFaults
      /\ stage' = [w \in Wrappers |-> IF Consumes(w) /\ QueueName(w) = q THEN "cancelled" ELSE stage[w]]
      /\ errors' \in [Wrappers -> SUBSET {"handleError", "unhandled"}]
      /\ UNCHANGED <<options, conn, broken, queue, stopping, target, wrappers, exchangeChannel,
                     queueChannel, bound, messageConsumer, isConsuming, isReady, event, settled>>
  BY DEF QueueDeleted, TypeOK
<1>2. TypeOK'
  <2>1. stage' \in [Wrappers -> Stages]
    BY <1>1 DEF TypeOK, Stages
  <2>2. faults' \in 0 .. MaxFaults
    BY <1>1, ListenerAssumption DEF TypeOK
  <2> QED
    BY <1>1, <2>1, <2>2, ShrinkTypes DEF TypeOK
<1>3. \A v \in Wrappers : stage'[v] = stage[v] \/ (stage[v] = "consuming" /\ stage'[v] = "cancelled")
  BY <1>1 DEF Consumes
<1>4. SetupPlaces' /\ ConsumerPlace' /\ TargetPlace'
  BY <1>1, <1>3 DEF SetupPlaces, ConsumerPlace, TargetPlace, InSetup, PastQueue
<1>5. QueuesLast' /\ EventsLast'
  <2>1. \A v \in Wrappers : stage'[v] \in PastQueue =>
          stage'[v] = stage[v] /\ (stage[v] = "consuming" => QueueName(v) \notin {q})
    BY <1>1 DEF PastQueue, Consumes, SetupPlaces
  <2>2. faults' # 0
    BY <1>1, ListenerAssumption DEF TypeOK
  <2> QED
    BY <1>1, <2>1, <2>2, ShrinkKeeps DEF Lasting
<1>6. DeliveriesLast'
  BY <1>1, <1>3, ShrinkHeld DEF TypeOK
<1>7. ReadinessIsTrue'
  BY <1>1, ListenerAssumption DEF ReadinessIsTrue, TypeOK
<1> QED
  BY <1>2, <1>4, <1>5, <1>6, <1>7

LEMMA StopConsumingKeeps ==
  ASSUME ListenerInv, StopConsuming
  PROVE  ListenerInv'
<1> USE DEF local, consumer, stop, event, broker, ListenerInv
<1> DEFINE gone == {target[1]} \cap {w \in Wrappers : Consumes(w)}
<1>1. /\ stopping = "cancelling" /\ stopping' = "closing" /\ TakeBack({}, AutoDeleted(gone))
      /\ stage' = [stage EXCEPT ![target[1]] = IF @ = "consuming" THEN "cancelled" ELSE @]
      /\ UNCHANGED <<options, conn, broken, errors, queue, target, wrappers, exchangeChannel,
                     queueChannel, bound, messageConsumer, isConsuming, isReady, event,
                     settled, faults, deleted>>
  BY DEF StopConsuming
<1> HIDE DEF gone
<1>2. /\ \A v \in Wrappers : stage'[v] = stage[v] \/ (stage[v] = "consuming" /\ stage'[v] = "cancelled")
      /\ \A v \in gone : stage'[v] = "cancelled"
      /\ stage' \in [Wrappers -> Stages]
  BY <1>1 DEF TypeOK, Stages, gone, Consumes
<1>3. TypeOK'
  BY <1>1, <1>2, ShrinkTypes DEF TypeOK
<1>4. SetupPlaces' /\ ConsumerPlace' /\ TargetPlace'
  BY <1>1, <1>2 DEF SetupPlaces, ConsumerPlace, TargetPlace, InSetup, PastQueue
<1>5. QueuesLast' /\ EventsLast'
  <2>1. \A v \in Wrappers : stage'[v] \in PastQueue =>
          stage'[v] = stage[v] /\ (stage[v] = "consuming" => QueueName(v) \notin AutoDeleted(gone))
    BY <1>1, <1>2 DEF PastQueue, Consumes, SetupPlaces, AutoDeleted
  <2>2. ~ options.autoDelete => AutoDeleted(gone) = {}
    BY DEF AutoDeleted
  <2> QED
    BY <1>1, <2>1, <2>2, ShrinkKeeps DEF Lasting
<1>6. ReadinessIsTrue'
  BY <1>1 DEF ReadinessIsTrue
<1>7. DeliveriesLast'
  BY <1>1, <1>2, ShrinkHeld DEF TypeOK
<1> QED
  BY <1>3, <1>4, <1>5, <1>6, <1>7

LEMMA CloseConnectionKeeps ==
  ASSUME ListenerInv, CloseConnection
  PROVE  ListenerInv'
<1> USE DEF local, consumer, stop, event, broker, ListenerInv
<1> DEFINE qs == QueuesOfConnection
<1>1. /\ stopping' = "ended" /\ conn' = "closed" /\ broken' = 1 .. wrappers
      /\ errors' = OnChannelClosed /\ TakeBack(Wrappers, qs)
      /\ stage' = [w \in Wrappers |->
                     IF stage[w] \in InSetup \cup {"consuming"} THEN "failed" ELSE stage[w]]
      /\ UNCHANGED <<options, queue, target, wrappers, exchangeChannel, queueChannel, bound,
                     messageConsumer, isConsuming, isReady, event, settled, faults, deleted>>
  BY DEF CloseConnection
<1>2. ~ options.exclusive /\ ~ options.autoDelete => qs = {}
  BY DEF QueuesOfConnection, AutoDeleted
<1> HIDE DEF qs
<1>3. TypeOK'
  <2>1. stage' \in [Wrappers -> Stages]
    BY <1>1 DEF TypeOK, Stages
  <2>2. errors' \in [Wrappers -> SUBSET {"handleError", "unhandled"}]
    BY <1>1 DEF TypeOK, OnChannelClosed
  <2>3. broken' \subseteq 0 .. MaxConnects
    BY <1>1, ListenerAssumption DEF TypeOK
  <2> QED
    BY <1>1, <2>1, <2>2, <2>3, ShrinkTypes DEF TypeOK
<1>4. \A v \in Wrappers :
        /\ stage'[v] \notin InSetup \cup {"consuming"}
        /\ stage'[v] = stage[v] \/ (stage'[v] = "failed" /\ stage[v] \in InSetup \cup {"consuming"})
  BY <1>1 DEF InSetup
<1>5. SetupPlaces' /\ ConsumerPlace' /\ TargetPlace'
  BY <1>1, <1>4 DEF SetupPlaces, ConsumerPlace, TargetPlace, InSetup, PastQueue
<1>6. QueuesLast' /\ EventsLast'
  <2>1. \A v \in Wrappers : stage'[v] \notin PastQueue
    BY <1>4 DEF PastQueue, InSetup
  <2> QED
    BY <1>1, <1>2, <2>1, ShrinkKeeps DEF Lasting
<1>7. DeliveriesLast' /\ ReadinessIsTrue'
  <2>1. unacked' = {}
    BY <1>1, TakingKeeps DEF TypeOK
  <2> QED
    BY <1>1, <2>1 DEF DeliveriesLast, ReadinessIsTrue
<1> QED
  BY <1>3, <1>5, <1>6, <1>7

\* Every channel of the connection is closed, so no setup and no consumer lasts.
LEMMA ConnectionLostKeeps ==
  ASSUME ListenerInv, ConnectionLost
  PROVE  ListenerInv'
<1> USE DEF local, consumer, stop, event, broker, ListenerInv
<1> DEFINE qs == QueuesOfConnection
<1>1. /\ conn = "up" /\ conn' = "down" /\ CloseChannels(1 .. wrappers) /\ TakeBack(Wrappers, qs)
      /\ stopping' = IF stopping \in {"cancelling", "closing"} THEN "rejected" ELSE stopping
      /\ UNCHANGED <<options, queue, target, wrappers, exchangeChannel, queueChannel, bound,
                     messageConsumer, isConsuming, isReady, event, settled, faults, deleted>>
  BY DEF ConnectionLost
<1>2. /\ 1 .. wrappers \in SUBSET (0 .. MaxConnects) /\ wrappers \in Nat
      /\ ~ options.exclusive /\ ~ options.autoDelete => qs = {}
  BY ListenerAssumption DEF TypeOK, Wrappers, QueuesOfConnection, AutoDeleted
<1> HIDE DEF qs
<1>3. /\ stage' \in [Wrappers -> Stages] /\ broken' \subseteq 0 .. MaxConnects
      /\ errors' \in [Wrappers -> SUBSET {"handleError", "unhandled"}]
      /\ \A w \in Wrappers :
           \/ stage'[w] = stage[w] /\ errors'[w] = errors[w]
           \/ /\ stage'[w] = "failed" /\ stage[w] \in InSetup
              /\ errors'[w] = errors[w] \cup {ErrorOf(w)}
           \/ /\ stage'[w] = "failed" /\ stage[w] = "consuming"
              /\ errors'[w] = errors[w]
      /\ \A w \in 1 .. wrappers :
           /\ stage[w] \in InSetup /\ ChannelOf(w) \in 1 .. wrappers => stage'[w] = "failed"
           /\ stage[w] = "consuming" /\ queueChannel[w] \in 1 .. wrappers => stage'[w] = "failed"
  BY <1>1, <1>2, ClosingKeeps
<1>4. \A w \in Wrappers : stage'[w] \notin InSetup \cup {"consuming"}
  <2> SUFFICES ASSUME NEW w \in Wrappers, stage[w] \in InSetup \cup {"consuming"}
               PROVE  stage'[w] = "failed"
    BY <1>3 DEF InSetup
  <2>1. w \in 1 .. wrappers
    BY <1>2 DEF SetupPlaces, InSetup, Wrappers
  <2>2. stage[w] # "declaring" => queueChannel[w] \in 1 .. wrappers
    BY DEF SetupPlaces, InSetup, PastQueue
  <2>3. stage[w] \in InSetup => ChannelOf(w) \in 1 .. wrappers
    BY <2>1, <2>2 DEF ChannelOf
  <2> QED
    BY <1>3, <2>1, <2>2, <2>3 DEF InSetup
<1>5. TypeOK'
  BY <1>1, <1>3, ShrinkTypes DEF TypeOK
<1>6. SetupPlaces' /\ ConsumerPlace' /\ TargetPlace'
  <2>1. \A w \in Wrappers : w > wrappers => stage'[w] = "none"
    BY <1>1, <1>3 DEF SetupPlaces, InSetup
  <2> QED
    BY <1>1, <1>4, <2>1 DEF SetupPlaces, ConsumerPlace, TargetPlace, InSetup, PastQueue
<1>7. QueuesLast' /\ EventsLast'
  <2>1. \A v \in Wrappers : stage'[v] \notin PastQueue
    BY <1>4 DEF PastQueue, InSetup
  <2> QED
    BY <1>1, <1>2, <2>1, ShrinkKeeps DEF Lasting
<1>8. DeliveriesLast' /\ ReadinessIsTrue'
  <2>1. unacked' = {}
    BY <1>1, TakingKeeps DEF TypeOK
  <2> QED
    BY <1>1, <2>1 DEF DeliveriesLast, ReadinessIsTrue
<1> QED
  BY <1>5, <1>6, <1>7, <1>8

\* What waits on a channel that is closed fails, its consumers and deliveries are
\* gone, and nothing else is.
LEMMA ClosedKeeps ==
  ASSUME ListenerInv, NEW c \in 0 .. MaxConnects, CloseChannels({c}),
         TakeBack(Using({c}), AutoDeleted({v \in Using({c}) : Consumes(v)})),
         UNCHANGED <<options, conn, queue, target, local, consumer, event, settled, deleted>>,
         faults' \in 0 .. MaxFaults,
         stopping' \in {stopping, "rejected", "disconnecting"},
         faults' > 0 \/ stopping' # "no"
  PROVE  ListenerInv'
<1> USE DEF local, consumer, stop, event, broker, ListenerInv
<1> DEFINE gone == {v \in Using({c}) : Consumes(v)}
<1>1. /\ stage' \in [Wrappers -> Stages] /\ broken' \subseteq 0 .. MaxConnects
      /\ errors' \in [Wrappers -> SUBSET {"handleError", "unhandled"}]
      /\ \A v \in Wrappers :
           \/ stage'[v] = stage[v]
           \/ stage'[v] = "failed" /\ stage[v] \in InSetup
           \/ stage'[v] = "failed" /\ stage[v] = "consuming" /\ queueChannel[v] = c
      /\ \A v \in 1 .. wrappers : stage[v] = "consuming" /\ queueChannel[v] = c => stage'[v] = "failed"
  BY ClosingKeeps
<1>2. \A v \in gone : v \in Wrappers /\ queueChannel[v] = c
  BY DEF Using
<1> HIDE DEF gone
<1>3. TypeOK'
  <2>1. stopping' \in {"no", "ignored", "cancelling", "closing", "disconnecting", "ended", "rejected"}
    BY DEF TypeOK
  <2> QED
    BY <1>1, <2>1, ShrinkTypes DEF TypeOK
<1>4. SetupPlaces' /\ ConsumerPlace' /\ TargetPlace'
  <2> SUFFICES ASSUME NEW v \in Wrappers
               PROVE  /\ v > wrappers => stage'[v] = "none"
                      /\ stage'[v] \in InSetup \cup {"opening", "consuming"} => stage'[v] = stage[v]
    BY DEF SetupPlaces, ConsumerPlace, TargetPlace, InSetup, PastQueue
  <2>1. v > wrappers => stage'[v] = "none"
    BY <1>1 DEF SetupPlaces, InSetup
  <2> QED
    BY <1>1, <2>1 DEF InSetup
<1>5. QueuesLast' /\ EventsLast'
  <2>1. \A v \in Wrappers : stage'[v] \in PastQueue =>
          stage'[v] = stage[v] /\ (stage[v] = "consuming" => QueueName(v) \notin AutoDeleted(gone))
    <3> SUFFICES ASSUME NEW v \in Wrappers, stage'[v] \in PastQueue, stage'[v] = stage[v],
                        stage[v] = "consuming"
                 PROVE  QueueName(v) \notin AutoDeleted(gone)
      BY <1>1 DEF PastQueue
    <3>1. v \in 1 .. wrappers
      BY Numbered
    <3>2. Consumes(v)
      BY DEF SetupPlaces, Consumes
    <3>3. v \notin gone
      BY <1>1, <1>2, <3>1
    <3> QED
      BY <3>2, <3>3 DEF AutoDeleted
  <2>2. ~ options.autoDelete => AutoDeleted(gone) = {}
    BY DEF AutoDeleted
  <2> QED
    BY <2>1, <2>2, ShrinkKeeps DEF Lasting, gone
<1>6. DeliveriesLast'
  <2>1. \A w \in unacked \ Using({c}) : stage'[w] = stage[w]
    BY <1>1 DEF DeliveriesLast, TypeOK, Using, InSetup
  <2> QED
    BY <2>1, ShrinkHeld
<1>7. ReadinessIsTrue'
  BY DEF ReadinessIsTrue
<1> QED
  BY <1>3, <1>4, <1>5, <1>6, <1>7

LEMMA RefusedKeeps ==
  ASSUME ListenerInv, NEW w \in Wrappers, Refused(w)
  PROVE  ListenerInv'
<1> USE DEF ListenerInv
<1>1. /\ stage[w] \in InSetup /\ CloseChannels({ChannelOf(w)})
      /\ TakeBack(Using({ChannelOf(w)}), AutoDeleted({v \in Using({ChannelOf(w)}) : Consumes(v)}))
      /\ stopping' = stopping \/ (stopping \in {"cancelling", "closing"} /\ stopping' = "rejected")
      /\ \/ /\ stage[w] \in {"binding", "subscribing"} /\ QueueName(w) \notin Queues
            /\ faults' = faults
         \/ faults < MaxFaults /\ faults' = faults + 1
      /\ UNCHANGED <<options, conn, queue, target, local, consumer, event, settled, deleted>>
  BY DEF Refused
<1>2. ChannelOf(w) \in 0 .. MaxConnects
  BY ListenerAssumption DEF ChannelOf, TypeOK, Wrappers
<1>3. faults' \in 0 .. MaxFaults /\ (faults' > 0 \/ stopping' # "no")
  <2>1. faults' \in 0 .. MaxFaults /\ (faults' = 0 => faults = 0 /\ faults' = faults)
    BY <1>1, ListenerAssumption DEF TypeOK
  <2>2. stopping' = "no" => stopping = "no"
    BY <1>1
  <2>3. faults = 0 /\ stopping = "no" /\ stage[w] \in {"binding", "subscribing"} => QueueName(w) \in Queues
    BY DEF QueuesLast, QueueLasts, PastQueue
  <2> QED
    BY <1>1, <2>1, <2>2, <2>3, ListenerAssumption DEF TypeOK
<1> QED
  BY <1>1, <1>2, <1>3, ClosedKeeps

LEMMA CloseChannelKeeps ==
  ASSUME ListenerInv, CloseChannel
  PROVE  ListenerInv'
<1> USE DEF ListenerInv
<1> DEFINE c == queueChannel[target[1]]
<1>1. /\ stopping = "closing" /\ stopping' = "disconnecting" /\ CloseChannels({c})
      /\ TakeBack(Using({c}), AutoDeleted({v \in Using({c}) : Consumes(v)}))
      /\ UNCHANGED <<options, conn, queue, target, local, consumer, event, settled, faults, deleted>>
  BY DEF CloseChannel
<1>2. c \in 0 .. MaxConnects
  BY <1>1 DEF TargetPlace, TypeOK, QueueNames
<1> HIDE DEF c
<1> QED
  BY <1>1, <1>2, ClosedKeeps DEF TypeOK

-----------------------------------------------------------------------------
(* Theorems.                                                               *)

LEMMA StepInv == ListenerInv /\ [Next]_vars => ListenerInv'
<1> SUFFICES ASSUME ListenerInv, [Next]_vars PROVE ListenerInv'
  OBVIOUS
<1>1. ASSUME NEW w \in Wrappers, Setup(w) \/ Deliver(w) \/ Settle(w) PROVE ListenerInv'
  BY <1>1, ChannelOpenedKeeps, ExchangeDeclaredKeeps, QueueDeclaredKeeps, BindQueueKeeps,
     RegisterConsumerKeeps, ReceiveForKeeps, FailedKeeps, RefusedKeeps, DeliveryKeeps
  DEF Setup
<1>2. CASE UNCHANGED vars
  <2>1. TypeOK' /\ SetupPlaces' /\ ConsumerPlace' /\ TargetPlace' /\ EventsLast'
    BY <1>2 DEF vars, local, consumer, stop, event, broker, ListenerInv, TypeOK, Queues, SetupPlaces,
       ConsumerPlace, TargetPlace, EventsLast, Lasting, IsKept
  <2>2. QueuesLast' /\ DeliveriesLast' /\ ReadinessIsTrue'
    BY <1>2 DEF vars, local, consumer, stop, event, broker, ListenerInv, QueuesLast, QueueLasts,
       QueueName, Queues, DeliveriesLast, ReadinessIsTrue, Consumes
  <2> QED
    BY <2>1, <2>2 DEF ListenerInv
<1> QED
  BY <1>1, <1>2, ConnectKeeps, FailedKeeps, ConnectionLostKeeps, QueueDeletedKeeps, PublishKeeps,
     CallKeeps, StopConsumingKeeps, CloseChannelKeeps, CloseConnectionKeeps DEF Next

\* The invariant holds for any number of connections, routing keys, refusals
\* and deleted queues (exchange-listener.ts, broker-component.ts, queue.ts).
THEOREM ListenerCorrect == Spec => []ListenerInv
  BY InitInv, StepInv, PTL DEF Spec

\* A consumer's queue exists and is bound to every key, or was deleted under
\* one setup and declared again by another (queue.ts:346-360).
THEOREM ConsumersAreBound == Spec => []ConsumerIsBound
<1>1. ListenerInv => ConsumerIsBound
  BY BoundConsumer DEF ConsumerIsBound
<1> QED
  BY <1>1, ListenerCorrect, PTL

\* An event published once the listener was ready is settled, or in the hands of
\* a handler, or waits in a queue, if nothing but an operator deletes the queue;
\* that of an exclusive one as long as its connection lasts
\* (exchange-listener.ts:34, 64-66).
THEOREM ReadyListenersKeepEvents == Spec => []ReadyKeepsEvent
<1>1. ListenerInv => ReadyKeepsEvent
  BY DEF ListenerInv, EventsLast, Lasting, ReadyKeepsEvent
<1> QED
  BY <1>1, ListenerCorrect, PTL

\* isReadyForConsuming() is right about the consumer the listener holds while
\* the connection lasts, but for what can close its channel or delete its queue
\* (exchange-listener.ts:68-72, message-consumer.ts:138-140).
THEOREM ReadinessHolds == Spec => []ReadinessIsTrue
<1>1. ListenerInv => ReadinessIsTrue
  BY DEF ListenerInv
<1> QED
  BY <1>1, ListenerCorrect, PTL

-----------------------------------------------------------------------------
(* Copies of an event.                                                     *)

\* The wrappers that hold, or can still take, a copy from a queue with a name the
\* server made up.
Copies == {w \in 1 .. wrappers : w \in unacked \/ <<w, wrappers>> \in inQueue}

\* A queue is named at a connection there has been.  A fixed queue name has one
\* copy, which is in one place; a name made up by the server has one for each
\* wrapper.
CopiesInv ==
  /\ ~ published => inQueue = {} /\ unacked = {} /\ settled = 0
  /\ \A q \in Queues \cup inQueue : q[2] <= wrappers
  /\ ~ options.fresh =>
       /\ Queues \cup inQueue \subseteq {NoConsumer}
       /\ \A v, w \in unacked : v = w
       /\ inQueue = {} \/ unacked = {}
       /\ settled = 0 \/ (settled = 1 /\ inQueue = {} /\ unacked = {})
  /\ options.fresh =>
       /\ \A w \in unacked : <<w, wrappers>> \notin inQueue
       /\ settled + Cardinality(Copies) <= wrappers

LEMMA CopiesFinite ==
  ASSUME NEW n \in Nat, NEW S \in SUBSET (1 .. n)
  PROVE  IsFiniteSet(S) /\ Cardinality(S) \in Nat /\ Cardinality(S) <= n
<1>1. IsFiniteSet(1 .. n) /\ Cardinality(1 .. n) = n
  BY FS_Interval
<1>2. IsFiniteSet(S) /\ Cardinality(S) <= n
  BY <1>1, FS_Subset
<1> QED
  BY <1>2, FS_CardinalityType

\* Fewer wrappers with a copy keep the count.
LEMMA FewerCopies ==
  ASSUME TypeOK, CopiesInv, options.fresh, UNCHANGED <<wrappers, settled>>, Copies' \subseteq Copies
  PROVE  settled' + Cardinality(Copies') <= wrappers'
<1>1. wrappers \in Nat /\ settled \in Nat
  BY ListenerAssumption DEF TypeOK
<1>2. Copies \in SUBSET (1 .. wrappers) /\ Copies' \in SUBSET (1 .. wrappers)
  BY DEF Copies
<1>3. Cardinality(Copies') <= Cardinality(Copies)
  BY <1>1, <1>2, CopiesFinite, FS_Subset
<1>4. Cardinality(Copies) \in Nat /\ Cardinality(Copies') \in Nat
  BY <1>1, <1>2, CopiesFinite
<1> QED
  BY <1>1, <1>3, <1>4 DEF CopiesInv

\* Deliveries aside, a step declares the queues of setups, takes copies back to
\* their queues and takes queues away.
LEMMA QuietCopies ==
  ASSUME ListenerInv, CopiesInv, UNCHANGED <<options, wrappers, published, settled>>,
         unacked' \subseteq unacked,
         \A q \in inQueue' : q \in inQueue \/ \E w \in unacked \ unacked' : q = QueueName(w),
         \A q \in Queues' : q \in Queues \/ \E w \in Wrappers : q = QueueName(w)
  PROVE  CopiesInv'
<1>1. \A w : /\ QueueName(w)[2] \in {0, wrappers}
             /\ ~ options.fresh => QueueName(w) = NoConsumer
             /\ options.fresh => QueueName(w) = <<w, wrappers>>
  BY DEF QueueName, NoConsumer
<1>2. wrappers \in Nat /\ settled \in Nat /\ unacked \subseteq 1 .. wrappers
  BY ListenerAssumption DEF ListenerInv, TypeOK, DeliveriesLast, Wrappers
<1>3. \A q \in Queues' \cup inQueue' : q[2] <= wrappers'
  BY <1>1, <1>2 DEF CopiesInv
<1>4. ASSUME ~ options.fresh
      PROVE  /\ Queues' \cup inQueue' \subseteq {NoConsumer}
             /\ \A v, w \in unacked' : v = w
             /\ inQueue' = {} \/ unacked' = {}
             /\ settled' = 0 \/ (settled' = 1 /\ inQueue' = {} /\ unacked' = {})
  <2>1. Queues' \cup inQueue' \subseteq {NoConsumer} /\ \A v, w \in unacked' : v = w
    BY <1>1, <1>4 DEF CopiesInv
  <2>2. inQueue' = {} \/ unacked' = {}
    <3>1. ASSUME NEW q \in inQueue', NEW v \in unacked' PROVE FALSE
      <4>1. v \in unacked /\ q \notin inQueue
        BY <1>4, <3>1 DEF CopiesInv
      <4>2. PICK w \in unacked \ unacked' : q = QueueName(w)
        BY <3>1, <4>1
      <4> QED
        BY <1>4, <3>1, <4>1, <4>2 DEF CopiesInv
    <3> QED
      BY <3>1
  <2>3. settled' = 0 \/ (settled' = 1 /\ inQueue' = {} /\ unacked' = {})
    BY <1>4 DEF CopiesInv
  <2> QED
    BY <2>1, <2>2, <2>3
<1>5. ASSUME options.fresh
      PROVE  /\ \A w \in unacked' : <<w, wrappers>>' \notin inQueue'
             /\ settled' + Cardinality(Copies') <= wrappers'
  <2>1. \A w \in unacked' : <<w, wrappers>> \notin inQueue'
    <3>1. ASSUME NEW w \in unacked', <<w, wrappers>> \in inQueue' PROVE FALSE
      <4>1. w \in unacked /\ <<w, wrappers>> \notin inQueue
        BY <1>5, <3>1 DEF CopiesInv
      <4>2. PICK v \in unacked \ unacked' : <<w, wrappers>> = QueueName(v)
        BY <3>1, <4>1
      <4> QED
        BY <1>1, <1>5, <3>1, <4>2
    <3> QED
      BY <3>1
  <2>2. Copies' \subseteq Copies
    <3>1. ASSUME NEW w \in Copies', w \notin unacked PROVE <<w, wrappers>> \in inQueue
      <4>1. <<w, wrappers>> \in inQueue'
        BY <3>1 DEF Copies
      <4>2. ASSUME NEW v \in unacked, <<w, wrappers>> = QueueName(v) PROVE FALSE
        BY <1>1, <1>5, <3>1, <4>2
      <4> QED
        BY <4>1, <4>2
    <3> QED
      BY <3>1 DEF Copies
  <2> QED
    BY <1>5, <2>1, <2>2, FewerCopies DEF ListenerInv
<1>6. ~ published' => inQueue' = {} /\ unacked' = {} /\ settled' = 0
  BY DEF CopiesInv
<1> QED
  BY <1>3, <1>4, <1>5, <1>6 DEF CopiesInv

LEMMA TakingCopies ==
  ASSUME ListenerInv, CopiesInv, UNCHANGED <<options, wrappers, published, settled>>,
         NEW ws, NEW qs, TakeBack(ws, qs)
  PROVE  CopiesInv'
<1>1. /\ Queues' \subseteq Queues /\ unacked' \subseteq unacked
      /\ inQueue' = (inQueue \cup {QueueName(w) : w \in unacked \cap ws}) \ qs
      /\ unacked' = {w \in unacked \ ws : QueueName(w) \notin qs}
  BY TakingKeeps DEF TakeBack
<1>2. \A q \in inQueue' : q \in inQueue \/ \E w \in unacked \ unacked' : q = QueueName(w)
  BY <1>1
<1> QED
  BY <1>1, <1>2, QuietCopies

LEMMA ConnectCopies ==
  ASSUME ListenerInv, CopiesInv, Connect
  PROVE  CopiesInv'
<1>1. /\ wrappers' = wrappers + 1 /\ conn = "down"
      /\ UNCHANGED <<options, bindings, published, inQueue, unacked, settled>>
  BY DEF Connect, broker, event
<1>2. wrappers \in Nat /\ settled \in Nat /\ unacked = {}
  BY <1>1, ListenerAssumption DEF ListenerInv, TypeOK, DeliveriesLast
<1>3. Queues \subseteq QueueNames /\ inQueue \subseteq QueueNames /\ Queues' = Queues
  BY <1>1 DEF ListenerInv, TypeOK, Queues
<1>4. \A q \in QueueNames : q[2] \in Nat
  BY ListenerAssumption DEF QueueNames, Wrappers, NoConsumer
<1>5. \A q \in Queues' \cup inQueue' : q[2] <= wrappers'
  BY <1>1, <1>2, <1>3, <1>4 DEF CopiesInv
<1>6. Copies' = {}
  <2>1. \A w : <<w, wrappers + 1>> \notin inQueue
    BY <1>2 DEF CopiesInv
  <2> QED
    BY <1>1, <1>2, <2>1 DEF Copies
<1>7. ASSUME options.fresh
      PROVE  settled' + Cardinality(Copies') <= wrappers'
  <2>1. Copies \in SUBSET (1 .. wrappers)
    BY DEF Copies
  <2>2. Cardinality(Copies) \in Nat
    BY <1>2, <2>1, CopiesFinite
  <2>3. Cardinality(Copies') = 0
    BY <1>6, FS_EmptySet
  <2> QED
    BY <1>1, <1>2, <1>7, <2>2, <2>3 DEF CopiesInv
<1> QED
  BY <1>1, <1>2, <1>3, <1>5, <1>7 DEF CopiesInv

LEMMA PublishCopies ==
  ASSUME ListenerInv, CopiesInv, NEW k \in Keys, Publish(k)
  PROVE  CopiesInv'
<1>1. /\ UNCHANGED <<options, wrappers, bindings, unacked, settled>> /\ settled = 0 /\ unacked = {}
      /\ published' = TRUE /\ inQueue' \subseteq Queues /\ Queues' = Queues
  BY DEF Publish, local, CopiesInv, Queues
<1>2. wrappers \in Nat
  BY ListenerAssumption DEF ListenerInv, TypeOK
<1>3. Copies' \in SUBSET (1 .. wrappers)
  BY <1>1 DEF Copies
<1>4. Cardinality(Copies') \in Nat /\ Cardinality(Copies') <= wrappers
  BY <1>2, <1>3, CopiesFinite
<1> QED
  BY <1>1, <1>2, <1>4 DEF CopiesInv

\* A delivery moves a copy, its end moves it back or settles it.
LEMMA DeliveryCopies ==
  ASSUME ListenerInv, CopiesInv, NEW w \in Wrappers, Deliver(w) \/ Settle(w)
  PROVE  CopiesInv'
<1>1. UNCHANGED <<options, wrappers, published, bindings>> /\ Queues' = Queues
  BY DEF Deliver, Settle, local, event, Queues
<1>2. /\ wrappers \in Nat /\ settled \in Nat /\ unacked \subseteq 1 .. wrappers
      /\ Consumes(w) => w \in 1 .. wrappers
  <2>1. wrappers \in Nat /\ settled \in Nat /\ unacked \subseteq Wrappers
    BY ListenerAssumption DEF ListenerInv, TypeOK
  <2>2. \A v \in unacked : v <= wrappers
    BY DEF ListenerInv, DeliveriesLast
  <2>3. Consumes(w) => w \in 1 .. wrappers
    BY Numbered DEF Consumes
  <2> QED
    BY <2>1, <2>2, <2>3, ListenerAssumption DEF Wrappers
<1>3. /\ QueueName(w)' = QueueName(w) /\ QueueName(w)[2] <= wrappers
      /\ options.fresh => QueueName(w) = <<w, wrappers>>
      /\ ~ options.fresh => QueueName(w) = NoConsumer
  BY <1>1, <1>2 DEF QueueName, NoConsumer
<1>4. CASE Deliver(w)
  <2>1. /\ QueueName(w) \in inQueue /\ inQueue' = inQueue \ {QueueName(w)}
        /\ unacked' = unacked \cup {w} /\ settled' = settled /\ w \in 1 .. wrappers
    BY <1>2, <1>4 DEF Deliver
  <2>2. ASSUME options.fresh
        PROVE  Copies' \subseteq Copies /\ \A v \in unacked' : <<v, wrappers>> \notin inQueue'
    BY <1>1, <1>3, <2>1, <2>2 DEF Copies, CopiesInv
  <2>3. options.fresh => settled' + Cardinality(Copies') <= wrappers'
    BY <1>1, <2>1, <2>2, FewerCopies DEF ListenerInv
  <2>4. ~ options.fresh => /\ inQueue' = {} /\ unacked' = {w} /\ settled = 0
                           /\ Queues' \cup inQueue' \subseteq {NoConsumer}
    BY <1>1, <1>3, <2>1 DEF CopiesInv
  <2>5. published /\ \A q \in Queues' \cup inQueue' : q[2] <= wrappers
    BY <1>1, <2>1 DEF CopiesInv
  <2> QED
    BY <1>1, <2>1, <2>2, <2>3, <2>4, <2>5 DEF CopiesInv
<1>5. CASE w \in unacked /\ unacked' = unacked \ {w} /\ inQueue' = inQueue /\ settled' = settled + 1
  <2>1. ASSUME options.fresh
        PROVE  settled' + Cardinality(Copies') <= wrappers'
    <3>1. Copies' = Copies \ {w} /\ w \in Copies /\ Copies \in SUBSET (1 .. wrappers)
      BY <1>1, <1>2, <1>5, <2>1 DEF Copies, CopiesInv
    <3>2. IsFiniteSet(Copies) /\ Cardinality(Copies) \in Nat
      BY <1>2, <3>1, CopiesFinite
    <3>3. Cardinality(Copies') = Cardinality(Copies) - 1
      BY <3>1, <3>2, FS_RemoveElement
    <3> QED
      BY <1>1, <1>2, <1>5, <2>1, <3>2, <3>3 DEF CopiesInv
  <2>2. ~ options.fresh => inQueue' = {} /\ unacked' = {} /\ settled' = 1
    BY <1>5 DEF CopiesInv
  <2> QED
    BY <1>1, <1>5, <2>1, <2>2 DEF CopiesInv
<1>6. CASE /\ w \in unacked /\ unacked' = unacked \ {w}
           /\ inQueue' = inQueue \cup {QueueName(w)} /\ settled' = settled
  BY <1>1, <1>6, QuietCopies
<1> QED
  BY <1>4, <1>5, <1>6 DEF Settle

LEMMA CopiesInit == Init => CopiesInv
<1> SUFFICES ASSUME Init PROVE CopiesInv
  OBVIOUS
<1>1. Queues = {} /\ inQueue = {} /\ unacked = {} /\ settled = 0 /\ wrappers = 0
  BY DEF Init, Queues
<1>2. Copies = {}
  BY <1>1 DEF Copies
<1> QED
  BY <1>1, <1>2, FS_EmptySet DEF CopiesInv

LEMMA CopiesStep == ListenerInv /\ CopiesInv /\ [Next]_vars => CopiesInv'
<1> SUFFICES ASSUME ListenerInv, CopiesInv, [Next]_vars PROVE CopiesInv'
  OBVIOUS
<1>1. CASE UNCHANGED vars
  BY <1>1, QuietCopies DEF vars, local, event, broker, Queues
<1>2. ASSUME NEW w \in Wrappers, Setup(w) PROVE CopiesInv'
  <2>1. CASE Refused(w)
    BY <2>1, TakingCopies DEF Refused, local, event
  <2>2. CASE ~ Refused(w)
    <3>1. UNCHANGED <<options, wrappers, published, settled, unacked, inQueue>>
      BY <1>2, <2>2 DEF Setup, ChannelOpened, ExchangeDeclared, QueueDeclared, BindQueue,
        QueueBound, RegisterConsumer, ReceiveFor, ChannelRefused, local, event, broker
    <3>2. \A q \in Queues' : q \in Queues \/ q = QueueName(w)
      BY <1>2, <2>2 DEF Setup, ChannelOpened, ExchangeDeclared, QueueDeclared, BindQueue,
        QueueBound, RegisterConsumer, ReceiveFor, ChannelRefused, broker, Queues
    <3> QED
      BY <3>1, <3>2, QuietCopies
  <2> QED
    BY <2>1, <2>2
<1>3. CASE ConnectionLost \/ StopConsuming \/ CloseChannel \/ CloseConnection
             \/ \E q \in Queues : QueueDeleted(q)
  <2>1. /\ UNCHANGED <<options, wrappers, published, settled>>
        /\ \E ws, qs : TakeBack(ws, qs)
    BY <1>3 DEF ConnectionLost, StopConsuming, CloseChannel, CloseConnection, QueueDeleted,
      local, event
  <2> QED
    BY <2>1, TakingCopies
<1>4. CASE Stop \/ Close \/ ConnectFailed
  BY <1>4, QuietCopies DEF Stop, Close, ConnectFailed, local, event, broker, Queues
<1> QED
  BY <1>1, <1>2, <1>3, <1>4, ConnectCopies, PublishCopies, DeliveryCopies DEF Next

\* However connections are lost and whoever is cut off before its ack, there is
\* one copy of an event under a fixed queue name, and at most one for every
\* channel wrapper when the server makes names up (exchange-listener.ts:105,
\* broker-component.ts:88-98, message-consumer.ts:189-220).
THEOREM CopiesPerWrapper == Spec => []CopiesOnlyWhenFresh
<1>1. ListenerInv /\ CopiesInv => CopiesOnlyWhenFresh
  <2> SUFFICES ASSUME ListenerInv, CopiesInv
               PROVE  settled + Cardinality(unacked) <= IF options.fresh THEN wrappers ELSE 1
    BY DEF CopiesOnlyWhenFresh
  <2>1. wrappers \in Nat /\ settled \in Nat /\ unacked \in SUBSET (1 .. wrappers)
    BY ListenerAssumption DEF ListenerInv, TypeOK, DeliveriesLast, Wrappers
  <2>2. IsFiniteSet(unacked) /\ Cardinality(unacked) \in Nat
    BY <2>1, CopiesFinite
  <2>3. CASE options.fresh
    <3>1. Copies \in SUBSET (1 .. wrappers) /\ unacked \subseteq Copies
      BY <2>1 DEF Copies
    <3>2. Cardinality(unacked) <= Cardinality(Copies) /\ Cardinality(Copies) \in Nat
      BY <2>1, <3>1, CopiesFinite, FS_Subset
    <3> QED
      BY <2>1, <2>2, <2>3, <3>2 DEF CopiesInv
  <2>4. CASE ~ options.fresh
    <3>1. CASE unacked = {}
      BY <2>1, <2>4, <3>1, FS_EmptySet DEF CopiesInv
    <3>2. CASE unacked # {}
      <4>1. PICK w \in unacked : unacked = {w}
        BY <2>4, <3>2 DEF CopiesInv
      <4>2. Cardinality(unacked) = 1 /\ settled = 0
        BY <2>4, <4>1, FS_Singleton DEF CopiesInv
      <4> QED
        BY <2>4, <4>2
    <3> QED
      BY <3>1, <3>2
  <2> QED
    BY <2>3, <2>4
<1>2. CopiesInv /\ ListenerInv /\ [Next]_vars => CopiesInv'
  BY CopiesStep
<1> QED
  BY <1>1, <1>2, CopiesInit, ListenerCorrect, PTL DEF Spec
=============================================================================
