----------------------------- MODULE ListenerSetup -----------------------------
(***************************************************************************)
(* src/ports/pubsub/rabbitmq: how an ExchangeListener attaches itself to a *)
(* queue, what a lost connection, a refused operation and a deleted queue  *)
(* do to it, and how it stops.  MessageDelivery starts where this ends: it *)
(* models what the consumers registered here do with their deliveries.     *)
(*                                                                         *)
(* The connection manager (amqp-connection-manager) is external: it        *)
(* connects again by itself, and every channel wrapper made so far then    *)
(* opens a channel and runs its setup.  The code makes one more wrapper at *)
(* every connection, so the wrappers are numbered by the connection that   *)
(* made them and a channel is named by its wrapper.  A channel the broker  *)
(* closed stays closed until the next connection.  start() is given a      *)
(* callback for errors.  A rejection nobody catches is recorded, and the   *)
(* process goes on, as it does where a handler for unhandled rejections is *)
(* installed.  The replies on one channel may come in any order.           *)
(*                                                                         *)
(* The definitions called Bug... are not part of the model: each is a      *)
(* plausible mistake in the code of the definition that follows it.        *)
(***************************************************************************)
EXTENDS Integers, Sequences, FiniteSets

CONSTANTS
  RoutingKeys, \* the routing keys, in order
  Settings,    \* the queue settings concrete listeners choose from
  MaxConnects, \* bound: how often the manager connects
  MaxFaults    \* bound: refused operations, failed connects and deleted queues

Options == [exclusive : BOOLEAN, autoDelete : BOOLEAN, fresh : BOOLEAN]

ASSUME ListenerAssumption ==
  /\ Settings \subseteq Options /\ RoutingKeys \in Seq(STRING) /\ RoutingKeys # <<>>
  /\ MaxConnects \in Nat /\ MaxFaults \in Nat

VARIABLES
  options,         \* what this listener chose
  conn,            \* the connection: down, up, or closed for good
  wrappers,        \* how many channel wrappers there are
  stage,           \* how far the setup of a wrapper has got on this connection
  broken,          \* the channels of this connection that are closed
  exchangeChannel, \* the channel the Exchange holds
  queueChannel,    \* the channel the Queue made by a wrapper's setup holds, or 0
  bound,           \* how many of its bindings that Queue has been confirmed
  errors,          \* who heard of an error of a wrapper since the last connect
  messageConsumer, \* the setup that made the listener's consumer: <<wrapper, connection>>
  isConsuming,     \* the consumer's flag
  isReady,         \* the listener's flag
  queue,           \* the setup that made the listener's queue: <<wrapper, connection>>
  stopping,        \* where the call of stop or close is
  target,          \* the setup whose Queue that call closes
  bindings,        \* the broker's queues, with the keys each is bound to
  published,       \* the event was published
  wasReady,        \* the listener said it was ready by then
  heardIn,         \* the connection in which something consumed by then, or 0
  inQueue,         \* the queues in which the event waits
  unacked,         \* the setups whose consumer holds a delivery of it
  settled,         \* how many deliveries of it were acknowledged or dropped
  faults,          \* how many faults there were
  deleted          \* a queue was deleted by an operator

event == <<published, wasReady, heardIn>>
broker == <<bindings, event, inQueue, unacked, settled>>
local == <<wrappers, exchangeChannel, queueChannel, bound>>
consumer == <<messageConsumer, isConsuming, isReady>>
stop == <<stopping, target>>
vars == <<options, conn, stage, broken, errors, queue, stop, local, consumer, broker,
          faults, deleted>>

Wrappers == 1 .. MaxConnects
Keys == {RoutingKeys[i] : i \in DOMAIN RoutingKeys}
InSetup == {"declaring", "queueing", "binding", "qos", "subscribing"}
Stages == {"none", "opening", "consuming", "cancelled", "failed"} \cup InSetup
NoConsumer == <<0, 0>>

\* Bug: the name is made up at every setup whatever the listener asks for.
BugQueueName(w) == <<w, wrappers>>

\* queueName() answers a fixed name, or one the server makes up at each setup.
QueueName(w) == IF options.fresh THEN <<w, wrappers>> ELSE NoConsumer

QueueNames == {NoConsumer} \cup (Wrappers \X Wrappers)
Queues == DOMAIN bindings

TypeOK ==
  /\ options \in Settings
  /\ conn \in {"down", "up", "closed"}
  /\ wrappers \in 0 .. MaxConnects /\ exchangeChannel \in 0 .. MaxConnects
  /\ stage \in [Wrappers -> Stages]
  /\ broken \subseteq 0 .. MaxConnects
  /\ queueChannel \in [Wrappers -> 0 .. MaxConnects]
  /\ bound \in [Wrappers -> 0 .. Len(RoutingKeys)]
  /\ errors \in [Wrappers -> SUBSET {"handleError", "unhandled"}]
  /\ {messageConsumer, queue, target} \subseteq QueueNames
  /\ isConsuming \in BOOLEAN /\ isReady \in BOOLEAN
  /\ stopping \in {"no", "ignored", "cancelling", "closing", "disconnecting", "ended",
                  "rejected"}
  /\ Queues \subseteq QueueNames /\ \A q \in Queues : bindings[q] \subseteq Keys
  /\ published \in BOOLEAN /\ wasReady \in BOOLEAN /\ heardIn \in 0 .. MaxConnects
  /\ inQueue \subseteq QueueNames /\ unacked \subseteq Wrappers /\ settled \in Nat
  /\ faults \in 0 .. MaxFaults /\ deleted \in BOOLEAN

Init ==
  /\ options \in Settings
  /\ conn = "down" /\ wrappers = 0 /\ exchangeChannel = 0 /\ broken = {}
  /\ stage = [w \in Wrappers |-> "none"]
  /\ queueChannel = [w \in Wrappers |-> 0]
  /\ bound = [w \in Wrappers |-> 0]
  /\ errors = [w \in Wrappers |-> {}]
  /\ messageConsumer = NoConsumer /\ isConsuming = FALSE /\ isReady = FALSE
  /\ queue = NoConsumer /\ stopping = "no" /\ target = NoConsumer
  /\ bindings = [q \in {} |-> {}]
  /\ published = FALSE /\ wasReady = FALSE /\ heardIn = 0
  /\ inQueue = {} /\ unacked = {} /\ settled = 0
  /\ faults = 0 /\ deleted = FALSE

-----------------------------------------------------------------------------
(* Channels, consumers and queues.                                         *)

\* The channel the pending operation of a wrapper's setup is on.
ChannelOf(w) == IF stage[w] = "declaring" THEN w ELSE queueChannel[w]

\* The broker has a consumer of this setup.
Consumes(w) == conn = "up" /\ stage[w] = "consuming"

\* An error before the Queue exists goes to handleError, which calls the callback
\* given to start().  The Queue is cloned without onSetupError, and nobody awaits
\* its setup: an error of it is a rejection nobody handles.
ErrorOf(w) == IF stage[w] = "declaring" THEN "handleError" ELSE "unhandled"

\* Bug: the error of a setup is logged and forgotten.
BugCloseChannels(cs) ==
  /\ broken' = broken \cup cs
  /\ UNCHANGED errors
  /\ stage' = [w \in Wrappers |->
       IF \/ stage[w] \in InSetup /\ ChannelOf(w) \in cs
          \/ stage[w] = "consuming" /\ queueChannel[w] \in cs
         THEN "failed" ELSE stage[w]]

\* The channels cs are closed: what waits for a reply on them is rejected,
\* and the consumers on them are gone.
CloseChannels(cs) ==
  LET hit == {w \in 1 .. wrappers : stage[w] \in InSetup /\ ChannelOf(w) \in cs}
  IN  /\ broken' = broken \cup cs
      /\ errors' = [w \in Wrappers |-> IF w \in hit THEN errors[w] \cup {ErrorOf(w)}
                                                    ELSE errors[w]]
      /\ stage' = [w \in Wrappers |->
           IF w \in hit \/ (stage[w] = "consuming" /\ queueChannel[w] \in cs)
             THEN "failed" ELSE stage[w]]

\* The setups whose consumers have their deliveries on the channels cs.
Using(cs) == {w \in Wrappers : queueChannel[w] \in cs}

\* What the setups ws have not acknowledged goes back to its queue; the queues qs
\* are deleted with all that is in them or delivered from them.
TakeBack(ws, qs) ==
  /\ bindings' = [q \in Queues \ qs |-> bindings[q]]
  /\ inQueue' = (inQueue \cup {QueueName(w) : w \in unacked \cap ws}) \ qs
  /\ unacked' = {w \in unacked \ ws : QueueName(w) \notin qs}

\* An auto-deleted queue goes with the last of its consumers.
AutoDeleted(gone) ==
  {q \in Queues : /\ options.autoDelete
                  /\ \E w \in gone : QueueName(w) = q
                  /\ \A w \in Wrappers \ gone : Consumes(w) => QueueName(w) # q}

\* The queues that go with the connection.
QueuesOfConnection ==
  IF options.exclusive THEN Queues ELSE AutoDeleted({w \in Wrappers : Consumes(w)})

-----------------------------------------------------------------------------
(* The connection and the setup of one wrapper.                            *)

\* onConnectionOpen makes one more wrapper; those of earlier connections open
\* a channel again.
Connect ==
  /\ conn = "down" /\ wrappers < MaxConnects /\ stopping # "disconnecting"
  /\ conn' = "up"
  /\ wrappers' = wrappers + 1
  /\ stage' = [w \in Wrappers |-> IF w <= wrappers + 1 THEN "opening" ELSE "none"]
  /\ broken' = {}
  /\ errors' = [w \in Wrappers |-> {}]
  /\ queueChannel' = [w \in Wrappers |-> 0]
  /\ bound' = [w \in Wrappers |-> 0]
  /\ UNCHANGED <<options, queue, stop, exchangeChannel, consumer, broker, faults, deleted>>

\* The Exchange hears that the manager could not connect; the manager tries again.
ConnectFailed ==
  /\ conn = "down" /\ wrappers < MaxConnects /\ stopping # "disconnecting"
  /\ faults < MaxFaults /\ faults' = faults + 1
  /\ errors' = [w \in Wrappers |-> errors[w] \cup {"handleError"}]
  /\ UNCHANGED <<options, conn, stage, broken, queue, stop, local, consumer, broker, deleted>>

\* A wrapper gets no channel, and hears of it in its error event.
ChannelRefused(w) ==
  /\ conn = "up" /\ stage[w] = "opening"
  /\ faults < MaxFaults /\ faults' = faults + 1
  /\ stage' = [stage EXCEPT ![w] = "failed"]
  /\ errors' = [errors EXCEPT ![w] = @ \cup {"handleError"}]
  /\ UNCHANGED <<options, conn, broken, queue, stop, local, consumer, broker, deleted>>

\* onChannelOpened, up to the reply to assertExchange.
ChannelOpened(w) ==
  /\ conn = "up" /\ stage[w] = "opening"
  /\ exchangeChannel' = w
  /\ stage' = [stage EXCEPT ![w] = "declaring"]
  /\ UNCHANGED <<options, conn, wrappers, broken, queueChannel, bound, errors, queue,
                 stop, consumer, broker, faults, deleted>>

\* The Queue is cloned with the channel the Exchange holds by now, which may
\* be another wrapper's; on a closed one assertQueue throws.
CloneQueue(w) ==
  /\ queueChannel' = [queueChannel EXCEPT ![w] = exchangeChannel]
  /\ queue' = <<w, wrappers>>
  /\ IF exchangeChannel \in broken
       THEN /\ stage' = [stage EXCEPT ![w] = "failed"]
            /\ errors' = [errors EXCEPT ![w] = @ \cup {"unhandled"}]
       ELSE /\ stage' = [stage EXCEPT ![w] = "queueing"]
            /\ UNCHANGED errors

ExchangeDeclared(w) ==
  /\ conn = "up" /\ stage[w] = "declaring"
  /\ CloneQueue(w)
  /\ UNCHANGED <<options, conn, wrappers, broken, exchangeChannel, bound, stop,
                 consumer, broker, faults, deleted>>

\* Bug: the listener is ready once its queue is declared.
BugQueueDeclared(w) ==
  /\ conn = "up" /\ stage[w] = "queueing"
  /\ bindings' = [q \in Queues \cup {QueueName(w)} |->
                    IF q \in Queues THEN bindings[q] ELSE {}]
  /\ stage' = [stage EXCEPT ![w] = "binding"]
  /\ isReady' = TRUE
  /\ UNCHANGED <<options, conn, broken, errors, queue, stop, local, messageConsumer,
                 isConsuming, event, inQueue, unacked, settled, faults, deleted>>

QueueDeclared(w) ==
  /\ conn = "up" /\ stage[w] = "queueing"
  /\ bindings' = [q \in Queues \cup {QueueName(w)} |->
                    IF q \in Queues THEN bindings[q] ELSE {}]
  /\ stage' = [stage EXCEPT ![w] = "binding"]
  /\ UNCHANGED <<options, conn, broken, errors, queue, stop, local, consumer, event,
                 inQueue, unacked, settled, faults, deleted>>

\* The bindings are asked for at once and confirmed in order; after the last
\* one the consumer is made, which first sets the prefetch.
QueueBound(w, next) ==
  /\ conn = "up" /\ bound[w] < Len(RoutingKeys) /\ QueueName(w) \in Queues
  /\ bound' = [bound EXCEPT ![w] = @ + 1]
  /\ bindings' = [bindings EXCEPT ![QueueName(w)] = @ \cup {RoutingKeys[bound[w] + 1]}]
  /\ stage' = [stage EXCEPT ![w] = next]
  /\ UNCHANGED <<options, conn, wrappers, broken, exchangeChannel, queueChannel, errors,
                 queue, stop, consumer, event, inQueue, unacked, settled, faults, deleted>>

\* Bug: the bindings are not awaited (forEach in place of Promise.all).
BugBindQueue(w) ==
  /\ stage[w] \in {"binding", "qos", "subscribing", "consuming"}
  /\ QueueBound(w, IF stage[w] = "binding" THEN "qos" ELSE stage[w])

BindQueue(w) ==
  /\ stage[w] = "binding"
  /\ QueueBound(w, IF bound[w] + 1 = Len(RoutingKeys) THEN "qos" ELSE "binding")

\* Bug: the flag is set before the broker confirmed the consumer.
BugRegisterConsumer(w) ==
  /\ conn = "up" /\ stage[w] = "qos"
  /\ messageConsumer' = <<w, wrappers>> /\ isConsuming' = TRUE
  /\ stage' = [stage EXCEPT ![w] = "subscribing"]
  /\ UNCHANGED <<options, conn, broken, errors, queue, stop, local, isReady, broker, faults, deleted>>

\* setMessageConsumer, once the prefetch is set; a later setup replaces it.
RegisterConsumer(w) ==
  /\ conn = "up" /\ stage[w] = "qos"
  /\ messageConsumer' = <<w, wrappers>> /\ isConsuming' = FALSE
  /\ stage' = [stage EXCEPT ![w] = "subscribing"]
  /\ UNCHANGED <<options, conn, broken, errors, queue, stop, local, isReady, broker, faults, deleted>>

ReceiveFor(w) ==
  /\ conn = "up" /\ stage[w] = "subscribing" /\ QueueName(w) \in Queues
  /\ stage' = [stage EXCEPT ![w] = "consuming"]
  /\ isConsuming' = (isConsuming \/ messageConsumer = <<w, wrappers>>)
  /\ isReady' = TRUE
  /\ UNCHANGED <<options, conn, broken, errors, queue, stop, local, messageConsumer, broker,
                 faults, deleted>>

\* The broker refuses what a setup asks, of its own accord or because the
\* queue is gone, and closes the channel.
Refused(w) ==
  /\ conn = "up" /\ stage[w] \in InSetup
  /\ \/ /\ stage[w] \in {"binding", "subscribing"} /\ QueueName(w) \notin Queues
        /\ UNCHANGED faults
     \/ faults < MaxFaults /\ faults' = faults + 1
  /\ CloseChannels({ChannelOf(w)})
  /\ TakeBack(Using({ChannelOf(w)}), AutoDeleted({v \in Using({ChannelOf(w)}) : Consumes(v)}))
  /\ stopping' = IF /\ stopping \in {"cancelling", "closing"}
                    /\ queueChannel[target[1]] = ChannelOf(w)
                   THEN "rejected" ELSE stopping
  /\ UNCHANGED <<options, conn, queue, target, local, consumer, event, settled, deleted>>

\* All that was pending is rejected; an exclusive queue goes with its connection.
ConnectionLost ==
  /\ conn = "up" /\ wrappers < MaxConnects
  /\ conn' = "down"
  /\ CloseChannels(1 .. wrappers)
  /\ TakeBack(Wrappers, QueuesOfConnection)
  /\ stopping' = IF stopping \in {"cancelling", "closing"} THEN "rejected" ELSE stopping
  /\ UNCHANGED <<options, queue, target, local, consumer, event, settled, faults, deleted>>

\* An operator deletes a queue.  Each consumer on the channel of one that is
\* cancelled has registered onConsumerCancelled there, unbound: it throws in an
\* async function.  No flag changes and nobody consumes again.
QueueDeleted(q) ==
  LET cancelled == {w \in Wrappers : Consumes(w) /\ QueueName(w) = q}
      called == {w \in Using({queueChannel[v] : v \in cancelled}) :
                   stage[w] \in {"consuming", "cancelled"}}
  IN  /\ faults < MaxFaults /\ faults' = faults + 1
      /\ deleted' = TRUE
      /\ TakeBack({}, {q})
      /\ stage' = [w \in Wrappers |-> IF w \in cancelled THEN "cancelled" ELSE stage[w]]
      /\ errors' = [w \in Wrappers |-> IF w \in called THEN errors[w] \cup {"unhandled"}
                                                        ELSE errors[w]]
      /\ UNCHANGED <<options, conn, broken, queue, stop, local, consumer, event, settled>>

-----------------------------------------------------------------------------
(* Events, and the end of the listener.                                    *)

\* Another program publishes to the exchange; one event is enough to follow.
Publish(k) ==
  /\ ~ published
  /\ published' = TRUE /\ wasReady' = isReady
  /\ heardIn' = IF \E w \in Wrappers : Consumes(w) THEN wrappers ELSE 0
  /\ inQueue' = {q \in Queues : k \in bindings[q]}
  /\ UNCHANGED <<options, conn, stage, broken, errors, queue, stop, local, consumer,
                 bindings, unacked, settled, faults, deleted>>

\* A consumer is given the event and handles it.
Deliver(w) ==
  /\ Consumes(w) /\ QueueName(w) \in inQueue
  /\ inQueue' = inQueue \ {QueueName(w)}
  /\ unacked' = unacked \cup {w}
  /\ UNCHANGED <<options, conn, stage, broken, errors, queue, stop, local, consumer,
                 bindings, event, settled, faults, deleted>>

\* The handler ends while the channel of the delivery is open: an ack, or a nack
\* that drops the event, or one that puts it back; with autoAck there is none.
Settle(w) ==
  /\ w \in unacked
  /\ unacked' = unacked \ {w}
  /\ \/ settled' = settled + 1 /\ UNCHANGED inQueue
     \/ inQueue' = inQueue \cup {QueueName(w)} /\ UNCHANGED settled
  /\ UNCHANGED <<options, conn, stage, broken, errors, queue, stop, local, consumer,
                 bindings, event, faults, deleted>>

\* The channel of that setup's Queue is open: on any other a call rejects.
IsUsable(s) == conn = "up" /\ s[2] = wrappers /\ queueChannel[s[1]] \notin broken

\* stop() with no consumer yet does nothing; one that consumes is cancelled
\* first, of any other the Queue's channel is closed at once.
Stop ==
  /\ stopping = "no"
  /\ target' = messageConsumer
  /\ stopping' = IF messageConsumer = NoConsumer THEN "ignored"
                 ELSE IF ~ IsUsable(messageConsumer) THEN "rejected"
                 ELSE IF isConsuming THEN "cancelling" ELSE "closing"
  /\ UNCHANGED <<options, conn, stage, broken, errors, queue, local, consumer, broker,
                 faults, deleted>>

\* close() closes the channel of the listener's Queue, if there is one.
Close ==
  /\ stopping = "no"
  /\ target' = queue
  /\ stopping' = IF queue = NoConsumer THEN "ignored"
                 ELSE IF IsUsable(queue) THEN "closing" ELSE "rejected"
  /\ UNCHANGED <<options, conn, stage, broken, errors, queue, local, consumer, broker,
                 faults, deleted>>

StopConsuming ==
  /\ stopping = "cancelling"
  /\ stopping' = "closing"
  /\ stage' = [stage EXCEPT ![target[1]] = IF @ = "consuming" THEN "cancelled" ELSE @]
  /\ TakeBack({}, AutoDeleted({target[1]} \cap {w \in Wrappers : Consumes(w)}))
  /\ UNCHANGED <<options, conn, broken, errors, queue, target, local, consumer, event,
                 settled, faults, deleted>>

\* closeChannel() is answered, and closeConnection() has the manager closed: it
\* does not connect again.
CloseChannel ==
  LET c == queueChannel[target[1]]
  IN  /\ stopping = "closing"
      /\ stopping' = "disconnecting"
      /\ CloseChannels({c})
      /\ TakeBack(Using({c}), AutoDeleted({w \in Using({c}) : Consumes(w)}))
      /\ UNCHANGED <<options, conn, queue, target, local, consumer, event, settled, faults,
                     deleted>>

\* The manager closes every wrapper, which calls onChannelClosed unbound: its
\* this.isOpen is no function.
OnChannelClosed == [w \in Wrappers |-> IF w \in 1 .. wrappers
                                         THEN errors[w] \cup {"unhandled"} ELSE errors[w]]

CloseConnection ==
  /\ stopping = "disconnecting"
  /\ stopping' = "ended" /\ conn' = "closed"
  /\ broken' = 1 .. wrappers
  /\ errors' = OnChannelClosed
  /\ stage' = [w \in Wrappers |-> IF stage[w] \in InSetup \cup {"consuming"} THEN "failed"
                                                                            ELSE stage[w]]
  /\ TakeBack(Wrappers, QueuesOfConnection)
  /\ UNCHANGED <<options, queue, target, local, consumer, event, settled, faults, deleted>>

-----------------------------------------------------------------------------
Setup(w) ==
  \/ ChannelOpened(w) \/ ExchangeDeclared(w) \/ QueueDeclared(w)
  \/ BindQueue(w) \/ RegisterConsumer(w) \/ ReceiveFor(w)
  \/ ChannelRefused(w) \/ Refused(w)

Next ==
  \/ Connect \/ ConnectFailed \/ ConnectionLost
  \/ \E w \in Wrappers : Setup(w) \/ Deliver(w) \/ Settle(w)
  \/ \E q \in Queues : QueueDeleted(q)
  \/ \E k \in Keys : Publish(k)
  \/ Stop \/ Close \/ StopConsuming \/ CloseChannel \/ CloseConnection

Spec == Init /\ [][Next]_vars

\* The manager connects and the broker answers what it is asked.
Fairness ==
  /\ WF_vars(Connect)
  /\ \A w \in Wrappers : WF_vars(Setup(w))
  /\ WF_vars(StopConsuming) /\ WF_vars(CloseChannel) /\ WF_vars(CloseConnection)

FairSpec == Spec /\ Fairness

-----------------------------------------------------------------------------
(* Properties.                                                             *)

\* The queue of a consumer exists and has every binding (queue.ts:350 awaits
\* them together, registerConsumer runs after that), whatever the other setups
\* do meanwhile; but a queue that was deleted under one setup is declared again,
\* bound, by another, and the first consumes from it.
ConsumerIsBound ==
  \A w \in Wrappers : Consumes(w) =>
    /\ QueueName(w) \in Queues
    /\ \/ bindings[QueueName(w)] = Keys
       \/ wrappers > 1 /\ (deleted \/ options.autoDelete)

\* The event waits in a queue, is in the hands of a handler, or was settled.
IsKept == settled > 0 \/ unacked # {} \/ inQueue # {}

\* An event published once the listener said it was ready is not lost: through any
\* number of reconnections, wherever they cut off a handler, if the queue is not
\* exclusive; and if it is, which is the default (exchange-listener.ts:34), as
\* long as the connection lasts in which something consumed by then - the
\* listener goes on saying that it is ready when that is over.  A queue that is
\* auto-deleted, or that an operator deletes, loses what it holds.
ReadyKeepsEvent ==
  ~ options.autoDelete /\ ~ deleted =>
    /\ wasReady /\ ~ options.exclusive => IsKept
    /\ heardIn > 0 /\ heardIn = wrappers /\ conn = "up" => IsKept

\* Every reconnection adds a consumer.  With a fixed queue name they share the
\* queue and there is one copy of the event, which they may handle one after the
\* other when a channel breaks before the ack; with a name made up by the server
\* each has a queue and a copy of its own, so a copy each.
CopiesOnlyWhenFresh ==
  settled + Cardinality(unacked) <= IF options.fresh THEN wrappers ELSE 1

\* isReadyForConsuming() is right about the consumer the listener holds while
\* its connection lasts, but for a deleted queue, a refusal that closed the
\* channel, and a stop.
ReadinessIsTrue ==
  isConsuming /\ conn = "up" /\ messageConsumer[2] = wrappers =>
    \/ Consumes(messageConsumer[1])
    \/ stopping # "no" \/ faults > 0

\* Once connections and operators leave it alone the listener consumes, or it has
\* raised an error since it last connected; a stop() that found no consumer and resolved, or that was
\* rejected, does not keep it from that.
EventuallyConsumes ==
  <>[](\/ \E w \in Wrappers : Consumes(w)
       \/ \E w \in Wrappers : errors[w] # {}
       \/ stopping = "ended")

-----------------------------------------------------------------------------
(* The inductive invariant.                                                *)

PastQueue == {"binding", "qos", "subscribing", "consuming"}

\* The wrappers there are, the channels their setups use and what they reported.
SetupPlaces ==
  \A w \in Wrappers :
    /\ w > wrappers => stage[w] = "none"
    /\ stage[w] \in InSetup \cup {"consuming"} => conn = "up"
    /\ stage[w] \in PastQueue \cup {"queueing"} => queueChannel[w] \in 1 .. wrappers
    /\ stage[w] = "declaring" => exchangeChannel \in 1 .. wrappers
    /\ conn = "up" /\ stage[w] \in {"opening", "declaring", "queueing"} => bound[w] = 0
    /\ conn = "up" /\ stage[w] \in {"opening", "declaring"} => queueChannel[w] = 0

\* The consumer is one of this or of an earlier connection.
ConsumerPlace ==
  messageConsumer[2] <= wrappers /\ (isConsuming => messageConsumer[1] \in Wrappers)

\* A call that waits closes a Queue there was.
TargetPlace == stopping \in {"cancelling", "closing"} => target # NoConsumer

\* A queue is gone under a setup only by an operator, a refusal or a stop, and
\* what it was bound to is lost only when another setup declares it again.
QueueLasts(w) ==
  /\ (\/ stage[w] = "consuming"
      \/ ~ deleted /\ ~ options.autoDelete
      \/ faults = 0 /\ stopping = "no") => QueueName(w) \in Queues
  /\ QueueName(w) \in Queues /\ ~ (wrappers > 1 /\ (deleted \/ options.autoDelete)) =>
       \A i \in 1 .. bound[w] : RoutingKeys[i] \in bindings[QueueName(w)]
  /\ stage[w] # "binding" => bound[w] = Len(RoutingKeys)

QueuesLast == \A w \in Wrappers : stage[w] \in PastQueue => QueueLasts(w)

\* A queue that nothing but an operator deletes.
Lasting == ~ options.exclusive /\ ~ options.autoDelete /\ ~ deleted

EventsLast ==
  /\ heardIn <= wrappers
  /\ wasReady \/ heardIn > 0 => published
  /\ Lasting => /\ isReady => \E q \in Queues : bindings[q] = Keys
                /\ wasReady => IsKept
  /\ ~ options.autoDelete /\ ~ deleted =>
       (heardIn > 0 /\ heardIn = wrappers /\ conn = "up" => IsKept)

\* A delivery is held by a consumer of this connection, from a queue there is.
DeliveriesLast ==
  \A w \in unacked :
    /\ conn = "up" /\ w <= wrappers /\ stage[w] \in {"consuming", "cancelled"}
    /\ QueueName(w) \in Queues

ListenerInv ==
  /\ TypeOK /\ SetupPlaces /\ ConsumerPlace /\ TargetPlace /\ QueuesLast /\ EventsLast
  /\ DeliveriesLast /\ ReadinessIsTrue
=============================================================================
