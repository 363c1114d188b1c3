--------------------------- MODULE MessageDelivery ---------------------------
(***************************************************************************)
(* The consuming half of src/ports/pubsub/rabbitmq: what happens to the    *)
(* messages of the listeners' queues once the queues are declared.         *)
(*                                                                         *)
(* A consumer is one registration made by ExchangeListener.registerConsumer*)
(* - a MessageConsumer object together with the channel it consumes on.    *)
(* For every delivery MessageConsumer.handleDelivery captures that channel,*)
(* then awaits ExchangeListener.idempotentHandleDispatch, which asks the   *)
(* tracker whether the message id was handled, runs the application's      *)
(* filteredDispatch and marks the id.  Every await is a point where other  *)
(* handlers, the broker and the network move: the handler's position is    *)
(* stage[c][m] and each continuation is an action.                         *)
(*                                                                         *)
(* RabbitMQ, Redis and the network are external: they are modelled by what *)
(* the code sees of them.  A message that the broker still holds is a      *)
(* number, and a queue is ordered by these numbers; a message published    *)
(* later is one whose delivery has not happened yet.  A settlement or a    *)
(* request that is lost on the wire is the connection breaking just before *)
(* it is sent.                                                             *)
(*                                                                         *)
(* The queues are not exclusive (a listener overrides queueExclusive,      *)
(* exchange-listener.ts:34): only then does a queue, with the messages in  *)
(* it, outlive the connection of its consumer.  An exclusive queue is      *)
(* deleted with its connection; ListenerSetup models that.                 *)
(*                                                                         *)
(* The definitions called Bug... are not part of the model: each is a      *)
(* plausible mistake in the code of the definition that follows it, and is *)
(* there to show which property notices it.                                *)
(***************************************************************************)
EXTENDS Integers, FiniteSets, Sequences

CONSTANTS
  Messages,   \* the messages put in the queues, numbered in queue order
  Queues,     \* the queues; each belongs to one listener (a subclass)
  Consumers,  \* registrations that exist at the same time
  QueueOf,    \* the queue a message (a copy, for a fanout) was routed to
  Serves,     \* the queue a consumer consumes
  TypeOf,     \* properties.type of a message
  MessageId,  \* properties.messageId, as the sequence of its ':' segments
  ListenTo,   \* listenTo() of the listener of a queue; empty means any type
  Prefix,     \* the segments of the prefixes of a listener's tracker
  AutoAck,    \* autoAck of the listener of a queue
  IsRetry,    \* isRetry of the listener of a queue
  Faults,     \* the kinds of failure that may happen
  MaxFaults   \* bound: how many failures happen in a behaviour

FaultKinds ==
  {"connection", "channel", "crash", "stop", "check", "dispatch", "mark"}

ASSUME DeliveryAssumption ==
  /\ Messages \subseteq Nat /\ IsFiniteSet(Messages)
  /\ QueueOf \in [Messages -> Queues]
  /\ Serves \in [Consumers -> Queues]
  /\ MessageId \in [Messages -> Seq(STRING)]
  /\ Prefix \in [Queues -> Seq(STRING)]
  /\ Consumers \cap {"ready", "acked", "dropped"} = {}
  /\ AutoAck \in [Queues -> BOOLEAN] /\ IsRetry \in [Queues -> BOOLEAN]
  /\ Faults \subseteq FaultKinds
  /\ MaxFaults \in Nat

VARIABLES
  loc,      \* where a message is: ready, acked, dropped, or unacked at a consumer
  chan,     \* state of a consumer's channel
  stage,    \* where the handler a consumer runs for a message is
  handled,  \* the keys the tracker's store maps to 'true'
  effects,  \* history: how often a listener's dispatch took effect for an id
  faults    \* how many failures have happened

vars == <<loc, chan, stage, handled, effects, faults>>

Ids == {MessageId[m] : m \in Messages}

ChanState == {"off", "open", "cancelling", "closing", "broken", "stopped"}
Stage == {"idle", "checking", "dispatching", "marking", "acking"}

TypeOK ==
  /\ loc \in [Messages -> {"ready", "acked", "dropped"} \cup Consumers]
  /\ chan \in [Consumers -> ChanState]
  /\ stage \in [Consumers -> [Messages -> Stage]]
  /\ handled \subseteq Seq(STRING)
  /\ effects \in [Queues -> [Ids -> Nat]]
  /\ faults \in 0 .. MaxFaults

Init ==
  /\ loc = [m \in Messages |-> "ready"]
  /\ chan = [c \in Consumers |-> "off"]
  /\ stage = [c \in Consumers |-> [m \in Messages |-> "idle"]]
  /\ handled = {}
  /\ effects = [q \in Queues |-> [i \in Ids |-> 0]]
  /\ faults = 0

-----------------------------------------------------------------------------
(* What the code computes.                                                 *)

BugPrefetch == 2

PrefetchCount == 1

\* An empty list of types accepts everything, a message without a type included.
IsTargetMessageType(m) ==
  LET types == ListenTo[QueueOf[m]] IN types = {} \/ TypeOf[m] \in types

\* Bug: the key is used without its prefixes.
BugKeyWithPrefix(q, id) == id

\* `prefix:key`, or the key alone under an empty prefix: segments are appended.
KeyWithPrefix(q, id) == Prefix[q] \o id

\* A channel on which a frame can still be sent; on another, ack and nack throw.
ChannelIsUsable(c) == chan[c] \in {"open", "cancelling"}

\* The broker is told whatever autoAck says.
BugSettle(c, m, outcome) ==
  loc' = IF ChannelIsUsable(c) THEN [loc EXCEPT ![m] = outcome] ELSE loc

\* ack and nak tell the broker only when the consumer does not auto-acknowledge;
\* what they throw on a closed channel ends up in nak's catch, which logs it.
Settle(c, m, outcome) ==
  loc' = IF ChannelIsUsable(c) /\ ~AutoAck[QueueOf[m]]
           THEN [loc EXCEPT ![m] = outcome] ELSE loc

Ack(c, m) == Settle(c, m, "acked")
\* nack without a look at isRetry; no nack at all.
BugNakDrops(c, m) == Settle(c, m, "dropped")
BugNakForgets(c, m) == UNCHANGED loc
Nak(c, m) == Settle(c, m, IF IsRetry[QueueOf[m]] THEN "ready" ELSE "dropped")

Goto(c, m, s) == stage' = [stage EXCEPT ![c][m] = s]

Idle(c) == \A m \in Messages : stage[c][m] = "idle"

\* The broker's side: what it has sent on a consumer's channel and not seen
\* settled, its next message of a queue, and what it does when the channel dies.
Unacked(c) == {m \in Messages : loc[m] = c}

IsHead(m) ==
  /\ loc[m] = "ready"
  /\ \A n \in Messages : QueueOf[n] = QueueOf[m] /\ loc[n] = "ready" => m <= n

Requeue(c) == loc' = [m \in Messages |-> IF loc[m] = c THEN "ready" ELSE loc[m]]

Fault(kind) == kind \in Faults /\ faults < MaxFaults /\ faults' = faults + 1

TakesEffect(q, id) == effects' = [effects EXCEPT ![q][id] = @ + 1]

-----------------------------------------------------------------------------
(* The listener and its handlers.                                          *)

\* The handlers in flight use the channel of the new registration.
BugRegister(c) ==
  /\ chan[c] = "off"
  /\ chan' = [chan EXCEPT ![c] = "open"]
  /\ UNCHANGED <<loc, stage, handled, effects, faults>>

\* registerConsumer: prefetch, then consume.  A reconnection makes another
\* MessageConsumer on a new channel; a name of Consumers is used for it again
\* once the handlers of the one it stood for are over.
Register(c) ==
  /\ chan[c] = "off" /\ Idle(c)
  /\ chan' = [chan EXCEPT ![c] = "open"]
  /\ UNCHANGED <<loc, stage, handled, effects, faults>>

\* Every message is acknowledged as soon as it is delivered.
BugDeliver(c, m) ==
  /\ ChannelIsUsable(c)
  /\ Serves[c] = QueueOf[m] /\ IsHead(m)
  /\ loc' = [loc EXCEPT ![m] = "acked"]
  /\ IF IsTargetMessageType(m) THEN Goto(c, m, "checking") ELSE UNCHANGED stage
  /\ UNCHANGED <<chan, handled, effects, faults>>

\* handleDelivery up to its first await: a message of another type is
\* acknowledged at once, any other is looked up in the tracker.
Deliver(c, m) ==
  /\ ChannelIsUsable(c)
  /\ Serves[c] = QueueOf[m] /\ IsHead(m)
  /\ Cardinality(Unacked(c)) < PrefetchCount
  /\ IF IsTargetMessageType(m)
       THEN /\ loc' = [loc EXCEPT ![m] = c]
            /\ Goto(c, m, "checking")
       ELSE /\ loc' = [loc EXCEPT ![m] = IF AutoAck[QueueOf[m]] THEN c ELSE "acked"]
            /\ UNCHANGED stage
  /\ UNCHANGED <<chan, handled, effects, faults>>

\* checkIfNotifHandled answers true: nothing to do but acknowledge.
CheckFound(c, m) ==
  /\ stage[c][m] = "checking"
  /\ KeyWithPrefix(Serves[c], MessageId[m]) \in handled
  /\ Goto(c, m, "acking")
  /\ UNCHANGED <<loc, chan, handled, effects, faults>>

\* The answer of the tracker is ignored; the id is marked before the dispatch.
BugCheckIgnored(c, m) ==
  /\ stage[c][m] = "checking"
  /\ Goto(c, m, "dispatching")
  /\ UNCHANGED <<loc, chan, handled, effects, faults>>

BugMarkFirst(c, m) ==
  /\ stage[c][m] = "checking"
  /\ KeyWithPrefix(Serves[c], MessageId[m]) \notin handled
  /\ handled' = handled \cup {KeyWithPrefix(Serves[c], MessageId[m])}
  /\ Goto(c, m, "dispatching")
  /\ UNCHANGED <<loc, chan, effects, faults>>

\* checkIfNotifHandled answers false: filteredDispatch is called.
CheckMissing(c, m) ==
  /\ stage[c][m] = "checking"
  /\ KeyWithPrefix(Serves[c], MessageId[m]) \notin handled
  /\ Goto(c, m, "dispatching")
  /\ UNCHANGED <<loc, chan, handled, effects, faults>>

\* The store rejects the lookup: handleDeliveryException.
CheckFail(c, m) ==
  /\ stage[c][m] = "checking" /\ Fault("check")
  /\ Goto(c, m, "idle") /\ Nak(c, m)
  /\ UNCHANGED <<chan, handled, effects>>

\* A dispatched message goes back to the queue.
BugDispatchNaks(c, m) ==
  /\ stage[c][m] = "dispatching"
  /\ TakesEffect(Serves[c], MessageId[m])
  /\ Goto(c, m, "idle") /\ Nak(c, m)
  /\ UNCHANGED <<chan, handled, faults>>

\* filteredDispatch resolves: markNotifAsHandled is called.
DispatchOk(c, m) ==
  /\ stage[c][m] = "dispatching"
  /\ TakesEffect(Serves[c], MessageId[m])
  /\ Goto(c, m, "marking")
  /\ UNCHANGED <<loc, chan, handled, faults>>

\* The exception of a dispatch is swallowed.
BugDispatchFail(c, m) ==
  /\ stage[c][m] = "dispatching" /\ Fault("dispatch")
  /\ Goto(c, m, "idle") /\ Ack(c, m)
  /\ UNCHANGED <<chan, handled, effects>>

\* filteredDispatch rejects, before or after it took effect.
DispatchFail(c, m) ==
  /\ stage[c][m] = "dispatching" /\ Fault("dispatch")
  /\ TakesEffect(Serves[c], MessageId[m]) \/ UNCHANGED effects
  /\ Goto(c, m, "idle") /\ Nak(c, m)
  /\ UNCHANGED <<chan, handled>>

\* The id is marked without the prefixes it is looked up with.
BugMarkKey(c, m) ==
  /\ stage[c][m] = "marking"
  /\ handled' = handled \cup {MessageId[m]}
  /\ Goto(c, m, "acking")
  /\ UNCHANGED <<loc, chan, effects, faults>>

\* The store sets the key to 'true', without an expiry.
MarkStored(c, m) ==
  /\ stage[c][m] = "marking"
  /\ handled' = handled \cup {KeyWithPrefix(Serves[c], MessageId[m])}
  /\ Goto(c, m, "acking")
  /\ UNCHANGED <<loc, chan, effects, faults>>

\* markNotifAsHandled rejects, before or after the store changed.
MarkFail(c, m) ==
  /\ stage[c][m] = "marking" /\ Fault("mark")
  /\ handled' \in {handled, handled \cup {KeyWithPrefix(Serves[c], MessageId[m])}}
  /\ Goto(c, m, "idle") /\ Nak(c, m)
  /\ UNCHANGED <<chan, effects>>

\* handleMessage has resolved: ack on the channel captured at the delivery.
Acknowledge(c, m) ==
  /\ stage[c][m] = "acking"
  /\ Goto(c, m, "idle") /\ Ack(c, m)
  /\ UNCHANGED <<chan, handled, effects, faults>>

-----------------------------------------------------------------------------
(* Shutting down and failing.                                              *)

\* stop() of the listener: MessageConsumer.close sends basic.cancel.
\* Handlers in flight are not waited for.
Stop(c) ==
  /\ chan[c] = "open" /\ Fault("stop")
  /\ chan' = [chan EXCEPT ![c] = "cancelling"]
  /\ UNCHANGED <<loc, stage, handled, effects>>

\* cancel-ok resolves stopConsuming's await, and queue.close() awaits the
\* closing of the channel: from now on ack and nack throw on it.
CancelOk(c) ==
  /\ chan[c] = "cancelling"
  /\ chan' = [chan EXCEPT ![c] = "closing"]
  /\ UNCHANGED <<loc, stage, handled, effects, faults>>

\* close-ok: the broker has taken back what was not settled, and the connection
\* manager is closed, which does not connect again.
CloseOk(c) ==
  /\ chan[c] = "closing"
  /\ chan' = [chan EXCEPT ![c] = "stopped"]
  /\ Requeue(c)
  /\ UNCHANGED <<stage, handled, effects, faults>>

\* The connection breaks.  Handlers go on, on a closed channel; a pending
\* cancel or close rejects, so the manager is not closed and reconnects as it
\* does for a listener nobody stopped.
ConnectionLoss(c) ==
  /\ chan[c] \in {"open", "cancelling", "closing", "broken"} /\ Fault("connection")
  /\ chan' = [chan EXCEPT ![c] = "off"]
  /\ Requeue(c)
  /\ UNCHANGED <<stage, handled, effects>>

\* The broker closes the channel alone (a consumer timeout, for one): the
\* channel comes back with the next connection only.
ChannelError(c) ==
  /\ ChannelIsUsable(c) /\ Fault("channel")
  /\ chan' = [chan EXCEPT ![c] = "broken"]
  /\ Requeue(c)
  /\ UNCHANGED <<stage, handled, effects>>

\* The process ends and is started again: its handlers are gone.
Crash(c) ==
  /\ chan[c] # "off" \/ ~Idle(c)
  /\ Fault("crash")
  /\ chan' = [chan EXCEPT ![c] = "off"]
  /\ stage' = [stage EXCEPT ![c] = [m \in Messages |-> "idle"]]
  /\ Requeue(c)
  /\ UNCHANGED <<handled, effects>>

-----------------------------------------------------------------------------
Handler(c, m) ==
  \/ CheckFound(c, m) \/ CheckMissing(c, m) \/ DispatchOk(c, m)
  \/ MarkStored(c, m) \/ Acknowledge(c, m)

HandlerFails(c, m) == CheckFail(c, m) \/ DispatchFail(c, m) \/ MarkFail(c, m)

Environment(c) ==
  Stop(c) \/ ConnectionLoss(c) \/ ChannelError(c) \/ Crash(c)

Next ==
  \E c \in Consumers :
    \/ Register(c) \/ CancelOk(c) \/ CloseOk(c) \/ Environment(c)
    \/ \E m \in Messages : Deliver(c, m) \/ Handler(c, m) \/ HandlerFails(c, m)

Spec == Init /\ [][Next]_vars

\* The broker delivers to a consumer it may deliver to, every promise of a
\* handler settles, and the connection manager keeps reconnecting.  Failures
\* are never forced.
Fairness ==
  \A c \in Consumers :
    /\ WF_vars(Register(c)) /\ WF_vars(CancelOk(c)) /\ WF_vars(CloseOk(c))
    /\ WF_vars(\E m \in Messages : Deliver(c, m))
    /\ \A m \in Messages : WF_vars(Handler(c, m))

FairSpec == Spec /\ Fairness

-----------------------------------------------------------------------------
(* Properties.                                                             *)

KeyOf(m) == KeyWithPrefix(QueueOf[m], MessageId[m])

EffectsOf(m) == effects[QueueOf[m]][MessageId[m]]

Settled(m) == loc[m] \in {"acked", "dropped"}

\* With its prefixes no id stands for two listeners or for two ids.
PrivateKeys ==
  \A m, n \in Messages :
    Prefix[QueueOf[m]] \o MessageId[m] = Prefix[QueueOf[n]] \o MessageId[n]
      => QueueOf[m] = QueueOf[n] /\ MessageId[m] = MessageId[n]

\* Within a queue either ids are not repeated or a single consumer works.
NoConcurrentDuplicates ==
  \A q \in Queues :
    \/ Cardinality({c \in Consumers : Serves[c] = q}) <= 1
    \/ \A m, n \in Messages :
         QueueOf[m] = q /\ QueueOf[n] = q /\ MessageId[m] = MessageId[n] => m = n

\* Every channel lives as long as its handlers.
ChannelsLast == Faults \cap {"connection", "channel", "crash", "stop"} = {}

\* A message of a type the listener listens to leaves the queue by an ack only
\* after its id was marked in the tracker, whatever fails in between
\* (handleDelivery acks after handleMessage resolves).
AckedWasHandled ==
  \A m \in Messages :
    loc[m] = "acked" /\ IsTargetMessageType(m) => KeyOf(m) \in handled

\* When the prefixes keep listeners apart, an acknowledged message took effect at the listener of
\* its own queue: the tracker never makes one listener skip an event because
\* another listener handled it.
NoEventSwallowed ==
  PrivateKeys =>
    \A m \in Messages :
      loc[m] = "acked" /\ IsTargetMessageType(m)
        => EffectsOf(m) >= 1

\* A handler whose channel can still be used holds its message: what it will
\* ack or nack is what the broker has outstanding for it, although handlers of
\* earlier channels are still running.
HandlerHoldsMessage ==
  \A c \in Consumers, m \in Messages :
    stage[c][m] # "idle" /\ ChannelIsUsable(c) => loc[m] = c

\* Each failure repeats the effect of an event at most once: the check, the
\* mark and the prefetch of one leave no other way to run a dispatch twice.
AtMostOncePerFault ==
  NoConcurrentDuplicates =>
    \A q \in Queues, i \in Ids : effects[q][i] <= 1 + faults

\* While channels last, a queue with one consumer is handled one message at a
\* time in queue order, redeliveries included.
InOrder ==
  ChannelsLast =>
    \A c \in Consumers, m \in Messages :
      /\ stage[c][m] # "idle"
      /\ \A d \in Consumers : Serves[d] = Serves[c] => d = c
      => \A n \in Messages : QueueOf[n] = QueueOf[m] /\ n < m => Settled(n)

\* While channels last, a dispatch never takes effect for an id that is marked.
NoEffectOnceHandled ==
  [][ ChannelsLast /\ NoConcurrentDuplicates /\ PrivateKeys =>
        \A m \in Messages :
          KeyOf(m) \in handled
            => EffectsOf(m)' = EffectsOf(m) ]_vars

\* Nobody consumes the queue: each of its consumers was stopped, or has a
\* channel that the broker closed alone, and nothing opens that one again while
\* the connection lasts (broker-component.ts:100, onChannelClosed is unbound).
Abandoned(q) ==
  \A c \in Consumers : Serves[c] = q => chan[c] \in {"broken", "stopped"}

\* A listener with isRetry and without autoAck handles every event in the end,
\* once failures stop, unless its queue, which is not exclusive, has been
\* abandoned for good; a consumer that is left is enough.
EventuallyHandled ==
  \A m \in Messages :
    IsRetry[QueueOf[m]] /\ ~AutoAck[QueueOf[m]] /\ IsTargetMessageType(m)
      => <>(KeyOf(m) \in handled) \/ <>[]Abandoned(QueueOf[m])

\* Without autoAck nothing stays in a queue that is not abandoned for good: all
\* is acked or, without isRetry, dropped.
EventuallySettled ==
  \A m \in Messages :
    ~AutoAck[QueueOf[m]] => <>[]Settled(m) \/ <>[]Abandoned(QueueOf[m])

\* With autoAck, consume still asks for acknowledgements that nobody sends:
\* nothing leaves the queue for good, and a consumer holds on to one message
\* for as long as its channel lasts and gets no other.
AutoAckStalls ==
  \A q \in Queues :
    AutoAck[q] =>
      Cardinality({m \in Messages : QueueOf[m] = q /\ loc[m] # "ready"})
        <= Cardinality({c \in Consumers : Serves[c] = q})

\* The strengthening of the safety invariants that every step preserves.
HandlersAreListeners ==
  \A c \in Consumers, m \in Messages :
    stage[c][m] # "idle" => Serves[c] = QueueOf[m] /\ IsTargetMessageType(m)

AckingIsHandled ==
  \A c \in Consumers, m \in Messages : stage[c][m] = "acking" => KeyOf(m) \in handled

MarkingHadEffect ==
  \A c \in Consumers, m \in Messages :
    stage[c][m] = "marking" => EffectsOf(m) >= 1

HandledHadEffect ==
  PrivateKeys =>
    \A m \in Messages : KeyOf(m) \in handled => EffectsOf(m) >= 1

DeliveryInv ==
  /\ TypeOK
  /\ HandlersAreListeners
  /\ HandlerHoldsMessage
  /\ AckingIsHandled
  /\ AckedWasHandled
  /\ MarkingHadEffect
  /\ HandledHadEffect

\* The listeners implement EventHandling: a message is complete when it is
\* acked, lost when it is dropped, and pending whoever holds it.
Outcome ==
  [m \in Messages |-> CASE loc[m] = "acked" -> "complete"
                        [] loc[m] = "dropped" -> "lost"
                        [] OTHER -> "pending"]

Abstract == INSTANCE EventHandling WITH
  Listeners <- Queues, ListenerOf <- QueueOf, IdOf <- MessageId,
  Listened <- {m \in Messages : IsTargetMessageType(m)},
  MayLose <- {q \in Queues : ~IsRetry[q]}, outcome <- Outcome

\* Settled messages stay settled, and each was handled by its own listener
\* before: what the tracker, the acks and the nacks together promise about
\* queues that are not exclusive.
ImplementsEventHandling == Abstract!HandlingSpec

\* message-listener.ts: an exception other than a MessageException (the store's
\* errors are) leaves the message rejected, not requeued.
OtherExceptionsReject ==
  [][ \A c \in Consumers, m \in Messages :
        CheckFail(c, m) /\ ChannelIsUsable(c) => loc'[m] = "dropped" ]_vars

\* message-consumer.ts: close() shuts the connection down.
CloseShutsDown ==
  \A c \in Consumers : chan[c] = "cancelling" ~> chan[c] = "stopped"
=============================================================================
