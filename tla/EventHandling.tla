---------------------------- MODULE EventHandling ----------------------------
(***************************************************************************)
(* What a set of exchange listeners promises about the events put in their *)
(* queues, with no broker, channel, tracker or handler in sight: an event  *)
(* is complete only after its listener's dispatch took effect for it, and  *)
(* only a listener without retry may lose one.  MessageDelivery implements *)
(* this specification.                                                     *)
(***************************************************************************)
EXTENDS Integers

CONSTANTS
  Messages,    \* the copies of events in the queues
  Listeners,   \* one per queue
  ListenerOf,  \* the listener whose queue a message is in
  IdOf,        \* the id of the event a message carries
  Listened,    \* the messages of a type their listener listens to
  MayLose      \* the listeners whose failed messages are not requeued

VARIABLES
  outcome,     \* pending, complete or lost
  effects      \* how often a listener's dispatch took effect for an id

EventIds == {IdOf[m] : m \in Messages}

HandlingInit ==
  /\ outcome = [m \in Messages |-> "pending"]
  /\ effects = [l \in Listeners |-> [i \in EventIds |-> 0]]

\* The listener's dispatch takes effect, for the first time or again.
Repeat(m) ==
  effects' = [effects EXCEPT ![ListenerOf[m]][IdOf[m]] = @ + 1]

Handle(m) == m \in Listened /\ Repeat(m) /\ UNCHANGED outcome

\* The message leaves the queue for good, its event handled.
Complete(m) ==
  /\ outcome[m] = "pending"
  /\ m \in Listened => effects[ListenerOf[m]][IdOf[m]] >= 1
  /\ outcome' = [outcome EXCEPT ![m] = "complete"]
  /\ UNCHANGED effects

\* The message leaves the queue for good after a failure, which may come
\* after the dispatch did its work.
Lose(m) ==
  /\ ListenerOf[m] \in MayLose /\ m \in Listened
  /\ outcome[m] = "pending"
  /\ outcome' = [outcome EXCEPT ![m] = "lost"]
  /\ Repeat(m) \/ UNCHANGED effects

HandlingNext == \E m \in Messages : Handle(m) \/ Complete(m) \/ Lose(m)

HandlingSpec == HandlingInit /\ [][HandlingNext]_<<outcome, effects>>
=============================================================================
