------------------------------- MODULE MCListener -------------------------------
(* Instances of ListenerSetup for TLC. *)
EXTENDS ListenerSetup, TLC

Keys2 == <<"k1", "k2">>

\* The default of ExchangeListener, a queue that stays, one that is deleted when
\* unused, and one the server names.
Listeners == {
  [exclusive |-> TRUE, autoDelete |-> FALSE, fresh |-> FALSE],
  [exclusive |-> FALSE, autoDelete |-> FALSE, fresh |-> FALSE],
  [exclusive |-> FALSE, autoDelete |-> TRUE, fresh |-> FALSE],
  [exclusive |-> FALSE, autoDelete |-> FALSE, fresh |-> TRUE]}
=============================================================================
