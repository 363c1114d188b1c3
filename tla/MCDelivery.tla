------------------------------ MODULE MCDelivery ------------------------------
(* Instances of MessageDelivery for TLC. *)
EXTENDS MessageDelivery, TLC

CONSTANTS q1, q2, q3, c1, c2, c3, c4

\* The prefixes of the trackers: a store prefix, then one per listener.
MCPrefix ==
  [q \in Queues |->
     <<"app", CASE q = q1 -> "billing" [] q = q2 -> "mail" [] q = q3 -> "audit">>]

\* An event listener listens to "created" events only.
MCListenTo == [q \in Queues |-> {"created"}]

\* The listener of q1 retries, that of q2 does not, that of q3 auto-acknowledges.
MCIsRetry == [q \in Queues |-> q = q1]
MCAutoAck == [q \in Queues |-> q = q3]

\* Fanout: event e1 reaches q1 and q2, as 1 and 2; two consumers share q1.
FanoutQueueOf == <<q1, q2>>
FanoutServes == (c1 :> q1) @@ (c2 :> q1) @@ (c3 :> q2)
FanoutTypeOf == <<"created", "created">>
FanoutId == << <<"e1">>, <<"e1">> >>

\* Duplicates: event e1 is published twice to q1, with two others between;
\* event e1, and then e3, reach q3, where two consumers auto-acknowledge.
DupQueueOf == <<q1, q1, q1, q1, q3, q3, q3>>
DupServes == (c1 :> q1) @@ (c3 :> q3) @@ (c4 :> q3)
DupTypeOf == <<"created", "created", "renamed", "created", "created", "created", "created">>
DupId == << <<"e1">>, <<"e2">>, <<"e4">>, <<"e1">>, <<"e1">>, <<"e2">>, <<"e3">> >>

\* Mixed: two messages in q1 for two consumers; another, and one of a type that
\* is not listened to, in q2.
MixedQueueOf == <<q1, q1, q2, q2>>
MixedServes == (c1 :> q1) @@ (c2 :> q1) @@ (c3 :> q2)
MixedTypeOf == <<"created", "created", "renamed", "created">>
MixedId == << <<"e1">>, <<"e2">>, <<"e3">>, <<"e1">> >>
=============================================================================
