---------------------------- MODULE MCPublisher ----------------------------
(* Destinations for model-checking Publisher.                              *)
EXTENDS Publisher

CONSTANTS c1, c2, queue, rpc, topic, untyped

\* An asserted queue, RPC without assertion, an asserted topic, a destination without a type.
Some == {queue, rpc, topic, untyped}
SomeTransport == [d \in Some |-> IF d = topic THEN "kafka" ELSE "rabbitmq"]
SomePartition == [d \in Some |-> IF d = topic THEN 1 ELSE 0]
Itself == [d \in Destinations |-> d]
=============================================================================
