--------------------------- MODULE MCTestConsumer ---------------------------
(***************************************************************************)
(* Two handlers that read queues of the same exchange and a Kafka topic,   *)
(* for model-checking TestConsumer.                                        *)
(***************************************************************************)
EXTENDS TestConsumer, TLC

CONSTANTS h1, h2, t1, exchange, queue, topic, r1

MCCountersOf == (h1 :> {h1, exchange}) @@ (h2 :> {h2, exchange, queue}) @@ (t1 :> {t1, topic})
=============================================================================
