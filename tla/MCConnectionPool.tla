-------------------------- MODULE MCConnectionPool --------------------------
(* Batches for model-checking ConnectionPool.                              *)
EXTENDS ConnectionPool

CONSTANTS b1, b2

OneBatch == {b1}
TwoBatches == {b1, b2}
=============================================================================
