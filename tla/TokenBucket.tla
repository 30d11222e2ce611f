----------------------------- MODULE TokenBucket -----------------------------
(***************************************************************************)
(* The units of TokenBucketRateLimiter (backend/services/queue_base.py):   *)
(* time in ticks, tokens in integer units, so that a fractional            *)
(* QUEUE_EMBEDDING_RPS is exact, and the arithmetic on them.               *)
(***************************************************************************)
EXTENDS Integers

CONSTANTS
  Token,    \* units in one token
  Rate,     \* units refilled per tick (QUEUE_EMBEDDING_RPS)
  Capacity  \* units the bucket holds: the same QUEUE_EMBEDDING_RPS

ASSUME UnitsAssumption ==
  Token \in Nat \ {0} /\ Rate \in Nat \ {0} /\ Capacity \in Nat \ {0}

Least(a, b) == IF a <= b THEN a ELSE b
CeilDiv(a, b) == (a + b - 1) \div b
=============================================================================
