----------------------------- MODULE RateLimiter -----------------------------
(***************************************************************************)
(* TokenBucketRateLimiter of backend/services/queue_base.py: the limiter   *)
(* that the ingestion workers of one process share before each embedding   *)
(* call.  The section under the thread lock is one action, the sleep       *)
(* outside it is not.                                                      *)
(***************************************************************************)
EXTENDS TokenBucket

CONSTANT Callers  \* embedding batches, each one call of acquire

VARIABLES
  tokens,  \* _tokens
  idle,    \* ticks since _last_refill
  pc,      \* where each caller is
  sleep,   \* the ticks a caller still has to sleep
  budget   \* what a bucket refilled at every tick would hold

vars == <<tokens, idle, pc, sleep, budget>>

Init ==
  /\ tokens = Capacity
  /\ idle = 0
  /\ pc = [c \in Callers |-> "new"]
  /\ sleep = [c \in Callers |-> 0]
  /\ budget = Capacity

\* Slip: the time since the last refill is read after it was reset.
RefilledLate == tokens

\* What the bucket holds now.
Refilled == Least(Capacity, tokens + idle * Rate)

\* A call of acquire begins.
Call(c) ==
  /\ pc[c] = "new"
  /\ pc' = [pc EXCEPT ![c] = "try"]
  /\ UNCHANGED <<tokens, idle, sleep, budget>>

\* Slip: _last_refill is only moved when a token is taken.
AttemptWithoutMark(c) ==
  /\ pc[c] = "try"
  /\ IF Refilled >= Token
     THEN /\ tokens' = Refilled - Token
          /\ idle' = 0
          /\ budget' = budget - Token
          /\ pc' = [pc EXCEPT ![c] = "done"]
          /\ UNCHANGED sleep
     ELSE /\ tokens' = Refilled
          /\ UNCHANGED <<idle, budget>>
          /\ pc' = [pc EXCEPT ![c] = "sleep"]
          /\ sleep' = [sleep EXCEPT ![c] = CeilDiv(Token - Refilled, Rate)]

\* One turn of the loop, under the lock: refill, then take a token or work out
\* how long to sleep.
Attempt(c) ==
  /\ pc[c] = "try"
  /\ idle' = 0
  /\ IF Refilled >= Token
     THEN /\ tokens' = Refilled - Token
          /\ budget' = budget - Token
          /\ pc' = [pc EXCEPT ![c] = "done"]
          /\ UNCHANGED sleep
     ELSE /\ tokens' = Refilled
          /\ UNCHANGED budget
          /\ pc' = [pc EXCEPT ![c] = "sleep"]
          /\ sleep' = [sleep EXCEPT ![c] = CeilDiv(Token - Refilled, Rate)]

\* The sleep is over, some time after it was due.
Wake(c) ==
  /\ pc[c] = "sleep" /\ sleep[c] = 0
  /\ pc' = [pc EXCEPT ![c] = "try"]
  /\ UNCHANGED <<tokens, idle, sleep, budget>>

\* Time passes.  Once the bucket is full, longer idle times are not told apart.
Tick ==
  /\ idle' = IF tokens + idle * Rate < Capacity THEN idle + 1 ELSE idle
  /\ sleep' = [c \in Callers |-> IF sleep[c] = 0 THEN 0 ELSE sleep[c] - 1]
  /\ budget' = Least(Capacity, budget + Rate)
  /\ UNCHANGED <<tokens, pc>>

Caller(c) == Call(c) \/ Attempt(c) \/ Wake(c)

Next == Tick \/ \E c \in Callers : Caller(c)

Spec == Init /\ [][Next]_vars

\* Time passes, and a caller that may go on does.
FairSpec == Spec /\ WF_vars(Tick) /\ \A c \in Callers : WF_vars(Attempt(c) \/ Wake(c))

-----------------------------------------------------------------------------
TypeOK ==
  /\ tokens \in 0 .. Capacity
  /\ idle \in Nat
  /\ pc \in [Callers -> {"new", "try", "sleep", "done"}]
  /\ sleep \in [Callers -> Nat]
  /\ budget \in Int /\ budget <= Capacity

\* In any stretch of n ticks at most Capacity + n * Rate units are handed out,
\* whatever the order in which callers find the lock, sleep and wake: a bucket
\* refilled at every tick never runs into debt.
RateKept == budget >= 0

\* Every embedding batch that asks for a token gets one in the end: none goes on
\* waiting for the lock or sleeping for ever.
EveryBatchGoesOn == <>[](\A c \in Callers : pc[c] \notin {"try", "sleep"})
=============================================================================
