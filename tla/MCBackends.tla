------------------------------ MODULE MCBackends ------------------------------
(***************************************************************************)
(* What has to go on, in one state space: the in-memory queue with its     *)
(* process ("memory"), ingestion with the Redis queue ("redis"), and the   *)
(* rate limiter before the embedding calls ("limiter").  A behaviour       *)
(* belongs to the part it starts in; the two queues take the same uploads. *)
(***************************************************************************)
EXTENDS MemoryQueue, TokenBucket

CONSTANT Callers

VARIABLES
  part,
  redisRow, content, artifact, redisQueue, redisDlq, sent, redisRpc, target,
  redisWpc, redisJob, bytes, dpc, victim,
  tokens, idle, pc, sleep, budget

redisVars == <<redisRow, content, artifact, redisQueue, redisDlq, sent,
               redisRpc, target, redisWpc, redisJob, bytes, dpc, victim>>
limiterVars == <<tokens, idle, pc, sleep, budget>>
mcvars == <<part, vars, redisVars, limiterVars>>

Redis == INSTANCE IngestionProperties WITH
  Creates <- Uploads \ Replaces, Deletes <- {}, Faults <- {"enqueue"},
  row <- redisRow, queue <- redisQueue, dlq <- redisDlq,
  rpc <- redisRpc, wpc <- redisWpc, job <- redisJob

Limiter == INSTANCE RateLimiter

MCInit ==
  /\ part \in {"memory", "redis", "limiter"}
  /\ Init /\ Redis!Init /\ Limiter!Init

MCNext ==
  /\ \/ part = "memory" /\ Next /\ UNCHANGED <<redisVars, limiterVars>>
     \/ part = "redis" /\ Redis!Next /\ UNCHANGED <<vars, limiterVars>>
     \/ part = "limiter" /\ Limiter!Next /\ UNCHANGED <<vars, redisVars>>
  /\ UNCHANGED part

\* The fairness of each part's own FairSpec, in that part.
MemoryFairness ==
  /\ \A u \in Uploads : WF_vars(part = "memory" /\ rpc[u] # "new" /\ Handler(u))
  /\ \A w \in Workers : WF_vars(part = "memory" /\ Worker(w))
  /\ WF_vars(/\ part = "memory"
             /\ \/ Boot \/ FailStaleDocuments \/ FailStaleReplacements
                \/ StartQueue \/ Exit)

RedisFairness ==
  /\ \A u \in Uploads :
       WF_redisVars(part = "redis" /\ redisRpc[u] # "new" /\ Redis!Handler(u))
  /\ \A w \in Workers :
       /\ WF_redisVars(part = "redis" /\ Redis!Worker(w))
       /\ WF_redisVars(part = "redis" /\ Redis!LeaveEmbedding(w))

LimiterFairness ==
  /\ WF_limiterVars(part = "limiter" /\ Limiter!Tick)
  /\ \A c \in Callers :
       WF_limiterVars(part = "limiter" /\ (Limiter!Attempt(c) \/ Limiter!Wake(c)))

MCSpec ==
  /\ MCInit /\ [][MCNext]_mcvars
  /\ MemoryFairness /\ RedisFairness /\ LimiterFairness

-----------------------------------------------------------------------------
\* Every job that reached the Redis queue is reported.
EveryJobReported == part = "redis" => Redis!EveryJobReported

\* No replacement marker is left behind, with the Redis queue.
ClaimsReleased == part = "redis" => Redis!ClaimsReleased

\* The limiter never hands out more than its rate.
RateKept == Limiter!RateKept

\* Every embedding batch gets its token.
EveryBatchGoesOn == part = "limiter" => Limiter!EveryBatchGoesOn
=============================================================================
