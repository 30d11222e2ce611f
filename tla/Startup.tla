------------------------------- MODULE Startup -------------------------------
(***************************************************************************)
(* Start-up reconciliation with several API replicas                       *)
(* (backend/services/stale_reconciliation.py, backend/main.py): the        *)
(* replicas compete for a Redis lock, the winner fails the documents that  *)
(* no running process can finish, the losers go on at once.                *)
(*                                                                         *)
(* The rows, the RQ queue and the lock are shared.  The pipeline is one    *)
(* step and only new documents are uploaded; Ingestion has the rest.       *)
(***************************************************************************)
EXTENDS Naturals, Sequences

CONSTANTS
  Replicas,     \* API processes, MULTI_API_INSTANCE=true
  Documents,    \* new uploads
  MaxExpiries,  \* bound: how often the lock's TTL may run out
  None

VARIABLES
  pc,        \* where each replica is in its lifespan
  lock,      \* the key chatvector:stale-reconcile-lock is set
  expiries,  \* bound: expiries so far
  found,     \* the ids a reconciling replica has selected
  status,    \* documents.status
  queue,     \* the RQ queue
  job        \* the document each replica's worker has

vars == <<pc, lock, expiries, found, status, queue, job>>

Stale == {"queued", "working"}

Init ==
  /\ pc = [r \in Replicas |-> "down"]
  /\ lock = FALSE
  /\ expiries = 0
  /\ found = [r \in Replicas |-> {}]
  /\ status = [d \in Documents |-> None]
  /\ queue = <<>>
  /\ job = [r \in Replicas |-> None]

\* acquire_stale_reconcile_lock: SET NX EX.  A loser skips and does not wait.
Boot(r) ==
  /\ pc[r] = "down"
  /\ lock' = TRUE
  /\ pc' = [pc EXCEPT ![r] = IF lock THEN "running" ELSE "select"]
  /\ UNCHANGED <<expiries, found, status, queue, job>>

\* The lock is never released, its TTL ends it.
ExpireLock ==
  /\ lock
  /\ expiries < MaxExpiries
  /\ lock' = FALSE
  /\ expiries' = expiries + 1
  /\ UNCHANGED <<pc, found, status, queue, job>>

\* fail_stale_documents_global: SELECT the stale documents...
SelectStale(r) ==
  /\ pc[r] = "select"
  /\ found' = [found EXCEPT ![r] = {d \in Documents : status[d] \in Stale}]
  /\ pc' = [pc EXCEPT ![r] = "fail"]
  /\ UNCHANGED <<lock, expiries, status, queue, job>>

\* ...and UPDATE those of them that still are.
FailStale(r) ==
  /\ pc[r] = "fail"
  /\ status' = [d \in Documents |->
                  IF d \in found[r] /\ status[d] \in Stale THEN "failed" ELSE status[d]]
  /\ pc' = [pc EXCEPT ![r] = "clear"]
  /\ UNCHANGED <<lock, expiries, found, queue, job>>

\* clear_stale_jobs: the queued jobs of those documents are removed; then the
\* queue of this replica starts.
ClearStaleJobs(r) ==
  /\ pc[r] = "clear"
  /\ queue' = SelectSeq(queue, LAMBDA d : d \notin found[r])
  /\ pc' = [pc EXCEPT ![r] = "running"]
  /\ found' = [found EXCEPT ![r] = {}]
  /\ UNCHANGED <<lock, expiries, status, job>>

Upload(r, d) ==
  /\ pc[r] = "running"
  /\ status[d] = None
  /\ status' = [status EXCEPT ![d] = "queued"]
  /\ queue' = Append(queue, d)
  /\ UNCHANGED <<pc, lock, expiries, found, job>>

TakeJob(r) ==
  /\ pc[r] = "running" /\ job[r] = None /\ queue # <<>>
  /\ job' = [job EXCEPT ![r] = Head(queue)]
  /\ status' = [status EXCEPT ![Head(queue)] = "working"]
  /\ queue' = Tail(queue)
  /\ UNCHANGED <<pc, lock, expiries, found>>

FinishJob(r) ==
  /\ pc[r] = "running" /\ job[r] # None
  /\ status' = [status EXCEPT ![job[r]] = "completed"]
  /\ job' = [job EXCEPT ![r] = None]
  /\ UNCHANGED <<pc, lock, expiries, found, queue>>

Crash(r) ==
  /\ pc[r] # "down"
  /\ pc' = [pc EXCEPT ![r] = "down"]
  /\ job' = [job EXCEPT ![r] = None]
  /\ found' = [found EXCEPT ![r] = {}]
  /\ UNCHANGED <<lock, expiries, status, queue>>

Next ==
  \/ ExpireLock
  \/ \E r \in Replicas :
       \/ Boot(r) \/ SelectStale(r) \/ FailStale(r) \/ ClearStaleJobs(r)
       \/ \E d \in Documents : Upload(r, d)
       \/ TakeJob(r) \/ FinishJob(r) \/ Crash(r)

Spec == Init /\ [][Next]_vars

-----------------------------------------------------------------------------
\* A start-up never fails a document that a running replica is working on.
LiveWorkKept ==
  [][\A d \in Documents :
       (\E r \in Replicas : job[r] = d) => status'[d] # "failed"]_vars
=============================================================================
