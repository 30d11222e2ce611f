----------------------------- MODULE MemoryQueue -----------------------------
(***************************************************************************)
(* The in-memory ingestion queue (backend/services/queue_asyncio.py) in    *)
(* the life of one API process: start-up with its reconciliation of stale  *)
(* documents (backend/main.py), uploads, the worker tasks, a graceful stop *)
(* and a crash.                                                            *)
(*                                                                         *)
(* Everything but the rows of `documents` is memory and is lost with the   *)
(* process.  Each upload has a document of its own: a new one, or for the  *)
(* uploads of Replaces a completed one.  The stages of the pipeline are    *)
(* one stretch here (Ingestion has them apart), and the calls to the       *)
(* database succeed, start-up reconciliation excepted.                     *)
(*                                                                         *)
(* The image runs Python 3.11, where asyncio.wait_for runs queue.get() as  *)
(* a task of its own: a job leaves the queue in one step (TakeJob) and the *)
(* worker resumes with it in a later one (ResumeWithJob), and a worker     *)
(* cancelled in between gets the job and never sees the cancellation.      *)
(***************************************************************************)
EXTENDS DocumentRow, Naturals, Sequences, FiniteSets

CONSTANTS
  Uploads,      \* the upload requests, which also name their documents
  Replaces,     \* the uploads that replace a document
  Workers,      \* the worker tasks, QUEUE_WORKER_COUNT
  QueueMax,     \* QUEUE_MAX_SIZE
  MaxRetries,   \* QUEUE_JOB_MAX_RETRIES
  DlqMax,       \* QUEUE_DLQ_MAX_ENTRIES
  MaxStarts,    \* bound: how often the process is started
  None

ASSUME MemoryQueueAssumption ==
  /\ Replaces \subseteq Uploads
  /\ QueueMax \in Nat \ {0} /\ DlqMax \in Nat \ {0}
  /\ MaxRetries \in Nat /\ MaxStarts \in Nat
  /\ None \notin Uploads
  /\ IsFiniteSet(Workers)

VARIABLES
  up,         \* where the process is in its life
  starts,     \* bound: starts so far
  reconciled, \* both transactions of the last start-up were committed
  row,        \* the rows of `documents`
  queue,      \* asyncio.Queue
  pending,    \* _pending_doc_ids, its mirror
  dlq,        \* _dlq
  rpc,        \* where each upload handler is
  wpc,        \* where each worker is
  job,        \* the job a worker holds
  attempt,    \* QueueJob.attempt
  tries,      \* history: runs of the pipeline since the job was enqueued
  ended       \* history: the outcome recorded for each upload

processVars == <<up, starts, reconciled>>
queueVars == <<queue, pending, dlq>>
workerVars == <<wpc, job, attempt, tries>>
vars == <<processVars, row, queueVars, rpc, workerVars, ended>>

IsReplace(u) == u \in Replaces
HandlerSteps == {"new", "admit", "announce", "full", "accepted", "refused", "cut"}
WorkerSteps == {"off", "wait", "handed", "start", "run", "mark", "patch",
                "sleep", "fail", "drop", "bury"}

Init ==
  /\ up = "down"
  /\ starts = 0
  /\ reconciled = FALSE
  /\ row = [u \in Uploads |->
              IF IsReplace(u) THEN [CreatedRow EXCEPT !.status = "completed"]
              ELSE MissingRow]
  /\ queue = <<>> /\ pending = <<>> /\ dlq = <<>>
  /\ rpc = [u \in Uploads |-> "new"]
  /\ wpc = [w \in Workers |-> "off"]
  /\ job = [w \in Workers |-> None]
  /\ attempt = [u \in Uploads |-> 0]
  /\ tries = [u \in Uploads |-> 0]
  /\ ended = [u \in Uploads |-> "none"]

-----------------------------------------------------------------------------
(* The process: lifespan of main.py.                                       *)

\* The process starts; what it kept in memory is gone.
Boot ==
  /\ up = "down"
  /\ starts < MaxStarts
  /\ up' = "stale"
  /\ starts' = starts + 1
  /\ reconciled' = FALSE
  /\ queue' = <<>> /\ pending' = <<>> /\ dlq' = <<>>
  /\ UNCHANGED <<row, rpc, workerVars, ended>>

\* fail_stale_documents_global, first transaction.
FailStaleDocuments ==
  LET stale == {u \in Uploads : row[u].exists /\ row[u].status \in StaleStatuses}
  IN /\ up = "stale"
     /\ up' = "markers"
     /\ row' = [u \in Uploads |->
                  IF u \in stale THEN UpdateStatus(row[u], "failed") ELSE row[u]]
     /\ ended' = [u \in Uploads |-> IF u \in stale THEN "failed" ELSE ended[u]]
     /\ UNCHANGED <<starts, reconciled, queueVars, rpc, workerVars>>

\* Slip: replacements are not reconciled.
SkipReplacements ==
  /\ up = "markers"
  /\ up' = "start"
  /\ reconciled' = TRUE
  /\ UNCHANGED <<starts, row, queueVars, rpc, workerVars, ended>>

\* fail_stale_documents_global, second transaction: the markers.
FailStaleReplacements ==
  LET stale == {u \in Uploads : row[u].detail = ReplacementInProgress}
  IN /\ up = "markers"
     /\ up' = "start"
     /\ reconciled' = TRUE
     /\ row' = [u \in Uploads |->
                  IF u \in stale THEN SetStatusDetail(row[u], ReplacementFailed)
                  ELSE row[u]]
     /\ ended' = [u \in Uploads |-> IF u \in stale THEN "failed" ELSE ended[u]]
     /\ UNCHANGED <<starts, queueVars, rpc, workerVars>>

\* A transaction raises; the error is logged and start-up goes on.
ReconcileError ==
  /\ up \in {"stale", "markers"}
  /\ up' = "start"
  /\ UNCHANGED <<starts, reconciled, row, queueVars, rpc, workerVars, ended>>

\* start(): one task per worker.
StartQueue ==
  /\ up = "start"
  /\ up' = "running"
  /\ wpc' = [w \in Workers |-> "wait"]
  /\ UNCHANGED <<starts, reconciled, row, queueVars, rpc, job, attempt, tries, ended>>

\* Tasks that end without finishing: their jobs go with them.
Drop(ws) ==
  /\ wpc' = [w \in Workers |-> IF w \in ws THEN "off" ELSE wpc[w]]
  /\ job' = [w \in Workers |-> IF w \in ws THEN None ELSE job[w]]

\* stop(): cancel every worker.  One that was just handed a job does not
\* notice.  The server has answered every request before it shuts down.
StopQueue ==
  /\ up = "running"
  /\ \A u \in Uploads : rpc[u] \notin {"admit", "announce", "full"}
  /\ up' = "stopping"
  /\ Drop({w \in Workers : wpc[w] # "handed"})
  /\ UNCHANGED <<starts, reconciled, row, queueVars, rpc, attempt, tries, ended>>

\* gather() returns when the last worker is done; the process exits.
Exit ==
  /\ up = "stopping"
  /\ \A w \in Workers : wpc[w] = "off"
  /\ up' = "down"
  /\ UNCHANGED <<starts, reconciled, row, queueVars, rpc, workerVars, ended>>

\* The process is killed, at any point of its life.
Crash ==
  /\ up # "down"
  /\ up' = "down"
  /\ Drop(Workers)
  /\ rpc' = [u \in Uploads |->
               IF rpc[u] \in {"admit", "announce", "full"} THEN "cut" ELSE rpc[u]]
  /\ UNCHANGED <<starts, reconciled, row, queueVars, attempt, tries, ended>>

-----------------------------------------------------------------------------
(* The upload handler, as far as the queue matters.                        *)

HandlerGoto(u, from, to) ==
  up = "running" /\ rpc[u] = from /\ rpc' = [rpc EXCEPT ![u] = to]

\* create_document or begin_document_replacement.
AdmitUpload(u) ==
  /\ HandlerGoto(u, "new", "admit")
  /\ row' = [row EXCEPT ![u] = IF IsReplace(u) THEN ClaimedRow(@) ELSE CreatedRow]
  /\ UNCHANGED <<processVars, queueVars, workerVars, ended>>

\* enqueue: put_nowait and the mirror in one step, or QueueFull.
Enqueue(u) ==
  \/ /\ Len(queue) < QueueMax
     /\ HandlerGoto(u, "admit", "announce")
     /\ queue' = Append(queue, u)
     /\ pending' = Append(pending, u)
     /\ UNCHANGED <<processVars, row, dlq, workerVars, ended>>
  \/ /\ Len(queue) >= QueueMax
     /\ HandlerGoto(u, "admit", "full")
     /\ UNCHANGED <<processVars, row, queueVars, workerVars, ended>>

\* The last write of an accepted upload: "queued", whatever the worker wrote.
AnnounceQueued(u) ==
  /\ HandlerGoto(u, "announce", "accepted")
  /\ row' = IF IsReplace(u) THEN row
            ELSE [row EXCEPT ![u] = UpdateStatus(@, "queued")]
  /\ UNCHANGED <<processVars, queueVars, workerVars, ended>>

\* A terminal failure, as every path records it.
Failed(u) ==
  /\ row' = [row EXCEPT ![u] = IF IsReplace(u)
                               THEN SetStatusDetail(@, ReplacementFailed)
                               ELSE UpdateStatus(@, "failed")]
  /\ ended' = [ended EXCEPT ![u] = "failed"]

RefuseFull(u) ==
  /\ HandlerGoto(u, "full", "refused")
  /\ Failed(u)
  /\ UNCHANGED <<processVars, queueVars, workerVars>>

-----------------------------------------------------------------------------
(* The worker tasks.                                                       *)

WorkerGoto(w, from, to) == wpc[w] = from /\ wpc' = [wpc EXCEPT ![w] = to]

\* queue.get(), in the task wait_for made for it.
TakeJob(w) ==
  /\ queue # <<>>
  /\ WorkerGoto(w, "wait", "handed")
  /\ job' = [job EXCEPT ![w] = Head(queue)]
  /\ queue' = Tail(queue)
  /\ UNCHANGED <<processVars, row, pending, dlq, rpc, attempt, tries, ended>>

\* The worker resumes: the head of the mirror goes, whoever's it is.
ResumeWithJob(w) ==
  /\ WorkerGoto(w, "handed", "start")
  /\ pending' = IF pending = <<>> THEN pending ELSE Tail(pending)
  /\ UNCHANGED <<processVars, row, queue, dlq, rpc, job, attempt, tries, ended>>

\* process_document_background begins: a new document leaves "queued".
StartPipeline(w) ==
  /\ WorkerGoto(w, "start", "run")
  /\ tries' = [tries EXCEPT ![job[w]] = @ + 1]
  /\ row' = IF IsReplace(job[w]) THEN row
            ELSE [row EXCEPT ![job[w]] = UpdateStatus(@, "extracting")]
  /\ UNCHANGED <<processVars, queueVars, rpc, job, attempt, ended>>

\* The loop goes round: wait for the next job, or leave when the queue stops.
AfterJob(w) == IF up = "running" THEN "wait" ELSE "off"
Released(w) ==
  /\ wpc' = [wpc EXCEPT ![w] = AfterJob(w)]
  /\ job' = [job EXCEPT ![w] = None]

\* The pipeline completes the document.
CompletePipeline(w) ==
  /\ wpc[w] = "run"
  /\ row' = [row EXCEPT ![job[w]] = IF IsReplace(job[w]) THEN ReplacedRow(@)
                                    ELSE UpdateStatus(@, "completed")]
  /\ ended' = [ended EXCEPT ![job[w]] = "completed"]
  /\ Released(w)
  /\ UNCHANGED <<processVars, queueVars, rpc, attempt, tries>>

\* Slip: the attempts are counted from one.
IsTerminalLate(permanent, n) == permanent \/ n > MaxRetries

\* ingestion_failure_is_terminal.
IsTerminal(permanent, n) == permanent \/ n >= MaxRetries

\* The pipeline fails; the exception handler counts the attempt at once.
FailPipeline(w, permanent) ==
  /\ wpc[w] = "run"
  /\ IF IsTerminal(permanent, attempt[job[w]])
     THEN /\ wpc' = [wpc EXCEPT ![w] = "fail"]
          /\ UNCHANGED attempt
     ELSE /\ wpc' = [wpc EXCEPT ![w] = "mark"]
          /\ attempt' = [attempt EXCEPT ![job[w]] = @ + 1]
  /\ UNCHANGED <<processVars, row, queueVars, rpc, job, tries, ended>>

\* Slip: the retry is queued before the back-off as well.
MarkRetryingAndRequeue(w) ==
  /\ WorkerGoto(w, "mark", "patch") \/ WorkerGoto(w, "patch", "sleep")
  /\ row' = [row EXCEPT ![job[w]] = UpdateStatus(@, "retrying")]
  /\ queue' = Append(queue, job[w])
  /\ pending' = Append(pending, job[w])
  /\ UNCHANGED <<processVars, dlq, rpc, job, attempt, tries, ended>>

\* The pipeline's own record of a retry and then the queue's.
MarkRetrying(w) ==
  /\ WorkerGoto(w, "mark", "patch") \/ WorkerGoto(w, "patch", "sleep")
  /\ row' = [row EXCEPT ![job[w]] =
               IF IsReplace(job[w]) THEN SetStatusDetail(@, ReplacementInProgress)
               ELSE UpdateStatus(@, "retrying")]
  /\ UNCHANGED <<processVars, queueVars, rpc, job, attempt, tries, ended>>

\* Slip: the retry does not come back into the mirror.
RequeueUnmirrored(w) ==
  /\ wpc[w] = "sleep"
  /\ \/ /\ Len(queue) < QueueMax
        /\ queue' = Append(queue, job[w])
        /\ Released(w)
        /\ UNCHANGED pending
     \/ /\ Len(queue) >= QueueMax
        /\ wpc' = [wpc EXCEPT ![w] = "drop"]
        /\ UNCHANGED <<queue, pending, job>>
  /\ UNCHANGED <<processVars, row, dlq, rpc, attempt, tries, ended>>

\* Slip: a retry that finds the queue full is given up in silence.
RequeueOrForget(w) ==
  /\ wpc[w] = "sleep"
  /\ Released(w)
  /\ \/ /\ Len(queue) < QueueMax
        /\ queue' = Append(queue, job[w])
        /\ pending' = Append(pending, job[w])
     \/ /\ Len(queue) >= QueueMax
        /\ UNCHANGED <<queue, pending>>
  /\ UNCHANGED <<processVars, row, dlq, rpc, attempt, tries, ended>>

\* After the back-off: put_nowait and the mirror in one step, or QueueFull.
Requeue(w) ==
  /\ wpc[w] = "sleep"
  /\ \/ /\ Len(queue) < QueueMax
        /\ queue' = Append(queue, job[w])
        /\ pending' = Append(pending, job[w])
        /\ Released(w)
     \/ /\ Len(queue) >= QueueMax
        /\ wpc' = [wpc EXCEPT ![w] = "drop"]
        /\ UNCHANGED <<queue, pending, job>>
  /\ UNCHANGED <<processVars, row, dlq, rpc, attempt, tries, ended>>

\* Slip: a dropped retry is not recorded as failed.
RecordPipelineFailure(w) ==
  /\ \/ WorkerGoto(w, "fail", "bury") /\ Failed(job[w])
     \/ WorkerGoto(w, "drop", "bury") /\ UNCHANGED <<row, ended>>
  /\ UNCHANGED <<processVars, queueVars, rpc, job, attempt, tries>>

\* record_terminal_ingestion_failure: by the pipeline, or for a dropped retry.
RecordFailure(w) ==
  /\ WorkerGoto(w, "fail", "bury") \/ WorkerGoto(w, "drop", "bury")
  /\ Failed(job[w])
  /\ UNCHANGED <<processVars, queueVars, rpc, job, attempt, tries>>

\* _append_dlq: the oldest entries beyond QUEUE_DLQ_MAX_ENTRIES go.
AppendDlq(u) ==
  LET all == Append(dlq, u)
  IN dlq' = IF Len(all) > DlqMax THEN SubSeq(all, Len(all) - DlqMax + 1, Len(all))
            ELSE all

BuryJob(w) ==
  /\ wpc[w] = "bury"
  /\ AppendDlq(job[w])
  /\ Released(w)
  /\ UNCHANGED <<processVars, row, queue, pending, rpc, attempt, tries, ended>>

-----------------------------------------------------------------------------
Process ==
  \/ Boot
  \/ FailStaleDocuments
  \/ FailStaleReplacements
  \/ ReconcileError
  \/ StartQueue
  \/ StopQueue
  \/ Exit
  \/ Crash

Handler(u) ==
  \/ AdmitUpload(u)
  \/ Enqueue(u)
  \/ AnnounceQueued(u)
  \/ RefuseFull(u)

Worker(w) ==
  \/ TakeJob(w)
  \/ ResumeWithJob(w)
  \/ StartPipeline(w)
  \/ CompletePipeline(w)
  \/ \E permanent \in BOOLEAN : FailPipeline(w, permanent)
  \/ MarkRetrying(w)
  \/ Requeue(w)
  \/ RecordFailure(w)
  \/ BuryJob(w)

Next ==
  \/ Process
  \/ \E u \in Uploads : Handler(u)
  \/ \E w \in Workers : Worker(w)

Spec == Init /\ [][Next]_vars

\* An admitted request goes on, so does a worker, and the container is
\* restarted.  A crash, a stop and a failed reconciliation may always happen.
FairSpec ==
  /\ Spec
  /\ \A u \in Uploads : WF_vars(rpc[u] # "new" /\ Handler(u))
  /\ \A w \in Workers : WF_vars(Worker(w))
  /\ WF_vars(Boot \/ FailStaleDocuments \/ FailStaleReplacements \/ StartQueue \/ Exit)

-----------------------------------------------------------------------------
TypeOK ==
  /\ up \in {"down", "stale", "markers", "start", "running", "stopping"}
  /\ starts \in 0 .. MaxStarts
  /\ reconciled \in BOOLEAN
  /\ row \in [Uploads -> Row]
  /\ queue \in Seq(Uploads) /\ pending \in Seq(Uploads) /\ dlq \in Seq(Uploads)
  /\ rpc \in [Uploads -> HandlerSteps]
  /\ wpc \in [Workers -> WorkerSteps]
  /\ job \in [Workers -> Uploads \union {None}]
  /\ attempt \in [Uploads -> 0 .. MaxRetries]
  /\ tries \in [Uploads -> Nat]
  /\ ended \in [Uploads -> {"none", "completed", "failed"}]

\* The mirror that queue_position reads ends with the queue, in its order, and
\* has before that one entry for each job handed to a worker that has not
\* resumed yet: no retry is missing from it and no entry outlives its job.
MirrorFollowsQueue ==
  LET handed == Cardinality({w \in Workers : wpc[w] = "handed"})
  IN up \in {"running", "stopping"} =>
       /\ Len(pending) = handed + Len(queue)
       /\ SubSeq(pending, handed + 1, Len(pending)) = queue

InHandler(u) == rpc[u] \in {"admit", "announce", "full"}
Held(u) == \E w \in Workers : job[w] = u
Queued(u) == \E i \in DOMAIN queue : queue[i] = u

\* A job is in the queue once, or with one worker, never both: neither a retry
\* nor a stop that cancels half-way duplicates it.
OneCopyOfJob ==
  /\ \A i, j \in DOMAIN queue : queue[i] = queue[j] => i = j
  /\ \A w \in Workers : job[w] # None =>
       /\ ~Queued(job[w])
       /\ \A v \in Workers : job[v] = job[w] => v = w

InProgress(u) ==
  row[u].exists /\ (row[u].status \in StaleStatuses
                    \/ row[u].detail = ReplacementInProgress)

\* While the server runs after a complete reconciliation, a document that
\* clients see in progress is one that somebody still works on: the crash or
\* stop before left none behind.  The exception is the known one: "queued",
\* written by the handler after the worker was done.
InProgressIsOwned ==
  up = "running" /\ reconciled =>
    \A u \in Uploads : InProgress(u) =>
      \/ InHandler(u) \/ Queued(u) \/ Held(u)
      \/ row[u].status = "queued" /\ ended[u] # "none"

\* The dead-letter list holds documents whose failure the row shows, each once,
\* and a job that is tried again or done is not on it.
DeadLettersAreFailures ==
  \A i \in DOMAIN dlq :
    /\ ended[dlq[i]] = "failed"
    /\ ~Queued(dlq[i]) /\ ~Held(dlq[i])
    /\ \A j \in DOMAIN dlq : dlq[j] = dlq[i] => i = j

\* No job is run more often than the budget says, and none after its outcome
\* was recorded.
RetriesEnd ==
  /\ \A u \in Uploads : tries[u] <= MaxRetries + 1
  /\ \A w \in Workers : wpc[w] \in {"handed", "start", "run", "sleep"} =>
                          ended[job[w]] = "none"

\* A job takes one path: it is in one place, is tried as often as the budget
\* allows, and is buried once, when it has failed (AsyncioIngestionQueue).
JobTakesOnePath == OneCopyOfJob /\ RetriesEnd /\ DeadLettersAreFailures

\* In the end every document that was admitted has its outcome, if the server
\* runs and its last reconciliation was complete.
AdmittedEnds ==
  <>[](up = "running" /\ reconciled =>
         \A u \in Uploads : rpc[u] # "new" => ended[u] # "none")
=============================================================================
