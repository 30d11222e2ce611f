------------------------------ MODULE Ingestion ------------------------------
(***************************************************************************)
(* Document ingestion with the Redis backend: the POST /upload handler     *)
(* (backend/routes/upload.py), the RQ queue and the worker's job function  *)
(* (backend/services/queue_redis.py), the pipeline a job runs              *)
(* (backend/services/ingestion_pipeline.py), the outcome recorder          *)
(* (backend/services/ingestion_outcome.py) and DELETE /documents           *)
(* (backend/routes/documents.py).                                          *)
(*                                                                         *)
(* Handlers and worker threads run concurrently and share the database     *)
(* row, the chunk set, the artifact stored under the document's id and the *)
(* queue.  One action is one database transaction, one Redis command or    *)
(* one artifact-storage call; between two of them any other actor may run. *)
(***************************************************************************)
EXTENDS Naturals, Sequences, DocumentRow, IngestionConstants

Docs == Creates
Requests == Creates \union Replaces

VARIABLES
  row,       \* the documents table
  content,   \* whose file the document's chunk set was made from
  artifact,  \* whose bytes the storage holds under the document's id
  queue,     \* the RQ list of pending jobs
  dlq,       \* the dead-letter list
  sent,      \* the terminal webhooks scheduled for each upload
  rpc,       \* where each upload handler is
  target,    \* the document an upload works on
  wpc,       \* where each worker is
  job,       \* the job each worker runs
  bytes,     \* whose bytes the worker has read
  dpc,       \* where each delete handler is
  victim     \* the document a delete handler works on

uploadVars == <<rpc, target>>
workerVars == <<wpc, job, bytes>>
deleteVars == <<dpc, victim>>
vars == <<row, content, artifact, queue, dlq, sent,
          rpc, target, wpc, job, bytes, dpc, victim>>

Job == [req : Requests, attempt : 0 .. MaxRetries]

HandlerSteps ==
  {"new", "admit", "put", "push", "link", "announce", "register", "full",
   "undo", "revoke", "accepted", "refused", "error", "conflict"}

\* Stages of the pipeline in which an attempt can fail.
Stages == {"start", "extract", "chunk", "embed", "store", "finish"}

WorkerSteps == Stages \union
  {"idle", "fetch", "notify", "discard", "unlink",
   "fail", "report", "wipe", "purge", "detach", "bury",
   "mark", "patch", "requeue", "push", "drop", "reportdrop"}

DeleteSteps == {"new", "checked", "commit", "deleted", "refused"}

Doc(r) == target[r]
IsReplace(r) == r \in Replaces
WReq(w) == job[w].req
WDoc(w) == target[job[w].req]

Init ==
  /\ row = [d \in Docs |-> MissingRow]
  /\ content = [d \in Docs |-> None]
  /\ artifact = [d \in Docs |-> None]
  /\ queue = <<>>
  /\ dlq = <<>>
  /\ sent = [r \in Requests |-> <<>>]
  /\ rpc = [r \in Requests |-> "new"]
  /\ target = [r \in Requests |-> None]
  /\ wpc = [w \in Workers |-> "idle"]
  /\ job = [w \in Workers |-> None]
  /\ bytes = [w \in Workers |-> None]
  /\ dpc = [x \in Deletes |-> "new"]
  /\ victim = [x \in Deletes |-> None]

-----------------------------------------------------------------------------
(* The upload handler.                                                     *)

HandlerGoto(r, from, to) == rpc[r] = from /\ rpc' = [rpc EXCEPT ![r] = to]

\* create_document of a new upload.
CreateDocument(r) ==
  /\ r \in Creates
  /\ HandlerGoto(r, "new", "admit")
  /\ target' = [target EXCEPT ![r] = r]
  /\ row' = [row EXCEPT ![r] = CreatedRow]
  /\ UNCHANGED <<content, artifact, queue, dlq, sent, workerVars, deleteVars>>

\* begin_document_replacement: claim the document, or answer 404 or 409.
BeginReplacement(r, d) ==
  /\ r \in Replaces
  /\ rpc[r] = "new"
  /\ target' = [target EXCEPT ![r] = d]
  /\ \/ /\ ReplacementOutcome(row[d]) = "started"
        /\ row' = [row EXCEPT ![d] = ClaimedRow(@)]
        /\ rpc' = [rpc EXCEPT ![r] = "admit"]
     \/ /\ ReplacementOutcome(row[d]) # "started"
        /\ rpc' = [rpc EXCEPT ![r] = "conflict"]
        /\ UNCHANGED row
  /\ UNCHANGED <<content, artifact, queue, dlq, sent, workerVars, deleteVars>>

\* _sync_enqueue, its capacity check: LLEN, compared before anything is stored.
CheckCapacity(r) ==
  /\ rpc[r] = "admit"
  /\ rpc' = [rpc EXCEPT ![r] = IF Len(queue) >= QueueMax THEN "full" ELSE "put"]
  /\ UNCHANGED <<row, content, artifact, queue, dlq, sent, target,
                 workerVars, deleteVars>>

\* _sync_enqueue, storage.put: one object per document id, overwritten.
PutArtifact(r) ==
  /\ HandlerGoto(r, "put", "push")
  /\ artifact' = [artifact EXCEPT ![Doc(r)] = r]
  /\ UNCHANGED <<row, content, queue, dlq, sent, target, workerVars, deleteVars>>

\* _sync_enqueue, the RQ push of attempt 0.
PushJob(r) ==
  /\ HandlerGoto(r, "push", "link")
  /\ queue' = Append(queue, [req |-> r, attempt |-> 0])
  /\ UNCHANGED <<row, content, artifact, dlq, sent, target, workerVars, deleteVars>>

\* The artifact after the roll-back of a push that raised: the error of the
\* delete itself is only logged.
RolledBack(r) ==
  \/ artifact' = [artifact EXCEPT ![Doc(r)] = None]
  \/ UNCHANGED artifact

\* _sync_enqueue raises and nothing is queued: on the LLEN, on the artifact
\* write, or on the push.
EnqueueError(r) ==
  /\ "enqueue" \in Faults
  /\ \/ /\ HandlerGoto(r, "admit", "undo") \/ HandlerGoto(r, "put", "undo")
        /\ UNCHANGED artifact
     \/ /\ HandlerGoto(r, "push", "undo")
        /\ RolledBack(r)
  /\ UNCHANGED <<row, content, queue, dlq, sent, target, workerVars, deleteVars>>

\* _sync_enqueue raises and the job is queued: the acknowledgement of the push
\* was lost, and the artifact is rolled back, or the push went well and the
\* read of the queue position, outside of the try, raises.
PushUnacknowledged(r) ==
  /\ "route" \in Faults
  /\ HandlerGoto(r, "push", "revoke")
  /\ queue' = Append(queue, [req |-> r, attempt |-> 0])
  /\ RolledBack(r)
  /\ UNCHANGED <<row, content, dlq, sent, target, workerVars, deleteVars>>

\* enqueue, after the push: documents.artifact_uri is set.
LinkArtifact(r) ==
  /\ HandlerGoto(r, "link", "announce")
  /\ row' = [row EXCEPT ![Doc(r)] = SetArtifactUri(@, TRUE)]
  /\ UNCHANGED <<content, artifact, queue, dlq, sent, target,
                 workerVars, deleteVars>>

\* The handler's last write to the row: status "queued" for a new document, job
\* metadata only for a replacement.
AnnounceQueued(r) ==
  /\ HandlerGoto(r, "announce", "register")
  /\ row' = IF IsReplace(r) THEN row
            ELSE [row EXCEPT ![Doc(r)] = UpdateStatus(@, "queued")]
  /\ UNCHANGED <<content, artifact, queue, dlq, sent, target,
                 workerVars, deleteVars>>

\* The document is bound to the client's session; the client then gets 202.
RegisterSession(r) ==
  /\ HandlerGoto(r, "register", "accepted")
  /\ UNCHANGED <<row, content, artifact, queue, dlq, sent, target,
                 workerVars, deleteVars>>

\* A database call of the handler raises when the job is already queued: the
\* link (only logged), the status write, or the session registration.
RouteError(r) ==
  /\ "route" \in Faults
  /\ \/ HandlerGoto(r, "link", "announce")
     \/ HandlerGoto(r, "announce", "revoke")
     \/ HandlerGoto(r, "register", "revoke")
  /\ UNCHANGED <<row, content, artifact, queue, dlq, sent, target,
                 workerVars, deleteVars>>

\* How the handler records an upload that it gives up.
GivenUp(r) ==
  [row EXCEPT ![Doc(r)] = IF IsReplace(r)
                          THEN SetStatusDetail(@, ReplacementFailed)
                          ELSE UpdateStatus(@, "failed")]

\* except QueueFull: record the refusal, answer 503.
RefuseFull(r) ==
  /\ HandlerGoto(r, "full", "refused")
  /\ row' = GivenUp(r)
  /\ UNCHANGED <<content, artifact, queue, dlq, sent, target,
                 workerVars, deleteVars>>

\* except Exception: record the failure, answer 500.  The handler does not look
\* whether the job was pushed ("revoke") or not ("undo").
UndoUpload(r) ==
  /\ HandlerGoto(r, "undo", "error") \/ HandlerGoto(r, "revoke", "error")
  /\ row' = GivenUp(r)
  /\ UNCHANGED <<content, artifact, queue, dlq, sent, target,
                 workerVars, deleteVars>>

Handler(r) ==
  \/ CreateDocument(r)
  \/ \E d \in Docs : BeginReplacement(r, d)
  \/ CheckCapacity(r)
  \/ PutArtifact(r)
  \/ PushJob(r)
  \/ EnqueueError(r)
  \/ PushUnacknowledged(r)
  \/ LinkArtifact(r)
  \/ AnnounceQueued(r)
  \/ RegisterSession(r)
  \/ RouteError(r)
  \/ RefuseFull(r)
  \/ UndoUpload(r)

-----------------------------------------------------------------------------
(* The worker: _async_execute_job around process_document_background.      *)

WorkerGoto(w, from, to) == wpc[w] = from /\ wpc' = [wpc EXCEPT ![w] = to]

\* RQ pops the head of the list.
TakeJob(w) ==
  /\ queue # <<>>
  /\ WorkerGoto(w, "idle", "fetch")
  /\ job' = [job EXCEPT ![w] = Head(queue)]
  /\ queue' = Tail(queue)
  /\ UNCHANGED <<row, content, artifact, dlq, sent, bytes, uploadVars, deleteVars>>

\* Slip: a missing payload goes to the dead-letter list unrecorded.
FetchArtifactOrBury(w) ==
  /\ wpc[w] = "fetch"
  /\ bytes' = [bytes EXCEPT ![w] = artifact[WDoc(w)]]
  /\ wpc' = [wpc EXCEPT ![w] = IF artifact[WDoc(w)] = None THEN "bury" ELSE "start"]
  /\ UNCHANGED <<row, content, artifact, queue, dlq, sent, job,
                 uploadVars, deleteVars>>

\* storage.get: the bytes, or ArtifactMissingError.
FetchArtifact(w) ==
  /\ wpc[w] = "fetch"
  /\ bytes' = [bytes EXCEPT ![w] = artifact[WDoc(w)]]
  /\ wpc' = [wpc EXCEPT ![w] = IF artifact[WDoc(w)] = None THEN "drop" ELSE "start"]
  /\ UNCHANGED <<row, content, artifact, queue, dlq, sent, job,
                 uploadVars, deleteVars>>

\* storage.get lets a raw storage error through.  The pipeline has not started,
\* so no one records the outcome; the queue cleans up or retries.
FetchError(w) ==
  /\ "payload" \in Faults
  /\ wpc[w] = "fetch"
  /\ \/ wpc' = [wpc EXCEPT ![w] = "purge"]
     \/ /\ job[w].attempt < MaxRetries
        /\ wpc' = [wpc EXCEPT ![w] = "patch"]
  /\ UNCHANGED <<row, content, artifact, queue, dlq, sent, job, bytes,
                 uploadVars, deleteVars>>

\* Slip: a replacement moves `status` too.
StageStatusAlways(w, status) ==
  row' = [row EXCEPT ![WDoc(w)] = UpdateStatus(@, status)]

\* The status a new document gets when the stage begins; a replacement leaves
\* `status` alone.
StageStatus(w, status) ==
  row' = IF IsReplace(WReq(w)) THEN row
         ELSE [row EXCEPT ![WDoc(w)] = UpdateStatus(@, status)]

StageStep(w, from, to, status) ==
  /\ WorkerGoto(w, from, to)
  /\ StageStatus(w, status)
  /\ UNCHANGED <<content, artifact, queue, dlq, sent, job, bytes,
                 uploadVars, deleteVars>>

StartExtracting(w) == StageStep(w, "start", "extract", "extracting")
StartChunking(w)   == StageStep(w, "extract", "chunk", "chunking")
StartEmbedding(w)  == StageStep(w, "chunk", "embed", "embedding")
EmbedProgress(w)   == StageStep(w, "embed", "embed", "embedding")
StartStoring(w)    == StageStep(w, "embed", "store", "storing")

\* store_chunks_with_embeddings, or replace_document_content (the cutover):
\* the chunk set is replaced in one transaction; a missing row raises.
StoreContent(w) ==
  /\ wpc[w] = "store"
  /\ IF row[WDoc(w)].exists
     THEN /\ content' = [content EXCEPT ![WDoc(w)] = bytes[w]]
          /\ row' = IF IsReplace(WReq(w))
                    THEN [row EXCEPT ![WDoc(w)] = ReplacedRow(@)] ELSE row
          /\ wpc' = [wpc EXCEPT ![w] = "finish"]
     ELSE /\ wpc' = [wpc EXCEPT ![w] = "fail"]
          /\ UNCHANGED <<row, content>>
  /\ UNCHANGED <<artifact, queue, dlq, sent, job, bytes, uploadVars, deleteVars>>

\* Status "completed" for a new document, job metadata for a replacement.
FinishJob(w) == StageStep(w, "finish", "notify", "completed")

\* notify_ingestion_terminal: skipped when the row is gone.
Notified(w, outcome) ==
  sent' = IF row[WDoc(w)].exists
          THEN [sent EXCEPT ![WReq(w)] = Append(@, outcome)] ELSE sent

NotifyCompleted(w) ==
  /\ WorkerGoto(w, "notify", "discard")
  /\ Notified(w, "completed")
  /\ UNCHANGED <<row, content, artifact, queue, dlq, job, bytes,
                 uploadVars, deleteVars>>

\* _cleanup_artifact is two calls: storage.delete on the document's key, then
\* set_document_artifact_uri(None).
DeleteArtifact(w, from, to) ==
  /\ WorkerGoto(w, from, to)
  /\ artifact' = [artifact EXCEPT ![WDoc(w)] = None]
  /\ UNCHANGED <<row, content, queue, dlq, sent, job, bytes,
                 uploadVars, deleteVars>>

DiscardArtifact(w) == DeleteArtifact(w, "discard", "unlink")
PurgeArtifact(w)   == DeleteArtifact(w, "purge", "detach")

\* The worker is free again.
Released(w) ==
  /\ job' = [job EXCEPT ![w] = None]
  /\ bytes' = [bytes EXCEPT ![w] = None]

UnlinkArtifact(w) ==
  /\ WorkerGoto(w, "unlink", "idle")
  /\ row' = [row EXCEPT ![WDoc(w)] = SetArtifactUri(@, FALSE)]
  /\ Released(w)
  /\ UNCHANGED <<content, artifact, queue, dlq, sent, uploadVars, deleteVars>>

DetachArtifact(w) ==
  /\ WorkerGoto(w, "detach", "bury")
  /\ row' = [row EXCEPT ![WDoc(w)] = SetArtifactUri(@, FALSE)]
  /\ UNCHANGED <<content, artifact, queue, dlq, sent, job, bytes,
                 uploadVars, deleteVars>>

-----------------------------------------------------------------------------
(* Failed attempts: _handle_error, then the queue's own exception handler. *)

\* Slip: one retry too many.
IsTerminalLate(permanent, attempt) == permanent \/ attempt > MaxRetries

\* ingestion_failure_is_terminal: a permanent error at once, a transient one
\* when the retry budget is spent.
IsTerminal(permanent, attempt) == permanent \/ attempt >= MaxRetries

PipelineError(w, permanent) ==
  /\ wpc[w] \in Stages
  /\ wpc[w] = "finish" => "finish" \in Faults
  /\ wpc' = [wpc EXCEPT ![w] =
               IF IsTerminal(permanent, job[w].attempt) THEN "fail" ELSE "mark"]
  /\ UNCHANGED <<row, content, artifact, queue, dlq, sent, job, bytes,
                 uploadVars, deleteVars>>

\* record_retrying_ingestion_attempt, and the queue's own patch of the same.
Retrying(w) ==
  row' = [row EXCEPT ![WDoc(w)] =
            IF IsReplace(WReq(w)) THEN SetStatusDetail(@, ReplacementInProgress)
            ELSE UpdateStatus(@, "retrying")]

MarkRetrying(w) ==
  /\ WorkerGoto(w, "mark", "patch")
  /\ Retrying(w)
  /\ UNCHANGED <<content, artifact, queue, dlq, sent, job, bytes,
                 uploadVars, deleteVars>>

PatchRetrying(w) ==
  /\ WorkerGoto(w, "patch", "requeue")
  /\ Retrying(w)
  /\ UNCHANGED <<content, artifact, queue, dlq, sent, job, bytes,
                 uploadVars, deleteVars>>

\* After the back-off sleep: LLEN against the limit.
CheckRequeue(w) ==
  /\ wpc[w] = "requeue"
  /\ wpc' = [wpc EXCEPT ![w] = IF Len(queue) >= QueueMax THEN "drop" ELSE "push"]
  /\ UNCHANGED <<row, content, artifact, queue, dlq, sent, job, bytes,
                 uploadVars, deleteVars>>

\* Slip: an attempt that was requeued is also buried.
PushRetryAndBury(w) ==
  /\ WorkerGoto(w, "push", "bury")
  /\ queue' = Append(queue, [job[w] EXCEPT !.attempt = @ + 1])
  /\ UNCHANGED <<row, content, artifact, dlq, sent, job, bytes, uploadVars, deleteVars>>

\* RPUSH of the next attempt; the thread takes the next job.
PushRetry(w) ==
  /\ WorkerGoto(w, "push", "idle")
  /\ queue' = Append(queue, [job[w] EXCEPT !.attempt = @ + 1])
  /\ Released(w)
  /\ UNCHANGED <<row, content, artifact, dlq, sent, uploadVars, deleteVars>>

\* Slip: a failed replacement keeps its marker.
TerminallyFailedNewOnly(w) ==
  row' = [row EXCEPT ![WDoc(w)] =
            IF IsReplace(WReq(w)) THEN @ ELSE UpdateStatus(@, "failed")]

\* record_terminal_ingestion_failure, its row write.
TerminallyFailed(w) ==
  row' = [row EXCEPT ![WDoc(w)] =
            IF IsReplace(WReq(w)) THEN SetStatusDetail(@, ReplacementFailed)
            ELSE UpdateStatus(@, "failed")]

RecordFailure(w) ==
  /\ WorkerGoto(w, "fail", "report")
  /\ TerminallyFailed(w)
  /\ UNCHANGED <<content, artifact, queue, dlq, sent, job, bytes,
                 uploadVars, deleteVars>>

\* Slip: a failed replacement loses its chunks as a new document does.
ReportFailureAndWipe(w) ==
  /\ WorkerGoto(w, "report", "wipe")
  /\ Notified(w, "failed")
  /\ UNCHANGED <<row, content, artifact, queue, dlq, job, bytes,
                 uploadVars, deleteVars>>

\* ...and its webhook; a new document then loses its chunks.
ReportFailure(w) ==
  /\ wpc[w] = "report"
  /\ wpc' = [wpc EXCEPT ![w] = IF IsReplace(WReq(w)) THEN "purge" ELSE "wipe"]
  /\ Notified(w, "failed")
  /\ UNCHANGED <<row, content, artifact, queue, dlq, job, bytes,
                 uploadVars, deleteVars>>

\* delete_document_chunks.
WipeChunks(w) ==
  /\ WorkerGoto(w, "wipe", "purge")
  /\ content' = [content EXCEPT ![WDoc(w)] = None]
  /\ UNCHANGED <<row, artifact, queue, dlq, sent, job, bytes,
                 uploadVars, deleteVars>>

\* The payload is lost or the retry finds the queue full: terminal, and the
\* artifact is left where it is.
RecordDropped(w) ==
  /\ WorkerGoto(w, "drop", "reportdrop")
  /\ TerminallyFailed(w)
  /\ UNCHANGED <<content, artifact, queue, dlq, sent, job, bytes,
                 uploadVars, deleteVars>>

\* Slip: no return after the full queue was reported, the retry is pushed.
ReportDroppedAndPush(w) ==
  /\ WorkerGoto(w, "reportdrop", "push")
  /\ Notified(w, "failed")
  /\ UNCHANGED <<row, content, artifact, queue, dlq, job, bytes,
                 uploadVars, deleteVars>>

ReportDropped(w) ==
  /\ WorkerGoto(w, "reportdrop", "bury")
  /\ Notified(w, "failed")
  /\ UNCHANGED <<row, content, artifact, queue, dlq, job, bytes,
                 uploadVars, deleteVars>>

\* Recording the outcome raises; the error is logged and the queue goes on.
RecordError(w) ==
  /\ "record" \in Faults
  /\ \/ WorkerGoto(w, "mark", "patch")
     \/ WorkerGoto(w, "patch", "requeue")
     \/ WorkerGoto(w, "fail", "purge")
     \/ WorkerGoto(w, "drop", "bury")
  /\ UNCHANGED <<row, content, artifact, queue, dlq, sent, job, bytes,
                 uploadVars, deleteVars>>

\* _push_dlq_entry; the trim to QUEUE_DLQ_MAX_ENTRIES drops old entries and is
\* left out.
BuryJob(w) ==
  /\ WorkerGoto(w, "bury", "idle")
  /\ dlq' = Append(dlq, WReq(w))
  /\ Released(w)
  /\ UNCHANGED <<row, content, artifact, queue, sent, uploadVars, deleteVars>>

\* A clean-up call raises; the error is logged and the next call follows.
CleanupError(w) ==
  /\ "cleanup" \in Faults
  /\ \/ /\ \/ WorkerGoto(w, "wipe", "purge")
           \/ WorkerGoto(w, "purge", "detach")
           \/ WorkerGoto(w, "detach", "bury")
           \/ WorkerGoto(w, "discard", "unlink")
        /\ UNCHANGED <<job, bytes>>
     \/ WorkerGoto(w, "unlink", "idle") /\ Released(w)
  /\ UNCHANGED <<row, content, artifact, queue, dlq, sent, uploadVars, deleteVars>>

\* LLEN or RPUSH raises after the back-off, where nothing catches it: the job ends
\* and its retry is lost.  The error of the dead-letter push is caught, and the
\* entry is lost.
RedisError(w) ==
  /\ "redis" \in Faults
  /\ \/ WorkerGoto(w, "requeue", "idle")
     \/ WorkerGoto(w, "push", "idle")
     \/ WorkerGoto(w, "bury", "idle")
  /\ Released(w)
  /\ UNCHANGED <<row, content, artifact, queue, dlq, sent, uploadVars, deleteVars>>

Worker(w) ==
  \/ TakeJob(w) \/ FetchArtifact(w) \/ FetchError(w)
  \/ StartExtracting(w) \/ StartChunking(w) \/ StartEmbedding(w)
  \/ EmbedProgress(w) \/ StartStoring(w)
  \/ StoreContent(w) \/ FinishJob(w) \/ NotifyCompleted(w)
  \/ DiscardArtifact(w) \/ UnlinkArtifact(w)
  \/ \E permanent \in BOOLEAN : PipelineError(w, permanent)
  \/ MarkRetrying(w) \/ PatchRetrying(w) \/ CheckRequeue(w) \/ PushRetry(w)
  \/ RecordFailure(w) \/ ReportFailure(w) \/ WipeChunks(w)
  \/ PurgeArtifact(w) \/ DetachArtifact(w)
  \/ RecordDropped(w) \/ ReportDropped(w) \/ RecordError(w)
  \/ CleanupError(w) \/ RedisError(w)
  \/ BuryJob(w)

-----------------------------------------------------------------------------
(* DELETE /documents/{id}: a status read, a scan of the queue, a delete.   *)

Queued(d) == \E i \in DOMAIN queue : target[queue[i].req] = d

ReadForDelete(x, d) ==
  /\ dpc[x] = "new"
  /\ victim' = [victim EXCEPT ![x] = d]
  /\ dpc' = [dpc EXCEPT ![x] =
               IF \/ ~row[d].exists
                  \/ row[d].status \in StaleStatuses
                  \/ row[d].detail = ReplacementInProgress
               THEN "refused" ELSE "checked"]
  /\ UNCHANGED <<row, content, artifact, queue, dlq, sent,
                 uploadVars, workerVars>>

CheckQueued(x) ==
  /\ dpc[x] = "checked"
  /\ dpc' = [dpc EXCEPT ![x] = IF Queued(victim[x]) THEN "refused" ELSE "commit"]
  /\ UNCHANGED <<row, content, artifact, queue, dlq, sent, victim,
                 uploadVars, workerVars>>

\* delete_document: chunks and row in one transaction.
DeleteDocument(x) ==
  /\ dpc[x] = "commit"
  /\ dpc' = [dpc EXCEPT ![x] = "deleted"]
  /\ row' = [row EXCEPT ![victim[x]] = MissingRow]
  /\ content' = [content EXCEPT ![victim[x]] = None]
  /\ UNCHANGED <<artifact, queue, dlq, sent, victim, uploadVars, workerVars>>

Deleter(x) ==
  \/ \E d \in Docs : ReadForDelete(x, d)
  \/ CheckQueued(x)
  \/ DeleteDocument(x)

-----------------------------------------------------------------------------
\* Every request is answered and every worker waits on an empty queue.
Quiescent ==
  /\ \A r \in Requests : rpc[r] \in {"accepted", "refused", "error", "conflict"}
  /\ \A w \in Workers : wpc[w] = "idle"
  /\ \A x \in Deletes : dpc[x] \in {"deleted", "refused"}
  /\ queue = <<>>
  /\ UNCHANGED vars

Next ==
  \/ \E r \in Requests : Handler(r)
  \/ \E w \in Workers : Worker(w)
  \/ \E x \in Deletes : Deleter(x)
  \/ Quiescent

Spec == Init /\ [][Next]_vars

(***************************************************************************)
(* An accepted request runs on until it is answered, and a worker thread   *)
(* keeps stepping.  EmbedProgress repeats once per embedding batch and the *)
(* batches of a file are finite, so a worker in the embedding stage leaves *)
(* it: by storing or by failing.                                           *)
(***************************************************************************)
LeaveEmbedding(w) ==
  \/ StartStoring(w)
  \/ wpc[w] = "embed" /\ \E permanent \in BOOLEAN : PipelineError(w, permanent)

Fairness ==
  /\ \A r \in Requests : WF_vars(rpc[r] # "new" /\ Handler(r))
  /\ \A w \in Workers : WF_vars(Worker(w)) /\ WF_vars(LeaveEmbedding(w))

FairSpec == Spec /\ Fairness
=============================================================================
