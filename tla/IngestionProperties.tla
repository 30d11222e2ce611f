------------------------- MODULE IngestionProperties -------------------------
(***************************************************************************)
(* What ingestion promises, stated over the state of module Ingestion.     *)
(***************************************************************************)
EXTENDS Ingestion, FiniteSets

\* Every variable keeps its type; with it, no job carries an attempt number
\* beyond QUEUE_JOB_MAX_RETRIES (_async_execute_job's retry budget).
TypeOK ==
  /\ row \in [Docs -> Row]
  /\ content \in [Docs -> Requests \union {None}]
  /\ artifact \in [Docs -> Requests \union {None}]
  /\ queue \in Seq(Job)
  /\ dlq \in Seq(Requests)
  /\ sent \in [Requests -> Seq({"completed", "failed"})]
  /\ rpc \in [Requests -> HandlerSteps]
  /\ target \in [Requests -> Docs \union {None}]
  /\ wpc \in [Workers -> WorkerSteps]
  /\ job \in [Workers -> Job \union {None}]
  /\ bytes \in [Workers -> Requests \union {None}]
  /\ dpc \in [Deletes -> DeleteSteps]
  /\ victim \in [Deletes -> Docs \union {None}]

-----------------------------------------------------------------------------
(* Who is responsible for an upload whose outcome is not recorded yet.     *)

\* The handler: from the claim (or the insert) until the job is pushed or the
\* refusal is recorded.
HandlerPending == {"admit", "put", "push", "full", "undo"}

\* The worker: from the pop until the content is in place or the failure is
\* recorded.  A replacement ends with its cutover, a new document with the
\* "completed" write after its chunks are stored.
WorkerPending == {"fetch", "start", "extract", "chunk", "embed", "store",
                  "fail", "mark", "patch", "requeue", "push", "drop"}

HeldByHandler(r) == rpc[r] \in HandlerPending
HeldByQueue(r) == \E i \in DOMAIN queue : queue[i].req = r
HeldByWorker(r, w) ==
  /\ wpc[w] # "idle"
  /\ WReq(w) = r
  /\ \/ wpc[w] \in WorkerPending
     \/ wpc[w] = "finish" /\ ~IsReplace(r)

Pending(r) ==
  HeldByHandler(r) \/ HeldByQueue(r) \/ \E w \in Workers : HeldByWorker(r, w)

\* Somebody still works for the upload, if only to clean up after it.
InHands(r) ==
  \/ HeldByHandler(r)
  \/ HeldByQueue(r)
  \/ \E w \in Workers : wpc[w] # "idle" /\ WReq(w) = r

\* An unresolved upload is in one place: its handler, one slot of the queue or
\* one worker.  Two places would mean the same file ingested twice.
SingleCustody ==
  \A r \in Requests :
    /\ \A i, j \in DOMAIN queue : queue[i].req = r /\ queue[j].req = r => i = j
    /\ \A w, v \in Workers :
         wpc[w] # "idle" /\ wpc[v] # "idle" /\ WReq(w) = r /\ WReq(v) = r => w = v
    /\ ~(HeldByHandler(r) /\ HeldByQueue(r))
    /\ \A w \in Workers : wpc[w] # "idle" /\ WReq(w) = r
         => ~HeldByHandler(r) /\ ~HeldByQueue(r)

\* At most one upload of a document is unresolved: begin_document_replacement's
\* 409 answers make upload, worker and retry exclusive over several steps.
OneUploadPerDocument ==
  \A r, s \in Requests :
    Pending(r) /\ Pending(s) /\ target[r] = target[s] => r = s

\* A document carries the replacement_in_progress marker exactly while one
\* replacement of it is unresolved.  A marker nobody holds blocks the document
\* for good; a replacement without a marker admits a second one.
ClaimHasOwner ==
  \A d \in Docs : row[d].exists =>
    (row[d].detail = ReplacementInProgress
       <=> \E r \in Replaces : target[r] = d /\ Pending(r))

\* A worker that has read a payload works on the bytes of its own upload,
\* although every upload of a document is stored under the same key.
BytesMatch ==
  \A w \in Workers :
    wpc[w] \in Stages => bytes[w] = WReq(w)

\* Each upload ends once: one terminal webhook at most, one dead-letter entry
\* at most, none of them for an upload that was reported completed, and an
\* upload in the dead-letter list never runs again.
OneOutcome ==
  \A r \in Requests :
    /\ Len(sent[r]) <= 1
    /\ \A i, j \in DOMAIN dlq : dlq[i] = r /\ dlq[j] = r => i = j
    /\ (\E i \in DOMAIN dlq : dlq[i] = r) =>
         /\ sent[r] # <<"completed">>
         /\ ~HeldByQueue(r)
         /\ \A w \in Workers : wpc[w] # "idle" => WReq(w) # r

\* A completed document has content to retrieve from, unless its first ingestion
\* was reported as failed: the late clean-up of that job takes what a replacement
\* has stored since (delete_document_chunks; see ActiveContentKept).
CompletedHasContent ==
  \A d \in Docs :
    row[d].exists /\ row[d].status = "completed" /\ content[d] = None
    => sent[d] = <<"failed">>

\* A step that keeps CompletedHasContent, and swaps what a completed document has
\* only for the file of an upload of that document while one is at work.
ContentStep ==
  /\ CompletedHasContent'
  /\ \A d \in Docs :
       /\ row[d].exists /\ row'[d].exists
       /\ row[d].status = "completed"
       /\ content'[d] \notin {content[d], None}
       => /\ target[content'[d]] = d
          /\ \E r \in Requests : target[r] = d /\ Pending(r)

\* Whatever fails, and however many workers run, the content of a completed
\* document is never lost to anything but that clean-up, and is only swapped for
\* the file of an upload of the same document while one is at work.
ContentOutlivesUploads == [][ContentStep]_vars

\* How far an upload is, for ActiveContent: open until its outcome is recorded.
Phase(r) ==
  CASE rpc[r] = "new"                -> "new"
    [] rpc[r] # "new" /\ Pending(r)  -> "open"
    [] rpc[r] # "new" /\ ~Pending(r) -> "closed"

\* Whose file a document is retrieved from: only completed documents are.
InService(d) ==
  IF row[d].exists /\ row[d].status = "completed" THEN content[d] ELSE None

Phases == [r \in Requests |-> Phase(r)]
Serving == [d \in Docs |-> InService(d)]

Active == INSTANCE ActiveContent WITH
  Uploads <- Requests, phase <- Phases, aim <- target, serving <- Serving

\* Uploads, workers, retries and deletes together serve documents the way
\* ActiveContent says: each file goes into service at most once, when its upload
\* ends, and never comes back.
ServesActiveContent == Active!Spec

\* A document in a stage of its first ingestion (a status that refuses both
\* replacement and deletion) still has the upload that will end the stage.
\* "queued" is apart: QueuedIsPending.
StageHasUpload ==
  \A c \in Creates :
    row[c].exists /\ row[c].status \in StaleStatuses \ {"queued"} => InHands(c)

\* What the row says of an upload in progress, by status for a new document and
\* by status_detail for a replacement, is what somebody is doing: neither the
\* pipeline's nor the queue's half of the record is left behind or missing.
ProgressIsOwned == ClaimHasOwner /\ StageHasUpload

-----------------------------------------------------------------------------
(* Progress, under Fairness.                                               *)

\* Every job that reached the queue is reported: its webhook is scheduled.
EveryJobReported ==
  \A r \in Requests : rpc[r] = "link" ~> sent[r] # <<>>

\* No replacement marker is left behind: a document that is being replaced
\* becomes replaceable (or deletable) again.
ClaimsReleased ==
  \A d \in Docs : [](row[d].detail = ReplacementInProgress
                       => <>(row[d].detail # ReplacementInProgress))

-----------------------------------------------------------------------------
(* What the repository's texts say and some execution of the code breaks.  *)

\* A document in status "queued" has its upload still to run: the status flow
\* of ARCHITECTURE.md:168 starts at "queued" and never comes back to it.
QueuedIsPending ==
  \A c \in Creates :
    row[c].exists /\ row[c].status = "queued" => InHands(c)

\* The content of a completed document stays until an upload of that document is
\* "fully processed and swapped in" (upload.py:80-83): it is only ever swapped by
\* the replacement in flight, and never erased.
ActiveContentKept ==
  [][\A d \in Docs :
       /\ row[d].exists /\ row'[d].exists
       /\ row[d].status = "completed" /\ content[d] # None
       /\ content'[d] # content[d]
       => \E r \in Replaces :
            content'[d] = r /\ target[r] = d /\ Pending(r)]_vars

\* A replacement reported as failed has left the prior content of the document in
\* place: "Failures leave the active content untouched"
\* (ingestion_pipeline.py:1189).
FailedReplacementNotServed ==
  \A r \in Replaces, d \in Docs :
    sent[r] = <<"failed">> /\ sent[d] = <<"completed">> => content[d] # r
=============================================================================
