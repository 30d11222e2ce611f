--------------------------- MODULE IngestionProofs ---------------------------
(***************************************************************************)
(* Theorems about ingestion, for any uploads, deletes, workers, queue      *)
(* limit and retry budget.  Types, custody, outcomes and the content of    *)
(* completed documents hold under every fault.  The other theorems name    *)
(* the faults they exclude: NoLateFault, no call of the handler that fails *)
(* once its job is queued and no failing last write of a successful job,   *)
(* and OnlyEnqueueFails, no failing call but those before a job is queued. *)
(* The invariants: TypeInv, SingleCustody, OutcomeInv, Begun, Exclusive,   *)
(* Stored, Owned, OwnFiles, ContentInv, ServiceInv, each on those before   *)
(* it that its lemmas name.  The last section shows that ingestion         *)
(* implements ActiveContent.                                               *)
(***************************************************************************)
EXTENDS IngestionProperties, TLAPS

\* The steps at which a worker has decided to retry.
RetrySteps == {"mark", "patch", "requeue", "push"}

\* What TypeOK needs to be inductive: an upload under way has its document, a
\* busy worker has a job of such an upload, a retry has budget left, a delete
\* under way has its document.
Aimed ==
  /\ \A r \in Requests : rpc[r] # "new" => target[r] \in Docs
  /\ \A i \in DOMAIN queue : rpc[queue[i].req] # "new"
  /\ \A w \in Workers : wpc[w] # "idle" =>
       job[w] \in Job /\ rpc[job[w].req] # "new"
  /\ \A w \in Workers : wpc[w] \in RetrySteps => job[w].attempt < MaxRetries
  /\ \A x \in Deletes : dpc[x] # "new" => victim[x] \in Docs

TypeInv == TypeOK /\ Aimed

\* What the constants are assumed to be, in the words of Ingestion.
LEMMA RequestsAreNamed == Creates \intersect Replaces = {} /\ None \notin Requests
BY RequestsAssumption DEF Requests

USE RequestsAreNamed, QueueMaxAssumption, MaxRetriesAssumption

-----------------------------------------------------------------------------
(* What the operators of DocumentRow return.                               *)

\* Each transaction on a row of the documents table leaves a row.
LEMMA RowOperators ==
  ASSUME NEW o \in Row
  PROVE  /\ MissingRow \in Row /\ CreatedRow \in Row
         /\ ClaimedRow(o) \in Row /\ ReplacedRow(o) \in Row
         /\ \A s \in Statuses : UpdateStatus(o, s) \in Row
         /\ \A t \in Details : SetStatusDetail(o, t) \in Row
         /\ \A u \in BOOLEAN : SetArtifactUri(o, u) \in Row
BY DEF Row, MissingRow, CreatedRow, ClaimedRow, ReplacedRow, UpdateStatus,
       SetStatusDetail, SetArtifactUri, Statuses, StaleStatuses,
       ReplaceableStatuses, Details, NoDetail, ReplacementInProgress,
       ReplacementFailed

\* What waits in the queue is a job of some upload.
LEMMA QueuedJobs ==
  ASSUME TypeOK
  PROVE  \A i \in DOMAIN queue : queue[i] \in Job /\ queue[i].req \in Requests
<1>1. queue \in Seq(Job)
  BY DEF TypeOK
<1>2. ASSUME NEW i \in DOMAIN queue PROVE queue[i] \in Job
  BY <1>1
<1> QED
  BY <1>2 DEF Job

\* The system starts well typed.
LEMMA InitTypeInv == Init => TypeInv
<1> SUFFICES ASSUME Init PROVE TypeInv
  OBVIOUS
<1>1. TypeOK
  BY RowOperators DEF Init, TypeOK, Job, HandlerSteps, WorkerSteps, DeleteSteps, Stages,
     MissingRow, Row, Statuses, StaleStatuses, Details, NoDetail
<1>2. Aimed
  BY DEF Init, Aimed, RetrySteps
<1> QED
  BY <1>1, <1>2 DEF TypeInv

\* Each step of an upload handler keeps the type invariant.
LEMMA HandlerTypeInv ==
  ASSUME TypeInv, NEW r \in Requests, Handler(r)
  PROVE  TypeInv'
<1> USE DEF TypeInv, TypeOK, Aimed, RetrySteps, Docs, Requests, Doc, IsReplace,
            HandlerGoto, workerVars, deleteVars
<1>h. {"new", "admit", "put", "push", "link", "announce", "register", "full", "undo",
       "revoke", "accepted", "refused", "error", "conflict"} = HandlerSteps
  BY DEF HandlerSteps
<1>s. "failed" \in Statuses /\ "queued" \in Statuses /\ ReplacementFailed \in Details
  BY DEF Statuses, StaleStatuses, ReplaceableStatuses, Details
<1>d. rpc[r] # "new" => target[r] \in Docs /\ row[target[r]] \in Row
  OBVIOUS
<1>1. CASE CreateDocument(r)
  <2>1. row' = [row EXCEPT ![r] = CreatedRow] /\ CreatedRow \in Row
    BY <1>1 DEF CreateDocument, Row, CreatedRow, Statuses, StaleStatuses, Details, NoDetail
  <2>2. row' \in [Docs -> Row]
    BY <2>1
  <2>3. rpc' = [rpc EXCEPT ![r] = "admit"] /\ target' = [target EXCEPT ![r] = r] /\ r \in Docs
    BY <1>1 DEF CreateDocument
  <2>4. UNCHANGED <<content, artifact, queue, dlq, sent, workerVars, deleteVars>>
    BY <1>1 DEF CreateDocument
  <2> QED
    BY <2>2, <2>3, <2>4, <1>h
<1>2. ASSUME NEW d \in Docs, BeginReplacement(r, d)
      PROVE  TypeInv'
  <2>1. row' \in [Docs -> Row]
    <3>1. row[d] \in Row /\ ClaimedRow(row[d]) \in Row
      BY RowOperators
    <3>2. row' = [row EXCEPT ![d] = ClaimedRow(row[d])] \/ row' = row
      BY <1>2 DEF BeginReplacement
    <3> QED
      BY <3>1, <3>2
  <2>2. target' = [target EXCEPT ![r] = d]
    BY <1>2 DEF BeginReplacement
  <2>3. rpc' \in [Requests -> HandlerSteps] /\ rpc'[r] # "new"
        /\ \A q \in Requests : q # r => rpc'[q] = rpc[q]
    BY <1>2, <1>h DEF BeginReplacement
  <2>4. UNCHANGED <<content, artifact, queue, dlq, sent, workerVars, deleteVars>>
    BY <1>2 DEF BeginReplacement
  <2>5. TypeOK'
    BY <2>1, <2>2, <2>3, <2>4
  <2>6. \A q \in Requests : rpc[q] # "new" => rpc'[q] # "new"
    BY <2>3
  <2>7. \A i \in DOMAIN queue : queue[i].req \in Requests
    BY QueuedJobs
  <2>8. \A w \in Workers : wpc[w] # "idle" => job[w].req \in Requests
    BY DEF Job
  <2>9. Aimed'
    <3>1. \A q \in Requests : rpc'[q] # "new" => target'[q] \in Docs
      BY <2>2, <2>3
    <3>2. \A i \in DOMAIN queue' : rpc'[queue'[i].req] # "new"
      BY <2>4, <2>6, <2>7
    <3>3. \A w \in Workers : wpc'[w] # "idle" =>
            job'[w] \in Job /\ rpc'[job'[w].req] # "new"
      BY <2>4, <2>6, <2>8
    <3> QED
      BY <2>4, <3>1, <3>2, <3>3
  <2> QED
    BY <2>5, <2>9
<1>3. CASE CheckCapacity(r)
  BY <1>3, <1>h DEF CheckCapacity
<1>4. CASE PutArtifact(r)
  BY <1>4, <1>h DEF PutArtifact
<1>5. CASE PushJob(r)
  BY <1>5, <1>h DEF PushJob, Job
<1>6. CASE EnqueueError(r)
  <2>1. rpc[r] # "new" /\ rpc' = [rpc EXCEPT ![r] = "undo"]
    BY <1>6 DEF EnqueueError, RolledBack, PushUnacknowledged
  <2>2. artifact' \in [Docs -> Requests \union {None}]
    BY <1>6 DEF EnqueueError, RolledBack
  <2>3. UNCHANGED <<row, content, queue, dlq, sent, target, workerVars, deleteVars>>
    BY <1>6 DEF EnqueueError, RolledBack, PushUnacknowledged
  <2> QED
    BY <2>1, <2>2, <2>3, <1>h
<1>7. CASE LinkArtifact(r)
  <2>1. rpc[r] # "new" /\ SetArtifactUri(row[target[r]], TRUE) \in Row
    BY <1>7, <1>d, <1>s, RowOperators DEF LinkArtifact
  <2>2. row' \in [Docs -> Row]
    BY <1>7, <1>d, <2>1 DEF LinkArtifact
  <2>3. /\ rpc' = [rpc EXCEPT ![r] = "announce"]
        /\ UNCHANGED <<content, artifact, queue, dlq, sent, target, workerVars, deleteVars>>
    BY <1>7 DEF LinkArtifact
  <2> QED
    BY <2>1, <2>2, <2>3, <1>h
<1>8. CASE AnnounceQueued(r)
  <2>1. rpc[r] # "new" /\ UpdateStatus(row[target[r]], "queued") \in Row
    BY <1>8, <1>d, <1>s, RowOperators DEF AnnounceQueued
  <2>2. row' \in [Docs -> Row]
    BY <1>8, <1>d, <2>1 DEF AnnounceQueued
  <2>3. /\ rpc' = [rpc EXCEPT ![r] = "register"]
        /\ UNCHANGED <<content, artifact, queue, dlq, sent, target, workerVars, deleteVars>>
    BY <1>8 DEF AnnounceQueued
  <2> QED
    BY <2>1, <2>2, <2>3, <1>h
<1>9. CASE RegisterSession(r) \/ RouteError(r)
  <2>1. /\ rpc[r] # "new"
        /\ \E to \in {"accepted", "announce", "revoke"} : rpc' = [rpc EXCEPT ![r] = to]
        /\ UNCHANGED <<row, content, artifact, queue, dlq, sent, target,
                       workerVars, deleteVars>>
    BY <1>9 DEF RegisterSession, RouteError
  <2> QED
    BY <2>1, <1>h
<1>10. CASE RefuseFull(r)
  <2>1. /\ rpc[r] # "new"
        /\ SetStatusDetail(row[target[r]], ReplacementFailed) \in Row
        /\ UpdateStatus(row[target[r]], "failed") \in Row
    BY <1>10, <1>d, <1>s, RowOperators DEF RefuseFull
  <2>2. row' \in [Docs -> Row]
    BY <1>10, <1>d, <2>1 DEF RefuseFull, GivenUp
  <2>3. /\ rpc' = [rpc EXCEPT ![r] = "refused"]
        /\ UNCHANGED <<content, artifact, queue, dlq, sent, target, workerVars, deleteVars>>
    BY <1>10 DEF RefuseFull
  <2> QED
    BY <2>1, <2>2, <2>3, <1>h
<1>11. CASE UndoUpload(r)
  <2>1. /\ rpc[r] # "new"
        /\ SetStatusDetail(row[target[r]], ReplacementFailed) \in Row
        /\ UpdateStatus(row[target[r]], "failed") \in Row
    BY <1>11, <1>d, <1>s, RowOperators DEF UndoUpload
  <2>2. row' \in [Docs -> Row]
    BY <1>11, <1>d, <2>1 DEF UndoUpload, GivenUp
  <2>3. /\ rpc' = [rpc EXCEPT ![r] = "error"]
        /\ UNCHANGED <<content, artifact, queue, dlq, sent, target, workerVars, deleteVars>>
    BY <1>11 DEF UndoUpload
  <2> QED
    BY <2>1, <2>2, <2>3, <1>h
<1>12. CASE PushUnacknowledged(r)
  <2> DEFINE j == [req |-> r, attempt |-> 0]
  <2>1. /\ rpc[r] = "push" /\ rpc' = [rpc EXCEPT ![r] = "revoke"]
        /\ queue' = Append(queue, j) /\ j \in Job /\ j.req = r
        /\ UNCHANGED <<row, content, dlq, sent, target, workerVars, deleteVars>>
    BY <1>12 DEF PushUnacknowledged, Job
  <2>2. artifact' \in [Docs -> Requests \union {None}]
    BY <1>12 DEF PushUnacknowledged, RolledBack
  <2> HIDE DEF j
  <2>3. /\ DOMAIN queue = 1 .. Len(queue) /\ DOMAIN queue' = 1 .. Len(queue) + 1
        /\ Len(queue) \in Nat /\ queue' \in Seq(Job)
        /\ \A i \in 1 .. Len(queue) : queue'[i] = queue[i]
        /\ queue'[Len(queue) + 1] = j
    BY <2>1
  <2>4. TypeOK'
    BY <2>1, <2>2, <2>3, <1>h
  <2>5. \A i \in DOMAIN queue' : rpc'[queue'[i].req] # "new"
    BY <2>1, <2>3, QueuedJobs
  <2>6. \A w \in Workers : wpc[w] # "idle" => job[w].req \in Requests
    BY DEF Job
  <2> QED
    BY <2>1, <2>4, <2>5, <2>6
<1> QED
  BY <1>1, <1>2, <1>3, <1>4, <1>5, <1>6, <1>7, <1>8, <1>9, <1>10, <1>11, <1>12 DEF Handler

-----------------------------------------------------------------------------
(* The worker's steps.                                                     *)

\* A busy worker works for an upload that has its document.
LEMMA BusyWorker ==
  ASSUME TypeInv, NEW w \in Workers, wpc[w] # "idle"
  PROVE  /\ job[w] \in Job /\ WReq(w) \in Requests /\ job[w].attempt \in Nat
         /\ rpc[WReq(w)] # "new"
         /\ WDoc(w) \in Docs /\ row[WDoc(w)] \in Row
<1>1. job[w] \in Job /\ rpc[job[w].req] # "new"
  BY DEF TypeInv, Aimed
<1>2. job[w].req \in Requests /\ job[w].attempt \in Nat
  BY <1>1 DEF Job
<1>3. target[job[w].req] \in Docs
  BY <1>1, <1>2 DEF TypeInv, Aimed
<1> QED
  BY <1>1, <1>2, <1>3 DEF TypeInv, TypeOK, WReq, WDoc

\* A step that moves one busy worker and keeps its job.
LEMMA WorkerMove ==
  ASSUME TypeInv, NEW w \in Workers, wpc[w] # "idle",
         NEW to \in WorkerSteps, to # "idle",
         to \in RetrySteps => job[w].attempt < MaxRetries,
         wpc' = [wpc EXCEPT ![w] = to],
         row' \in [Docs -> Row],
         content' \in [Docs -> Requests \union {None}],
         artifact' \in [Docs -> Requests \union {None}],
         sent' \in [Requests -> Seq({"completed", "failed"})],
         bytes' \in [Workers -> Requests \union {None}],
         UNCHANGED <<queue, dlq, job, uploadVars, deleteVars>>
  PROVE  TypeInv'
<1>1. UNCHANGED <<queue, dlq, job, rpc, target, dpc, victim>>
  BY DEF uploadVars, deleteVars
<1>2. TypeOK'
  BY <1>1 DEF TypeInv, TypeOK
<1>3. Aimed'
  BY <1>1 DEF TypeInv, TypeOK, Aimed
<1> QED
  BY <1>2, <1>3 DEF TypeInv

\* A step that frees one worker.
LEMMA WorkerFree ==
  ASSUME TypeInv, NEW w \in Workers, wpc[w] # "idle",
         wpc' = [wpc EXCEPT ![w] = "idle"], Released(w),
         row' \in [Docs -> Row], queue' \in Seq(Job), dlq' \in Seq(Requests),
         \A i \in DOMAIN queue' : rpc[queue'[i].req] # "new",
         UNCHANGED <<content, artifact, sent, uploadVars, deleteVars>>
  PROVE  TypeInv'
<1>1. UNCHANGED <<content, artifact, sent, rpc, target, dpc, victim>>
  BY DEF uploadVars, deleteVars
<1>2. "idle" \in WorkerSteps /\ "idle" \notin RetrySteps
  BY DEF WorkerSteps, RetrySteps
<1>3. /\ wpc' \in [Workers -> WorkerSteps]
      /\ job' \in [Workers -> Job \union {None}]
      /\ bytes' \in [Workers -> Requests \union {None}]
  BY <1>2 DEF TypeInv, TypeOK, Released
<1>4. TypeOK'
  BY <1>1, <1>3 DEF TypeInv, TypeOK
<1>5. \A v \in Workers : wpc'[v] # "idle" => wpc'[v] = wpc[v] /\ job'[v] = job[v]
  BY DEF TypeInv, TypeOK, Released
<1>6. Aimed'
  BY <1>1, <1>2, <1>5 DEF TypeInv, Aimed
<1> QED
  BY <1>4, <1>6 DEF TypeInv

\* Popping a job, or pushing a retry, keeps the queue a queue of jobs.
LEMMA QueueTail ==
  ASSUME TypeInv, queue # <<>>
  PROVE  /\ Head(queue) \in Job /\ rpc[Head(queue).req] # "new"
         /\ Tail(queue) \in Seq(Job)
         /\ \A i \in DOMAIN Tail(queue) : rpc[Tail(queue)[i].req] # "new"
<1>1. queue \in Seq(Job) /\ \A i \in DOMAIN queue : rpc[queue[i].req] # "new"
  BY DEF TypeInv, TypeOK, Aimed
<1>2. Tail(queue) \in Seq(Job) /\ Len(Tail(queue)) = Len(queue) - 1
      /\ Len(queue) \in Nat \ {0} /\ Head(queue) = queue[1]
      /\ DOMAIN queue = 1 .. Len(queue)
      /\ DOMAIN Tail(queue) = 1 .. Len(Tail(queue))
      /\ \A i \in 1 .. Len(Tail(queue)) : Tail(queue)[i] = queue[i + 1]
  BY <1>1
<1> QED
  BY <1>1, <1>2, QueuedJobs DEF TypeInv

\* Pushing a job at the end keeps the queue a queue of jobs.
LEMMA QueueAppend ==
  ASSUME TypeInv, NEW j \in Job, rpc[j.req] # "new"
  PROVE  /\ Append(queue, j) \in Seq(Job)
         /\ \A i \in DOMAIN Append(queue, j) : rpc[Append(queue, j)[i].req] # "new"
<1>1. queue \in Seq(Job) /\ \A i \in DOMAIN queue : rpc[queue[i].req] # "new"
  BY DEF TypeInv, TypeOK, Aimed
<1>2. Append(queue, j) \in Seq(Job) /\ DOMAIN Append(queue, j) = 1 .. Len(queue) + 1
      /\ DOMAIN queue = 1 .. Len(queue) /\ Len(queue) \in Nat
      /\ \A i \in 1 .. Len(queue) : Append(queue, j)[i] = queue[i]
      /\ Append(queue, j)[Len(queue) + 1] = j
  BY <1>1
<1> QED
  BY <1>1, <1>2

\* Each step of a worker keeps the type invariant.
LEMMA WorkerTypeInv ==
  ASSUME TypeInv, NEW w \in Workers, Worker(w)
  PROVE  TypeInv'
<1> DEFINE d == WDoc(w)
           q == WReq(w)
           Moves(to) == /\ wpc[w] # "idle"
                        /\ wpc' = [wpc EXCEPT ![w] = to]
                        /\ UNCHANGED <<queue, dlq, job, uploadVars, deleteVars>>
<1>s. {"extracting", "chunking", "embedding", "storing", "completed",
       "retrying", "failed"} \subseteq Statuses
      /\ ReplacementInProgress \in Details /\ ReplacementFailed \in Details
  BY DEF Statuses, StaleStatuses, ReplaceableStatuses, Details
<1>t. /\ row \in [Docs -> Row]
      /\ content \in [Docs -> Requests \union {None}]
      /\ artifact \in [Docs -> Requests \union {None}]
      /\ sent \in [Requests -> Seq({"completed", "failed"})]
      /\ bytes \in [Workers -> Requests \union {None}]
      /\ dlq \in Seq(Requests) /\ queue \in Seq(Job)
  BY DEF TypeInv, TypeOK
<1>r. ASSUME NEW e \in Row, row' = [row EXCEPT ![d] = e] PROVE row' \in [Docs -> Row]
  BY <1>r, <1>t
<1>m. ASSUME NEW to \in WorkerSteps, Moves(to), to # "idle",
             to \in RetrySteps => job[w].attempt < MaxRetries,
             row' \in [Docs -> Row],
             content' \in [Docs -> Requests \union {None}],
             artifact' \in [Docs -> Requests \union {None}],
             sent' \in [Requests -> Seq({"completed", "failed"})],
             bytes' \in [Workers -> Requests \union {None}]
      PROVE  TypeInv'
  BY <1>m, WorkerMove
<1>b. wpc[w] # "idle" =>
        /\ job[w] \in Job /\ q \in Requests /\ job[w].attempt \in Nat
        /\ rpc[q] # "new" /\ d \in Docs /\ row[d] \in Row
  BY BusyWorker
<1>a. wpc[w] \in RetrySteps => job[w].attempt < MaxRetries
  BY DEF TypeInv, Aimed
<1>n. ASSUME NEW o \in {"completed", "failed"}, Notified(w, o), wpc[w] # "idle"
      PROVE  sent' \in [Requests -> Seq({"completed", "failed"})]
  <2>1. q \in Requests /\ sent[q] \in Seq({"completed", "failed"})
    BY <1>n, <1>b, <1>t
  <2>2. Append(sent[q], o) \in Seq({"completed", "failed"})
    BY <1>n, <2>1
  <2>3. sent' = [sent EXCEPT ![q] = Append(sent[q], o)] \/ sent' = sent
    BY <1>n DEF Notified
  <2> QED
    BY <2>2, <2>3, <1>t
<1> HIDE DEF d, q
<1>steps. {"fetch", "notify", "discard", "unlink", "fail", "report", "wipe",
           "purge", "detach", "bury", "mark", "patch", "requeue", "push", "drop",
           "reportdrop", "start", "extract", "chunk", "embed", "store", "finish"}
          \subseteq WorkerSteps
  BY DEF WorkerSteps, Stages
<1>retry. RetrySteps = {"mark", "patch", "requeue", "push"}
  BY DEF RetrySteps
<1>1. CASE TakeJob(w)
  <2>1. /\ Head(queue) \in Job /\ rpc[Head(queue).req] # "new"
        /\ queue' \in Seq(Job) /\ \A i \in DOMAIN queue' : rpc[queue'[i].req] # "new"
    BY <1>1, QueueTail DEF TakeJob
  <2>2. /\ wpc' = [wpc EXCEPT ![w] = "fetch"]
        /\ job' = [job EXCEPT ![w] = Head(queue)]
        /\ UNCHANGED <<row, content, artifact, dlq, sent, bytes, rpc, target, dpc, victim>>
    BY <1>1 DEF TakeJob, WorkerGoto, uploadVars, deleteVars
  <2>3. TypeOK'
    BY <2>1, <2>2, <1>steps DEF TypeInv, TypeOK
  <2>4. Aimed'
    BY <2>1, <2>2, <1>retry DEF TypeInv, TypeOK, Aimed
  <2> QED
    BY <2>3, <2>4 DEF TypeInv
<1>2. CASE FetchArtifact(w)
  <2>1. Moves("drop") \/ Moves("start")
    BY <1>2 DEF FetchArtifact
  <2>2. bytes' \in [Workers -> Requests \union {None}]
    BY <1>2, <1>t, <1>b DEF FetchArtifact, d
  <2>3. UNCHANGED <<row, content, artifact, sent>>
    BY <1>2 DEF FetchArtifact
  <2> QED
    BY <2>1, <2>2, <2>3, <1>m, <1>t, <1>steps, <1>retry
<1>3. CASE FetchError(w)
  <2>1. Moves("purge") \/ (Moves("patch") /\ job[w].attempt < MaxRetries)
    BY <1>3 DEF FetchError
  <2>2. UNCHANGED <<row, content, artifact, sent, bytes>>
    BY <1>3 DEF FetchError
  <2> QED
    BY <2>1, <2>2, <1>m, <1>t, <1>steps, <1>retry
<1>stage. ASSUME NEW from, from # "idle", NEW to \in WorkerSteps, to # "idle", to \notin RetrySteps,
                 NEW st \in Statuses, StageStep(w, from, to, st)
          PROVE  TypeInv'
  <2>1. Moves(to) /\ UNCHANGED <<content, artifact, sent, bytes>>
    BY <1>stage DEF StageStep, WorkerGoto
  <2>2. UpdateStatus(row[d], st) \in Row
    BY <2>1, <1>b, RowOperators
  <2>3. row' = row \/ row' = [row EXCEPT ![d] = UpdateStatus(row[d], st)]
    BY <1>stage DEF StageStep, StageStatus, d
  <2>4. row' \in [Docs -> Row]
    BY <2>2, <2>3, <1>r, <1>t
  <2> QED
    BY <2>1, <2>4, <1>stage, <1>m, <1>t
<1>4. CASE StartExtracting(w)
  BY <1>4, <1>stage, <1>s, <1>steps, <1>retry DEF StartExtracting
<1>5. CASE StartChunking(w)
  BY <1>5, <1>stage, <1>s, <1>steps, <1>retry DEF StartChunking
<1>6. CASE StartEmbedding(w)
  BY <1>6, <1>stage, <1>s, <1>steps, <1>retry DEF StartEmbedding
<1>7. CASE EmbedProgress(w)
  BY <1>7, <1>stage, <1>s, <1>steps, <1>retry DEF EmbedProgress
<1>8. CASE StartStoring(w)
  BY <1>8, <1>stage, <1>s, <1>steps, <1>retry DEF StartStoring
<1>9. CASE FinishJob(w)
  BY <1>9, <1>stage, <1>s, <1>steps, <1>retry DEF FinishJob
<1>10. CASE StoreContent(w)
  <2>1. Moves("finish") \/ Moves("fail")
    BY <1>10 DEF StoreContent
  <2>2. content' \in [Docs -> Requests \union {None}]
    BY <1>10, <1>t DEF StoreContent, d
  <2>3. row' = row \/ row' = [row EXCEPT ![d] = ReplacedRow(row[d])]
    BY <1>10 DEF StoreContent, d
  <2>4. ReplacedRow(row[d]) \in Row
    BY <2>1, <1>b, RowOperators
  <2>5. UNCHANGED <<artifact, sent, bytes>>
    BY <1>10 DEF StoreContent
  <2>6. row' \in [Docs -> Row]
    BY <2>3, <2>4, <1>r, <1>t
  <2> QED
    BY <2>1, <2>2, <2>5, <2>6, <1>m, <1>t, <1>steps, <1>retry
<1>11. CASE NotifyCompleted(w)
  <2>1. Moves("discard") /\ Notified(w, "completed")
        /\ UNCHANGED <<row, content, artifact, bytes>>
    BY <1>11 DEF NotifyCompleted, WorkerGoto
  <2> QED
    BY <2>1, <1>n, <1>m, <1>t, <1>steps, <1>retry
<1>12. CASE DiscardArtifact(w)
  <2>1. Moves("unlink") /\ UNCHANGED <<row, content, sent, bytes>>
    BY <1>12 DEF DiscardArtifact, DeleteArtifact, WorkerGoto
  <2>2. artifact' \in [Docs -> Requests \union {None}]
    BY <1>12, <1>t DEF DiscardArtifact, DeleteArtifact
  <2> QED
    BY <2>1, <2>2, <1>m, <1>t, <1>steps, <1>retry
<1>13. CASE PurgeArtifact(w)
  <2>1. Moves("detach") /\ UNCHANGED <<row, content, sent, bytes>>
    BY <1>13 DEF PurgeArtifact, DeleteArtifact, WorkerGoto
  <2>2. artifact' \in [Docs -> Requests \union {None}]
    BY <1>13, <1>t DEF PurgeArtifact, DeleteArtifact
  <2> QED
    BY <2>1, <2>2, <1>m, <1>t, <1>steps, <1>retry
<1>14. CASE UnlinkArtifact(w)
  <2>1. /\ wpc[w] # "idle" /\ wpc' = [wpc EXCEPT ![w] = "idle"] /\ Released(w)
        /\ row' = [row EXCEPT ![d] = SetArtifactUri(row[d], FALSE)]
        /\ UNCHANGED <<content, artifact, queue, dlq, sent, uploadVars, deleteVars>>
    BY <1>14 DEF UnlinkArtifact, WorkerGoto, d
  <2>2. SetArtifactUri(row[d], FALSE) \in Row
    BY <2>1, <1>b, RowOperators
  <2>3. row' \in [Docs -> Row]
    BY <2>1, <2>2, <1>r
  <2>4. \A i \in DOMAIN queue' : rpc[queue'[i].req] # "new"
    BY <2>1 DEF TypeInv, Aimed
  <2> QED
    BY <2>1, <2>3, <2>4, <1>t, WorkerFree
<1>15. CASE DetachArtifact(w)
  <2>1. /\ Moves("bury") /\ UNCHANGED <<content, artifact, sent, bytes>>
        /\ row' = [row EXCEPT ![d] = SetArtifactUri(row[d], FALSE)]
    BY <1>15 DEF DetachArtifact, WorkerGoto, d
  <2>2. SetArtifactUri(row[d], FALSE) \in Row
    BY <2>1, <1>b, RowOperators
  <2>3. row' \in [Docs -> Row]
    BY <2>1, <2>2, <1>r
  <2> QED
    BY <2>1, <2>3, <1>m, <1>t, <1>steps, <1>retry
<1>16. CASE \E permanent \in BOOLEAN : PipelineError(w, permanent)
  <2> PICK permanent \in BOOLEAN : PipelineError(w, permanent)
    BY <1>16
  <2>1. Moves("fail") \/ (Moves("mark") /\ ~(job[w].attempt >= MaxRetries))
    BY DEF PipelineError, Stages, IsTerminal
  <2>2. UNCHANGED <<row, content, artifact, sent, bytes>>
    BY DEF PipelineError
  <2>3. wpc[w] # "idle"
    BY DEF PipelineError, Stages
  <2>4. Moves("fail") \/ (Moves("mark") /\ job[w].attempt < MaxRetries)
    <3>1. job[w].attempt \in Nat
      BY <2>3, <1>b
    <3> QED
      BY <2>1, <3>1
  <2> QED
    BY <2>2, <2>4, <1>m, <1>t, <1>steps, <1>retry
<1>17. CASE MarkRetrying(w)
  <2>1. Moves("patch") /\ UNCHANGED <<content, artifact, sent, bytes>>
        /\ job[w].attempt < MaxRetries
    BY <1>17, <1>a, <1>retry DEF MarkRetrying, WorkerGoto
  <2>2. \/ row' = [row EXCEPT ![d] = SetStatusDetail(row[d], ReplacementInProgress)]
        \/ row' = [row EXCEPT ![d] = UpdateStatus(row[d], "retrying")]
    BY <1>17 DEF MarkRetrying, Retrying, d
  <2>3. row' \in [Docs -> Row]
    BY <2>1, <2>2, <1>b, <1>s, <1>r, RowOperators
  <2> QED
    BY <2>1, <2>3, <1>m, <1>t, <1>steps
<1>18. CASE PatchRetrying(w)
  <2>1. Moves("requeue") /\ UNCHANGED <<content, artifact, sent, bytes>>
        /\ job[w].attempt < MaxRetries
    BY <1>18, <1>a, <1>retry DEF PatchRetrying, WorkerGoto
  <2>2. \/ row' = [row EXCEPT ![d] = SetStatusDetail(row[d], ReplacementInProgress)]
        \/ row' = [row EXCEPT ![d] = UpdateStatus(row[d], "retrying")]
    BY <1>18 DEF PatchRetrying, Retrying, d
  <2>3. row' \in [Docs -> Row]
    BY <2>1, <2>2, <1>b, <1>s, <1>r, RowOperators
  <2> QED
    BY <2>1, <2>3, <1>m, <1>t, <1>steps
<1>19. CASE CheckRequeue(w)
  <2>1. Moves("drop") \/ Moves("push")
    BY <1>19 DEF CheckRequeue
  <2>2. UNCHANGED <<row, content, artifact, sent, bytes>> /\ job[w].attempt < MaxRetries
    BY <1>19, <1>a, <1>retry DEF CheckRequeue
  <2> QED
    BY <2>1, <2>2, <1>m, <1>t, <1>steps
<1>20. CASE PushRetry(w)
  <2>1. /\ wpc[w] # "idle" /\ wpc' = [wpc EXCEPT ![w] = "idle"] /\ Released(w)
        /\ queue' = Append(queue, [job[w] EXCEPT !.attempt = @ + 1])
        /\ UNCHANGED <<row, content, artifact, dlq, sent, uploadVars, deleteVars>>
        /\ job[w].attempt < MaxRetries
    BY <1>20, <1>a, <1>retry DEF PushRetry, WorkerGoto
  <2>2. [job[w] EXCEPT !.attempt = @ + 1] \in Job
        /\ [job[w] EXCEPT !.attempt = @ + 1].req = q
    BY <2>1, <1>b DEF Job, WReq, q
  <2>3. /\ queue' \in Seq(Job)
        /\ \A i \in DOMAIN queue' : rpc[queue'[i].req] # "new"
    BY <2>1, <2>2, <1>b, QueueAppend
  <2> QED
    BY <2>1, <2>3, <1>t, WorkerFree
<1>21. CASE RecordFailure(w)
  <2>1. Moves("report") /\ UNCHANGED <<content, artifact, sent, bytes>>
    BY <1>21 DEF RecordFailure, WorkerGoto
  <2>2. \/ row' = [row EXCEPT ![d] = SetStatusDetail(row[d], ReplacementFailed)]
        \/ row' = [row EXCEPT ![d] = UpdateStatus(row[d], "failed")]
    BY <1>21 DEF RecordFailure, TerminallyFailed, d
  <2>3. row' \in [Docs -> Row]
    BY <2>1, <2>2, <1>b, <1>s, <1>r, RowOperators
  <2> QED
    BY <2>1, <2>3, <1>m, <1>t, <1>steps, <1>retry
<1>22. CASE RecordDropped(w)
  <2>1. Moves("reportdrop") /\ UNCHANGED <<content, artifact, sent, bytes>>
    BY <1>22 DEF RecordDropped, WorkerGoto
  <2>2. \/ row' = [row EXCEPT ![d] = SetStatusDetail(row[d], ReplacementFailed)]
        \/ row' = [row EXCEPT ![d] = UpdateStatus(row[d], "failed")]
    BY <1>22 DEF RecordDropped, TerminallyFailed, d
  <2>3. row' \in [Docs -> Row]
    BY <2>1, <2>2, <1>b, <1>s, <1>r, RowOperators
  <2> QED
    BY <2>1, <2>3, <1>m, <1>t, <1>steps, <1>retry
<1>23. CASE ReportFailure(w)
  <2>1. Moves("purge") \/ Moves("wipe")
    BY <1>23 DEF ReportFailure
  <2>2. Notified(w, "failed") /\ UNCHANGED <<row, content, artifact, bytes>>
    BY <1>23 DEF ReportFailure
  <2> QED
    BY <2>1, <2>2, <1>n, <1>m, <1>t, <1>steps, <1>retry
<1>24. CASE ReportDropped(w)
  <2>1. Moves("bury") /\ Notified(w, "failed") /\ UNCHANGED <<row, content, artifact, bytes>>
    BY <1>24 DEF ReportDropped, WorkerGoto
  <2> QED
    BY <2>1, <1>n, <1>m, <1>t, <1>steps, <1>retry
<1>25. CASE WipeChunks(w)
  <2>1. Moves("purge") /\ UNCHANGED <<row, artifact, sent, bytes>>
    BY <1>25 DEF WipeChunks, WorkerGoto
  <2>2. content' \in [Docs -> Requests \union {None}]
    BY <1>25, <1>t DEF WipeChunks
  <2> QED
    BY <2>1, <2>2, <1>m, <1>t, <1>steps, <1>retry
<1>26. CASE RecordError(w)
  <2>1. \/ Moves("patch") /\ wpc[w] = "mark"
        \/ Moves("requeue") /\ wpc[w] = "patch"
        \/ Moves("purge")
        \/ Moves("bury")
    BY <1>26 DEF RecordError, WorkerGoto
  <2>2. UNCHANGED <<row, content, artifact, sent, bytes>>
    BY <1>26 DEF RecordError
  <2> QED
    BY <2>1, <2>2, <1>a, <1>m, <1>t, <1>steps, <1>retry
<1>27. CASE BuryJob(w)
  <2>1. /\ wpc[w] # "idle" /\ wpc' = [wpc EXCEPT ![w] = "idle"] /\ Released(w)
        /\ dlq' = Append(dlq, q)
        /\ UNCHANGED <<row, content, artifact, queue, sent, uploadVars, deleteVars>>
    BY <1>27 DEF BuryJob, WorkerGoto, q
  <2>2. dlq' \in Seq(Requests)
    BY <2>1, <1>b, <1>t
  <2>3. \A i \in DOMAIN queue' : rpc[queue'[i].req] # "new"
    BY <2>1 DEF TypeInv, Aimed
  <2> QED
    BY <2>1, <2>2, <2>3, <1>t, WorkerFree
<1>28. CASE CleanupError(w) \/ RedisError(w)
  <2>1. /\ wpc[w] # "idle"
        /\ UNCHANGED <<row, content, artifact, queue, dlq, sent, uploadVars, deleteVars>>
        /\ \/ /\ \E to \in {"purge", "detach", "bury", "unlink"} : Moves(to)
              /\ UNCHANGED bytes
           \/ wpc' = [wpc EXCEPT ![w] = "idle"] /\ Released(w)
    BY <1>28 DEF CleanupError, RedisError, WorkerGoto
  <2>2. CASE wpc' = [wpc EXCEPT ![w] = "idle"] /\ Released(w)
    <3>1. \A i \in DOMAIN queue' : rpc[queue'[i].req] # "new"
      BY <2>1 DEF TypeInv, Aimed
    <3> QED
      BY <2>1, <2>2, <3>1, <1>t, WorkerFree
  <2>3. ASSUME NEW to \in {"purge", "detach", "bury", "unlink"}, Moves(to), bytes' = bytes
        PROVE  TypeInv'
    <3>1. to \in WorkerSteps /\ to # "idle" /\ to \notin RetrySteps
      BY <2>3 DEF WorkerSteps, RetrySteps
    <3> QED
      BY <2>1, <2>3, <3>1, <1>m, <1>t
  <2> QED
    BY <2>1, <2>2, <2>3
<1> QED
  BY <1>1, <1>2, <1>3, <1>4, <1>5, <1>6, <1>7, <1>8, <1>9, <1>10, <1>11,
     <1>12, <1>13, <1>14, <1>15, <1>16, <1>17, <1>18, <1>19, <1>20, <1>21,
     <1>22, <1>23, <1>24, <1>25, <1>26, <1>27, <1>28 DEF Worker

-----------------------------------------------------------------------------
(* Deletes, and the theorem.                                               *)

\* Each step of a delete keeps the type invariant.
LEMMA DeleterTypeInv ==
  ASSUME TypeInv, NEW x \in Deletes, Deleter(x)
  PROVE  TypeInv'
<1> USE DEF TypeInv, TypeOK, Aimed, uploadVars, workerVars
<1>s. {"new", "checked", "commit", "deleted", "refused"} = DeleteSteps
  BY DEF DeleteSteps
<1>1. ASSUME NEW d \in Docs, ReadForDelete(x, d) PROVE TypeInv'
  BY <1>1, <1>s DEF ReadForDelete
<1>2. CASE CheckQueued(x)
  BY <1>2, <1>s DEF CheckQueued
<1>3. CASE DeleteDocument(x)
  <2>1. dpc[x] # "new" /\ victim[x] \in Docs
    BY <1>3 DEF DeleteDocument
  <2>2. MissingRow \in Row
    BY RowOperators, <2>1
  <2>3. /\ row' = [row EXCEPT ![victim[x]] = MissingRow]
        /\ content' = [content EXCEPT ![victim[x]] = None]
    BY <1>3 DEF DeleteDocument
  <2>4. /\ dpc' = [dpc EXCEPT ![x] = "deleted"]
        /\ UNCHANGED <<artifact, queue, dlq, sent, victim, uploadVars, workerVars>>
    BY <1>3 DEF DeleteDocument
  <2>5. row' \in [Docs -> Row] /\ content' \in [Docs -> Requests \union {None}]
    BY <2>2, <2>3
  <2>6. UNCHANGED <<artifact, queue, dlq, sent, victim, rpc, target, wpc, job, bytes>>
    BY <2>4
  <2>7. dpc' \in [Deletes -> DeleteSteps]
    BY <2>4, <1>s
  <2>8. TypeOK'
    BY <2>5, <2>6, <2>7
  <2>9. \A y \in Deletes : dpc'[y] # "new" => victim'[y] \in Docs
    BY <2>1, <2>4, <2>6
  <2>10. Aimed'
    BY <2>6, <2>9
  <2> QED
    BY <2>8, <2>10
<1> QED
  BY <1>1, <1>2, <1>3 DEF Deleter

\* So does a step that changes nothing.
LEMMA StutterTypeInv == TypeInv /\ UNCHANGED vars => TypeInv'
BY DEF TypeInv, TypeOK, Aimed, vars

\* Every state of the specification is well typed: whatever the interleaving of
\* uploads, deletes and workers, and whatever fault strikes, rows keep legal
\* statuses and no job is retried beyond QUEUE_JOB_MAX_RETRIES.
THEOREM TypeCorrect == Spec => []TypeOK
<1>1. TypeInv /\ [Next]_vars => TypeInv'
  BY HandlerTypeInv, WorkerTypeInv, DeleterTypeInv, StutterTypeInv DEF Next, Quiescent
<1>2. TypeInv => TypeOK
  BY DEF TypeInv
<1> QED
  BY InitTypeInv, <1>1, <1>2, PTL DEF Spec

-----------------------------------------------------------------------------
(* Custody of an upload.                                                  *)

\* The type invariant as a theorem of its own, for the proofs that follow.
LEMMA TypeInvariant == Spec => []TypeInv
<1>1. TypeInv /\ [Next]_vars => TypeInv'
  BY HandlerTypeInv, WorkerTypeInv, DeleterTypeInv, StutterTypeInv DEF Next, Quiescent
<1> QED
  BY InitTypeInv, <1>1, PTL DEF Spec

Busy(w) == wpc[w] # "idle"

\* Steps that push nothing, pop nothing and start nothing keep custody.
LEMMA CustodyShrinks ==
  ASSUME SingleCustody, queue' = queue,
         \A r \in Requests : HeldByHandler(r)' => HeldByHandler(r),
         \A w \in Workers : Busy(w)' => Busy(w) /\ job'[w] = job[w]
  PROVE  SingleCustody'
BY DEF SingleCustody, HeldByQueue, WReq, Busy

\* An upload that has not begun is neither queued nor in a worker.
LEMMA NewIsNowhere ==
  ASSUME TypeInv, NEW r \in Requests, rpc[r] = "new"
  PROVE  ~HeldByQueue(r) /\ \A w \in Workers : Busy(w) => WReq(w) # r
BY DEF TypeInv, Aimed, HeldByQueue, Busy, WReq

\* An upload handler pushes its own job once and gives it up with the push.
LEMMA HandlerCustody ==
  ASSUME TypeInv, SingleCustody, NEW r \in Requests, Handler(r)
  PROVE  SingleCustody'
<1>t. rpc \in [Requests -> HandlerSteps] /\ queue \in Seq(Job)
  BY DEF TypeInv, TypeOK
<1>1. CASE PushJob(r) \/ PushUnacknowledged(r)
  <2> DEFINE j == [req |-> r, attempt |-> 0]
  <2>1. /\ rpc[r] = "push" /\ \E to \in {"link", "revoke"} : rpc' = [rpc EXCEPT ![r] = to]
        /\ queue' = Append(queue, j) /\ UNCHANGED <<wpc, job>>
    BY <1>1 DEF PushJob, PushUnacknowledged, HandlerGoto, workerVars
  <2>2. HeldByHandler(r) /\ ~HeldByQueue(r) /\ \A w \in Workers : Busy(w) => WReq(w) # r
    BY <2>1 DEF HeldByHandler, HandlerPending, SingleCustody, Busy
  <2>3. /\ DOMAIN queue = 1 .. Len(queue) /\ DOMAIN queue' = 1 .. Len(queue) + 1
        /\ Len(queue) \in Nat
        /\ \A i \in 1 .. Len(queue) : queue'[i] = queue[i]
        /\ queue'[Len(queue) + 1] = j
    BY <1>t, <2>1
  <2>4. \A q \in Requests : HeldByHandler(q)' => HeldByHandler(q) /\ q # r
    BY <2>1, <1>t DEF HeldByHandler, HandlerPending
  <2>5. \A q \in Requests : HeldByQueue(q)' => HeldByQueue(q) \/ q = r
    BY <2>3 DEF HeldByQueue
  <2>6. \A q \in Requests : \A i, k \in DOMAIN queue' :
          queue'[i].req = q /\ queue'[k].req = q => i = k
    BY <2>2, <2>3 DEF HeldByQueue, SingleCustody
  <2>7. \A w \in Workers : (Busy(w)' <=> Busy(w)) /\ WReq(w)' = WReq(w)
    BY <2>1 DEF Busy, WReq
  <2> QED
    BY <2>2, <2>4, <2>5, <2>6, <2>7 DEF SingleCustody, Busy
<1>2. CASE CreateDocument(r) \/ \E d \in Docs : BeginReplacement(r, d)
  <2>1. /\ rpc[r] = "new" /\ UNCHANGED <<queue, wpc, job>>
        /\ \A q \in Requests : q # r => rpc'[q] = rpc[q]
    BY <1>2, <1>t DEF CreateDocument, BeginReplacement, HandlerGoto, workerVars
  <2>2. ~HeldByQueue(r) /\ \A w \in Workers : Busy(w) => WReq(w) # r
    BY <2>1, NewIsNowhere
  <2>3. \A q \in Requests : HeldByHandler(q)' => HeldByHandler(q) \/ q = r
    BY <2>1 DEF HeldByHandler
  <2>4. \A q \in Requests : HeldByQueue(q)' <=> HeldByQueue(q)
    BY <2>1 DEF HeldByQueue
  <2>5. \A w \in Workers : (Busy(w)' <=> Busy(w)) /\ WReq(w)' = WReq(w)
    BY <2>1 DEF Busy, WReq
  <2> QED
    BY <2>1, <2>2, <2>3, <2>4, <2>5 DEF SingleCustody, Busy
<1>3. CASE \/ CheckCapacity(r) \/ PutArtifact(r) \/ EnqueueError(r) \/ LinkArtifact(r)
           \/ AnnounceQueued(r) \/ RegisterSession(r) \/ RouteError(r) \/ RefuseFull(r)
           \/ UndoUpload(r)
  <2>1. UNCHANGED <<queue, wpc, job>>
    BY <1>3 DEF CheckCapacity, PutArtifact, EnqueueError, RolledBack, PushUnacknowledged,
       LinkArtifact,
       AnnounceQueued, RegisterSession, RouteError, RefuseFull, UndoUpload, workerVars
  <2>2. \A q \in Requests : HeldByHandler(q)' => HeldByHandler(q)
    BY <1>3, <1>t DEF CheckCapacity, PutArtifact, EnqueueError, RolledBack,
       PushUnacknowledged, LinkArtifact,
       AnnounceQueued, RegisterSession, RouteError, RefuseFull, UndoUpload, HandlerGoto,
       HeldByHandler, HandlerPending
  <2> QED
    BY <2>1, <2>2, CustodyShrinks DEF Busy
<1> QED
  BY <1>1, <1>2, <1>3 DEF Handler

\* A worker takes its job off the queue, and lets go of the one it pushes back.
LEMMA WorkerCustody ==
  ASSUME TypeInv, SingleCustody, NEW w \in Workers, Worker(w)
  PROVE  SingleCustody'
<1>t. /\ wpc \in [Workers -> WorkerSteps] /\ job \in [Workers -> Job \union {None}]
      /\ queue \in Seq(Job)
  BY DEF TypeInv, TypeOK
<1>1. CASE TakeJob(w)
  <2>1. /\ wpc[w] = "idle" /\ wpc' = [wpc EXCEPT ![w] = "fetch"] /\ rpc' = rpc
        /\ job' = [job EXCEPT ![w] = Head(queue)]
        /\ queue # <<>> /\ queue' = Tail(queue)
    BY <1>1 DEF TakeJob, WorkerGoto, uploadVars
  <2>2. /\ DOMAIN queue = 1 .. Len(queue) /\ DOMAIN queue' = 1 .. Len(queue) - 1
        /\ Len(queue) \in Nat \ {0} /\ Head(queue) = queue[1]
        /\ \A i \in 1 .. Len(queue) - 1 : queue'[i] = queue[i + 1]
    BY <1>t, <2>1
  <2> DEFINE h == Head(queue).req
  <2>3. h \in Requests /\ HeldByQueue(h)
    BY <2>2, QueuedJobs DEF HeldByQueue, TypeInv
  <2>4. ~HeldByHandler(h) /\ \A v \in Workers : Busy(v) => WReq(v) # h
    BY <2>3 DEF SingleCustody, Busy
  <2>5. \A q \in Requests : HeldByHandler(q)' <=> HeldByHandler(q)
    BY <2>1 DEF HeldByHandler
  <2>6. \A q \in Requests : HeldByQueue(q)' => HeldByQueue(q) /\ q # h
    <3> SUFFICES ASSUME NEW q \in Requests, NEW i \in DOMAIN queue', queue'[i].req = q
                 PROVE  HeldByQueue(q) /\ q # h
      BY DEF HeldByQueue
    <3>1. i + 1 \in DOMAIN queue /\ 1 \in DOMAIN queue /\ i + 1 # 1 /\ queue[i + 1].req = q
      BY <2>2
    <3> QED
      BY <3>1, <2>2 DEF HeldByQueue, SingleCustody
  <2>7. \A q \in Requests : \A i, k \in DOMAIN queue' :
          queue'[i].req = q /\ queue'[k].req = q => i = k
    <3> SUFFICES ASSUME NEW q \in Requests, NEW i \in DOMAIN queue', NEW k \in DOMAIN queue',
                        queue'[i].req = q, queue'[k].req = q
                 PROVE  i = k
      OBVIOUS
    <3>1. /\ i + 1 \in DOMAIN queue /\ k + 1 \in DOMAIN queue
          /\ queue[i + 1].req = q /\ queue[k + 1].req = q
      BY <2>2
    <3>2. i + 1 = k + 1
      BY <3>1 DEF SingleCustody
    <3> QED
      BY <3>2, <2>2
  <2>8. \A v \in Workers : Busy(v)' => (v = w /\ WReq(v)' = h)
                                       \/ (v # w /\ Busy(v) /\ WReq(v)' = WReq(v))
    BY <2>1, <1>t DEF Busy, WReq
  <2> HIDE DEF h
  <2> QED
    BY <2>3, <2>4, <2>5, <2>6, <2>7, <2>8 DEF SingleCustody, Busy
<1>2. CASE PushRetry(w)
  <2> DEFINE j == [job[w] EXCEPT !.attempt = @ + 1]
             r == WReq(w)
  <2>1. /\ wpc[w] = "push" /\ wpc' = [wpc EXCEPT ![w] = "idle"] /\ rpc' = rpc
        /\ job' = [job EXCEPT ![w] = None] /\ queue' = Append(queue, j)
    BY <1>2 DEF PushRetry, WorkerGoto, Released, uploadVars
  <2>2. Busy(w) /\ r \in Requests /\ j.req = r
    BY <2>1, BusyWorker DEF Busy, WReq, Job
  <2>3. ~HeldByHandler(r) /\ ~HeldByQueue(r)
        /\ \A v \in Workers : v # w /\ Busy(v) => WReq(v) # r
    BY <2>2 DEF SingleCustody, Busy
  <2> HIDE DEF j, r
  <2>4. /\ DOMAIN queue = 1 .. Len(queue) /\ DOMAIN queue' = 1 .. Len(queue) + 1
        /\ Len(queue) \in Nat
        /\ \A i \in 1 .. Len(queue) : queue'[i] = queue[i]
        /\ queue'[Len(queue) + 1] = j
    BY <1>t, <2>1
  <2>5. \A q \in Requests : HeldByHandler(q)' <=> HeldByHandler(q)
    BY <2>1 DEF HeldByHandler
  <2>6. \A q \in Requests : HeldByQueue(q)' => HeldByQueue(q) \/ q = r
    BY <2>2, <2>4 DEF HeldByQueue
  <2>7. \A q \in Requests : \A i, k \in DOMAIN queue' :
          queue'[i].req = q /\ queue'[k].req = q => i = k
    BY <2>2, <2>3, <2>4 DEF HeldByQueue, SingleCustody
  <2>8. \A v \in Workers : Busy(v)' => v # w /\ Busy(v) /\ WReq(v)' = WReq(v)
    BY <2>1, <1>t DEF Busy, WReq
  <2> QED
    BY <2>2, <2>3, <2>5, <2>6, <2>7, <2>8 DEF SingleCustody, Busy
<1>3. ASSUME ~TakeJob(w), ~PushRetry(w)
      PROVE  /\ queue' = queue /\ rpc' = rpc
             /\ \A v \in Workers : Busy(v)' => Busy(v) /\ job'[v] = job[v]
  BY <1>3, <1>t DEF Worker, FetchArtifact, FetchError, StartExtracting, StartChunking,
     StartEmbedding, EmbedProgress, StartStoring, FinishJob, StageStep, StoreContent,
     NotifyCompleted, DiscardArtifact, PurgeArtifact, DeleteArtifact, UnlinkArtifact,
     DetachArtifact, PipelineError, Stages, MarkRetrying, PatchRetrying, CheckRequeue,
     RecordFailure, ReportFailure, WipeChunks, RecordDropped, ReportDropped,
     RecordError, CleanupError, RedisError, BuryJob, Released, WorkerGoto, Busy, uploadVars
<1>4. CASE ~TakeJob(w) /\ ~PushRetry(w)
  BY <1>3, <1>4, CustodyShrinks DEF HeldByHandler
<1> QED
  BY <1>1, <1>2, <1>4

\* An upload whose outcome is open is in one place only: its handler, one slot
\* of the queue, or one worker.  This holds under every fault: no interleaving
\* of handlers, retries and workers ever runs the same upload twice at once.
THEOREM CustodyCorrect == Spec => []SingleCustody
<1>1. Init => SingleCustody
  BY DEF Init, SingleCustody, HeldByHandler, HeldByQueue, HandlerPending
<1>2. TypeInv /\ SingleCustody /\ [Next]_vars => SingleCustody'
  <2> SUFFICES ASSUME TypeInv, SingleCustody, [Next]_vars PROVE SingleCustody'
    OBVIOUS
  <2>1. CASE \E x \in Deletes : Deleter(x)
    <3>1. UNCHANGED <<queue, rpc, wpc, job>>
      BY <2>1 DEF Deleter, ReadForDelete, CheckQueued, DeleteDocument, uploadVars, workerVars
    <3> QED
      BY <3>1, CustodyShrinks DEF HeldByHandler, Busy
  <2>2. CASE UNCHANGED vars
    BY <2>2, CustodyShrinks DEF vars, HeldByHandler, Busy
  <2> QED
    BY <2>1, <2>2, HandlerCustody, WorkerCustody DEF Next, Quiescent
<1> QED
  BY <1>1, <1>2, TypeInvariant, PTL DEF Spec

-----------------------------------------------------------------------------
(* One outcome for each upload.                                            *)

\* What a worker does after a failed attempt, and after a success, when the
\* outcome is known.
Closing == {"wipe", "purge", "detach", "bury"}
Clearing == {"discard", "unlink"}

InDlq(r) == \E i \in DOMAIN dlq : dlq[i] = r

\* An upload that was reported or buried is in nobody's hands but those of the
\* worker that reported it, and that worker only clears up.
Ended(r) ==
  /\ Len(sent[r]) <= 1
  /\ \A i, j \in DOMAIN dlq : dlq[i] = r /\ dlq[j] = r => i = j
  /\ InDlq(r) => sent[r] # <<"completed">> /\ \A w \in Workers : Busy(w) => WReq(w) # r
  /\ InDlq(r) \/ sent[r] # <<>> => rpc[r] # "new" /\ ~HeldByHandler(r) /\ ~HeldByQueue(r)
  /\ \A w \in Workers : Busy(w) /\ WReq(w) = r =>
       /\ sent[r] # <<>> => wpc[w] \in Closing \union Clearing
       /\ wpc[w] \in Closing => sent[r] # <<"completed">>

OutcomeInv == \A r \in Requests : Ended(r)

\* Steps that neither push nor pop, report nor bury, and start nothing.
LEMMA OutcomeQuiet ==
  ASSUME OutcomeInv, UNCHANGED <<queue, dlq, sent>>,
         \A r \in Requests : rpc[r] # "new" /\ ~HeldByHandler(r)
                               => rpc'[r] # "new" /\ ~HeldByHandler(r)',
         \A v \in Workers : Busy(v)' => Busy(v) /\ job'[v] = job[v],
         \A v \in Workers : Busy(v) /\ wpc[v] \in Closing => wpc'[v] \in Closing \union {"idle"},
         \A v \in Workers : Busy(v) /\ wpc[v] \in Clearing => wpc'[v] \in Clearing \union {"idle"}
  PROVE  OutcomeInv'
<1> SUFFICES ASSUME NEW r \in Requests PROVE Ended(r)'
  BY DEF OutcomeInv
<1>1. Ended(r)
  BY DEF OutcomeInv
<1>2. HeldByQueue(r)' <=> HeldByQueue(r)
  BY DEF HeldByQueue
<1>3. InDlq(r)' <=> InDlq(r)
  BY DEF InDlq
<1>4. ASSUME NEW v \in Workers, Busy(v)', WReq(v)' = r
      PROVE  /\ Busy(v) /\ WReq(v) = r
             /\ sent[r] # <<>> => wpc'[v] \in Closing \union Clearing
             /\ wpc'[v] \in Closing => sent[r] # <<"completed">>
  <2>1. Busy(v) /\ WReq(v) = r /\ wpc'[v] # "idle"
    BY <1>4 DEF WReq, Busy
  <2>2. /\ sent[r] # <<>> => wpc[v] \in Closing \union Clearing
        /\ wpc[v] \in Closing => sent[r] # <<"completed">>
    BY <1>1, <2>1 DEF Ended
  <2>3. wpc[v] \in Closing \union Clearing => wpc'[v] \in Closing \union Clearing
    BY <2>1
  <2>4. wpc'[v] \in Closing /\ sent[r] = <<"completed">> => FALSE
    BY <2>1, <2>2 DEF Closing, Clearing
  <2> QED
    BY <2>1, <2>2, <2>3, <2>4
<1> QED
  BY <1>1, <1>2, <1>3, <1>4 DEF Ended

\* A queue with one more job.
LEMMA QueuedAfterPush ==
  ASSUME TypeInv, NEW j \in Job, queue' = Append(queue, j)
  PROVE  \A q \in Requests : HeldByQueue(q)' <=> HeldByQueue(q) \/ q = j.req
<1>1. /\ DOMAIN queue = 1 .. Len(queue) /\ DOMAIN queue' = 1 .. Len(queue) + 1
      /\ Len(queue) \in Nat
      /\ \A i \in 1 .. Len(queue) : queue'[i] = queue[i]
      /\ queue'[Len(queue) + 1] = j
  BY DEF TypeInv, TypeOK
<1> QED
  BY <1>1 DEF HeldByQueue

\* The head of the queue was in it, and nothing joins when it is popped.
LEMMA QueuedAfterPop ==
  ASSUME TypeInv, queue # <<>>, queue' = Tail(queue)
  PROVE  /\ HeldByQueue(Head(queue).req)
         /\ \A q \in Requests : HeldByQueue(q)' => HeldByQueue(q)
<1>1. /\ DOMAIN queue = 1 .. Len(queue) /\ DOMAIN queue' = 1 .. Len(queue) - 1
      /\ Len(queue) \in Nat \ {0} /\ Head(queue) = queue[1]
      /\ \A i \in 1 .. Len(queue) - 1 : queue'[i] = queue[i + 1]
  BY DEF TypeInv, TypeOK
<1>2. ASSUME NEW q \in Requests, HeldByQueue(q)' PROVE HeldByQueue(q)
  <2>1. PICK i \in DOMAIN queue' : queue'[i].req = q
    BY <1>2 DEF HeldByQueue
  <2>2. i + 1 \in DOMAIN queue /\ queue[i + 1].req = q
    BY <1>1, <2>1
  <2> QED
    BY <2>2 DEF HeldByQueue
<1> QED
  BY <1>1, <1>2 DEF HeldByQueue

\* The handler pushes only what is neither reported nor buried.
LEMMA HandlerOutcome ==
  ASSUME TypeInv, OutcomeInv, NEW r \in Requests, Handler(r)
  PROVE  OutcomeInv'
<1>t. rpc \in [Requests -> HandlerSteps]
  BY DEF TypeInv, TypeOK
<1>u. UNCHANGED <<dlq, sent, wpc, job>>
  BY DEF Handler, CreateDocument, BeginReplacement, CheckCapacity, PutArtifact, PushJob,
     EnqueueError, RolledBack, PushUnacknowledged, LinkArtifact, AnnounceQueued,
     RegisterSession, RouteError, RefuseFull, UndoUpload, workerVars
<1>o. \A q \in Requests : q # r => rpc'[q] = rpc[q]
  BY <1>t DEF Handler, CreateDocument, BeginReplacement, CheckCapacity, PutArtifact, PushJob,
     EnqueueError, RolledBack, PushUnacknowledged, LinkArtifact, AnnounceQueued,
     RegisterSession, RouteError, RefuseFull, UndoUpload, HandlerGoto
<1>1. CASE PushJob(r) \/ PushUnacknowledged(r)
  <2> DEFINE j == [req |-> r, attempt |-> 0]
  <2>1. /\ rpc[r] = "push" /\ rpc'[r] \in {"link", "revoke"}
        /\ queue' = Append(queue, j) /\ j \in Job /\ j.req = r
    BY <1>1, <1>t DEF PushJob, PushUnacknowledged, HandlerGoto, Job
  <2>2. HeldByHandler(r) /\ \A q \in Requests : HeldByQueue(q)' <=> HeldByQueue(q) \/ q = r
    BY <2>1, QueuedAfterPush DEF HeldByHandler, HandlerPending
  <2> SUFFICES ASSUME NEW q \in Requests PROVE Ended(q)'
    BY DEF OutcomeInv
  <2>3. Ended(q)
    BY DEF OutcomeInv
  <2>4. InDlq(q)' <=> InDlq(q)
    BY <1>u DEF InDlq
  <2>5. q = r => ~InDlq(q) /\ sent[q] = <<>>
    BY <2>2, <2>3 DEF Ended
  <2>6. \A w \in Workers : (Busy(w)' <=> Busy(w)) /\ WReq(w)' = WReq(w) /\ wpc'[w] = wpc[w]
    BY <1>u DEF Busy, WReq
  <2>7. q # r => rpc'[q] = rpc[q] /\ (HeldByHandler(q)' <=> HeldByHandler(q)) /\ (HeldByQueue(q)' <=> HeldByQueue(q))
    BY <2>2, <1>o DEF HeldByHandler
  <2>8. InDlq(q)' \/ sent'[q] # <<>> => rpc'[q] # "new" /\ ~HeldByHandler(q)' /\ ~HeldByQueue(q)'
    BY <2>3, <2>4, <2>5, <2>7, <1>u DEF Ended
  <2>9. /\ Len(sent'[q]) <= 1
        /\ \A i, k \in DOMAIN dlq' : dlq'[i] = q /\ dlq'[k] = q => i = k
    BY <2>3, <1>u DEF Ended
  <2>10. InDlq(q)' => sent'[q] # <<"completed">> /\ \A w \in Workers : Busy(w)' => WReq(w)' # q
    BY <2>3, <2>4, <2>6, <1>u DEF Ended
  <2>11. \A w \in Workers : Busy(w)' /\ WReq(w)' = q =>
           /\ sent'[q] # <<>> => wpc'[w] \in Closing \union Clearing
           /\ wpc'[w] \in Closing => sent'[q] # <<"completed">>
    BY <2>3, <2>6, <1>u DEF Ended
  <2> QED
    BY <2>8, <2>9, <2>10, <2>11 DEF Ended
<1>2. CASE ~PushJob(r) /\ ~PushUnacknowledged(r)
  <2>1. queue' = queue
    BY <1>2 DEF Handler, CreateDocument, BeginReplacement, CheckCapacity, PutArtifact,
       EnqueueError, RolledBack, PushUnacknowledged, LinkArtifact, AnnounceQueued,
       RegisterSession, RouteError, RefuseFull, UndoUpload
  <2>2. rpc[r] # "new" /\ ~HeldByHandler(r) => rpc'[r] # "new" /\ ~HeldByHandler(r)'
    BY <1>2, <1>t DEF Handler, CreateDocument, BeginReplacement, CheckCapacity, PutArtifact,
       EnqueueError, RolledBack, PushUnacknowledged, LinkArtifact, AnnounceQueued,
       RegisterSession, RouteError, RefuseFull, UndoUpload,
       HandlerGoto, HeldByHandler, HandlerPending
  <2>3. \A q \in Requests : rpc[q] # "new" /\ ~HeldByHandler(q) => rpc'[q] # "new" /\ ~HeldByHandler(q)'
    BY <2>2, <1>o DEF HeldByHandler
  <2> QED
    BY <2>1, <2>3, <1>u, OutcomeQuiet DEF Busy, Closing, Clearing
<1> QED
  BY <1>1, <1>2

\* Steps of a worker that are about one upload: what is said of the others stays.
LEMMA OutcomeOfOthers ==
  ASSUME TypeInv, OutcomeInv, NEW w \in Workers, NEW q \in Requests, NEW r \in Requests, r # q,
         rpc' = rpc, sent'[r] = sent[r],
         HeldByQueue(r)' => HeldByQueue(r),
         InDlq(r)' <=> InDlq(r),
         \A i, k \in DOMAIN dlq' : dlq'[i] = r /\ dlq'[k] = r => i = k,
         \A v \in Workers : v # w => wpc'[v] = wpc[v] /\ job'[v] = job[v],
         Busy(w)' => WReq(w)' = q
  PROVE  Ended(r)'
<1>1. Ended(r)
  BY DEF OutcomeInv
<1>2. \A v \in Workers : Busy(v)' /\ WReq(v)' = r => v # w /\ Busy(v) /\ WReq(v) = r /\ wpc'[v] = wpc[v]
  BY DEF Busy, WReq
<1>3. HeldByHandler(r)' <=> HeldByHandler(r)
  BY DEF HeldByHandler
<1>4. InDlq(r)' => sent'[r] # <<"completed">> /\ \A v \in Workers : Busy(v)' => WReq(v)' # r
  BY <1>1, <1>2 DEF Ended
<1>5. InDlq(r)' \/ sent'[r] # <<>> => rpc'[r] # "new" /\ ~HeldByHandler(r)' /\ ~HeldByQueue(r)'
  BY <1>1, <1>3 DEF Ended
<1>6. \A v \in Workers : Busy(v)' /\ WReq(v)' = r =>
        /\ sent'[r] # <<>> => wpc'[v] \in Closing \union Clearing
        /\ wpc'[v] \in Closing => sent'[r] # <<"completed">>
  BY <1>1, <1>2 DEF Ended
<1>7. Len(sent'[r]) <= 1
  BY <1>1 DEF Ended
<1> QED
  BY <1>4, <1>5, <1>6, <1>7 DEF Ended

\* Each step of a worker reports or buries its upload once.
LEMMA WorkerOutcome ==
  ASSUME TypeInv, SingleCustody, OutcomeInv, NEW w \in Workers, Worker(w)
  PROVE  OutcomeInv'
<1>q. PICK q : q = WReq(w)
  OBVIOUS
<1>t. /\ wpc \in [Workers -> WorkerSteps] /\ job \in [Workers -> Job \union {None}]
      /\ queue \in Seq(Job) /\ sent \in [Requests -> Seq({"completed", "failed"})]
      /\ dlq \in Seq(Requests)
  BY DEF TypeInv, TypeOK
<1>b. Busy(w) => q \in Requests
  BY BusyWorker, <1>q DEF Busy
<1>c. Busy(w) => /\ ~HeldByHandler(q) /\ ~HeldByQueue(q) /\ rpc[q] # "new"
                 /\ \A v \in Workers : v # w /\ Busy(v) => WReq(v) # q
  BY <1>b, <1>q, BusyWorker DEF SingleCustody, Busy
<1>e. Busy(w) => Ended(q)
  BY <1>b DEF OutcomeInv
<1>1. CASE TakeJob(w)
  <2>h. PICK h : h = Head(queue).req
    OBVIOUS
  <2>1. /\ wpc[w] = "idle" /\ wpc' = [wpc EXCEPT ![w] = "fetch"] /\ rpc' = rpc
        /\ job' = [job EXCEPT ![w] = Head(queue)] /\ UNCHANGED <<dlq, sent>>
        /\ queue # <<>> /\ queue' = Tail(queue)
    BY <1>1 DEF TakeJob, WorkerGoto, uploadVars
  <2>2. h \in Requests
    BY <2>1, <2>h, QueueTail DEF Job
  <2>3. HeldByQueue(h) /\ \A r \in Requests : HeldByQueue(r)' => HeldByQueue(r)
    BY <2>1, <2>h, QueuedAfterPop
  <2>4. Busy(w)' /\ WReq(w)' = h /\ wpc'[w] = "fetch" /\ \A v \in Workers : v # w => wpc'[v] = wpc[v] /\ job'[v] = job[v]
    BY <2>1, <2>h, <1>t DEF Busy, WReq
  <2>5. \A r \in Requests : InDlq(r)' <=> InDlq(r)
    BY <2>1 DEF InDlq
  <2>6. Ended(h) /\ ~InDlq(h) /\ sent[h] = <<>> /\ ~HeldByHandler(h)
        /\ \A v \in Workers : Busy(v) => WReq(v) # h
    BY <2>2, <2>3 DEF OutcomeInv, Ended, SingleCustody, Busy
  <2>7. Ended(h)'
    <3>1. \A v \in Workers : Busy(v)' /\ WReq(v)' = h => v = w
      BY <2>4, <2>6 DEF Busy, WReq
    <3>2. sent'[h] = <<>> /\ ~InDlq(h)'
      BY <2>1, <2>2, <2>5, <2>6
    <3>3. \A i, k \in DOMAIN dlq' : dlq'[i] = h /\ dlq'[k] = h => i = k
      BY <2>1, <2>6 DEF Ended
    <3> QED
      BY <2>4, <3>1, <3>2, <3>3 DEF Ended, Closing
  <2>8. ASSUME NEW r \in Requests, r # h PROVE Ended(r)'
    <3>1. \A i, k \in DOMAIN dlq' : dlq'[i] = r /\ dlq'[k] = r => i = k
      BY <2>1 DEF OutcomeInv, Ended
    <3> QED
      BY <2>1, <2>2, <2>3, <2>4, <2>5, <2>8, <3>1, OutcomeOfOthers
  <2> QED
    BY <2>7, <2>8 DEF OutcomeInv
<1>2. CASE PushRetry(w)
  <2> DEFINE j == [job[w] EXCEPT !.attempt = @ + 1]
  <2>1. /\ wpc[w] = "push" /\ wpc' = [wpc EXCEPT ![w] = "idle"] /\ rpc' = rpc
        /\ job' = [job EXCEPT ![w] = None] /\ queue' = Append(queue, j)
        /\ UNCHANGED <<dlq, sent>>
    BY <1>2 DEF PushRetry, WorkerGoto, Released, uploadVars
  <2>2. Busy(w) /\ j \in Job /\ j.req = q
    <3>1. Busy(w) /\ job[w] \in Job /\ job[w].attempt < MaxRetries
      BY <2>1, BusyWorker DEF Busy, TypeInv, Aimed, RetrySteps
    <3> QED
      BY <3>1, <1>q DEF Job, WReq
  <2>3. \A r \in Requests : HeldByQueue(r)' <=> HeldByQueue(r) \/ r = q
    BY <2>1, <2>2, QueuedAfterPush
  <2>4. ~Busy(w)' /\ \A v \in Workers : v # w => wpc'[v] = wpc[v] /\ job'[v] = job[v]
    BY <2>1, <1>t DEF Busy
  <2>5. \A r \in Requests : InDlq(r)' <=> InDlq(r)
    BY <2>1 DEF InDlq
  <2>6. ~InDlq(q) /\ sent[q] = <<>>
    BY <2>1, <2>2, <1>e, <1>b, <1>q DEF Ended, Closing, Clearing
  <2> HIDE DEF j
  <2>7. Ended(q)'
    <3>1. \A v \in Workers : Busy(v)' => WReq(v)' # q
      BY <2>2, <2>4, <1>c DEF Busy, WReq
    <3>2. sent'[q] = <<>> /\ ~InDlq(q)'
      BY <2>1, <2>2, <2>5, <2>6, <1>b
    <3>3. \A i, k \in DOMAIN dlq' : dlq'[i] = q /\ dlq'[k] = q => i = k
      BY <2>1, <2>2, <1>e DEF Ended
    <3> QED
      BY <3>1, <3>2, <3>3 DEF Ended
  <2>8. ASSUME NEW r \in Requests, r # q PROVE Ended(r)'
    <3>1. \A i, k \in DOMAIN dlq' : dlq'[i] = r /\ dlq'[k] = r => i = k
      BY <2>1 DEF OutcomeInv, Ended
    <3> QED
      BY <2>1, <2>2, <2>3, <2>4, <2>5, <2>8, <1>b, <3>1, OutcomeOfOthers
  <2> QED
    BY <2>2, <2>7, <2>8, <1>b DEF OutcomeInv
<1>report. ASSUME NEW o \in {"completed", "failed"}, NEW to \in WorkerSteps,
                  Busy(w), wpc[w] \notin Closing \union Clearing,
                  wpc' = [wpc EXCEPT ![w] = to], Notified(w, o),
                  o = "completed" => to \in Clearing, o = "failed" => to \in Closing,
                  UNCHANGED <<rpc, job, queue, dlq>>
           PROVE  OutcomeInv'
  <2>1. sent[q] = <<>> /\ ~InDlq(q)
    BY <1>report, <1>e, <1>b, <1>q DEF Ended
  <2>2. sent'[q] \in {<<>>, <<o>>} /\ \A r \in Requests : r # q => sent'[r] = sent[r]
    BY <1>report, <2>1, <1>t, <1>b, <1>q DEF Notified
  <2>3. \A v \in Workers : v # w => wpc'[v] = wpc[v] /\ job'[v] = job[v]
    BY <1>report, <1>t
  <2>4. WReq(w)' = q /\ wpc'[w] = to
    BY <1>report, <1>t, <1>q DEF WReq
  <2>5. \A r \in Requests : (InDlq(r)' <=> InDlq(r)) /\ (HeldByQueue(r)' <=> HeldByQueue(r))
                            /\ (HeldByHandler(r)' <=> HeldByHandler(r))
    BY <1>report DEF InDlq, HeldByQueue, HeldByHandler
  <2>6. Ended(q)'
    <3>1. \A v \in Workers : Busy(v)' /\ WReq(v)' = q => v = w
      BY <1>report, <2>3, <1>c DEF Busy, WReq
    <3>2. to \in Closing => o = "failed"
      BY <1>report DEF Closing, Clearing
    <3>3. to \in Closing \union Clearing
      BY <1>report
    <3>4. Len(sent'[q]) <= 1 /\ (to \in Closing => sent'[q] # <<"completed">>)
      <4>1. Len(<<o>>) = 1 /\ <<o>>[1] = o /\ <<"completed">>[1] = "completed" /\ Len(<<>>) = 0
        OBVIOUS
      <4>2. o = "failed" => <<o>> # <<"completed">>
        BY <4>1
      <4>3. <<>> # <<"completed">>
        OBVIOUS
      <4>4. CASE sent'[q] = <<>>
        BY <4>1, <4>3, <4>4
      <4>5. CASE sent'[q] = <<o>>
        BY <3>2, <4>1, <4>2, <4>5
      <4> QED
        BY <2>2, <4>4, <4>5
    <3>5. \A i, k \in DOMAIN dlq' : dlq'[i] = q /\ dlq'[k] = q => i = k
      BY <1>report, <1>e DEF Ended
    <3> QED
      BY <1>report, <1>b, <1>c, <2>1, <2>4, <2>5, <3>1, <3>3, <3>4, <3>5 DEF Ended
  <2>7. ASSUME NEW r \in Requests, r # q PROVE Ended(r)'
    <3>1. \A i, k \in DOMAIN dlq' : dlq'[i] = r /\ dlq'[k] = r => i = k
      BY <1>report DEF OutcomeInv, Ended
    <3> QED
      BY <1>report, <1>b, <2>2, <2>3, <2>4, <2>5, <2>7, <3>1, OutcomeOfOthers
  <2> QED
    BY <2>6, <2>7, <1>report, <1>b DEF OutcomeInv
<1>3. CASE NotifyCompleted(w)
  <2>1. Busy(w) /\ wpc[w] \notin Closing \union Clearing
    BY <1>3 DEF NotifyCompleted, WorkerGoto, Busy, Closing, Clearing
  <2>2. /\ wpc' = [wpc EXCEPT ![w] = "discard"] /\ Notified(w, "completed")
        /\ UNCHANGED <<rpc, job, queue, dlq>>
    BY <1>3 DEF NotifyCompleted, WorkerGoto, uploadVars
  <2> QED
    BY <2>1, <2>2, <1>report DEF WorkerSteps, Closing, Clearing
<1>4. CASE ReportFailure(w) \/ ReportDropped(w)
  <2>1. Busy(w) /\ wpc[w] \notin Closing \union Clearing
    BY <1>4 DEF ReportFailure, ReportDropped, WorkerGoto, Busy, Closing, Clearing
  <2>2. /\ \E to \in Closing : wpc' = [wpc EXCEPT ![w] = to]
        /\ Notified(w, "failed") /\ UNCHANGED <<rpc, job, queue, dlq>>
    BY <1>4 DEF ReportFailure, ReportDropped, WorkerGoto, uploadVars, Closing
  <2>3. Closing \subseteq WorkerSteps
    BY DEF WorkerSteps, Closing
  <2> QED
    BY <2>1, <2>2, <2>3, <1>report
<1>5. CASE BuryJob(w)
  <2>1. /\ wpc[w] = "bury" /\ wpc' = [wpc EXCEPT ![w] = "idle"] /\ rpc' = rpc
        /\ job' = [job EXCEPT ![w] = None] /\ dlq' = Append(dlq, q)
        /\ UNCHANGED <<queue, sent>>
    BY <1>5, <1>q DEF BuryJob, WorkerGoto, Released, uploadVars
  <2>2. Busy(w) /\ q \in Requests
    BY <2>1, <1>b DEF Busy
  <2>3. /\ DOMAIN dlq = 1 .. Len(dlq) /\ DOMAIN dlq' = 1 .. Len(dlq) + 1 /\ Len(dlq) \in Nat
        /\ \A i \in 1 .. Len(dlq) : dlq'[i] = dlq[i]
        /\ dlq'[Len(dlq) + 1] = q
    BY <2>1, <2>2, <1>t
  <2>4. ~Busy(w)' /\ \A v \in Workers : v # w => wpc'[v] = wpc[v] /\ job'[v] = job[v]
    BY <2>1, <1>t DEF Busy
  <2>5. ~InDlq(q) /\ sent[q] # <<"completed">>
    BY <2>1, <2>2, <1>e, <1>q DEF Ended, Closing, Busy
  <2>6. \A r \in Requests : (HeldByQueue(r)' <=> HeldByQueue(r)) /\ (HeldByHandler(r)' <=> HeldByHandler(r))
    BY <2>1 DEF HeldByQueue, HeldByHandler
  <2>7. Ended(q)'
    <3>1. \A v \in Workers : Busy(v)' => WReq(v)' # q
      BY <2>2, <2>4, <1>c DEF Busy, WReq
    <3>2. \A i, k \in DOMAIN dlq' : dlq'[i] = q /\ dlq'[k] = q => i = k
      BY <2>3, <2>5 DEF InDlq
    <3>3. Len(sent'[q]) <= 1 /\ sent'[q] # <<"completed">>
      BY <2>1, <2>2, <2>5, <1>e DEF Ended
    <3>4. rpc'[q] # "new" /\ ~HeldByHandler(q)' /\ ~HeldByQueue(q)'
      BY <2>1, <2>2, <2>6, <1>c
    <3> QED
      BY <3>1, <3>2, <3>3, <3>4 DEF Ended
  <2>8. ASSUME NEW r \in Requests, r # q PROVE Ended(r)'
    <3>1. InDlq(r)' <=> InDlq(r)
      BY <2>3, <2>8 DEF InDlq
    <3>2. \A i, k \in DOMAIN dlq' : dlq'[i] = r /\ dlq'[k] = r => i = k
      BY <2>3, <2>8 DEF OutcomeInv, Ended
    <3> QED
      BY <2>1, <2>2, <2>4, <2>6, <2>8, <3>1, <3>2, OutcomeOfOthers
  <2> QED
    BY <2>2, <2>7, <2>8 DEF OutcomeInv
<1>6. CASE /\ ~TakeJob(w) /\ ~PushRetry(w) /\ ~NotifyCompleted(w)
           /\ ~ReportFailure(w) /\ ~ReportDropped(w) /\ ~BuryJob(w)
  <2>1. UNCHANGED <<queue, dlq, sent, rpc>>
    BY <1>6 DEF Worker, FetchArtifact, FetchError, StartExtracting, StartChunking,
       StartEmbedding, EmbedProgress, StartStoring, FinishJob, StageStep, StoreContent,
       DiscardArtifact, PurgeArtifact, DeleteArtifact, UnlinkArtifact,
       DetachArtifact, PipelineError, MarkRetrying, PatchRetrying, CheckRequeue,
       RecordFailure, WipeChunks, RecordDropped, RecordError, CleanupError, RedisError,
       uploadVars
  <2>2. /\ \A v \in Workers : Busy(v)' => Busy(v) /\ job'[v] = job[v]
        /\ \A v \in Workers : v # w => wpc'[v] = wpc[v]
    BY <1>6, <1>t DEF Worker, FetchArtifact, FetchError, StartExtracting, StartChunking,
       StartEmbedding, EmbedProgress, StartStoring, FinishJob, StageStep, StoreContent,
       DiscardArtifact, PurgeArtifact, DeleteArtifact, UnlinkArtifact,
       DetachArtifact, PipelineError, Stages, MarkRetrying, PatchRetrying, CheckRequeue,
       RecordFailure, WipeChunks, RecordDropped, RecordError, CleanupError, RedisError,
       WorkerGoto, Released, Busy
  <2>3. /\ wpc[w] \in Closing => wpc'[w] \in Closing \union {"idle"}
        /\ wpc[w] \in Clearing => wpc'[w] \in Clearing \union {"idle"}
    BY <1>6, <1>t DEF Worker, FetchArtifact, FetchError, StartExtracting, StartChunking,
       StartEmbedding, EmbedProgress, StartStoring, FinishJob, StageStep, StoreContent,
       DiscardArtifact, PurgeArtifact, DeleteArtifact, UnlinkArtifact,
       DetachArtifact, PipelineError, Stages, MarkRetrying, PatchRetrying, CheckRequeue,
       RecordFailure, WipeChunks, RecordDropped, RecordError, CleanupError, RedisError,
       WorkerGoto, Closing, Clearing
  <2>4. \A r \in Requests : rpc[r] # "new" /\ ~HeldByHandler(r) => rpc'[r] # "new" /\ ~HeldByHandler(r)'
    BY <2>1 DEF HeldByHandler
  <2> QED
    BY <2>1, <2>2, <2>3, <2>4, OutcomeQuiet
<1> QED
  BY <1>1, <1>2, <1>3, <1>4, <1>5, <1>6

\* In every state, what has ended has ended once.
LEMMA OutcomeInvariant == Spec => []OutcomeInv
<1>1. Init => OutcomeInv
  BY DEF Init, OutcomeInv, Ended, InDlq, HeldByHandler, HeldByQueue, HandlerPending, Busy
<1>2. TypeInv /\ SingleCustody /\ OutcomeInv /\ [Next]_vars => OutcomeInv'
  <2> SUFFICES ASSUME TypeInv, SingleCustody, OutcomeInv, [Next]_vars PROVE OutcomeInv'
    OBVIOUS
  <2>1. CASE UNCHANGED vars \/ \E x \in Deletes : Deleter(x)
    <3>1. UNCHANGED <<queue, dlq, sent, rpc, wpc, job>>
      BY <2>1 DEF Deleter, ReadForDelete, CheckQueued, DeleteDocument, uploadVars, workerVars,
         vars
    <3> QED
      BY <3>1, OutcomeQuiet DEF HeldByHandler, Busy
  <2> QED
    BY <2>1, HandlerOutcome, WorkerOutcome DEF Next, Quiescent
<1> QED
  BY <1>1, <1>2, TypeInvariant, CustodyCorrect, PTL DEF Spec

\* Whatever fault strikes and however the workers interleave, an upload ends
\* once: one terminal webhook, one dead-letter entry, none for an upload that
\* was reported completed, and nothing runs that was buried.
THEOREM OutcomeCorrect == Spec => []OneOutcome
<1>1. OutcomeInv => OneOutcome
  BY DEF OutcomeInv, Ended, OneOutcome, InDlq, Busy
<1> QED
  BY <1>1, OutcomeInvariant, PTL

-----------------------------------------------------------------------------
(* One upload of a document at a time.                                     *)

\* No database call fails once a job is pushed or its content in service: the
\* two faults after which a handler or a worker records a failure for an upload
\* that goes on.
NoLateFault == "route" \notin Faults /\ "finish" \notin Faults

\* A document's row and its replacements come after the upload that creates it.
Begun ==
  /\ \A c \in Creates : row[c].exists => rpc[c] # "new"
  /\ \A c \in Creates : rpc[c] # "new" => target[c] = c
  /\ \A r \in Requests : rpc[r] \notin {"new", "conflict"} => rpc[target[r]] # "new"
  /\ \A r \in Requests : HeldByQueue(r) => rpc[r] # "conflict"
  /\ \A w \in Workers : Busy(w) => rpc[WReq(w)] # "conflict"

\* No transaction on a row brings a document into being but its insert.
LEMMA RowOperatorsKeep ==
  ASSUME NEW o \in Row
  PROVE  /\ ClaimedRow(o).exists = o.exists /\ ReplacedRow(o).exists = o.exists
         /\ \A s \in Statuses : /\ UpdateStatus(o, s).exists = o.exists
                                /\ UpdateStatus(o, s).detail = o.detail
                                /\ o.exists => UpdateStatus(o, s).status = s
         /\ \A t \in Details : /\ SetStatusDetail(o, t).exists = o.exists
                               /\ SetStatusDetail(o, t).status = o.status
                               /\ o.exists => SetStatusDetail(o, t).detail = t
         /\ \A u \in BOOLEAN : /\ SetArtifactUri(o, u).exists = o.exists
                               /\ SetArtifactUri(o, u).status = o.status
                               /\ SetArtifactUri(o, u).detail = o.detail
         /\ ClaimedRow(o).status = o.status /\ ClaimedRow(o).detail = ReplacementInProgress
         /\ ReplacedRow(o).status = "completed" /\ ReplacedRow(o).detail = NoDetail
BY DEF Row, ClaimedRow, ReplacedRow, UpdateStatus, SetStatusDetail, SetArtifactUri

\* What a worker's step does to the row of its document.
LEMMA WorkerRow ==
  ASSUME TypeInv, NEW w \in Workers, Worker(w)
  PROVE  \/ row' = row
         \/ /\ Busy(w) /\ WDoc(w) \in Docs /\ WReq(w) \in Requests
            /\ \A x \in Docs : x # WDoc(w) => row'[x] = row[x]
            /\ row'[WDoc(w)].exists = row[WDoc(w)].exists
<1>t. row \in [Docs -> Row]
  BY DEF TypeInv, TypeOK
<1>b. Busy(w) => WDoc(w) \in Docs /\ WReq(w) \in Requests /\ row[WDoc(w)] \in Row
  BY BusyWorker DEF Busy
<1>s. {"extracting", "chunking", "embedding", "storing", "completed",
       "retrying", "failed"} \subseteq Statuses
      /\ ReplacementInProgress \in Details /\ ReplacementFailed \in Details
  BY DEF Statuses, StaleStatuses, ReplaceableStatuses, Details
<1>1. CASE \/ TakeJob(w) \/ FetchArtifact(w) \/ FetchError(w) \/ NotifyCompleted(w)
           \/ DiscardArtifact(w) \/ PurgeArtifact(w) \/ CheckRequeue(w) \/ PushRetry(w)
           \/ ReportFailure(w) \/ WipeChunks(w) \/ ReportDropped(w) \/ RecordError(w)
           \/ CleanupError(w) \/ RedisError(w)
           \/ BuryJob(w) \/ \E permanent \in BOOLEAN : PipelineError(w, permanent)
  BY <1>1 DEF TakeJob, FetchArtifact, FetchError, NotifyCompleted, DiscardArtifact,
     PurgeArtifact,
     DeleteArtifact, CheckRequeue, PushRetry, ReportFailure, WipeChunks, ReportDropped,
     RecordError, CleanupError, RedisError,
     BuryJob, PipelineError
<1>2. CASE \/ StartExtracting(w) \/ StartChunking(w) \/ StartEmbedding(w)
           \/ EmbedProgress(w) \/ StartStoring(w) \/ FinishJob(w)
  <2>1. Busy(w) /\ \E s \in Statuses : StageStatus(w, s)
    BY <1>2, <1>s DEF StartExtracting, StartChunking, StartEmbedding, EmbedProgress,
       StartStoring,
       FinishJob, StageStep, WorkerGoto, Busy
  <2>2. row' = row \/ \E s \in Statuses : row' = [row EXCEPT ![WDoc(w)] = UpdateStatus(row[WDoc(w)], s)]
    BY <2>1 DEF StageStatus
  <2> QED
    BY <2>1, <2>2, <1>t, <1>b, RowOperatorsKeep
<1>3. CASE StoreContent(w)
  <2>1. Busy(w) /\ (row' = row \/ row' = [row EXCEPT ![WDoc(w)] = ReplacedRow(row[WDoc(w)])])
    BY <1>3 DEF StoreContent, Busy
  <2> QED
    BY <2>1, <1>t, <1>b, RowOperatorsKeep
<1>4. CASE UnlinkArtifact(w) \/ DetachArtifact(w)
  <2>1. Busy(w) /\ row' = [row EXCEPT ![WDoc(w)] = SetArtifactUri(row[WDoc(w)], FALSE)]
    BY <1>4 DEF UnlinkArtifact, DetachArtifact, WorkerGoto, Busy
  <2> QED
    BY <2>1, <1>t, <1>b, RowOperatorsKeep
<1>5. CASE MarkRetrying(w) \/ PatchRetrying(w) \/ RecordFailure(w) \/ RecordDropped(w)
  <2>1. Busy(w) /\ \/ \E s \in Statuses : row' = [row EXCEPT ![WDoc(w)] = UpdateStatus(row[WDoc(w)], s)]
                   \/ \E t \in Details : row' = [row EXCEPT ![WDoc(w)] = SetStatusDetail(row[WDoc(w)], t)]
    BY <1>5, <1>s DEF MarkRetrying, PatchRetrying, RecordFailure, RecordDropped, WorkerGoto,
       Retrying, TerminallyFailed, Busy
  <2> QED
    BY <2>1, <1>t, <1>b, RowOperatorsKeep
<1> QED
  BY <1>1, <1>2, <1>3, <1>4, <1>5 DEF Worker

\* What a worker's step does to the jobs: it hands on what it was given.
LEMMA WorkerJobs ==
  ASSUME TypeInv, NEW w \in Workers, Worker(w)
  PROVE  /\ rpc' = rpc /\ target' = target
         /\ \A r \in Requests : HeldByQueue(r)' => HeldByQueue(r) \/ (Busy(w) /\ WReq(w) = r)
         /\ \A v \in Workers : v # w => wpc'[v] = wpc[v] /\ job'[v] = job[v]
         /\ Busy(w)' => \/ Busy(w) /\ WReq(w)' = WReq(w)
                        \/ ~Busy(w) /\ HeldByQueue(WReq(w)') /\ WReq(w)' \in Requests
<1>t. wpc \in [Workers -> WorkerSteps] /\ job \in [Workers -> Job \union {None}]
  BY DEF TypeInv, TypeOK
<1>1. CASE TakeJob(w)
  <2>1. /\ wpc[w] = "idle" /\ wpc' = [wpc EXCEPT ![w] = "fetch"] /\ rpc' = rpc
        /\ target' = target
        /\ job' = [job EXCEPT ![w] = Head(queue)] /\ queue # <<>> /\ queue' = Tail(queue)
    BY <1>1 DEF TakeJob, WorkerGoto, uploadVars
  <2>2. WReq(w)' = Head(queue).req /\ ~Busy(w) /\ \A v \in Workers : v # w => wpc'[v] = wpc[v] /\ job'[v] = job[v]
    BY <2>1, <1>t DEF WReq, Busy
  <2>3. Head(queue).req \in Requests
    BY <2>1, QueueTail DEF Job
  <2>4. HeldByQueue(Head(queue).req) /\ \A r \in Requests : HeldByQueue(r)' => HeldByQueue(r)
    BY <2>1, QueuedAfterPop
  <2>5. HeldByQueue(WReq(w)')
    BY <2>2, <2>4 DEF HeldByQueue
  <2> QED
    BY <2>1, <2>2, <2>3, <2>4, <2>5
<1>2. CASE PushRetry(w)
  <2> DEFINE j == [job[w] EXCEPT !.attempt = @ + 1]
  <2>1. /\ wpc[w] = "push" /\ wpc' = [wpc EXCEPT ![w] = "idle"] /\ rpc' = rpc
        /\ target' = target
        /\ job' = [job EXCEPT ![w] = None] /\ queue' = Append(queue, j)
    BY <1>2 DEF PushRetry, WorkerGoto, Released, uploadVars
  <2>2. Busy(w) /\ j \in Job /\ j.req = WReq(w)
    <3>1. Busy(w) /\ job[w] \in Job /\ job[w].attempt < MaxRetries
      BY <2>1, BusyWorker DEF Busy, TypeInv, Aimed, RetrySteps
    <3> QED
      BY <3>1 DEF Job, WReq
  <2>3. \A r \in Requests : HeldByQueue(r)' <=> HeldByQueue(r) \/ r = WReq(w)
    BY <2>1, <2>2, QueuedAfterPush
  <2>4. ~Busy(w)' /\ \A v \in Workers : v # w => wpc'[v] = wpc[v] /\ job'[v] = job[v]
    BY <2>1, <1>t DEF Busy
  <2> QED
    BY <2>1, <2>2, <2>3, <2>4
<1>3. CASE ~TakeJob(w) /\ ~PushRetry(w)
  <2>1. /\ queue' = queue /\ rpc' = rpc /\ target' = target
        /\ \A v \in Workers : v # w => wpc'[v] = wpc[v] /\ job'[v] = job[v]
        /\ Busy(w)' => Busy(w) /\ job'[w] = job[w]
    BY <1>3, <1>t DEF Worker, FetchArtifact, FetchError, StartExtracting, StartChunking,
       StartEmbedding, EmbedProgress, StartStoring, FinishJob, StageStep, StoreContent,
       NotifyCompleted, DiscardArtifact, PurgeArtifact, DeleteArtifact, UnlinkArtifact,
       DetachArtifact, PipelineError, Stages, MarkRetrying, PatchRetrying, CheckRequeue,
       RecordFailure, ReportFailure, WipeChunks, RecordDropped, ReportDropped,
       RecordError, CleanupError, RedisError, BuryJob, Released, WorkerGoto, Busy, uploadVars
  <2> QED
    BY <2>1 DEF HeldByQueue, WReq
<1> QED
  BY <1>1, <1>2, <1>3

\* An upload starts once, and its document with it.
LEMMA BegunStep ==
  ASSUME TypeInv, Begun, [Next]_vars
  PROVE  Begun'
<1>t. /\ rpc \in [Requests -> HandlerSteps] /\ row \in [Docs -> Row]
      /\ target \in [Requests -> Docs \union {None}]
      /\ Creates \subseteq Requests /\ Replaces \subseteq Requests /\ Docs = Creates
  BY DEF TypeInv, TypeOK, Requests, Docs
<1>1. ASSUME NEW r \in Requests, Handler(r) PROVE Begun'
  <2>u. UNCHANGED <<wpc, job>>
    BY <1>1 DEF Handler, CreateDocument, BeginReplacement, CheckCapacity, PutArtifact, PushJob,
       EnqueueError, RolledBack, PushUnacknowledged, LinkArtifact, AnnounceQueued,
       RegisterSession, RouteError, RefuseFull, UndoUpload, workerVars
  <2>w. \A w \in Workers : (Busy(w)' <=> Busy(w)) /\ WReq(w)' = WReq(w)
    BY <2>u DEF Busy, WReq
  <2>q. \A w \in Workers : Busy(w) => WReq(w) \in Requests /\ rpc[WReq(w)] # "new"
    BY BusyWorker DEF Busy
  <2>n. \A q \in Requests : HeldByQueue(q) => rpc[q] # "new"
    BY NewIsNowhere
  <2>1. CASE CreateDocument(r)
    <3>1. /\ r \in Creates /\ rpc[r] = "new" /\ rpc' = [rpc EXCEPT ![r] = "admit"]
          /\ target' = [target EXCEPT ![r] = r] /\ row' = [row EXCEPT ![r] = CreatedRow]
          /\ queue' = queue
      BY <2>1 DEF CreateDocument, HandlerGoto
    <3>2. \A q \in Requests : HeldByQueue(q)' <=> HeldByQueue(q)
      BY <3>1 DEF HeldByQueue
    <3>3. \A c \in Creates : row'[c].exists => rpc'[c] # "new"
      BY <3>1, <1>t DEF Begun
    <3>4. \A c \in Creates : rpc'[c] # "new" => target'[c] = c
      BY <3>1, <1>t DEF Begun
    <3>5. \A q \in Requests : rpc'[q] \notin {"new", "conflict"} => rpc'[target'[q]] # "new"
      <4> SUFFICES ASSUME NEW q \in Requests, rpc'[q] \notin {"new", "conflict"}
                   PROVE  rpc'[target'[q]] # "new"
        OBVIOUS
      <4>1. CASE q = r
        BY <4>1, <3>1, <1>t
      <4>2. CASE q # r
        <5>1. rpc[q] \notin {"new", "conflict"} /\ target'[q] = target[q]
          BY <4>2, <3>1, <1>t
        <5>2. rpc[target[q]] # "new" /\ target[q] \in Docs
          BY <5>1 DEF Begun, TypeInv, Aimed
        <5> QED
          BY <5>1, <5>2, <3>1, <1>t
      <4> QED
        BY <4>1, <4>2
    <3>6. \A q \in Requests : HeldByQueue(q)' => rpc'[q] # "conflict"
      BY <3>1, <3>2, <1>t DEF Begun
    <3>7. \A w \in Workers : Busy(w)' => rpc'[WReq(w)'] # "conflict"
      BY <3>1, <2>w, <2>q, <1>t DEF Begun
    <3> QED
      BY <3>3, <3>4, <3>5, <3>6, <3>7 DEF Begun
  <2>2. ASSUME NEW d \in Docs, BeginReplacement(r, d) PROVE Begun'
    <3>1. /\ r \in Replaces /\ r \notin Creates /\ rpc[r] = "new" /\ queue' = queue
          /\ target' = [target EXCEPT ![r] = d]
          /\ \/ rpc' = [rpc EXCEPT ![r] = "admit"] /\ row[d].exists
             \/ rpc' = [rpc EXCEPT ![r] = "conflict"]
      BY <2>2 DEF BeginReplacement, ReplacementOutcome
    <3>2. \A c \in Docs : row'[c].exists = row[c].exists
      BY <2>2, <1>t, RowOperatorsKeep DEF BeginReplacement
    <3>3. \A q \in Requests : HeldByQueue(q)' <=> HeldByQueue(q)
      BY <3>1 DEF HeldByQueue
    <3>4. \A c \in Creates : rpc'[c] = rpc[c] /\ target'[c] = target[c]
      BY <3>1, <1>t
    <3>5. \A c \in Creates : /\ row'[c].exists => rpc'[c] # "new"
                             /\ rpc'[c] # "new" => target'[c] = c
      BY <3>2, <3>4, <1>t DEF Begun
    <3>6. \A q \in Requests : rpc'[q] \notin {"new", "conflict"} => rpc'[target'[q]] # "new"
      <4> SUFFICES ASSUME NEW q \in Requests, rpc'[q] \notin {"new", "conflict"}
                   PROVE  rpc'[target'[q]] # "new"
        OBVIOUS
      <4>1. CASE q = r
        <5>1. target'[q] = d /\ row[d].exists
          BY <4>1, <3>1, <1>t
        <5> QED
          BY <5>1, <3>4, <1>t DEF Begun
      <4>2. CASE q # r
        <5>1. rpc[q] \notin {"new", "conflict"} /\ target'[q] = target[q]
          BY <4>2, <3>1, <1>t
        <5>2. rpc[target[q]] # "new" /\ target[q] \in Docs
          BY <5>1 DEF Begun, TypeInv, Aimed
        <5> QED
          BY <5>1, <5>2, <3>4, <1>t
      <4> QED
        BY <4>1, <4>2
    <3>7. \A q \in Requests : HeldByQueue(q)' => rpc'[q] # "conflict"
      BY <3>1, <3>3, <2>n, <1>t DEF Begun
    <3>8. \A w \in Workers : Busy(w)' => rpc'[WReq(w)'] # "conflict"
      BY <3>1, <2>w, <2>q, <1>t DEF Begun
    <3> QED
      BY <3>5, <3>6, <3>7, <3>8 DEF Begun
  <2>3. CASE ~CreateDocument(r) /\ ~\E d \in Docs : BeginReplacement(r, d)
    <3>1. /\ target' = target /\ rpc[r] \notin {"new", "conflict"}
          /\ rpc'[r] \notin {"new", "conflict"}
          /\ \A q \in Requests : q # r => rpc'[q] = rpc[q]
      BY <1>1, <2>3, <1>t DEF Handler, CheckCapacity, PutArtifact, PushJob,
         EnqueueError, RolledBack, PushUnacknowledged, LinkArtifact, AnnounceQueued,
         RegisterSession, RouteError, RefuseFull, UndoUpload, HandlerGoto
    <3>2. \A c \in Docs : row'[c].exists => row[c].exists
      <4>1. {"failed", "queued"} \subseteq Statuses /\ ReplacementFailed \in Details
        BY DEF Statuses, StaleStatuses, ReplaceableStatuses, Details
      <4>2. target[r] \in Docs /\ row[target[r]] \in Row
        BY <3>1, <1>t DEF TypeInv, Aimed
      <4>3. \/ row' = row
            \/ row' = [row EXCEPT ![target[r]] = SetArtifactUri(row[target[r]], TRUE)]
            \/ row' = [row EXCEPT ![target[r]] = UpdateStatus(row[target[r]], "queued")]
            \/ row' = [row EXCEPT ![target[r]] = UpdateStatus(row[target[r]], "failed")]
            \/ row' = [row EXCEPT ![target[r]] = SetStatusDetail(row[target[r]], ReplacementFailed)]
        BY <1>1, <2>3, <1>t DEF Handler, CheckCapacity, PutArtifact, PushJob, GivenUp, Doc,
           EnqueueError, RolledBack, PushUnacknowledged, LinkArtifact, AnnounceQueued,
           RegisterSession, RouteError, RefuseFull, UndoUpload
      <4>4. /\ SetArtifactUri(row[target[r]], TRUE).exists = row[target[r]].exists
            /\ UpdateStatus(row[target[r]], "queued").exists = row[target[r]].exists
            /\ UpdateStatus(row[target[r]], "failed").exists = row[target[r]].exists
            /\ SetStatusDetail(row[target[r]], ReplacementFailed).exists = row[target[r]].exists
        BY <4>1, <4>2, RowOperatorsKeep
      <4>5. row' = row \/ \E e : row' = [row EXCEPT ![target[r]] = e] /\ e.exists = row[target[r]].exists
        BY <4>3, <4>4
      <4> QED
        BY <4>2, <4>5, <1>t
    <3>3. \A q \in Requests : HeldByQueue(q)' => HeldByQueue(q) \/ q = r
      <4>1. CASE PushJob(r) \/ PushUnacknowledged(r)
        <5>1. [req |-> r, attempt |-> 0] \in Job /\ queue' = Append(queue, [req |-> r, attempt |-> 0])
          BY <4>1 DEF PushJob, PushUnacknowledged, Job
        <5> QED
          BY <5>1, QueuedAfterPush
      <4>2. CASE ~PushJob(r) /\ ~PushUnacknowledged(r)
        <5>1. queue' = queue
          BY <1>1, <2>3, <4>2 DEF Handler, CheckCapacity, PutArtifact,
             EnqueueError, RolledBack, PushUnacknowledged, LinkArtifact, AnnounceQueued,
             RegisterSession, RouteError, RefuseFull, UndoUpload
        <5> QED
          BY <5>1 DEF HeldByQueue
      <4> QED
        BY <4>1, <4>2
    <3>4. \A q \in Requests : (rpc'[q] = "new" <=> rpc[q] = "new") /\ (rpc'[q] = "conflict" <=> rpc[q] = "conflict")
      BY <3>1
    <3>5. \A q \in Requests : rpc'[q] \notin {"new", "conflict"} => rpc'[target'[q]] # "new"
      <4> SUFFICES ASSUME NEW q \in Requests, rpc'[q] \notin {"new", "conflict"}
                   PROVE  rpc'[target'[q]] # "new"
        OBVIOUS
      <4>1. rpc[q] \notin {"new", "conflict"} /\ rpc[target[q]] # "new"
        BY <3>4 DEF Begun
      <4>2. target[q] \in Docs
        BY <4>1 DEF TypeInv, Aimed
      <4> QED
        BY <3>1, <3>4, <4>1, <4>2, <1>t
    <3>6. \A w \in Workers : Busy(w)' => rpc'[WReq(w)'] # "conflict"
      BY <3>4, <2>w, <2>q DEF Begun
    <3>7. \A q \in Requests : HeldByQueue(q)' => rpc'[q] # "conflict"
      BY <3>1, <3>3, <3>4 DEF Begun
    <3>8. \A c \in Creates : (row'[c].exists => rpc'[c] # "new") /\ (rpc'[c] # "new" => target'[c] = c)
      BY <3>1, <3>2, <3>4, <1>t DEF Begun
    <3> QED
      BY <3>5, <3>6, <3>7, <3>8 DEF Begun
  <2> QED
    BY <1>1, <2>1, <2>2, <2>3
<1>2. ASSUME NEW w \in Workers, Worker(w) PROVE Begun'
  <2>1. /\ rpc' = rpc /\ target' = target
        /\ \A r \in Requests : HeldByQueue(r)' => HeldByQueue(r) \/ (Busy(w) /\ WReq(w) = r)
        /\ \A v \in Workers : v # w => wpc'[v] = wpc[v] /\ job'[v] = job[v]
        /\ Busy(w)' => \/ Busy(w) /\ WReq(w)' = WReq(w)
                       \/ ~Busy(w) /\ HeldByQueue(WReq(w)') /\ WReq(w)' \in Requests
    BY <1>2, WorkerJobs
  <2>2. \A c \in Docs : row'[c].exists => row[c].exists
    BY <1>2, WorkerRow
  <2>3. \A v \in Workers : Busy(v)' => rpc'[WReq(v)'] # "conflict"
    BY <2>1 DEF Begun, Busy, WReq
  <2>4. \A r \in Requests : HeldByQueue(r)' => rpc'[r] # "conflict"
    BY <2>1 DEF Begun
  <2> QED
    BY <2>1, <2>2, <2>3, <2>4, <1>t DEF Begun
<1>3. CASE UNCHANGED vars \/ \E x \in Deletes : Deleter(x)
  <2>1. UNCHANGED <<queue, rpc, wpc, job, target>>
    BY <1>3 DEF Deleter, ReadForDelete, CheckQueued, DeleteDocument, uploadVars, workerVars,
       vars
  <2>2. \A c \in Docs : row'[c].exists => row[c].exists
    BY <1>3, <1>t DEF Deleter, ReadForDelete, CheckQueued, DeleteDocument, vars, MissingRow
  <2> QED
    BY <2>1, <2>2, <1>t DEF Begun, HeldByQueue, Busy, WReq
<1> QED
  BY <1>1, <1>2, <1>3 DEF Next, Quiescent

\* An upload starts once, whatever fails.
LEMMA BegunInvariant == Spec => []Begun
<1>1. Init => Begun
  BY DEF Init, Begun, Requests, Docs, MissingRow, HeldByQueue, Busy
<1>2. TypeInv /\ Begun /\ [Next]_vars => Begun'
  BY BegunStep
<1> QED
  BY <1>1, <1>2, TypeInvariant, PTL DEF Spec

\* What the row says of an unresolved upload: the marker of a replacement, a
\* status in progress of a new document, unless the document was deleted.
Says(r) ==
  row[target[r]].exists =>
    IF r \in Replaces THEN row[target[r]].detail = ReplacementInProgress
                      ELSE row[target[r]].status \in StaleStatuses

\* Together with it, exclusion is inductive: begin_document_replacement reads
\* the row, and the row tells of every upload that is not resolved.
Exclusive ==
  /\ OneUploadPerDocument
  /\ \A r \in Requests : Pending(r) => Says(r)
  /\ \A r \in Requests : rpc[r] # "revoke"

\* An unresolved upload has its document.
LEMMA PendingHasDoc ==
  ASSUME TypeInv, NEW r \in Requests, Pending(r)
  PROVE  rpc[r] # "new" /\ target[r] \in Docs
<1>1. rpc[r] # "new"
  BY NewIsNowhere DEF Pending, HeldByHandler, HandlerPending, HeldByWorker, Busy
<1> QED
  BY <1>1 DEF TypeInv, Aimed

\* Steps that resolve or continue uploads, and write to a row no less than what
\* it said.
LEMMA ExclusiveKept ==
  ASSUME TypeInv, Exclusive,
         \A r \in Requests : Pending(r)' => Pending(r) /\ target'[r] = target[r],
         \A r \in Requests : rpc'[r] # "revoke",
         \A x \in Docs : row'[x].exists =>
            /\ row[x].exists
            /\ row'[x].detail \in {row[x].detail, ReplacementInProgress}
            /\ row'[x].status \in {row[x].status} \union StaleStatuses
  PROVE  Exclusive'
<1>1. OneUploadPerDocument'
  BY DEF Exclusive, OneUploadPerDocument
<1>2. ASSUME NEW r \in Requests, Pending(r)' PROVE Says(r)'
  <2>1. Pending(r) /\ target'[r] = target[r] /\ target[r] \in Docs /\ Says(r)
    BY <1>2, PendingHasDoc DEF Exclusive
  <2> QED
    BY <2>1 DEF Says
<1> QED
  BY <1>1, <1>2 DEF Exclusive

\* Steps that resolve one upload and write to the row of its document.
LEMMA ExclusiveEnds ==
  ASSUME TypeInv, Exclusive, NEW q \in Requests, Pending(q), ~Pending(q)', target' = target,
         \A r \in Requests : Pending(r)' => Pending(r),
         \A r \in Requests : rpc'[r] # "revoke",
         \A x \in Docs : x # target[q] => row'[x] = row[x]
  PROVE  Exclusive'
<1>1. OneUploadPerDocument'
  BY DEF Exclusive, OneUploadPerDocument
<1>2. ASSUME NEW r \in Requests, Pending(r)' PROVE Says(r)'
  <2>1. Pending(r) /\ r # q /\ target[r] \in Docs /\ Says(r)
    BY <1>2, PendingHasDoc DEF Exclusive
  <2>2. target[r] # target[q]
    BY <2>1 DEF Exclusive, OneUploadPerDocument
  <2> QED
    BY <2>1, <2>2 DEF Says
<1> QED
  BY <1>1, <1>2 DEF Exclusive

\* The steps with which a worker resolves its upload.
Resolves(w) ==
  \/ RecordFailure(w) \/ RecordDropped(w)
  \/ FinishJob(w) /\ ~IsReplace(WReq(w))
  \/ StoreContent(w) /\ IsReplace(WReq(w)) /\ row[WDoc(w)].exists

\* A worker makes no upload unresolved that was not.
LEMMA WorkerPendingOnly ==
  ASSUME TypeInv, NoLateFault, NEW w \in Workers, Worker(w)
  PROVE  \A r \in Requests : Pending(r)' => Pending(r)
<1>t. wpc \in [Workers -> WorkerSteps] /\ job \in [Workers -> Job \union {None}]
  BY DEF TypeInv, TypeOK
<1>j. /\ rpc' = rpc /\ target' = target
      /\ \A r \in Requests : HeldByQueue(r)' => HeldByQueue(r) \/ (Busy(w) /\ WReq(w) = r)
      /\ \A v \in Workers : v # w => wpc'[v] = wpc[v] /\ job'[v] = job[v]
      /\ Busy(w)' => \/ Busy(w) /\ WReq(w)' = WReq(w)
                     \/ ~Busy(w) /\ HeldByQueue(WReq(w)') /\ WReq(w)' \in Requests
  BY WorkerJobs
<1>h. \A r \in Requests : HeldByHandler(r)' <=> HeldByHandler(r)
  BY <1>j DEF HeldByHandler
<1>o. \A r \in Requests, v \in Workers : v # w => (HeldByWorker(r, v)' <=> HeldByWorker(r, v))
  BY <1>j DEF HeldByWorker, WReq
<1>1. CASE TakeJob(w)
  <2>1. ~Busy(w)
    BY <1>1 DEF TakeJob, WorkerGoto, Busy
  <2>2. \A r \in Requests : HeldByWorker(r, w)' => HeldByQueue(r)
    BY <2>1, <1>j DEF HeldByWorker, Busy
  <2> QED
    BY <2>1, <2>2, <1>h, <1>o, <1>j DEF Pending
<1>2. CASE PushRetry(w)
  <2>1. Busy(w) /\ wpc[w] \in WorkerPending /\ wpc'[w] = "idle"
    BY <1>2, <1>t DEF PushRetry, WorkerGoto, Busy, WorkerPending
  <2>2. \A r \in Requests : HeldByQueue(r)' => HeldByQueue(r) \/ HeldByWorker(r, w)
    BY <2>1, <1>j DEF HeldByWorker, Busy
  <2>3. \A r \in Requests : ~HeldByWorker(r, w)'
    BY <2>1 DEF HeldByWorker
  <2> QED
    BY <2>2, <2>3, <1>h, <1>o DEF Pending
<1>3. CASE ~TakeJob(w) /\ ~PushRetry(w)
  <2>1. /\ queue' = queue /\ Busy(w)
        /\ wpc'[w] \in WorkerPending => wpc[w] \in WorkerPending
        /\ wpc'[w] = "finish" => wpc[w] = "store"
        /\ wpc'[w] # "idle" => job'[w] = job[w]
    BY <1>3, <1>t DEF Worker, FetchArtifact, FetchError, StartExtracting, StartChunking,
       StartEmbedding, EmbedProgress, StartStoring, FinishJob, StageStep, StoreContent,
       NotifyCompleted, DiscardArtifact, PurgeArtifact, DeleteArtifact, UnlinkArtifact,
       DetachArtifact, PipelineError, Stages, MarkRetrying, PatchRetrying, CheckRequeue,
       RecordFailure, ReportFailure, WipeChunks, RecordDropped, ReportDropped,
       RecordError, CleanupError, RedisError, BuryJob, Released, WorkerGoto, Busy,
       WorkerPending, NoLateFault
  <2>2. \A r \in Requests : HeldByWorker(r, w)' => HeldByWorker(r, w)
    BY <2>1 DEF HeldByWorker, WReq, WorkerPending, Busy
  <2>3. \A r \in Requests : HeldByQueue(r)' <=> HeldByQueue(r)
    BY <2>1 DEF HeldByQueue
  <2> QED
    BY <2>2, <2>3, <1>h, <1>o DEF Pending
<1> QED
  BY <1>1, <1>2, <1>3

\* A resolved upload is nowhere else.
LEMMA ResolvesEnds ==
  ASSUME TypeInv, SingleCustody, NEW w \in Workers, Worker(w), Resolves(w)
  PROVE  Busy(w) /\ WReq(w) \in Requests /\ WDoc(w) \in Docs /\ \E q \in Requests : q = WReq(w) /\ Pending(q) /\ ~Pending(q)'
<1>t. wpc \in [Workers -> WorkerSteps]
  BY DEF TypeInv, TypeOK
<1>1. /\ Busy(w) /\ queue' = queue /\ job' = job
      /\ \E to \in {"report", "reportdrop", "notify", "finish"} :
            wpc' = [wpc EXCEPT ![w] = to] /\ (to = "finish" => IsReplace(WReq(w)))
      /\ wpc[w] \in WorkerPending \/ (wpc[w] = "finish" /\ ~IsReplace(WReq(w)))
  BY DEF Resolves, RecordFailure, RecordDropped, FinishJob, StageStep, StoreContent, WorkerGoto,
     Busy, WorkerPending
<1>2. PICK q \in Requests : q = WReq(w)
  BY <1>1, BusyWorker DEF Busy
<1>3. Pending(q)
  BY <1>1, <1>2 DEF Pending, HeldByWorker, Busy
<1>4. ~HeldByHandler(q) /\ ~HeldByQueue(q) /\ \A v \in Workers : v # w /\ Busy(v) => WReq(v) # q
  BY <1>1, <1>2 DEF SingleCustody, Busy
<1>5. ~HeldByHandler(q)' /\ ~HeldByQueue(q)'
  BY <1>1, <1>4, WorkerJobs DEF HeldByHandler, HeldByQueue
<1>6. ~HeldByWorker(q, w)'
  BY <1>1, <1>2, <1>t DEF HeldByWorker, WorkerPending, WReq
<1>7. \A v \in Workers : v # w => ~HeldByWorker(q, v)'
  BY <1>1, <1>4, <1>t DEF HeldByWorker, WReq, Busy
<1> QED
  BY <1>1, <1>2, <1>3, <1>5, <1>6, <1>7, BusyWorker DEF Pending, Busy

\* What the other steps of a worker write is that the upload is in progress.
LEMMA WorkerRowKept ==
  ASSUME TypeInv, NEW w \in Workers, Worker(w), ~Resolves(w)
  PROVE  \A x \in Docs : row'[x].exists =>
            /\ row[x].exists
            /\ row'[x].detail \in {row[x].detail, ReplacementInProgress}
            /\ row'[x].status \in {row[x].status} \union StaleStatuses
<1>t. row \in [Docs -> Row]
  BY DEF TypeInv, TypeOK
<1>b. Busy(w) => WDoc(w) \in Docs /\ WReq(w) \in Requests /\ row[WDoc(w)] \in Row
  BY BusyWorker DEF Busy
<1>s. {"extracting", "chunking", "embedding", "storing", "retrying"} \subseteq StaleStatuses
      /\ StaleStatuses \subseteq Statuses /\ ReplacementInProgress \in Details
  BY DEF Statuses, StaleStatuses, Details
<1>1. CASE row' = row
  BY <1>1
<1>2. ASSUME NEW s \in StaleStatuses, Busy(w), row' = [row EXCEPT ![WDoc(w)] = UpdateStatus(row[WDoc(w)], s)]
      PROVE  \A x \in Docs : row'[x].exists =>
                /\ row[x].exists
                /\ row'[x].detail \in {row[x].detail, ReplacementInProgress}
                /\ row'[x].status \in {row[x].status} \union StaleStatuses
  BY <1>2, <1>b, <1>s, <1>t, RowOperatorsKeep
<1>3. CASE Busy(w) /\ row' = [row EXCEPT ![WDoc(w)] = SetStatusDetail(row[WDoc(w)], ReplacementInProgress)]
  <2> DEFINE o == SetStatusDetail(row[WDoc(w)], ReplacementInProgress)
  <2>1. /\ o.exists = row[WDoc(w)].exists /\ o.status = row[WDoc(w)].status
        /\ row[WDoc(w)].exists => o.detail = ReplacementInProgress
    BY <1>3, <1>b, <1>s, RowOperatorsKeep
  <2>2. \A x \in Docs : row'[x] = IF x = WDoc(w) THEN o ELSE row[x]
    BY <1>3, <1>t
  <2> QED
    BY <2>1, <2>2
<1>4. CASE Busy(w) /\ row' = [row EXCEPT ![WDoc(w)] = SetArtifactUri(row[WDoc(w)], FALSE)]
  <2> DEFINE o == SetArtifactUri(row[WDoc(w)], FALSE)
  <2>1. /\ o.exists = row[WDoc(w)].exists /\ o.status = row[WDoc(w)].status
        /\ o.detail = row[WDoc(w)].detail
    BY <1>4, <1>b, RowOperatorsKeep
  <2>2. \A x \in Docs : row'[x] = IF x = WDoc(w) THEN o ELSE row[x]
    BY <1>4, <1>t
  <2> QED
    BY <2>1, <2>2
<1>5. \/ row' = row
      \/ Busy(w) /\ \E s \in StaleStatuses : row' = [row EXCEPT ![WDoc(w)] = UpdateStatus(row[WDoc(w)], s)]
      \/ Busy(w) /\ row' = [row EXCEPT ![WDoc(w)] = SetStatusDetail(row[WDoc(w)], ReplacementInProgress)]
      \/ Busy(w) /\ row' = [row EXCEPT ![WDoc(w)] = SetArtifactUri(row[WDoc(w)], FALSE)]
  <2>1. CASE \/ TakeJob(w) \/ FetchArtifact(w) \/ FetchError(w) \/ NotifyCompleted(w)
             \/ DiscardArtifact(w) \/ PurgeArtifact(w) \/ CheckRequeue(w) \/ PushRetry(w)
             \/ ReportFailure(w) \/ WipeChunks(w) \/ ReportDropped(w) \/ RecordError(w)
             \/ CleanupError(w) \/ RedisError(w)
             \/ BuryJob(w) \/ \E permanent \in BOOLEAN : PipelineError(w, permanent)
    BY <2>1 DEF TakeJob, FetchArtifact, FetchError, NotifyCompleted, DiscardArtifact,
       PurgeArtifact,
       DeleteArtifact, CheckRequeue, PushRetry, ReportFailure, WipeChunks, ReportDropped,
       RecordError, CleanupError, RedisError,
       BuryJob, PipelineError
  <2>2. CASE StartExtracting(w) \/ StartChunking(w) \/ StartEmbedding(w) \/ EmbedProgress(w) \/ StartStoring(w)
    BY <2>2, <1>s DEF StartExtracting, StartChunking, StartEmbedding, EmbedProgress,
       StartStoring,
       StageStep, StageStatus, WorkerGoto, Busy
  <2>3. CASE FinishJob(w)
    BY <2>3 DEF FinishJob, StageStep, StageStatus, Resolves
  <2>4. CASE StoreContent(w)
    BY <2>4 DEF StoreContent, Resolves
  <2>5. CASE UnlinkArtifact(w) \/ DetachArtifact(w)
    BY <2>5 DEF UnlinkArtifact, DetachArtifact, WorkerGoto, Busy
  <2>6. CASE MarkRetrying(w) \/ PatchRetrying(w)
    BY <2>6, <1>s DEF MarkRetrying, PatchRetrying, WorkerGoto, Retrying, Busy
  <2> QED
    BY <2>1, <2>2, <2>3, <2>4, <2>5, <2>6 DEF Worker, Resolves
<1> QED
  BY <1>1, <1>2, <1>3, <1>4, <1>5

\* A worker's step keeps exclusion.
LEMMA WorkerExclusive ==
  ASSUME TypeInv, SingleCustody, Exclusive, NoLateFault, NEW w \in Workers, Worker(w)
  PROVE  Exclusive'
<1>1. /\ rpc' = rpc /\ target' = target /\ \A r \in Requests : Pending(r)' => Pending(r)
      /\ \A r \in Requests : rpc'[r] # "revoke"
  BY WorkerJobs, WorkerPendingOnly DEF Exclusive
<1>2. CASE Resolves(w)
  <2>1. PICK q \in Requests : q = WReq(w) /\ Pending(q) /\ ~Pending(q)'
    BY <1>2, ResolvesEnds
  <2>2. \A x \in Docs : x # target[q] => row'[x] = row[x]
    BY <2>1, WorkerRow DEF WDoc, WReq
  <2> QED
    BY <1>1, <2>1, <2>2, ExclusiveEnds
<1>3. CASE ~Resolves(w)
  BY <1>1, <1>3, WorkerRowKept, ExclusiveKept
<1> QED
  BY <1>2, <1>3

\* The handler's first step makes its upload the only unresolved one of the
\* document: the row it reads denies any other.
LEMMA ExclusiveStarts ==
  ASSUME TypeInv, Begun, Exclusive, NEW r \in Requests, rpc[r] = "new",
         NEW d \in Docs, target' = [target EXCEPT ![r] = d],
         \A q \in Requests : q # r => (Pending(q)' => Pending(q)),
         \A q \in Requests : Pending(q) => target[q] # d,
         \A q \in Requests : rpc'[q] # "revoke",
         \A x \in Docs : x # d => row'[x] = row[x],
         Says(r)'
  PROVE  Exclusive'
<1>t. target \in [Requests -> Docs \union {None}]
  BY DEF TypeInv, TypeOK
<1>1. target'[r] = d /\ \A q \in Requests : q # r => target'[q] = target[q]
  BY <1>t
<1>2. OneUploadPerDocument'
  BY <1>1 DEF Exclusive, OneUploadPerDocument
<1>3. ASSUME NEW q \in Requests, Pending(q)' PROVE Says(q)'
  <2>1. CASE q = r
    BY <2>1
  <2>2. CASE q # r
    <3>1. Pending(q) /\ target'[q] = target[q] /\ target[q] \in Docs /\ target[q] # d /\ Says(q)
      BY <1>1, <1>3, <2>2, PendingHasDoc DEF Exclusive
    <3> QED
      BY <3>1 DEF Says
  <2> QED
    BY <2>1, <2>2
<1> QED
  BY <1>2, <1>3 DEF Exclusive

\* A handler's step keeps exclusion.
LEMMA HandlerExclusive ==
  ASSUME TypeInv, SingleCustody, Begun, Exclusive, NoLateFault, NEW r \in Requests, Handler(r)
  PROVE  Exclusive'
<1>t. /\ rpc \in [Requests -> HandlerSteps] /\ row \in [Docs -> Row]
      /\ target \in [Requests -> Docs \union {None}]
      /\ Creates \subseteq Requests /\ Replaces \subseteq Requests /\ Docs = Creates
  BY DEF TypeInv, TypeOK, Requests, Docs
<1>e. \A q \in Requests : rpc[q] # "revoke"
  BY DEF Exclusive
<1>w. \A q \in Requests, w \in Workers : HeldByWorker(q, w)' <=> HeldByWorker(q, w)
  <2>1. UNCHANGED <<wpc, job>>
    BY DEF Handler, CreateDocument, BeginReplacement, CheckCapacity, PutArtifact, PushJob,
       EnqueueError, RolledBack, PushUnacknowledged, LinkArtifact, AnnounceQueued,
       RegisterSession, RouteError, RefuseFull, UndoUpload, workerVars
  <2> QED
    BY <2>1 DEF HeldByWorker, WReq
<1>1. CASE CreateDocument(r)
  <2>1. /\ r \in Creates /\ rpc[r] = "new" /\ rpc' = [rpc EXCEPT ![r] = "admit"]
        /\ target' = [target EXCEPT ![r] = r] /\ row' = [row EXCEPT ![r] = CreatedRow]
        /\ queue' = queue
    BY <1>1 DEF CreateDocument, HandlerGoto
  <2>2. \A q \in Requests : q # r => (Pending(q)' => Pending(q))
    BY <2>1, <1>w, <1>t DEF Pending, HeldByHandler, HeldByQueue
  <2>3. ASSUME NEW q \in Requests, Pending(q) PROVE target[q] # r
    <3>1. rpc[q] # "new" /\ rpc[q] # "conflict"
      BY <2>3, PendingHasDoc DEF Pending, HeldByHandler, HandlerPending, HeldByWorker, Begun,
         Busy
    <3> QED
      BY <3>1, <2>1 DEF Begun
  <2>4. Says(r)'
    <3>1. row'[target'[r]] = CreatedRow /\ r \notin Replaces
      BY <2>1, <1>t
    <3> QED
      BY <3>1 DEF Says, CreatedRow, StaleStatuses
  <2>5. \A q \in Requests : rpc'[q] # "revoke"
    BY <2>1, <1>e, <1>t
  <2> QED
    BY <2>1, <2>2, <2>3, <2>4, <2>5, <1>t, ExclusiveStarts
<1>2. ASSUME NEW d \in Docs, BeginReplacement(r, d) PROVE Exclusive'
  <2>1. /\ r \in Replaces /\ rpc[r] = "new" /\ queue' = queue
        /\ target' = [target EXCEPT ![r] = d]
    BY <1>2 DEF BeginReplacement
  <2>2. CASE ReplacementOutcome(row[d]) = "started"
    <3>1. /\ rpc' = [rpc EXCEPT ![r] = "admit"]
          /\ row' = [row EXCEPT ![d] = ClaimedRow(row[d])]
      BY <1>2, <2>2 DEF BeginReplacement
    <3>2. /\ row[d].exists /\ row[d].detail # ReplacementInProgress
          /\ row[d].status \notin StaleStatuses
      <4>1. /\ row[d].exists /\ row[d].detail # ReplacementInProgress
            /\ row[d].status \in ReplaceableStatuses
        BY <2>2 DEF ReplacementOutcome
      <4> QED
        BY <4>1 DEF ReplaceableStatuses, StaleStatuses
    <3>3. \A q \in Requests : q # r => (Pending(q)' => Pending(q))
      BY <2>1, <3>1, <1>w, <1>t DEF Pending, HeldByHandler, HeldByQueue
    <3>4. \A q \in Requests : Pending(q) => target[q] # d
      BY <3>2 DEF Exclusive, Says
    <3>5. Says(r)'
      <4>1. row'[target'[r]] = ClaimedRow(row[d]) /\ row[d] \in Row
        BY <2>1, <3>1, <1>t
      <4>2. ClaimedRow(row[d]).detail = ReplacementInProgress
        BY <4>1, RowOperatorsKeep
      <4> QED
        BY <4>1, <4>2, <2>1 DEF Says
    <3>6. \A q \in Requests : rpc'[q] # "revoke"
      BY <3>1, <1>e, <1>t
    <3>7. \A x \in Docs : x # d => row'[x] = row[x]
      BY <3>1, <1>t
    <3> QED
      BY <2>1, <3>3, <3>4, <3>5, <3>6, <3>7, ExclusiveStarts
  <2>3. CASE ReplacementOutcome(row[d]) # "started"
    <3>1. rpc' = [rpc EXCEPT ![r] = "conflict"] /\ row' = row
      BY <1>2, <2>3 DEF BeginReplacement
    <3>2. ~Pending(r)
      BY <2>1, PendingHasDoc
    <3>3. \A q \in Requests : Pending(q)' => Pending(q)
      BY <2>1, <3>1, <1>w, <1>t DEF Pending, HeldByHandler, HeldByQueue, HandlerPending
    <3>4. \A q \in Requests : Pending(q)' => target'[q] = target[q]
      BY <2>1, <3>2, <3>3, <1>t
    <3>5. \A q \in Requests : rpc'[q] # "revoke"
      BY <3>1, <1>e, <1>t
    <3> QED
      BY <3>1, <3>3, <3>4, <3>5, ExclusiveKept
  <2> QED
    BY <2>2, <2>3
<1>3. CASE RefuseFull(r) \/ UndoUpload(r)
  <2>1. /\ rpc[r] \in {"full", "undo"} /\ target' = target /\ queue' = queue
        /\ rpc' = [rpc EXCEPT ![r] = "refused"] \/ rpc' = [rpc EXCEPT ![r] = "error"]
        /\ row' = GivenUp(r)
    BY <1>3, <1>e DEF RefuseFull, UndoUpload, HandlerGoto
  <2>2. Pending(r)
    BY <2>1 DEF Pending, HeldByHandler, HandlerPending
  <2>3. ~Pending(r)'
    <3>1. ~HeldByQueue(r) /\ \A w \in Workers : ~HeldByWorker(r, w)
      BY <2>1 DEF SingleCustody, HeldByHandler, HandlerPending, HeldByWorker
    <3>2. rpc'[r] \in {"refused", "error"}
      BY <2>1, <1>t
    <3> QED
      BY <3>1, <3>2, <2>1, <1>w DEF Pending, HeldByHandler, HandlerPending, HeldByQueue
  <2>4. \A q \in Requests : Pending(q)' => Pending(q)
    BY <2>1, <2>3, <1>w, <1>t DEF Pending, HeldByHandler, HeldByQueue
  <2>5. \A q \in Requests : rpc'[q] # "revoke"
    BY <2>1, <1>e, <1>t
  <2>6. \A x \in Docs : x # target[r] => row'[x] = row[x]
    BY <2>1, <1>t DEF GivenUp, Doc
  <2> QED
    BY <2>1, <2>2, <2>3, <2>4, <2>5, <2>6, ExclusiveEnds
<1>4. CASE LinkArtifact(r) \/ AnnounceQueued(r) \/ RegisterSession(r)
  <2>1. /\ rpc[r] \in {"link", "announce", "register"} /\ target' = target /\ queue' = queue
        /\ \E to \in {"announce", "register", "accepted"} : rpc' = [rpc EXCEPT ![r] = to]
    BY <1>4 DEF LinkArtifact, AnnounceQueued, RegisterSession, HandlerGoto
  <2>2. \A q \in Requests : Pending(q)' => Pending(q)
    BY <2>1, <1>w, <1>t DEF Pending, HeldByHandler, HandlerPending, HeldByQueue
  <2>3. \A q \in Requests : rpc'[q] # "revoke"
    BY <2>1, <1>e, <1>t
  <2>d. target[r] \in Docs /\ row[target[r]] \in Row
    BY <2>1, <1>t DEF TypeInv, Aimed
  <2>4. \/ row' = row
        \/ row' = [row EXCEPT ![target[r]] = SetArtifactUri(row[target[r]], TRUE)]
        \/ row' = [row EXCEPT ![target[r]] = UpdateStatus(row[target[r]], "queued")]
    BY <1>4 DEF LinkArtifact, AnnounceQueued, RegisterSession, Doc
  <2>q. "queued" \in Statuses /\ "queued" \in StaleStatuses
    BY DEF Statuses, StaleStatuses
  <2> DEFINE Keeps(o) ==
               /\ o.exists = row[target[r]].exists /\ o.detail = row[target[r]].detail
               /\ o.exists => o.status \in {row[target[r]].status} \union StaleStatuses
  <2>5. Keeps(row[target[r]]) /\ Keeps(SetArtifactUri(row[target[r]], TRUE))
        /\ Keeps(UpdateStatus(row[target[r]], "queued"))
    <3> DEFINE o == row[target[r]]
    <3>1. /\ SetArtifactUri(o, TRUE).exists = o.exists
          /\ SetArtifactUri(o, TRUE).detail = o.detail
          /\ SetArtifactUri(o, TRUE).status = o.status
      BY <2>d, RowOperatorsKeep
    <3>2. /\ UpdateStatus(o, "queued").exists = o.exists
          /\ UpdateStatus(o, "queued").detail = o.detail
          /\ o.exists => UpdateStatus(o, "queued").status = "queued"
      BY <2>d, <2>q, RowOperatorsKeep
    <3> QED
      BY <3>1, <3>2, <2>q
  <2>6. \E o : Keeps(o) /\ \A x \in Docs : row'[x] = IF x = target[r] THEN o ELSE row[x]
    <3>1. CASE row' = row
      BY <3>1, <2>5
    <3>2. CASE row' = [row EXCEPT ![target[r]] = SetArtifactUri(row[target[r]], TRUE)]
      <4>1. \A x \in Docs : row'[x] = IF x = target[r] THEN SetArtifactUri(row[target[r]], TRUE) ELSE row[x]
        BY <3>2, <1>t
      <4> HIDE DEF Keeps
      <4> QED
        BY <4>1, <2>5
    <3>3. CASE row' = [row EXCEPT ![target[r]] = UpdateStatus(row[target[r]], "queued")]
      <4>1. \A x \in Docs : row'[x] = IF x = target[r] THEN UpdateStatus(row[target[r]], "queued") ELSE row[x]
        BY <3>3, <1>t
      <4> HIDE DEF Keeps
      <4> QED
        BY <4>1, <2>5
    <3> QED
      BY <3>1, <3>2, <3>3, <2>4
  <2>7. \A x \in Docs : row'[x].exists =>
            /\ row[x].exists
            /\ row'[x].detail \in {row[x].detail, ReplacementInProgress}
            /\ row'[x].status \in {row[x].status} \union StaleStatuses
    BY <2>6
  <2> QED
    BY <2>1, <2>2, <2>3, <2>7, ExclusiveKept
<1>5. CASE CheckCapacity(r) \/ PutArtifact(r) \/ PushJob(r) \/ EnqueueError(r)
  <2>1. /\ row' = row /\ target' = target /\ HeldByHandler(r)
        /\ \E to \in {"full", "put", "push", "link", "undo"} : rpc' = [rpc EXCEPT ![r] = to]
        /\ queue' = queue \/ queue' = Append(queue, [req |-> r, attempt |-> 0])
    BY <1>5 DEF CheckCapacity, PutArtifact, PushJob, EnqueueError, RolledBack,
       PushUnacknowledged, HandlerGoto, HeldByHandler, HandlerPending
  <2>2. \A q \in Requests : HeldByQueue(q)' => HeldByQueue(q) \/ q = r
    <3>1. CASE queue' = queue
      BY <3>1 DEF HeldByQueue
    <3>2. CASE queue' = Append(queue, [req |-> r, attempt |-> 0])
      <4>1. [req |-> r, attempt |-> 0] \in Job
        BY DEF Job
      <4> QED
        BY <3>2, <4>1, QueuedAfterPush
    <3> QED
      BY <2>1, <3>1, <3>2
  <2>3. \A q \in Requests : Pending(q)' => Pending(q)
    BY <2>1, <2>2, <1>w, <1>t DEF Pending, HeldByHandler
  <2>4. \A q \in Requests : rpc'[q] # "revoke"
    BY <2>1, <1>e, <1>t
  <2> QED
    BY <2>1, <2>3, <2>4, ExclusiveKept
<1> QED
  BY <1>1, <1>2, <1>3, <1>4, <1>5 DEF Handler, PushUnacknowledged, RouteError, NoLateFault

\* Neither does anyone else.
LEMMA ExclusiveStep ==
  ASSUME TypeInv, SingleCustody, Begun, Exclusive, NoLateFault, [Next]_vars
  PROVE  Exclusive'
<1>1. CASE UNCHANGED vars \/ \E x \in Deletes : Deleter(x)
  <2>1. UNCHANGED <<queue, rpc, wpc, job, target>>
    BY <1>1 DEF Deleter, ReadForDelete, CheckQueued, DeleteDocument, uploadVars, workerVars,
       vars
  <2>2. row \in [Docs -> Row]
    BY DEF TypeInv, TypeOK
  <2>3. \A c \in Docs : row'[c].exists => row[c].exists /\ row'[c] = row[c]
    BY <1>1, <2>2 DEF Deleter, ReadForDelete, CheckQueued, DeleteDocument, vars, MissingRow
  <2>4. \A r \in Requests : Pending(r)' <=> Pending(r)
    BY <2>1 DEF Pending, HeldByHandler, HeldByQueue, HeldByWorker, WReq
  <2>5. \A r \in Requests : rpc'[r] # "revoke"
    BY <2>1 DEF Exclusive
  <2> QED
    BY <2>1, <2>3, <2>4, <2>5, ExclusiveKept
<1> QED
  BY <1>1, HandlerExclusive, WorkerExclusive DEF Next, Quiescent

\* The rows, the markers and the unresolved uploads agree in every state.
LEMMA ExclusiveInvariant ==
  ASSUME NoLateFault
  PROVE  Spec => [](Begun /\ Exclusive)
<1>1. Init => Begun /\ Exclusive
  <2> SUFFICES ASSUME Init PROVE Begun /\ Exclusive
    OBVIOUS
  <2>1. \A r \in Requests : ~Pending(r) /\ rpc[r] = "new"
    BY DEF Init, Pending, HeldByHandler, HandlerPending, HeldByQueue, HeldByWorker
  <2>2. Begun
    BY DEF Init, Begun, Requests, Docs, MissingRow, HeldByQueue, Busy
  <2>3. Exclusive
    BY <2>1 DEF Exclusive, OneUploadPerDocument
  <2> QED
    BY <2>2, <2>3
<1>2. TypeInv /\ SingleCustody /\ Begun /\ Exclusive /\ [Next]_vars => (Begun /\ Exclusive)'
  BY BegunStep, ExclusiveStep
<1> QED
  BY <1>1, <1>2, TypeInvariant, CustodyCorrect, PTL DEF Spec

\* Upload, worker and retry of a document exclude each other: as long as no
\* database call fails after the push or after the cutover, a document never
\* has two unresolved uploads, however many clients replace or delete it.
THEOREM UploadsExclusive ==
  ASSUME NoLateFault
  PROVE  Spec => []OneUploadPerDocument
<1>1. Exclusive => OneUploadPerDocument
  BY DEF Exclusive
<1> QED
  BY <1>1, ExclusiveInvariant, PTL

-----------------------------------------------------------------------------
(* The bytes a worker works on.                                            *)

\* The handler has not stored its file, or gives it up.
Early == {"admit", "put", "full", "undo"}

\* What is stored for a document is the file of its unresolved upload.
Stored ==
  /\ \A r \in Requests : Pending(r) /\ rpc[r] \notin Early =>
       artifact[target[r]] \in {r, None}
  /\ BytesMatch

\* A handler's step keeps what is stored.
LEMMA HandlerStored ==
  ASSUME TypeInv, SingleCustody, Exclusive, Stored, NoLateFault, NEW r \in Requests, Handler(r)
  PROVE  Stored'
<1>t. /\ rpc \in [Requests -> HandlerSteps]
      /\ target \in [Requests -> Docs \union {None}]
      /\ artifact \in [Docs -> Requests \union {None}]
      /\ Creates \subseteq Requests /\ Docs = Creates
  BY DEF TypeInv, TypeOK, Requests, Docs
<1>u. UNCHANGED <<wpc, job, bytes>>
  BY DEF Handler, CreateDocument, BeginReplacement, CheckCapacity, PutArtifact, PushJob,
     EnqueueError, RolledBack, PushUnacknowledged, LinkArtifact, AnnounceQueued,
     RegisterSession, RouteError, RefuseFull, UndoUpload, workerVars
<1>w. \A q \in Requests, w \in Workers : HeldByWorker(q, w)' <=> HeldByWorker(q, w)
  BY <1>u DEF HeldByWorker, WReq
<1>b. BytesMatch'
  BY <1>u DEF Stored, BytesMatch, WReq
<1>1. CASE CreateDocument(r) \/ \E d \in Docs : BeginReplacement(r, d)
  <2>1. /\ rpc[r] = "new" /\ queue' = queue /\ artifact' = artifact
        /\ \E d \in Docs : target' = [target EXCEPT ![r] = d]
        /\ rpc' = [rpc EXCEPT ![r] = "admit"] \/ rpc' = [rpc EXCEPT ![r] = "conflict"]
    BY <1>1, <1>t DEF CreateDocument, BeginReplacement, HandlerGoto
  <2>2. ~Pending(r)
    BY <2>1, PendingHasDoc
  <2>3. ASSUME NEW q \in Requests, Pending(q)', rpc'[q] \notin Early
        PROVE  artifact'[target'[q]] \in {q, None}
    <3>1. CASE q = r
      <4>1. rpc'[q] = "conflict" /\ ~HeldByHandler(q)'
        BY <2>1, <2>3, <3>1, <1>t DEF Early, HeldByHandler, HandlerPending
      <4>2. ~Pending(q)'
        BY <2>1, <2>2, <3>1, <4>1, <1>w DEF Pending, HeldByQueue
      <4> QED
        BY <4>2, <2>3
    <3>2. CASE q # r
      <4>1. Pending(q) /\ rpc'[q] = rpc[q] /\ target'[q] = target[q]
        BY <2>1, <2>3, <3>2, <1>w, <1>t DEF Pending, HeldByHandler, HeldByQueue
      <4> QED
        BY <2>1, <2>3, <4>1 DEF Stored
    <3> QED
      BY <3>1, <3>2
  <2> QED
    BY <2>3, <1>b DEF Stored
<1>2. CASE PutArtifact(r)
  <2>1. /\ rpc[r] = "put" /\ rpc' = [rpc EXCEPT ![r] = "push"]
        /\ artifact' = [artifact EXCEPT ![target[r]] = r] /\ UNCHANGED <<queue, target>>
    BY <1>2 DEF PutArtifact, HandlerGoto, Doc
  <2>2. Pending(r) /\ target[r] \in Docs
    BY <2>1, PendingHasDoc DEF Pending, HeldByHandler, HandlerPending
  <2>3. ASSUME NEW q \in Requests, Pending(q)', rpc'[q] \notin Early
        PROVE  artifact'[target'[q]] \in {q, None}
    <3>1. CASE q = r
      BY <2>1, <2>2, <3>1, <1>t
    <3>2. CASE q # r
      <4>1. Pending(q) /\ rpc'[q] = rpc[q]
        BY <2>1, <2>3, <3>2, <1>w, <1>t DEF Pending, HeldByHandler, HeldByQueue
      <4>2. target[q] \in Docs /\ target[q] # target[r]
        BY <2>2, <3>2, <4>1, PendingHasDoc DEF Exclusive, OneUploadPerDocument
      <4> QED
        BY <2>1, <2>3, <4>1, <4>2, <1>t DEF Stored
    <3> QED
      BY <3>1, <3>2
  <2> QED
    BY <2>3, <1>b DEF Stored
<1>3. CASE \/ CheckCapacity(r) \/ PushJob(r) \/ EnqueueError(r) \/ LinkArtifact(r)
           \/ AnnounceQueued(r) \/ RegisterSession(r) \/ RefuseFull(r) \/ UndoUpload(r)
  <2>1. /\ target' = target /\ \A q \in Requests : q # r => rpc'[q] = rpc[q]
        /\ artifact' = artifact \/ artifact' = [artifact EXCEPT ![target[r]] = None]
        /\ rpc[r] \in Early => rpc'[r] \in Early \union {"refused", "error"}
    BY <1>3, <1>t DEF CheckCapacity, PushJob, EnqueueError, RolledBack, LinkArtifact,
       AnnounceQueued,
           RegisterSession, RefuseFull,
       UndoUpload, HandlerGoto, Early, Doc
  <2>2. \A q \in Requests : Pending(q)' => Pending(q)
    <3>1. CASE PushJob(r)
      <4>1. /\ HeldByHandler(r) /\ rpc' = [rpc EXCEPT ![r] = "link"]
            /\ queue' = Append(queue, [req |-> r, attempt |-> 0])
            /\ [req |-> r, attempt |-> 0] \in Job
        BY <3>1 DEF PushJob, HandlerGoto, HeldByHandler, HandlerPending, Job
      <4>2. \A q \in Requests : HeldByQueue(q)' => HeldByQueue(q) \/ q = r
        BY <4>1, QueuedAfterPush
      <4> QED
        BY <4>1, <4>2, <1>w, <1>t DEF Pending, HeldByHandler, HandlerPending
    <3>2. CASE ~PushJob(r)
      <4>1. queue' = queue /\ (rpc'[r] \in HandlerPending => rpc[r] \in HandlerPending)
        BY <1>3, <3>2, <1>t DEF CheckCapacity, EnqueueError, RolledBack, LinkArtifact,
           AnnounceQueued,
           RegisterSession, RefuseFull,
           UndoUpload, HandlerGoto, HandlerPending
      <4> QED
        BY <2>1, <4>1, <1>w DEF Pending, HeldByHandler, HeldByQueue
    <3> QED
      BY <3>1, <3>2
  <2>3. rpc'[r] \in {"refused", "error"} => ~Pending(r)'
    <3> SUFFICES ASSUME rpc'[r] \in {"refused", "error"} PROVE ~Pending(r)'
      OBVIOUS
    <3>1. HeldByHandler(r) /\ queue' = queue
      BY <1>3, <1>t DEF CheckCapacity, PushJob, EnqueueError, RolledBack, LinkArtifact,
         AnnounceQueued,
           RegisterSession, RefuseFull,
         UndoUpload, HandlerGoto, HeldByHandler, HandlerPending, Exclusive
    <3>2. ~HeldByQueue(r) /\ \A w \in Workers : ~HeldByWorker(r, w)
      BY <3>1 DEF SingleCustody, HeldByWorker
    <3> QED
      BY <3>1, <3>2, <1>w DEF Pending, HeldByHandler, HandlerPending, HeldByQueue
  <2>4. ASSUME NEW q \in Requests, Pending(q)', rpc'[q] \notin Early
        PROVE  artifact'[target'[q]] \in {q, None}
    <3>1. Pending(q) /\ rpc[q] \notin Early
      BY <2>1, <2>2, <2>3, <2>4
    <3>2. artifact[target[q]] \in {q, None} /\ target[q] \in Docs
      BY <3>1, PendingHasDoc DEF Stored
    <3> QED
      BY <2>1, <3>2, <1>t
  <2> QED
    BY <2>4, <1>b DEF Stored
<1> QED
  BY <1>1, <1>2, <1>3 DEF Handler, PushUnacknowledged, RouteError, NoLateFault

\* A worker's step keeps what is stored, and reads its own upload's file.
LEMMA WorkerStored ==
  ASSUME TypeInv, SingleCustody, Exclusive, Stored, NoLateFault, NEW w \in Workers, Worker(w)
  PROVE  Stored'
<1>t. /\ artifact \in [Docs -> Requests \union {None}]
      /\ bytes \in [Workers -> Requests \union {None}]
      /\ wpc \in [Workers -> WorkerSteps]
  BY DEF TypeInv, TypeOK
<1>1. /\ rpc' = rpc /\ target' = target /\ \A r \in Requests : Pending(r)' => Pending(r)
      /\ \A v \in Workers : v # w => wpc'[v] = wpc[v] /\ job'[v] = job[v]
  BY WorkerJobs, WorkerPendingOnly
<1>2. artifact' = artifact \/ artifact' = [artifact EXCEPT ![WDoc(w)] = None]
  BY DEF Worker, TakeJob, FetchArtifact, FetchError, StartExtracting, StartChunking,
     StartEmbedding, EmbedProgress, StartStoring, FinishJob, StageStep, StoreContent,
     NotifyCompleted, DiscardArtifact, PurgeArtifact, DeleteArtifact, UnlinkArtifact,
     DetachArtifact, PipelineError, MarkRetrying, PatchRetrying, CheckRequeue, PushRetry,
     RecordFailure, ReportFailure, WipeChunks, RecordDropped, ReportDropped,
     RecordError, CleanupError, RedisError, BuryJob
<1>3. \A r \in Requests : Pending(r)' /\ rpc'[r] \notin Early => artifact'[target'[r]] \in {r, None}
  <2> SUFFICES ASSUME NEW r \in Requests, Pending(r)', rpc'[r] \notin Early
               PROVE  artifact'[target'[r]] \in {r, None}
    OBVIOUS
  <2>1. Pending(r) /\ target[r] \in Docs /\ artifact[target[r]] \in {r, None}
    BY <1>1, PendingHasDoc DEF Stored
  <2> QED
    BY <1>1, <1>2, <2>1, <1>t
<1>4. BytesMatch'
  <2>1. CASE FetchArtifact(w)
    <3>1. /\ wpc[w] = "fetch" /\ job' = job
          /\ bytes' = [bytes EXCEPT ![w] = artifact[WDoc(w)]]
          /\ wpc' = [wpc EXCEPT ![w] = IF artifact[WDoc(w)] = None THEN "drop" ELSE "start"]
      BY <2>1 DEF FetchArtifact
    <3>2. PICK q \in Requests : q = WReq(w)
      BY <3>1, BusyWorker
    <3>3. Pending(q) /\ rpc[q] \notin Early
      <4>1. HeldByWorker(q, w)
        BY <3>1, <3>2 DEF HeldByWorker, WorkerPending
      <4>2. ~HeldByHandler(q)
        BY <3>1, <3>2 DEF SingleCustody
      <4> QED
        BY <4>1, <4>2 DEF Pending, HeldByHandler, HandlerPending, Early
    <3>4. artifact[WDoc(w)] \in {q, None}
      BY <3>2, <3>3 DEF Stored, WDoc, WReq
    <3>5. wpc'[w] \in Stages => bytes'[w] = WReq(w)'
      BY <3>1, <3>2, <3>4, <1>t DEF Stages, WReq
    <3>6. \A v \in Workers : v # w => bytes'[v] = bytes[v]
      BY <3>1, <1>t
    <3> QED
      BY <3>5, <3>6, <1>1 DEF Stored, BytesMatch, WReq
  <2>2. CASE TakeJob(w)
    <3>1. wpc'[w] = "fetch" /\ bytes' = bytes
      BY <2>2, <1>t DEF TakeJob, WorkerGoto
    <3>2. "fetch" \notin Stages
      BY DEF Stages
    <3> QED
      BY <3>1, <3>2, <1>1 DEF Stored, BytesMatch, WReq
  <2>3. CASE ~FetchArtifact(w) /\ ~TakeJob(w)
    <3>1. /\ wpc'[w] \in Stages => wpc[w] \in Stages /\ job' = job /\ bytes' = bytes
          /\ \A v \in Workers : v # w => bytes'[v] = bytes[v]
      BY <2>3, <1>t DEF Worker, FetchError, StartExtracting, StartChunking,
         StartEmbedding, EmbedProgress, StartStoring, FinishJob, StageStep, StoreContent,
         NotifyCompleted, DiscardArtifact, PurgeArtifact, DeleteArtifact, UnlinkArtifact,
         DetachArtifact, PipelineError, Stages, MarkRetrying, PatchRetrying, CheckRequeue,
         PushRetry,
         RecordFailure, ReportFailure, WipeChunks, RecordDropped, ReportDropped,
         RecordError, CleanupError, RedisError, BuryJob, Released, WorkerGoto
    <3> QED
      BY <3>1, <1>1 DEF Stored, BytesMatch, WReq
  <2> QED
    BY <2>1, <2>2, <2>3
<1> QED
  BY <1>3, <1>4 DEF Stored

\* The stored files belong to the unresolved uploads in every state.
LEMMA StoredInvariant ==
  ASSUME NoLateFault
  PROVE  Spec => []Stored
<1>1. Init => Stored
  <2> SUFFICES ASSUME Init PROVE Stored
    OBVIOUS
  <2>1. \A r \in Requests : ~Pending(r)
    BY DEF Init, Pending, HeldByHandler, HandlerPending, HeldByQueue, HeldByWorker
  <2>2. BytesMatch
    BY DEF Init, BytesMatch, Stages
  <2> QED
    BY <2>1, <2>2 DEF Stored
<1>2. TypeInv /\ SingleCustody /\ Begun /\ Exclusive /\ Stored /\ [Next]_vars => Stored'
  <2> SUFFICES ASSUME TypeInv, SingleCustody, Exclusive, Stored, [Next]_vars PROVE Stored'
    OBVIOUS
  <2>1. CASE UNCHANGED vars \/ \E x \in Deletes : Deleter(x)
    <3>1. UNCHANGED <<queue, rpc, wpc, job, target, artifact, bytes>>
      BY <2>1 DEF Deleter, ReadForDelete, CheckQueued, DeleteDocument, uploadVars, workerVars,
         vars
    <3>2. \A r \in Requests : Pending(r)' <=> Pending(r)
      BY <3>1 DEF Pending, HeldByHandler, HeldByQueue, HeldByWorker, WReq
    <3> QED
      BY <3>1, <3>2 DEF Stored, BytesMatch, WReq
  <2> QED
    BY <2>1, HandlerStored, WorkerStored DEF Next, Quiescent
<1> QED
  BY <1>1, <1>2, TypeInvariant, CustodyCorrect, ExclusiveInvariant, PTL DEF Spec

\* Every upload of a document is stored under the document's key, and still a
\* worker extracts, embeds and stores the file of its own upload: no other
\* upload of the document is between its claim and its outcome.
THEOREM OwnBytes ==
  ASSUME NoLateFault
  PROVE  Spec => []BytesMatch
<1>1. Stored => BytesMatch
  BY DEF Stored
<1> QED
  BY <1>1, StoredInvariant, PTL

-----------------------------------------------------------------------------
(* What a row says of an upload in progress.                               *)

\* No database or storage call fails but those an upload makes before its job
\* is queued.
OnlyEnqueueFails == Faults \subseteq {"enqueue"}

\* The statuses of a first ingestion under way.
InStage == StaleStatuses \ {"queued"}

\* A marker has a replacement that is not resolved, a stage the upload that
\* created the document.
Owned ==
  \A d \in Docs : row[d].exists =>
    /\ row[d].detail = ReplacementInProgress =>
         \E r \in Replaces : target[r] = d /\ Pending(r)
    /\ row[d].status \in InStage => Pending(d)

\* Popping the head of the queue leaves the other jobs in it.
LEMMA QueueKept ==
  ASSUME TypeInv, queue # <<>>, queue' = Tail(queue), NEW r \in Requests,
         HeldByQueue(r), r # Head(queue).req
  PROVE  HeldByQueue(r)'
<1>1. queue \in Seq(Job)
  BY DEF TypeInv, TypeOK
<1>2. PICK i \in DOMAIN queue : queue[i].req = r
  BY DEF HeldByQueue
<1>3. /\ Head(queue) = queue[1] /\ i \in 1 .. Len(queue) /\ Len(queue) \in Nat
      /\ DOMAIN queue' = 1 .. Len(queue) - 1
      /\ \A k \in 1 .. Len(queue) - 1 : queue'[k] = queue[k + 1]
  BY <1>1
<1>4. i - 1 \in DOMAIN queue' /\ queue'[i - 1].req = r
  BY <1>2, <1>3
<1> QED
  BY <1>4 DEF HeldByQueue

\* An upload that a worker does not resolve stays unresolved.
LEMMA WorkerLeavesPending ==
  ASSUME TypeInv, OnlyEnqueueFails, NEW w \in Workers, Worker(w), NEW r \in Requests, Pending(r)
  PROVE  Pending(r)' \/ (Resolves(w) /\ Busy(w) /\ WReq(w) = r)
<1>t. wpc \in [Workers -> WorkerSteps] /\ job \in [Workers -> Job \union {None}]
  BY DEF TypeInv, TypeOK
<1>f. /\ "record" \notin Faults /\ "payload" \notin Faults /\ "finish" \notin Faults
      /\ "redis" \notin Faults /\ "cleanup" \notin Faults
  BY DEF OnlyEnqueueFails
<1>j. /\ rpc' = rpc /\ \A v \in Workers : v # w => wpc'[v] = wpc[v] /\ job'[v] = job[v]
  BY WorkerJobs
<1>h. HeldByHandler(r) => HeldByHandler(r)'
  BY <1>j DEF HeldByHandler
<1>o. \A v \in Workers : v # w => (HeldByWorker(r, v) => HeldByWorker(r, v)')
  BY <1>j DEF HeldByWorker, WReq
<1>1. CASE TakeJob(w)
  <2>1. /\ queue # <<>> /\ queue' = Tail(queue) /\ ~Busy(w) /\ wpc'[w] = "fetch"
        /\ job'[w] = Head(queue)
    BY <1>1, <1>t DEF TakeJob, WorkerGoto, Busy
  <2>2. HeldByQueue(r) => HeldByQueue(r)' \/ HeldByWorker(r, w)'
    <3>1. CASE r = Head(queue).req
      BY <3>1, <2>1 DEF HeldByWorker, WReq, WorkerPending
    <3>2. CASE r # Head(queue).req
      BY <3>2, <2>1, QueueKept
    <3> QED
      BY <3>1, <3>2
  <2>3. ~HeldByWorker(r, w)
    BY <2>1 DEF HeldByWorker, Busy
  <2> QED
    BY <2>2, <2>3, <1>h, <1>o DEF Pending
<1>2. CASE PushRetry(w)
  <2> DEFINE j == [job[w] EXCEPT !.attempt = @ + 1]
  <2>1. wpc[w] = "push" /\ queue' = Append(queue, j)
    BY <1>2 DEF PushRetry, WorkerGoto
  <2>2. j \in Job /\ j.req = WReq(w)
    <3>1. job[w] \in Job /\ job[w].attempt < MaxRetries
      BY <2>1, BusyWorker DEF TypeInv, Aimed, RetrySteps
    <3> QED
      BY <3>1 DEF Job, WReq
  <2>3. \A q \in Requests : HeldByQueue(q)' <=> HeldByQueue(q) \/ q = WReq(w)
    BY <2>1, <2>2, QueuedAfterPush
  <2>4. HeldByWorker(r, w) => r = WReq(w)
    BY DEF HeldByWorker
  <2> QED
    BY <2>3, <2>4, <1>h, <1>o DEF Pending
<1>3. CASE ~TakeJob(w) /\ ~PushRetry(w) /\ ~Resolves(w)
  <2>1. queue' = queue
    BY <1>3 DEF Worker, FetchArtifact, FetchError, StartExtracting, StartChunking,
       StartEmbedding, EmbedProgress, StartStoring, FinishJob, StageStep, StoreContent,
       NotifyCompleted, DiscardArtifact, PurgeArtifact, DeleteArtifact, UnlinkArtifact,
       DetachArtifact, PipelineError, MarkRetrying, PatchRetrying, CheckRequeue,
       RecordFailure, ReportFailure, WipeChunks, RecordDropped, ReportDropped,
       RecordError, CleanupError, RedisError, BuryJob
  <2>2. HeldByWorker(r, w) => HeldByWorker(r, w)'
    <3> SUFFICES ASSUME HeldByWorker(r, w) PROVE HeldByWorker(r, w)'
      OBVIOUS
    <3>1. /\ wpc[w] # "idle" /\ WReq(w) = r
          /\ wpc[w] \in WorkerPending \/ (wpc[w] = "finish" /\ ~IsReplace(WReq(w)))
      BY DEF HeldByWorker
    <3>2. CASE \/ FetchArtifact(w) \/ StartExtracting(w) \/ StartChunking(w)
               \/ StartEmbedding(w) \/ EmbedProgress(w) \/ StartStoring(w) \/ MarkRetrying(w)
               \/ PatchRetrying(w) \/ CheckRequeue(w)
               \/ \E permanent \in BOOLEAN : PipelineError(w, permanent)
      <4>1. wpc'[w] \in WorkerPending /\ job' = job
        BY <3>2, <1>t DEF FetchArtifact, StartExtracting, StartChunking,
           StartEmbedding, EmbedProgress, StartStoring, StageStep, MarkRetrying,
           PatchRetrying, CheckRequeue, PipelineError, WorkerGoto, WorkerPending
      <4> QED
        BY <3>1, <4>1 DEF HeldByWorker, WReq, WorkerPending
    <3>3. CASE StoreContent(w)
      <4>1. /\ wpc'[w] \in WorkerPending \/ (wpc'[w] = "finish" /\ ~IsReplace(r))
            /\ job' = job
        BY <1>3, <3>1, <3>3, <1>t DEF StoreContent, WorkerPending, Resolves
      <4> QED
        BY <3>1, <4>1 DEF HeldByWorker, WReq, WorkerPending
    <3>4. ~FinishJob(w) /\ ~RecordFailure(w) /\ ~RecordDropped(w)
      BY <1>3, <3>1 DEF Resolves, FinishJob, StageStep, WorkerGoto, WorkerPending
    <3>5. /\ ~NotifyCompleted(w) /\ ~DiscardArtifact(w) /\ ~PurgeArtifact(w)
          /\ ~UnlinkArtifact(w)
          /\ ~DetachArtifact(w) /\ ~ReportFailure(w) /\ ~WipeChunks(w) /\ ~ReportDropped(w)
          /\ ~BuryJob(w)
          /\ ~RecordError(w) /\ ~FetchError(w) /\ ~CleanupError(w) /\ ~RedisError(w)
      BY <3>1, <1>f DEF NotifyCompleted, DiscardArtifact, PurgeArtifact, DeleteArtifact,
         UnlinkArtifact,
         DetachArtifact, ReportFailure, WipeChunks, ReportDropped, BuryJob, RecordError,
         CleanupError, RedisError, FetchError,
         WorkerGoto, WorkerPending
    <3> QED
      BY <1>3, <3>2, <3>3, <3>4, <3>5 DEF Worker
  <2> QED
    BY <2>1, <2>2, <1>h, <1>o DEF Pending, HeldByQueue
<1>4. CASE Resolves(w)
  <2>1. Busy(w) /\ queue' = queue
    BY <1>4 DEF Resolves, RecordFailure, RecordDropped, FinishJob, StageStep, StoreContent,
       WorkerGoto, Busy
  <2>2. HeldByWorker(r, w) => r = WReq(w)
    BY DEF HeldByWorker
  <2> QED
    BY <1>4, <2>1, <2>2, <1>h, <1>o DEF Pending, HeldByQueue
<1> QED
  BY <1>1, <1>2, <1>3, <1>4

\* An upload that its handler does not give up stays unresolved.
LEMMA HandlerLeavesPending ==
  ASSUME TypeInv, Exclusive, NEW r \in Requests, Handler(r), NEW q \in Requests, Pending(q)
  PROVE  Pending(q)' \/ (q = r /\ (RefuseFull(r) \/ UndoUpload(r)))
<1>t. rpc \in [Requests -> HandlerSteps]
  BY DEF TypeInv, TypeOK
<1>u. UNCHANGED <<wpc, job>>
  BY DEF Handler, CreateDocument, BeginReplacement, CheckCapacity, PutArtifact, PushJob,
     EnqueueError, RolledBack, PushUnacknowledged, LinkArtifact, AnnounceQueued,
     RegisterSession, RouteError, RefuseFull, UndoUpload, workerVars
<1>w. \A w \in Workers : HeldByWorker(q, w)' <=> HeldByWorker(q, w)
  BY <1>u DEF HeldByWorker, WReq
<1>o. q # r => (HeldByHandler(q)' <=> HeldByHandler(q))
  BY <1>t DEF Handler, CreateDocument, BeginReplacement, CheckCapacity, PutArtifact, PushJob,
     EnqueueError, RolledBack, PushUnacknowledged, LinkArtifact, AnnounceQueued,
     RegisterSession, RouteError, RefuseFull, UndoUpload, HandlerGoto,
     HeldByHandler
<1>1. CASE PushJob(r) \/ PushUnacknowledged(r)
  <2>1. queue' = Append(queue, [req |-> r, attempt |-> 0]) /\ [req |-> r, attempt |-> 0] \in Job
    BY <1>1 DEF PushJob, PushUnacknowledged, Job
  <2>2. HeldByQueue(q)' <=> HeldByQueue(q) \/ q = r
    BY <2>1, QueuedAfterPush
  <2> QED
    BY <2>2, <1>w, <1>o DEF Pending
<1>2. CASE ~PushJob(r) /\ ~PushUnacknowledged(r) /\ ~(RefuseFull(r) \/ UndoUpload(r))
  <2>1. queue' = queue
    BY <1>2 DEF Handler, CreateDocument, BeginReplacement, CheckCapacity, PutArtifact,
       EnqueueError, RolledBack, PushUnacknowledged, LinkArtifact, AnnounceQueued,
       RegisterSession, RouteError, RefuseFull, UndoUpload
  <2>2. HeldByHandler(r) => HeldByHandler(r)'
    BY <1>2, <1>t DEF Handler, CreateDocument, BeginReplacement, CheckCapacity, PutArtifact,
       EnqueueError, RolledBack, PushUnacknowledged, LinkArtifact, AnnounceQueued,
       RegisterSession, RouteError, HandlerGoto, HeldByHandler, HandlerPending
  <2> QED
    BY <2>1, <2>2, <1>w, <1>o DEF Pending, HeldByQueue
<1>3. CASE RefuseFull(r) \/ UndoUpload(r)
  <2>1. queue' = queue
    BY <1>3 DEF RefuseFull, UndoUpload
  <2> QED
    BY <1>3, <2>1, <1>w, <1>o DEF Pending, HeldByQueue
<1> QED
  BY <1>1, <1>2, <1>3

\* A worker that writes that its upload is in progress holds it, and goes on
\* holding it.
Goes(w) == Busy(w) /\ ~Resolves(w) /\ wpc[w] \in WorkerPending

\* What a worker writes about progress is about its own upload; the write that
\* resolves the upload takes the marker, or the stage, away.
LEMMA WorkerMarks ==
  ASSUME TypeInv, NEW w \in Workers, Worker(w), NEW x \in Docs, row'[x].exists
  PROVE  /\ row[x].exists
         /\ row'[x].detail = ReplacementInProgress =>
              row[x].detail = ReplacementInProgress \/ (Goes(w) /\ WReq(w) \in Replaces /\ x = WDoc(w))
         /\ row'[x].status \in InStage =>
              row[x].status \in InStage \/ (Goes(w) /\ WReq(w) \in Creates /\ x = WDoc(w))
         /\ Resolves(w) /\ x = WDoc(w) =>
              /\ WReq(w) \in Replaces => row'[x].detail # ReplacementInProgress
              /\ WReq(w) \in Creates => row'[x].status \notin InStage
<1> DEFINE o == row[WDoc(w)]
           Becomes(n) == Busy(w) /\ \A y \in Docs : row'[y] = IF y = WDoc(w) THEN n ELSE row[y]
<1>t. row \in [Docs -> Row] /\ Requests = Creates \union Replaces /\ Creates \intersect Replaces = {}
  BY DEF TypeInv, TypeOK, Requests
<1>b. Busy(w) => WDoc(w) \in Docs /\ WReq(w) \in Requests /\ o \in Row
  BY BusyWorker DEF Busy
<1>s. /\ {"extracting", "chunking", "embedding", "storing", "retrying"} \subseteq InStage
      /\ {"completed", "failed"} \subseteq Statuses /\ InStage \subseteq Statuses
      /\ ReplacementInProgress \in Details /\ ReplacementFailed \in Details
      /\ ReplacementFailed # ReplacementInProgress /\ NoDetail # ReplacementInProgress
      /\ "completed" \notin InStage /\ "failed" \notin InStage
  BY DEF Statuses, StaleStatuses, ReplaceableStatuses, Details, InStage, ReplacementFailed,
     ReplacementInProgress, NoDetail
<1>e. row[x].exists
  BY WorkerRow
<1>r. ASSUME NEW n, Busy(w), row' = [row EXCEPT ![WDoc(w)] = n] PROVE Becomes(n)
  BY <1>r, <1>t
<1>1. CASE Resolves(w)
  <2>1. CASE FinishJob(w) /\ ~IsReplace(WReq(w))
    <3> DEFINE n == UpdateStatus(o, "completed")
    <3>1. Busy(w) /\ row' = [row EXCEPT ![WDoc(w)] = n] /\ WReq(w) \notin Replaces
      BY <2>1 DEF FinishJob, StageStep, StageStatus, WorkerGoto, Busy, IsReplace
    <3>2. n.exists = o.exists /\ n.detail = o.detail /\ (o.exists => n.status = "completed")
      BY <3>1, <1>b, <1>s, RowOperatorsKeep
    <3>3. Becomes(n)
      BY <3>1, <1>r
    <3> HIDE DEF n
    <3> QED
      BY <3>1, <3>2, <3>3, <1>1, <1>e, <1>s
  <2>2. CASE StoreContent(w) /\ IsReplace(WReq(w)) /\ row[WDoc(w)].exists
    <3> DEFINE n == ReplacedRow(o)
    <3>1. Busy(w) /\ row' = [row EXCEPT ![WDoc(w)] = n] /\ WReq(w) \in Replaces
      BY <2>2 DEF StoreContent, Busy, IsReplace
    <3>2. n.detail = NoDetail /\ n.status = "completed"
      BY <3>1, <1>b, RowOperatorsKeep
    <3>3. Becomes(n)
      BY <3>1, <1>r
    <3> HIDE DEF n
    <3> QED
      BY <3>1, <3>2, <3>3, <1>t, <1>1, <1>e, <1>s
  <2>3. CASE RecordFailure(w) \/ RecordDropped(w)
    <3>1. CASE WReq(w) \in Replaces
      <4> DEFINE n == SetStatusDetail(o, ReplacementFailed)
      <4>1. Busy(w) /\ row' = [row EXCEPT ![WDoc(w)] = n]
        BY <2>3, <3>1 DEF RecordFailure, RecordDropped, WorkerGoto, TerminallyFailed, Busy,
           IsReplace
      <4>2. n.exists = o.exists /\ n.status = o.status /\ (o.exists => n.detail = ReplacementFailed)
        BY <4>1, <1>b, <1>s, RowOperatorsKeep
      <4>3. Becomes(n)
        BY <4>1, <1>r
      <4> HIDE DEF n
      <4> QED
        BY <3>1, <4>1, <4>2, <4>3, <1>t, <1>1, <1>e, <1>s
    <3>2. CASE WReq(w) \notin Replaces
      <4> DEFINE n == UpdateStatus(o, "failed")
      <4>1. Busy(w) /\ row' = [row EXCEPT ![WDoc(w)] = n]
        BY <2>3, <3>2 DEF RecordFailure, RecordDropped, WorkerGoto, TerminallyFailed, Busy,
           IsReplace
      <4>2. n.exists = o.exists /\ n.detail = o.detail /\ (o.exists => n.status = "failed")
        BY <4>1, <1>b, <1>s, RowOperatorsKeep
      <4>3. Becomes(n)
        BY <4>1, <1>r
      <4> HIDE DEF n
      <4> QED
        BY <3>2, <4>1, <4>2, <4>3, <1>1, <1>e, <1>s
    <3> QED
      BY <3>1, <3>2
  <2> QED
    BY <1>1, <2>1, <2>2, <2>3 DEF Resolves
<1>2. CASE ~Resolves(w)
  <2>1. CASE row' = row
    BY <2>1, <1>2, <1>e
  <2>2. ASSUME NEW s \in InStage, Busy(w), wpc[w] \in WorkerPending, WReq(w) \notin Replaces,
               row' = [row EXCEPT ![WDoc(w)] = UpdateStatus(o, s)]
        PROVE  /\ row'[x].detail = ReplacementInProgress => row[x].detail = ReplacementInProgress
               /\ row'[x].status \in InStage =>
                    row[x].status \in InStage \/ (Goes(w) /\ WReq(w) \in Creates /\ x = WDoc(w))
    <3>1. UpdateStatus(o, s).detail = o.detail
      BY <2>2, <1>b, <1>s, RowOperatorsKeep
    <3>2. Becomes(UpdateStatus(o, s))
      BY <2>2, <1>r
    <3>3. Goes(w) /\ WReq(w) \in Creates
      BY <2>2, <1>2, <1>b, <1>t DEF Goes
    <3> QED
      BY <3>1, <3>2, <3>3
  <2>3. CASE /\ Busy(w) /\ wpc[w] \in WorkerPending /\ WReq(w) \in Replaces
             /\ row' = [row EXCEPT ![WDoc(w)] = SetStatusDetail(o, ReplacementInProgress)]
    <3>1. SetStatusDetail(o, ReplacementInProgress).status = o.status
      BY <2>3, <1>b, <1>s, RowOperatorsKeep
    <3>2. Becomes(SetStatusDetail(o, ReplacementInProgress))
      BY <2>3, <1>r
    <3>3. Goes(w)
      BY <2>3, <1>2 DEF Goes
    <3> QED
      BY <2>3, <3>1, <3>2, <3>3, <1>2, <1>e
  <2>4. CASE Busy(w) /\ row' = [row EXCEPT ![WDoc(w)] = SetArtifactUri(o, FALSE)]
    <3>1. SetArtifactUri(o, FALSE).status = o.status /\ SetArtifactUri(o, FALSE).detail = o.detail
      BY <2>4, <1>b, RowOperatorsKeep
    <3>2. Becomes(SetArtifactUri(o, FALSE))
      BY <2>4, <1>r
    <3> QED
      BY <3>1, <3>2, <1>2, <1>e
  <2>5. CASE \/ TakeJob(w) \/ FetchArtifact(w) \/ FetchError(w) \/ NotifyCompleted(w)
             \/ DiscardArtifact(w) \/ PurgeArtifact(w) \/ CheckRequeue(w) \/ PushRetry(w)
             \/ ReportFailure(w) \/ WipeChunks(w) \/ ReportDropped(w) \/ RecordError(w)
             \/ CleanupError(w) \/ RedisError(w)
             \/ BuryJob(w) \/ \E permanent \in BOOLEAN : PipelineError(w, permanent)
    BY <2>1, <2>5 DEF TakeJob, FetchArtifact, FetchError, NotifyCompleted,
       DiscardArtifact, PurgeArtifact, DeleteArtifact, CheckRequeue, PushRetry, ReportFailure,
       WipeChunks, ReportDropped, RecordError, CleanupError, RedisError, BuryJob, PipelineError
  <2>6. CASE \/ StartExtracting(w) \/ StartChunking(w) \/ StartEmbedding(w) \/ EmbedProgress(w)
             \/ StartStoring(w)
    <3>1. /\ Busy(w) /\ wpc[w] \in WorkerPending
          /\ \E s \in InStage : row' = IF IsReplace(WReq(w)) THEN row
                                       ELSE [row EXCEPT ![WDoc(w)] = UpdateStatus(o, s)]
      BY <2>6, <1>s DEF StartExtracting, StartChunking, StartEmbedding, EmbedProgress,
         StartStoring,
         StageStep, StageStatus, WorkerGoto, Busy, WorkerPending
    <3> QED
      BY <3>1, <2>1, <2>2, <1>e, <1>2 DEF IsReplace
  <2>7. CASE MarkRetrying(w) \/ PatchRetrying(w)
    <3>1. Busy(w) /\ wpc[w] \in WorkerPending /\ Retrying(w)
      BY <2>7 DEF MarkRetrying, PatchRetrying, WorkerGoto, Busy, WorkerPending
    <3> QED
      BY <3>1, <2>2, <2>3, <1>e, <1>s, <1>2 DEF Retrying, IsReplace
  <2>8. CASE StoreContent(w) \/ FinishJob(w)
    <3>1. row' = row
      BY <2>8, <1>2 DEF StoreContent, FinishJob, StageStep, StageStatus, Resolves
    <3> QED
      BY <3>1, <2>1
  <2>9. CASE UnlinkArtifact(w) \/ DetachArtifact(w)
    BY <2>9, <2>4 DEF UnlinkArtifact, DetachArtifact, WorkerGoto, Busy
  <2> QED
    BY <1>2, <2>5, <2>6, <2>7, <2>8, <2>9 DEF Worker, Resolves
<1> QED
  BY <1>1, <1>2

\* A worker's step keeps what rows say owned.
LEMMA WorkerOwned ==
  ASSUME TypeInv, SingleCustody, Begun, Owned, OnlyEnqueueFails, NEW w \in Workers, Worker(w)
  PROVE  Owned'
<1>t. Requests = Creates \union Replaces /\ Creates \intersect Replaces = {} /\ Docs = Creates
  BY DEF Requests, Docs
<1>j. rpc' = rpc /\ target' = target
  BY WorkerJobs
<1>g. ASSUME Goes(w) PROVE WReq(w) \in Requests /\ \E q \in Requests : q = WReq(w) /\ Pending(q)'
  <2>1. PICK q \in Requests : q = WReq(w)
    BY <1>g, BusyWorker DEF Goes, Busy
  <2>2. Pending(q)
    BY <2>1, <1>g DEF Goes, Busy, Pending, HeldByWorker
  <2> QED
    BY <2>1, <2>2, <1>g, WorkerLeavesPending DEF Goes
<1>1. ASSUME NEW x \in Docs, row'[x].exists, row'[x].detail = ReplacementInProgress
      PROVE  \E r \in Replaces : target'[r] = x /\ Pending(r)'
  <2>1. CASE row[x].detail = ReplacementInProgress
    <3>1. PICK r \in Replaces : target[r] = x /\ Pending(r)
      BY <1>1, <2>1, WorkerMarks DEF Owned
    <3>2. ASSUME Resolves(w), Busy(w), WReq(w) = r PROVE FALSE
      <4>1. x = WDoc(w)
        BY <3>1, <3>2 DEF WDoc, WReq
      <4> QED
        BY <4>1, <3>2, <1>1, WorkerMarks
    <3>3. Pending(r)'
      BY <3>1, <3>2, <1>t, WorkerLeavesPending
    <3> QED
      BY <3>1, <3>3, <1>j
  <2>2. CASE row[x].detail # ReplacementInProgress
    <3>1. Goes(w) /\ WReq(w) \in Replaces /\ x = WDoc(w)
      BY <1>1, <2>2, WorkerMarks
    <3>2. PICK q \in Requests : q = WReq(w) /\ Pending(q)'
      BY <3>1, <1>g
    <3>3. target'[q] = x /\ q \in Replaces
      BY <3>1, <3>2, <1>j DEF WDoc, WReq
    <3> QED
      BY <3>2, <3>3
  <2> QED
    BY <2>1, <2>2
<1>2. ASSUME NEW x \in Docs, row'[x].exists, row'[x].status \in InStage
      PROVE  Pending(x)'
  <2>a. x \in Creates /\ x \in Requests
    BY <1>t
  <2>1. CASE row[x].status \in InStage
    <3>1. Pending(x)
      BY <1>2, <2>1, WorkerMarks DEF Owned
    <3>2. ASSUME Resolves(w), Busy(w), WReq(w) = x PROVE FALSE
      <4>1. rpc[x] # "new"
        BY <3>2, BusyWorker DEF Busy
      <4>2. x = WDoc(w)
        BY <4>1, <3>2, <2>a DEF WDoc, WReq, Begun
      <4> QED
        BY <4>2, <3>2, <2>a, <1>2, WorkerMarks
    <3> QED
      BY <3>1, <3>2, <2>a, WorkerLeavesPending
  <2>2. CASE row[x].status \notin InStage
    <3>1. Goes(w) /\ WReq(w) \in Creates /\ x = WDoc(w)
      BY <1>2, <2>2, WorkerMarks
    <3>2. PICK q \in Requests : q = WReq(w) /\ Pending(q)'
      BY <3>1, <1>g
    <3>3. rpc[q] # "new"
      BY <3>1, <3>2, BusyWorker DEF Goes, Busy
    <3>4. q = x
      BY <3>1, <3>2, <3>3 DEF WDoc, WReq, Begun
    <3> QED
      BY <3>2, <3>4
  <2> QED
    BY <2>1, <2>2
<1> QED
  BY <1>1, <1>2 DEF Owned

\* A handler's step keeps what rows say owned.
LEMMA HandlerOwned ==
  ASSUME TypeInv, SingleCustody, Begun, Exclusive, Owned, OnlyEnqueueFails,
         NEW r \in Requests, Handler(r)
  PROVE  Owned'
<1>t. /\ rpc \in [Requests -> HandlerSteps] /\ row \in [Docs -> Row]
      /\ target \in [Requests -> Docs \union {None}]
      /\ Creates \subseteq Requests /\ Replaces \subseteq Requests /\ Docs = Creates
      /\ Creates \intersect Replaces = {}
  BY DEF TypeInv, TypeOK, Requests, Docs
<1>s. /\ {"failed", "queued"} \subseteq Statuses
      /\ ReplacementInProgress \in Details /\ ReplacementFailed \in Details
      /\ ReplacementFailed # ReplacementInProgress /\ NoDetail # ReplacementInProgress
      /\ "failed" \notin InStage /\ "queued" \notin InStage
  BY DEF Statuses, StaleStatuses, ReplaceableStatuses, Details, InStage, ReplacementFailed,
     ReplacementInProgress, NoDetail
<1>p. \A q \in Requests : Pending(q) => Pending(q)' \/ (q = r /\ (RefuseFull(r) \/ UndoUpload(r)))
  BY HandlerLeavesPending
<1>1. CASE CreateDocument(r)
  <2>1. /\ r \in Creates /\ rpc[r] = "new" /\ rpc' = [rpc EXCEPT ![r] = "admit"]
        /\ target' = [target EXCEPT ![r] = r] /\ row' = [row EXCEPT ![r] = CreatedRow]
    BY <1>1 DEF CreateDocument, HandlerGoto
  <2>2. Pending(r)'
    BY <2>1, <1>t DEF Pending, HeldByHandler, HandlerPending
  <2>3. \A q \in Requests : Pending(q) => Pending(q)'
    BY <1>p, <2>2
  <2>4. CreatedRow.detail # ReplacementInProgress
    BY <1>s DEF CreatedRow
  <2>5. ASSUME NEW x \in Docs, row'[x].exists
        PROVE  /\ row'[x].detail = ReplacementInProgress =>
                    \E q \in Replaces : target'[q] = x /\ Pending(q)'
               /\ row'[x].status \in InStage => Pending(x)'
    <3>1. CASE x = r
      BY <3>1, <2>1, <2>2, <2>4, <1>t
    <3>2. CASE x # r
      <4>1. row'[x] = row[x]
        BY <3>2, <2>1, <1>t
      <4>2. \A q \in Replaces : target'[q] = target[q]
        BY <2>1, <1>t
      <4> QED
        BY <2>3, <2>5, <4>1, <4>2, <1>t DEF Owned
    <3> QED
      BY <3>1, <3>2
  <2> QED
    BY <2>5 DEF Owned
<1>2. ASSUME NEW d \in Docs, BeginReplacement(r, d) PROVE Owned'
  <2>1. /\ r \in Replaces /\ rpc[r] = "new" /\ target' = [target EXCEPT ![r] = d]
    BY <1>2 DEF BeginReplacement
  <2>2. ~RefuseFull(r) /\ ~UndoUpload(r) /\ ~Pending(r)
    BY <2>1, PendingHasDoc DEF RefuseFull, UndoUpload, HandlerGoto
  <2>3. \A q \in Requests : Pending(q) => Pending(q)' /\ target'[q] = target[q]
    BY <1>p, <2>1, <2>2, <1>t
  <2>4. ASSUME NEW x \in Docs, row'[x] = row[x], row[x].exists
        PROVE  /\ row'[x].detail = ReplacementInProgress =>
                    \E q \in Replaces : target'[q] = x /\ Pending(q)'
               /\ row'[x].status \in InStage => Pending(x)'
    BY <2>3, <2>4, <1>t DEF Owned
  <2>5. CASE ReplacementOutcome(row[d]) = "started"
    <3>1. /\ rpc' = [rpc EXCEPT ![r] = "admit"] /\ row' = [row EXCEPT ![d] = ClaimedRow(row[d])]
      BY <1>2, <2>5 DEF BeginReplacement
    <3>2. ClaimedRow(row[d]).status = row[d].status /\ ClaimedRow(row[d]).exists = row[d].exists
      BY <1>t, RowOperatorsKeep
    <3>3. row[d].status \notin InStage
      <4>1. row[d].exists /\ row[d].status \in ReplaceableStatuses
        BY <2>5 DEF ReplacementOutcome
      <4> QED
        BY <4>1 DEF ReplaceableStatuses, InStage, StaleStatuses
    <3>4. Pending(r)' /\ target'[r] = d
      BY <2>1, <3>1, <1>t DEF Pending, HeldByHandler, HandlerPending
    <3>5. \A x \in Docs : row'[x] = IF x = d THEN ClaimedRow(row[d]) ELSE row[x]
      BY <3>1, <1>t
    <3>6. ASSUME NEW x \in Docs, row'[x].exists
          PROVE  /\ row'[x].detail = ReplacementInProgress =>
                      \E q \in Replaces : target'[q] = x /\ Pending(q)'
                 /\ row'[x].status \in InStage => Pending(x)'
      <4>1. CASE x = d
        BY <4>1, <3>2, <3>3, <3>4, <3>5, <2>1
      <4>2. CASE x # d
        <5>1. row'[x] = row[x] /\ row[x].exists
          BY <4>2, <3>5, <3>6
        <5> QED
          BY <5>1, <2>4
      <4> QED
        BY <4>1, <4>2
    <3> QED
      BY <3>6 DEF Owned
  <2>6. CASE ReplacementOutcome(row[d]) # "started"
    <3>1. row' = row
      BY <1>2, <2>6 DEF BeginReplacement
    <3> QED
      BY <3>1, <2>4 DEF Owned
  <2> QED
    BY <2>5, <2>6
<1>3. CASE RefuseFull(r) \/ UndoUpload(r)
  <2>1. target' = target /\ row' = GivenUp(r) /\ rpc[r] # "new"
    BY <1>3 DEF RefuseFull, UndoUpload, HandlerGoto
  <2>d. target[r] \in Docs /\ row[target[r]] \in Row
    BY <2>1, <1>t DEF TypeInv, Aimed
  <2> DEFINE o == row[target[r]]
             n == IF r \in Replaces THEN SetStatusDetail(o, ReplacementFailed) ELSE UpdateStatus(o, "failed")
  <2>2. /\ n.exists = o.exists
        /\ r \in Replaces => n.status = o.status /\ (o.exists => n.detail = ReplacementFailed)
        /\ r \notin Replaces => n.detail = o.detail /\ (o.exists => n.status = "failed")
    <3>1. CASE r \in Replaces
      BY <3>1, <2>d, <1>s, RowOperatorsKeep
    <3>2. CASE r \notin Replaces
      BY <3>2, <2>d, <1>s, RowOperatorsKeep
    <3> QED
      BY <3>1, <3>2
  <2>3. \A x \in Docs : row'[x] = IF x = target[r] THEN n ELSE row[x]
    BY <2>1, <1>t DEF GivenUp, Doc, IsReplace
  <2> HIDE DEF n
  <2>4. ASSUME NEW x \in Docs, row'[x].exists, row'[x].detail = ReplacementInProgress
        PROVE  \E q \in Replaces : target'[q] = x /\ Pending(q)'
    <3>1. row[x].exists /\ row[x].detail = ReplacementInProgress /\ (x = target[r] => r \notin Replaces)
      BY <2>2, <2>3, <2>4, <1>s
    <3>2. PICK q \in Replaces : target[q] = x /\ Pending(q)
      BY <3>1 DEF Owned
    <3>3. q # r
      BY <3>1, <3>2
    <3> QED
      BY <3>2, <3>3, <1>p, <1>t, <2>1
  <2>5. ASSUME NEW x \in Docs, row'[x].exists, row'[x].status \in InStage PROVE Pending(x)'
    <3>1. row[x].exists /\ row[x].status \in InStage /\ (x = target[r] => r \in Replaces)
      BY <2>2, <2>3, <2>5, <1>s
    <3>2. Pending(x) /\ x \in Creates
      BY <3>1, <1>t DEF Owned
    <3>3. x # r
      BY <3>1, <3>2, <2>1, <1>t DEF Begun
    <3> QED
      BY <3>2, <3>3, <1>p, <1>t
  <2> QED
    BY <2>4, <2>5 DEF Owned
<1>4. CASE \/ CheckCapacity(r) \/ PutArtifact(r) \/ PushJob(r) \/ EnqueueError(r)
           \/ LinkArtifact(r)
           \/ AnnounceQueued(r) \/ RegisterSession(r)
  <2>1. target' = target /\ rpc[r] # "new" /\ ~RefuseFull(r) /\ ~UndoUpload(r)
    BY <1>4 DEF CheckCapacity, PutArtifact, PushJob, EnqueueError, RolledBack, LinkArtifact,
       AnnounceQueued, RegisterSession, RefuseFull, UndoUpload, HandlerGoto
  <2>d. target[r] \in Docs /\ row[target[r]] \in Row
    BY <2>1, <1>t DEF TypeInv, Aimed
  <2> DEFINE o == row[target[r]]
             Keeps(n) == n.exists = o.exists /\ n.detail = o.detail /\ n.status \in {o.status, "queued"}
  <2>2. \/ row' = row
        \/ row' = [row EXCEPT ![target[r]] = SetArtifactUri(o, TRUE)]
        \/ row' = [row EXCEPT ![target[r]] = UpdateStatus(o, "queued")]
    BY <1>4 DEF CheckCapacity, PutArtifact, PushJob, EnqueueError, LinkArtifact, AnnounceQueued,
       RegisterSession, Doc
  <2>3. Keeps(o) /\ Keeps(SetArtifactUri(o, TRUE)) /\ Keeps(UpdateStatus(o, "queued"))
    <3>1. Keeps(SetArtifactUri(o, TRUE))
      BY <2>d, RowOperatorsKeep
    <3>2. Keeps(UpdateStatus(o, "queued"))
      BY <2>d DEF UpdateStatus, Row
    <3> QED
      BY <3>1, <3>2
  <2>4. \E n : Keeps(n) /\ \A x \in Docs : row'[x] = IF x = target[r] THEN n ELSE row[x]
    <3> HIDE DEF Keeps
    <3>1. CASE row' = row
      BY <3>1, <2>3
    <3>2. CASE row' = [row EXCEPT ![target[r]] = SetArtifactUri(o, TRUE)]
      <4>1. \A x \in Docs : row'[x] = IF x = target[r] THEN SetArtifactUri(o, TRUE) ELSE row[x]
        BY <3>2, <1>t
      <4> QED
        BY <4>1, <2>3
    <3>3. CASE row' = [row EXCEPT ![target[r]] = UpdateStatus(o, "queued")]
      <4>1. \A x \in Docs : row'[x] = IF x = target[r] THEN UpdateStatus(o, "queued") ELSE row[x]
        BY <3>3, <1>t
      <4> QED
        BY <4>1, <2>3
    <3> QED
      BY <3>1, <3>2, <3>3, <2>2
  <2>5. \A x \in Docs : /\ row'[x].exists => row[x].exists
                        /\ row'[x].detail = row[x].detail
                        /\ row'[x].status \in InStage => row[x].status \in InStage
    BY <2>4, <1>s
  <2>6. \A q \in Requests : Pending(q) => Pending(q)'
    BY <1>p, <2>1
  <2> QED
    BY <2>1, <2>5, <2>6, <1>t DEF Owned
<1> QED
  BY <1>1, <1>2, <1>3, <1>4 DEF Handler, PushUnacknowledged, RouteError, OnlyEnqueueFails

\* A row in progress has its upload in every state.
LEMMA OwnedInvariant ==
  ASSUME OnlyEnqueueFails
  PROVE  Spec => []Owned
<1>n. NoLateFault
  BY DEF OnlyEnqueueFails, NoLateFault
<1>1. Init => Owned
  BY DEF Init, Owned, MissingRow
<1>2. TypeInv /\ SingleCustody /\ Begun /\ Exclusive /\ Owned /\ [Next]_vars => Owned'
  <2> SUFFICES ASSUME TypeInv, SingleCustody, Begun, Exclusive, Owned, [Next]_vars PROVE Owned'
    OBVIOUS
  <2>1. CASE UNCHANGED vars \/ \E x \in Deletes : Deleter(x)
    <3>1. UNCHANGED <<queue, rpc, wpc, job, target>>
      BY <2>1 DEF Deleter, ReadForDelete, CheckQueued, DeleteDocument, uploadVars, workerVars,
         vars
    <3>2. row \in [Docs -> Row]
      BY DEF TypeInv, TypeOK
    <3>3. \A c \in Docs : row'[c].exists => row'[c] = row[c]
      BY <2>1, <3>2 DEF Deleter, ReadForDelete, CheckQueued, DeleteDocument, vars, MissingRow
    <3>4. \A r \in Requests \union Docs : Pending(r)' <=> Pending(r)
      BY <3>1 DEF Pending, HeldByHandler, HeldByQueue, HeldByWorker, WReq
    <3> QED
      BY <3>1, <3>3, <3>4 DEF Owned, Requests
  <2> QED
    BY <2>1, HandlerOwned, WorkerOwned DEF Next, Quiescent
<1> QED
  BY <1>1, <1>2, <1>n, TypeInvariant, CustodyCorrect, ExclusiveInvariant, PTL DEF Spec

\* What a row says of progress is what somebody is doing: a replacement marker
\* exactly while a replacement is unresolved, a stage of a first ingestion only
\* while its upload is in hand; neither half is left behind or missing unless a
\* database or storage call fails.
THEOREM ProgressOwned ==
  ASSUME OnlyEnqueueFails
  PROVE  Spec => []ProgressIsOwned
<1>n. NoLateFault
  BY DEF OnlyEnqueueFails, NoLateFault
<1>1. TypeInv /\ Begun /\ Exclusive /\ Owned => ProgressIsOwned
  <2> SUFFICES ASSUME TypeInv, Exclusive, Owned PROVE ProgressIsOwned
    OBVIOUS
  <2>1. ClaimHasOwner
    BY DEF Owned, Exclusive, Says, ClaimHasOwner, Requests
  <2>2. StageHasUpload
    BY DEF Owned, InStage, StageHasUpload, Docs, Pending, InHands, HeldByWorker
  <2> QED
    BY <2>1, <2>2 DEF ProgressIsOwned
<1> QED
  BY <1>1, <1>n, OwnedInvariant, TypeInvariant, ExclusiveInvariant, PTL

-----------------------------------------------------------------------------
(* The content of a completed document.                                    *)

\* A file of an upload of the document, and that upload has begun.
FileOf(r, d) == r # None /\ rpc[r] # "new" /\ target[r] = d

\* Storage and workers hold for a document only files of its own uploads.
OwnFiles ==
  /\ \A d \in Docs : artifact[d] # None => FileOf(artifact[d], d)
  /\ \A w \in Workers : Busy(w) /\ wpc[w] \in Stages => FileOf(bytes[w], WDoc(w))

\* A worker that is to erase chunks has reported the first ingestion as failed,
\* and one that stored the chunks of a new document has something to complete.
ErasesReported(w) ==
  wpc[w] = "wipe" =>
    /\ WReq(w) \in Creates
    /\ row[WDoc(w)].exists => sent[WReq(w)] = <<"failed">>
CompletesStored(w) ==
  wpc[w] = "finish" /\ WReq(w) \in Creates /\ row[WDoc(w)].exists =>
    content[WDoc(w)] # None

ContentInv ==
  /\ CompletedHasContent
  /\ \A w \in Workers : Busy(w) => ErasesReported(w) /\ CompletesStored(w)

\* No handler completes a document, and only the insert brings one into being.
LEMMA HandlerRow ==
  ASSUME TypeInv, NEW r \in Requests, Handler(r), NEW x \in Docs, row'[x].exists
  PROVE  /\ row'[x].status = "completed" => row[x].exists /\ row[x].status = "completed"
         /\ row[x].exists \/ (rpc[r] = "new" /\ x = r)
<1>t. row \in [Docs -> Row] /\ target \in [Requests -> Docs \union {None}] /\ Docs = Creates
  BY DEF TypeInv, TypeOK, Docs
<1> DEFINE Keeps(n, o) == n.exists = o.exists /\ (n.status = o.status \/ n.status # "completed")
<1>1. CASE CreateDocument(r)
  <2>1. rpc[r] = "new" /\ r \in Docs /\ row' = [row EXCEPT ![r] = CreatedRow]
    BY <1>1, <1>t DEF CreateDocument, HandlerGoto
  <2>2. CreatedRow.status # "completed"
    BY DEF CreatedRow
  <2> QED
    BY <2>1, <2>2, <1>t
<1>2. CASE ~CreateDocument(r)
  <2>1. \/ row' = row
        \/ \E d \in Docs : \E n : Keeps(n, row[d]) /\ row' = [row EXCEPT ![d] = n]
    <3>1. ASSUME NEW d \in Docs, BeginReplacement(r, d)
          PROVE  row' = row \/ (Keeps(ClaimedRow(row[d]), row[d]) /\ row' = [row EXCEPT ![d] = ClaimedRow(row[d])])
      BY <3>1, <1>t, RowOperatorsKeep DEF BeginReplacement
    <3>2. CASE \/ LinkArtifact(r) \/ AnnounceQueued(r) \/ RefuseFull(r) \/ UndoUpload(r)
      <4>1. target[r] \in Docs /\ row[target[r]] \in Row
        BY <3>2, <1>t DEF LinkArtifact, AnnounceQueued, RefuseFull, UndoUpload, HandlerGoto,
           TypeInv, Aimed
      <4>2. PICK o : o = row[target[r]]
        OBVIOUS
      <4>3. o \in Row /\ Keeps(SetArtifactUri(o, TRUE), o) /\ Keeps(SetStatusDetail(o, ReplacementFailed), o)
            /\ Keeps(UpdateStatus(o, "queued"), o) /\ Keeps(UpdateStatus(o, "failed"), o)
        BY <4>1, <4>2 DEF SetArtifactUri, SetStatusDetail, UpdateStatus, Row
      <4>4. \/ row' = row
            \/ row' = [row EXCEPT ![target[r]] = SetArtifactUri(o, TRUE)]
            \/ row' = [row EXCEPT ![target[r]] = UpdateStatus(o, "queued")]
            \/ row' = [row EXCEPT ![target[r]] = UpdateStatus(o, "failed")]
            \/ row' = [row EXCEPT ![target[r]] = SetStatusDetail(o, ReplacementFailed)]
        BY <3>2, <4>2 DEF LinkArtifact, AnnounceQueued, RefuseFull, UndoUpload, GivenUp, Doc
      <4> HIDE DEF Keeps
      <4> QED
        BY <4>1, <4>2, <4>3, <4>4
    <3>3. CASE \/ CheckCapacity(r) \/ PutArtifact(r) \/ PushJob(r) \/ EnqueueError(r)
               \/ PushUnacknowledged(r) \/ RegisterSession(r) \/ RouteError(r)
      BY <3>3 DEF CheckCapacity, PutArtifact, PushJob, EnqueueError, PushUnacknowledged,
         RegisterSession, RouteError
    <3> HIDE DEF Keeps
    <3> QED
      BY <1>2, <3>1, <3>2, <3>3 DEF Handler
  <2> QED
    BY <2>1, <1>t
<1> QED
  BY <1>1, <1>2

\* A worker completes the document of its own upload only.
LEMMA WorkerCompletes ==
  ASSUME TypeInv, NEW w \in Workers, Worker(w), NEW x \in Docs, row'[x].exists,
         row'[x].status = "completed"
  PROVE  /\ row[x].exists
         /\ \/ row[x].status = "completed"
            \/ FinishJob(w) /\ ~IsReplace(WReq(w)) /\ x = WDoc(w)
            \/ StoreContent(w) /\ row[WDoc(w)].exists /\ x = WDoc(w)
<1>t. row \in [Docs -> Row]
  BY DEF TypeInv, TypeOK
<1>s. /\ ReplacementFailed \in Details /\ {"completed", "failed"} \subseteq Statuses
      /\ "completed" \notin StaleStatuses
  BY DEF Details, Statuses, ReplaceableStatuses, StaleStatuses
<1>e. row[x].exists /\ (x = WDoc(w) \/ row[x] = row'[x])
  BY WorkerRow
<1>1. CASE RecordFailure(w) \/ RecordDropped(w)
  <2>1. Busy(w) /\ TerminallyFailed(w)
    BY <1>1 DEF RecordFailure, RecordDropped, WorkerGoto, Busy
  <2>2. WDoc(w) \in Docs /\ row[WDoc(w)] \in Row
    BY <2>1, BusyWorker DEF Busy
  <2>3. CASE IsReplace(WReq(w))
    <3>1. row' = [row EXCEPT ![WDoc(w)] = SetStatusDetail(row[WDoc(w)], ReplacementFailed)]
      BY <2>1, <2>3 DEF TerminallyFailed
    <3>2. SetStatusDetail(row[WDoc(w)], ReplacementFailed).status = row[WDoc(w)].status
      BY <2>2, <1>s, RowOperatorsKeep
    <3>3. row'[x].status = row[x].status
      BY <3>1, <3>2, <1>t
    <3> QED
      BY <3>3, <2>3, <1>e
  <2>4. CASE ~IsReplace(WReq(w))
    <3>1. row' = [row EXCEPT ![WDoc(w)] = UpdateStatus(row[WDoc(w)], "failed")]
      BY <2>1, <2>4 DEF TerminallyFailed
    <3>2. /\ UpdateStatus(row[WDoc(w)], "failed").exists = row[WDoc(w)].exists
          /\ row[WDoc(w)].exists => UpdateStatus(row[WDoc(w)], "failed").status = "failed"
      BY <2>2, <1>s, RowOperatorsKeep
    <3>3. x # WDoc(w)
      BY <3>1, <3>2, <2>2, <1>t
    <3> QED
      BY <3>3, <1>e
  <2> QED
    BY <2>3, <2>4
<1>2. CASE Resolves(w) /\ ~RecordFailure(w) /\ ~RecordDropped(w)
  BY <1>2, <1>e DEF Resolves
<1>3. CASE ~Resolves(w)
  <2>1. row'[x].status \in {row[x].status} \union StaleStatuses
    BY <1>3, WorkerRowKept
  <2> QED
    BY <2>1, <1>e, <1>s, <1>3 DEF Resolves
<1> QED
  BY <1>1, <1>2, <1>3

\* A handler begins its upload and changes no document but its own.
LEMMA HandlerFiles ==
  ASSUME TypeInv, NEW r \in Requests, Handler(r)
  PROVE  /\ UNCHANGED <<wpc, job, bytes, content, sent>>
         /\ \A q \in Requests : rpc[q] # "new" => rpc'[q] # "new" /\ target'[q] = target[q]
         /\ \/ artifact' = artifact
            \/ rpc[r] # "new" /\ \E f \in {r, None} : artifact' = [artifact EXCEPT ![target[r]] = f]
<1>t. rpc \in [Requests -> HandlerSteps] /\ target \in [Requests -> Docs \union {None}]
  BY DEF TypeInv, TypeOK
<1>1. UNCHANGED <<wpc, job, bytes, content, sent>>
  BY DEF Handler, CreateDocument, BeginReplacement, CheckCapacity, PutArtifact, PushJob,
     EnqueueError, PushUnacknowledged, LinkArtifact, AnnounceQueued, RegisterSession,
     RouteError, RefuseFull, UndoUpload, workerVars
<1>2. \A q \in Requests : rpc[q] # "new" => rpc'[q] # "new" /\ target'[q] = target[q]
  BY <1>t DEF Handler, CreateDocument, BeginReplacement, CheckCapacity, PutArtifact, PushJob,
     EnqueueError, PushUnacknowledged, LinkArtifact, AnnounceQueued, RegisterSession,
     RouteError, RefuseFull, UndoUpload, HandlerGoto
<1>3. \/ artifact' = artifact
      \/ rpc[r] # "new" /\ \E f \in {r, None} : artifact' = [artifact EXCEPT ![target[r]] = f]
  BY DEF Handler, CreateDocument, BeginReplacement, CheckCapacity, PutArtifact, PushJob,
     EnqueueError, PushUnacknowledged, RolledBack, LinkArtifact, AnnounceQueued,
     RegisterSession, RouteError, RefuseFull, UndoUpload, HandlerGoto, Doc
<1> QED
  BY <1>1, <1>2, <1>3

\* A worker erases files or fetches the one it finds under its document's key.
LEMMA WorkerFiles ==
  ASSUME TypeInv, NEW w \in Workers, Worker(w)
  PROVE  /\ \A d \in Docs : artifact'[d] \in {artifact[d], None}
         /\ \A v \in Workers : v # w => bytes'[v] = bytes[v]
         /\ wpc'[w] \in Stages =>
              /\ Busy(w) /\ job' = job
              /\ \/ bytes'[w] = artifact[WDoc(w)] /\ bytes'[w] # None
                 \/ wpc[w] \in Stages /\ bytes'[w] = bytes[w]
<1>t. /\ artifact \in [Docs -> Requests \union {None}]
      /\ bytes \in [Workers -> Requests \union {None}] /\ wpc \in [Workers -> WorkerSteps]
  BY DEF TypeInv, TypeOK
<1>1. \A d \in Docs : artifact'[d] \in {artifact[d], None}
  BY <1>t DEF Worker, TakeJob, FetchArtifact, FetchError, StartExtracting, StartChunking,
     StartEmbedding, EmbedProgress, StartStoring, FinishJob, StageStep, StoreContent,
     NotifyCompleted, DiscardArtifact, PurgeArtifact, DeleteArtifact, UnlinkArtifact,
     DetachArtifact, PipelineError, MarkRetrying, PatchRetrying, CheckRequeue, PushRetry,
     RecordFailure, ReportFailure, WipeChunks, RecordDropped, ReportDropped, RecordError,
     CleanupError, RedisError, BuryJob
<1>2. \A v \in Workers : v # w => bytes'[v] = bytes[v]
  BY <1>t DEF Worker, TakeJob, FetchArtifact, FetchError, StartExtracting, StartChunking,
     StartEmbedding, EmbedProgress, StartStoring, FinishJob, StageStep, StoreContent,
     NotifyCompleted, DiscardArtifact, PurgeArtifact, DeleteArtifact, UnlinkArtifact,
     DetachArtifact, PipelineError, MarkRetrying, PatchRetrying, CheckRequeue, PushRetry,
     RecordFailure, ReportFailure, WipeChunks, RecordDropped, ReportDropped, RecordError,
     CleanupError, RedisError, BuryJob, Released
<1>3. ASSUME wpc'[w] \in Stages
      PROVE  /\ Busy(w) /\ job' = job
             /\ \/ bytes'[w] = artifact[WDoc(w)] /\ bytes'[w] # None
                \/ wpc[w] \in Stages /\ bytes'[w] = bytes[w]
  BY <1>3, <1>t DEF Worker, TakeJob, FetchArtifact, FetchError, StartExtracting, StartChunking,
     StartEmbedding, EmbedProgress, StartStoring, FinishJob, StageStep, StoreContent,
     NotifyCompleted, DiscardArtifact, PurgeArtifact, DeleteArtifact, UnlinkArtifact,
     DetachArtifact, PipelineError, MarkRetrying, PatchRetrying, CheckRequeue, PushRetry,
     RecordFailure, ReportFailure, WipeChunks, RecordDropped, ReportDropped, RecordError,
     CleanupError, RedisError, BuryJob, WorkerGoto, Stages, Busy
<1> QED
  BY <1>1, <1>2, <1>3

\* No file of one document gets under the key, or to the worker, of another.
LEMMA OwnFilesStep ==
  ASSUME TypeInv, OwnFiles, [Next]_vars
  PROVE  OwnFiles'
<1> DEFINE FileNow(q, d) == q # None /\ rpc'[q] # "new" /\ target'[q] = d
<1>t. /\ artifact \in [Docs -> Requests \union {None}]
      /\ bytes \in [Workers -> Requests \union {None}] /\ None \notin Requests
  BY DEF TypeInv, TypeOK
<1>1. ASSUME NEW r \in Requests, Handler(r) PROVE OwnFiles'
  <2>1. \A q \in Requests, d \in Docs : FileOf(q, d) => FileNow(q, d)
    BY <1>1, HandlerFiles DEF FileOf
  <2>4. ASSUME NEW d \in Docs, artifact'[d] # None PROVE FileNow(artifact'[d], d)
    <3>1. \/ artifact'[d] = artifact[d]
          \/ rpc[r] # "new" /\ d = target[r] /\ artifact'[d] = r
      BY <2>4, <1>1, <1>t, HandlerFiles
    <3>2. CASE artifact'[d] = artifact[d]
      BY <3>2, <2>4, <2>1, <1>t DEF OwnFiles
    <3>3. CASE rpc[r] # "new" /\ d = target[r] /\ artifact'[d] = r
      <4>1. target'[r] = target[r] /\ rpc'[r] # "new"
        BY <3>3, <1>1, HandlerFiles
      <4> QED
        BY <3>3, <4>1, <1>t DEF FileOf
    <3> QED
      BY <3>1, <3>2, <3>3
  <2>5. ASSUME NEW w \in Workers, Busy(w)', wpc'[w] \in Stages PROVE FileNow(bytes'[w], WDoc(w)')
    <3>1. /\ Busy(w) /\ wpc[w] \in Stages /\ bytes'[w] = bytes[w]
          /\ WReq(w)' = WReq(w)
      BY <2>5, <1>1, HandlerFiles DEF Busy, WReq
    <3>2. WDoc(w) \in Docs /\ WReq(w) \in Requests /\ rpc[WReq(w)] # "new"
      BY <3>1, BusyWorker DEF Busy
    <3>3. WDoc(w)' = WDoc(w)
      <4>1. PICK q \in Requests : q = WReq(w) /\ rpc[q] # "new"
        BY <3>2
      <4>2. target'[q] = target[q]
        BY <4>1, <1>1, HandlerFiles
      <4> QED
        BY <4>1, <4>2, <3>1 DEF WDoc, WReq
    <3>4. FileOf(bytes[w], WDoc(w)) /\ bytes[w] \in Requests
      BY <3>1, <1>t DEF OwnFiles, FileOf
    <3> QED
      BY <3>1, <3>2, <3>3, <3>4, <2>1 DEF FileOf
  <2> QED
    BY <2>4, <2>5 DEF OwnFiles, FileOf
<1>2. ASSUME NEW w \in Workers, Worker(w) PROVE OwnFiles'
  <2>j. /\ rpc' = rpc /\ target' = target
        /\ \A v \in Workers : v # w => wpc'[v] = wpc[v] /\ job'[v] = job[v]
    BY <1>2, WorkerJobs
  <2>1. ASSUME NEW d \in Docs, artifact'[d] # None PROVE FileNow(artifact'[d], d)
    BY <2>1, <2>j, <1>2, WorkerFiles DEF OwnFiles, FileOf
  <2>2. ASSUME NEW v \in Workers, Busy(v)', wpc'[v] \in Stages PROVE FileNow(bytes'[v], WDoc(v)')
    <3>1. CASE v # w
      <4>1. Busy(v) /\ wpc[v] \in Stages /\ bytes'[v] = bytes[v] /\ WDoc(v)' = WDoc(v)
        BY <3>1, <2>2, <2>j, <1>2, WorkerFiles DEF Busy, WDoc
      <4> QED
        BY <4>1, <2>j DEF OwnFiles, FileOf
    <3>2. CASE v = w
      <4>1. /\ Busy(w) /\ WDoc(w)' = WDoc(w)
            /\ \/ bytes'[w] = artifact[WDoc(w)] /\ bytes'[w] # None
               \/ wpc[w] \in Stages /\ bytes'[w] = bytes[w]
        BY <3>2, <2>2, <2>j, <1>2, WorkerFiles DEF WDoc
      <4>2. WDoc(w) \in Docs
        BY <4>1, BusyWorker DEF Busy
      <4> QED
        BY <3>2, <4>1, <4>2, <2>j DEF OwnFiles, FileOf
    <3> QED
      BY <3>1, <3>2
  <2> QED
    BY <2>1, <2>2 DEF OwnFiles, FileOf
<1>3. CASE UNCHANGED vars \/ \E x \in Deletes : Deleter(x)
  <2>1. UNCHANGED <<rpc, wpc, job, bytes, target, artifact>>
    BY <1>3 DEF Deleter, ReadForDelete, CheckQueued, DeleteDocument, uploadVars, workerVars,
       vars
  <2> QED
    BY <2>1 DEF OwnFiles, FileOf, Busy, WReq, WDoc
<1> QED
  BY <1>1, <1>2, <1>3 DEF Next, Quiescent

\* The outcome that was reported first stays, and a worker that reports a failure
\* reports it of an upload without an outcome.
LEMMA WorkerReports ==
  ASSUME TypeInv, OutcomeInv, NEW w \in Workers, Worker(w)
  PROVE  /\ \A q \in Requests : sent[q] # <<>> => sent'[q] = sent[q]
         /\ ReportFailure(w) /\ row[WDoc(w)].exists => sent'[WReq(w)] = <<"failed">>
<1>t. sent \in [Requests -> Seq({"completed", "failed"})]
  BY DEF TypeInv, TypeOK
<1>1. CASE NotifyCompleted(w) \/ ReportFailure(w) \/ ReportDropped(w)
  <2>1. /\ Busy(w) /\ wpc[w] \notin Closing \union Clearing
        /\ \E o \in {"completed", "failed"} : Notified(w, o)
        /\ ReportFailure(w) => Notified(w, "failed")
    BY <1>1 DEF NotifyCompleted, ReportFailure, ReportDropped, WorkerGoto, Busy, Closing,
       Clearing
  <2>2. PICK q \in Requests : q = WReq(w)
    BY <2>1, BusyWorker DEF Busy
  <2>3. sent[q] = <<>>
    BY <2>1, <2>2 DEF OutcomeInv, Ended
  <2>4. \A p \in Requests : p # q => sent'[p] = sent[p]
    BY <2>1, <2>2, <1>t DEF Notified
  <2>5. ReportFailure(w) /\ row[WDoc(w)].exists => sent'[q] = Append(<<>>, "failed")
    BY <2>1, <2>2, <2>3, <1>t DEF Notified
  <2> QED
    BY <2>2, <2>3, <2>4, <2>5
<1>2. CASE ~(NotifyCompleted(w) \/ ReportFailure(w) \/ ReportDropped(w))
  BY <1>2 DEF Worker, TakeJob, FetchArtifact, FetchError, StartExtracting, StartChunking,
     StartEmbedding, EmbedProgress, StartStoring, FinishJob, StageStep, StoreContent,
     DiscardArtifact, PurgeArtifact, DeleteArtifact, UnlinkArtifact,
     DetachArtifact, PipelineError, MarkRetrying, PatchRetrying, CheckRequeue, PushRetry,
     RecordFailure, WipeChunks, RecordDropped, RecordError, CleanupError, RedisError, BuryJob
<1> QED
  BY <1>1, <1>2

\* What a worker's step does to the chunks, and to where the worker is.
LEMMA WorkerChunks ==
  ASSUME TypeInv, NEW w \in Workers, Worker(w)
  PROVE  /\ \/ content' = content
            \/ /\ StoreContent(w) /\ Busy(w) /\ wpc[w] = "store" /\ row[WDoc(w)].exists
               /\ content' = [content EXCEPT ![WDoc(w)] = bytes[w]]
            \/ /\ WipeChunks(w) /\ Busy(w) /\ wpc[w] = "wipe" /\ row' = row
               /\ content' = [content EXCEPT ![WDoc(w)] = None]
         /\ wpc'[w] = "wipe" =>
              ReportFailure(w) /\ Busy(w) /\ WReq(w) \in Creates /\ job' = job /\ row' = row
         /\ wpc'[w] = "finish" =>
              StoreContent(w) /\ Busy(w) /\ wpc[w] = "store" /\ job' = job
              /\ content' = [content EXCEPT ![WDoc(w)] = bytes[w]]
<1>t. wpc \in [Workers -> WorkerSteps] /\ Requests = Creates \union Replaces
  BY DEF TypeInv, TypeOK, Requests
<1>1. CASE StoreContent(w)
  BY <1>1, <1>t DEF StoreContent, Busy
<1>2. CASE WipeChunks(w)
  BY <1>2, <1>t DEF WipeChunks, WorkerGoto, Busy
<1>3. CASE ReportFailure(w)
  <2>1. /\ wpc[w] = "report" /\ UNCHANGED <<row, content, job>>
        /\ wpc' = [wpc EXCEPT ![w] = IF IsReplace(WReq(w)) THEN "purge" ELSE "wipe"]
    BY <1>3 DEF ReportFailure
  <2>2. WReq(w) \in Requests
    BY <2>1, BusyWorker
  <2> QED
    BY <1>3, <2>1, <2>2, <1>t DEF IsReplace, Busy
<1>4. CASE ~StoreContent(w) /\ ~WipeChunks(w) /\ ~ReportFailure(w)
  <2>1. content' = content
    BY <1>4 DEF Worker, TakeJob, FetchArtifact, FetchError, StartExtracting, StartChunking,
       StartEmbedding, EmbedProgress, StartStoring, FinishJob, StageStep,
       NotifyCompleted, DiscardArtifact, PurgeArtifact, DeleteArtifact, UnlinkArtifact,
       DetachArtifact, PipelineError, MarkRetrying, PatchRetrying, CheckRequeue, PushRetry,
       RecordFailure, RecordDropped, ReportDropped, RecordError, CleanupError, RedisError,
       BuryJob
  <2>2. wpc'[w] \notin {"wipe", "finish"}
    BY <1>4, <1>t DEF Worker, TakeJob, FetchArtifact, FetchError, StartExtracting,
       StartChunking,
       StartEmbedding, EmbedProgress, StartStoring, FinishJob, StageStep,
       NotifyCompleted, DiscardArtifact, PurgeArtifact, DeleteArtifact, UnlinkArtifact,
       DetachArtifact, PipelineError, MarkRetrying, PatchRetrying, CheckRequeue, PushRetry,
       RecordFailure, RecordDropped, ReportDropped, RecordError, CleanupError, RedisError,
       BuryJob, WorkerGoto
  <2> QED
    BY <2>1, <2>2
<1> QED
  BY <1>1, <1>2, <1>3, <1>4

\* A worker's step keeps the content of completed documents, and what that rests on.
LEMMA WorkerContent ==
  ASSUME TypeInv, SingleCustody, OutcomeInv, Begun, OwnFiles, ContentInv,
         NEW w \in Workers, Worker(w)
  PROVE  ContentInv'
<1>t. /\ content \in [Docs -> Requests \union {None}] /\ None \notin Requests
      /\ Requests = Creates \union Replaces /\ Docs = Creates
  BY DEF TypeInv, TypeOK, Requests, Docs
<1>j. /\ target' = target
      /\ \A v \in Workers : v # w => wpc'[v] = wpc[v] /\ job'[v] = job[v]
  BY WorkerJobs
<1>r. \A x \in Docs : row'[x].exists => row[x].exists
  BY WorkerRow
<1>k. \A q \in Requests : sent[q] = <<"failed">> => sent'[q] = <<"failed">>
  BY WorkerReports
<1>b. Busy(w) => WDoc(w) \in Docs /\ WReq(w) \in Requests
  BY BusyWorker DEF Busy
<1>o. Busy(w) /\ wpc[w] = "store" => bytes[w] # None
  BY DEF OwnFiles, FileOf, Stages
<1>n. \A v \in Workers : Busy(v) /\ WReq(v) \in Creates => WDoc(v) = WReq(v) /\ WDoc(v) \in Docs
  <2> SUFFICES ASSUME NEW v \in Workers, Busy(v), WReq(v) \in Creates
               PROVE  WDoc(v) = WReq(v) /\ WDoc(v) \in Docs
    OBVIOUS
  <2>1. rpc[WReq(v)] # "new" /\ WDoc(v) = target[WReq(v)]
    BY BusyWorker DEF Busy, WDoc, WReq
  <2> QED
    BY <2>1, <1>t DEF Begun
<1>w. WipeChunks(w) /\ wpc[w] = "wipe" /\ Busy(w) =>
        WReq(w) \in Creates /\ (row[WDoc(w)].exists => sent[WDoc(w)] = <<"failed">>)
  BY <1>n DEF ContentInv, ErasesReported
<1>1. CompletedHasContent'
  <2> SUFFICES ASSUME NEW x \in Docs, row'[x].exists, row'[x].status = "completed",
                      content'[x] = None
               PROVE  sent'[x] = <<"failed">>
    BY DEF CompletedHasContent
  <2>0. x \in Requests /\ row[x].exists
    BY <1>t, <1>r
  <2>1. CASE row[x].status = "completed" /\ content[x] = None
    BY <2>0, <2>1, <1>k DEF ContentInv, CompletedHasContent
  <2>2. CASE content[x] # None
    <3>1. x = WDoc(w) /\ row[x].exists /\ WipeChunks(w) /\ wpc[w] = "wipe" /\ Busy(w)
      BY <2>0, <2>2, <1>t, <1>o, WorkerChunks
    <3> QED
      BY <2>0, <3>1, <1>w, <1>k
  <2>3. CASE row[x].status # "completed" /\ content[x] = None
    <3>1. \/ FinishJob(w) /\ ~IsReplace(WReq(w)) /\ x = WDoc(w)
          \/ StoreContent(w) /\ row[WDoc(w)].exists /\ x = WDoc(w)
      BY <2>3, WorkerCompletes
    <3>2. CASE StoreContent(w) /\ row[WDoc(w)].exists /\ x = WDoc(w)
      <4>1. Busy(w) /\ wpc[w] = "store" /\ content' = [content EXCEPT ![WDoc(w)] = bytes[w]]
        BY <3>2 DEF StoreContent, Busy
      <4> QED
        BY <3>2, <4>1, <1>o, <1>t
    <3>3. CASE FinishJob(w) /\ ~IsReplace(WReq(w)) /\ x = WDoc(w)
      <4>1. Busy(w) /\ wpc[w] = "finish"
        BY <3>3 DEF FinishJob, StageStep, WorkerGoto, Busy
      <4>2. WReq(w) \in Creates
        BY <3>3, <4>1, <1>b, <1>t DEF IsReplace
      <4> QED
        BY <4>1, <4>2, <3>3, <2>0, <2>3 DEF ContentInv, CompletesStored
    <3> QED
      BY <3>1, <3>2, <3>3
  <2> QED
    BY <2>1, <2>2, <2>3
<1>2. ASSUME NEW v \in Workers, v # w, Busy(v)' PROVE ErasesReported(v)' /\ CompletesStored(v)'
  <2>1. /\ Busy(v) /\ wpc'[v] = wpc[v] /\ WReq(v)' = WReq(v) /\ WDoc(v)' = WDoc(v)
        /\ ErasesReported(v) /\ CompletesStored(v)
    BY <1>2, <1>j DEF Busy, WReq, WDoc, ContentInv
  <2>2. WDoc(v) \in Docs /\ WReq(v) \in Requests
    BY <2>1, BusyWorker DEF Busy
  <2>3. ErasesReported(v)'
    BY <2>1, <2>2, <1>r, <1>k DEF ErasesReported
  <2>4. ASSUME wpc[v] = "finish", WReq(v) \in Creates, row'[WDoc(v)].exists
        PROVE  content'[WDoc(v)] # None
    <3>1. content[WDoc(v)] # None /\ WDoc(v) = WReq(v)
      BY <2>1, <2>2, <2>4, <1>r, <1>n DEF CompletesStored
    <3>2. CASE WipeChunks(w) /\ Busy(w) /\ wpc[w] = "wipe"
               /\ content' = [content EXCEPT ![WDoc(w)] = None]
      <4>1. WDoc(w) = WReq(w)
        BY <3>2, <1>w, <1>n
      <4>2. WReq(w) # WReq(v)
        BY <3>2, <2>1, <2>2, <1>2, <1>b DEF SingleCustody, Busy
      <4> QED
        BY <3>1, <3>2, <4>1, <4>2, <2>2, <1>t
    <3>3. CASE Busy(w) /\ wpc[w] = "store" /\ content' = [content EXCEPT ![WDoc(w)] = bytes[w]]
      BY <3>1, <3>3, <2>2, <1>o, <1>t
    <3>4. CASE content' = content
      BY <3>1, <3>4
    <3> QED
      BY <3>2, <3>3, <3>4, WorkerChunks
  <2>5. CompletesStored(v)'
    BY <2>1, <2>4 DEF CompletesStored
  <2> QED
    BY <2>3, <2>5
<1>3. ErasesReported(w)'
  <2> SUFFICES ASSUME wpc'[w] = "wipe"
               PROVE  WReq(w)' \in Creates /\ (row'[WDoc(w)'].exists => sent'[WReq(w)'] = <<"failed">>)
    BY DEF ErasesReported
  <2>1. ReportFailure(w) /\ Busy(w) /\ WReq(w) \in Creates /\ job' = job /\ row' = row
    BY WorkerChunks
  <2>2. WReq(w)' = WReq(w) /\ WDoc(w)' = WDoc(w)
    BY <2>1, <1>j DEF WReq, WDoc
  <2> QED
    BY <2>1, <2>2, WorkerReports
<1>4. CompletesStored(w)'
  <2> SUFFICES ASSUME wpc'[w] = "finish" PROVE content'[WDoc(w)'] # None
    BY DEF CompletesStored
  <2>1. /\ Busy(w) /\ wpc[w] = "store" /\ job' = job
        /\ content' = [content EXCEPT ![WDoc(w)] = bytes[w]]
    BY WorkerChunks
  <2>2. WDoc(w)' = WDoc(w)
    BY <2>1, <1>j DEF WDoc
  <2> QED
    BY <2>1, <2>2, <1>b, <1>o, <1>t
<1> QED
  BY <1>1, <1>2, <1>3, <1>4 DEF ContentInv

\* A handler's step does too.
LEMMA HandlerContent ==
  ASSUME TypeInv, Begun, ContentInv, NEW r \in Requests, Handler(r)
  PROVE  ContentInv'
<1>t. Docs = Creates /\ Creates \subseteq Requests
  BY DEF Requests, Docs
<1>1. CompletedHasContent'
  BY HandlerRow, HandlerFiles DEF ContentInv, CompletedHasContent
<1>2. ASSUME NEW w \in Workers, Busy(w)' PROVE ErasesReported(w)' /\ CompletesStored(w)'
  <2>1. /\ Busy(w) /\ wpc'[w] = wpc[w] /\ WReq(w)' = WReq(w) /\ sent' = sent
        /\ content' = content
        /\ ErasesReported(w) /\ CompletesStored(w)
    BY <1>2, HandlerFiles DEF Busy, WReq, ContentInv
  <2>2. PICK q \in Requests : q = WReq(w) /\ rpc[q] # "new" /\ WDoc(w) = target[q] /\ target[q] \in Docs
    BY <2>1, BusyWorker DEF Busy, WReq, WDoc
  <2>3. WDoc(w)' = target[q]
    BY <2>1, <2>2, HandlerFiles DEF WReq, WDoc
  <2>4. q \in Creates /\ row'[target[q]].exists => row[target[q]].exists
    <3>1. q \in Creates => ~(rpc[r] = "new" /\ target[q] = r)
      BY <2>2 DEF Begun
    <3> QED
      BY <2>2, <3>1, HandlerRow
  <2> QED
    BY <2>1, <2>2, <2>3, <2>4 DEF ErasesReported, CompletesStored
<1> QED
  BY <1>1, <1>2 DEF ContentInv

\* Content is a file of the document's own uploads, and completed documents have
\* theirs, in every state.
LEMMA ContentInvariant == Spec => [](OwnFiles /\ ContentInv)
<1>1. Init => OwnFiles /\ ContentInv
  BY DEF Init, OwnFiles, ContentInv, CompletedHasContent, MissingRow, Busy
<1>2. TypeInv /\ OwnFiles /\ [Next]_vars => OwnFiles'
  BY OwnFilesStep
<1>3. TypeInv /\ SingleCustody /\ OutcomeInv /\ Begun /\ OwnFiles /\ ContentInv /\ [Next]_vars
      => ContentInv'
  <2> SUFFICES ASSUME TypeInv, SingleCustody, OutcomeInv, Begun, OwnFiles, ContentInv,
  [Next]_vars
               PROVE  ContentInv'
    OBVIOUS
  <2>1. CASE UNCHANGED vars \/ \E x \in Deletes : Deleter(x)
    <3>1. UNCHANGED <<wpc, job, target, sent>>
      BY <2>1 DEF Deleter, ReadForDelete, CheckQueued, DeleteDocument, uploadVars, workerVars,
         vars
    <3>2. row \in [Docs -> Row] /\ content \in [Docs -> Requests \union {None}]
      BY DEF TypeInv, TypeOK
    <3>3. \A c \in Docs : row'[c].exists => row'[c] = row[c] /\ content'[c] = content[c]
      BY <2>1, <3>2 DEF Deleter, ReadForDelete, CheckQueued, DeleteDocument, vars, MissingRow
    <3>4. \A w \in Workers : Busy(w) => WDoc(w) \in Docs
      BY BusyWorker DEF Busy
    <3> QED
      BY <3>1, <3>3, <3>4
         DEF ContentInv, CompletedHasContent, ErasesReported, CompletesStored, Busy, WReq, WDoc
  <2> QED
    BY <2>1, HandlerContent, WorkerContent DEF Next, Quiescent
<1> QED
  BY <1>1, <1>2, <1>3, TypeInvariant, CustodyCorrect, OutcomeInvariant, BegunInvariant, PTL
     DEF Spec

\* Whatever calls fail, whatever deletes do beside it and however many workers
\* run, a completed document loses its content to nothing but the late clean-up
\* of its first ingestion, reported as failed, and it is only swapped for the file
\* of an upload of the same document while one is at work.
THEOREM ContentKept == Spec => ContentOutlivesUploads
<1>1. ContentInv' => CompletedHasContent'
  BY DEF ContentInv
<1>2. TypeInv /\ OwnFiles /\ [Next]_vars =>
        \A d \in Docs : content'[d] \notin {content[d], None}
          => target[content'[d]] = d /\ \E r \in Requests : target[r] = d /\ Pending(r)
  <2> SUFFICES ASSUME TypeInv, OwnFiles, [Next]_vars, NEW d \in Docs,
                      content'[d] \notin {content[d], None}
               PROVE  target[content'[d]] = d /\ \E r \in Requests : target[r] = d /\ Pending(r)
    OBVIOUS
  <2>t. content \in [Docs -> Requests \union {None}]
    BY DEF TypeInv, TypeOK
  <2>1. ASSUME NEW r \in Requests, Handler(r) PROVE FALSE
    BY <2>1, HandlerFiles
  <2>2. ASSUME NEW x \in Deletes, Deleter(x) PROVE FALSE
    BY <2>2, <2>t DEF Deleter, ReadForDelete, CheckQueued, DeleteDocument
  <2>3. PICK w \in Workers : Worker(w)
    BY <2>1, <2>2 DEF Next, Quiescent, vars
  <2>4. d = WDoc(w) /\ Busy(w) /\ wpc[w] = "store" /\ content'[d] = bytes[w]
    BY <2>3, <2>t, WorkerChunks
  <2>5. target[bytes[w]] = d
    BY <2>4 DEF OwnFiles, FileOf, Stages
  <2>6. PICK q \in Requests : q = WReq(w)
    BY <2>4, BusyWorker DEF Busy
  <2>7. target[q] = d /\ Pending(q)
    BY <2>4, <2>6 DEF Pending, HeldByWorker, WorkerPending, Busy, WDoc, WReq
  <2> QED
    BY <2>4, <2>5, <2>7
<1>3. TypeInv /\ OwnFiles /\ ContentInv' /\ [Next]_vars => ContentStep \/ UNCHANGED vars
  BY <1>1, <1>2 DEF ContentStep
<1> QED
  BY <1>3, TypeInvariant, ContentInvariant, PTL DEF Spec, ContentOutlivesUploads

-----------------------------------------------------------------------------
(* Ingestion implements ActiveContent.                                     *)

\* A worker about to complete a new document has put its own file there, and
\* only a worker of a new document erases chunks.
ServiceInv ==
  \A w \in Workers : Busy(w) =>
    /\ wpc[w] = "wipe" => WReq(w) \in Creates
    /\ wpc[w] = "finish" /\ WReq(w) \in Creates /\ row[WDoc(w)].exists =>
         content[WDoc(w)] = WReq(w)

\* A document whose first upload a worker completes or cleans up is not written
\* to by another worker.
LEMMA OthersKeepContent ==
  ASSUME TypeInv, SingleCustody, Begun, Exclusive, ServiceInv,
         NEW w \in Workers, Worker(w), NEW v \in Workers, v # w,
         Busy(v), wpc[v] = "finish", WReq(v) \in Creates
  PROVE  content'[WDoc(v)] = content[WDoc(v)]
<1>t. content \in [Docs -> Requests \union {None}]
  BY DEF TypeInv, TypeOK
<1>1. PICK q \in Requests : q = WReq(v)
  BY BusyWorker DEF Busy
<1>2. Pending(q) /\ target[q] = WDoc(v) /\ WDoc(v) \in Docs /\ target[q] = q
  BY <1>1, <1>1, BusyWorker DEF Pending, HeldByWorker, Busy, WDoc, WReq, Begun, IsReplace,
     Requests
<1>3. CASE StoreContent(w)
  <2>1. Busy(w) /\ wpc[w] = "store" /\ WDoc(w) \in Docs
    BY <1>3, BusyWorker DEF StoreContent, Busy
  <2>2. PICK p \in Requests : p = WReq(w)
    BY <2>1, BusyWorker DEF Busy
  <2>3. Pending(p) /\ target[p] = WDoc(w)
    BY <2>1, <2>2 DEF Pending, HeldByWorker, WorkerPending, Busy, WDoc, WReq
  <2>4. p # q
    BY <1>1, <2>1, <2>2 DEF SingleCustody, Busy
  <2>5. WDoc(w) # WDoc(v)
    BY <1>2, <2>3, <2>4 DEF Exclusive, OneUploadPerDocument
  <2> QED
    BY <1>3, <1>t, <2>1, <2>5, <1>2 DEF StoreContent
<1>4. CASE WipeChunks(w)
  <2>1. Busy(w) /\ wpc[w] = "wipe" /\ WDoc(w) \in Docs
    BY <1>4, BusyWorker DEF WipeChunks, WorkerGoto, Busy
  <2>2. PICK p \in Requests : p = WReq(w)
    BY <2>1, BusyWorker DEF Busy
  <2>3. p \in Creates /\ rpc[p] # "new"
    BY <2>1, <2>2, BusyWorker DEF ServiceInv, Busy
  <2>4. WDoc(w) = p
    BY <2>2, <2>3 DEF Begun, WDoc, WReq
  <2>5. p # q
    BY <1>1, <2>1, <2>2 DEF SingleCustody, Busy
  <2> QED
    BY <1>4, <1>t, <2>1, <2>4, <2>5, <1>2 DEF WipeChunks
<1> QED
  BY <1>3, <1>4 DEF Worker, TakeJob, FetchArtifact, FetchError, StartExtracting, StartChunking,
     StartEmbedding, EmbedProgress, StartStoring, FinishJob, StageStep,
     NotifyCompleted, DiscardArtifact, PurgeArtifact, DeleteArtifact, UnlinkArtifact,
     DetachArtifact, PipelineError, MarkRetrying, PatchRetrying, CheckRequeue, PushRetry,
     RecordFailure, ReportFailure, RecordDropped, ReportDropped, RecordError, CleanupError,
     RedisError, BuryJob

\* A worker's step keeps the invariant.
LEMMA WorkerService ==
  ASSUME TypeInv, SingleCustody, Begun, Exclusive, BytesMatch, ServiceInv,
         NEW w \in Workers, Worker(w)
  PROVE  ServiceInv'
<1>t. /\ row \in [Docs -> Row] /\ content \in [Docs -> Requests \union {None}]
      /\ wpc \in [Workers -> WorkerSteps] /\ Requests = Creates \union Replaces
  BY DEF TypeInv, TypeOK, Requests
<1>j. target' = target /\ \A v \in Workers : v # w => wpc'[v] = wpc[v] /\ job'[v] = job[v]
  BY WorkerJobs
<1>r. \A x \in Docs : row'[x].exists => row[x].exists
  BY WorkerRow
<1>1. ASSUME NEW v \in Workers, v # w, Busy(v)'
      PROVE  /\ wpc'[v] = "wipe" => WReq(v)' \in Creates
             /\ wpc'[v] = "finish" /\ WReq(v)' \in Creates /\ row'[WDoc(v)'].exists =>
                  content'[WDoc(v)'] = WReq(v)'
  <2>1. Busy(v) /\ wpc'[v] = wpc[v] /\ WReq(v)' = WReq(v) /\ WDoc(v)' = WDoc(v)
    BY <1>1, <1>j DEF Busy, WReq, WDoc
  <2>2. WDoc(v) \in Docs
    BY <2>1, BusyWorker DEF Busy
  <2> QED
    BY <1>1, <2>1, <2>2, <1>r, OthersKeepContent DEF ServiceInv
<1>2. ASSUME wpc'[w] = "wipe" PROVE WReq(w)' \in Creates
  <2>1. ReportFailure(w)
    BY <1>2, <1>t DEF Worker, TakeJob, FetchArtifact, FetchError, StartExtracting,
       StartChunking,
       StartEmbedding, EmbedProgress, StartStoring, FinishJob, StageStep, StoreContent,
       NotifyCompleted, DiscardArtifact, PurgeArtifact, DeleteArtifact, UnlinkArtifact,
       DetachArtifact, PipelineError, MarkRetrying, PatchRetrying, CheckRequeue, PushRetry,
       RecordFailure, WipeChunks, RecordDropped, ReportDropped, RecordError, CleanupError,
       RedisError, BuryJob, WorkerGoto
  <2>2. wpc[w] = "report" /\ job' = job /\ ~IsReplace(WReq(w))
    BY <2>1, <1>2, <1>t DEF ReportFailure
  <2>3. WReq(w) \in Requests
    BY <2>2, BusyWorker
  <2> QED
    BY <2>2, <2>3, <1>t DEF IsReplace, WReq
<1>3. ASSUME wpc'[w] = "finish" PROVE content'[WDoc(w)'] = WReq(w)'
  <2>1. StoreContent(w)
    BY <1>3, <1>t DEF Worker, TakeJob, FetchArtifact, FetchError, StartExtracting,
       StartChunking,
       StartEmbedding, EmbedProgress, StartStoring, FinishJob, StageStep, ReportFailure,
       NotifyCompleted, DiscardArtifact, PurgeArtifact, DeleteArtifact, UnlinkArtifact,
       DetachArtifact, PipelineError, MarkRetrying, PatchRetrying, CheckRequeue, PushRetry,
       RecordFailure, WipeChunks, RecordDropped, ReportDropped, RecordError, CleanupError,
       RedisError, BuryJob, WorkerGoto
  <2>2. wpc[w] = "store" /\ job' = job /\ content' = [content EXCEPT ![WDoc(w)] = bytes[w]]
    BY <2>1, <1>3, <1>t DEF StoreContent
  <2>3. WDoc(w) \in Docs /\ bytes[w] = WReq(w)
    BY <2>2, BusyWorker DEF BytesMatch, Stages
  <2> QED
    BY <2>2, <2>3, <1>t, <1>j DEF WDoc, WReq
<1> QED
  BY <1>1, <1>2, <1>3 DEF ServiceInv, Busy

\* A handler does not touch the content, nor documents that workers work on.
LEMMA HandlerService ==
  ASSUME TypeInv, ServiceInv, Begun, NEW r \in Requests, Handler(r)
  PROVE  ServiceInv'
<1>1. UNCHANGED <<content, wpc, job>>
  BY DEF Handler, CreateDocument, BeginReplacement, CheckCapacity, PutArtifact, PushJob,
     EnqueueError, RolledBack, PushUnacknowledged, LinkArtifact, AnnounceQueued,
     RegisterSession, RouteError, RefuseFull, UndoUpload, workerVars
<1>2. \A q \in Requests : rpc[q] # "new" => target'[q] = target[q]
  <2>1. target \in [Requests -> Docs \union {None}]
    BY DEF TypeInv, TypeOK
  <2> QED
    BY <2>1 DEF Handler, CreateDocument, BeginReplacement, CheckCapacity, PutArtifact, PushJob,
       EnqueueError, RolledBack, PushUnacknowledged, LinkArtifact, AnnounceQueued,
       RegisterSession, RouteError, RefuseFull, UndoUpload, HandlerGoto
<1>3. ASSUME NEW w \in Workers, Busy(w)
      PROVE  /\ WReq(w)' = WReq(w) /\ WDoc(w)' = WDoc(w)
             /\ WReq(w) \in Creates /\ row'[WDoc(w)].exists => row[WDoc(w)].exists
  <2>1. PICK q \in Requests : q = WReq(w)
    BY <1>3, BusyWorker DEF Busy
  <2>2. rpc[q] # "new" /\ WDoc(w) \in Docs /\ WDoc(w) = target[q]
    BY <1>3, <2>1, BusyWorker DEF Busy, WDoc, WReq
  <2>3. WReq(w)' = WReq(w) /\ WDoc(w)' = WDoc(w)
    BY <1>1, <1>2, <2>1, <2>2 DEF WDoc, WReq
  <2>4. q \in Creates => target[q] = q
    BY <2>2 DEF Begun
  <2> QED
    BY <2>1, <2>2, <2>3, <2>4, HandlerRow
<1> QED
  BY <1>1, <1>3 DEF ServiceInv, Busy

\* What a worker completes is its own, in every state.
LEMMA ServiceInvariant ==
  ASSUME NoLateFault
  PROVE  Spec => []ServiceInv
<1>1. Init => ServiceInv
  BY DEF Init, ServiceInv, Busy
<1>2. TypeInv /\ SingleCustody /\ Begun /\ Exclusive /\ Stored /\ ServiceInv /\ [Next]_vars => ServiceInv'
  <2> SUFFICES ASSUME TypeInv, SingleCustody, Begun, Exclusive, Stored, ServiceInv, [Next]_vars
               PROVE  ServiceInv'
    OBVIOUS
  <2>1. CASE UNCHANGED vars \/ \E x \in Deletes : Deleter(x)
    <3>1. UNCHANGED <<wpc, job, target>>
      BY <2>1 DEF Deleter, ReadForDelete, CheckQueued, DeleteDocument, uploadVars, workerVars,
         vars
    <3>2. row \in [Docs -> Row] /\ content \in [Docs -> Requests \union {None}]
      BY DEF TypeInv, TypeOK
    <3>3. \A c \in Docs : row'[c].exists => row[c].exists /\ content'[c] = content[c]
      BY <2>1, <3>2 DEF Deleter, ReadForDelete, CheckQueued, DeleteDocument, vars, MissingRow
    <3>4. \A w \in Workers : Busy(w) => WDoc(w) \in Docs
      BY BusyWorker DEF Busy
    <3> QED
      BY <3>1, <3>3, <3>4 DEF ServiceInv, Busy, WReq, WDoc
  <2> QED
    BY <2>1, HandlerService, WorkerService DEF Next, Quiescent, Stored
<1> QED
  BY <1>1, <1>2, TypeInvariant, CustodyCorrect, ExclusiveInvariant, StoredInvariant,
     PTL DEF Spec

\* What a document in service is not: a new document that is not resolved.
LEMMA OpenIsNotServed ==
  ASSUME TypeInv, Begun, Exclusive, NEW q \in Creates, Pending(q), row[q].exists
  PROVE  row[q].status # "completed"
<1>1. q \in Requests /\ q \notin Replaces
  BY DEF Requests
<1>2. target[q] = q
  BY <1>1, PendingHasDoc DEF Begun
<1> QED
  BY <1>1, <1>2 DEF Exclusive, Says, StaleStatuses

\* A worker takes no document out of service by what it writes to the row.
LEMMA WorkerKeepsServed ==
  ASSUME TypeInv, Begun, Exclusive, NEW w \in Workers, Worker(w), NEW x \in Docs,
         row[x].exists, row[x].status = "completed"
  PROVE  row'[x].exists /\ row'[x].status = "completed"
<1>t. row \in [Docs -> Row] /\ Requests = Creates \union Replaces /\ Docs = Creates
  BY DEF TypeInv, TypeOK, Requests, Docs
<1>s. {ReplacementInProgress, ReplacementFailed} \subseteq Details
  BY DEF Details
<1>1. CASE row' = row \/ x # WDoc(w)
  BY <1>1, WorkerRow
<1>2. CASE row' # row /\ x = WDoc(w)
  <2>1. Busy(w) /\ row'[x].exists
    BY <1>2, WorkerRow
  <2>2. PICK q \in Requests : q = WReq(w)
    BY <2>1, BusyWorker DEF Busy
  <2>3. rpc[q] # "new" /\ target[q] = x
    BY <1>2, <2>1, <2>2, BusyWorker DEF Busy, WDoc, WReq
  <2>4. CASE UnlinkArtifact(w) \/ DetachArtifact(w)
    <3>1. row' = [row EXCEPT ![x] = SetArtifactUri(row[x], FALSE)]
      BY <2>4, <1>2 DEF UnlinkArtifact, DetachArtifact
    <3>2. SetArtifactUri(row[x], FALSE).status = row[x].status
      BY <1>t, RowOperatorsKeep
    <3> QED
      BY <2>1, <3>1, <3>2, <1>t
  <2>5. CASE ~UnlinkArtifact(w) /\ ~DetachArtifact(w) /\ ~IsReplace(q)
    <3>1. wpc[w] \in WorkerPending \/ wpc[w] = "finish"
      BY <1>2, <2>5 DEF Worker, TakeJob, FetchArtifact, FetchError, NotifyCompleted,
         DiscardArtifact, PurgeArtifact, DeleteArtifact, CheckRequeue, PushRetry,
         ReportFailure, WipeChunks,
         ReportDropped, RecordError, CleanupError, RedisError, BuryJob, PipelineError,
         StartExtracting, StartChunking,
         StartEmbedding, EmbedProgress, StartStoring, FinishJob, StageStep, StoreContent,
         MarkRetrying,
         PatchRetrying, RecordFailure, RecordDropped, WorkerGoto, WorkerPending
    <3>2. Pending(q)
      BY <3>1, <2>1, <2>2, <2>5 DEF Pending, HeldByWorker, Busy
    <3>3. q \in Creates /\ x = q
      BY <2>3, <2>5, <1>t DEF IsReplace, Begun
    <3> QED
      BY <3>2, <3>3, OpenIsNotServed
  <2>6. CASE ~UnlinkArtifact(w) /\ ~DetachArtifact(w) /\ IsReplace(q)
    <3>1. \/ row' = [row EXCEPT ![x] = ReplacedRow(row[x])]
          \/ row' = [row EXCEPT ![x] = SetStatusDetail(row[x], ReplacementInProgress)]
          \/ row' = [row EXCEPT ![x] = SetStatusDetail(row[x], ReplacementFailed)]
      BY <1>2, <2>2, <2>6 DEF Worker, TakeJob, FetchArtifact, FetchError, NotifyCompleted,
         DiscardArtifact, PurgeArtifact, DeleteArtifact, CheckRequeue, PushRetry,
         ReportFailure, WipeChunks,
         ReportDropped, RecordError, CleanupError, RedisError, BuryJob, PipelineError,
         StartExtracting, StartChunking,
         StartEmbedding, EmbedProgress, StartStoring, FinishJob, StageStep, StageStatus,
         StoreContent,
         MarkRetrying, PatchRetrying, RecordFailure, RecordDropped, Retrying, TerminallyFailed
    <3>2. /\ ReplacedRow(row[x]).status = "completed"
          /\ SetStatusDetail(row[x], ReplacementInProgress).status = row[x].status
          /\ SetStatusDetail(row[x], ReplacementFailed).status = row[x].status
      BY <1>t, <1>s, RowOperatorsKeep
    <3> QED
      BY <2>1, <3>1, <3>2, <1>t
  <2> QED
    BY <2>4, <2>5, <2>6
<1> QED
  BY <1>1, <1>2

\* A worker resolves no other upload than its own.
LEMMA WorkerLeavesOthers ==
  ASSUME TypeInv, NEW w \in Workers, Worker(w), NEW r \in Requests, Pending(r),
         Busy(w) => WReq(w) # r
  PROVE  Pending(r)'
<1>t. wpc \in [Workers -> WorkerSteps] /\ job \in [Workers -> Job \union {None}]
  BY DEF TypeInv, TypeOK
<1>j. /\ rpc' = rpc /\ \A v \in Workers : v # w => wpc'[v] = wpc[v] /\ job'[v] = job[v]
  BY WorkerJobs
<1>h. HeldByHandler(r) => HeldByHandler(r)'
  BY <1>j DEF HeldByHandler
<1>o. \A v \in Workers : HeldByWorker(r, v) => v # w /\ HeldByWorker(r, v)'
  BY <1>j DEF HeldByWorker, WReq, Busy
<1>q. HeldByQueue(r) => HeldByQueue(r)' \/ HeldByWorker(r, w)'
  <2>1. CASE TakeJob(w)
    <3>1. /\ queue # <<>> /\ queue' = Tail(queue) /\ wpc'[w] = "fetch" /\ job'[w] = Head(queue)
      BY <2>1, <1>t DEF TakeJob, WorkerGoto
    <3>2. CASE r = Head(queue).req
      BY <3>1, <3>2 DEF HeldByWorker, WReq, WorkerPending
    <3> QED
      BY <3>1, <3>2, QueueKept
  <2>2. CASE PushRetry(w)
    <3> DEFINE j == [job[w] EXCEPT !.attempt = @ + 1]
    <3>1. wpc[w] = "push" /\ queue' = Append(queue, j)
      BY <2>2 DEF PushRetry, WorkerGoto
    <3>2. j \in Job /\ j.req = WReq(w)
      <4>1. job[w] \in Job /\ job[w].attempt < MaxRetries
        BY <3>1, BusyWorker DEF TypeInv, Aimed, RetrySteps
      <4> QED
        BY <4>1 DEF Job, WReq
    <3> QED
      BY <3>1, <3>2, QueuedAfterPush
  <2>3. CASE ~TakeJob(w) /\ ~PushRetry(w)
    <3>1. queue' = queue
      BY <2>3 DEF Worker, FetchArtifact, FetchError, StartExtracting, StartChunking,
         StartEmbedding, EmbedProgress, StartStoring, FinishJob, StageStep, StoreContent,
         NotifyCompleted, DiscardArtifact, PurgeArtifact, DeleteArtifact, UnlinkArtifact,
         DetachArtifact, PipelineError, MarkRetrying, PatchRetrying, CheckRequeue,
         RecordFailure, ReportFailure, WipeChunks, RecordDropped, ReportDropped,
         RecordError, CleanupError, RedisError, BuryJob
    <3> QED
      BY <3>1 DEF HeldByQueue
  <2> QED
    BY <2>1, <2>2, <2>3
<1> QED
  BY <1>h, <1>o, <1>q DEF Pending

\* The mapping where it does not change.
LEMMA MappedSame ==
  /\ (\A r \in Requests : Phase(r)' = Phase(r)) => Phases' = Phases
  /\ (\A d \in Docs : InService(d)' = InService(d)) => Serving' = Serving
BY DEF Phases, Serving

\* The mapping where one upload is resolved.
LEMMA MappedClose ==
  ASSUME NEW q \in Requests, Phase(q) = "open", Phase(q)' = "closed", target' = target,
         \A r \in Requests : r # q => Phase(r)' = Phase(r)
  PROVE  Active!Close(q)
<1>1. Phases[q] = "open"
  BY DEF Phases
<1>2. Phases' = [Phases EXCEPT ![q] = "closed"]
  BY DEF Phases
<1> QED
  BY <1>1, <1>2 DEF Active!Close

\* The mapping where one document's content changes.
LEMMA MappedServing ==
  ASSUME NEW x \in Docs, \A d \in Docs : d # x => InService(d)' = InService(d)
  PROVE  Serving' = [Serving EXCEPT ![x] = InService(x)']
BY DEF Serving

\* A worker's step: its upload goes into service, is given up, or goes on; or a
\* failed new document loses its chunks.
LEMMA WorkerImplements ==
  ASSUME TypeInv, SingleCustody, Begun, Exclusive, Stored, ServiceInv, NoLateFault,
         NEW w \in Workers, Worker(w)
  PROVE  [Active!Next]_(Active!active)
<1>t. /\ row \in [Docs -> Row] /\ content \in [Docs -> Requests \union {None}]
      /\ wpc \in [Workers -> WorkerSteps] /\ Requests = Creates \union Replaces
      /\ Creates \intersect Replaces = {} /\ Docs = Creates
  BY DEF TypeInv, TypeOK, Requests, Docs
<1>j. rpc' = rpc /\ target' = target
  BY WorkerJobs
<1>o. ASSUME NEW r \in Requests, Busy(w) => WReq(w) # r PROVE Phase(r)' = Phase(r)
  <2>1. Pending(r)' <=> Pending(r)
    BY <1>o, WorkerPendingOnly, WorkerLeavesOthers
  <2> QED
    BY <2>1, <1>j DEF Phase
<1>1. CASE ~Busy(w)
  <2>1. TakeJob(w)
    BY <1>1 DEF Worker, FetchArtifact, FetchError, StartExtracting, StartChunking,
       StartEmbedding, EmbedProgress, StartStoring, FinishJob, StageStep, StoreContent,
       NotifyCompleted, DiscardArtifact, PurgeArtifact, DeleteArtifact, UnlinkArtifact,
       DetachArtifact, PipelineError, Stages, MarkRetrying, PatchRetrying, CheckRequeue,
       PushRetry,
       RecordFailure, ReportFailure, WipeChunks, RecordDropped, ReportDropped,
       RecordError, CleanupError, RedisError, BuryJob, WorkerGoto, Busy
  <2>2. \A d \in Docs : InService(d)' = InService(d)
    BY <2>1 DEF TakeJob, InService
  <2> QED
    BY <1>1, <1>o, <1>j, <2>2, MappedSame DEF Active!active
<1>2. CASE Busy(w)
  <2>x. PICK x \in Docs : x = WDoc(w)
    BY <1>2, BusyWorker DEF Busy
  <2>1. PICK q \in Requests : q = WReq(w)
    BY <1>2, BusyWorker DEF Busy
  <2>2. x \in Docs /\ target[q] = x /\ rpc[q] # "new" /\ (q \in Creates => x = q)
    BY <1>2, <2>x, <2>1, BusyWorker DEF Busy, WDoc, WReq, Begun
  <2>3. \A r \in Requests : r # q => Phase(r)' = Phase(r)
    BY <1>o, <2>1
  <2>4. Phase(q)' = Phase(q) \/ (Phase(q) = "open" /\ Phase(q)' = "closed")
    <3>1. Pending(q)' => Pending(q)
      BY WorkerPendingOnly
    <3> QED
      BY <3>1, <2>2, <1>j DEF Phase
  <2>5. ASSUME NEW d \in Docs, d # x PROVE InService(d)' = InService(d)
    <3>1. row'[d] = row[d]
      BY <2>x, <2>5, WorkerRow
    <3>2. content'[d] = content[d]
      BY <2>x, <2>5, <1>t DEF Worker, TakeJob, FetchArtifact, FetchError, StartExtracting,
         StartChunking,
         StartEmbedding, EmbedProgress, StartStoring, FinishJob, StageStep, StoreContent,
         NotifyCompleted, DiscardArtifact, PurgeArtifact, DeleteArtifact, UnlinkArtifact,
         DetachArtifact, PipelineError, MarkRetrying, PatchRetrying, CheckRequeue, PushRetry,
         RecordFailure, ReportFailure, WipeChunks, RecordDropped, ReportDropped, RecordError,
         CleanupError, RedisError, BuryJob
    <3> QED
      BY <3>1, <3>2 DEF InService
  <2>6. CASE InService(x)' = InService(x)
    <3>1. Serving' = Serving
      BY <2>5, <2>6, MappedSame
    <3>2. CASE Phase(q)' = Phase(q)
      BY <3>1, <3>2, <2>3, <1>j, MappedSame DEF Active!active
    <3>3. CASE Phase(q) = "open" /\ Phase(q)' = "closed"
      BY <3>1, <3>3, <2>3, <1>j, MappedClose DEF Active!GiveUp, Active!Next
    <3> QED
      BY <2>4, <3>2, <3>3
  <2>7. ASSUME InService(x)' = q, Pending(q), ~Pending(q)' PROVE Active!Serve(q)
    <3>1. Phase(q) = "open" /\ Phase(q)' = "closed"
      BY <2>7, <2>2, <1>j DEF Phase
    <3>2. Active!Close(q)
      BY <3>1, <2>3, <1>j, MappedClose
    <3>3. Serving' = [Serving EXCEPT ![target[q]] = q]
      BY <2>2, <2>5, <2>7, MappedServing
    <3> QED
      BY <3>2, <3>3 DEF Active!Serve
  <2>8. CASE StoreContent(w) /\ row[x].exists
    <3>1. wpc[w] = "store" /\ content' = [content EXCEPT ![x] = bytes[w]]
          /\ row' = IF IsReplace(q) THEN [row EXCEPT ![x] = ReplacedRow(row[x])] ELSE row
      BY <2>x, <2>8, <2>1 DEF StoreContent
    <3>2. Pending(q) /\ bytes[w] = q
      BY <3>1, <1>2, <2>1 DEF Pending, HeldByWorker, WorkerPending, Busy, Stored, BytesMatch,
         Stages
    <3>3. CASE IsReplace(q)
      <4>1. ReplacedRow(row[x]).exists = row[x].exists /\ ReplacedRow(row[x]).status = "completed"
        BY <2>2, <1>t, RowOperatorsKeep
      <4>2. InService(x)' = q
        BY <4>1, <3>1, <3>2, <3>3, <2>2, <2>8, <1>t DEF InService
      <4>3. ~Pending(q)'
        BY <2>x, <2>1, <2>8, <3>3, ResolvesEnds DEF Resolves
      <4> QED
        BY <4>2, <4>3, <3>2, <2>7 DEF Active!Next
    <3>4. CASE ~IsReplace(q)
      <4>1. row[x].status # "completed"
        BY <3>2, <3>4, <2>2, <2>8, <1>t, OpenIsNotServed DEF IsReplace
      <4>2. InService(x)' = InService(x)
        BY <4>1, <3>1, <3>4 DEF InService
      <4> QED
        BY <4>2, <2>6
    <3> QED
      BY <3>3, <3>4
  <2>9. CASE FinishJob(w) /\ ~IsReplace(q) /\ row[x].exists
    <3>1. wpc[w] = "finish" /\ content' = content
          /\ row' = [row EXCEPT ![x] = UpdateStatus(row[x], "completed")]
      BY <2>x, <2>9, <2>1 DEF FinishJob, StageStep, WorkerGoto, StageStatus
    <3>2. Pending(q)
      BY <3>1, <1>2, <2>1, <2>9 DEF Pending, HeldByWorker, Busy
    <3>3. content[x] = q
      BY <2>x, <3>1, <1>2, <2>1, <2>9, <1>t DEF ServiceInv, IsReplace
    <3>4. /\ UpdateStatus(row[x], "completed").exists = row[x].exists
          /\ UpdateStatus(row[x], "completed").status = "completed"
      BY <2>2, <2>9, <1>t, RowOperatorsKeep DEF Statuses, ReplaceableStatuses
    <3>5. InService(x)' = q
      BY <3>1, <3>3, <3>4, <2>2, <2>9, <1>t DEF InService
    <3>6. ~Pending(q)'
      BY <2>1, <2>9, ResolvesEnds DEF Resolves
    <3> QED
      BY <3>2, <3>5, <3>6, <2>7 DEF Active!Next
  <2>10. CASE WipeChunks(w)
    <3>1. /\ wpc[w] = "wipe" /\ wpc'[w] = "purge" /\ row' = row
          /\ content' = [content EXCEPT ![x] = None]
      BY <2>x, <2>10, <1>t DEF WipeChunks, WorkerGoto
    <3>2. ~HeldByHandler(q) /\ ~HeldByQueue(q) /\ \A v \in Workers : v # w /\ Busy(v) => WReq(v) # q
      BY <1>2, <2>1 DEF SingleCustody, Busy
    <3>3. ~Pending(q)
      BY <3>1, <3>2 DEF Pending, HeldByWorker, Busy, WorkerPending
    <3>4. Phase(q)' = Phase(q)
      BY <3>3, <2>2, <2>4 DEF Phase
    <3>5. InService(x)' \in {InService(x), None}
      BY <3>1, <2>2, <1>t DEF InService
    <3>6. CASE InService(x)' = None
      <4>1. Serving' = [Serving EXCEPT ![x] = None]
        BY <3>6, <2>2, <2>5, MappedServing
      <4>2. Phases' = Phases
        BY <2>3, <3>4, MappedSame
      <4> QED
        BY <4>1, <4>2, <1>j, <2>2 DEF Active!Withdraw, Active!Next
    <3> QED
      BY <3>5, <3>6, <2>6
  <2>11. CASE /\ ~(StoreContent(w) /\ row[x].exists) /\ ~WipeChunks(w)
              /\ ~(FinishJob(w) /\ ~IsReplace(q) /\ row[x].exists)
    <3>1. content' = content
      BY <2>x, <2>11 DEF Worker, TakeJob, FetchArtifact, FetchError, StartExtracting,
         StartChunking,
         StartEmbedding, EmbedProgress, StartStoring, FinishJob, StageStep, StoreContent,
         NotifyCompleted, DiscardArtifact, PurgeArtifact, DeleteArtifact, UnlinkArtifact,
         DetachArtifact, PipelineError, MarkRetrying, PatchRetrying, CheckRequeue, PushRetry,
         RecordFailure, ReportFailure, RecordDropped, ReportDropped, RecordError,
         CleanupError, RedisError, BuryJob
    <3>2. row'[x].exists /\ row'[x].status = "completed" => row[x].exists /\ row[x].status = "completed"
      BY <2>x, <2>1, <2>2, <2>11, WorkerCompletes
    <3>3. row[x].exists /\ row[x].status = "completed" => row'[x].exists /\ row'[x].status = "completed"
      BY <2>2, WorkerKeepsServed
    <3>4. InService(x)' = InService(x)
      BY <3>1, <3>2, <3>3 DEF InService
    <3> QED
      BY <3>4, <2>6
  <2> QED
    BY <2>8, <2>9, <2>10, <2>11
<1> QED
  BY <1>1, <1>2

\* The mapping where an upload begins.
LEMMA MappedStart ==
  ASSUME TypeInv, Exclusive', NEW r \in Requests, NEW d \in Docs, rpc[r] = "new", rpc'[r] # "new",
         target' = [target EXCEPT ![r] = d], Serving' = Serving,
         \A q \in Requests : q # r => Phase(q)' = Phase(q),
         \A q \in Requests : Pending(q) => Pending(q)'
  PROVE  Active!Open(r, d) \/ Active!Refuse(r, d)
<1>t. target'[r] = d /\ \A q \in Requests : q # r => target'[q] = target[q]
  BY DEF TypeInv, TypeOK
<1>1. Phases[r] = "new"
  BY DEF Phases, Phase
<1>2. CASE Pending(r)'
  <2>1. Phases' = [Phases EXCEPT ![r] = "open"]
    BY <1>2 DEF Phases, Phase
  <2>2. ASSUME NEW q \in Requests, Phases[q] = "open", target[q] = d PROVE FALSE
    <3>1. Pending(q) /\ q # r
      BY <2>2, <1>1 DEF Phases, Phase
    <3> QED
      BY <3>1, <2>2, <1>2, <1>t DEF Exclusive, OneUploadPerDocument
  <2> QED
    BY <1>1, <2>1, <2>2 DEF Active!Open
<1>3. CASE ~Pending(r)'
  <2>1. Phases' = [Phases EXCEPT ![r] = "closed"]
    BY <1>3 DEF Phases, Phase
  <2> QED
    BY <1>1, <2>1 DEF Active!Refuse
<1> QED
  BY <1>2, <1>3

\* A handler's step: its upload is admitted, refused or given up, or goes on.
LEMMA HandlerImplements ==
  ASSUME TypeInv, SingleCustody, Begun, Exclusive, NoLateFault, NEW r \in Requests, Handler(r)
  PROVE  [Active!Next]_(Active!active)
<1>t. /\ row \in [Docs -> Row] /\ rpc \in [Requests -> HandlerSteps]
      /\ Requests = Creates \union Replaces /\ Docs = Creates
  BY DEF TypeInv, TypeOK, Requests, Docs
<1>s. {ReplacementInProgress, ReplacementFailed} \subseteq Details /\ {"queued", "failed"} \subseteq Statuses
  BY DEF Details, Statuses, StaleStatuses, ReplaceableStatuses
<1>e. Exclusive'
  BY HandlerExclusive
<1>u. UNCHANGED <<content, wpc, job>>
  BY DEF Handler, CreateDocument, BeginReplacement, CheckCapacity, PutArtifact, PushJob,
     EnqueueError, RolledBack, PushUnacknowledged, LinkArtifact, AnnounceQueued,
     RegisterSession, RouteError, RefuseFull, UndoUpload, workerVars
<1>w. \A q \in Requests, w \in Workers : HeldByWorker(q, w)' <=> HeldByWorker(q, w)
  BY <1>u DEF HeldByWorker, WReq
<1>o. ASSUME NEW q \in Requests, q # r PROVE Phase(q)' = Phase(q)
  <2>1. rpc'[q] = rpc[q]
    BY <1>o, <1>t DEF Handler, CreateDocument, BeginReplacement, CheckCapacity, PutArtifact,
       PushJob,
       EnqueueError, RolledBack, PushUnacknowledged, LinkArtifact, AnnounceQueued,
       RegisterSession, RouteError, RefuseFull, UndoUpload, HandlerGoto
  <2>2. HeldByQueue(q)' <=> HeldByQueue(q)
    <3>1. CASE PushJob(r) \/ PushUnacknowledged(r)
      <4>1. queue' = Append(queue, [req |-> r, attempt |-> 0]) /\ [req |-> r, attempt |-> 0] \in Job
        BY <3>1 DEF PushJob, PushUnacknowledged, Job
      <4> QED
        BY <4>1, <1>o, QueuedAfterPush
    <3>2. CASE ~PushJob(r) /\ ~PushUnacknowledged(r)
      BY <3>2 DEF Handler, CreateDocument, BeginReplacement, CheckCapacity, PutArtifact,
         EnqueueError, RolledBack, PushUnacknowledged, LinkArtifact, AnnounceQueued,
         RegisterSession, RouteError, RefuseFull, UndoUpload, HeldByQueue
    <3> QED
      BY <3>1, <3>2
  <2>3. Pending(q)' <=> Pending(q)
    BY <2>1, <2>2, <1>w DEF Pending, HeldByHandler
  <2> QED
    BY <2>1, <2>3 DEF Phase
<1>1. CASE CreateDocument(r)
  <2>1. /\ r \in Docs /\ rpc[r] = "new" /\ rpc'[r] = "admit"
        /\ target' = [target EXCEPT ![r] = r] /\ row' = [row EXCEPT ![r] = CreatedRow]
    BY <1>1, <1>t DEF CreateDocument, HandlerGoto
  <2>2. ~row[r].exists /\ CreatedRow.status # "completed"
    BY <2>1, <1>t DEF Begun, CreatedRow
  <2>3. \A d \in Docs : InService(d)' = InService(d)
    BY <2>1, <2>2, <1>t, <1>u DEF InService
  <2>4. \A q \in Requests : Pending(q) => Pending(q)'
    BY <1>1, <2>1, HandlerLeavesPending DEF RefuseFull, UndoUpload, HandlerGoto
  <2>5. Active!Open(r, r) \/ Active!Refuse(r, r)
    BY <2>1, <2>3, <2>4, <1>e, <1>o, MappedStart, MappedSame
  <2> QED
    BY <2>1, <2>5 DEF Active!Next
<1>2. ASSUME NEW d \in Docs, BeginReplacement(r, d) PROVE [Active!Next]_(Active!active)
  <2>1. /\ rpc[r] = "new" /\ rpc'[r] # "new" /\ target' = [target EXCEPT ![r] = d]
        /\ row' = row \/ row' = [row EXCEPT ![d] = ClaimedRow(row[d])]
    BY <1>2, <1>t DEF BeginReplacement
  <2>2. ClaimedRow(row[d]).exists = row[d].exists /\ ClaimedRow(row[d]).status = row[d].status
    BY <1>t, RowOperatorsKeep
  <2>3. \A x \in Docs : InService(x)' = InService(x)
    BY <2>1, <2>2, <1>t, <1>u DEF InService
  <2>4. \A q \in Requests : Pending(q) => Pending(q)'
    BY <2>1, HandlerLeavesPending DEF RefuseFull, UndoUpload, HandlerGoto
  <2>5. Active!Open(r, d) \/ Active!Refuse(r, d)
    BY <2>1, <2>3, <2>4, <1>e, <1>o, MappedStart, MappedSame
  <2> QED
    BY <2>5 DEF Active!Next
<1>3. CASE RefuseFull(r) \/ UndoUpload(r)
  <2>1. /\ rpc[r] \in {"full", "undo"} /\ rpc'[r] \in {"refused", "error"} /\ queue' = queue
        /\ target' = target /\ row' = GivenUp(r)
    BY <1>3, <1>t DEF RefuseFull, UndoUpload, HandlerGoto, Exclusive
  <2>2. HeldByHandler(r) /\ Pending(r) /\ target[r] \in Docs
    BY <2>1, PendingHasDoc DEF Pending, HeldByHandler, HandlerPending
  <2>3. ~Pending(r)'
    <3>1. ~HeldByQueue(r) /\ \A w \in Workers : Busy(w) => WReq(w) # r
      BY <2>2 DEF SingleCustody, Busy
    <3>2. ~HeldByQueue(r)'
      BY <3>1, <2>1 DEF HeldByQueue
    <3>3. \A w \in Workers : ~HeldByWorker(r, w)'
      BY <3>1, <1>w DEF HeldByWorker, Busy
    <3> QED
      BY <2>1, <3>2, <3>3 DEF Pending, HeldByHandler, HandlerPending
  <2>4. Phase(r) = "open" /\ Phase(r)' = "closed"
    BY <2>1, <2>2, <2>3 DEF Phase
  <2>5. \A d \in Docs : InService(d)' = InService(d)
    <3>1. CASE IsReplace(r)
      <4>1. row' = [row EXCEPT ![target[r]] = SetStatusDetail(row[target[r]], ReplacementFailed)]
        BY <2>1, <3>1 DEF GivenUp, Doc
      <4>2. /\ SetStatusDetail(row[target[r]], ReplacementFailed).exists = row[target[r]].exists
            /\ SetStatusDetail(row[target[r]], ReplacementFailed).status = row[target[r]].status
        BY <2>2, <1>t, <1>s, RowOperatorsKeep
      <4> QED
        BY <4>1, <4>2, <2>2, <1>t, <1>u DEF InService
    <3>2. CASE ~IsReplace(r)
      <4>1. row' = [row EXCEPT ![target[r]] = UpdateStatus(row[target[r]], "failed")]
        BY <2>1, <3>2 DEF GivenUp, Doc
      <4>2. /\ UpdateStatus(row[target[r]], "failed").exists = row[target[r]].exists
            /\ row[target[r]].exists => UpdateStatus(row[target[r]], "failed").status = "failed"
        BY <2>2, <1>t, <1>s, RowOperatorsKeep
      <4>3. r \in Creates /\ target[r] = r
        BY <2>1, <3>2, <1>t DEF IsReplace, Begun
      <4>4. row[r].exists => row[r].status # "completed"
        BY <2>2, <4>3, OpenIsNotServed
      <4> QED
        BY <4>1, <4>2, <4>3, <4>4, <2>2, <1>t, <1>u DEF InService
    <3> QED
      BY <3>1, <3>2
  <2>6. Active!GiveUp(r)
    BY <2>1, <2>4, <2>5, <1>o, MappedClose, MappedSame DEF Active!GiveUp
  <2> QED
    BY <2>6 DEF Active!Next
<1>4. CASE \/ CheckCapacity(r) \/ PutArtifact(r) \/ PushJob(r) \/ EnqueueError(r)
           \/ LinkArtifact(r) \/ AnnounceQueued(r) \/ RegisterSession(r)
  <2>1. rpc[r] # "new" /\ rpc'[r] # "new" /\ target' = target
    BY <1>4, <1>t DEF CheckCapacity, PutArtifact, PushJob, EnqueueError, LinkArtifact,
       AnnounceQueued,
       RegisterSession, HandlerGoto
  <2>2. Pending(r) => Pending(r)'
    BY <1>4, HandlerLeavesPending, <1>t DEF CheckCapacity, PutArtifact, PushJob, EnqueueError,
       LinkArtifact, AnnounceQueued, RegisterSession, RefuseFull, UndoUpload, HandlerGoto
  <2>3. Pending(r)' => Pending(r)
    <3>1. CASE LinkArtifact(r) \/ AnnounceQueued(r) \/ RegisterSession(r)
      <4>1. ~HeldByHandler(r)' /\ queue' = queue
        BY <3>1, <1>t DEF LinkArtifact, AnnounceQueued, RegisterSession, HandlerGoto,
           HeldByHandler, HandlerPending
      <4> QED
        BY <4>1, <1>w DEF Pending, HeldByQueue
    <3>2. CASE CheckCapacity(r) \/ PutArtifact(r) \/ PushJob(r) \/ EnqueueError(r)
      BY <3>2 DEF CheckCapacity, PutArtifact, PushJob, EnqueueError, HandlerGoto, Pending,
         HeldByHandler, HandlerPending
    <3> QED
      BY <1>4, <3>1, <3>2
  <2>4. Phases' = Phases
    <3>1. Phase(r)' = Phase(r)
      BY <2>1, <2>2, <2>3 DEF Phase
    <3> QED
      BY <3>1, <1>o, MappedSame
  <2>5. target[r] \in Docs
    BY <2>1 DEF TypeInv, Aimed
  <2>6. \/ row' = row
        \/ row' = [row EXCEPT ![target[r]] = SetArtifactUri(row[target[r]], TRUE)]
        \/ row' = [row EXCEPT ![target[r]] = UpdateStatus(row[target[r]], "queued")]
    BY <1>4 DEF CheckCapacity, PutArtifact, PushJob, EnqueueError, LinkArtifact, AnnounceQueued,
       RegisterSession, Doc
  <2>7. CASE row' = row
    <3>1. \A d \in Docs : InService(d)' = InService(d)
      BY <2>7, <1>u DEF InService
    <3> QED
      BY <3>1, <2>1, <2>4, MappedSame DEF Active!active
  <2>8. CASE row' = [row EXCEPT ![target[r]] = SetArtifactUri(row[target[r]], TRUE)]
    <3>1. /\ SetArtifactUri(row[target[r]], TRUE).exists = row[target[r]].exists
          /\ SetArtifactUri(row[target[r]], TRUE).status = row[target[r]].status
      BY <2>5, <1>t, RowOperatorsKeep
    <3>2. \A d \in Docs : InService(d)' = InService(d)
      BY <2>8, <3>1, <2>5, <1>t, <1>u DEF InService
    <3> QED
      BY <3>2, <2>1, <2>4, MappedSame DEF Active!active
  <2>9. CASE row' = [row EXCEPT ![target[r]] = UpdateStatus(row[target[r]], "queued")]
    <3>1. PICK x \in Docs : x = target[r]
      BY <2>5
    <3>2. /\ UpdateStatus(row[x], "queued").exists = row[x].exists
          /\ row[x].exists => UpdateStatus(row[x], "queued").status = "queued"
      BY <1>t, <1>s, RowOperatorsKeep
    <3>3. InService(x)' = None
      BY <2>9, <3>1, <3>2, <1>t DEF InService
    <3>4. \A d \in Docs : d # x => InService(d)' = InService(d)
      BY <2>9, <3>1, <1>t, <1>u DEF InService
    <3>5. Serving' = [Serving EXCEPT ![x] = None]
      BY <3>3, <3>4, MappedServing
    <3> QED
      BY <3>5, <2>1, <2>4 DEF Active!Withdraw, Active!Next
  <2> QED
    BY <2>6, <2>7, <2>8, <2>9
<1>5. ~PushUnacknowledged(r) /\ ~RouteError(r)
  BY DEF PushUnacknowledged, RouteError, NoLateFault
<1> QED
  BY <1>1, <1>2, <1>3, <1>4, <1>5 DEF Handler

\* A delete takes one document out of service.
LEMMA DeleterImplements ==
  ASSUME TypeInv, NEW x \in Deletes, Deleter(x)
  PROVE  [Active!Next]_(Active!active)
<1>t. row \in [Docs -> Row] /\ content \in [Docs -> Requests \union {None}]
  BY DEF TypeInv, TypeOK
<1>1. UNCHANGED <<queue, rpc, wpc, job, target>>
  BY DEF Deleter, ReadForDelete, CheckQueued, DeleteDocument, uploadVars, workerVars
<1>2. Phases' = Phases
  <2>1. \A r \in Requests : Pending(r)' <=> Pending(r)
    BY <1>1 DEF Pending, HeldByHandler, HeldByQueue, HeldByWorker, WReq
  <2> QED
    BY <1>1, <2>1, MappedSame DEF Phase
<1>3. CASE DeleteDocument(x)
  <2>1. PICK d \in Docs : d = victim[x]
    BY <1>3 DEF DeleteDocument, TypeInv, Aimed
  <2>2. row' = [row EXCEPT ![d] = MissingRow] /\ content' = [content EXCEPT ![d] = None]
    BY <1>3, <2>1 DEF DeleteDocument
  <2>3. InService(d)' = None
    BY <2>2, <1>t DEF InService, MissingRow
  <2>4. \A y \in Docs : y # d => InService(y)' = InService(y)
    BY <2>2, <1>t DEF InService
  <2>5. Serving' = [Serving EXCEPT ![d] = None]
    BY <2>3, <2>4, MappedServing
  <2> QED
    BY <2>5, <1>1, <1>2 DEF Active!Withdraw, Active!Next
<1>4. CASE CheckQueued(x) \/ \E d \in Docs : ReadForDelete(x, d)
  <2>1. \A d \in Docs : InService(d)' = InService(d)
    BY <1>4 DEF CheckQueued, ReadForDelete, InService
  <2> QED
    BY <2>1, <1>1, <1>2, MappedSame DEF Active!active
<1> QED
  BY <1>3, <1>4 DEF Deleter

\* Handlers, queue, workers, retries and deletes together implement the serving
\* of documents: whatever they interleave, a file goes into service at most once,
\* in the step that ends its upload, when no other upload of the document is open;
\* a failed upload leaves in service what was there; what is out of service stays
\* out (api-reference.md, "Replacing a document").  It holds for any number of
\* workers, as long as no call fails after the push or after the cutover.
THEOREM ServingImplemented ==
  ASSUME NoLateFault
  PROVE  Spec => ServesActiveContent
<1>1. Init => Active!Init
  <2> SUFFICES ASSUME Init PROVE Active!Init
    OBVIOUS
  <2>1. \A r \in Requests : Phase(r) = "new"
    BY DEF Init, Phase
  <2>2. \A d \in Docs : InService(d) = None
    BY DEF Init, InService, MissingRow
  <2> QED
    BY <2>1, <2>2 DEF Init, Active!Init, Phases, Serving
<1>2. /\ TypeInv /\ SingleCustody /\ Begun /\ Exclusive /\ Stored /\ ServiceInv /\ [Next]_vars
      => [Active!Next]_(Active!active)
  <2> SUFFICES ASSUME TypeInv, SingleCustody, Begun, Exclusive, Stored, ServiceInv, [Next]_vars
               PROVE  [Active!Next]_(Active!active)
    OBVIOUS
  <2>1. CASE UNCHANGED vars
    <3>1. \A r \in Requests : Phase(r)' = Phase(r)
      BY <2>1 DEF vars, Phase, Pending, HeldByHandler, HeldByQueue, HeldByWorker, WReq
    <3>2. \A d \in Docs : InService(d)' = InService(d)
      BY <2>1 DEF vars, InService
    <3> QED
      BY <2>1, <3>1, <3>2, MappedSame DEF vars, Active!active
  <2> QED
    BY <2>1, HandlerImplements, WorkerImplements, DeleterImplements DEF Next, Quiescent
<1> QED
  BY <1>1, <1>2, TypeInvariant, CustodyCorrect, ExclusiveInvariant, StoredInvariant,
     ServiceInvariant, PTL
     DEF Spec, ServesActiveContent, Active!Spec

\* What ActiveContent allows keeps files with their documents.
LEMMA ServesOwnStep ==
  ASSUME target \in [Requests -> Docs \union {None}], Active!ServesOwn, [Active!Next]_(Active!active)
  PROVE  Active!ServesOwn'
<1>t. /\ DOMAIN Phases = Requests /\ DOMAIN Serving = Docs /\ None \notin Requests
      /\ Phases = [r \in Requests |-> Phases[r]] /\ Serving = [d \in Docs |-> Serving[d]]
  BY DEF Phases, Serving
<1>1. ASSUME NEW u \in Requests, Active!Serve(u) PROVE Active!ServesOwn'
  BY <1>1, <1>t DEF Active!Serve, Active!Close, Active!ServesOwn
<1>2. ASSUME NEW u \in Requests, Active!GiveUp(u) PROVE Active!ServesOwn'
  BY <1>2, <1>t DEF Active!GiveUp, Active!Close, Active!ServesOwn
<1>3. ASSUME NEW u \in Requests, NEW d \in Docs, Active!Open(u, d) \/ Active!Refuse(u, d)
      PROVE  Active!ServesOwn'
  BY <1>3, <1>t DEF Active!Open, Active!Refuse, Active!ServesOwn
<1>4. ASSUME NEW d \in Docs, Active!Withdraw(d) PROVE Active!ServesOwn'
  BY <1>4, <1>t DEF Active!Withdraw, Active!ServesOwn
<1>5. CASE UNCHANGED Active!active
  BY <1>5 DEF Active!active, Active!ServesOwn
<1> QED
  BY <1>1, <1>2, <1>3, <1>4, <1>5 DEF Active!Next

\* A document answers from a file that was uploaded for it, by an upload that is
\* over: never from another document's file, and never from one whose upload may
\* still fail.
THEOREM ServedIsOwn ==
  ASSUME NoLateFault
  PROVE  Spec => []Active!ServesOwn
<1>1. Active!Init => Active!ServesOwn
  BY DEF Active!Init, Active!ServesOwn
<1>2. TypeInv /\ Active!ServesOwn /\ [Active!Next]_(Active!active) => Active!ServesOwn'
  BY ServesOwnStep DEF TypeInv, TypeOK
<1> QED
  BY <1>1, <1>2, TypeInvariant, ServingImplemented, PTL DEF ServesActiveContent, Active!Spec

=============================================================================
