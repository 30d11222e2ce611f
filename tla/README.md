# A TLA+ model of ChatVector

ChatVector is a retrieval service: clients upload documents, background workers
extract, chunk, embed and store them, and chats are answered from the stored
chunks. This directory holds TLA+ modules for the parts of the backend and of its
Python client whose correctness depends on the order in which concurrent
requests, workers and restarts act, and for the pure functions between a
question and its answer; the TLC configurations that check them on small
instances; and TLAPS proofs of the results that hold for every instance.

Contents: 1 the system, 2 what can go wrong, 3 the modules and how they
correspond to the code, 4 the runs, 5 findings, 6 proofs, 7 what is left out,
8 the plan, 9 running it.

## 1. The system

State lives in PostgreSQL (the `documents` row, its chunks, sessions, chat
history), in Redis (the RQ list of jobs, the dead-letter list, idempotency
records, the start-up lock), in artifact storage (one object per document id)
and in the memory of each API process (tenant registry, rate limiter, the
asyncio queue when Redis is not used). Every access to the first three is an
await or a blocking call in a worker thread, so any other request or worker may
run between two of them.

| Component | State it keeps | Operations | Interacts through |
|---|---|---|---|
| Upload handler, `backend/routes/upload.py` | none of its own | insert or claim a row, enqueue, announce, refuse, give up | row, queue, artifact, idempotency record, tenant registry |
| Redis queue and worker, `services/queue_redis.py` | RQ list, dead-letter list, worker threads | enqueue, run a job, retry after a back-off, clean up, bury | row, artifact, pipeline |
| Ingestion pipeline, `services/ingestion_pipeline.py` | none | four stages, store or cutover, record an outcome | row, chunks, rate limiter, webhooks |
| Outcome recorder, `services/ingestion_outcome.py` | none | terminal or not, retrying write, terminal write | row, webhooks |
| Document row, `db/sqlalchemy_service.py` | `status`, `status_detail`, `artifact_uri`, chunks | one transaction per function | everything above |
| Artifact storage, `services/artifact_storage.py` | one object per document id | put, get, delete | enqueue, worker |
| Delete, `routes/documents.py` | none | read status, look at the queue, delete, invalidate | row, queue, tenant registry |
| Tenant registry, `services/tenant_registry.py` | a set of ids per tenant, the loaded mark | register, read or scan, invalidate | upload, chat, delete, documents table |
| Idempotency keys, `services/idempotency.py` | one Redis record per key | claim, wait, replay, complete, abort | upload, session creation |
| Rate limiter, `services/queue_base.py` | tokens, time of the last refill | acquire | worker threads |
| asyncio queue, `services/queue_asyncio.py` | queue, mirror of pending ids, dead-letter list, worker tasks | enqueue, work, retry, stop | row, pipeline |
| Start-up reconciliation, `services/stale_reconciliation.py`, `main.py` | a Redis lock with a TTL | fail what a dead process left, clear its jobs | row, queue |
| Database wrappers, `db/__init__.py`, `utils/retry.py` | none | call, classify an error, retry | every transaction |
| Webhooks, `services/ingestion_webhook.py` | RQ jobs | schedule, deliver, retry | outcome recorder |
| Chat, `routes/chat.py`, `services/chat_service.py` | the batch LLM semaphore | ask, stream, batch; store the turn | sessions, messages, documents, LLM |
| Sessions, feedback, `session_service.py`, `feedback_service.py` | rows | create, get or create, bind a document, read, delete; link feedback | chat, idempotency record |
| Retrieval, `retrieval_config.py`, `history_config.py`, `query_service.py`, `retrieval_service.py`, `graph_retrieval.py`, `reranker/`, `context_service.py` | none | configure, transform, scope, search, fuse, expand, rerank, cut | chat |
| Chunking, embedding, `extraction_service.py`, `ingestion_pipeline.py`, `embedding_service.py` | a cache of embeddings | clean, split, embed, record | pipeline |
| Python SDK, `sdk/python/chatvector` | locals of a call | request with retries, bulk upload, wait, read a stream | the HTTP interface |
| Providers, authentication, status pages, TypeScript SDK, frontend, tools | rows, or nothing | requests | listed with their status in `PROJECT.json` |

What makes each of the modelled parts correct:

* *Ingestion.* A file that was accepted is in one place until it ends, ends once
  and is reported; a document has one upload at work at a time; a document that
  serves content keeps serving it while it is replaced, and after the
  replacement fails; no document is left in a state nothing will ever end.
* *Tenant registry.* A cache that is trusted is complete, and so is what a read returns.
* *Idempotency keys.* One document or session per key, and a response goes only
  to the request body it belongs to.
* *Rate limiter.* The rate is kept whatever the threads do, and nobody starves.
* *asyncio queue and start-up.* The mirror that positions are read from follows the
  queue; a job takes one path; whatever is stopped or killed, no document stays in
  progress without an owner, and no start fails what a live replica works on.
* *Chat.* A turn is stored whole or not at all and its client is told which; what
  one tenant reads, cites or comments on is never another's; permits come back.
* *Retrieval and chunking.* Settings come from the layer that should decide them, a
  question is searched in its scope, no chunk is passed over for a worse one, and
  a vector, a page or an answer belongs to its own text or item.
* *SDK.* Retries duplicate nothing, "ready" means indexed, a summary is complete,
  every call ends, and a stream that failed is not taken for one that ended.

## 2. What can go wrong

`PROJECT.json` lists the hazards at their lines. The behaviours behind them are

* *interleavings* of upload handlers, workers, retries and deletes that share a
  row, an artifact key and a queue, where each step commits on its own;
* *stale values*: the status a delete has read, the rows a scan has read, a
  payload key that the next upload of the same document reuses;
* *partial failure*: an error between the push of a job and the answer,
  between the cutover and the last write, between "failed" and the clean-up, or in
  one of several uploads that run together;
* *retries and full queues*: a back-off that ends when the queue is full, a retry
  budget compared in two places;
* *crashes*: claims whose owner is gone, rows whose worker is gone, a reconciliation
  of which half was committed, replicas that start together;
* *lost answers*: a request, a Redis write or a commit that was carried out and whose
  acknowledgement never came, and that is then retried or given up;
* *cancellation*: a client that leaves a stream, a worker that is cancelled, a bulk
  upload that fails fast;
* *numeric edges*: fractional rates that are capacities too, history windows against
  the load limit, the overlap of chunks, the cap of a context.

## 3. The modules

### DocumentRow, IngestionConstants, Ingestion, IngestionProperties

`DocumentRow` gives, as operators on a row, what each function of
`sqlalchemy_service.py` commits in its one transaction. A row keeps `status`,
`status_detail` and whether `artifact_uri` is set: no condition of the ingestion
code reads any other column.

`Ingestion` is the system around it with the Redis backend. One action is one
database transaction, one Redis command or one storage call. `rpc`, `wpc` and
`dpc` say where each upload handler, worker thread and delete is; their values
name the next call.

| Model | Code |
|---|---|
| `CreateDocument`, `BeginReplacement` | `create_document`, `begin_document_replacement` with its three refusals |
| `CheckCapacity`, `PutArtifact`, `PushJob` | `_sync_enqueue`: LLEN, put, RPUSH |
| `EnqueueError`, `RolledBack` | one of the three raises and nothing is queued; the roll-back deletes the payload, or fails to |
| `PushUnacknowledged` | `_sync_enqueue` raises although the job is queued: a lost acknowledgement of RPUSH, or `queue_position` after it |
| `LinkArtifact`, `AnnounceQueued`, `RegisterSession` | `set_document_artifact_uri`, the handler's status write and the session registration, all *after* the push |
| `RouteError` | one of these three raises: the first is only logged, the others give the upload up |
| `RefuseFull`, `UndoUpload` | the two `except` branches of the handler |
| `TakeJob`, `FetchArtifact`, `FetchError` | RQ's pop; `storage.get` and its two kinds of error |
| `StartExtracting` .. `StartStoring`, `EmbedProgress` | the status writes at the start of each stage |
| `StoreContent`, `FinishJob`, `NotifyCompleted` | the chunk transaction (or cutover), the last write, the webhook |
| `PipelineError`, `MarkRetrying`, `PatchRetrying`, `CheckRequeue`, `PushRetry` | a failed attempt that is retried: the pipeline's record, the queue's own, the back-off, LLEN, RPUSH |
| `RecordFailure`, `ReportFailure`, `WipeChunks`, `PurgeArtifact`, `DetachArtifact`, `BuryJob` | a failed attempt that is terminal |
| `RecordDropped`, `ReportDropped` | a lost payload, and a retry that finds the queue full |
| `RedisError`, `RecordError`, `CleanupError` | the LLEN or RPUSH of a retry, or the dead-letter push, raises; the outcome cannot be written; a step of the clean-up raises |
| `ReadForDelete`, `CheckQueued`, `DeleteDocument` | the three steps of `DELETE /documents/{id}` |

A file is represented by the upload that sent it, a chunk set by the file it was
made from. Parser and provider errors may strike in every stage. Errors of the
infrastructure strike where the constant `Faults` allows them, in seven kinds:

| Kind | What raises | What the code does then |
|---|---|---|
| `enqueue` | LLEN, the storage write or RPUSH, nothing queued | roll back, record the failure, answer 500 |
| `route` | a call of the handler when its job is queued | the same, but for the link, which is logged |
| `finish` | the last database write of a successful job | the failure path, after the content is in place |
| `record` | recording the outcome of a failed attempt | the row stays as it was |
| `payload` | a raw error of the artifact storage on a read | the queue cleans up or retries, unrecorded |
| `redis` | LLEN or RPUSH of a retry, or the push of a dead letter | the error ends the job and its retry is lost; that of a dead letter is logged |
| `cleanup` | deleting chunks, artifact or link | logged, the next step follows |

A job that RQ pops is the one that was pushed, and RQ's
pop is atomic: this is the external part of the model. The trim of the
dead-letter list to its maximum is left out.

`IngestionProperties` holds the properties. "Pending" is the notion they share:
an upload is pending while its handler, a slot of the queue or a worker owes it
an outcome.

`ActiveContent` is the abstract specification, what `api-reference.md` says of
replacement: uploads that are new, open or closed, and the file each document is
served from. `Phases` and `Serving` map the tables, the queue and the workers to
it: an upload is open while it is pending, and a document serves its chunk set
while its row exists and says "completed". A document may go out of service at any
time: by a delete, by the late "queued" of section 5, or by the clean-up of its
failed first upload, also of section 5. It may not come back by anything but an upload that ends well.

### TenantRegistry

One tenant in one API process: `cache` and `loaded` are the two module-level
variables, `db` is the tenant's rows. Code between two awaits is one action, so
a read is `BeginRead`, `ScanRows` (the query's snapshot) and `FinishRead` (merge
and mark); uploads and chats register after an await of their own, deletes
invalidate after theirs. `disabled` is `TENANT_REGISTRY_DISABLED`, chosen once.
A restart empties the memory and drops the requests under way. Documents are
deleted only after their upload handler has returned: the delete refuses any
document in a mid-flight status, which the row has until then, unless a very
fast worker beats the handler, and that is the subject of `QueuedIsPending`.
A delete invalidates whenever it gets there, also while a scan's rows wait to be
merged, as in the code. `wiped` is a ghost: what such an invalidation took out of
the cache and nobody has put back. `LoadedIsComplete` is the docstring's guarantee
and fails (section 5); `MissesOnlyWiped` says that nothing else is missing, and
`ReadsAreComplete` that a read which asked the database is whole even then.

### OncePerKey, Idempotency

`OncePerKey` states what a key promises in terms of whose claim is under it, whose
response is stored and who is at work: only the living holder releases a claim, only
the end of the key's period takes a response away, and a holder that dies leaves its
claim. An `abort` that deleted what another request has put there would break it. `Idempotency` is the code: one record in Redis, GET, SET NX,
SET and DELETE as separate steps, a waiting loop with a timeout, a handler that
accepts, refuses for good, refuses for now or raises, the last possibly after it
has created something, and one that dies. Every command may also raise
(`ReadError`, `ClaimError`, `CompleteError`, `AbortError`); a write that raises was
carried out or was not, before the error is seen and not later. `Abstract` maps
the record to the promise. One assumption: the TTL, a day by default, outlasts
every handler.

### TokenBucket, RateLimiter

The bucket in integer units, time in ticks. The section under the thread lock is
one action, the sleep is not. `budget` is a ghost: the contents of a bucket that
is refilled at every tick, which is what "rate" means; the code refills lazily.
`Token`, `Rate` and `Capacity` are free, so that fractional rates are exact.

### MemoryQueue

One API process with the asyncio backend, from `Boot` through the two
transactions of `fail_stale_documents_global` (`FailStaleDocuments`,
`FailStaleReplacements`, either of which may fail in `ReconcileError`),
`StartQueue`, uploads, worker tasks and retries, to `StopQueue`, `Exit` or
`Crash`, and again. Everything but the rows is lost with the process. `queue`,
`pending` and `dlq` are the asyncio queue, its mirror `_pending_doc_ids` and
`_dlq`. The pipeline is one step from `StartPipeline` to its outcome, because
`Ingestion` has its stages. The project runs Python 3.11, where
`asyncio.wait_for(queue.get(), 1.0)` runs the get as a task of its own: taking a
job off the queue and resuming the worker are two steps, workers may resume in
another order than they were served in, and one that is cancelled between the two
gets its job all the same.

### Startup

Two or more replicas with the Redis backend around the reconciliation lock:
SET NX, its TTL, SELECT, UPDATE and `clear_stale_jobs` as separate steps, uploads
and jobs of replicas that already run, crashes. Rows are statuses only.

### Chat, ChatProperties

`Chat` is `POST /chat`, `/chat/stream`, `/chat/batch`, `POST /sessions`,
`GET /sessions/{id}/history`, `DELETE /sessions/{id}`, `POST /feedback` and
`DELETE /documents/{id}` over the tables they share. One action is the work
between two awaits. A turn is a request or one item of a batch; `Request` gives
what it asks for and `Mixes` which turns are sent together, so that one run covers
several compositions without their product.

| Model | Code |
|---|---|
| `Enter`, `GetSession`, `InsertSession`, `SelectSession`, `CreateFresh` | `get_or_create_session`: get, conflict-safe insert, select, fresh UUID |
| `AssertOwned`, `BindCheck`, `Link` | ownership of the document; `register_session_document`, a check and an insert |
| `LoadHistory`, `BeginTransform`, `EndTransform`, `EmbedBatch` | history, the two uses of the batch semaphore, the one embedding call of a batch |
| `ResolveScope`, `Search` | `_resolve_retrieval_doc_ids` and the search with its tenant filter |
| `Token`, `BeginGenerate`, `Generate`, `Release` | the answer, streamed or whole |
| `Store`, `Respond`, `Marker`, `Cancel` | `store_chat_turn` in one transaction, the last events, a client that leaves |
| `DeleteSession`, `DeleteDocument`, `FeedbackSession` .. `FeedbackInsert` | the transactions beside it |

Every database and LLM call may fail. `held` and `deletes` are ghosts. `Kept` filters
the rows of a table by a recursive function, about which one can prove something. The
registry is taken complete, which is the result of `TenantRegistry`.

### Sdk

`upload_many` of the synchronous client (a thread pool) or of the asynchronous one
(`gather`), with waiting, then `upload_document(replace_document_id=...)`,
against a server that loses requests and replies, refuses and throttles. An
item's `call` holds its locals: the route it posts to, the attempts of the
request, the waits for the rate limit and the ticks to its deadline. Where the two
clients differ, both are there (`JoinPool`, `Gather`). The server has no
`/ingest`, as in this repository, so that the first POST of a file falls back to
`/upload`.

### Algorithms

Each is a module of operators without variables; `MCAlgorithms` takes one input of
one of them in a step, and an invariant compares the result with what is promised.

| Module | Functions |
|---|---|
| `DbCalls` | `retry_async`, `is_transient_error` and the policy of each wrapper of `db/__init__.py`; the outcomes of four attempts, the lost acknowledgement included |
| `RetrievalConfig` | `merge_retrieval_field_layers`, presets, `resolve_retrieval_config` |
| `TurnHistory` | windows, load limit, character budget and resolution policy of `history_config.py` |
| `QueryTransform` | the gate, the resolution of a follow-up, the strategies and their fallbacks |
| `Retrieval` | scope, registry, metadata filter, the WHERE of the search, rank fusion, the merge of several queries |
| `Selection` | graph neighbours, both rerankers and their fallback, the context's cap, the answers of a batch |
| `Chunking` | pages, paragraph and semantic chunkers, the embedding batches and the cache, chunk records |
| `Sse` | the two event streams, the server's generators composed with the SDK's parsers over a connection cut at any line |

`Lists` has what they do with lists: cut, pick, sort stably by an order, keep the
first of each key, join, add up. A sorted list is defined by the number of elements
ahead of each (`InOrder`), not by a sorting procedure. Recursion is by recursive
functions. The splitter that `Chunking` has is the repository's own fallback;
langchain's is not modelled. The corpus and the order of its documents (`Corpus`,
`DocOrder`) and the embedding batch (`ProgressBatch`,
`_EMBEDDING_PROGRESS_BATCH_SIZE`) are constants, the last any positive number.

### Modules for checking and proving

`MCIngestion`, `MCBackends`, `MCSharedRecords`, `MCChat`, `MCSdk` and `MCAlgorithms`
hold the scenarios, symmetry sets, requests and inputs of the runs. `MCBackends` has
the two queues and the limiter side by side, `MCSharedRecords` the keys and the
registry: a behaviour belongs to the part it starts in, and the other parts' variables
never change in it. The modules ending in `Proofs`
hold the theorems of the module they are named after, `AlgorithmProofs` those of all
the algorithms' modules and lemmas about `Lists`. Definitions introduced by a comment
that starts with "Slip" are plausible mistakes in the code beside them; each property
is known to fail when one of them takes the place of the definition that follows.

## 4. The runs

| Run | Instance | What it shows |
|---|---|---|
| `ingestion` | three scenarios around 1 document, 1 slot, 1 retry: *races*, 2 replacements, 2 workers, faults before a push; *faults*, 1 replacement, 2 workers, every fault but `route`; *removal*, 1 replacement, 1 delete, 1 worker, `route` and `finish` | `TypeOK`, `SingleCustody`, `OneOutcome` and `ContentOutlivesUploads` in all three; `OneUploadPerDocument`, `ProgressIsOwned`, `BytesMatch` in the races |
| `backends`, in-memory part | a new document and a replacement, 2 workers, 1 slot, 1 retry, 2 starts, fairness | `MirrorFollowsQueue`, `JobTakesOnePath`, `InProgressIsOwned`, `AdmittedEnds` |
| `backends`, Redis part | the same two uploads, 2 workers, faults before a push, fairness | `EveryJobReported`, `ClaimsReleased` |
| `backends`, limiter part | 4 batches, 1.5 per second, ticks of 0.2 s, fairness | `RateKept`, `EveryBatchGoesOn` |
| `shared_records`, key part | 2 bodies, 2 clients each, 1 expiry, Redis errors | `OneAcceptance`, `ReplaysOwnBody`, `ClaimHasHolder`, `KeepsPromise` |
| `shared_records`, registry part | 2 documents, 1 chat, 2 reads, deletes that invalidate at any time, 1 restart, 1 scan error | `MissesOnlyWiped`, `ReadsAreComplete` |
| `chat` | 2 tenants, 3 documents, 1 session id, 5 mixes of up to three turns, 1 feedback, fairness | `TurnsAreWhole`, `TenantsApart`, `FreshOnlyForForeign`, `TellsWhatWasStored`, `PermitsKept`, `EveryTurnEnds` |
| `sdk` | 3 paths of which one may be missing, 2 at a time, 1 replacement, 1 retry, a wait of 2 ticks, fairness | `NoDuplicateUploads`, `ReadyIsIndexed`, `BulkUploadSettles`, `CallsEnd` |
| `algorithms` | every input of the domains in `MCAlgorithms` | one invariant for each promise, named there |
| `ingestion_bug_late_queued`, `ingestion_bug_failed_in_service`, `ingestion_bug_content_erased`, `registry_bug_lost_document`, `startup_bug_live_work`, `sdk_bug_lost_summary` | as small as the behaviour allows | section 5 |

Some properties are conjunctions of parts that belong together and are stated
under their own names: `ProgressIsOwned` of `ClaimHasOwner` and `StageHasUpload`,
`ContentOutlivesUploads` of `CompletedHasContent` and what a step may swap, `TenantsApart` of `HistoryIsOwn`,
`SourcesAreOwn` and `FeedbackLinked`, `TellsWhatWasStored` of `ToldAsStored` and
`StreamContract`, `JobTakesOnePath` of `OneCopyOfJob`, `RetriesEnd` and
`DeadLettersAreFailures`.

*Bounds.* One slot and one retry make the queue full at the first upload and a
retry compete with it; a second slot would only postpone the same event. Two
workers are what it takes for two attempts to overlap or to resume in the wrong
order, two replacements for one to be refused, to follow, or to overtake the
clean-up of the other. Each ingestion scenario leaves out what another has, because
their product is out of TLC's reach; the theorems of section 6 that name no
fault or number cover it. Two reads let a scan overlap another read, two documents let
one be deleted while the other is registered. Two clients per body are a retry,
two bodies a mismatch, one expiry the reuse of a key. Four batches at 1.5 per
second empty the bucket and make callers sleep for the same token. Two starts are
a life before and one after every stop, crash and half-finished reconciliation.
In `chat` one permit makes the items of a batch wait for each other, history
limits of two and of one message make the slice bite, between turns and within one, and one session id asked for by two
tenants is the race; its mixes pair every kind of turn with one it shares rows
with. In `sdk` three files on two tasks leave one waiting when another fails; the
wait of two ticks ends in a poll, in a sleep or by the deadline. The algorithms
run over 100 history messages and 300 polls shrunk to 4 and 3 (`MaxWindow`,
`MaxPolls`) and batches of 10 shrunk to 2 (`ProgressBatch`): what they compare is
on both sides of each limit. `MaxExpiries`, `MaxRestarts`, `MaxScanErrors`,
`MaxStarts`, `MaxDeletes` and `MaxFeedback` bound counters that exist only to
keep the instances finite; the theorems have no such bounds.

*Faults.* `TypeOK`, `SingleCustody`, `OneOutcome` and `ContentOutlivesUploads` hold
and are proved under every fault. The other ingestion properties hold only without some,
and the theorems say without which. Exclusion, the worker's bytes and the refinement
are proved under `NoLateFault`, without `route` and `finish`: with `route` the handler
marks a document failed while its job is still queued, and a replacement may run
beside it; with `finish` a replacement whose content is in service is reported as
failed, which is the run `ingestion_bug_failed_in_service`. `ProgressIsOwned` and
`ClaimsReleased` need `OnlyEnqueueFails`, as does `EveryJobReported`: with `record` an
outcome that could not be written leaves the row as it was, with `payload` a raw storage
error skips the recorder, and with `redis` an attempt that was marked for retry is lost.
`Faults` is a constant of the model: what these properties show is that the code keeps
them as long as those calls succeed, and nothing about what it does when they fail.

*Deadlock* is checked in the `ingestion` run, where an action `Quiescent` stutters in
the states in which every request is answered and the queue is empty, so that any
other standstill is an error. The other modules have
finitely many requests, starts or inputs and stop when these are over.

*Fairness.* The Redis part of `backends` assumes that a handler that has begun runs on
(uvicorn awaits it; a dead process is a crash, which this module excludes), that
each worker thread keeps stepping (RQ's loop), and that the embedding stage,
whose batches are finite, is left. The instance has no delete: the notifier is
silent about a row that is gone, so a job whose document was deleted is reported
to nobody. No fairness is assumed of clients, deletes or
of failures. The limiter part assumes that time passes and that an awake caller
gets the lock and runs. `threading.Lock` is not fair, but under weak fairness of
each caller no one is promised more than a turn; a token must still be there at
that turn. With finitely many batches this suffices. The in-memory part and `chat`
assume that the event loop resumes what can run, that calls return or time out,
and that a container which is down is started again; crashes, stops and failed
reconciliations are free. `AdmittedEnds` speaks of a server that is up after a
complete reconciliation, which is all that the code promises. `sdk` assumes the
caller's own tasks only; a request that the server never answers times out.

## 5. Findings

Six runs end in a counterexample: each checks what the repository's own texts say
against the code.

* `ingestion_bug_late_queued`. `upload.py:184` writes "queued" after the push. A
  worker that has finished by then has its "completed" overwritten, and nothing
  will ever move the document out of "queued".
* `ingestion_bug_failed_in_service`. After the cutover of a replacement,
  `ingestion_pipeline.py:1274` merges the job metadata in a transaction of its own. When
  it raises, the handler at 1323 reports the replacement as failed, and the document
  answers from its content; "Failures leave the active content untouched" (1189).
* `ingestion_bug_content_erased`. A failed first ingestion commits "failed" and then
  deletes the chunks of the document. With two workers a replacement can be claimed,
  ingested and completed in between, and the deletion takes its chunks: the document
  is completed and empty, although `upload.py:80-83` keeps prior content until the
  swap. `QUEUE_WORKER_COUNT` is 3 by default. What the code does keep is
  `ContentOutlivesUploads`: nothing but this clean-up empties a completed document.
* `registry_bug_lost_document`. A read has its rows and waits to be resumed; an upload
  registers a document; a delete drops the cache; the read merges its rows and marks
  the tenant loaded (`tenant_registry.py:114`). The document is missing from every
  tenant-wide retrieval until the next delete or restart, although "the cache is only
  considered complete for a tenant after a full DB scan succeeds" (19-20).
* `startup_bug_live_work`. A replica that finds the reconciliation lock taken
  starts at once; its first upload may be selected, and failed, by the winner,
  which has yet to read the stale documents. The lock is there so that "two
  replicas starting together must not fail a document another replica has already
  started" (`ARCHITECTURE.md:413`). The lock's TTL may run out in this run too. It is a
  second way to the same end, longer by a few steps, so that TLC prints the first: a
  replica that starts after the TTL reconciles again and fails what the others, long
  at work, have in progress (`main.py:169-170` says that it cannot). With the loser
  made to wait for the winner, TLC shows the second way in ten states.
* `sdk_bug_lost_summary`. A path that is not a file raises out of `upload_many`, by
  either client, and the outcomes of the others are lost with the summary; the
  asynchronous client leaves their uploads running. `client.py:213-214` says that
  failures are captured per file. What the clients do keep is `BulkUploadSettles`.

Other departures that the models made visible, and that shape the statements of the
properties, without a run of their own:

* a worker that has recorded its outcome deletes the artifact of the document id,
  by then perhaps the payload of the next replacement (with two workers);
* a rate below one per second is a capacity below one token, and no caller gets one;
* a stream whose client leaves after the turn was stored is persisted, although
  `routes/chat.py:332-334` says interrupted streams are not;
* a turn that is stored after its session was deleted comes back as history when
  the id is used again;
* a chat stream whose connection ends cleanly between two events, or is torn before
  the name of the next one can be read, ends for the SDK's caller like one that was completed, but for the missing completion;
* a stored idempotent response whose SET raised after it was carried out replays an
  acceptance for a document that the handler has marked failed;
* a history window that is requested with an odd number of messages above the default
  loads an answer without its question; `TurnsAreWhole` allows that of the oldest
  message of such a window, and of nothing else;
* when an attempt of `begin_document_replacement` is committed and its answer lost,
  the retry is told that a replacement is in progress and nobody owns it.

## 6. Proofs

| Theorem | States | For |
|---|---|---|
| `IngestionProofs`: `TypeCorrect`, `CustodyCorrect`, `OutcomeCorrect` | `[]TypeOK`, `[]SingleCustody`, `[]OneOutcome` | any uploads, deletes, workers, queue limit, retries, faults |
| `IngestionProofs`: `ContentKept` | `[]CompletedHasContent`, and `ContentOutlivesUploads` | the same |
| `IngestionProofs`: `UploadsExclusive`, `OwnBytes` | `[]OneUploadPerDocument`, `[]BytesMatch` | the same, faults within `NoLateFault` |
| `IngestionProofs`: `ServingImplemented`, `ServedIsOwn` | `Spec => ServesActiveContent` (refinement of `ActiveContent`), and its invariant | the same |
| `IngestionProofs`: `ProgressOwned` | `[]ProgressIsOwned` | the same, faults within `OnlyEnqueueFails` |
| `ChatProofs`: `TurnsStayWhole`, `TenantsStayApart`, `ConvergeOnSession`, `ClientsToldTrue`, `PermitsAlwaysKept` | `[]TurnsAreWhole`, `[]TenantsApart`, `[]FreshOnlyForForeign`, `[]TellsWhatWasStored`, `[]PermitsKept` | any turns, requests, mixes, tenants, documents, sessions, permits, deletes, feedback |
| `AlgorithmProofs`: `CallsAlwaysSafe`, `FieldsFollowLayers`, `WindowsFromNewest`, `QueriesFromQuestion` | `[]` of `CallsAreSafe`, `ConfigFollowsLayers`, `HistoryFromNewest`, `QueriesFollowQuestion` | inputs of any size; the run's states follow |
| `AlgorithmProofs`: `StreamsAlwaysConclude`, `SearchesStayInScope`, `BestChunksAlwaysFirst`, `ResultsAlwaysLineUp` | `[]` of `StreamsConclude`, `SearchStaysInScope`, `BestChunksFirst`, `ResultsLineUp` | any corpus, tokens, scores, candidates, texts; cuts at any line; the run's states follow |
| `TenantRegistryProofs`: `RegistryComplete`, `AnswersComplete` | `[]MissesOnlyWiped`, `[]ReadsAreComplete` | any documents, chats, reads, restarts, scan errors |
| `IdempotencyProofs`: `ExclusionCorrect`, `AcceptanceCorrect`, `ReplayCorrect`, `ClaimHeld` | `[]OneAtATime`, `[]OneAcceptance`, `[]ReplaysOwnBody`, `[]ClaimHasHolder` | any bodies, clients, expiries, Redis errors |
| `IdempotencyProofs`: `PromiseKept` | `Spec => KeepsPromise` (refinement of `OncePerKey`) | the same |
| `RateLimiterProofs`: `RateCorrect`, `TypeCorrect` | `[]RateKept`, `[]TypeOK` | any callers, token, rate, capacity |
| `MemoryQueueProofs`: `MirrorFollowed`, `JobsTakeOnePath`, `ProgressOwned` | `[]MirrorFollowsQueue`, `[]JobTakesOnePath`, `[]InProgressIsOwned` | any uploads, workers, sizes, retries, starts |
| `SdkProofs`: `NoDuplicates`, `ReadyMeansIndexed`, `BulkSettles` | `[]NoDuplicateUploads`, `[]ReadyIsIndexed`, `[]BulkUploadSettles` | any files, tasks, retries, timeouts |

They rest on the named assumptions of the modules (`RequestsAssumption`: creates
and replaces are disjoint; `NoneAssumption`; positive limits and units;
`MemoryQueueAssumption`, `SdkAssumption`: the same, and finitely many workers;
`ChatAssumption`: finitely many turns, with names of their own) and on the conditions
that the table names.

*Ingestion.* `TypeOK` is not inductive: a worker's row write needs a document to
write to, and the attempt of a requeued job is bounded only because the worker
decided to retry below the limit. `Aimed` adds both, and `TypeInv` is inductive.
The others build on each other:

* Custody is inductive relative to `TypeInv`: a handler pushes once and gives the
  upload up with the push, a pop moves it from the queue to one worker, a retry
  moves it back, every other step leaves it where it is or ends it.
* `OutcomeInv` says by the place of an upload what has been reported of it so far.
* Exclusion is inductive only with what rows say of uploads (`Says`): the marker or
  the status of every pending upload is in its row, and
  `begin_document_replacement` reads the row. `Begun` gives each document the upload
  that created it.
* `Stored`: under a document's key is the payload of its pending upload or nothing,
  which is why a worker never reads another's bytes.
* `Owned`: a marker or a stage in a row belongs to a pending upload; what a worker
  writes about progress is about its own upload (`WorkerMarks`).
* `OwnFiles`: what is stored under a document's key, and what its workers have read, is
  a file of an upload of that document, under every fault.
* `ContentInv`: whoever is about to erase chunks has reported the first ingestion of
  the document as failed, and whoever completes a new document has stored something.
* `ServiceInv`, under `NoLateFault`: whoever completes a new document finds its
  own file there. With it every step of `Next` is a step of `ActiveContent` or none:
  the four steps that resolve an upload (`Resolves`), two of a handler and those that
  lose an outcome close it; the cutover and the "completed" write of a new document
  put its file into service; three steps withdraw; all others change neither
  (`WorkerImplements`, `HandlerImplements`, `DeleterImplements`).

*Chat.* The eighteen steps of a turn come in eleven forms (`Moves`): which fields of
its own record change, and which table is appended to or cut. Each invariant is shown
for the forms. `Gate` is the barrier of a batch: while one item is being prepared none has begun its
work, so that a failing preparation fails them all with nothing stored. `PermitsInv`
counts the turns between taking and giving back a permit as a finite set. `Told` relates what the client was sent to what
was committed. `MessagesInv` is that messages stand in pairs of one turn (`WholeInv`)
and stand in the session of that turn (`PlacedInv`), which deletes preserve because
they remove whole sessions. `FeedbackInv` adds what a feedback has checked between its
three transactions (`CheckedInv`), `HeldInv` that whoever gets a fresh session had asked
for one that another tenant has held.

*Algorithms.* Each theorem is first shown for every input, as a conjunction of
statements about the functions, and then of the states of `MCAlgorithms`, whose inputs
are some of them. The inputs are sequences of any length, and what a recursive
function computes is shown without the library's induction theorems: a statement
about a position that fails has a least position where it fails (`Least`), the
function's defining equation leads from there to a smaller one, and there is none.
`UpTo` is the induction that follows from it, `Recursion` the existence of what a
recursive function defines, so that one may reason with its equations (`Computed`).
On top, each algorithm has what holds up to a position: the sums of the messages from
there on for the character budget (`Newer`), the attempts made of a call, the queries
gathered from the lines read (`Collected`).

* *Lists.* In a strict total order of a finite set, the number of elements ahead of
  an element is a bijection onto 0 to n - 1 (`InOrderLists`). So a sorted list has
  every element once, in order (`Sorts`), a selection keeps the order of what it
  selects (`Picks`), and the first of each key are those with no earlier one
  (`Firsts`).
* *Streams.* The parser's state after k lines is a function of the events that were
  complete by then (`States`, `After`). A connection cut at any line, in the middle
  of a line or lost thus leaves the caller with a prefix of the tokens and an error,
  with everything and the turn's own outcome, or, when it is cut between two events, in
  the blank line that ends one or before the name of the next (`Torn`), with a prefix
  that ends without an error. A status stream is read over
  `MaxPolls` polls, 3 in the model and 300 in the code, each with any row.
* *Scope.* A chunk comes from a search of one document that was let through, a
  neighbour from the chunks whose document is allowed; sorting, merging and cutting
  add none.
* *Rankings.* `Bests` is that the chunks of a document are listed without
  repetition, the better scores first, and that what is left out scores no better
  than what the limit let in. Merged over queries and documents, the list keeps the
  first two, and for one query the third (`RetrievalRanks`). A fusion (`Fuses`) adds
  the shares of two ranks; a chunk that is `AsGood` in both lists and better in one
  has the larger sum. The model counts shares in units of 1/`Common`, rounded down, which tells
  neighbouring ranks apart up to some 3900 places; hence the bound of 1900 results
  in `FusionInput`. `routes/chat.py` takes 20 at most. A reranker is followed
  place by place through the vendor's answer, or through its fallback.
* *Texts.* Every turn of the chunker's loop keeps that all sentences before its
  position are covered by chunks that rise and stay in the text (`Held`); one turn
  adds a `Piece`, and a sentence longer than a chunk is cut without gap (`Tiles`).
  The batches of embeddings cut the list of texts without gap, for every batch size.

`Taken` says of each input that `MCAlgorithms` takes that it is one the theorem is
about (`TurnInput`, `SearchInput`, `FusionInput` and the like), with what the code
ensures of it: candidates have ids of their own, chunk sizes are positive.

*Tenant registry.* `Covered` says of a loaded cache what `MissesOnlyWiped` says, and
that while a scan waits to be merged, cache and snapshot together hold what is
registered and was not wiped. `Owed` follows what a read owes from its beginning to its
answer, and `Settled` that a registered document is not inserted again. Nothing is
assumed of when an invalidation comes.

*Idempotency keys.* `ClaimOwned`: whoever is between claim and completion finds its
own claim in Redis, and a claim belongs to somebody at work, crashed or cut off
from Redis (`Keeping`). Exclusion follows at once. `AcceptedRecorded` ties every
acceptance of the period to the record, which gives at most one. The refinement
needs no more: a step that changes the record is an acquisition, a store, a
release by its holder, or an expiry when nobody is at work.

*Rate limiter.* `LazyRefill`: refilling at the next turn gives what refilling at
every tick would have given, so that the ghost equals the real contents and is
never negative.

*asyncio queue.* `IInv` says what each phase means: a worker holds a job exactly
between two waits (`Holds`), what the process has in each part of its life
(`Life`), where the handler and the job of an upload are together (`Custody`),
how often a job has run by the place it is in (`Budget`), what a row may say of it
(`RowSays`) and what start-up has left (`Reconciled`). The mirror is a second
invariant on top, `MirrorInv`: as many entries are ahead of the queue as workers
were handed a job and have not resumed, counted as a finite set.

*SDK.* `IInv` says for each item what the phase of its call, its result and the
server's row have to do with each other (`Item`), and for the whole what the
caller was given and what still runs (`Joined`). No POST is sent again by the request
loop, so an item is made once; a row is ready only after the server has ingested what
it took.

Only model-checked: `Startup`, whose property is one that the code violates; all
liveness (TLAPS has no `ENABLED` and no fairness reasoning here); and of course all
violations. The refinement of `ActiveContent` is proved and is not a property of a run; TLC confirms it when
`PROPERTY ServesActiveContent` is added to `ingestion_bug_late_queued.cfg` in place of
its invariant, with one worker or two and every fault but "route" and "finish", and
refutes it when "route" is among them.

## 7. What is not modelled

`PROJECT.json` gives a reason for each component. In short: a worker process that
dies in the middle of an RQ job, since what becomes of the job is decided by RQ;
the delivery of a webhook, which shares no state with anything; calls to providers,
prompts and parsers of file formats, which appear as steps that succeed or fail;
authentication, middleware, status pages, migrations, job metadata, evaluation and
tools, which hold no state that the modelled parts depend on; the TypeScript SDK
and the frontend, clients like the modelled one. Typed responses, debug payloads and
wording are left out throughout. Two processes that share a tenant registry are
excluded by configuration (`TENANT_REGISTRY_DISABLED`), which the model covers as
`disabled`. The retry of `fail_stale_documents_global` is checked as a call and is
not composed with the queue it feeds.

## 8. Plan

Done: the Redis ingestion core, the tenant registry, idempotency keys, the rate
limiter, the asyncio backend with crash and restart, the start-up lock, chat with
sessions and feedback, the SDK's upload protocol, the algorithms of retrieval,
chunking, history, streams and retries.

Proved: every safety property that a passing run checks, of ingestion, of chat, of the
asyncio queue, of the tenant registry, of the keys, of the limiter, of the SDK and of
the algorithms, and two refinements.

Next, in order:

1. `Startup`: what the lock does give, one reconciliation at a time within its TTL,
   as a property, then a theorem.
2. The retried `fail_stale_documents_global` composed with the queue it feeds.
3. A worker process that dies in the middle of an RQ job, once RQ's own requeueing is
   modelled.

## 9. Running it

    tlc -workers 2 -config ingestion.cfg MCIngestion
    tlapm IngestionProofs.tla

`PROJECT.json` names the module and the configuration of every run. Each run takes
three minutes at most on two cores, each proof module a few, `AlgorithmProofs` about
twenty.
