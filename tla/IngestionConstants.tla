-------------------------- MODULE IngestionConstants --------------------------
(* The parameters of Ingestion: who takes part, the limits, and what may fail. *)
EXTENDS Naturals

CONSTANTS
  Creates,     \* uploads of a new document; the document is named by its upload
  Replaces,    \* uploads with replace_document_id
  Deletes,     \* DELETE /documents requests
  Workers,     \* RQ worker threads (QUEUE_WORKER_COUNT per API instance)
  None,        \* no request, no job
  QueueMax,    \* QUEUE_MAX_SIZE
  MaxRetries,  \* QUEUE_JOB_MAX_RETRIES
  Faults       \* the infrastructure errors that may strike, see FaultKinds

(***************************************************************************)
(* Errors of a parser or an embedding provider are part of every run.  An  *)
(* error of the infrastructure strikes only where Faults says:             *)
(*   "enqueue"  a call of an upload raises before its job is queued        *)
(*   "route"    a call of the handler raises when its job is queued        *)
(*   "finish"   the last database write of a successful job raises         *)
(*   "record"   recording the outcome of a failed attempt raises           *)
(*   "payload"  artifact storage raises a raw error on a read              *)
(*   "redis"    a Redis command of a worker raises after the back-off, or  *)
(*              the push to the dead-letter list does                      *)
(*   "cleanup"  deleting chunks, or the artifact, or its link raises       *)
(***************************************************************************)
FaultKinds ==
  {"enqueue", "route", "finish", "record", "payload", "redis", "cleanup"}

ASSUME RequestsAssumption ==
  /\ Creates \intersect Replaces = {}
  /\ None \notin Creates \union Replaces
ASSUME QueueMaxAssumption == QueueMax \in Nat \ {0}
ASSUME MaxRetriesAssumption == MaxRetries \in Nat
ASSUME FaultsAssumption == Faults \subseteq FaultKinds
=============================================================================
